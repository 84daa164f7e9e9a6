------------------------- MODULE CompletionPrograms -------------------------
(***************************************************************************)
(* Inputs of the completion analysis: functions of up to four blocks over  *)
(* the remotes x and y, the futures f and g and the record h.  A phrase is *)
(* what one statement lowers to: a value is built in the temporary t,      *)
(* stored, and t destroyed.                                                *)
(***************************************************************************)
EXTENDS Sequences

X == <<"x">>
Y == <<"y">>
F == <<"f">>
G == <<"g">>
T == <<"t">>
H == <<"h">>

Copied(places) == [i \in DOMAIN places |-> [place |-> places[i], moved |-> FALSE]]
Moved(place) == <<[place |-> place, moved |-> TRUE]>>

Fresh == [op |-> "store", to |-> T, from |-> <<>>]
Drop(place) == [op |-> "destroy", to |-> place]
Bind(place) == <<[op |-> "store", to |-> place, from |-> Copied(<<T>>)], Drop(T)>>
Issue(owners) == <<Fresh, [op |-> "request", to |-> T, from |-> Copied(owners)]>>

Spawn(x) == <<Fresh, [op |-> "owner", to |-> T]>> \o Bind(x)
Request(f, owners) == Issue(owners) \o Bind(f)
Discard(x) == Issue(<<x>>) \o <<Drop(T)>>
Await(f) == <<[op |-> "complete", from |-> Copied(<<f>>)]>>
MoveTo(from, to) == <<[op |-> "store", to |-> to, from |-> Moved(from)]>>
Leave(places) == [i \in DOMAIN places |-> Drop(places[i])]

End == Leave(<<H, G, F, Y, X>>)

Phrases == {Request(F, <<X>>), Request(G, <<X>>), Discard(X), Await(F), Await(G)}
Straight == Phrases \cup {Spawn(X), Spawn(Y), Request(G, <<Y>>), MoveTo(X, Y), MoveTo(F, G),
                       MoveTo(F, H \o <<"v">>), Await(H), Await(H \o <<"v">>)}

Goto(ops, to) == [ops |-> ops, to |-> to, end |-> "goto"]
Finish(ops) == [ops |-> ops \o End, to |-> <<>>, end |-> "return"]
Fails(ops) == [ops |-> ops \o End, to |-> <<>>, end |-> "fail"]

\* A branch around one phrase, which may fail.  The first phrase uses no more
\* than the remote.
BranchFunctions ==
    {<<Goto(Spawn(X) \o p1 \o p2, <<2, 3>>), Goto(p3, <<3, 4>>), Finish(p4), Fails(<<>>)>>:
        p1 \in {Spawn(Y), Request(F, <<X>>), Request(G, <<X>>), Discard(X), MoveTo(X, Y)},
        p2, p3 \in Straight, p4 \in Phrases}

\* A loop over two phrases, with the owners created before it.
LoopFunctions ==
    {<<Goto(Spawn(X) \o Spawn(Y) \o p1, <<2>>), Goto(p2 \o p3, <<2, 3>>), Finish(p4)>>:
        p1 \in Straight, p2, p3 \in Phrases \cup {Request(G, <<Y>>), MoveTo(F, G)}, p4 \in Phrases}

\* A worker replaced in every turn of a loop before the last one's request is
\* awaited:
\*   let x = remote V
\*   let f = x.work()
\*   let y = remote V
\*   loop { y = remote V   break if c   await f   f = y.work() }
\*   await f
ReplacedFunctions ==
    {<<Goto(Spawn(X) \o Request(F, <<X>>) \o Spawn(Y), <<2>>),
       Goto(Spawn(Y) \o Await(F) \o Request(F, <<Y>>), <<2, 3>>),
       Finish(Await(F))>>}
=============================================================================
