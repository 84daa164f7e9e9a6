-------------------------- MODULE RemoteCompletion --------------------------
(***************************************************************************)
(* The remote-completion analysis, compiler/src/ownership/remote.rs, that  *)
(* rejects a function in which the owner of a remote object may leave      *)
(* scope while a request is outstanding (E0730), together with a run of a  *)
(* function it has accepted.                                               *)
(*                                                                         *)
(* The analysis explores the ownership CFG path by path.  It names an      *)
(* owner, and a request, by the operation that creates it.  The run names  *)
(* them by a number that is never used again, and counts a request as      *)
(* complete only when it, or a later one of the same worker, was awaited.  *)
(***************************************************************************)
EXTENDS Integers, Sequences, FiniteSets, SequencesExt

CONSTANTS
    Functions,    \* the functions analysed: sequences of [ops, to, end]
    Parameters,   \* the places of remote parameters |-> "borrow" or "consume"
    DirectFuture, \* whether the result type is a future
    PathLimit,    \* the states kept for a block before giving up (256)
    MaxRequests   \* bound on the remotes and requests of a run

VARIABLES
    mir,       \* the function
    seen,      \* seen[b]: the states b was processed in
    work,      \* queue of <<block, state>>
    verdict,   \* "checking", "accepted" or "rejected"
    at,        \* <<block, operation>> the run performs next
    holds,     \* the run's contents: <<place, identity>>
    sent,      \* sent[n]: the remote the run's n-th request went to
    done,      \* the requests known to be complete
    escaped    \* identities returned to the caller

checkVars == <<mir, seen, work, verdict>>
runVars == <<at, holds, sent, done, escaped>>
completionVars == <<checkVars, runVars>>
----------------------------------------------------------------------------
(* Contents of places: a set of <<place, identity>>, the same for the     *)
(* analysis and the run.                                                  *)

PlaceContains(parent, child) == IsPrefix(parent, child)

\* What a place holds, with the path below it; the whole of a containing
\* place counts as its own.
Read(contents, place) ==
    {<<SubSeq(c[1], Len(place) + 1, Len(c[1])), c[2]>>:
        c \in {x \in contents: PlaceContains(place, x[1])}} \cup
    {<<<<>>, c[2]>>: c \in {x \in contents: PlaceContains(x[1], place) /\ x[1] # place}}

RemovePlace(contents, place) == {c \in contents: ~PlaceContains(place, c[1])}

\* The values of several origins, each [place, moved].
ValueOf(contents, from) == UNION {Read(contents, from[i].place): i \in DOMAIN from}
Remaining(contents, from) ==
    {c \in contents: \A i \in DOMAIN from: from[i].moved => ~PlaceContains(from[i].place, c[1])}

Store(contents, to, values) ==
    RemovePlace(contents, to) \cup {<<to \o v[1], v[2]>>: v \in values}

OfKind(kind, values) == {id \in {v[2]: v \in values}: id[1] = kind}
----------------------------------------------------------------------------
(* The analysis.  A state is [contents, pending, transferred, returned];   *)
(* pending maps the sites of outstanding requests to their owners.         *)

InitialState ==
    [contents |-> {<<p, <<"owner", p>>>>: p \in DOMAIN Parameters},
     pending |-> <<>>, transferred |-> {}, returned |-> {}]

LiveOwners(state) == OfKind("owner", state.contents) \cup state.transferred

MissingOwner(state) ==
    \E site \in DOMAIN state.pending: ~(state.pending[site].owners \subseteq LiveOwners(state))

Forget(pending, sites) == [s \in DOMAIN pending \ sites |-> pending[s]]

\* Requests already pending on the same owners, once each.
Predecessors(state, owners) ==
    {s \in DOMAIN state.pending:
        state.pending[s].owners = owners /\ ~state.pending[s].repeated}

Requested(state, op, site) ==
    LET values == ValueOf(state.contents, op.from)
        owners == OfKind("owner", values)
        left == RemovePlace(Remaining(state.contents, op.from), op.to)
    IN IF owners # {}
       THEN [state EXCEPT
               !.pending = (site :> [predecessors |-> Predecessors(state, owners),
                                     owners |-> owners,
                                     repeated |-> site \in DOMAIN state.pending]) @@ @,
               !.contents = left \cup {<<op.to, <<"request", site>>>>}]
       ELSE [state EXCEPT !.contents = left \cup {<<op.to \o v[1], v[2]>>: v \in values}]

\* Only a request at the awaited place itself is a witness.
Witness(state, op) ==
    OfKind("request", {v \in ValueOf(state.contents, op.from): v[1] = <<>>})

Completed(state, op) ==
    LET witness == Witness(state, op)
        Single(s) == s \in DOMAIN state.pending /\ ~state.pending[s].repeated
        next == [state EXCEPT !.contents = Remaining(@, op.from)]
    IN IF Cardinality(witness) = 1 /\ \A w \in witness: Single(w[2])
       THEN LET site == (CHOOSE w \in witness: TRUE)[2]
                before == {s \in state.pending[site].predecessors: Single(s)}
            IN [next EXCEPT !.pending = Forget(@, {site} \cup before)]
       ELSE next

Apply(state, op, site) ==
    CASE op.op = "owner"    -> [state EXCEPT !.contents = @ \cup {<<op.to, <<"owner", site>>>>}]
      [] op.op = "request"  -> Requested(state, op, site)
      [] op.op = "complete" -> Completed(state, op)
      [] op.op = "store"    ->
            [state EXCEPT !.contents =
                Store(Remaining(@, op.from), op.to, ValueOf(@, op.from))]
      [] op.op = "destroy"  -> [state EXCEPT !.contents = RemovePlace(@, op.to)]
      [] op.op = "consume"  -> state
      [] op.op = "return"   ->
            LET values == ValueOf(state.contents, op.from)
            IN [state EXCEPT !.contents = Remaining(@, op.from),
                             !.transferred = @ \cup OfKind("owner", values),
                             !.returned = @ \cup OfKind("request", values)]

\* A mutant: an assignment does not end an owner.
BoundariesDestroy == {"destroy"}

\* The operations after which an owner may be gone.
Boundaries == {"store", "destroy"}

Refused(state, op, site) ==
    \/ op.op \in Boundaries /\ MissingOwner(Apply(state, op, site))
    \/ /\ op.op = "consume"
       /\ \E s \in DOMAIN state.pending:
            state.pending[s].owners \cap OfKind("owner", ValueOf(state.contents, op.from)) # {}

\* Nothing may be pending when the function returns, except a future it
\* returns directly on an owner its caller keeps.
PendingAtReturn(state) ==
    \E site \in DOMAIN state.pending:
        \/ ~DirectFuture
        \/ <<"request", site>> \notin state.returned
        \/ \E owner \in state.pending[site].owners:
             \/ owner[2] \notin DOMAIN Parameters
             \/ Parameters[owner[2]] = "consume"

\* The states before each operation of the block, and after the last.
Through(state, block) ==
    LET ops == mir[block].ops
    IN FoldLeft(LAMBDA states, op: Append(states, Apply(Last(states), op, <<block, Len(states)>>)),
                <<state>>, ops)

\* Whether the block, performed through the given states, is an error.
RejectsBlock(states, block) ==
    LET ops == mir[block].ops
    IN \/ \E i \in DOMAIN ops: Refused(states[i], ops[i], <<block, i>>)
       \/ mir[block].end = "return" /\ PendingAtReturn(Last(states))

AtLimit(block) == Cardinality(seen[block]) >= PathLimit

Process(state, block) ==
    LET states == Through(state, block)
        to == mir[block].to
    IN IF RejectsBlock(states, block)
       THEN verdict' = "rejected" /\ UNCHANGED work
       ELSE /\ work' = Tail(work) \o [i \in DOMAIN to |-> <<to[i], Last(states)>>]
            /\ UNCHANGED verdict

\* Alternatives are kept apart, never joined.  An exit by failure is left to
\* the shutdown at run time.
CheckBlock ==
    /\ verdict = "checking" /\ work # <<>>
    /\ LET block == Head(work)[1]
           state == Head(work)[2]
       IN \/ /\ state \in seen[block]
             /\ work' = Tail(work) /\ UNCHANGED <<seen, verdict>>
          \/ /\ state \notin seen[block] /\ AtLimit(block)
             /\ verdict' = "rejected" /\ UNCHANGED <<seen, work>>
          \/ /\ state \notin seen[block] /\ ~AtLimit(block)
             /\ seen' = [seen EXCEPT ![block] = @ \cup {state}]
             /\ IF mir[block].end = "fail"
                THEN work' = Tail(work) /\ UNCHANGED verdict
                ELSE Process(state, block)
    /\ UNCHANGED <<mir, runVars>>

Accept ==
    /\ verdict = "checking" /\ work = <<>>
    /\ verdict' = "accepted"
    /\ UNCHANGED <<mir, seen, work, runVars>>
----------------------------------------------------------------------------
(* The run.  Remotes are numbered with the requests, so a fresh identity   *)
(* is Len(sent) + 1; a parameter's remote is named by its place.           *)

Running == verdict = "accepted" /\ mir[at[1]].end # "fail"

Same(n) == {m \in 1..n: sent[m] = sent[n]}

\* An origin chosen by a helper is one of the remotes it was given.
RunRequest(op) ==
    LET values == ValueOf(holds, op.from)
        left == RemovePlace(Remaining(holds, op.from), op.to)
        n == Len(sent) + 1
    IN \/ \E owner \in OfKind("owner", values):
            /\ sent' = Append(sent, owner)
            /\ holds' = left \cup {<<op.to, <<"request", n>>>>}
            /\ UNCHANGED <<done, escaped>>
       \/ /\ OfKind("owner", values) = {}
          /\ holds' = left \cup {<<op.to \o v[1], v[2]>>: v \in values}
          /\ UNCHANGED <<sent, done, escaped>>

Perform(op) ==
    CASE op.op = "owner" ->
            /\ holds' = holds \cup {<<op.to, <<"owner", Len(sent) + 1>>>>}
            /\ sent' = Append(sent, <<"none">>)
            /\ done' = done \cup {Len(sent) + 1}
            /\ UNCHANGED escaped
      [] op.op = "request" -> RunRequest(op)
      [] op.op = "complete" ->
            /\ done' = done \cup
                 UNION {Same(w[2]): w \in OfKind("request",
                        {v \in ValueOf(holds, op.from): v[1] = <<>>})}
            /\ holds' = Remaining(holds, op.from)
            /\ UNCHANGED <<sent, escaped>>
      [] op.op = "store" ->
            /\ holds' = Store(Remaining(holds, op.from), op.to, ValueOf(holds, op.from))
            /\ UNCHANGED <<sent, done, escaped>>
      [] op.op = "destroy" ->
            /\ holds' = RemovePlace(holds, op.to)
            /\ UNCHANGED <<sent, done, escaped>>
      [] op.op = "consume" ->
            /\ holds' = {c \in holds: \A i \in DOMAIN op.from: ~PlaceContains(op.from[i].place, c[1])}
            /\ UNCHANGED <<sent, done, escaped>>
      [] op.op = "return" ->
            /\ escaped' = escaped \cup {v[2]: v \in ValueOf(holds, op.from)}
            /\ holds' = Remaining(holds, op.from)
            /\ UNCHANGED <<sent, done>>

Execute ==
    /\ Running /\ at[2] <= Len(mir[at[1]].ops) /\ Len(sent) < MaxRequests
    /\ Perform(mir[at[1]].ops[at[2]])
    /\ at' = <<at[1], at[2] + 1>>
    /\ UNCHANGED checkVars

Branch ==
    /\ Running /\ at[2] > Len(mir[at[1]].ops)
    /\ \E next \in Range(mir[at[1]].to): at' = <<next, 1>>
    /\ UNCHANGED <<checkVars, holds, sent, done, escaped>>
----------------------------------------------------------------------------
CompletionInit ==
    /\ mir \in Functions
    /\ seen = [b \in DOMAIN mir |-> {}]
    /\ work = <<<<1, InitialState>>>> /\ verdict = "checking"
    /\ at = <<1, 1>>
    /\ holds = InitialState.contents
    /\ sent = <<>> /\ done = {} /\ escaped = {}

CompletionNext == CheckBlock \/ Accept \/ Execute \/ Branch
CompletionSpec == CompletionInit /\ [][CompletionNext]_completionVars
----------------------------------------------------------------------------
(* Properties *)

\* Types; no block keeps more states than the limit.
CompletionTypeOK ==
    /\ verdict \in {"checking", "accepted", "rejected"}
    /\ \A b \in DOMAIN mir: Cardinality(seen[b]) <= PathLimit
    /\ \A b \in DOMAIN mir: \A s \in seen[b]: \A r \in DOMAIN s.pending:
         s.pending[r].owners # {} /\ s.pending[r].repeated \in BOOLEAN
    /\ done \subseteq DOMAIN sent

\* The remotes some place, the caller or the result still owns.
Owned ==
    OfKind("owner", holds) \cup {id \in escaped: id[1] = "owner"} \cup
    {<<"owner", p>>: p \in {q \in DOMAIN Parameters: Parameters[q] = "borrow"}}

\* Along every path of an accepted function that does not fail, a remote that
\* has lost its last owner has no request that was not shown complete
\* (documentation/remote-semantics.md, R-07).
OwnerOutlivesRequests ==
    verdict = "accepted" =>
        \A n \in DOMAIN sent \ done: sent[n] \in Owned

\* What acceptance promises, within the limit on paths.
CompletionSound == CompletionTypeOK /\ OwnerOutlivesRequests
============================================================================
