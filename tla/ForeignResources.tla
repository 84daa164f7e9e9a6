-------------------------- MODULE ForeignResources --------------------------
(***************************************************************************)
(* Native resources behind the C bridge of one thread (host/src/foreign.rs)*)
(* and the generated stubs that use them (tools/cbind/src/bridge.fos).     *)
(* Calls nest: while a C function runs it may call back into Foster, which *)
(* may call, close or release again.  A resource is held by reference      *)
(* counts: by the registry, by the leases and parents of calls in progress *)
(* and by the resources that retain it.                                    *)
(*                                                                         *)
(* A resource, its token and the native value it was created for have one  *)
(* number.  needs and contents record what C knows: the values a native    *)
(* value points to, and the values it has adopted, itself included.        *)
(***************************************************************************)
EXTENDS Integers, Sequences, FiniteSets

CONSTANTS MaxResources,  \* bound on the resources ever created
          MaxDepth       \* bound on the nesting of calls

ForeignAssumption == MaxResources \in Nat /\ MaxDepth \in Nat

VARIABLES
  stack,     \* calls and closes in progress, innermost last
  made,      \* resources created so far
  registry,  \* State.resources
  pointer,   \* resources whose pointer is not null
  leased,    \* Resource.leased
  parents,   \* Resource._parents
  freed,     \* resources that have been dropped
  dead,      \* native values destroyed or closed
  needs, contents

foreignVars == <<stack, made, registry, pointer, leased, parents, freed, dead, needs, contents>>
knownVars == <<parents, needs, contents>>

Resources == 1..MaxResources
Actions == {"borrow", "retain", "consume"}

ForeignTypeOK ==
  /\ Len(stack) <= MaxDepth /\ made \in 0..MaxResources
  /\ registry \cap freed = {}
  /\ registry \cup pointer \cup leased \cup freed \cup dead \subseteq 1..made
  /\ {parents, needs, contents} \subseteq [Resources -> SUBSET (1..made)]
  /\ \A i \in DOMAIN stack :
       /\ stack[i].kind \in {"function", "constructor", "method", "close"}
       /\ stack[i].phase \in {"args", "native"}

ForeignInit ==
  /\ stack = <<>> /\ made = 0
  /\ registry = {} /\ pointer = {} /\ leased = {} /\ freed = {} /\ dead = {}
  /\ parents = [r \in Resources |-> {}]
  /\ needs = [r \in Resources |-> {}] /\ contents = [r \in Resources |-> {}]

Frames(Holds(_)) == Cardinality({i \in DOMAIN stack : Holds(stack[i])})

\* Rc::strong_count, without the local clone of the function that asks.
Strong(r) ==
  LET One(b) == IF b THEN 1 ELSE 0
      Leases(f) == r \in f.leases
      Retains(f) == r \in f.parents
      Receives(f) == r = f.receiver
  IN  One(r \in registry) + Frames(Leases) + Frames(Retains) + Frames(Receives)
      + Cardinality({o \in (1..made) \ freed : r \in parents[o]})

\* close keeps a mutable borrow across the native call.
Borrowed(r) == \E i \in DOMAIN stack : stack[i].kind = "close" /\ stack[i].receiver = r

Dropping == {r \in (1..made) \ freed : Strong(r) = 0}
Settled == Dropping = {}    \* a drop is finished before anything else runs

Top == stack[Len(stack)]
ReplaceTop(f) == stack' = [stack EXCEPT ![Len(stack)] = f]
Pop == stack' = SubSeq(stack, 1, Len(stack) - 1)

\* Foster code runs at the bottom, or in a callback of the innermost call.
FosterRuns == Settled /\ (stack # <<>> => Top.phase = "native")

Frame(kind, receiver, leases) ==
  [kind |-> kind, phase |-> IF kind = "close" THEN "native" ELSE "args", receiver |-> receiver,
   leases |-> leases, parents |-> {}, transfers |-> {}]

-----------------------------------------------------------------------------
(***************************************************************************)
(* Mutants: plausible mistakes, no part of the specification.              *)
(***************************************************************************)

ClosableOpen(r) == r \in pointer   \* neither the lease nor the references are looked at

AvailableOpen(r) == r \in pointer   \* a second call may lease it again
-----------------------------------------------------------------------------
\* ResourceLease::acquire.
Available(r) == r \notin leased /\ r \in pointer

\* exchange: a call with no receiver, or a method of a resource, which it
\* leases.
CallFunction(kind) ==
  /\ FosterRuns /\ Len(stack) < MaxDepth
  /\ stack' = Append(stack, Frame(kind, 0, {}))
  /\ UNCHANGED <<made, registry, pointer, leased, freed, dead, knownVars>>

CallMethod(r) ==
  /\ FosterRuns /\ Len(stack) < MaxDepth
  /\ r \in registry /\ ~Borrowed(r) /\ Available(r)
  /\ stack' = Append(stack, Frame("method", r, {r})) /\ leased' = leased \cup {r}
  /\ UNCHANGED <<made, registry, pointer, freed, dead, knownVars>>

\* resolve_resource, action 3: the registry, this call's lease and the local
\* clone are the only references.
Transferable(r) ==
  /\ Strong(r) + (IF r \in Top.leases THEN 0 ELSE 1) + 1 <= 3
  /\ r \notin Top.parents /\ r \notin Top.transfers

\* resolve_resource for the stub's arguments: 0 borrows, 1 retains, 3 asks to
\* consume.  A refusal ends the call with an error before C runs.
ResolveResource(r, action) ==
  /\ Settled /\ stack # <<>> /\ Top.phase = "args"
  /\ action = "borrow" \/ Top.kind = "constructor"
  /\ r \in registry /\ ~Borrowed(r) /\ r \in pointer
  /\ r \in Top.leases \/ Available(r)
  /\ action = "retain" => r \notin Top.transfers
  /\ action = "consume" => Transferable(r)
  /\ ReplaceTop([Top EXCEPT !.leases = @ \cup {r},
                            !.parents = IF action = "borrow" THEN @ ELSE @ \cup {r},
                            !.transfers = IF action = "consume" THEN @ \cup {r} ELSE @])
  /\ leased' = leased \cup {r}
  /\ UNCHANGED <<made, registry, pointer, freed, dead, knownVars>>

RunNative ==
  /\ Settled /\ stack # <<>> /\ Top.phase = "args"
  /\ ReplaceTop([Top EXCEPT !.phase = "native"])
  /\ UNCHANGED <<made, registry, pointer, leased, freed, dead, knownVars>>

\* ResourceFrameGuard::drop.
Unleased(f) == leased \ f.leases
Kept == Top.parents       \* ResourceFrameGuard::parents

\* A call that is refused, fails, or is no constructor.  One that fails before
\* C runs has consumed nothing.
Return ==
  /\ Settled /\ stack # <<>> /\ Top.kind # "close"
  /\ Top.phase = "args" \/ Top.kind # "constructor"
  /\ Pop /\ leased' = Unleased(Top)
  /\ UNCHANGED <<made, registry, pointer, freed, dead, knownVars>>

\* The constructor's C function has returned: the stub commits the transfers
\* (action 2) whatever the result, then the runtime adopts the result with
\* the call's parents.  When the result is null or not valid, C has disposed
\* of what it adopted; when the call fails later, the result is dropped.
Construct ==
  /\ FosterRuns /\ stack # <<>> /\ Top.kind = "constructor"
  /\ Pop /\ leased' = Unleased(Top)
  /\ LET adopted == UNION {contents[r] : r \in Top.transfers}
         borrowed == (UNION {contents[r] : r \in Top.parents \ Top.transfers})
                     \cup (UNION {needs[r] : r \in Top.parents})
     IN  \/ /\ made < MaxResources /\ made' = made + 1
            /\ parents' = [parents EXCEPT ![made'] = Kept]
            /\ contents' = [contents EXCEPT ![made'] = adopted \cup {made'}]
            /\ needs' = [needs EXCEPT ![made'] = borrowed]
            /\ registry' \in {registry, registry \cup {made'}}
            /\ pointer' = (pointer \ Top.transfers) \cup {made'} /\ UNCHANGED dead
         \/ /\ pointer' = pointer \ Top.transfers /\ dead' = dead \cup adopted
            /\ UNCHANGED <<made, registry, knownVars>>
  /\ UNCHANGED freed
-----------------------------------------------------------------------------
\* The registry and the local clone are the only references.
Closable(r) == Strong(r) + 1 <= 2 /\ r \notin leased /\ r \in pointer

CloseResource(r) ==
  /\ FosterRuns /\ Len(stack) < MaxDepth
  /\ r \in registry /\ ~Borrowed(r) /\ Closable(r)
  /\ stack' = Append(stack, Frame("close", r, {}))
  /\ UNCHANGED <<made, registry, pointer, leased, freed, dead, knownVars>>

\* The native close may refuse and leave ownership where it was.
CloseReturns ==
  /\ FosterRuns /\ stack # <<>> /\ Top.kind = "close" /\ Pop
  /\ \/ /\ pointer' = pointer \ {Top.receiver} /\ registry' = registry \ {Top.receiver}
        /\ dead' = dead \cup contents[Top.receiver]
     \/ UNCHANGED <<pointer, registry, dead>>
  /\ UNCHANGED <<made, leased, freed, knownVars>>

\* release, from the deinit of the Foster owner.
ReleaseResource(r) ==
  /\ FosterRuns /\ r \in registry /\ ~Borrowed(r) /\ r \notin leased
  /\ registry' = registry \ {r}
  /\ UNCHANGED <<stack, made, pointer, leased, freed, dead, knownVars>>

\* Resource::drop: the native value first, then the references to parents.
DropResource(r) ==
  /\ r \in Dropping /\ freed' = freed \cup {r}
  /\ dead' = IF r \in pointer THEN dead \cup contents[r] ELSE dead
  /\ UNCHANGED <<stack, made, registry, pointer, leased, knownVars>>
-----------------------------------------------------------------------------
ForeignNext ==
  \/ \E kind \in {"function", "constructor"} : CallFunction(kind)
  \/ RunNative \/ Return \/ Construct \/ CloseReturns
  \/ \E r \in Resources :
       \/ CallMethod(r) \/ CloseResource(r) \/ ReleaseResource(r) \/ DropResource(r)
       \/ \E action \in Actions : ResolveResource(r, action)

ForeignSpec == ForeignInit /\ [][ForeignNext]_foreignVars
-----------------------------------------------------------------------------
\* A native value that Foster can still reach has everything it points to and
\* everything it has adopted: no parent, and no backing of a consumed value,
\* goes away before it, and nothing is destroyed twice.
Backed ==
  \A r \in (1..made) \ freed : r \in pointer => (needs[r] \cup contents[r]) \cap dead = {}

\* C never runs with a pointer whose value a callback has destroyed.
ArgumentsLive ==
  \A i \in DOMAIN stack : stack[i].leases \cap dead = {}

\* No native value that Foster or C can still use dangles.
NothingDangles == Backed /\ ArgumentsLive

\* The stub's second request for a consumed argument, after C has adopted it,
\* must succeed: the stub aborts the process otherwise.
CommitSucceeds ==
  \A i \in DOMAIN stack : \A r \in stack[i].transfers :
    r \in registry /\ r \in pointer /\ ~Borrowed(r)

\* A resource is leased exactly while one call in progress uses it.
OneLease ==
  \A r \in 1..made :
    Cardinality({i \in DOMAIN stack : r \in stack[i].leases}) = IF r \in leased THEN 1 ELSE 0

\* The bookkeeping of calls in progress survives whatever their callbacks do.
LeasesExact == ForeignTypeOK /\ OneLease /\ CommitSucceeds
=============================================================================
