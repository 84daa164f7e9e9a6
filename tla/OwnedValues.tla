---------------------------- MODULE OwnedValues ----------------------------
(***************************************************************************)
(* Where the obligation to call an object's deinit lives while its value   *)
(* is aliased, copied on write, sent to another remote object and read     *)
(* there.  A copy is an allocation of OwnedFields, counted by references   *)
(* of one thread; a wire is a WireOwned, counted by an Arc that messages,  *)
(* worker states, shared values and the proxies made by from_wire hold, on *)
(* any thread.                                                             *)
(***************************************************************************)
EXTENDS Naturals, FiniteSets

CONSTANTS OsThreads, MaxCopies, MaxWires, MaxRefs

OwnedAssumption == {MaxCopies, MaxWires, MaxRefs} \subseteq Nat \ {0} /\ IsFiniteSet(OsThreads)

VARIABLES refs,     \* Rc count of each copy
          home,     \* the thread of each copy made so far
          cleanup,  \* OwnedFields::cleanup: none, its own, or a proxy of a wire
          arcs,     \* Arc count of each wire made so far
          loaded,   \* wires whose cleanup has not been taken
          dropping, \* the proxy each thread is releasing, and how far it is
          calls,    \* calls of the object's deinit
          ended     \* wires that ran it

ownedVars == <<refs, home, cleanup, arcs, loaded, dropping, calls, ended>>

Copies == DOMAIN refs
Wires == DOMAIN arcs
None == 0
Own == MaxWires + 1
Proxied == 1..MaxWires
Idle == [wire |-> None, at |-> "idle"]
NewCopy == Cardinality(Copies) + 1
NewWire == Cardinality(Wires) + 1
With(f, x, y) == [z \in DOMAIN f \cup {x} |-> IF z = x THEN y ELSE f[z]]

Live == {c \in Copies : refs[c] > 0}
(* the Arcs that are wire values: in a message, a worker's state, a shared value *)
Loose(w) == arcs[w] - Cardinality({c \in Copies : cleanup[c] = w})
                    - Cardinality({t \in OsThreads : dropping[t].wire = w})

----------------------------------------------------------------------------
(* What a careless edit would make of the definitions below.               *)
RunsLoaded(w) == w \in loaded

----------------------------------------------------------------------------
(* Cleanup::into_owned: a proxy gives up what its wire still has *)
IntoOwned(c) == IF cleanup[c] = Own \/ cleanup[c] \in loaded THEN Own ELSE None
Unload(c) == loaded \ {cleanup[c]}
(* the proxy's own Arc, released when its cleanup moved on *)
WithoutProxy(c) == [w \in Wires |-> IF w = cleanup[c] THEN arcs[w] - 1 ELSE arcs[w]]

(* the last Arc is gone: WireOwned::drop *)
Drops(w) == arcs[w] = 1 /\ w \in loaded

ReleaseArc(w) ==
  /\ arcs' = [arcs EXCEPT ![w] = @ - 1]
  /\ IF Drops(w)
     THEN calls' = calls + 1 /\ loaded' = loaded \ {w} /\ ended' = ended \cup {w}
     ELSE UNCHANGED <<calls, loaded, ended>>

----------------------------------------------------------------------------
(* a read of the register that holds the value *)
Alias(c) ==
  /\ c \in Live /\ refs[c] < MaxRefs
  /\ refs' = [refs EXCEPT ![c] = @ + 1]
  /\ UNCHANGED <<home, cleanup, arcs, loaded, dropping, calls, ended>>

(* Rc::make_mut of a shared allocation: OwnedFields::clone *)
CopyOnWrite(c) ==
  /\ c \in Live /\ refs[c] > 1 /\ NewCopy <= MaxCopies /\ dropping[home[c]] = Idle
  /\ refs' = With([refs EXCEPT ![c] = @ - 1], NewCopy, 1)
  /\ home' = With(home, NewCopy, home[c])
  /\ cleanup' = With([cleanup EXCEPT ![c] = None], NewCopy, IntoOwned(c))
  /\ loaded' = Unload(c) /\ arcs' = WithoutProxy(c)
  /\ UNCHANGED <<dropping, calls, ended>>

(* OwnedFields::drop, once the last reference goes *)
DropCopy(c) ==
  /\ c \in Live /\ dropping[home[c]] = Idle
  /\ refs' = [refs EXCEPT ![c] = @ - 1]
  /\ IF refs[c] > 1 THEN UNCHANGED <<cleanup, calls, dropping>>
     ELSE /\ cleanup' = [cleanup EXCEPT ![c] = None]
          /\ calls' = IF cleanup[c] = Own THEN calls + 1 ELSE calls
          /\ dropping' = IF cleanup[c] \in Proxied
                         THEN [dropping EXCEPT ![home[c]] = [wire |-> cleanup[c], at |-> "count"]]
                         ELSE dropping
  /\ UNCHANGED <<home, arcs, loaded, ended>>

(* Cleanup::run of a proxy: strong_count, and then the lock of the cleanup *)
RunsNow(w) == arcs[w] = 1 /\ w \in loaded

CountArcs(t) ==
  LET w == dropping[t].wire IN
  /\ dropping[t].at = "count"
  /\ IF RunsNow(w) THEN calls' = calls + 1 /\ loaded' = loaded \ {w} /\ ended' = ended \cup {w}
                   ELSE UNCHANGED <<calls, loaded, ended>>
  /\ dropping' = [dropping EXCEPT ![t].at = "arc"]
  /\ UNCHANGED <<refs, home, cleanup, arcs>>

DropProxy(t) ==
  /\ dropping[t].at = "arc"
  /\ ReleaseArc(dropping[t].wire)
  /\ dropping' = [dropping EXCEPT ![t] = Idle]
  /\ UNCHANGED <<refs, home, cleanup>>

----------------------------------------------------------------------------
(* Value::into_wire: the value leaves its thread *)
IntoWire(c) ==
  /\ c \in Live /\ dropping[home[c]] = Idle /\ NewWire <= MaxWires
  /\ refs' = [refs EXCEPT ![c] = @ - 1]
  /\ cleanup' = [cleanup EXCEPT ![c] = None]
  /\ IF IntoOwned(c) = Own
     THEN /\ arcs' = With(WithoutProxy(c), NewWire, 1)
          /\ loaded' = Unload(c) \cup {NewWire}
     ELSE arcs' = WithoutProxy(c) /\ UNCHANGED loaded
  /\ UNCHANGED <<home, dropping, calls, ended>>

(* a worker's state.clone(), a snapshot of a shared value *)
CloneWire(w) ==
  /\ w \in Wires /\ Loose(w) > 0 /\ arcs[w] < MaxRefs
  /\ arcs' = [arcs EXCEPT ![w] = @ + 1]
  /\ UNCHANGED <<refs, home, cleanup, loaded, dropping, calls, ended>>

(* Value::from_wire: a wire that still has its cleanup gets a proxy *)
FromWire(w, t) ==
  /\ w \in Wires /\ Loose(w) > 0 /\ NewCopy <= MaxCopies /\ dropping[t] = Idle
  /\ refs' = With(refs, NewCopy, 1) /\ home' = With(home, NewCopy, t)
  /\ cleanup' = With(cleanup, NewCopy, IF w \in loaded THEN w ELSE None)
  /\ IF w \in loaded THEN UNCHANGED <<arcs, loaded, calls, ended>> ELSE ReleaseArc(w)
  /\ UNCHANGED dropping

(* a discarded message, a replaced state, the end of a shared value *)
DropWire(w) ==
  /\ w \in Wires /\ Loose(w) > 0
  /\ ReleaseArc(w)
  /\ UNCHANGED <<refs, home, cleanup, dropping>>

----------------------------------------------------------------------------
(* MakeRecord or MakeVariant with a deinit *)
OwnedInit ==
  \E t \in OsThreads :
    /\ refs = [c \in {1} |-> 1] /\ home = [c \in {1} |-> t] /\ cleanup = [c \in {1} |-> Own]
    /\ arcs = << >> /\ loaded = {} /\ dropping = [u \in OsThreads |-> Idle]
    /\ calls = 0 /\ ended = {}

OwnedNext ==
  \/ \E c \in Copies : Alias(c) \/ CopyOnWrite(c) \/ DropCopy(c) \/ IntoWire(c)
  \/ \E t \in OsThreads : CountArcs(t) \/ DropProxy(t)
  \/ \E w \in Wires : CloneWire(w) \/ DropWire(w) \/ \E t \in OsThreads : FromWire(w, t)

OwnedSpec == OwnedInit /\ [][OwnedNext]_ownedVars

----------------------------------------------------------------------------
(* Shape of the state: a wire has an Arc for every proxy. *)
OwnedTypeOK ==
  /\ refs \in [Copies -> 0..MaxRefs] /\ arcs \in [Wires -> 0..MaxRefs]
  /\ cleanup \in [Copies -> {None, Own} \cup Wires]
  /\ loaded \subseteq Wires
  /\ \A w \in Wires : Loose(w) >= 0

(* The obligation is in exactly one place until it is met, and that place  *)
(* has a holder: no interleaving of releases, transfers and copies on      *)
(* several threads runs deinit twice, duplicates it, or leaves it behind   *)
(* in something nobody holds.                                              *)
OneObligation ==
  /\ calls + Cardinality({c \in Copies : cleanup[c] = Own}) + Cardinality(loaded) = 1
  /\ \A c \in Copies : cleanup[c] # None => refs[c] > 0
  /\ \A w \in loaded : arcs[w] > 0

(* A reader that releases its snapshot does not run the deinit of a value  *)
(* that a worker's state, a shared value or another reader still holds.    *)
NotWhileShared ==
  \A w \in ended : arcs[w] <= 1 /\ \A c \in Copies : cleanup[c] # w

(* What the object may rely on of its deinit. *)
ObligationMet == OwnedTypeOK /\ OneObligation /\ NotWhileShared
=============================================================================
