---------------------------- MODULE DeinitProofs ----------------------------
(***************************************************************************)
(* Deinits: the obligation to call one is in one place and is met once,    *)
(* for any threads and any number of copies, wires and references          *)
(* (OwnedValues); frames and values are released once and in reverse       *)
(* order, and the first failure is the one reported, for any tasks,        *)
(* threads and values (VmCleanup).                                         *)
(***************************************************************************)
EXTENDS OwnedValues, VmCleanup, TLAPS, FiniteSetTheorems, SequenceTheorems,
        WellFoundedInduction

(***************************************************************************)
(* The inductive invariant.  Copies and wires are numbered in the order in *)
(* which they were made.                                                   *)
(***************************************************************************)
Numbered ==
  /\ \E n \in 0..MaxCopies : Copies = 1..n
  /\ \E m \in 0..MaxWires : Wires = 1..m
  /\ home \in [Copies -> OsThreads] /\ DOMAIN cleanup = Copies
  /\ calls \in Nat

\* A thread that releases a proxy holds the wire's Arc until it is idle.
Dropping ==
  /\ dropping \in [OsThreads -> [wire : {None} \cup Wires, at : {"idle", "count", "arc"}]]
  /\ \A t \in OsThreads : dropping[t].wire = None <=> dropping[t].at = "idle"

\* The copies that stand for a wire, and the threads that release one.
Proxies(w) == {c \in Copies : cleanup[c] = w}
Droppers(w) == {t \in OsThreads : dropping[t].wire = w}

\* A wire that ran the deinit is held by nothing but what is releasing it.
Spent == ended \subseteq Wires \ loaded
         /\ \A w \in ended : Loose(w) = 0 /\ Proxies(w) = {}

OwnedInv == ObligationMet /\ Numbered /\ Dropping /\ Spent
-----------------------------------------------------------------------------
\* Counting a set that gains or loses an element.
LEMMA Cards ==
  ASSUME NEW S, IsFiniteSet(S), NEW x
  PROVE  /\ IsFiniteSet(S \cup {x}) /\ IsFiniteSet(S \ {x}) /\ Cardinality(S) \in Nat
         /\ Cardinality(S \cup {x}) = IF x \in S THEN Cardinality(S) ELSE Cardinality(S) + 1
         /\ Cardinality(S \ {x}) = IF x \in S THEN Cardinality(S) - 1 ELSE Cardinality(S)
         /\ Cardinality(S) = 0 <=> S = {}
BY FS_AddElement, FS_RemoveElement, FS_CardinalityType, FS_EmptySet

\* What the counts are about is finite, and what is made next is new.
LEMMA Counted ==
  ASSUME OwnedAssumption, OwnedInv
  PROVE  /\ NewCopy \in Nat \ {0} /\ NewCopy \notin Copies /\ Copies \cup {NewCopy} = 1..NewCopy
         /\ NewWire \in Nat \ {0} /\ NewWire \notin Wires /\ Wires \cup {NewWire} = 1..NewWire
         /\ Copies \subseteq Nat \ {0} /\ Wires \subseteq Proxied
         /\ None \notin Wires /\ Own \notin Wires /\ None # Own /\ None \notin Proxied
         /\ Own \notin Proxied
         /\ IsFiniteSet(Copies) /\ IsFiniteSet(loaded)
         /\ \A x : IsFiniteSet(Proxies(x)) /\ IsFiniteSet(Droppers(x))
<1>1. PICK n \in 0..MaxCopies : Copies = 1..n
  BY DEF OwnedInv, Numbered
<1>2. PICK m \in 0..MaxWires : Wires = 1..m
  BY DEF OwnedInv, Numbered
<1>3. MaxCopies \in Nat /\ MaxWires \in Nat /\ n \in Nat /\ m \in Nat /\ m <= MaxWires
  BY <1>1, <1>2 DEF OwnedAssumption
<1>4. IsFiniteSet(Copies) /\ NewCopy = n + 1
  <2>1. IsFiniteSet(1..n) /\ Cardinality(1..n) = n
    BY <1>3, FS_Interval
  <2> QED
    BY <1>1, <1>3, <2>1 DEF NewCopy
<1>5. IsFiniteSet(Wires) /\ NewWire = m + 1
  <2>1. IsFiniteSet(1..m) /\ Cardinality(1..m) = m
    BY <1>3, FS_Interval
  <2> QED
    BY <1>2, <1>3, <2>1 DEF NewWire
<1>6. IsFiniteSet(loaded)
  BY <1>5, FS_Subset DEF OwnedInv, ObligationMet, OwnedTypeOK
<1>7. ASSUME NEW x
      PROVE  IsFiniteSet(Proxies(x)) /\ IsFiniteSet(Droppers(x))
  BY <1>4, FS_Subset DEF Proxies, Droppers, OwnedAssumption
<1>8. Copies \cup {NewCopy} = 1..NewCopy /\ Wires \cup {NewWire} = 1..NewWire
  BY <1>1, <1>2, <1>3, <1>4, <1>5
<1> QED
  BY <1>1, <1>2, <1>3, <1>4, <1>5, <1>6, <1>7, <1>8 DEF Proxied, None, Own

\* Shape of the state, without the counts.
Shaped ==
  /\ refs \in [Copies -> 0..MaxRefs] /\ arcs \in [Wires -> 0..MaxRefs]
  /\ cleanup \in [Copies -> {None, Own} \cup Wires] /\ loaded \subseteq Wires

LEMMA OwnedInitInv ==
  ASSUME OwnedAssumption, OwnedInit
  PROVE  OwnedInv
<1>1. PICK t \in OsThreads :
        /\ refs = [c \in {1} |-> 1] /\ home = [c \in {1} |-> t] /\ cleanup = [c \in {1} |-> Own]
        /\ arcs = << >> /\ loaded = {} /\ dropping = [u \in OsThreads |-> Idle]
        /\ calls = 0 /\ ended = {}
  BY DEF OwnedInit
<1>2. Copies = {1} /\ Copies = 1..1 /\ Wires = {} /\ Wires = 1..0
  BY <1>1 DEF Copies, Wires
<1>3. /\ 1 \in 0..MaxCopies /\ 0 \in 0..MaxWires /\ 1 \in 0..MaxRefs
  BY DEF OwnedAssumption
<1>4. {c \in Copies : cleanup[c] = Own} = {1}
  BY <1>1, <1>2
<1>5. Cardinality({1}) = 1 /\ Cardinality(loaded) = 0
  BY <1>1, FS_Singleton, FS_EmptySet
<1>6. OwnedTypeOK
  <2>1. refs \in [Copies -> 0..MaxRefs] /\ cleanup \in [Copies -> {None, Own} \cup Wires]
    BY <1>1, <1>2, <1>3
  <2>2. arcs \in [Wires -> 0..MaxRefs]
    BY <1>1, <1>2
  <2> QED
    BY <1>1, <1>2, <2>1, <2>2 DEF OwnedTypeOK
<1>8. OneObligation /\ NotWhileShared
  <2>1. calls + Cardinality({c \in Copies : cleanup[c] = Own}) + Cardinality(loaded) = 1
    <3>1. Cardinality({c \in Copies : cleanup[c] = Own}) = 1 /\ calls = 0
      BY <1>1, <1>4, <1>5, Zenon
    <3> QED
      BY <3>1, <1>5
  <2>2. \A c \in Copies : refs[c] > 0
    BY <1>1, <1>2
  <2> QED
    BY <1>1, <2>1, <2>2 DEF OneObligation, NotWhileShared
<1>7. Numbered /\ Dropping /\ Spent
  BY <1>1, <1>2, <1>3 DEF Numbered, Dropping, Spent, Idle, None
<1> QED
  BY <1>6, <1>7, <1>8 DEF OwnedInv, ObligationMet

\* A function with one more argument.
LEMMA WithIs ==
  ASSUME NEW D, NEW S, NEW f \in [D -> S], NEW x, NEW y \in S
  PROVE  /\ With(f, x, y) \in [D \cup {x} -> S] /\ DOMAIN With(f, x, y) = D \cup {x}
         /\ With(f, x, y)[x] = y /\ \A z \in D : z # x => With(f, x, y)[z] = f[z]
BY DEF With

\* The Arcs of a wire are loose, or a copy's, or a releasing thread's.
LEMMA Held ==
  ASSUME OwnedAssumption, OwnedInv, NEW w \in Wires
  PROVE  /\ arcs[w] \in Nat /\ arcs[w] <= MaxRefs /\ MaxRefs \in Nat \ {0} /\ Loose(w) \in Nat
         /\ Cardinality(Proxies(w)) \in Nat /\ Cardinality(Droppers(w)) \in Nat
         /\ Loose(w) = arcs[w] - Cardinality(Proxies(w)) - Cardinality(Droppers(w))
         /\ Loose(w) > 0 \/ Proxies(w) # {} \/ Droppers(w) # {} => arcs[w] > 0
<1>1. arcs[w] \in Nat /\ arcs[w] <= MaxRefs /\ MaxRefs \in Nat \ {0} /\ Loose(w) >= 0
  BY DEF OwnedInv, ObligationMet, OwnedTypeOK, OwnedAssumption
<1>2. Loose(w) = arcs[w] - Cardinality(Proxies(w)) - Cardinality(Droppers(w))
  BY DEF Loose, Proxies, Droppers
<1>3. /\ Cardinality(Proxies(w)) \in Nat /\ Cardinality(Droppers(w)) \in Nat
      /\ Cardinality(Proxies(w)) = 0 <=> Proxies(w) = {}
      /\ Cardinality(Droppers(w)) = 0 <=> Droppers(w) = {}
  BY Counted, Cards
<1> QED
  BY <1>1, <1>2, <1>3

\* Releasing an Arc that is held.
LEMMA ReleaseIs ==
  ASSUME OwnedAssumption, OwnedInv, NEW w \in Wires, arcs[w] > 0, ReleaseArc(w)
  PROVE  /\ arcs' \in [Wires -> 0..MaxRefs] /\ Wires' = Wires /\ loaded' \subseteq loaded
         /\ arcs'[w] = arcs[w] - 1 /\ \A v \in Wires : v # w => arcs'[v] = arcs[v]
         /\ calls' \in Nat
<1>1. arcs \in [Wires -> 0..MaxRefs] /\ MaxRefs \in Nat /\ arcs' = [arcs EXCEPT ![w] = arcs[w] - 1]
  BY DEF OwnedInv, ObligationMet, OwnedTypeOK, OwnedAssumption, ReleaseArc
<1>2. arcs[w] - 1 \in 0..MaxRefs
  BY <1>1
<1>3. calls' \in Nat /\ loaded' \subseteq loaded
  BY DEF ReleaseArc, OwnedInv, Numbered
<1> QED
  BY <1>1, <1>2, <1>3 DEF Wires

\* A proxy that gives up what it stands for.
LEMMA WithoutIs ==
  ASSUME OwnedAssumption, OwnedInv, NEW c \in Copies
  PROVE  /\ WithoutProxy(c) \in [Wires -> 0..MaxRefs]
         /\ \A w \in Wires : WithoutProxy(c)[w] = IF w = cleanup[c] THEN arcs[w] - 1 ELSE arcs[w]
         /\ IntoOwned(c) \in {Own, None} /\ Unload(c) \subseteq Wires
<1>1. ASSUME NEW w \in Wires, w = cleanup[c]
      PROVE  arcs[w] - 1 \in 0..MaxRefs
  <2>1. Proxies(w) # {}
    BY <1>1 DEF Proxies
  <2> QED
    BY <2>1, Held
<1> QED
  BY <1>1 DEF WithoutProxy, IntoOwned, Unload, OwnedInv, ObligationMet, OwnedTypeOK

\* Every step keeps the shape of the state.
LEMMA ShapeStep ==
  ASSUME OwnedAssumption, OwnedInv, [OwnedNext]_ownedVars
  PROVE  Shaped' /\ Numbered' /\ Dropping'
<1> USE DEF OwnedInv, ObligationMet, OwnedTypeOK, Numbered, Dropping, Shaped
<1>0. MaxRefs \in Nat /\ 1 \in 0..MaxRefs
  BY DEF OwnedAssumption
<1>1. ASSUME NEW c \in Copies, Alias(c)
      PROVE  Shaped' /\ Numbered' /\ Dropping'
  BY <1>0, <1>1 DEF Alias, Live, Copies, Wires
<1>2. ASSUME NEW c \in Copies, CopyOnWrite(c)
      PROVE  Shaped' /\ Numbered' /\ Dropping'
  <2>1. [refs EXCEPT ![c] = refs[c] - 1] \in [Copies -> 0..MaxRefs]
    BY <1>0, <1>2 DEF CopyOnWrite, Live
  <2>2. refs' \in [Copies \cup {NewCopy} -> 0..MaxRefs]
    BY <1>0, <1>2, <2>1, WithIs DEF CopyOnWrite
  <2>3. home' \in [Copies \cup {NewCopy} -> OsThreads]
    BY <1>2, WithIs DEF CopyOnWrite
  <2>4. cleanup' \in [Copies \cup {NewCopy} -> {None, Own} \cup Wires]
    BY <1>2, WithIs, WithoutIs DEF CopyOnWrite
  <2>5. arcs' \in [Wires -> 0..MaxRefs] /\ loaded' \subseteq Wires
    BY <1>2, WithoutIs DEF CopyOnWrite
  <2>6. Copies' = Copies \cup {NewCopy} /\ Wires' = Wires
    BY <2>2, <2>5 DEF Copies, Wires
  <2>7. Copies' = 1..NewCopy /\ NewCopy \in 0..MaxCopies
    <3>1. NewCopy \in Nat /\ NewCopy <= MaxCopies /\ MaxCopies \in Nat
      BY <1>2, Counted DEF CopyOnWrite, OwnedAssumption
    <3>2. Copies' = 1..NewCopy
      BY <2>6, Counted, Zenon
    <3> QED
      BY <3>1, <3>2
  <2> QED
    BY <1>2, <2>2, <2>3, <2>4, <2>5, <2>6, <2>7 DEF CopyOnWrite
<1>3. ASSUME NEW c \in Copies, DropCopy(c)
      PROVE  Shaped' /\ Numbered' /\ Dropping'
  <2>1. refs' \in [Copies -> 0..MaxRefs] /\ UNCHANGED <<home, arcs, loaded>>
    BY <1>0, <1>3 DEF DropCopy, Live
  <2>2. Copies' = Copies /\ Wires' = Wires
    BY <2>1 DEF Copies, Wires
  <2>3. cleanup' \in [Copies -> {None, Own} \cup Wires] /\ calls' \in Nat
    <3>1. CASE refs[c] > 1
      BY <1>3, <3>1 DEF DropCopy
    <3>2. CASE ~(refs[c] > 1)
      <4>1. cleanup' = [cleanup EXCEPT ![c] = None]
        BY <1>3, <3>2 DEF DropCopy
      <4>2. calls' = calls + 1 \/ calls' = calls
        BY <1>3, <3>2 DEF DropCopy
      <4> QED
        BY <4>1, <4>2
    <3> QED
      BY <3>1, <3>2
  <2>4. Dropping'
    <3>1. home[c] \in OsThreads
      OBVIOUS
    <3>2. CASE cleanup[c] \in Proxied /\ ~(refs[c] > 1)
      <4>1. cleanup[c] \in Wires /\ cleanup[c] # None
        BY <3>2, Counted
      <4>2. dropping' = [dropping EXCEPT ![home[c]] = [wire |-> cleanup[c], at |-> "count"]]
        BY <1>3, <3>2 DEF DropCopy
      <4> QED
        BY <2>2, <3>1, <4>1, <4>2
    <3>3. CASE ~(cleanup[c] \in Proxied /\ ~(refs[c] > 1))
      BY <1>3, <2>2, <3>3 DEF DropCopy
    <3> QED
      BY <3>2, <3>3
  <2> QED
    BY <2>1, <2>2, <2>3, <2>4
<1>4. ASSUME NEW c \in Copies, IntoWire(c)
      PROVE  Shaped' /\ Numbered' /\ Dropping'
  <2>1. refs' \in [Copies -> 0..MaxRefs] /\ UNCHANGED <<home, dropping, calls>>
    BY <1>0, <1>4 DEF IntoWire, Live
  <2>2. cleanup' \in [Copies -> {None, Own} \cup Wires]
    BY <1>4 DEF IntoWire
  <2>3. CASE IntoOwned(c) = Own
    <3>0. arcs' = With(WithoutProxy(c), NewWire, 1) /\ loaded' = Unload(c) \cup {NewWire}
      BY <1>4, <2>3 DEF IntoWire
    <3>1. arcs' \in [Wires \cup {NewWire} -> 0..MaxRefs]
      <4>1. WithoutProxy(c) \in [Wires -> 0..MaxRefs]
        BY WithoutIs
      <4> QED
        BY <1>0, <3>0, <4>1, WithIs
    <3>2. Copies' = Copies /\ Wires' = Wires \cup {NewWire}
      BY <2>1, <3>1 DEF Copies, Wires
    <3>3. Wires' = 1..NewWire /\ NewWire \in 0..MaxWires
      <4>1. NewWire \in Nat /\ NewWire <= MaxWires /\ MaxWires \in Nat
        BY <1>4, Counted DEF IntoWire, OwnedAssumption
      <4>2. Wires' = 1..NewWire
        BY <3>2, Counted, Zenon
      <4> QED
        BY <4>1, <4>2
    <3>4. loaded' \subseteq Wires'
      BY <3>0, <3>2, WithoutIs
    <3> QED
      BY <2>1, <2>2, <3>1, <3>2, <3>3, <3>4
  <2>4. CASE IntoOwned(c) # Own
    <3>0. arcs' = WithoutProxy(c) /\ loaded' = loaded
      BY <1>4, <2>4 DEF IntoWire
    <3>1. arcs' \in [Wires -> 0..MaxRefs] /\ loaded' \subseteq Wires
      BY <3>0, WithoutIs
    <3>2. Copies' = Copies /\ Wires' = Wires
      BY <2>1, <3>1 DEF Copies, Wires
    <3> QED
      BY <2>1, <2>2, <3>1, <3>2
  <2> QED
    BY <2>3, <2>4
<1>5. ASSUME NEW t \in OsThreads, CountArcs(t)
      PROVE  Shaped' /\ Numbered' /\ Dropping'
  BY <1>0, <1>5 DEF CountArcs, Copies, Wires
<1>6. ASSUME NEW t \in OsThreads, DropProxy(t)
      PROVE  Shaped' /\ Numbered' /\ Dropping'
  <2>1. dropping[t].wire \in Wires /\ arcs[dropping[t].wire] > 0
    <3>1. dropping[t].wire \in Wires /\ t \in Droppers(dropping[t].wire)
      BY <1>6 DEF DropProxy, Droppers
    <3> QED
      BY <3>1, Held
  <2>2. /\ arcs' \in [Wires -> 0..MaxRefs] /\ Wires' = Wires
        /\ loaded' \subseteq Wires /\ calls' \in Nat
    BY <1>6, <2>1, ReleaseIs DEF DropProxy
  <2>3. UNCHANGED <<refs, home, cleanup>> /\ Copies' = Copies
    BY <1>6 DEF DropProxy, Copies
  <2>4. Dropping'
    BY <1>6, <2>2 DEF DropProxy, Idle
  <2> QED
    BY <2>2, <2>3, <2>4
<1>7. ASSUME NEW w \in Wires, CloneWire(w)
      PROVE  Shaped' /\ Numbered' /\ Dropping'
  BY <1>0, <1>7 DEF CloneWire, Copies, Wires
<1>8. ASSUME NEW w \in Wires, DropWire(w)
      PROVE  Shaped' /\ Numbered' /\ Dropping'
  <2>1. /\ arcs' \in [Wires -> 0..MaxRefs] /\ Wires' = Wires
        /\ loaded' \subseteq Wires /\ calls' \in Nat
    BY <1>8, Held, ReleaseIs DEF DropWire
  <2>2. UNCHANGED <<refs, home, cleanup, dropping>> /\ Copies' = Copies
    BY <1>8 DEF DropWire, Copies
  <2> QED
    BY <2>1, <2>2
<1>9. ASSUME NEW w \in Wires, NEW t \in OsThreads, FromWire(w, t)
      PROVE  Shaped' /\ Numbered' /\ Dropping'
  <2>1. /\ arcs' \in [Wires -> 0..MaxRefs] /\ Wires' = Wires
        /\ loaded' \subseteq Wires /\ calls' \in Nat
    <3>1. CASE w \in loaded
      BY <1>9, <3>1 DEF FromWire, Wires
    <3>2. CASE w \notin loaded
      BY <1>9, <3>2, Held, ReleaseIs DEF FromWire
    <3> QED
      BY <3>1, <3>2
  <2>2. /\ refs' \in [Copies \cup {NewCopy} -> 0..MaxRefs]
        /\ home' \in [Copies \cup {NewCopy} -> OsThreads]
        /\ cleanup' \in [Copies \cup {NewCopy} -> {None, Own} \cup Wires]
    BY <1>0, <1>9, WithIs DEF FromWire
  <2>3. Copies' = Copies \cup {NewCopy}
    BY <2>2 DEF Copies
  <2>4. Copies' = 1..NewCopy /\ NewCopy \in 0..MaxCopies
    <3>1. NewCopy \in Nat /\ NewCopy <= MaxCopies /\ MaxCopies \in Nat
      BY <1>9, Counted DEF FromWire, OwnedAssumption
    <3>2. Copies' = 1..NewCopy
      BY <2>3, Counted, Zenon
    <3> QED
      BY <3>1, <3>2
  <2> QED
    BY <1>9, <2>1, <2>2, <2>3, <2>4 DEF FromWire
<1>10. CASE UNCHANGED ownedVars
  BY <1>10 DEF ownedVars, Copies, Wires
<1> QED
  BY <1>1, <1>2, <1>3, <1>4, <1>5, <1>6, <1>7, <1>8, <1>9, <1>10 DEF OwnedNext

\* The proxies of a wire, and the threads that release one, change one by one.
LEMMA Recount ==
  ASSUME OwnedAssumption, OwnedInv, NEW w, NEW x
  PROVE  /\ Cardinality(Proxies(w) \ {x}) =
              IF x \in Proxies(w) THEN Cardinality(Proxies(w)) - 1 ELSE Cardinality(Proxies(w))
         /\ Cardinality(Proxies(w) \cup {x}) =
              IF x \in Proxies(w) THEN Cardinality(Proxies(w)) ELSE Cardinality(Proxies(w)) + 1
         /\ Cardinality(Droppers(w) \ {x}) =
              IF x \in Droppers(w) THEN Cardinality(Droppers(w)) - 1 ELSE Cardinality(Droppers(w))
         /\ Cardinality(Droppers(w) \cup {x}) =
              IF x \in Droppers(w) THEN Cardinality(Droppers(w)) ELSE Cardinality(Droppers(w)) + 1
<1>1. IsFiniteSet(Proxies(w)) /\ IsFiniteSet(Droppers(w))
  BY Counted
<1> QED
  BY <1>1, Cards

\* The Arcs balance after every step: each wire has its proxies', its releasing
\* threads' and the loose ones, and nothing but a releasing thread holds one
\* that ran the deinit.
Balanced(w) == /\ Loose(w) >= 0
               /\ w \in ended => Loose(w) = 0 /\ Proxies(w) = {} /\ arcs[w] <= 1

\* The count after a step, and what it says of a wire with no Arc left.
LEMMA LooseNext ==
  ASSUME OwnedAssumption, OwnedInv, Shaped', Numbered', NEW w \in Wires'
  PROVE  /\ arcs'[w] \in Nat
         /\ Loose(w)' = arcs'[w] - Cardinality(Proxies(w)') - Cardinality(Droppers(w)')
         /\ Cardinality(Proxies(w)') \in Nat /\ Cardinality(Droppers(w)') \in Nat
         /\ Cardinality(Proxies(w)') = 0 <=> Proxies(w)' = {}
<1>1. arcs'[w] \in Nat
  BY DEF Shaped, OwnedAssumption
<1>2. Loose(w)' = arcs'[w] - Cardinality(Proxies(w)') - Cardinality(Droppers(w)')
  BY DEF Loose, Proxies, Droppers
<1>3. PICK n \in 0..MaxCopies : Copies' = 1..n
  BY DEF Numbered
<1>4. IsFiniteSet(Copies')
  <2>1. n \in Int
    BY <1>3 DEF OwnedAssumption
  <2>2. IsFiniteSet(1..n)
    BY <2>1, FS_Interval
  <2> QED
    BY <1>3, <2>2
<1>5. IsFiniteSet(Proxies(w)') /\ IsFiniteSet(Droppers(w)')
  <2>1. Proxies(w)' \subseteq Copies' /\ Droppers(w)' \subseteq OsThreads
    BY DEF Proxies, Droppers
  <2> QED
    BY <1>4, <2>1, FS_Subset DEF OwnedAssumption
<1> QED
  BY <1>1, <1>2, <1>5, Cards

LEMMA BalanceStep ==
  ASSUME OwnedAssumption, OwnedInv, [OwnedNext]_ownedVars
  PROVE  (\A w \in Wires : Balanced(w))' /\ ended' \subseteq Wires' \ loaded'
<1> USE DEF OwnedInv
<1>0. \A w \in Wires : /\ w \in ended => Loose(w) = 0 /\ Proxies(w) = {} /\ arcs[w] <= 1
                       /\ Loose(w) \in Nat /\ arcs[w] \in Nat
  BY Held DEF Spent, ObligationMet, NotWhileShared
<1>s. /\ Shaped' /\ Numbered' /\ ended \subseteq Wires \ loaded
      /\ cleanup \in [Copies -> {None, Own} \cup Wires] /\ arcs \in [Wires -> 0..MaxRefs]
  BY ShapeStep DEF Spent, ObligationMet, OwnedTypeOK
\* Only a wire whose count changed needs to be looked at.
<1>k. ASSUME NEW w \in Wires, w \in Wires', Loose(w)' = Loose(w), Proxies(w)' \subseteq Proxies(w),
             arcs'[w] <= arcs[w], w \in ended' => w \in ended
      PROVE  Balanced(w)'
  BY <1>0, <1>s, <1>k, LooseNext DEF Balanced
<1>1. ASSUME NEW c \in Copies, Alias(c)
      PROVE  (\A w \in Wires : Balanced(w))' /\ ended' \subseteq Wires' \ loaded'
  <2>1. Copies' = Copies /\ UNCHANGED <<cleanup, arcs, loaded, dropping, ended>> /\ Wires' = Wires
    BY <1>1 DEF Alias, Copies, Wires
  <2>2. ASSUME NEW w \in Wires
        PROVE  Loose(w)' = Loose(w) /\ Proxies(w)' = Proxies(w)
    BY <2>1 DEF Loose, Proxies
  <2> QED
    BY <1>0, <1>s, <1>k, <2>1, <2>2
<1>2. ASSUME NEW c \in Copies, CopyOnWrite(c) \/ IntoWire(c)
      PROVE  (\A w \in Wires : Balanced(w))' /\ ended' \subseteq Wires' \ loaded'
  <2>1. /\ UNCHANGED <<dropping, ended>> /\ Wires \subseteq Wires'
        /\ \A w \in Wires : arcs'[w] = IF w = cleanup[c] THEN arcs[w] - 1 ELSE arcs[w]
    <3>1. WithoutProxy(c) \in [Wires -> 0..MaxRefs]
      BY WithoutIs
    <3>2. arcs' = WithoutProxy(c) \/ arcs' = With(WithoutProxy(c), NewWire, 1)
      BY <1>2 DEF CopyOnWrite, IntoWire
    <3>3. 1 \in 0..MaxRefs /\ NewWire \notin Wires
      BY Counted DEF OwnedAssumption
    <3>4. Wires \subseteq DOMAIN arcs' /\ \A w \in Wires : arcs'[w] = WithoutProxy(c)[w]
      BY <3>1, <3>2, <3>3 DEF With
    <3>5. UNCHANGED <<dropping, ended>>
      BY <1>2 DEF CopyOnWrite, IntoWire
    <3> QED
      BY <3>4, <3>5, WithoutIs DEF Wires
  <2>2. ASSUME NEW w \in Wires
        PROVE  Proxies(w)' = Proxies(w) \ {c} /\ Droppers(w)' = Droppers(w)
    <3>1. Droppers(w)' = Droppers(w)
      BY <2>1 DEF Droppers
    <3>2. w # None /\ w # Own
      BY Counted
    <3>3. CASE IntoWire(c)
      <4>1. Copies' = Copies /\ cleanup' = [cleanup EXCEPT ![c] = None]
        BY <3>3 DEF IntoWire, Copies
      <4> QED
        BY <1>s, <3>1, <3>2, <4>1 DEF Proxies
    <3>4. CASE CopyOnWrite(c)
      <4>1. /\ cleanup' = With([cleanup EXCEPT ![c] = None], NewCopy, IntoOwned(c))
            /\ [cleanup EXCEPT ![c] = None] \in [Copies -> {None, Own} \cup Wires]
            /\ IntoOwned(c) \in {None, Own}
        BY <1>s, <3>4, WithoutIs DEF CopyOnWrite
      <4>2. /\ DOMAIN cleanup' = Copies \cup {NewCopy} /\ cleanup'[NewCopy] = IntoOwned(c)
            /\ \A d \in Copies : cleanup'[d] = [cleanup EXCEPT ![c] = None][d]
        BY <4>1, Counted DEF With
      <4>3. Copies' = Copies \cup {NewCopy}
        BY <1>s, <4>2 DEF Shaped
      <4> QED
        BY <1>s, <3>1, <3>2, <4>1, <4>2, <4>3 DEF Proxies
    <3> QED
      BY <1>2, <3>3, <3>4
  <2>3. ASSUME NEW w \in Wires
        PROVE  Balanced(w)'
    <3>1. c \in Proxies(w) <=> w = cleanup[c]
      BY DEF Proxies
    <3>2. Loose(w)' = Loose(w)
      <4>1. /\ Loose(w)' = arcs'[w] - Cardinality(Proxies(w)') - Cardinality(Droppers(w)')
            /\ arcs'[w] = IF w = cleanup[c] THEN arcs[w] - 1 ELSE arcs[w]
        BY <1>s, <2>1, <2>3, LooseNext
      <4>2. /\ Loose(w) = arcs[w] - Cardinality(Proxies(w)) - Cardinality(Droppers(w))
            /\ arcs[w] \in Nat /\ Cardinality(Proxies(w)) \in Nat
            /\ Cardinality(Droppers(w)) \in Nat
        BY <2>3, Held
      <4>3. Cardinality(Proxies(w)') =
              IF w = cleanup[c] THEN Cardinality(Proxies(w)) - 1 ELSE Cardinality(Proxies(w))
        BY <2>2, <2>3, <3>1, Recount
      <4>4. Droppers(w)' = Droppers(w)
        BY <2>2, <2>3
      <4> QED
        BY <4>1, <4>2, <4>3, <4>4
    <3> QED
      BY <1>0, <1>k, <2>1, <2>2, <2>3, <3>2
  <2>4. ASSUME NEW w \in Wires' \ Wires
        PROVE  w \notin ended /\ Balanced(w)'
    <3>1. w \notin ended
      BY <1>s, <2>4
    <3>2. IntoWire(c) /\ IntoOwned(c) = Own /\ w = NewWire /\ arcs'[w] = 1
      <4>1. WithoutProxy(c) \in [Wires -> 0..MaxRefs] /\ 1 \in 0..MaxRefs
        BY WithoutIs DEF OwnedAssumption
      <4>2. arcs' # WithoutProxy(c)
        BY <2>4, <4>1 DEF Wires
      <4>3. IntoWire(c) /\ IntoOwned(c) = Own /\ arcs' = With(WithoutProxy(c), NewWire, 1)
        BY <1>2, <4>2 DEF CopyOnWrite, IntoWire
      <4>4. DOMAIN arcs' = Wires \cup {NewWire} /\ arcs'[NewWire] = 1
        BY <4>1, <4>3 DEF With
      <4> QED
        BY <2>4, <4>3, <4>4 DEF Wires
    <3>3. Copies' = Copies /\ cleanup' = [cleanup EXCEPT ![c] = None]
      BY <3>2 DEF IntoWire, Copies
    <3>4. Proxies(w)' = {} /\ Droppers(w)' = {}
      <4>1. w # None /\ w # Own
        <5>1. PICK m \in 0..MaxWires : Wires' = 1..m
          BY <1>s DEF Numbered
        <5>2. m \in Nat /\ MaxWires \in Nat /\ m <= MaxWires
          BY <5>1 DEF OwnedAssumption
        <5> QED
          BY <2>4, <5>1, <5>2 DEF None, Own
      <4>2. \A d \in Copies : cleanup'[d] # w
        BY <1>s, <2>4, <3>3, <4>1
      <4>3. \A t \in OsThreads : dropping'[t].wire # w
        BY <2>1, <2>4, <4>1 DEF Dropping
      <4> QED
        BY <3>3, <4>2, <4>3 DEF Proxies, Droppers
    <3>5. Loose(w)' = 1 - 0 - 0
      BY <1>s, <2>4, <3>2, <3>4, LooseNext, FS_EmptySet
    <3> QED
      BY <2>1, <3>1, <3>5 DEF Balanced
  <2>5. ended' \subseteq Wires' \ loaded'
    <3>1. loaded' \subseteq loaded \cup {NewWire}
      BY <1>2 DEF CopyOnWrite, IntoWire, Unload
    <3> QED
      BY <1>s, <2>1, <3>1, Counted
  <2> QED
    BY <2>3, <2>4, <2>5
<1>3. ASSUME NEW c \in Copies, DropCopy(c)
      PROVE  (\A w \in Wires : Balanced(w))' /\ ended' \subseteq Wires' \ loaded'
  <2>1. /\ UNCHANGED <<arcs, loaded, ended>> /\ Wires' = Wires /\ Copies' = Copies
        /\ dropping[home[c]] = Idle /\ home[c] \in OsThreads
    BY <1>3 DEF DropCopy, Wires, Copies, Live, Numbered
  <2>2. CASE refs[c] > 1
    <3>1. UNCHANGED <<cleanup, dropping>>
      BY <1>3, <2>2 DEF DropCopy
    <3>2. ASSUME NEW w \in Wires
          PROVE  Loose(w)' = Loose(w) /\ Proxies(w)' = Proxies(w)
      BY <2>1, <3>1 DEF Loose, Proxies
    <3> QED
      BY <1>0, <1>s, <1>k, <2>1, <3>2
  <2>3. CASE ~(refs[c] > 1)
    <3>1. /\ cleanup' = [cleanup EXCEPT ![c] = None]
          /\ dropping' = IF cleanup[c] \in Proxied
                         THEN [dropping EXCEPT ![home[c]] = [wire |-> cleanup[c], at |-> "count"]]
                         ELSE dropping
      BY <1>3, <2>3 DEF DropCopy
    <3>2. ASSUME NEW w \in Wires
          PROVE  Balanced(w)'
      <4>1. w \in Proxied /\ w # None /\ home[c] \notin Droppers(w)
        BY <2>1, Counted DEF Droppers, Idle
      <4>2. Proxies(w)' = Proxies(w) \ {c} /\ (c \in Proxies(w) <=> w = cleanup[c])
        BY <1>s, <2>1, <3>1, <4>1 DEF Proxies
      <4>3. Droppers(w)' = IF w = cleanup[c] THEN Droppers(w) \cup {home[c]} ELSE Droppers(w)
        BY <2>1, <3>1, <4>1 DEF Droppers, Dropping
      <4>4. Loose(w)' = Loose(w)
        <5>1. /\ Loose(w)' = arcs'[w] - Cardinality(Proxies(w)') - Cardinality(Droppers(w)')
              /\ arcs'[w] = arcs[w]
          BY <1>s, <2>1, <3>2, LooseNext
        <5>2. /\ Loose(w) = arcs[w] - Cardinality(Proxies(w)) - Cardinality(Droppers(w))
              /\ arcs[w] \in Nat /\ Cardinality(Proxies(w)) \in Nat
              /\ Cardinality(Droppers(w)) \in Nat
          BY <3>2, Held
        <5>3. Cardinality(Proxies(w)') =
                IF w = cleanup[c] THEN Cardinality(Proxies(w)) - 1 ELSE Cardinality(Proxies(w))
          BY <4>2, Recount
        <5>4. Cardinality(Droppers(w)') =
                IF w = cleanup[c] THEN Cardinality(Droppers(w)) + 1 ELSE Cardinality(Droppers(w))
          <6>1. Cardinality(Droppers(w) \cup {home[c]}) = Cardinality(Droppers(w)) + 1
            BY <4>1, Recount
          <6> QED
            BY <4>3, <6>1
        <5> QED
          BY <5>1, <5>2, <5>3, <5>4
      <4> QED
        BY <1>0, <1>k, <2>1, <3>2, <4>2, <4>4
    <3> QED
      BY <1>s, <2>1, <3>2
  <2> QED
    BY <2>2, <2>3
<1>4. ASSUME NEW t \in OsThreads, CountArcs(t)
      PROVE  (\A w \in Wires : Balanced(w))' /\ ended' \subseteq Wires' \ loaded'
  <2> DEFINE v == dropping[t].wire
  <2>1. /\ UNCHANGED <<arcs, cleanup>> /\ Wires' = Wires /\ Copies' = Copies
        /\ v \in Wires /\ t \in Droppers(v)
        /\ \A u \in OsThreads : dropping'[u].wire = dropping[u].wire
    BY <1>4 DEF CountArcs, Wires, Copies, Dropping, Droppers
  <2>2. ASSUME NEW w \in Wires
        PROVE  Loose(w)' = Loose(w) /\ Proxies(w)' = Proxies(w)
    BY <2>1 DEF Loose, Proxies
  <2>3. CASE ~RunsNow(v)
    BY <1>0, <1>4, <1>s, <1>k, <2>1, <2>2, <2>3 DEF CountArcs
  <2>4. CASE RunsNow(v)
    <3>1. /\ ended' = ended \cup {v} /\ loaded' = loaded \ {v} /\ arcs[v] = 1
      BY <1>4, <2>4 DEF CountArcs, RunsNow
    <3>2. Loose(v) = 0 /\ Proxies(v) = {}
      <4>1. Droppers(v) # {} /\ IsFiniteSet(Droppers(v)) /\ IsFiniteSet(Proxies(v))
        BY <2>1, Counted
      <4>2. /\ Cardinality(Droppers(v)) # 0 /\ (Cardinality(Proxies(v)) = 0 => Proxies(v) = {})
        BY <4>1, Cards
      <4>3. /\ Loose(v) = arcs[v] - Cardinality(Proxies(v)) - Cardinality(Droppers(v))
            /\ Cardinality(Proxies(v)) \in Nat /\ Cardinality(Droppers(v)) \in Nat
            /\ Loose(v) \in Nat
        BY <2>1, Held
      <4> QED
        BY <3>1, <4>2, <4>3
    <3>3. Balanced(v)'
      BY <2>1, <2>2, <3>1, <3>2 DEF Balanced
    <3>4. ASSUME NEW w \in Wires, w # v
          PROVE  Balanced(w)'
      BY <1>0, <1>k, <2>1, <2>2, <3>1, <3>4
    <3> QED
      BY <1>s, <2>1, <3>1, <3>3, <3>4
  <2> QED
    BY <2>3, <2>4
<1>5. ASSUME NEW t \in OsThreads, DropProxy(t)
      PROVE  (\A w \in Wires : Balanced(w))' /\ ended' \subseteq Wires' \ loaded'
  <2>1. PICK v \in Wires : v = dropping[t].wire /\ t \in Droppers(v)
    BY <1>5 DEF DropProxy, Dropping, Droppers
  <2>2. /\ arcs[v] > 0 /\ ReleaseArc(v) /\ UNCHANGED cleanup /\ Copies' = Copies
        /\ dropping' = [dropping EXCEPT ![t] = Idle]
    BY <1>5, <2>1, Held DEF DropProxy, Copies
  <2>3. /\ Wires' = Wires /\ arcs'[v] = arcs[v] - 1
        /\ \A w \in Wires : w # v => arcs'[w] = arcs[w]
    BY <2>1, <2>2, ReleaseIs
  <2>4. ASSUME NEW w \in Wires
        PROVE  Loose(w)' = Loose(w) /\ Proxies(w)' = Proxies(w)
    <3>1. Proxies(w)' = Proxies(w)
      BY <2>2 DEF Proxies
    <3>2. Droppers(w)' = Droppers(w) \ {t}
      BY <2>2, Counted DEF Droppers, Dropping, Idle
    <3>3. t \in Droppers(w) <=> w = v
      BY <2>1 DEF Droppers
    <3> QED
      <4>1. Loose(w)' = arcs'[w] - Cardinality(Proxies(w)') - Cardinality(Droppers(w)')
        BY <1>s, <2>3, <2>4, LooseNext
      <4>2. /\ Loose(w) = arcs[w] - Cardinality(Proxies(w)) - Cardinality(Droppers(w))
            /\ arcs[w] \in Nat /\ Cardinality(Proxies(w)) \in Nat
            /\ Cardinality(Droppers(w)) \in Nat
        BY <2>4, Held
      <4>3. Cardinality(Droppers(w)') =
              IF w = v THEN Cardinality(Droppers(w)) - 1 ELSE Cardinality(Droppers(w))
        BY <3>2, <3>3, Recount
      <4>4. arcs'[w] = IF w = v THEN arcs[w] - 1 ELSE arcs[w]
        BY <2>1, <2>3, <2>4
      <4> QED
        BY <3>1, <4>1, <4>2, <4>3, <4>4
  <2> QED
    <3>1. CASE ~Drops(v)
      <4>1. UNCHANGED <<loaded, ended>>
        BY <2>2, <3>1 DEF ReleaseArc
      <4>2. \A w \in Wires : Balanced(w)'
        BY <1>0, <1>k, <2>1, <2>2, <2>3, <2>4, <4>1 DEF Balanced
      <4> QED
        BY <1>s, <2>3, <4>1, <4>2
    <3>2. CASE Drops(v)
      <4>1. ended' = ended \cup {v} /\ loaded' = loaded \ {v} /\ arcs'[v] = 0
        BY <2>1, <2>2, <2>3, <3>2 DEF ReleaseArc, Drops
      <4>2. Loose(v)' = 0 /\ Proxies(v)' = {}
        <5>1. /\ Loose(v)' = 0 - Cardinality(Proxies(v)') - Cardinality(Droppers(v)')
              /\ Cardinality(Proxies(v)') \in Nat /\ Cardinality(Droppers(v)') \in Nat
              /\ Cardinality(Proxies(v)') = 0 <=> Proxies(v)' = {}
          BY <1>s, <2>1, <2>3, <4>1, LooseNext
        <5>2. Loose(v)' >= 0
          BY <1>0, <2>1, <2>2, <2>4
        <5> QED
          BY <5>1, <5>2
      <4>3. \A w \in Wires : Balanced(w)'
        BY <1>0, <1>k, <2>1, <2>3, <2>4, <4>1, <4>2 DEF Balanced
      <4> QED
        BY <1>s, <2>1, <2>3, <4>1, <4>3
    <3> QED
      BY <3>1, <3>2
<1>6. ASSUME NEW v \in Wires, CloneWire(v)
      PROVE  (\A w \in Wires : Balanced(w))' /\ ended' \subseteq Wires' \ loaded'
  <2>1. /\ UNCHANGED <<cleanup, dropping, loaded, ended>> /\ Wires' = Wires /\ Copies' = Copies
        /\ v \notin ended /\ arcs' = [arcs EXCEPT ![v] = arcs[v] + 1]
    BY <1>0, <1>6 DEF CloneWire, Wires, Copies
  <2>2. ASSUME NEW w \in Wires
        PROVE  Balanced(w)'
    <3>1. Proxies(w)' = Proxies(w) /\ Droppers(w)' = Droppers(w)
      BY <2>1 DEF Proxies, Droppers
    <3>2. CASE w # v
      <4>1. arcs'[w] = arcs[w] /\ Loose(w)' = Loose(w)
        BY <1>s, <2>1, <2>2, <3>1, <3>2, LooseNext, Held
      <4> QED
        BY <1>0, <1>k, <2>1, <2>2, <3>1, <4>1
    <3>3. CASE w = v
      BY <1>s, <1>0, <2>1, <2>2, <3>1, <3>3, LooseNext, Held DEF Balanced
    <3> QED
      BY <3>2, <3>3
  <2> QED
    BY <1>s, <2>1, <2>2
<1>7. ASSUME NEW v \in Wires, DropWire(v)
      PROVE  (\A w \in Wires : Balanced(w))' /\ ended' \subseteq Wires' \ loaded'
  <2>1. arcs[v] > 0 /\ ReleaseArc(v) /\ UNCHANGED <<cleanup, dropping>> /\ Copies' = Copies
    BY <1>7, Held DEF DropWire, Copies
  <2>2. /\ v \notin ended /\ Loose(v) > 0
    BY <1>0, <1>7 DEF DropWire
  <2>3. /\ Wires' = Wires /\ arcs'[v] = arcs[v] - 1
        /\ \A w \in Wires : w # v => arcs'[w] = arcs[w]
    BY <2>1, ReleaseIs
  <2>4. ASSUME NEW w \in Wires
        PROVE  /\ Loose(w)' = IF w = v THEN Loose(w) - 1 ELSE Loose(w)
               /\ Proxies(w)' = Proxies(w)
    <3>1. Proxies(w)' = Proxies(w) /\ Droppers(w)' = Droppers(w)
      BY <2>1 DEF Proxies, Droppers
    <3> QED
      BY <1>s, <2>3, <2>4, <3>1, LooseNext, Held
  <2> QED
    <3>1. CASE ~Drops(v)
      <4>1. UNCHANGED <<loaded, ended>>
        BY <2>1, <3>1 DEF ReleaseArc
      <4>2. \A w \in Wires : Balanced(w)'
        BY <1>0, <1>k, <2>1, <2>2, <2>3, <2>4, <4>1 DEF Balanced
      <4> QED
        BY <1>s, <2>3, <4>1, <4>2
    <3>2. CASE Drops(v)
      <4>1. ended' = ended \cup {v} /\ loaded' = loaded \ {v} /\ arcs'[v] = 0
        BY <2>1, <2>2, <2>3, <3>2 DEF ReleaseArc, Drops
      <4>2. Loose(v)' = 0 /\ Proxies(v)' = {}
        <5>1. /\ Loose(v)' = 0 - Cardinality(Proxies(v)') - Cardinality(Droppers(v)')
              /\ Cardinality(Proxies(v)') \in Nat /\ Cardinality(Droppers(v)') \in Nat
              /\ Cardinality(Proxies(v)') = 0 <=> Proxies(v)' = {}
          BY <1>s, <2>1, <2>3, <4>1, LooseNext
        <5>2. Loose(v)' >= 0
          BY <1>0, <2>1, <2>2, <2>4
        <5> QED
          BY <5>1, <5>2
      <4>3. \A w \in Wires : Balanced(w)'
        BY <1>0, <1>k, <2>1, <2>3, <2>4, <4>1, <4>2 DEF Balanced
      <4> QED
        BY <1>s, <2>1, <2>3, <4>1, <4>3
    <3> QED
      BY <3>1, <3>2
<1>8. ASSUME NEW v \in Wires, NEW t \in OsThreads, FromWire(v, t)
      PROVE  (\A w \in Wires : Balanced(w))' /\ ended' \subseteq Wires' \ loaded'
  <2>1. /\ UNCHANGED dropping /\ Copies' = Copies \cup {NewCopy} /\ Loose(v) > 0 /\ v \notin ended
        /\ cleanup' = With(cleanup, NewCopy, IF v \in loaded THEN v ELSE None)
        /\ NewCopy \notin Copies /\ arcs[v] > 0
    <3>1. refs \in [Copies -> 0..MaxRefs]
      BY DEF ObligationMet, OwnedTypeOK
    <3>2. 1 \in 0..MaxRefs
      BY DEF OwnedAssumption
    <3>3. refs' = With(refs, NewCopy, 1)
      BY <1>8 DEF FromWire
    <3>4. DOMAIN refs' = Copies \cup {NewCopy}
      BY <3>1, <3>2, <3>3 DEF With
    <3>5. Copies' = Copies \cup {NewCopy}
      BY <3>4 DEF Copies
    <3> QED
      BY <1>0, <1>8, <3>5, Counted, Held DEF FromWire
  <2>2. /\ cleanup'[NewCopy] = IF v \in loaded THEN v ELSE None
        /\ \A c \in Copies : cleanup'[c] = cleanup[c]
    BY <1>s, <2>1 DEF With
  <2>3. CASE v \in loaded
    <3>1. UNCHANGED <<arcs, loaded, ended>> /\ Wires' = Wires
      BY <1>8, <2>3 DEF FromWire, Wires
    <3>2. ASSUME NEW w \in Wires
          PROVE  Balanced(w)'
      <4>1. Proxies(w)' = IF w = v THEN Proxies(w) \cup {NewCopy} ELSE Proxies(w)
        BY <2>1, <2>2, <2>3 DEF Proxies
      <4>2. Droppers(w)' = Droppers(w)
        BY <2>1 DEF Droppers
      <4>3. CASE w = v
        <5>1. /\ Loose(v)' = arcs'[v] - Cardinality(Proxies(v)') - Cardinality(Droppers(v)')
              /\ arcs'[v] = arcs[v]
          BY <1>s, <3>1, LooseNext
        <5>2. /\ Loose(v) = arcs[v] - Cardinality(Proxies(v)) - Cardinality(Droppers(v))
              /\ arcs[v] \in Nat /\ Cardinality(Proxies(v)) \in Nat
              /\ Cardinality(Droppers(v)) \in Nat
          BY Held
        <5>3. NewCopy \notin Proxies(v)
          BY <2>1 DEF Proxies
        <5>4. Cardinality(Proxies(v)') = Cardinality(Proxies(v)) + 1
          <6>1. Proxies(v)' = Proxies(v) \cup {NewCopy}
            BY <4>1, <4>3
          <6>2. Cardinality(Proxies(v) \cup {NewCopy}) = Cardinality(Proxies(v)) + 1
            BY <5>3, Recount
          <6> QED
            BY <6>1, <6>2
        <5>5. Loose(v)' = Loose(v) - 1
          BY <4>2, <4>3, <5>1, <5>2, <5>4
        <5> QED
          BY <1>0, <2>1, <3>1, <4>3, <5>5 DEF Balanced
      <4>4. CASE w # v
        <5>1. Loose(w)' = Loose(w)
          BY <1>s, <3>1, <3>2, <4>1, <4>2, <4>4, LooseNext, Held
        <5> QED
          BY <1>0, <1>k, <3>1, <3>2, <4>1, <4>4, <5>1
      <4> QED
        BY <4>3, <4>4
    <3> QED
      BY <1>s, <3>1, <3>2
  <2>4. CASE v \notin loaded
    <3>1. ReleaseArc(v) /\ UNCHANGED <<loaded, ended>>
      BY <1>8, <2>4 DEF FromWire, ReleaseArc, Drops
    <3>2. /\ Wires' = Wires /\ arcs'[v] = arcs[v] - 1
          /\ \A w \in Wires : w # v => arcs'[w] = arcs[w]
      BY <2>1, <3>1, ReleaseIs
    <3>3. ASSUME NEW w \in Wires
          PROVE  Balanced(w)'
      <4>1. Proxies(w)' = Proxies(w) /\ Droppers(w)' = Droppers(w)
        BY <2>1, <2>2, <2>4, Counted DEF Proxies, Droppers
      <4>2. CASE w = v
        BY <1>0, <1>s, <2>1, <3>1, <3>2, <3>3, <4>1, <4>2, LooseNext, Held DEF Balanced
      <4>3. CASE w # v
        <5>1. Loose(w)' = Loose(w)
          BY <1>s, <3>2, <3>3, <4>1, <4>3, LooseNext, Held
        <5> QED
          BY <1>0, <1>k, <3>1, <3>2, <3>3, <4>1, <4>3, <5>1
      <4> QED
        BY <4>2, <4>3
    <3> QED
      BY <1>s, <3>1, <3>2, <3>3
  <2> QED
    BY <2>3, <2>4
<1>9. CASE UNCHANGED ownedVars
  <2>1. Copies' = Copies /\ UNCHANGED <<cleanup, arcs, loaded, dropping, ended>> /\ Wires' = Wires
    BY <1>9 DEF ownedVars, Copies, Wires
  <2>2. ASSUME NEW w \in Wires
        PROVE  Loose(w)' = Loose(w) /\ Proxies(w)' = Proxies(w)
    BY <2>1 DEF Loose, Proxies
  <2> QED
    BY <1>0, <1>s, <1>k, <2>1, <2>2
<1> QED
  BY <1>1, <1>2, <1>3, <1>4, <1>5, <1>6, <1>7, <1>8, <1>9 DEF OwnedNext

\* The obligation, counted where it can be.
Due == calls + Cardinality(Proxies(Own)) + Cardinality(loaded) = 1
Kept == /\ \A c \in Copies : cleanup[c] # None => refs[c] > 0
        /\ \A w \in loaded : arcs[w] > 0

\* The wires with the obligation change one by one.
LEMMA Reload ==
  ASSUME OwnedAssumption, OwnedInv, NEW x, NEW n, n \notin loaded
  PROVE  /\ Cardinality(loaded \ {x}) =
              IF x \in loaded THEN Cardinality(loaded) - 1 ELSE Cardinality(loaded)
         /\ Cardinality((loaded \ {x}) \cup {n}) =
              IF x \in loaded THEN Cardinality(loaded) ELSE Cardinality(loaded) + 1
         /\ Cardinality(loaded) \in Nat /\ calls \in Nat /\ Cardinality(Proxies(Own)) \in Nat
         /\ Due
<1>1. IsFiniteSet(loaded) /\ IsFiniteSet(Proxies(Own))
  BY Counted
<1>2. /\ IsFiniteSet(loaded \ {x}) /\ Cardinality(loaded) \in Nat
      /\ Cardinality(loaded \ {x}) =
           IF x \in loaded THEN Cardinality(loaded) - 1 ELSE Cardinality(loaded)
  BY <1>1, Cards
<1>3. Cardinality((loaded \ {x}) \cup {n}) = Cardinality(loaded \ {x}) + 1
  BY <1>2, Cards
<1>4. Cardinality(Proxies(Own)) \in Nat /\ calls \in Nat
  BY <1>1, Cards DEF OwnedInv, Numbered
<1>5. Due
  BY DEF Due, OwnedInv, ObligationMet, OneObligation, Proxies
<1> QED
  BY <1>2, <1>3, <1>4, <1>5

\* Releasing an Arc calls the deinit of the wire that loses its last one.
LEMMA ReleaseMeets ==
  ASSUME OwnedAssumption, OwnedInv, NEW w \in Wires, arcs[w] > 0, ReleaseArc(w),
         Proxies(Own)' = Proxies(Own)
  PROVE  Due' /\ (\A v \in loaded : arcs[v] > 0)'
<1>1. /\ Wires' = Wires /\ arcs'[w] = arcs[w] - 1 /\ loaded \subseteq Wires /\ arcs[w] \in Nat
      /\ \A v \in Wires : v # w => arcs'[v] = arcs[v]
      /\ \A v \in loaded : arcs[v] > 0
  BY ReleaseIs, Held DEF OwnedInv, ObligationMet, OwnedTypeOK, OneObligation
<1>2. CASE Drops(w)
  <2>1. w \in loaded /\ calls' = calls + 1 /\ loaded' = loaded \ {w}
    BY <1>2 DEF ReleaseArc, Drops
  <2>2. /\ Cardinality(loaded') = Cardinality(loaded) - 1 /\ calls \in Nat
        /\ Cardinality(loaded) \in Nat /\ Cardinality(Proxies(Own)) \in Nat /\ Due
    <3>1. NewWire \notin loaded
      BY <1>1, Counted
    <3> QED
      BY <2>1, <3>1, Reload
  <2> QED
    BY <1>1, <2>1, <2>2 DEF Due
<1>3. CASE ~Drops(w)
  <2>1. UNCHANGED <<calls, loaded>>
    BY <1>3 DEF ReleaseArc
  <2>2. Due'
    BY <2>1 DEF Due, OwnedInv, ObligationMet, OneObligation, Proxies
  <2> QED
    BY <1>1, <1>3, <2>1, <2>2 DEF Drops
<1> QED
  BY <1>2, <1>3

\* Every step keeps the obligation in one place, which something holds.
LEMMA ObligationStep ==
  ASSUME OwnedAssumption, OwnedInv, [OwnedNext]_ownedVars
  PROVE  Due' /\ Kept'
<1>0. /\ Kept /\ Due /\ cleanup \in [Copies -> {None, Own} \cup Wires] /\ loaded \subseteq Wires
      /\ refs \in [Copies -> 0..MaxRefs] /\ arcs \in [Wires -> 0..MaxRefs] /\ MaxRefs \in Nat
  BY DEF OwnedInv, ObligationMet, OneObligation, OwnedTypeOK, Kept, Due, Proxies, OwnedAssumption
<1>n. /\ NewWire \notin loaded /\ NewCopy \notin Copies /\ None # Own /\ Own \notin Wires
      /\ Own \notin loaded /\ NewCopy \notin Proxies(Own) /\ None \notin loaded
  BY <1>0, Counted DEF Proxies
<1>c. /\ Cardinality(loaded) \in Nat /\ calls \in Nat /\ Cardinality(Proxies(Own)) \in Nat
  BY <1>n, Reload
<1>1. ASSUME NEW c \in Copies, Alias(c)
      PROVE  Due' /\ Kept'
  <2>1. /\ refs' = [refs EXCEPT ![c] = refs[c] + 1] /\ Copies' = Copies
        /\ UNCHANGED <<cleanup, arcs, loaded, calls>>
    BY <1>1 DEF Alias, Copies
  <2>2. Proxies(Own)' = Proxies(Own)
    BY <2>1 DEF Proxies
  <2> QED
    BY <1>0, <2>1, <2>2 DEF Due, Kept
<1>2. ASSUME NEW c \in Copies, CopyOnWrite(c)
      PROVE  Due' /\ Kept'
  <2>1. /\ refs' = With([refs EXCEPT ![c] = refs[c] - 1], NewCopy, 1) /\ refs[c] > 1
        /\ cleanup' = With([cleanup EXCEPT ![c] = None], NewCopy, IntoOwned(c))
        /\ loaded' = loaded \ {cleanup[c]} /\ arcs' = WithoutProxy(c) /\ calls' = calls
    BY <1>2 DEF CopyOnWrite, Unload
  <2>2. /\ Copies' = Copies \cup {NewCopy} /\ cleanup'[NewCopy] = IntoOwned(c) /\ refs'[NewCopy] = 1
        /\ \A d \in Copies : cleanup'[d] = IF d = c THEN None ELSE cleanup[d]
        /\ \A d \in Copies : refs'[d] = IF d = c THEN refs[d] - 1 ELSE refs[d]
    BY <1>0, <1>n, <2>1 DEF With, Copies
  <2>3. Kept'
    <3>1. \A d \in Copies' : cleanup'[d] # None => refs'[d] > 0
      <4>1. \A d \in Copies : cleanup[d] # None => refs[d] > 0
        BY <1>0 DEF Kept
      <4>2. SUFFICES ASSUME NEW d \in Copies', cleanup'[d] # None PROVE refs'[d] > 0
        OBVIOUS
      <4>3. CASE d = NewCopy
        BY <2>2, <4>3
      <4>4. CASE d # NewCopy
        BY <2>2, <4>1, <4>2, <4>4
      <4> QED
        BY <4>3, <4>4
    <3>2. \A w \in loaded' : arcs'[w] > 0
      BY <1>0, <2>1 DEF Kept, WithoutProxy
    <3> QED
      BY <3>1, <3>2 DEF Kept
  <2>4. CASE cleanup[c] = Own
    <3>1. IntoOwned(c) = Own /\ loaded' = loaded /\ c \in Proxies(Own)
      BY <1>n, <2>1, <2>4 DEF IntoOwned, Proxies
    <3>2. Proxies(Own)' = (Proxies(Own) \ {c}) \cup {NewCopy}
      BY <1>n, <2>2, <3>1 DEF Proxies
    <3>3. Cardinality(Proxies(Own)') = Cardinality(Proxies(Own))
      <4>1. IsFiniteSet(Proxies(Own))
        BY Counted
      <4>2. /\ IsFiniteSet(Proxies(Own) \ {c})
            /\ Cardinality(Proxies(Own) \ {c}) = Cardinality(Proxies(Own)) - 1
        BY <3>1, <4>1, Cards
      <4>3. Cardinality((Proxies(Own) \ {c}) \cup {NewCopy}) = Cardinality(Proxies(Own) \ {c}) + 1
        BY <1>n, <4>2, Cards
      <4> QED
        BY <1>c, <3>2, <4>2, <4>3
    <3> QED
      BY <1>0, <2>1, <2>3, <3>1, <3>3 DEF Due
  <2>5. CASE cleanup[c] \in loaded
    <3>1. IntoOwned(c) = Own
      BY <2>5 DEF IntoOwned
    <3>2. Proxies(Own)' = Proxies(Own) \cup {NewCopy}
      BY <1>n, <2>2, <2>5, <3>1 DEF Proxies
    <3>3. Cardinality(Proxies(Own)') = Cardinality(Proxies(Own)) + 1
      BY <1>n, <3>2, Recount, ZenonT(40)
    <3>4. Cardinality(loaded') = Cardinality(loaded) - 1
      BY <1>n, <2>1, <2>5, Reload
    <3> QED
      BY <1>0, <1>c, <2>1, <2>3, <3>3, <3>4 DEF Due
  <2>6. CASE cleanup[c] # Own /\ cleanup[c] \notin loaded
    <3>1. IntoOwned(c) = None /\ loaded' = loaded
      BY <2>1, <2>6 DEF IntoOwned
    <3>2. Proxies(Own)' = Proxies(Own)
      BY <1>n, <2>2, <2>6, <3>1 DEF Proxies
    <3> QED
      BY <1>0, <2>1, <2>3, <3>1, <3>2 DEF Due
  <2> QED
    BY <2>4, <2>5, <2>6
<1>3. ASSUME NEW c \in Copies, DropCopy(c)
      PROVE  Due' /\ Kept'
  <2>1. /\ refs' = [refs EXCEPT ![c] = refs[c] - 1] /\ UNCHANGED <<arcs, loaded>>
        /\ Copies' = Copies
    BY <1>3 DEF DropCopy, Copies
  <2>2. CASE refs[c] > 1
    <3>1. UNCHANGED <<cleanup, calls>>
      BY <1>3, <2>2 DEF DropCopy
    <3>2. Proxies(Own)' = Proxies(Own)
      BY <2>1, <3>1 DEF Proxies
    <3> QED
      BY <1>0, <2>1, <2>2, <3>1, <3>2 DEF Due, Kept
  <2>3. CASE ~(refs[c] > 1)
    <3>1. /\ cleanup' = [cleanup EXCEPT ![c] = None]
          /\ calls' = IF cleanup[c] = Own THEN calls + 1 ELSE calls
      BY <1>3, <2>3 DEF DropCopy
    <3>2. Kept'
      BY <1>0, <2>1, <3>1 DEF Kept
    <3>3. Proxies(Own)' = Proxies(Own) \ {c} /\ (c \in Proxies(Own) <=> cleanup[c] = Own)
      BY <1>0, <1>n, <2>1, <3>1 DEF Proxies
    <3>4. Cardinality(Proxies(Own)') = IF cleanup[c] = Own THEN Cardinality(Proxies(Own)) - 1
                                       ELSE Cardinality(Proxies(Own))
      BY <3>3, Recount
    <3> QED
      BY <1>0, <1>c, <2>1, <3>1, <3>2, <3>4 DEF Due
  <2> QED
    BY <2>2, <2>3
<1>4. ASSUME NEW c \in Copies, IntoWire(c)
      PROVE  Due' /\ Kept'
  <2>1. /\ refs' = [refs EXCEPT ![c] = refs[c] - 1] /\ cleanup' = [cleanup EXCEPT ![c] = None]
        /\ calls' = calls /\ Copies' = Copies
    BY <1>4 DEF IntoWire, Copies
  <2>2. \A d \in Copies' : cleanup'[d] # None => refs'[d] > 0
    BY <1>0, <2>1 DEF Kept
  <2>3. Proxies(Own)' = Proxies(Own) \ {c} /\ (c \in Proxies(Own) <=> cleanup[c] = Own)
    BY <1>0, <1>n, <2>1 DEF Proxies
  <2>4. Cardinality(Proxies(Own)') = IF cleanup[c] = Own THEN Cardinality(Proxies(Own)) - 1
                                     ELSE Cardinality(Proxies(Own))
    BY <2>3, Recount
  <2>5. CASE IntoOwned(c) = Own
    <3>1. /\ arcs' = With(WithoutProxy(c), NewWire, 1)
          /\ loaded' = (loaded \ {cleanup[c]}) \cup {NewWire}
      BY <1>4, <2>5 DEF IntoWire, Unload
    <3>2. \A w \in loaded' : arcs'[w] > 0
      <4>1. arcs'[NewWire] = 1
        BY <3>1 DEF With
      <4>2. ASSUME NEW w \in loaded \ {cleanup[c]}
            PROVE  arcs'[w] = arcs[w]
        BY <1>0, <1>n, <3>1 DEF With, WithoutProxy
      <4> QED
        BY <1>0, <3>1, <4>1, <4>2 DEF Kept
    <3>3. cleanup[c] = Own \/ cleanup[c] \in loaded
      BY <1>n, <2>5 DEF IntoOwned
    <3>4. Cardinality(loaded') = IF cleanup[c] = Own THEN Cardinality(loaded) + 1
                                 ELSE Cardinality(loaded)
      <4>1. Cardinality((loaded \ {cleanup[c]}) \cup {NewWire}) =
              IF cleanup[c] \in loaded THEN Cardinality(loaded) ELSE Cardinality(loaded) + 1
        BY <1>n, Reload
      <4> QED
        BY <1>n, <3>1, <3>3, <4>1
    <3> QED
      BY <1>0, <1>c, <2>1, <2>2, <2>4, <3>2, <3>4 DEF Due, Kept
  <2>6. CASE IntoOwned(c) # Own
    <3>1. arcs' = WithoutProxy(c) /\ loaded' = loaded
      BY <1>4, <2>6 DEF IntoWire
    <3>2. cleanup[c] # Own /\ cleanup[c] \notin loaded
      BY <2>6 DEF IntoOwned
    <3>3. \A w \in loaded' : arcs'[w] > 0
      BY <1>0, <3>1, <3>2 DEF Kept, WithoutProxy
    <3> QED
      BY <1>0, <1>c, <2>1, <2>2, <2>4, <3>1, <3>2, <3>3 DEF Due, Kept
  <2> QED
    BY <2>5, <2>6
<1>5. ASSUME NEW t \in OsThreads, CountArcs(t)
      PROVE  Due' /\ Kept'
  <2>1. UNCHANGED <<refs, cleanup, arcs>> /\ Copies' = Copies
    BY <1>5 DEF CountArcs, Copies
  <2>2. Proxies(Own)' = Proxies(Own)
    BY <2>1 DEF Proxies
  <2>3. PICK w : w = dropping[t].wire
    OBVIOUS
  <2>4. CASE RunsNow(w)
    <3>1. w \in loaded /\ calls' = calls + 1 /\ loaded' = loaded \ {w}
      BY <1>5, <2>3, <2>4 DEF CountArcs, RunsNow
    <3>2. Cardinality(loaded') = Cardinality(loaded) - 1
      BY <1>n, <3>1, Reload
    <3> QED
      BY <1>0, <1>c, <2>1, <2>2, <3>1, <3>2 DEF Due, Kept
  <2>5. CASE ~RunsNow(w)
    <3>1. UNCHANGED <<calls, loaded>>
      BY <1>5, <2>3, <2>5 DEF CountArcs
    <3> QED
      BY <1>0, <2>1, <2>2, <3>1 DEF Due, Kept
  <2> QED
    BY <2>4, <2>5
<1>6. ASSUME NEW t \in OsThreads, DropProxy(t)
      PROVE  Due' /\ Kept'
  <2>1. PICK v \in Wires : v = dropping[t].wire /\ t \in Droppers(v)
    BY <1>6 DEF DropProxy, Dropping, Droppers, OwnedInv
  <2>2. ReleaseArc(v) /\ UNCHANGED <<refs, cleanup>> /\ Copies' = Copies /\ arcs[v] > 0
    BY <1>6, <2>1, Held DEF DropProxy, Copies
  <2>3. Proxies(Own)' = Proxies(Own)
    BY <2>2 DEF Proxies
  <2> QED
    BY <1>0, <2>1, <2>2, <2>3, ReleaseMeets DEF Kept
<1>7. ASSUME NEW v \in Wires, CloneWire(v)
      PROVE  Due' /\ Kept'
  <2>1. /\ arcs' = [arcs EXCEPT ![v] = arcs[v] + 1] /\ Copies' = Copies
        /\ UNCHANGED <<refs, cleanup, loaded, calls>>
    BY <1>7 DEF CloneWire, Copies
  <2>2. Proxies(Own)' = Proxies(Own)
    BY <2>1 DEF Proxies
  <2> QED
    BY <1>0, <2>1, <2>2 DEF Due, Kept
<1>8. ASSUME NEW v \in Wires, DropWire(v)
      PROVE  Due' /\ Kept'
  <2>1. ReleaseArc(v) /\ UNCHANGED <<refs, cleanup>> /\ Copies' = Copies /\ arcs[v] > 0
    BY <1>8, Held DEF DropWire, Copies
  <2>2. Proxies(Own)' = Proxies(Own)
    BY <2>1 DEF Proxies
  <2> QED
    BY <1>0, <2>1, <2>2, ReleaseMeets DEF Kept
<1>9. ASSUME NEW v \in Wires, NEW t \in OsThreads, FromWire(v, t)
      PROVE  Due' /\ Kept'
  <2>1. /\ refs' = With(refs, NewCopy, 1) /\ Loose(v) > 0
        /\ cleanup' = With(cleanup, NewCopy, IF v \in loaded THEN v ELSE None)
    BY <1>9 DEF FromWire
  <2>2. /\ Copies' = Copies \cup {NewCopy} /\ refs'[NewCopy] = 1
        /\ cleanup'[NewCopy] = IF v \in loaded THEN v ELSE None
        /\ \A d \in Copies : cleanup'[d] = cleanup[d] /\ refs'[d] = refs[d]
    BY <1>0, <1>n, <2>1 DEF With, Copies
  <2>3. \A d \in Copies' : cleanup'[d] # None => refs'[d] > 0
    BY <1>0, <2>2 DEF Kept
  <2>4. Proxies(Own)' = Proxies(Own)
    BY <1>n, <2>2 DEF Proxies
  <2>5. CASE v \in loaded
    <3>1. UNCHANGED <<arcs, loaded, calls>>
      BY <1>9, <2>5 DEF FromWire
    <3> QED
      BY <1>0, <2>3, <2>4, <3>1 DEF Due, Kept
  <2>6. CASE v \notin loaded
    <3>1. ReleaseArc(v) /\ arcs[v] > 0
      BY <1>9, <2>1, <2>6, Held DEF FromWire
    <3> QED
      BY <2>3, <2>4, <3>1, ReleaseMeets DEF Kept
  <2> QED
    BY <2>5, <2>6
<1>10. CASE UNCHANGED ownedVars
  <2>1. UNCHANGED <<refs, cleanup, arcs, loaded, calls>> /\ Copies' = Copies
    BY <1>10 DEF ownedVars, Copies
  <2>2. Proxies(Own)' = Proxies(Own)
    BY <2>1 DEF Proxies
  <2> QED
    BY <1>0, <2>1, <2>2 DEF Due, Kept
<1> QED
  BY <1>1, <1>2, <1>3, <1>4, <1>5, <1>6, <1>7, <1>8, <1>9, <1>10 DEF OwnedNext

LEMMA OwnedInductive ==
  ASSUME OwnedAssumption, OwnedInv, [OwnedNext]_ownedVars
  PROVE  OwnedInv'
<1>1. /\ Shaped' /\ Numbered' /\ Dropping' /\ Due' /\ Kept'
      /\ (\A w \in Wires : Balanced(w))' /\ ended' \subseteq Wires' \ loaded'
  BY ShapeStep, BalanceStep, ObligationStep
<1>2. OwnedTypeOK'
  BY <1>1 DEF OwnedTypeOK, Shaped, Balanced
<1>3. OneObligation'
  BY <1>1 DEF OneObligation, Due, Kept, Proxies
<1>4. Spent'
  BY <1>1 DEF Spent, Balanced
<1>5. NotWhileShared'
  <2>1. \A w \in ended' : arcs'[w] <= 1 /\ Proxies(w)' = {}
    BY <1>1 DEF Balanced
  <2> QED
    BY <2>1 DEF NotWhileShared, Proxies
<1> QED
  BY <1>1, <1>2, <1>3, <1>4, <1>5 DEF OwnedInv, ObligationMet
-----------------------------------------------------------------------------
(***************************************************************************)
(* What the counts are is invariant.                                       *)
(***************************************************************************)
THEOREM OwnedCorrect ==
  ASSUME OwnedAssumption
  PROVE  OwnedSpec => []OwnedInv
<1>1. OwnedInit => OwnedInv
  BY OwnedInitInv
<1>2. OwnedInv /\ [OwnedNext]_ownedVars => OwnedInv'
  BY OwnedInductive
<1> QED
  BY <1>1, <1>2, PTL DEF OwnedSpec

(***************************************************************************)
(* However many threads alias, copy, send, read and release a value, its   *)
(* deinit calls at most once, is owed by exactly one copy or wire until it  *)
(* calls, that one is held by something, and no value somebody else holds   *)
(* loses it (OwnedFields::drop, Cleanup::run, WireOwned::drop).            *)
(***************************************************************************)
THEOREM OwnedObligationMet ==
  ASSUME OwnedAssumption
  PROVE  OwnedSpec => []ObligationMet
<1>1. OwnedInv => ObligationMet
  BY DEF OwnedInv
<1> QED
  BY <1>1, OwnedCorrect, PTL
-----------------------------------------------------------------------------
(***************************************************************************)
(* The inductive invariant of cleanup.  First the shape of the state:      *)
(* releases and executions alternate, and an execution that is about to    *)
(* report has no frame left, one that ends owns nothing.                   *)
(***************************************************************************)
AnyError == Errors \cup {NoError}
Releases == [role : {"drop"}, values : Seq(Nat)]
Executions ==
  [role : {"run", "cleanup"}, at : {"loop", "unwind", "take", "end"}, frames : Seq(Seq(Nat)),
   owned : Seq(Nat), original : AnyError, result : AnyError]

\* Activity i of a task's stack.
Proper(a, i) ==
  a.role # "drop" =>
    /\ a.role = "run" => i = 1 /\ a.original = NoError
    /\ a.at = "loop" => a.frames # <<>> /\ a.result = NoError
    /\ a.at \in {"take", "end"} => a.frames = <<>>
    /\ a.at = "end" => a.owned = <<>>

ThreadsOK ==
  /\ on \in [Tasks -> Workers \cup {Off}]
  /\ failure \in [Workers -> AnyError]
  /\ \A t, u \in Tasks : t # u /\ on[t] = on[u] => on[t] = Off
  /\ \A t \in Tasks \ Coroutines : work[t] # <<>> => on[t] # Off
  /\ reported \in [Tasks -> AnyError]
  /\ fails \in [Tasks -> 0..MaxFails] /\ base \in [Tasks -> 0..MaxFails]
  /\ \A t \in Tasks : base[t] <= fails[t]

StacksOK ==
  /\ work \in [Tasks -> Seq(Releases \cup Executions)]
  /\ \A t \in Tasks : \A i \in DOMAIN work[t] : Proper(work[t][i], i)

ValuesOK ==
  /\ kind \in Seq(Kinds \cup {"owned"}) /\ gone \subseteq Values
  /\ fields \in Seq(Seq(Nat)) /\ Len(fields) = Len(kind)
  /\ deinits \in Seq(Nat) /\ Len(deinits) = Len(kind)
  /\ \A v \in Values : /\ \A x \in Range(fields[v]) : x \in Nat /\ x < v
                       /\ kind[v] = "handle" => fields[v] = <<>>
  /\ order \in Seq(Nat) /\ Range(order) \subseteq gone

CleanupShape == ThreadsOK /\ StacksOK /\ ValuesOK
-----------------------------------------------------------------------------
(***************************************************************************)
(* Failures.  What a stack holds back, and at its end what is pending on   *)
(* the thread, are failures in the order in which they were raised.        *)
(***************************************************************************)
HeldBack(a) == IF a.role = "drop" THEN NoError ELSE Or(a.original, a.result)

\* The first failure of those the stack holds back and the pending one, if any.
FirstHeld(stack, pending, first) ==
  \/ /\ first # NoError
     /\ \E i \in DOMAIN stack : /\ HeldBack(stack[i]) = first
                                /\ \A j \in 1..i - 1 : HeldBack(stack[j]) = NoError
  \/ /\ first = pending
     /\ \A i \in DOMAIN stack : HeldBack(stack[i]) = NoError

FirstOf(t) == IF fails[t] > base[t] THEN <<t, base[t] + 1>> ELSE NoError

Faithful(t) ==
  /\ work[t] # <<>> => work[t][1].role = "run"
  /\ work[t] # <<>> /\ clean[t] => FirstHeld(work[t], Pending(t), FirstOf(t))
  /\ work[t] = <<>> /\ begun[t] > 0 /\ clean[t] => reported[t] = FirstOf(t)
Begun == clean \in [Tasks -> BOOLEAN] /\ begun \in [Tasks -> Nat]
FailuresOrdered == Begun /\ \A t \in Tasks \ Coroutines : Faithful(t)
-----------------------------------------------------------------------------
(***************************************************************************)
(* Ownership.  Every value that was not released is in exactly one place:  *)
(* one register, one list of values to release, what an execution returns, *)
(* or one field of a value that was not released either.                   *)
(***************************************************************************)
Lists(a) == IF a.role = "drop" THEN <<a.values>> ELSE Append(a.frames, a.owned)
AllOf(lists) == UNION {Range(lists[k]) : k \in DOMAIN lists}
Apart(lists) ==
  /\ \A k \in DOMAIN lists : IsInjective(lists[k])
  /\ \A k, l \in DOMAIN lists : k # l => Range(lists[k]) \cap Range(lists[l]) = {}

Present == Values \ gone
Stack(t, i) == IF i \in DOMAIN work[t] THEN AllOf(Lists(work[t][i])) ELSE {}
FieldsOf(u) == IF u \in Present THEN Range(fields[u]) ELSE {}

Divided ==
  /\ \A t \in Tasks, i \in Nat : Stack(t, i) \subseteq Present
  /\ \A u \in Nat : FieldsOf(u) \subseteq Present
  /\ \A t, u \in Tasks, i, j \in Nat : \A x \in Stack(t, i) \cap Stack(u, j) : t = u /\ i = j
  /\ \A u, w \in Nat : \A x \in FieldsOf(u) \cap FieldsOf(w) : u = w
  /\ \A t \in Tasks, i, u \in Nat : Stack(t, i) \cap FieldsOf(u) = {}
  /\ \A x \in Present : \/ \E t \in Tasks, i \in Nat : x \in Stack(t, i)
                        \/ \E u \in Nat : x \in FieldsOf(u)

NoneTwice ==
  /\ \A t \in Tasks : \A i \in DOMAIN work[t] : Apart(Lists(work[t][i]))
  /\ \A u \in Present : IsInjective(fields[u])

\* Its deinit has been called for what is gone only.
DeinitsCounted ==
  \A v \in Values :
    deinits[v] = 0 \/ (deinits[v] = 1 /\ v \in gone /\ kind[v] = "owned")

\* Registers of a frame that was torn down wait in one list, in their order.
InOrder(list, x, y) == \E p, q \in DOMAIN list : p < q /\ list[p] = x /\ list[q] = y
Waiting(x, y) ==
  \E t \in Tasks : \E i \in DOMAIN work[t] :
    work[t][i].role = "drop" /\ InOrder(work[t][i].values, x, y)
TornInOrder ==
  \A s \in torn :
    /\ s \in Seq(Nat) /\ Range(s) \subseteq Values
    /\ \A k, l \in DOMAIN s : k < l /\ s[l] \in Present => Waiting(s[k], s[l])

DeinitsInv ==
  CleanupShape /\ Divided /\ NoneTwice /\ DeinitsCounted /\ TornInOrder /\ ReverseOrder
-----------------------------------------------------------------------------
(***************************************************************************)
(* Sequences: an end taken off, a cut in two, one element removed.         *)
(***************************************************************************)
LEMMA FrontAndLast ==
  ASSUME NEW S, NEW s \in Seq(S), s # <<>>
  PROVE  /\ Len(s) \in Nat \ {0} /\ Front(s) \in Seq(S) /\ Len(Front(s)) = Len(s) - 1
         /\ \A i \in 1..Len(s) - 1 : Front(s)[i] = s[i]
         /\ DOMAIN Front(s) = 1..Len(s) - 1
         /\ Last(s) = s[Len(s)] /\ Last(s) \in S
         /\ s = Append(Front(s), Last(s))
<1>1. Len(s) \in Nat \ {0}
  BY EmptySeq, LenProperties
<1>2. /\ Front(s) \in Seq(S) /\ Len(Front(s)) = Len(s) - 1
      /\ \A i \in 1..Len(s) - 1 : Front(s)[i] = s[i]
  <2>1. PICK n \in Nat : Len(s) = n + 1
    <3>1. Len(s) - 1 \in Nat /\ Len(s) = (Len(s) - 1) + 1
      BY <1>1
    <3> QED
      BY <3>1
  <2>2. Len(s) - 1 = n
    BY <2>1
  <2>3. /\ SubSeq(s, 1, n) \in Seq(S) /\ Len(SubSeq(s, 1, n)) = n
        /\ \A i \in 1..n : SubSeq(s, 1, n)[i] = s[i]
    BY <2>1, SubSeqProperties
  <2> QED
    BY <2>2, <2>3 DEF Front
<1>3. Last(s) = s[Len(s)] /\ Last(s) \in S
  BY <1>1, ElementOfSeq DEF Last
<1>4. s = Append(Front(s), Last(s))
  BY <1>1, <1>2, <1>3
<1> QED
  BY <1>1, <1>2, <1>3, <1>4

\* The empty sequence has an empty front.
LEMMA NoFront == ASSUME NEW S PROVE Front(<<>>) = <<>> /\ <<>> \in Seq(S) /\ Len(<<>>) = 0
BY DEF Front

\* The stack after its top was replaced.
LEMMA Replaced ==
  ASSUME NEW S, NEW s \in Seq(S), NEW new \in Seq(S)
  PROVE  LET m == Len(Front(s))
             r == Front(s) \o new
         IN  /\ m \in Nat /\ (s = <<>> => m = 0) /\ (s # <<>> => m = Len(s) - 1)
             /\ r \in Seq(S) /\ Len(r) = m + Len(new) /\ Len(new) \in Nat
             /\ \A i \in 1..m : r[i] = s[i] /\ i \in 1..Len(s)
             /\ \A j \in 1..Len(new) : r[m + j] = new[j]
<1> DEFINE m == Len(Front(s))
           r == Front(s) \o new
<1>1. /\ m \in Nat /\ (s = <<>> => m = 0) /\ (s # <<>> => m = Len(s) - 1)
      /\ Front(s) \in Seq(S) /\ Len(new) \in Nat
      /\ \A i \in 1..m : Front(s)[i] = s[i] /\ i \in 1..Len(s)
  <2>1. Len(new) \in Nat
    BY LenProperties
  <2>2. CASE s = <<>>
    <3>1. Front(s) = <<>> /\ <<>> \in Seq(S)
      BY <2>2, NoFront
    <3>2. m = 0
      BY <3>1
    <3> HIDE DEF m
    <3>3. m \in Nat /\ 1..m = {}
      BY <3>2
    <3> QED
      BY <2>1, <2>2, <3>1, <3>2, <3>3
  <2>3. CASE s # <<>>
    <3>1. /\ Len(s) \in Nat \ {0} /\ Front(s) \in Seq(S) /\ m = Len(s) - 1
          /\ \A i \in 1..Len(s) - 1 : Front(s)[i] = s[i]
      BY <2>3, FrontAndLast
    <3> HIDE DEF m
    <3>2. m \in Nat /\ \A i \in 1..m : i \in 1..Len(s)
      BY <3>1
    <3> QED
      BY <2>1, <2>3, <3>1, <3>2 DEF m
  <2> QED
    BY <2>2, <2>3
<1>2. r \in Seq(S) /\ Len(r) = m + Len(new)
  BY <1>1
<1>3. \A i \in 1..m : r[i] = Front(s)[i]
  BY <1>1, <1>2
<1>4. \A j \in 1..Len(new) : r[m + j] = new[j]
  BY <1>1, <1>2
<1> QED
  BY <1>1, <1>2, <1>3, <1>4

\* A sequence cut in two before i.
LEMMA Cut ==
  ASSUME NEW S, NEW s \in Seq(S), NEW i \in 1..Len(s) + 1
  PROVE  LET a == SubSeq(s, 1, i - 1)
             b == SubSeq(s, i, Len(s))
         IN  /\ a \in Seq(S) /\ b \in Seq(S) /\ Range(a) \cup Range(b) = Range(s)
             /\ IsInjective(s) =>
                  IsInjective(a) /\ IsInjective(b) /\ Range(a) \cap Range(b) = {}
<1> DEFINE a == SubSeq(s, 1, i - 1)
           b == SubSeq(s, i, Len(s))
<1>0. Len(s) \in Nat /\ i \in Nat \ {0} /\ i <= Len(s) + 1
  BY LenProperties
<1>1. /\ a \in Seq(S) /\ Len(a) = i - 1 /\ DOMAIN a = 1..i - 1
      /\ \A j \in 1..i - 1 : a[j] = s[j]
  BY <1>0, SubSeqProperties
<1>2. /\ b \in Seq(S) /\ Len(b) = Len(s) - i + 1 /\ DOMAIN b = 1..Len(s) - i + 1
      /\ \A j \in 1..Len(s) - i + 1 : b[j] = s[i + j - 1]
  BY <1>0, SubSeqProperties
<1> HIDE DEF a, b
<1>3. Range(a) \cup Range(b) = Range(s)
  <2>1. ASSUME NEW j \in DOMAIN s
        PROVE  s[j] \in Range(a) \cup Range(b)
    <3>1. j \in 1..Len(s)
      OBVIOUS
    <3>2. CASE j < i
      <4>1. j \in DOMAIN a /\ a[j] = s[j]
        BY <1>0, <1>1, <3>1, <3>2
      <4> QED
        BY <4>1 DEF Range
    <3>3. CASE j >= i
      <4>1. j - i + 1 \in DOMAIN b /\ b[j - i + 1] = s[j]
        <5>1. j - i + 1 \in 1..Len(s) - i + 1 /\ i + (j - i + 1) - 1 = j
          BY <1>0, <3>1, <3>3
        <5> QED
          BY <1>2, <5>1
      <4> QED
        BY <4>1 DEF Range
    <3> QED
      BY <1>0, <3>1, <3>2, <3>3
  <2>2. ASSUME NEW j \in DOMAIN a
        PROVE  a[j] \in Range(s)
    <3>1. j \in DOMAIN s /\ a[j] = s[j]
      BY <1>0, <1>1
    <3> QED
      BY <3>1 DEF Range
  <2>3. ASSUME NEW j \in DOMAIN b
        PROVE  b[j] \in Range(s)
    <3>1. i + j - 1 \in DOMAIN s /\ b[j] = s[i + j - 1]
      BY <1>0, <1>2
    <3> QED
      BY <3>1 DEF Range
  <2> QED
    BY <2>1, <2>2, <2>3 DEF Range
<1>4. ASSUME IsInjective(s)
      PROVE  IsInjective(a) /\ IsInjective(b) /\ Range(a) \cap Range(b) = {}
  <2>0. \A j, k \in 1..Len(s) : s[j] = s[k] => j = k
    BY <1>4 DEF IsInjective
  <2>1. IsInjective(a)
    <3> SUFFICES ASSUME NEW j \in 1..i - 1, NEW k \in 1..i - 1, a[j] = a[k]
                 PROVE  j = k
      BY <1>1 DEF IsInjective
    <3> QED
      BY <1>0, <1>1, <2>0
  <2>2. IsInjective(b)
    <3> SUFFICES ASSUME NEW j \in 1..Len(s) - i + 1, NEW k \in 1..Len(s) - i + 1, b[j] = b[k]
                 PROVE  j = k
      BY <1>2 DEF IsInjective
    <3>1. i + j - 1 \in 1..Len(s) /\ i + k - 1 \in 1..Len(s)
      BY <1>0
    <3>2. s[i + j - 1] = s[i + k - 1]
      BY <1>2
    <3>3. i + j - 1 = i + k - 1
      BY <2>0, <3>1, <3>2
    <3> QED
      BY <1>0, <3>3
  <2>3. Range(a) \cap Range(b) = {}
    <3> SUFFICES ASSUME NEW j \in 1..i - 1, NEW k \in 1..Len(s) - i + 1, a[j] = b[k]
                 PROVE  FALSE
      BY <1>1, <1>2 DEF Range
    <3>1. j \in 1..Len(s) /\ i + k - 1 \in 1..Len(s) /\ j # i + k - 1
      BY <1>0
    <3>2. s[j] = s[i + k - 1]
      BY <1>1, <1>2
    <3> QED
      BY <2>0, <3>1, <3>2
  <2> QED
    BY <2>1, <2>2, <2>3
<1> QED
  BY <1>1, <1>2, <1>3, <1>4 DEF a, b

\* Two sequences joined.
LEMMA Joined ==
  ASSUME NEW S, NEW s \in Seq(S), NEW u \in Seq(S)
  PROVE  /\ s \o u \in Seq(S) /\ Range(s \o u) = Range(s) \cup Range(u)
         /\ IsInjective(s) /\ IsInjective(u) /\ Range(s) \cap Range(u) = {} => IsInjective(s \o u)
<1> DEFINE r == s \o u
<1>0. Len(s) \in Nat /\ Len(u) \in Nat
  BY LenProperties
<1>1. /\ r \in Seq(S) /\ Len(r) = Len(s) + Len(u) /\ DOMAIN r = 1..Len(s) + Len(u)
      /\ \A i \in 1..Len(s) : r[i] = s[i]
      /\ \A i \in 1..Len(u) : r[Len(s) + i] = u[i]
      /\ \A i \in 1..Len(s) + Len(u) : ~(i \in 1..Len(s)) =>
            i - Len(s) \in 1..Len(u) /\ r[i] = u[i - Len(s)]
  BY <1>0
<1> HIDE DEF r
<1>2. Range(r) = Range(s) \cup Range(u)
  BY RangeConcatenation DEF r
<1>3. ASSUME IsInjective(s), IsInjective(u), Range(s) \cap Range(u) = {}
      PROVE  IsInjective(r)
  <2>0. /\ \A j, k \in 1..Len(s) : s[j] = s[k] => j = k
        /\ \A j, k \in 1..Len(u) : u[j] = u[k] => j = k
        /\ \A j \in 1..Len(s), k \in 1..Len(u) : s[j] # u[k]
    BY <1>3 DEF IsInjective, Range
  <2> SUFFICES ASSUME NEW j \in 1..Len(s) + Len(u), NEW k \in 1..Len(s) + Len(u), r[j] = r[k]
               PROVE  j = k
    BY <1>1 DEF IsInjective
  <2>1. /\ ~(j \in 1..Len(s)) => j - Len(s) \in 1..Len(u) /\ r[j] = u[j - Len(s)]
        /\ ~(k \in 1..Len(s)) => k - Len(s) \in 1..Len(u) /\ r[k] = u[k - Len(s)]
        /\ j \in 1..Len(s) => r[j] = s[j]
        /\ k \in 1..Len(s) => r[k] = s[k]
    BY <1>1
  <2>2. CASE j \in 1..Len(s) /\ k \in 1..Len(s)
    BY <2>0, <2>1, <2>2
  <2>3. CASE j \in 1..Len(s) /\ ~(k \in 1..Len(s))
    BY <2>0, <2>1, <2>3
  <2>4. CASE ~(j \in 1..Len(s)) /\ k \in 1..Len(s)
    BY <2>0, <2>1, <2>4
  <2>5. CASE ~(j \in 1..Len(s)) /\ ~(k \in 1..Len(s))
    <3>1. j - Len(s) = k - Len(s)
      BY <2>0, <2>1, <2>5
    <3> QED
      BY <1>0, <3>1
  <2> QED
    BY <2>2, <2>3, <2>4, <2>5
<1> QED
  BY <1>1, <1>2, <1>3 DEF r

\* An element put at the end.
LEMMA Appended ==
  ASSUME NEW S, NEW s \in Seq(S), NEW x \in S
  PROVE  /\ Append(s, x) \in Seq(S) /\ Range(Append(s, x)) = Range(s) \cup {x}
         /\ IsInjective(s) /\ x \notin Range(s) => IsInjective(Append(s, x))
<1>1. Append(s, x) = s \o <<x>> /\ <<x>> \in Seq(S)
  BY AppendIsConcat
<1>2. Range(<<x>>) = {x} /\ IsInjective(<<x>>)
  <2>1. DOMAIN <<x>> = {1} /\ <<x>>[1] = x
    OBVIOUS
  <2> QED
    BY <2>1 DEF Range, IsInjective
<1>3. /\ s \o <<x>> \in Seq(S) /\ Range(s \o <<x>>) = Range(s) \cup Range(<<x>>)
      /\ IsInjective(s) /\ IsInjective(<<x>>) /\ Range(s) \cap Range(<<x>>) = {} =>
           IsInjective(s \o <<x>>)
  BY <1>1, Joined
<1> QED
  BY <1>1, <1>2, <1>3

\* The last element taken off.
LEMMA TakenOff ==
  ASSUME NEW S, NEW s \in Seq(S), s # <<>>
  PROVE  /\ Range(s) = Range(Front(s)) \cup {Last(s)}
         /\ IsInjective(s) => IsInjective(Front(s)) /\ Last(s) \notin Range(Front(s))
<1>1. /\ Len(s) \in Nat \ {0} /\ Front(s) \in Seq(S) /\ DOMAIN Front(s) = 1..Len(s) - 1
      /\ \A i \in 1..Len(s) - 1 : Front(s)[i] = s[i]
      /\ Last(s) = s[Len(s)] /\ Last(s) \in S /\ s = Append(Front(s), Last(s))
  BY FrontAndLast
<1>2. Range(Append(Front(s), Last(s))) = Range(Front(s)) \cup {Last(s)}
  BY <1>1, Appended
<1>3. ASSUME IsInjective(s)
      PROVE  IsInjective(Front(s)) /\ Last(s) \notin Range(Front(s))
  <2>1. \A j, k \in 1..Len(s) : s[j] = s[k] => j = k
    BY <1>3 DEF IsInjective
  <2>2. IsInjective(Front(s))
    BY <1>1, <2>1 DEF IsInjective
  <2>3. \A j \in 1..Len(s) - 1 : Front(s)[j] # Last(s)
    BY <1>1, <2>1
  <2> QED
    BY <1>1, <2>2, <2>3 DEF Range
<1> QED
  BY <1>1, <1>2, <1>3

\* A register that is emptied.
LEMMA OneRemoved ==
  ASSUME NEW S, NEW s \in Seq(S), NEW i \in 1..Len(s), IsInjective(s)
  PROVE  /\ Emptied(s, i) \in Seq(S) /\ IsInjective(Emptied(s, i)) /\ s[i] \in Range(s)
         /\ Range(Emptied(s, i)) = Range(s) \ {s[i]}
<1> DEFINE a == SubSeq(s, 1, i - 1)
           b == SubSeq(s, i, Len(s))
           c == SubSeq(s, i + 1, Len(s))
           d == SubSeq(s, 1, i)
<1>0. Len(s) \in Nat /\ i \in 1..Len(s) + 1 /\ i + 1 \in 1..Len(s) + 1 /\ i + 1 - 1 = i
  BY LenProperties
<1>1. /\ a \in Seq(S) /\ IsInjective(a) /\ Range(a) \cup Range(b) = Range(s)
      /\ Range(a) \cap Range(b) = {}
  BY <1>0, Cut
<1>2. /\ c \in Seq(S) /\ IsInjective(c) /\ Range(d) \cup Range(c) = Range(s)
      /\ Range(d) \cap Range(c) = {}
  BY <1>0, Cut
<1>3. d = Append(a, s[i]) /\ s[i] \in S
  <2>1. d \in Seq(S) /\ Len(d) = i /\ \A j \in 1..i : d[j] = s[j]
    BY <1>0, SubSeqProperties
  <2>2. a \in Seq(S) /\ Len(a) = i - 1 /\ \A j \in 1..i - 1 : a[j] = s[j]
    BY <1>0, SubSeqProperties
  <2> HIDE DEF a, d
  <2>3. s[i] \in S
    BY <1>0, ElementOfSeq
  <2>4. /\ Append(a, s[i]) \in Seq(S) /\ Len(Append(a, s[i])) = Len(a) + 1
        /\ \A j \in 1..Len(a) : Append(a, s[i])[j] = a[j]
        /\ Append(a, s[i])[Len(a) + 1] = s[i]
    BY <2>2, <2>3, AppendProperties
  <2>5. i \in Nat \ {0} /\ Len(a) + 1 = i /\ \A j \in 1..i : j = i \/ j \in 1..i - 1
    BY <1>0, <2>2
  <2>6. \A j \in 1..i : Append(a, s[i])[j] = d[j]
    BY <2>1, <2>2, <2>4, <2>5
  <2> QED
    BY <2>1, <2>3, <2>4, <2>5, <2>6, SeqEqual
<1>4. Range(d) = Range(a) \cup {s[i]}
  <2>1. Range(Append(a, s[i])) = Range(a) \cup {s[i]}
    <3> HIDE DEF a
    <3> QED
      BY <1>1, <1>3, Appended
  <2> QED
    BY <1>3, <2>1
<1>5. s[i] \in Range(b)
  <2>1. b \in Seq(S) /\ Len(b) = Len(s) - i + 1 /\ b[1] = s[i]
    BY <1>0, SubSeqProperties
  <2>2. 1 \in DOMAIN b
    BY <1>0, <2>1
  <2> HIDE DEF b
  <2> QED
    BY <2>1, <2>2 DEF Range
<1>6. Emptied(s, i) = a \o c
  BY DEF Emptied, RemoveAt
<1> HIDE DEF a, b, c, d
<1>7. Range(a) \cap Range(c) = {}
  BY <1>2, <1>4
<1> QED
  BY <1>1, <1>2, <1>4, <1>5, <1>6, <1>7, Joined
-----------------------------------------------------------------------------
(***************************************************************************)
(* Lists: what they hold, and whether they hold nothing twice.             *)
(***************************************************************************)
LEMMA NoLists ==
  /\ AllOf(<<>>) = {} /\ Apart(<<>>)
  /\ \A r : AllOf(<<r>>) = Range(r) /\ (Apart(<<r>>) <=> IsInjective(r))
<1>1. AllOf(<<>>) = {} /\ Apart(<<>>)
  BY DEF AllOf, Apart
<1>2. ASSUME NEW r
      PROVE  AllOf(<<r>>) = Range(r) /\ (Apart(<<r>>) <=> IsInjective(r))
  <2>1. DOMAIN <<r>> = {1} /\ <<r>>[1] = r
    OBVIOUS
  <2> QED
    BY <2>1 DEF AllOf, Apart
<1> QED
  BY <1>1, <1>2

\* What a further list holds, and when it repeats nothing.
LEMMA OneMoreList ==
  ASSUME NEW lists \in Seq(Seq(Nat)), NEW r \in Seq(Nat)
  PROVE  /\ AllOf(Append(lists, r)) = AllOf(lists) \cup Range(r)
         /\ Apart(Append(lists, r)) <=>
              Apart(lists) /\ IsInjective(r) /\ AllOf(lists) \cap Range(r) = {}
<1> DEFINE n == Len(lists)
           more == Append(lists, r)
<1>1. /\ n \in Nat /\ DOMAIN lists = 1..n /\ DOMAIN more = 1..n + 1
      /\ \A k \in 1..n : more[k] = lists[k]
      /\ more[n + 1] = r
  BY AppendProperties
<1> HIDE DEF n, more
<1>2. \A k \in 1..n + 1 : k = n + 1 \/ k \in 1..n
  BY <1>1
<1>3. n + 1 \notin 1..n /\ n + 1 \in 1..n + 1 /\ \A k \in 1..n : k \in 1..n + 1
  BY <1>1
<1>4. AllOf(more) = AllOf(lists) \cup Range(r)
  BY <1>1, <1>2, <1>3 DEF AllOf
<1>5. ASSUME Apart(more)
      PROVE  Apart(lists) /\ IsInjective(r) /\ AllOf(lists) \cap Range(r) = {}
  <2>1. Apart(lists) /\ IsInjective(r)
    BY <1>1, <1>3, <1>5 DEF Apart
  <2>2. \A k \in 1..n : Range(lists[k]) \cap Range(r) = {}
    BY <1>1, <1>3, <1>5 DEF Apart
  <2> QED
    BY <1>1, <2>1, <2>2 DEF AllOf
<1>6. ASSUME Apart(lists), IsInjective(r), AllOf(lists) \cap Range(r) = {}
      PROVE  Apart(more)
  <2>1. \A k \in 1..n + 1 : IsInjective(more[k])
    BY <1>1, <1>2, <1>6 DEF Apart
  <2>2. \A k \in 1..n : Range(lists[k]) \cap Range(r) = {}
    BY <1>1, <1>6 DEF AllOf
  <2>3. ASSUME NEW k \in 1..n + 1, NEW l \in 1..n + 1, k # l
        PROVE  Range(more[k]) \cap Range(more[l]) = {}
    <3>1. CASE k = n + 1
      BY <1>1, <1>2, <2>2, <2>3, <3>1
    <3>2. CASE l = n + 1
      BY <1>1, <1>2, <2>2, <2>3, <3>2
    <3>3. CASE k \in 1..n /\ l \in 1..n
      BY <1>1, <1>6, <2>3, <3>3 DEF Apart
    <3> QED
      BY <1>2, <3>1, <3>2, <3>3
  <2> QED
    BY <1>1, <2>1, <2>3 DEF Apart
<1> QED
  BY <1>4, <1>5, <1>6 DEF more
-----------------------------------------------------------------------------
(***************************************************************************)
(* Stacks.  A step of a task replaces the innermost of its activities.     *)
(***************************************************************************)
Activity == Releases \cup Executions
Replaces(t, new) == work' = [work EXCEPT ![t] = Front(@) \o new]
Below(t) == Len(Front(work[t]))
Pushed(a, values) == IF values = <<>> THEN <<a>> ELSE <<a, Releasing(values)>>
Becoming(a, at, frames, owned, result) ==
  [role |-> a.role, at |-> at, frames |-> frames, owned |-> owned,
   original |-> a.original, result |-> result]

\* A function updated at one point.
LEMMA Updated ==
  ASSUME NEW T, NEW S, NEW f \in [T -> S], NEW t \in T, NEW x \in S
  PROVE  [f EXCEPT ![t] = x] \in [T -> S]
OBVIOUS

\* A stack whose top is replaced, position by position.
LEMMA Stacked ==
  ASSUME StacksOK, NEW t \in Tasks, NEW new \in Seq(Activity), Replaces(t, new)
  PROVE  LET m == Below(t) IN
         /\ m \in Nat /\ (work[t] = <<>> => m = 0)
         /\ work[t] # <<>> =>
              DOMAIN work[t] = 1..m + 1 /\ m + 1 \in DOMAIN work[t] /\ Top(t) = work[t][m + 1]
         /\ work' \in [Tasks -> Seq(Activity)]
         /\ \A u \in Tasks \ {t} : work'[u] = work[u]
         /\ work'[t] = Front(work[t]) \o new
         /\ Len(new) \in Nat /\ DOMAIN work'[t] = 1..m + Len(new)
         /\ \A i \in 1..m : work'[t][i] = work[t][i] /\ i \in DOMAIN work[t]
         /\ \A j \in 1..Len(new) : work'[t][m + j] = new[j]
<1> DEFINE m == Below(t)
           s == work[t]
<1>1. s \in Seq(Activity)
  BY DEF StacksOK, Activity
<1>2. /\ work'[t] = Front(s) \o new
      /\ \A u \in Tasks \ {t} : work'[u] = work[u]
      /\ work' = [work EXCEPT ![t] = Front(s) \o new]
  BY DEF Replaces, StacksOK
<1>3. /\ m \in Nat /\ (s = <<>> => m = 0) /\ (s # <<>> => m = Len(s) - 1)
      /\ Front(s) \o new \in Seq(Activity) /\ Len(Front(s) \o new) = m + Len(new)
      /\ Len(new) \in Nat
      /\ \A i \in 1..m : (Front(s) \o new)[i] = s[i] /\ i \in 1..Len(s)
      /\ \A j \in 1..Len(new) : (Front(s) \o new)[m + j] = new[j]
  BY <1>1, Replaced DEF Below
<1>4. work' \in [Tasks -> Seq(Activity)]
  <2>1. work \in [Tasks -> Seq(Activity)]
    BY DEF StacksOK, Activity
  <2>2. work'[t] \in Seq(Activity)
    BY <1>2, <1>3
  <2>3. Front(s) \o new \in Seq(Activity)
    BY <1>3
  <2> HIDE DEF s
  <2> QED
    BY <1>2, <2>1, <2>3, Updated
<1>5. ASSUME s # <<>>
      PROVE  DOMAIN s = 1..m + 1 /\ m + 1 \in DOMAIN s /\ Top(t) = s[m + 1]
  <2>1. Len(s) \in Nat \ {0} /\ Last(s) = s[Len(s)]
    BY <1>1, <1>5, FrontAndLast
  <2>2. m + 1 = Len(s) /\ DOMAIN s = 1..Len(s) /\ Top(t) = Last(s)
    BY <1>1, <1>3, <1>5, <2>1 DEF Top
  <2> HIDE DEF m, s
  <2> QED
    BY <2>1, <2>2
<1>6. DOMAIN work'[t] = 1..m + Len(new) /\ DOMAIN s = 1..Len(s)
  BY <1>1, <1>2, <1>3
<1> HIDE DEF m, s
<1>7. \A i \in 1..m : work'[t][i] = s[i] /\ i \in DOMAIN s
  BY <1>2, <1>3, <1>6
<1>8. \A j \in 1..Len(new) : work'[t][m + j] = new[j]
  BY <1>2, <1>3
<1> QED
  BY <1>2, <1>3, <1>4, <1>5, <1>6, <1>7, <1>8 DEF m, s

\* Stacks keep their shape when what replaces the top has it.
LEMMA StacksStep ==
  ASSUME StacksOK, NEW t \in Tasks, NEW new \in Seq(Activity), Replaces(t, new),
         \A j \in 1..Len(new) : Proper(new[j], Below(t) + j)
  PROVE  StacksOK'
<1> DEFINE m == Below(t)
<1>1. /\ m \in Nat /\ work' \in [Tasks -> Seq(Activity)]
      /\ \A u \in Tasks \ {t} : work'[u] = work[u]
      /\ Len(new) \in Nat /\ DOMAIN work'[t] = 1..m + Len(new)
      /\ \A i \in 1..m : work'[t][i] = work[t][i] /\ i \in DOMAIN work[t]
      /\ \A j \in 1..Len(new) : work'[t][m + j] = new[j]
  BY Stacked
<1>2. \A j \in 1..Len(new) : Proper(new[j], m + j)
  OBVIOUS
<1> HIDE DEF m
<1>3. ASSUME NEW i \in 1..m + Len(new)
      PROVE  Proper(work'[t][i], i)
  <2>1. CASE i <= m
    BY <1>1, <2>1 DEF StacksOK
  <2>2. CASE i > m
    <3>1. i - m \in 1..Len(new) /\ i = m + (i - m)
      BY <1>1, <2>2
    <3> QED
      BY <1>1, <1>2, <3>1
  <2> QED
    BY <1>1, <2>1, <2>2
<1>4. \A u \in Tasks : \A i \in DOMAIN work'[u] : Proper(work'[u][i], i)
  BY <1>1, <1>3 DEF StacksOK
<1>5. \A a, i : Proper(a, i)' <=> Proper(a, i)
  BY DEF Proper, NoError
<1> QED
  BY <1>1, <1>4 DEF StacksOK, Proper, NoError, Activity

\* An activity with the release it causes above it.
LEMMA PushedIs ==
  ASSUME NEW a \in Activity, NEW values \in Seq(Nat)
  PROVE  /\ Pushed(a, values) \in Seq(Activity) /\ Releasing(values) \in Activity
         /\ Len(Pushed(a, values)) = (IF values = <<>> THEN 1 ELSE 2)
         /\ Pushed(a, values)[1] = a
         /\ values # <<>> => Pushed(a, values)[2] = Releasing(values)
<1>1. Releasing(values) \in Activity
  BY DEF Activity, Releases, Releasing
<1> HIDE DEF Activity
<1>2. <<a>> \in Seq(Activity) /\ <<a, Releasing(values)>> \in Seq(Activity)
  BY <1>1
<1> QED
  BY <1>1, <1>2 DEF Pushed

\* Two activities, one above the other.
LEMMA Paired ==
  ASSUME NEW S, NEW a \in S, NEW b \in S
  PROVE  <<a>> \o <<b>> = <<a, b>>
<1>1. /\ <<a>> \in Seq(S) /\ <<b>> \in Seq(S) /\ <<a, b>> \in Seq(S)
      /\ Len(<<a, b>>) = 2 /\ <<a, b>>[1] = a /\ <<a, b>>[2] = b
  OBVIOUS
<1>2. Len(<<a>> \o <<b>>) = 2 /\ <<a>> \o <<b>> \in Seq(S)
  BY <1>1
<1>3. (<<a>> \o <<b>>)[1] = a
  BY <1>1
<1>4. (<<a>> \o <<b>>)[2] = b
  BY <1>1
<1>5. \A i \in 1..2 : (<<a>> \o <<b>>)[i] = <<a, b>>[i]
  BY <1>1, <1>3, <1>4
<1> QED
  BY <1>1, <1>2, <1>5, SeqEqual

\* Both ways in which an action replaces the top of a stack.
LEMMA BecomingIs ==
  ASSUME StacksOK, NEW t \in Tasks, NEW a \in Activity, NEW values \in Seq(Nat)
  PROVE  /\ Becomes(t, a) => Replaces(t, Pushed(a, <<>>))
         /\ BecomesAndReleases(t, a, values) => Replaces(t, Pushed(a, values))
<1> DEFINE f == Front(work[t])
           r == Releasing(values)
<1>1. f \in Seq(Activity) /\ r \in Activity
  <2>1. work[t] \in Seq(Activity)
    BY DEF StacksOK, Activity
  <2>2. f \in Seq(Activity)
    BY <2>1, FrontAndLast, NoFront
  <2> QED
    BY <2>2, PushedIs
<1>2. <<a>> \in Seq(Activity) /\ <<r>> \in Seq(Activity) /\ <<>> \in Seq(Activity)
  BY <1>1
<1>3. Append(f, a) = f \o <<a>>
  BY <1>1, AppendIsConcat
<1>4. (f \o <<a>>) \o <<r>> = f \o (<<a>> \o <<r>>) /\ (f \o <<a>>) \o <<>> = f \o <<a>>
  BY <1>1, <1>2, ConcatAssociative
<1>5. <<a>> \o <<r>> = <<a, r>>
  BY <1>1, Paired
<1>6. ASSUME Becomes(t, a)
      PROVE  Replaces(t, Pushed(a, <<>>))
  BY <1>3, <1>6 DEF Becomes, Replaces, Pushed
<1>7. ASSUME BecomesAndReleases(t, a, values)
      PROVE  Replaces(t, Pushed(a, values))
  BY <1>4, <1>5, <1>7 DEF BecomesAndReleases, Replaces, Pushed
<1> QED
  BY <1>6, <1>7

\* An execution is what it becomes when nothing changes.
LEMMA SameAs ==
  ASSUME NEW a, NEW x \in Executions, x.role = a.role, x.original = a.original
  PROVE  x = Becoming(a, x.at, x.frames, x.owned, x.result)
BY DEF Executions, Becoming

\* The parts of an execution that changed.
LEMMA Became ==
  ASSUME NEW a \in Executions, NEW at \in {"loop", "unwind", "take", "end"},
         NEW fs \in Seq(Seq(Nat)), NEW o \in Seq(Nat), NEW r \in AnyError
  PROVE  LET x == Becoming(a, at, fs, o, r) IN
         /\ x \in Executions /\ x \in Activity /\ x.role = a.role /\ x.role # "drop"
         /\ x.at = at /\ x.frames = fs /\ x.owned = o /\ x.original = a.original /\ x.result = r
         /\ Lists(x) = Append(fs, o)
<1>1. Becoming(a, at, fs, o, r) \in Executions
  BY DEF Executions, Becoming
<1>2. a.role # "drop"
  BY DEF Executions
<1> QED
  BY <1>1, <1>2 DEF Activity, Becoming, Lists

\* What is known of an execution that can take a step.
LEMMA TopExecution ==
  ASSUME CleanupShape, NEW t \in Tasks, NEW at, Executes(t, at)
  PROVE  /\ work[t] # <<>> /\ on[t] \in Workers /\ Pending(t) \in AnyError
         /\ Top(t) \in Executions /\ Top(t).role # "drop" /\ Top(t).at = at
         /\ at \in {"loop", "unwind", "take", "end"} /\ Top(t).role \in {"run", "cleanup"}
         /\ Top(t).frames \in Seq(Seq(Nat)) /\ Top(t).owned \in Seq(Nat)
         /\ Top(t).result \in AnyError /\ Top(t).original \in AnyError
         /\ Lists(Top(t)) = Append(Top(t).frames, Top(t).owned)
         /\ Proper(Top(t), Below(t) + 1) /\ Below(t) \in Nat
         /\ Below(t) + 1 \in DOMAIN work[t] /\ work[t][Below(t) + 1] = Top(t)
<1>1. work[t] # <<>> /\ on[t] # Off /\ Top(t).role # "drop" /\ Top(t).at = at
  BY DEF Executes
<1>2. on[t] \in Workers /\ Pending(t) \in AnyError
  BY <1>1 DEF CleanupShape, ThreadsOK, Pending
<1>3. work[t] \in Seq(Activity)
  BY DEF CleanupShape, StacksOK, Activity
<1>4. /\ Len(work[t]) \in Nat \ {0} /\ Below(t) = Len(work[t]) - 1
      /\ Top(t) = work[t][Len(work[t])] /\ Top(t) \in Activity
  BY <1>1, <1>3, FrontAndLast DEF Below, Top
<1>5. Below(t) \in Nat /\ Below(t) + 1 = Len(work[t]) /\ Len(work[t]) \in DOMAIN work[t]
  BY <1>3, <1>4
<1>6. Top(t) \in Executions
  BY <1>1, <1>4 DEF Activity, Releases
<1>7. Proper(Top(t), Below(t) + 1)
  BY <1>4, <1>5 DEF CleanupShape, StacksOK
<1> QED
  BY <1>1, <1>2, <1>4, <1>5, <1>6, <1>7 DEF Lists, Executions

\* What is known of a list of values that is being released.
LEMMA TopRelease ==
  ASSUME CleanupShape, NEW t \in Tasks, Doing(t, "drop")
  PROVE  /\ work[t] # <<>> /\ on[t] \in Workers /\ Pending(t) \in AnyError
         /\ Top(t) \in Releases /\ Top(t).role = "drop" /\ Top(t).values \in Seq(Nat)
         /\ Lists(Top(t)) = <<Top(t).values>> /\ Below(t) \in Nat
         /\ Below(t) + 1 \in DOMAIN work[t] /\ work[t][Below(t) + 1] = Top(t)
<1>1. work[t] # <<>> /\ on[t] # Off /\ Top(t).role = "drop"
  BY DEF Doing
<1>2. on[t] \in Workers /\ Pending(t) \in AnyError
  BY <1>1 DEF CleanupShape, ThreadsOK, Pending
<1>3. work[t] \in Seq(Activity)
  BY DEF CleanupShape, StacksOK, Activity
<1>4. /\ Len(work[t]) \in Nat \ {0} /\ Below(t) = Len(work[t]) - 1
      /\ Top(t) = work[t][Len(work[t])] /\ Top(t) \in Activity
  BY <1>1, <1>3, FrontAndLast DEF Below, Top
<1>5. Below(t) \in Nat /\ Below(t) + 1 = Len(work[t]) /\ Len(work[t]) \in DOMAIN work[t]
  BY <1>3, <1>4
<1>6. Top(t) \in Releases
  BY <1>1, <1>4 DEF Activity, Executions
<1> QED
  BY <1>1, <1>2, <1>4, <1>5, <1>6 DEF Lists, Releases
-----------------------------------------------------------------------------
(***************************************************************************)
(* What each action makes of the execution at the top of a stack, and what *)
(* it puts above it to be released.                                        *)
(***************************************************************************)
Advances(t, x, values) ==
  /\ x \in Executions /\ values \in Seq(Nat)
  /\ Proper(x, Below(t) + 1) /\ Replaces(t, Pushed(x, values))

\* The innermost frame of an execution, and the others.
LEMMA TopFrame ==
  ASSUME CleanupShape, NEW t \in Tasks, NEW at, Executes(t, at), Top(t).frames # <<>>
  PROVE  /\ Front(Top(t).frames) \in Seq(Seq(Nat)) /\ Registers(t) \in Seq(Nat)
         /\ Top(t).frames = Append(Front(Top(t).frames), Registers(t))
<1>1. Top(t).frames \in Seq(Seq(Nat))
  BY TopExecution
<1> QED
  BY <1>1, FrontAndLast DEF Registers

\* An execution that changes its phase, frames, values or result.
LEMMA AdvancesBy ==
  ASSUME CleanupShape, NEW t \in Tasks, NEW was, Executes(t, was),
         NEW at \in {"loop", "unwind", "take", "end"},
         NEW fs \in Seq(Seq(Nat)), NEW o \in Seq(Nat), NEW r \in AnyError,
         NEW values \in Seq(Nat),
         at = "loop" => fs # <<>> /\ r = NoError,
         at \in {"take", "end"} => fs = <<>>,
         at = "end" => o = <<>>,
         LET x == Becoming(Top(t), at, fs, o, r)
         IN  BecomesAndReleases(t, x, values) \/ (values = <<>> /\ Becomes(t, x))
  PROVE  Advances(t, Becoming(Top(t), at, fs, o, r), values)
<1>1. Top(t) \in Executions /\ Proper(Top(t), Below(t) + 1) /\ Top(t).role # "drop"
  BY TopExecution
<1> DEFINE a == Top(t)
           x == Becoming(a, at, fs, o, r)
<1>a. a \in Executions
  BY <1>1
<1> HIDE DEF a
<1>2. /\ x \in Executions /\ x \in Activity /\ x.role = a.role /\ x.at = at
      /\ x.frames = fs /\ x.owned = o /\ x.original = a.original /\ x.result = r
  <2>1. x \in Executions /\ x \in Activity
    BY <1>a, Became
  <2> QED
    BY <2>1 DEF Becoming
<1> HIDE DEF x
<1>3. Proper(x, Below(t) + 1)
  BY <1>1, <1>2 DEF Proper, a
<1>4. Replaces(t, Pushed(x, values))
  BY <1>2, BecomingIs DEF CleanupShape, x, a
<1> QED
  BY <1>2, <1>3, <1>4 DEF Advances, x, a

\* execute_frames takes the pending failure as its result.
LEMMA ReportedForm ==
  ASSUME CleanupShape, NEW t \in Tasks, Reported(t)
  PROVE  /\ Executes(t, "loop")
         /\ Advances(t, Becoming(Top(t), "unwind", Top(t).frames, Top(t).owned, Pending(t)), <<>>)
<1>1. Executes(t, "loop")
  BY DEF Reported
<1>2. /\ Top(t) \in Executions /\ Pending(t) \in AnyError
      /\ Top(t).frames \in Seq(Seq(Nat)) /\ Top(t).owned \in Seq(Nat)
  BY <1>1, TopExecution
<1>3. Becomes(t, Becoming(Top(t), "unwind", Top(t).frames, Top(t).owned, Pending(t)))
  <2> DEFINE x == [Top(t) EXCEPT !.at = "unwind", !.result = Pending(t)]
  <2>1. /\ x \in Executions /\ x.role = Top(t).role /\ x.original = Top(t).original
        /\ x.at = "unwind" /\ x.frames = Top(t).frames /\ x.owned = Top(t).owned
        /\ x.result = Pending(t)
    BY <1>2 DEF Executions
  <2>2. Becomes(t, x)
    BY DEF Reported
  <2> HIDE DEF x
  <2> QED
    BY <2>1, <2>2, SameAs
<1>4. <<>> \in Seq(Nat)
  OBVIOUS
<1> QED
  BY <1>1, <1>2, <1>3, <1>4, AdvancesBy

\* MakeRecord, MakeVariant or SpawnRemote moves registers into a value.
LEMMA MakeForm ==
  ASSUME CleanupShape, NEW t \in Tasks, NEW k \in Kinds, NEW i \in 1..MaxValues, Make(t, k, i)
  PROVE  LET r == Registers(t) IN
         /\ Executes(t, "loop") /\ i \in 1..Len(r) + 1 /\ Top(t).frames # <<>>
         /\ Advances(t, Becoming(Top(t), "loop",
              Append(Front(Top(t).frames), Append(SubSeq(r, 1, i - 1), Len(kind) + 1)),
              Top(t).owned, Top(t).result), <<>>)
<1> DEFINE r == Registers(t)
           new == Append(SubSeq(r, 1, i - 1), Len(kind) + 1)
           fs == Append(Front(Top(t).frames), new)
<1>1. Executes(t, "loop") /\ i \in 1..Len(r) + 1
  BY DEF Make, Instruction
<1>2. /\ Top(t) \in Executions /\ Top(t).result \in AnyError /\ Top(t).at = "loop"
      /\ Top(t).frames # <<>> /\ Top(t).result = NoError
      /\ Top(t).frames \in Seq(Seq(Nat)) /\ Top(t).owned \in Seq(Nat)
  BY <1>1, TopExecution DEF Proper
<1>3. Front(Top(t).frames) \in Seq(Seq(Nat)) /\ r \in Seq(Nat)
  BY <1>1, <1>2, TopFrame
<1>4. SubSeq(r, 1, i - 1) \in Seq(Nat)
  BY <1>1, <1>3, Cut
<1>5. Len(kind) + 1 \in Nat
  BY LenProperties DEF CleanupShape, ValuesOK
<1>6. new \in Seq(Nat)
  BY <1>4, <1>5, AppendProperties
<1> HIDE DEF new
<1>7. fs \in Seq(Seq(Nat)) /\ fs # <<>>
  <2>1. PICK F : F = Front(Top(t).frames)
    OBVIOUS
  <2>3. PICK S : S = Seq(Nat)
    OBVIOUS
  <2>4. F \in Seq(S) /\ new \in S
    BY <1>3, <1>6, <2>1, <2>3
  <2>2. Append(F, new) \in Seq(S) /\ Append(F, new) # <<>>
    BY <2>4, AppendProperties
  <2> QED
    BY <2>1, <2>2, <2>3
<1>8. Becomes(t, Becoming(Top(t), "loop", fs, Top(t).owned, Top(t).result))
  <2> DEFINE x == [Top(t) EXCEPT !.frames = fs]
  <2>1. Becomes(t, x)
    BY DEF Make, new
  <2> HIDE DEF fs
  <2>2. /\ x \in Executions /\ x.role = Top(t).role /\ x.original = Top(t).original
        /\ x.at = "loop" /\ x.frames = fs /\ x.owned = Top(t).owned
        /\ x.result = Top(t).result
    BY <1>2, <1>7 DEF Executions
  <2> HIDE DEF x
  <2> QED
    BY <2>1, <2>2, SameAs
<1>9. <<>> \in Seq(Nat)
  OBVIOUS
<1> HIDE DEF fs
<1>10. Advances(t, Becoming(Top(t), "loop", fs, Top(t).owned, Top(t).result), <<>>)
  BY <1>1, <1>2, <1>7, <1>8, <1>9, AdvancesBy
<1> QED
  BY <1>1, <1>2, <1>10 DEF fs, new

\* Drop empties a register.
LEMMA DropRegisterForm ==
  ASSUME CleanupShape, NEW t \in Tasks, NEW i \in 1..MaxValues, DropRegister(t, i)
  PROVE  LET r == Registers(t) IN
         /\ Executes(t, "loop") /\ i \in 1..Len(r) /\ Top(t).frames # <<>>
         /\ Advances(t, Becoming(Top(t), "loop", Append(Front(Top(t).frames), Emptied(r, i)),
                                 Top(t).owned, Top(t).result), <<r[i]>>)
<1> DEFINE r == Registers(t)
           fs == Append(Front(Top(t).frames), Emptied(r, i))
<1>1. Executes(t, "loop") /\ i \in 1..Len(r)
  BY DEF DropRegister, Instruction
<1>2. /\ Top(t) \in Executions /\ Top(t).result \in AnyError /\ Top(t).at = "loop"
      /\ Top(t).frames # <<>> /\ Top(t).result = NoError
      /\ Top(t).frames \in Seq(Seq(Nat)) /\ Top(t).owned \in Seq(Nat)
  BY <1>1, TopExecution DEF Proper
<1>3. Front(Top(t).frames) \in Seq(Seq(Nat)) /\ r \in Seq(Nat)
  BY <1>1, <1>2, TopFrame
<1>4. Emptied(r, i) \in Seq(Nat)
  <2>1. /\ i \in 1..Len(r) + 1 /\ i + 1 \in 1..Len(r) + 1 /\ i + 1 - 1 = i
    BY <1>1, <1>3, LenProperties
  <2>2. SubSeq(r, 1, i - 1) \in Seq(Nat) /\ SubSeq(r, i + 1, Len(r)) \in Seq(Nat)
    BY <1>3, <2>1, Cut
  <2> QED
    BY <2>2, ConcatProperties DEF Emptied, RemoveAt
<1>5. <<r[i]>> \in Seq(Nat)
  BY <1>1, <1>3, ElementOfSeq
<1>6. fs \in Seq(Seq(Nat)) /\ fs # <<>>
  BY <1>3, <1>4, AppendProperties
<1>7. BecomesAndReleases(t, Becoming(Top(t), "loop", fs, Top(t).owned, Top(t).result), <<r[i]>>)
  <2> DEFINE x == [Top(t) EXCEPT !.frames = fs]
  <2>1. BecomesAndReleases(t, x, <<r[i]>>)
    BY DEF DropRegister
  <2> HIDE DEF fs
  <2>2. /\ x \in Executions /\ x.role = Top(t).role /\ x.original = Top(t).original
        /\ x.at = "loop" /\ x.frames = fs /\ x.owned = Top(t).owned
        /\ x.result = Top(t).result
    BY <1>2, <1>6 DEF Executions
  <2> HIDE DEF x
  <2> QED
    BY <2>1, <2>2, SameAs
<1> HIDE DEF fs
<1>8. Advances(t, Becoming(Top(t), "loop", fs, Top(t).owned, Top(t).result), <<r[i]>>)
  BY <1>1, <1>2, <1>5, <1>6, <1>7, AdvancesBy
<1> QED
  BY <1>1, <1>2, <1>8 DEF fs

\* A call cuts the registers between caller and callee.
LEMMA CallForm ==
  ASSUME CleanupShape, NEW t \in Tasks, NEW i \in 1..MaxValues, Call(t, i)
  PROVE  LET r == Registers(t)
             left == SubSeq(r, 1, i - 1)
             right == SubSeq(r, i, Len(r))
         IN
         /\ Executes(t, "loop") /\ i \in 1..Len(r) + 1 /\ Top(t).frames # <<>>
         /\ Advances(t, Becoming(Top(t), "loop", Append(Append(Front(Top(t).frames), left), right),
                                 Top(t).owned, Top(t).result), <<>>)
<1> DEFINE r == Registers(t)
           left == SubSeq(r, 1, i - 1)
           right == SubSeq(r, i, Len(r))
           f == Front(Top(t).frames)
           fs == f \o <<left, right>>
<1>1. Executes(t, "loop") /\ i \in 1..Len(r) + 1
  BY DEF Call, Instruction
<1>2. /\ Top(t) \in Executions /\ Top(t).result \in AnyError /\ Top(t).at = "loop"
      /\ Top(t).frames # <<>> /\ Top(t).result = NoError
      /\ Top(t).frames \in Seq(Seq(Nat)) /\ Top(t).owned \in Seq(Nat)
  BY <1>1, TopExecution DEF Proper
<1>3. Front(Top(t).frames) \in Seq(Seq(Nat)) /\ r \in Seq(Nat)
  BY <1>1, <1>2, TopFrame
<1>4. left \in Seq(Nat) /\ right \in Seq(Nat)
  BY <1>1, <1>3, Cut
<1>5. Becomes(t, [Top(t) EXCEPT !.frames = fs])
  BY DEF Call
<1> HIDE DEF left, right
<1>6. fs = Append(Append(f, left), right)
  <2>1. <<left>> \in Seq(Seq(Nat)) /\ <<right>> \in Seq(Seq(Nat)) /\ f \in Seq(Seq(Nat))
    BY <1>3, <1>4
  <2> HIDE DEF f
  <2>2. Append(Append(f, left), right) = (f \o <<left>>) \o <<right>>
    <3>1. Append(f, left) = f \o <<left>> /\ Append(f, left) \in Seq(Seq(Nat))
      BY <1>4, <2>1, AppendIsConcat, AppendProperties
    <3> QED
      BY <1>4, <3>1, AppendIsConcat
  <2>3. (f \o <<left>>) \o <<right>> = f \o (<<left>> \o <<right>>)
    BY <2>1, ConcatAssociative
  <2>4. <<left>> \o <<right>> = <<left, right>>
    BY <1>4, Paired
  <2> QED
    BY <2>2, <2>3, <2>4
<1>7. fs \in Seq(Seq(Nat)) /\ fs # <<>>
  <2> HIDE DEF f
  <2>1. Append(f, left) \in Seq(Seq(Nat))
    BY <1>3, <1>4, AppendProperties DEF f
  <2> QED
    BY <1>4, <1>6, <2>1, AppendProperties
<1> HIDE DEF fs
<1>8. Becomes(t, Becoming(Top(t), "loop", fs, Top(t).owned, Top(t).result))
  <2> DEFINE x == [Top(t) EXCEPT !.frames = fs]
  <2>1. Becomes(t, x)
    BY <1>5
  <2>2. /\ x \in Executions /\ x.role = Top(t).role /\ x.original = Top(t).original
        /\ x.at = "loop" /\ x.frames = fs /\ x.owned = Top(t).owned
        /\ x.result = Top(t).result
    BY <1>2, <1>7 DEF Executions
  <2> HIDE DEF x
  <2> QED
    BY <2>1, <2>2, SameAs
<1>9. <<>> \in Seq(Nat)
  OBVIOUS
<1>10. Advances(t, Becoming(Top(t), "loop", fs, Top(t).owned, Top(t).result), <<>>)
  BY <1>1, <1>2, <1>7, <1>8, <1>9, AdvancesBy
<1> QED
  BY <1>1, <1>2, <1>6, <1>10 DEF left, right

\* An instruction fails.
LEMMA FailForm ==
  ASSUME CleanupAssumption, CleanupShape, NEW t \in Tasks, Fail(t)
  PROVE  /\ Executes(t, "loop") /\ <<t, fails[t] + 1>> \in AnyError
         /\ Advances(t, Becoming(Top(t), "unwind", Top(t).frames, Top(t).owned,
                                 <<t, fails[t] + 1>>), <<>>)
<1>1. Executes(t, "loop")
  BY DEF Fail, Instruction
<1>2. /\ Top(t) \in Executions /\ Top(t).frames \in Seq(Seq(Nat)) /\ Top(t).owned \in Seq(Nat)
  BY <1>1, TopExecution
<1>3. <<t, fails[t] + 1>> \in AnyError
  <2>1. fails[t] \in Nat /\ fails[t] < MaxFails /\ MaxFails \in Nat
    BY DEF Fail, CleanupShape, ThreadsOK, CleanupAssumption
  <2>2. fails[t] + 1 \in 1..MaxFails
    BY <2>1
  <2> QED
    BY <2>2 DEF AnyError, Errors
<1>4. Becomes(t, Becoming(Top(t), "unwind", Top(t).frames, Top(t).owned, <<t, fails[t] + 1>>))
  <2> DEFINE e == <<t, fails[t] + 1>>
             x == [Top(t) EXCEPT !.at = "unwind", !.result = e]
  <2>1. Becomes(t, x)
    BY DEF Fail
  <2>e. e \in AnyError
    BY <1>3
  <2> HIDE DEF e
  <2>2. /\ x \in Executions /\ x.role = Top(t).role /\ x.original = Top(t).original
        /\ x.at = "unwind" /\ x.frames = Top(t).frames /\ x.owned = Top(t).owned
        /\ x.result = e
    BY <1>2, <2>e DEF Executions
  <2> HIDE DEF x
  <2> QED
    BY <2>1, <2>2, SameAs DEF e
<1>5. <<>> \in Seq(Nat)
  OBVIOUS
<1> QED
  BY <1>1, <1>2, <1>3, <1>4, <1>5, AdvancesBy

\* FrameStack::drop takes the innermost frame.
LEMMA UnwindForm ==
  ASSUME CleanupShape, NEW t \in Tasks, Unwind(t)
  PROVE  /\ Executes(t, "unwind") /\ Top(t).frames # <<>>
         /\ Advances(t, Becoming(Top(t), "unwind", Front(Top(t).frames), Top(t).owned,
                                 Top(t).result), Registers(t))
<1>1. Executes(t, "unwind") /\ Top(t).frames # <<>>
  BY DEF Unwind
<1>2. /\ Top(t) \in Executions /\ Top(t).frames \in Seq(Seq(Nat)) /\ Top(t).owned \in Seq(Nat)
      /\ Top(t).at = "unwind" /\ Top(t).result \in AnyError
  BY <1>1, TopExecution
<1>3. Front(Top(t).frames) \in Seq(Seq(Nat)) /\ Registers(t) \in Seq(Nat)
  BY <1>1, TopFrame
<1>4. BecomesAndReleases(t, Becoming(Top(t), "unwind", Front(Top(t).frames), Top(t).owned,
                                     Top(t).result), Registers(t))
  <2> DEFINE fs == Front(Top(t).frames)
             x == [Top(t) EXCEPT !.frames = fs]
  <2>1. BecomesAndReleases(t, x, Registers(t))
    BY DEF Unwind
  <2>e. fs \in Seq(Seq(Nat))
    BY <1>3
  <2> HIDE DEF fs
  <2>2. /\ x \in Executions /\ x.role = Top(t).role /\ x.original = Top(t).original
        /\ x.at = "unwind" /\ x.frames = fs /\ x.owned = Top(t).owned
        /\ x.result = Top(t).result
    BY <1>2, <2>e DEF Executions
  <2> HIDE DEF x
  <2> QED
    BY <2>1, <2>2, SameAs DEF fs
<1> QED
  BY <1>1, <1>2, <1>3, <1>4, AdvancesBy

\* The last frame is gone.
LEMMA UnwoundForm ==
  ASSUME CleanupShape, NEW t \in Tasks, Unwound(t)
  PROVE  /\ Executes(t, "unwind") /\ Top(t).frames = <<>>
         /\ Top(t).result = NoError =>
              Advances(t, Becoming(Top(t), "take", <<>>, Top(t).owned, Top(t).result), <<>>)
         /\ Top(t).result # NoError =>
              Advances(t, Becoming(Top(t), "take", <<>>, <<>>, Top(t).result), Top(t).owned)
<1>1. Executes(t, "unwind") /\ Top(t).frames = <<>>
  BY DEF Unwound
<1>2. /\ Top(t) \in Executions /\ <<>> \in Seq(Seq(Nat)) /\ Top(t).owned \in Seq(Nat)
      /\ Top(t).result \in AnyError /\ <<>> \in Seq(Nat)
  BY <1>1, TopExecution
<1>3. ASSUME Top(t).result = NoError
      PROVE  Advances(t, Becoming(Top(t), "take", <<>>, Top(t).owned, Top(t).result), <<>>)
  <2> DEFINE x == [Top(t) EXCEPT !.at = "take"]
  <2>1. Becomes(t, x)
    BY <1>3 DEF Unwound
  <2>2. /\ x \in Executions /\ x.role = Top(t).role /\ x.original = Top(t).original
        /\ x.at = "take" /\ x.frames = <<>> /\ x.owned = Top(t).owned
        /\ x.result = Top(t).result
    BY <1>1, <1>2 DEF Executions
  <2> HIDE DEF x
  <2>3. Becomes(t, Becoming(Top(t), "take", <<>>, Top(t).owned, Top(t).result))
    BY <2>1, <2>2, SameAs
  <2> QED
    BY <1>1, <1>2, <2>3, AdvancesBy
<1>4. ASSUME Top(t).result # NoError
      PROVE  Advances(t, Becoming(Top(t), "take", <<>>, <<>>, Top(t).result), Top(t).owned)
  <2> DEFINE x == [Top(t) EXCEPT !.at = "take", !.owned = <<>>]
  <2>1. BecomesAndReleases(t, x, Top(t).owned)
    BY <1>4 DEF Unwound
  <2>2. /\ x \in Executions /\ x.role = Top(t).role /\ x.original = Top(t).original
        /\ x.at = "take" /\ x.frames = <<>> /\ x.owned = <<>>
        /\ x.result = Top(t).result
    BY <1>1, <1>2 DEF Executions
  <2> HIDE DEF x
  <2>3. BecomesAndReleases(t, Becoming(Top(t), "take", <<>>, <<>>, Top(t).result), Top(t).owned)
    BY <2>1, <2>2, SameAs
  <2> QED
    BY <1>1, <1>2, <2>3, AdvancesBy
<1> QED
  BY <1>1, <1>3, <1>4

\* A worker's result leaves with its reply; any other is released.
Sent(t) == Or(Top(t).result, Pending(t)) = NoError /\ t \in Coroutines /\ Top(t).role = "run"

\* execute_with_leases ends.
LEMMA TakeForm ==
  ASSUME CleanupShape, NEW t \in Tasks, Take(t)
  PROVE  /\ Executes(t, "take") /\ Top(t).frames = <<>>
         /\ Or(Top(t).result, Pending(t)) \in AnyError
         /\ Advances(t, Becoming(Top(t), "end", <<>>, <<>>, Or(Top(t).result, Pending(t))),
                     IF Sent(t) THEN <<>> ELSE Top(t).owned)
         /\ gone' = gone \cup IF Sent(t) THEN Subvalues(Top(t).owned) ELSE {}
<1>1. Executes(t, "take")
  BY DEF Take
<1>2. /\ Top(t) \in Executions /\ <<>> \in Seq(Seq(Nat)) /\ Top(t).owned \in Seq(Nat)
      /\ Top(t).frames = <<>> /\ <<>> \in Seq(Nat) /\ Or(Top(t).result, Pending(t)) \in AnyError
  <2>1. /\ Top(t) \in Executions /\ Top(t).owned \in Seq(Nat) /\ Top(t).at = "take"
        /\ Top(t).role # "drop" /\ Proper(Top(t), Below(t) + 1)
        /\ Top(t).result \in AnyError /\ Pending(t) \in AnyError
    BY <1>1, TopExecution
  <2>2. Top(t).frames = <<>>
    BY <2>1 DEF Proper
  <2> QED
    BY <2>1, <2>2 DEF Or
<1> DEFINE r == Or(Top(t).result, Pending(t))
           values == IF Sent(t) THEN <<>> ELSE Top(t).owned
           x == [Top(t) EXCEPT !.at = "end", !.result = r, !.owned = <<>>]
<1>3. BecomesAndReleases(t, x, values)
  BY DEF Take, Sent
<1> HIDE DEF r
<1>4. /\ x \in Executions /\ x.role = Top(t).role /\ x.original = Top(t).original
      /\ x.at = "end" /\ x.frames = <<>> /\ x.owned = <<>> /\ x.result = r
  BY <1>2 DEF Executions, r
<1>5. values \in Seq(Nat)
  BY <1>2
<1> HIDE DEF values, x
<1>6. BecomesAndReleases(t, Becoming(Top(t), "end", <<>>, <<>>, r), values)
  BY <1>3, <1>4, SameAs
<1>7. Advances(t, Becoming(Top(t), "end", <<>>, <<>>, r), values)
  BY <1>1, <1>2, <1>5, <1>6, AdvancesBy DEF r
<1>8. gone' = gone \cup IF Sent(t) THEN Subvalues(Top(t).owned) ELSE {}
  BY DEF Take, Sent
<1> QED
  BY <1>1, <1>2, <1>7, <1>8 DEF r, values

\* What a frame keeps when it returns `results`, and where they go.
Leftover(t, results) == SubSeq(Registers(t), 1, Len(Registers(t)) - Len(results))
Callers(t) == Front(Top(t).frames)

\* A result and what its frame keeps are the registers.
LEMMA Divides ==
  ASSUME NEW r \in Seq(Nat), NEW results,
         results = <<>> \/ (r # <<>> /\ results = <<Last(r)>>),
         NEW kept, kept = SubSeq(r, 1, Len(r) - Len(results))
  PROVE  /\ kept \in Seq(Nat) /\ results \in Seq(Nat)
         /\ Range(kept) \cup Range(results) = Range(r)
<1>1. CASE results = <<>>
  <2>1. kept = r
    BY <1>1, LenProperties, SubSeqFull
  <2>2. Range(results) = {} /\ results \in Seq(Nat)
    BY <1>1 DEF Range
  <2> QED
    BY <2>1, <2>2
<1>2. CASE r # <<>> /\ results = <<Last(r)>>
  <2>1. kept = Front(r)
    BY <1>2 DEF Front
  <2>2. Front(r) \in Seq(Nat) /\ Last(r) \in Nat
    BY <1>2, FrontAndLast
  <2>3. DOMAIN results = {1} /\ results[1] = Last(r)
    BY <1>2
  <2>4. Range(results) = {Last(r)}
    BY <2>3 DEF Range
  <2>5. results \in Seq(Nat)
    BY <1>2, <2>2
  <2>6. Range(r) = Range(Front(r)) \cup {Last(r)}
    BY <1>2, TakenOff
  <2> QED
    BY <2>1, <2>2, <2>4, <2>5, <2>6
<1> QED
  BY <1>1, <1>2

\* No value is both the result and kept.
LEMMA DividesApart ==
  ASSUME NEW r \in Seq(Nat), NEW results, IsInjective(r),
         results = <<>> \/ (r # <<>> /\ results = <<Last(r)>>),
         NEW kept, kept = SubSeq(r, 1, Len(r) - Len(results))
  PROVE  /\ IsInjective(kept) /\ IsInjective(results)
         /\ Range(kept) \cap Range(results) = {}
<1>1. CASE results = <<>>
  <2>1. kept = r
    BY <1>1, LenProperties, SubSeqFull
  <2>2. Range(results) = {} /\ IsInjective(results)
    BY <1>1 DEF Range, IsInjective
  <2> QED
    BY <2>1, <2>2
<1>2. CASE r # <<>> /\ results = <<Last(r)>>
  <2>1. kept = Front(r)
    BY <1>2 DEF Front
  <2>2. DOMAIN results = {1} /\ results[1] = Last(r)
    BY <1>2
  <2>3. Range(results) = {Last(r)} /\ IsInjective(results)
    BY <2>2 DEF Range, IsInjective
  <2>4. IsInjective(Front(r)) /\ Last(r) \notin Range(Front(r))
    BY <1>2, TakenOff
  <2> QED
    BY <2>1, <2>3, <2>4
<1> QED
  BY <1>1, <1>2

\* A frame returns to its caller, or ends the execution.
LEMMA ReturnForm ==
  ASSUME CleanupShape, NEW t \in Tasks, NEW results, Return(t, results)
  PROVE  /\ Executes(t, "loop") /\ Top(t).frames # <<>>
         /\ results = <<>> \/ (Registers(t) # <<>> /\ results = <<Last(Registers(t))>>)
         /\ Callers(t) = <<>> =>
              Advances(t, Becoming(Top(t), "unwind", <<>>, Top(t).owned \o results,
                                   Top(t).result), Leftover(t, results))
         /\ Callers(t) # <<>> =>
              Advances(t, Becoming(Top(t), "loop",
                           Append(Front(Callers(t)), Last(Callers(t)) \o results),
                           Top(t).owned, Top(t).result), Leftover(t, results))
         /\ torn' = torn \cup {Leftover(t, results)}
<1> DEFINE r == Registers(t)
           kept == Leftover(t, results)
           callers == Callers(t)
           received == IF callers = <<>> THEN callers
                       ELSE Append(Front(callers), Last(callers) \o results)
           owned == IF callers = <<>> THEN Top(t).owned \o results ELSE Top(t).owned
           at == IF callers = <<>> THEN "unwind" ELSE Top(t).at
           x == [Top(t) EXCEPT !.frames = received, !.owned = owned, !.at = at]
<1>1. /\ Executes(t, "loop")
      /\ results = <<>> \/ (r # <<>> /\ results = <<Last(r)>>)
  BY DEF Return, Instruction, Registers
<1>2. /\ Top(t) \in Executions /\ Top(t).result \in AnyError /\ Top(t).at = "loop"
      /\ Top(t).frames # <<>> /\ Top(t).result = NoError
      /\ Top(t).frames \in Seq(Seq(Nat)) /\ Top(t).owned \in Seq(Nat)
  BY <1>1, TopExecution DEF Proper
<1>3. Front(Top(t).frames) \in Seq(Seq(Nat)) /\ r \in Seq(Nat)
  BY <1>1, <1>2, TopFrame
<1>4. kept \in Seq(Nat) /\ results \in Seq(Nat)
  <2>1. kept = SubSeq(r, 1, Len(r) - Len(results))
    BY DEF Leftover
  <2> HIDE DEF kept, r
  <2>2. r \in Seq(Nat) /\ (results = <<>> \/ (r # <<>> /\ results = <<Last(r)>>))
    BY <1>1, <1>3
  <2> QED
    BY <2>1, <2>2, Divides
<1>5. BecomesAndReleases(t, x, kept) /\ torn' = torn \cup {kept}
  BY DEF Return, Leftover, Callers, Registers
<1>6. callers \in Seq(Seq(Nat))
  BY <1>3 DEF Callers
<1>7. Top(t).owned \o results \in Seq(Nat)
  BY <1>2, <1>4, ConcatProperties
<1>8. received \in Seq(Seq(Nat)) /\ (callers # <<>> => received # <<>>)
  <2>1. CASE callers = <<>>
    BY <1>6, <2>1
  <2>2. CASE callers # <<>>
    <3>1. Front(callers) \in Seq(Seq(Nat)) /\ Last(callers) \in Seq(Nat)
      BY <1>6, <2>2, FrontAndLast
    <3>2. Last(callers) \o results \in Seq(Nat)
      BY <1>4, <3>1, ConcatProperties
    <3>3. PICK F, l : F = Front(callers) /\ l = Last(callers) \o results
      OBVIOUS
    <3>4. Append(F, l) \in Seq(Seq(Nat)) /\ Append(F, l) # <<>>
      BY <3>1, <3>2, <3>3, AppendProperties
    <3> QED
      BY <2>2, <3>3, <3>4
  <2> QED
    BY <2>1, <2>2
<1>9. owned \in Seq(Nat) /\ at \in {"loop", "unwind"}
  BY <1>2, <1>7
<1> HIDE DEF received, owned, at, kept
<1>10. /\ x \in Executions /\ x.role = Top(t).role /\ x.original = Top(t).original
       /\ x.at = at /\ x.frames = received /\ x.owned = owned /\ x.result = Top(t).result
  BY <1>2, <1>8, <1>9 DEF Executions
<1> HIDE DEF x
<1>11. BecomesAndReleases(t, Becoming(Top(t), at, received, owned, Top(t).result), kept)
  BY <1>5, <1>10, SameAs
<1>12. at = "loop" => callers # <<>>
  BY DEF at
<1>13. Advances(t, Becoming(Top(t), at, received, owned, Top(t).result), kept)
  BY <1>1, <1>2, <1>4, <1>8, <1>9, <1>11, <1>12, AdvancesBy
<1>14. ASSUME callers = <<>>
       PROVE  at = "unwind" /\ received = <<>> /\ owned = Top(t).owned \o results
  BY <1>14 DEF at, received, owned
<1>15. ASSUME callers # <<>>
       PROVE  /\ at = "loop" /\ received = Append(Front(callers), Last(callers) \o results)
              /\ owned = Top(t).owned
  BY <1>2, <1>15 DEF at, received, owned
<1> QED
  BY <1>1, <1>2, <1>5, <1>13, <1>14, <1>15 DEF kept

\* The value a list of values to release comes to next.
Value(t) == Last(Top(t).values)
Rest(t) == Front(Top(t).values)

\* The value that is released next.
LEMMA ValueIs ==
  ASSUME CleanupShape, Divided, NEW t \in Tasks, Doing(t, "drop"), Top(t).values # <<>>
  PROVE  /\ Split(Top(t).values)[1] = Value(t) /\ Split(Top(t).values)[2] = Rest(t)
         /\ Value(t) \in Present /\ Value(t) \in Values /\ Value(t) \in Nat \ {0}
         /\ Value(t) \notin gone
         /\ Rest(t) \in Seq(Nat) /\ Top(t).values = Append(Rest(t), Value(t))
         /\ fields[Value(t)] \in Seq(Nat) /\ FieldsOf(Value(t)) = Range(fields[Value(t)])
<1>1. /\ Top(t).values \in Seq(Nat) /\ Lists(Top(t)) = <<Top(t).values>>
      /\ Below(t) + 1 \in DOMAIN work[t] /\ work[t][Below(t) + 1] = Top(t)
      /\ Below(t) \in Nat
  BY TopRelease
<1>2. /\ Rest(t) \in Seq(Nat) /\ Value(t) \in Nat
      /\ Top(t).values = Append(Rest(t), Value(t))
      /\ Range(Top(t).values) = Range(Rest(t)) \cup {Value(t)}
  BY <1>1, FrontAndLast, TakenOff DEF Value, Rest
<1>3. Stack(t, Below(t) + 1) = Range(Top(t).values)
  BY <1>1, NoLists DEF Stack
<1>4. Value(t) \in Present
  BY <1>1, <1>2, <1>3 DEF Divided
<1>5. Value(t) \in Values /\ Value(t) \notin gone
  BY <1>4 DEF Present
<1>6. Len(kind) \in Nat /\ Len(fields) = Len(kind)
  BY LenProperties DEF CleanupShape, ValuesOK
<1>7. fields[Value(t)] \in Seq(Nat) /\ Value(t) \in Nat \ {0}
  BY <1>5, <1>6, ElementOfSeq DEF CleanupShape, ValuesOK, Values
<1>8. Split(Top(t).values)[1] = Value(t) /\ Split(Top(t).values)[2] = Rest(t)
  BY DEF Split, Value, Rest
<1> QED
  BY <1>2, <1>4, <1>5, <1>7, <1>8 DEF FieldsOf

Started(owned, original) == Execution("cleanup", << <<>> >>, owned, original)

\* An execution that begins.
LEMMA StartedIs ==
  ASSUME NEW owned \in Seq(Nat), NEW original \in AnyError, NEW i,
         NEW role \in {"run", "cleanup"}, role = "run" => i = 1 /\ original = NoError
  PROVE  LET x == Execution(role, << <<>> >>, owned, original) IN
         /\ x \in Executions /\ x \in Activity /\ Proper(x, i) /\ x.role = role
         /\ x.frames = << <<>> >> /\ x.owned = owned /\ x.original = original
         /\ x.result = NoError /\ Lists(x) = Append(<< <<>> >>, owned)
<1>1. << <<>> >> \in Seq(Seq(Nat)) /\ << <<>> >> # <<>> /\ NoError \in AnyError
  BY DEF AnyError
<1> QED
  BY <1>1 DEF Execution, Executions, Activity, Proper, Lists

\* A list of values to release has the shape of an activity.
LEMMA ReleaseProper ==
  ASSUME NEW values \in Seq(Nat), NEW i
  PROVE  /\ Releasing(values) \in Activity /\ Proper(Releasing(values), i)
         /\ Lists(Releasing(values)) = <<values>> /\ Releasing(values).role = "drop"
         /\ Releasing(values).values = values
BY DEF Releasing, Activity, Releases, Proper, Lists

\* Cleanup::run puts a deinit above what is still to be released.
LEMMA DeinitForm ==
  ASSUME CleanupShape, Divided, NEW t \in Tasks, Deinit(t)
  PROVE  LET new == <<Releasing(Rest(t)), Started(fields[Value(t)], Pending(t))>> IN
         /\ Doing(t, "drop") /\ Top(t).values # <<>> /\ kind[Value(t)] = "owned"
         /\ new \in Seq(Activity) /\ Replaces(t, new)
         /\ Proper(new[1], Below(t) + 1) /\ Proper(new[2], Below(t) + 2)
         /\ deinits' = [deinits EXCEPT ![Value(t)] = @ + 1]
         /\ gone' = gone \cup {Value(t)} /\ order' = Append(order, Value(t))
<1>1. Doing(t, "drop") /\ Top(t).values # <<>>
  BY DEF Deinit
<1>2. /\ Split(Top(t).values)[1] = Value(t) /\ Split(Top(t).values)[2] = Rest(t)
      /\ Rest(t) \in Seq(Nat) /\ fields[Value(t)] \in Seq(Nat) /\ Pending(t) \in AnyError
  BY <1>1, ValueIs, TopRelease
<1> DEFINE a == Releasing(Rest(t))
           b == Started(fields[Value(t)], Pending(t))
<1>3. a \in Activity /\ Proper(a, Below(t) + 1) /\ b \in Activity /\ Proper(b, Below(t) + 2)
  BY <1>2, ReleaseProper, StartedIs DEF Started
<1>4. /\ kind[Value(t)] = "owned" /\ Replaces(t, <<a, b>>)
      /\ deinits' = [deinits EXCEPT ![Value(t)] = @ + 1]
      /\ gone' = gone \cup {Value(t)} /\ order' = Append(order, Value(t))
  BY <1>2 DEF Deinit, Replaces, Started
<1> HIDE DEF a, b
<1>5. <<a, b>> \in Seq(Activity) /\ <<a, b>>[1] = a /\ <<a, b>>[2] = b
  BY <1>3
<1> QED
  BY <1>1, <1>3, <1>4, <1>5 DEF a, b

\* An incomplete record or a handle leaves the list.
LEMMA ShortenForm ==
  ASSUME CleanupShape, Divided, NEW t \in Tasks, Abandon(t) \/ ReleaseHandle(t)
  PROVE  LET more == IF Abandon(t) THEN fields[Value(t)] ELSE <<>>
             new == <<Releasing(Rest(t) \o more)>>
         IN
         /\ Doing(t, "drop") /\ Top(t).values # <<>>
         /\ kind[Value(t)] = IF Abandon(t) THEN "partial" ELSE "handle"
         /\ more \in Seq(Nat) /\ Rest(t) \o more \in Seq(Nat)
         /\ new \in Seq(Activity) /\ Replaces(t, new) /\ Proper(new[1], Below(t) + 1)
         /\ gone' = gone \cup {Value(t)}
<1>1. Doing(t, "drop") /\ Top(t).values # <<>>
  BY DEF Abandon, ReleaseHandle
<1>2. /\ Split(Top(t).values)[1] = Value(t) /\ Split(Top(t).values)[2] = Rest(t)
      /\ Rest(t) \in Seq(Nat) /\ fields[Value(t)] \in Seq(Nat)
  BY <1>1, ValueIs
<1> DEFINE more == IF Abandon(t) THEN fields[Value(t)] ELSE <<>>
           a == Releasing(Rest(t) \o more)
<1>3. more \in Seq(Nat) /\ Rest(t) \o more \in Seq(Nat)
  BY <1>2, ConcatProperties, EmptySeq
<1>4. a \in Activity /\ Proper(a, Below(t) + 1)
  BY <1>3, ReleaseProper
<1>5. Becomes(t, a) /\ gone' = gone \cup {Value(t)}
  <2>1. CASE Abandon(t)
    BY <1>2, <2>1 DEF Abandon
  <2>2. CASE ~Abandon(t)
    <3>1. Rest(t) \o more = Rest(t)
      BY <1>2, <2>2, ConcatEmptySeq
    <3> QED
      BY <1>2, <2>2, <3>1 DEF ReleaseHandle
  <2> QED
    BY <2>1, <2>2
<1>6. kind[Value(t)] = IF Abandon(t) THEN "partial" ELSE "handle"
  BY <1>2 DEF Abandon, ReleaseHandle
<1> HIDE DEF a
<1>7. Replaces(t, <<a>>)
  <2>1. <<>> \in Seq(Nat)
    OBVIOUS
  <2> QED
    BY <1>4, <1>5, <2>1, BecomingIs DEF Pushed, CleanupShape
<1>8. <<a>> \in Seq(Activity) /\ <<a>>[1] = a
  BY <1>4
<1> QED
  BY <1>1, <1>3, <1>4, <1>5, <1>6, <1>7, <1>8 DEF a

\* An activity that ended leaves the stack.
LEMMA PopForm ==
  ASSUME CleanupShape, NEW t \in Tasks, work' = [work EXCEPT ![t] = Front(@)]
  PROVE  Replaces(t, <<>>) /\ <<>> \in Seq(Activity)
<1>1. work[t] \in Seq(Activity)
  BY DEF CleanupShape, StacksOK, Activity
<1>2. Front(work[t]) \in Seq(Activity)
  BY <1>1, FrontAndLast, NoFront
<1>3. Front(work[t]) \o <<>> = Front(work[t])
  BY <1>2, ConcatEmptySeq
<1> QED
  BY <1>3 DEF Replaces

\* An execution begins on an empty stack.
LEMMA StartForm ==
  ASSUME CleanupShape, NEW t \in Tasks, work[t] = <<>>, NEW a \in Activity,
         work' = [work EXCEPT ![t] = <<a>>]
  PROVE  Replaces(t, <<a>>) /\ <<a>> \in Seq(Activity) /\ Below(t) = 0
<1>1. Front(work[t]) = <<>> /\ <<a>> \in Seq(Activity) /\ Below(t) = 0
  BY NoFront DEF Below
<1>2. Front(work[t]) \o <<a>> = <<a>>
  BY <1>1, ConcatEmptySeq
<1> QED
  BY <1>1, <1>2 DEF Replaces
-----------------------------------------------------------------------------
(***************************************************************************)
(* The shape of the state is kept.                                         *)
(***************************************************************************)
LEMMA AdvanceStacks ==
  ASSUME StacksOK, NEW t \in Tasks, NEW x, NEW values, Advances(t, x, values)
  PROVE  StacksOK'
<1>1. /\ x \in Activity /\ values \in Seq(Nat) /\ Proper(x, Below(t) + 1)
      /\ Replaces(t, Pushed(x, values))
  BY DEF Advances, Activity
<1> DEFINE new == Pushed(x, values)
<1>2. /\ new \in Seq(Activity) /\ Len(new) = (IF values = <<>> THEN 1 ELSE 2) /\ new[1] = x
      /\ values # <<>> => new[2] = Releasing(values)
  BY <1>1, PushedIs
<1> HIDE DEF new
<1>3. ASSUME NEW j \in 1..Len(new)
      PROVE  Proper(new[j], Below(t) + j)
  <2>1. j = 1 \/ (j = 2 /\ values # <<>>)
    BY <1>2
  <2> QED
    BY <1>1, <1>2, <2>1, ReleaseProper
<1> QED
  BY <1>1, <1>2, <1>3, StacksStep DEF new

\* The shape of stacks when one activity replaces the top.
LEMMA OneStacks ==
  ASSUME StacksOK, NEW t \in Tasks, NEW a \in Activity, Replaces(t, <<a>>),
         Proper(a, Below(t) + 1)
  PROVE  StacksOK'
<1>1. <<a>> \in Seq(Activity) /\ Len(<<a>>) = 1 /\ <<a>>[1] = a
  OBVIOUS
<1>2. \A j \in 1..Len(<<a>>) : Proper(<<a>>[j], Below(t) + j)
  BY <1>1
<1> QED
  BY <1>1, <1>2, StacksStep

\* Every step keeps the shape of the stacks.
LEMMA ShapeOfStacks ==
  ASSUME CleanupAssumption, CleanupShape, Divided, [CleanupNext]_cleanupVars
  PROVE  StacksOK'
<1> USE DEF CleanupShape
<1>1. ASSUME work' = work
      PROVE  StacksOK'
  BY <1>1 DEF StacksOK
<1>2. ASSUME NEW t \in Tasks, Progress(t)
      PROVE  StacksOK'
  <2>1. CASE Reported(t)
    BY <2>1, ReportedForm, AdvanceStacks
  <2>2. CASE Unwind(t)
    BY <2>2, UnwindForm, AdvanceStacks
  <2>3. CASE Unwound(t)
    BY <2>3, UnwoundForm, AdvanceStacks
  <2>4. CASE Take(t)
    BY <2>4, TakeForm, AdvanceStacks
  <2>5. CASE End(t) \/ Released(t)
    <3>1. Replaces(t, <<>>) /\ <<>> \in Seq(Activity) /\ Len(<<>>) = 0
      BY <2>5, PopForm DEF End, Released
    <3>2. \A j \in 1..Len(<<>>) : Proper(<<>>[j], Below(t) + j)
      BY <3>1
    <3> QED
      BY <3>1, <3>2, StacksStep
  <2>6. CASE Deinit(t)
    <3> DEFINE a == Releasing(Rest(t))
               b == Started(fields[Value(t)], Pending(t))
               new == <<a, b>>
    <3>1. /\ new \in Seq(Activity) /\ Replaces(t, new)
          /\ Proper(new[1], Below(t) + 1) /\ Proper(new[2], Below(t) + 2)
      BY <2>6, DeinitForm
    <3>2. Len(new) = 2
      OBVIOUS
    <3> HIDE DEF new
    <3>3. \A j \in 1..Len(new) : Proper(new[j], Below(t) + j)
      BY <3>1, <3>2
    <3> QED
      BY <3>1, <3>3, StacksStep
  <2>7. CASE Abandon(t) \/ ReleaseHandle(t)
    <3> DEFINE more == IF Abandon(t) THEN fields[Value(t)] ELSE <<>>
               a == Releasing(Rest(t) \o more)
    <3>1. Rest(t) \o more \in Seq(Nat) /\ Replaces(t, <<a>>)
      BY <2>7, ShortenForm
    <3>2. a \in Activity /\ Proper(a, Below(t) + 1)
      BY <3>1, ReleaseProper
    <3> HIDE DEF a
    <3> QED
      BY <3>1, <3>2, OneStacks
  <2>8. CASE Leave(t)
    BY <1>1, <2>8 DEF Leave
  <2> QED
    BY <1>2, <2>1, <2>2, <2>3, <2>4, <2>5, <2>6, <2>7, <2>8 DEF Progress
<1>3. ASSUME NEW t \in Tasks, Chosen(t)
      PROVE  StacksOK'
  <2>1. ASSUME NEW k \in Kinds, NEW i \in 1..MaxValues, Make(t, k, i)
        PROVE  StacksOK'
    BY <2>1, MakeForm, AdvanceStacks
  <2>2. ASSUME NEW i \in 1..MaxValues, DropRegister(t, i)
        PROVE  StacksOK'
    BY <2>2, DropRegisterForm, AdvanceStacks
  <2>3. ASSUME NEW i \in 1..MaxValues, Call(t, i)
        PROVE  StacksOK'
    BY <2>3, CallForm, AdvanceStacks
  <2>4. ASSUME NEW results, Return(t, results)
        PROVE  StacksOK'
    BY <2>4, ReturnForm, AdvanceStacks
  <2>5. CASE Fail(t)
    BY <2>5, FailForm, AdvanceStacks
  <2>6. CASE Complete(t) \/ Await(t)
    BY <1>1, <2>6 DEF Complete, Await
  <2> QED
    BY <1>3, <2>1, <2>2, <2>3, <2>4, <2>5, <2>6 DEF Chosen
<1>4. ASSUME NEW t \in Tasks, NEW w \in Workers, Execute(t, w) \/ Discard(t, w) \/ Resume(t, w)
      PROVE  StacksOK'
  <2>1. CASE Execute(t, w)
    <3> DEFINE a == Execution("run", << <<>> >>, <<>>, NoError)
    <3>1. a \in Activity /\ Proper(a, 1)
      <4>1. <<>> \in Seq(Nat) /\ NoError \in AnyError
        BY DEF AnyError
      <4> QED
        BY <4>1, StartedIs
    <3>2. work[t] = <<>> /\ work' = [work EXCEPT ![t] = <<a>>]
      BY <2>1 DEF Execute, Begin
    <3> HIDE DEF a
    <3>3. Replaces(t, <<a>>) /\ Below(t) = 0
      BY <3>1, <3>2, StartForm, Zenon DEF CleanupShape
    <3>4. Proper(a, Below(t) + 1)
      BY <3>1, <3>3
    <3> QED
      BY <3>1, <3>3, <3>4, OneStacks
  <2>2. CASE Discard(t, w)
    <3> DEFINE a == Releasing(<<Len(kind) + 1>>)
    <3>1. a \in Activity /\ Proper(a, 1)
      <4>1. <<Len(kind) + 1>> \in Seq(Nat)
        BY LenProperties DEF ValuesOK
      <4> QED
        BY <4>1, ReleaseProper
    <3>2. work[t] = <<>> /\ work' = [work EXCEPT ![t] = <<a>>]
      BY <2>2 DEF Discard, Begin
    <3> HIDE DEF a
    <3>3. Replaces(t, <<a>>) /\ Below(t) = 0
      BY <3>1, <3>2, StartForm, Zenon DEF CleanupShape
    <3>4. Proper(a, Below(t) + 1)
      BY <3>1, <3>3
    <3> QED
      BY <3>1, <3>3, <3>4, OneStacks
  <2>3. CASE Resume(t, w)
    BY <1>1, <2>3 DEF Resume
  <2> QED
    BY <1>4, <2>1, <2>2, <2>3
<1> QED
  BY <1>1, <1>2, <1>3, <1>4 DEF CleanupNext, cleanupVars

\* Every step keeps one task a thread, and counts failures.
LEMMA ShapeOfThreads ==
  ASSUME CleanupAssumption, CleanupShape, [CleanupNext]_cleanupVars
  PROVE  ThreadsOK'
<1> USE DEF CleanupShape
<1>0. /\ work \in [Tasks -> Seq(Activity)] /\ MaxFails \in Nat /\ Off \notin Workers
      /\ NoError \in AnyError
  BY DEF CleanupAssumption, StacksOK, Activity, AnyError
<1>1. ASSUME UNCHANGED cleanupVars
      PROVE  ThreadsOK'
  BY <1>1 DEF ThreadsOK, cleanupVars
<1>2. ASSUME NEW t \in Tasks, on[t] # Off, on' = on,
             \A u \in Tasks \ {t} : work'[u] = work[u],
             failure' = failure \/ \E e \in AnyError : SetPending(t, e),
             reported' = reported \/ \E e \in AnyError : reported' = [reported EXCEPT ![t] = e],
             \/ fails' = fails
             \/ fails[t] < MaxFails /\ fails' = [fails EXCEPT ![t] = @ + 1],
             base' = base
      PROVE  ThreadsOK'
  <2>1. failure' \in [Workers -> AnyError] /\ reported' \in [Tasks -> AnyError]
    <3>0. failure \in [Workers -> AnyError] /\ reported \in [Tasks -> AnyError]
      BY DEF ThreadsOK
    <3>1. failure' \in [Workers -> AnyError]
      BY <1>2, <3>0 DEF SetPending
    <3>2. reported' \in [Tasks -> AnyError]
      BY <1>2, <3>0
    <3> QED
      BY <3>1, <3>2
  <2>2. /\ fails' \in [Tasks -> 0..MaxFails]
        /\ \A u \in Tasks : base'[u] <= fails'[u]
    <3>1. /\ fails \in [Tasks -> 0..MaxFails] /\ base \in [Tasks -> 0..MaxFails]
          /\ \A u \in Tasks : base[u] <= fails[u]
      BY DEF ThreadsOK
    <3>2. CASE fails' = fails
      BY <1>2, <3>1, <3>2
    <3>3. CASE fails[t] < MaxFails /\ fails' = [fails EXCEPT ![t] = @ + 1]
      <4>1. fails[t] \in 0..MaxFails /\ fails[t] + 1 \in 0..MaxFails
        BY <1>0, <3>1, <3>3
      <4>2. fails' \in [Tasks -> 0..MaxFails]
        BY <3>1, <3>3, <4>1
      <4>3. ASSUME NEW u \in Tasks
            PROVE  base'[u] <= fails'[u]
        <5>1. base[u] \in Int /\ fails[u] \in Int /\ base[u] <= fails[u] /\ base'[u] = base[u]
          BY <1>0, <1>2, <3>1
        <5>2. fails'[u] = fails[u] \/ fails'[u] = fails[u] + 1
          BY <3>1, <3>3
        <5> QED
          BY <5>1, <5>2
      <4> QED
        BY <4>2, <4>3
    <3> QED
      BY <1>2, <3>2, <3>3
  <2>3. \A u \in Tasks \ Coroutines : work'[u] # <<>> => on'[u] # Off
    BY <1>2 DEF ThreadsOK
  <2> QED
    BY <1>2, <2>1, <2>2, <2>3 DEF ThreadsOK
<1>3. ASSUME NEW t \in Tasks, Progress(t)
      PROVE  ThreadsOK'
  <2>1. CASE Reported(t) \/ Unwind(t) \/ Unwound(t) \/ Abandon(t) \/ Released(t)
    <3>1. /\ on[t] # Off /\ on' = on /\ reported' = reported /\ fails' = fails /\ base' = base
          /\ failure' = failure \/ SetPending(t, NoError)
      BY <2>1 DEF Reported, Unwind, Unwound, Abandon, Released, Executes, Doing, history
    <3>2. \A u \in Tasks \ {t} : work'[u] = work[u]
      BY <1>0, <2>1 DEF Reported, Unwind, Unwound, Abandon, Released, Becomes, BecomesAndReleases
    <3> QED
      BY <1>0, <1>2, <3>1, <3>2
  <2>2. CASE Take(t)
    <3>1. /\ on[t] # Off /\ on' = on /\ reported' = reported /\ fails' = fails /\ base' = base
          /\ SetPending(t, NoError)
      BY <2>2 DEF Take, Executes, history
    <3>2. \A u \in Tasks \ {t} : work'[u] = work[u]
      BY <1>0, <2>2 DEF Take, BecomesAndReleases
    <3> QED
      BY <1>0, <1>2, <3>1, <3>2
  <2>3. CASE End(t)
    <3>1. /\ on[t] # Off /\ on' = on /\ fails' = fails /\ base' = base
      BY <2>3 DEF End, Executes
    <3>2. \A u \in Tasks \ {t} : work'[u] = work[u]
      BY <1>0, <2>3 DEF End
    <3>3. /\ Top(t).original \in AnyError /\ Top(t).result \in AnyError
          /\ Pending(t) \in AnyError
      BY <2>3, TopExecution DEF End
    <3>4. /\ failure' = failure \/ \E e \in AnyError : SetPending(t, e)
          /\ reported' = reported \/ \E e \in AnyError : reported' = [reported EXCEPT ![t] = e]
      BY <1>0, <2>3, <3>3 DEF End, Precedence, Or
    <3> QED
      BY <1>2, <3>1, <3>2, <3>4
  <2>4. CASE Deinit(t)
    <3>1. /\ on[t] # Off /\ on' = on /\ reported' = reported /\ fails' = fails /\ base' = base
          /\ SetPending(t, NoError)
      BY <2>4 DEF Deinit, Doing
    <3>2. \A u \in Tasks \ {t} : work'[u] = work[u]
      BY <1>0, <2>4 DEF Deinit
    <3> QED
      BY <1>0, <1>2, <3>1, <3>2
  <2>5. CASE ReleaseHandle(t)
    <3>1. /\ on[t] # Off /\ reported' = reported /\ fails' = fails /\ base' = base
          /\ failure' = failure /\ on' = (IF t \in Coroutines THEN [on EXCEPT ![t] = Off] ELSE on)
      BY <2>5 DEF ReleaseHandle, Doing, history
    <3>2. \A u \in Tasks \ {t} : work'[u] = work[u]
      BY <1>0, <2>5 DEF ReleaseHandle, Becomes
    <3> QED
      BY <1>0, <3>1, <3>2 DEF ThreadsOK
  <2>6. CASE Leave(t)
    BY <2>6 DEF Leave, ThreadsOK, history
  <2> QED
    BY <1>3, <2>1, <2>2, <2>3, <2>4, <2>5, <2>6 DEF Progress
<1>4. ASSUME NEW t \in Tasks, Chosen(t)
      PROVE  ThreadsOK'
  <2>1. CASE Complete(t) \/ Await(t)
    BY <1>0, <2>1 DEF Complete, Await, ThreadsOK, history
  <2>2. CASE Fail(t)
    <3>1. /\ on[t] # Off /\ on' = on /\ failure' = failure /\ reported' = reported /\ base' = base
          /\ fails[t] < MaxFails /\ fails' = [fails EXCEPT ![t] = @ + 1]
      BY <2>2 DEF Fail, Instruction, Executes, history
    <3>2. \A u \in Tasks \ {t} : work'[u] = work[u]
      BY <1>0, <2>2 DEF Fail, Becomes
    <3> QED
      BY <1>2, <3>1, <3>2
  <2>3. ASSUME \/ \E k \in Kinds, i \in 1..MaxValues : Make(t, k, i)
               \/ \E i \in 1..MaxValues : DropRegister(t, i) \/ Call(t, i)
               \/ \E results \in {<<>>} \cup {<<v>> : v \in Values} : Return(t, results)
        PROVE  ThreadsOK'
    <3>1. /\ on[t] # Off /\ on' = on /\ failure' = failure /\ reported' = reported
          /\ fails' = fails /\ base' = base
      BY <2>3 DEF Make, DropRegister, Call, Return, Instruction, Executes, history
    <3>2. \A u \in Tasks \ {t} : work'[u] = work[u]
      BY <1>0, <2>3 DEF Make, DropRegister, Call, Return, Becomes, BecomesAndReleases
    <3> QED
      BY <1>2, <3>1, <3>2
  <2> QED
    BY <1>4, <2>1, <2>2, <2>3 DEF Chosen
<1>5. ASSUME NEW t \in Tasks, NEW w \in Workers, Execute(t, w) \/ Discard(t, w) \/ Resume(t, w)
      PROVE  ThreadsOK'
  <2>1. /\ Free(w) /\ on[t] = Off /\ on' = [on EXCEPT ![t] = w] /\ failure' = failure
        /\ fails' = fails /\ reported' = reported
        /\ base' = base \/ base' = [base EXCEPT ![t] = fails[t]]
    BY <1>5 DEF Execute, Discard, Resume, Begin, history
  <2>2. \A u \in Tasks \ {t} : work'[u] = work[u]
    BY <1>0, <1>5 DEF Execute, Discard, Resume
  <2>3. /\ on' \in [Tasks -> Workers \cup {Off}]
        /\ \A u, v \in Tasks : u # v /\ on'[u] = on'[v] => on'[u] = Off
    BY <2>1 DEF ThreadsOK, Free
  <2>4. /\ base' \in [Tasks -> 0..MaxFails]
        /\ \A u \in Tasks : base'[u] <= fails'[u]
    <3>1. /\ fails \in [Tasks -> 0..MaxFails] /\ base \in [Tasks -> 0..MaxFails]
          /\ \A u \in Tasks : base[u] <= fails[u]
      BY DEF ThreadsOK
    <3>2. CASE base' = base
      BY <2>1, <3>1, <3>2
    <3>3. CASE base' = [base EXCEPT ![t] = fails[t]]
      <4>1. base' \in [Tasks -> 0..MaxFails]
        BY <3>1, <3>3
      <4>2. \A u \in Tasks : fails[u] \in Int /\ (base'[u] = base[u] \/ base'[u] = fails[u])
        BY <1>0, <3>1, <3>3
      <4> QED
        BY <2>1, <3>1, <4>1, <4>2
    <3> QED
      BY <2>1, <3>2, <3>3
  <2>5. \A u \in Tasks \ Coroutines : work'[u] # <<>> => on'[u] # Off
    BY <1>0, <2>1, <2>2 DEF ThreadsOK
  <2> QED
    BY <2>1, <2>3, <2>4, <2>5 DEF ThreadsOK
<1> QED
  BY <1>1, <1>3, <1>4, <1>5 DEF CleanupNext
-----------------------------------------------------------------------------
(***************************************************************************)
(* What a step does to the places values are in.                           *)
(***************************************************************************)
StacksChange(t, n, new) ==
  /\ \A u \in Tasks, i \in Nat :
       u # t \/ (i # n /\ i # n + 1) => Stack(u, i)' = Stack(u, i)
  /\ Stack(t, n)' = IF Len(new) >= 1 THEN AllOf(Lists(new[1])) ELSE {}
  /\ Stack(t, n + 1)' = IF Len(new) = 2 THEN AllOf(Lists(new[2])) ELSE {}
  /\ Stack(t, n) = IF work[t] = <<>> THEN {} ELSE AllOf(Lists(Top(t)))
  /\ Stack(t, n + 1) = {}

\* Where values are in a stack whose top is replaced.
LEMMA StackStep ==
  ASSUME StacksOK, NEW t \in Tasks, NEW new \in Seq(Activity), Len(new) <= 2, Replaces(t, new),
         NEW n, n = Below(t) + 1
  PROVE  n \in Nat \ {0} /\ StacksChange(t, n, new)
<1>0. Below(t) \in Nat
  BY Stacked
<1>m. PICK m \in Nat : m = Below(t)
  BY <1>0
<1>n. n = m + 1
  BY <1>m
<1>1. /\ work[t] # <<>> => DOMAIN work[t] = 1..m + 1 /\ Top(t) = work[t][m + 1]
      /\ \A u \in Tasks \ {t} : work'[u] = work[u]
      /\ Len(new) \in Nat /\ DOMAIN work'[t] = 1..m + Len(new)
      /\ \A i \in 1..m : work'[t][i] = work[t][i] /\ i \in DOMAIN work[t]
      /\ \A j \in 1..Len(new) : work'[t][m + j] = new[j]
  BY <1>m, Stacked
<1>2. work[t] = <<>> => DOMAIN work[t] = {} /\ m = 0
  BY <1>m, Stacked
<1>3. PICK count \in {0, 1, 2} : count = Len(new)
  <2>1. \A k \in Nat : k <= 2 => k \in {0, 1, 2}
    OBVIOUS
  <2> QED
    BY <1>1, <2>1
<1>4. ASSUME NEW u \in Tasks, NEW i \in Nat, u # t \/ (i # n /\ i # n + 1)
      PROVE  Stack(u, i)' = Stack(u, i)
  <2>1. CASE u # t
    BY <1>1, <2>1 DEF Stack
  <2>2. CASE u = t /\ i \in 1..m
    <3>1. i \in DOMAIN work[t] /\ i \in DOMAIN work'[t] /\ work'[t][i] = work[t][i]
      BY <1>1, <1>3, <2>2
    <3> QED
      BY <2>2, <3>1 DEF Stack
  <2>3. CASE u = t /\ i \notin 1..m
    <3>1. i \notin 1..m + 1 /\ i \notin 1..m + count
      BY <1>n, <1>3, <1>4, <2>3
    <3>2. i \notin DOMAIN work[t] /\ i \notin DOMAIN work'[t]
      BY <1>1, <1>2, <1>3, <3>1
    <3> QED
      BY <2>3, <3>2 DEF Stack
  <2> QED
    BY <2>1, <2>2, <2>3
<1>5. Stack(t, n)' = IF count >= 1 THEN AllOf(Lists(new[1])) ELSE {}
  <2>1. n \in DOMAIN work'[t] <=> count >= 1
    BY <1>1, <1>n, <1>3
  <2>2. count >= 1 => work'[t][n] = new[1]
    BY <1>1, <1>n, <1>3
  <2> QED
    BY <2>1, <2>2 DEF Stack
<1>6. Stack(t, n + 1)' = IF count = 2 THEN AllOf(Lists(new[2])) ELSE {}
  <2>1. n + 1 \in DOMAIN work'[t] <=> count = 2
    BY <1>1, <1>n, <1>3
  <2>2. count = 2 => work'[t][n + 1] = new[2]
    <3>1. n + 1 = m + 2
      BY <1>n
    <3> QED
      BY <1>1, <1>3, <3>1
  <2> QED
    BY <2>1, <2>2 DEF Stack
<1>7. /\ Stack(t, n) = IF work[t] = <<>> THEN {} ELSE AllOf(Lists(Top(t)))
      /\ Stack(t, n + 1) = {}
  <2>1. n + 1 \notin DOMAIN work[t]
    BY <1>1, <1>n, <1>2
  <2>2. n \in DOMAIN work[t] <=> work[t] # <<>>
    BY <1>1, <1>n, <1>2
  <2> QED
    BY <1>1, <1>n, <2>1, <2>2 DEF Stack
<1> QED
  BY <1>n, <1>3, <1>4, <1>5, <1>6, <1>7 DEF StacksChange

\* The same when an execution advances.
LEMMA AdvanceStack ==
  ASSUME StacksOK, NEW t \in Tasks, work[t] # <<>>, NEW x, NEW values, Advances(t, x, values),
         NEW n, n = Below(t) + 1
  PROVE  /\ n \in Nat \ {0}
         /\ \A u \in Tasks, i \in Nat :
              u # t \/ (i # n /\ i # n + 1) => Stack(u, i)' = Stack(u, i)
         /\ Stack(t, n)' = AllOf(Lists(x)) /\ Stack(t, n + 1)' = Range(values)
         /\ Stack(t, n) = AllOf(Lists(Top(t))) /\ Stack(t, n + 1) = {}
<1>1. x \in Activity /\ values \in Seq(Nat) /\ Replaces(t, Pushed(x, values))
  BY DEF Advances, Activity
<1>p. PICK new : new = Pushed(x, values)
  OBVIOUS
<1>2. /\ new \in Seq(Activity) /\ Len(new) = (IF values = <<>> THEN 1 ELSE 2) /\ new[1] = x
      /\ values # <<>> => new[2] = Releasing(values)
  BY <1>1, <1>p, PushedIs
<1>3. Len(new) <= 2 /\ Len(new) >= 1 /\ (Len(new) = 2 <=> values # <<>>)
  BY <1>2
<1>r. Replaces(t, new) /\ new \in Seq(Activity)
  BY <1>1, <1>p, <1>2
<1>4. n \in Nat \ {0} /\ StacksChange(t, n, new)
  BY <1>r, <1>3, StackStep
<1>5. AllOf(Lists(Releasing(values))) = Range(values)
  BY <1>1, ReleaseProper, NoLists
<1>6. values = <<>> => Range(values) = {}
  BY DEF Range
<1> QED
  BY <1>2, <1>3, <1>4, <1>5, <1>6 DEF StacksChange

\* Values change places within the top of one stack, the place above it and
\* the fields of one value; some are new, others leave.
Shuffled(t, n, v) ==
  LET old == Stack(t, n) \cup Stack(t, n + 1) \cup FieldsOf(v)
      a   == Stack(t, n)'
      b   == Stack(t, n + 1)'
      c   == FieldsOf(v)'
  IN  /\ \A u \in Tasks, i \in Nat :
           u # t \/ (i # n /\ i # n + 1) => Stack(u, i)' = Stack(u, i)
      /\ \A u \in Nat : u # v => FieldsOf(u)' = FieldsOf(u)
      /\ a \cap b = {} /\ a \cap c = {} /\ b \cap c = {}
      /\ \A x \in a \cup b \cup c : x \in old \/ x \notin Present
      /\ Present' = (Present \ old) \cup (a \cup b \cup c)

\* Moving values within a neighbourhood keeps them divided.
LEMMA Rearranged ==
  ASSUME Divided, NEW t \in Tasks, NEW n \in Nat, NEW v \in Nat, Shuffled(t, n, v)
  PROVE  Divided'
<1>h. PICK old, a, b, c :
        /\ old = Stack(t, n) \cup Stack(t, n + 1) \cup FieldsOf(v)
        /\ a = Stack(t, n)' /\ b = Stack(t, n + 1)' /\ c = FieldsOf(v)'
        /\ \A u \in Tasks, i \in Nat :
             u # t \/ (i # n /\ i # n + 1) => Stack(u, i)' = Stack(u, i)
        /\ \A u \in Nat : u # v => FieldsOf(u)' = FieldsOf(u)
        /\ a \cap b = {} /\ a \cap c = {} /\ b \cap c = {}
        /\ \A x \in a \cup b \cup c : x \in old \/ x \notin Present
        /\ Present' = (Present \ old) \cup (a \cup b \cup c)
  BY DEF Shuffled
<1>0. n + 1 \in Nat /\ n # n + 1
  OBVIOUS
<1> DEFINE new == a \cup b \cup c
\* what holds x
           Here(u, i) == u = t /\ (i = n \/ i = n + 1)
<1>1. ASSUME NEW u \in Tasks, NEW i \in Nat, ~Here(u, i), NEW x \in Stack(u, i)'
      PROVE  x \in Stack(u, i) /\ x \in Present /\ x \notin old /\ x \notin new
  <2>1. x \in Stack(u, i) /\ x \in Present
    BY <1>h, <1>1 DEF Divided
  <2>2. x \notin old
    BY <1>h, <1>0, <1>1, <2>1 DEF Divided
  <2> QED
    BY <1>h, <2>1, <2>2
<1>2. ASSUME NEW u \in Nat, u # v, NEW x \in FieldsOf(u)'
      PROVE  x \in FieldsOf(u) /\ x \in Present /\ x \notin old /\ x \notin new
  <2>1. x \in FieldsOf(u) /\ x \in Present
    BY <1>h, <1>2 DEF Divided
  <2>2. x \notin old
    BY <1>h, <1>0, <1>2, <2>1 DEF Divided
  <2> QED
    BY <1>h, <2>1, <2>2
<1>3. \A u \in Tasks, i \in Nat : Stack(u, i)' \subseteq Present'
  BY <1>h, <1>1
<1>4. \A u \in Nat : FieldsOf(u)' \subseteq Present'
  BY <1>h, <1>2
<1>5. ASSUME NEW u \in Tasks, NEW w \in Tasks, NEW i \in Nat, NEW j \in Nat,
             NEW x \in Stack(u, i)' \cap Stack(w, j)'
      PROVE  u = w /\ i = j
  <2>1. CASE ~Here(u, i) /\ ~Here(w, j)
    BY <1>h, <1>1, <1>5, <2>1 DEF Divided
  <2>2. CASE ~Here(u, i) /\ Here(w, j)
    BY <1>h, <1>1, <1>5, <2>2
  <2>3. CASE Here(u, i) /\ ~Here(w, j)
    BY <1>h, <1>1, <1>5, <2>3
  <2>4. CASE Here(u, i) /\ Here(w, j)
    BY <1>h, <1>0, <1>5, <2>4
  <2> QED
    BY <1>h, <2>1, <2>2, <2>3, <2>4
<1>6. ASSUME NEW u \in Nat, NEW w \in Nat, NEW x \in FieldsOf(u)' \cap FieldsOf(w)'
      PROVE  u = w
  <2>1. CASE u # v /\ w # v
    BY <1>h, <1>2, <1>6, <2>1 DEF Divided
  <2>2. CASE u = v \/ w = v
    BY <1>h, <1>2, <1>6, <2>2
  <2> QED
    BY <1>h, <2>1, <2>2
<1>7. ASSUME NEW u \in Tasks, NEW i \in Nat, NEW w \in Nat, NEW x \in Stack(u, i)' \cap FieldsOf(w)'
      PROVE  FALSE
  <2>1. CASE ~Here(u, i) /\ w # v
    BY <1>h, <1>1, <1>2, <1>7, <2>1 DEF Divided
  <2>2. CASE ~Here(u, i) /\ w = v
    BY <1>h, <1>1, <1>7, <2>2
  <2>3. CASE Here(u, i) /\ w # v
    BY <1>h, <1>2, <1>7, <2>3
  <2>4. CASE Here(u, i) /\ w = v
    BY <1>h, <1>7, <2>4
  <2> QED
    BY <1>h, <2>1, <2>2, <2>3, <2>4
<1>8. ASSUME NEW x \in Present'
      PROVE  \/ \E u \in Tasks, i \in Nat : x \in Stack(u, i)'
             \/ \E u \in Nat : x \in FieldsOf(u)'
  <2>1. CASE x \in new
    BY <1>h, <1>0, <2>1
  <2>2. CASE x \in Present /\ x \notin old /\ x \notin new
    <3>1. CASE \E u \in Tasks, i \in Nat : x \in Stack(u, i)
      <4>1. PICK u \in Tasks, i \in Nat : x \in Stack(u, i)
        BY <1>h, <3>1
      <4>2. ~Here(u, i)
        BY <1>h, <2>2, <4>1
      <4> QED
        BY <1>h, <4>1, <4>2
    <3>2. CASE \E u \in Nat : x \in FieldsOf(u)
      <4>1. PICK u \in Nat : x \in FieldsOf(u)
        BY <1>h, <3>2
      <4>2. u # v
        BY <1>h, <2>2, <4>1
      <4> QED
        BY <1>h, <4>1, <4>2
    <3> QED
      BY <1>h, <2>2, <3>1, <3>2 DEF Divided
  <2> QED
    BY <1>h, <1>8, <2>1, <2>2
<1> QED
  BY <1>3, <1>4, <1>5, <1>6, <1>7, <1>8 DEF Divided
-----------------------------------------------------------------------------
(***************************************************************************)
(* What an execution holds: its registers and what it owns.                *)
(***************************************************************************)
LEMMA Framed ==
  ASSUME NEW F \in Seq(Seq(Nat)), NEW r \in Seq(Nat), NEW o \in Seq(Nat)
  PROVE  /\ AllOf(Append(Append(F, r), o)) = AllOf(F) \cup Range(r) \cup Range(o)
         /\ Apart(Append(Append(F, r), o)) <=>
              /\ Apart(F) /\ IsInjective(r) /\ AllOf(F) \cap Range(r) = {}
              /\ IsInjective(o) /\ (AllOf(F) \cup Range(r)) \cap Range(o) = {}
<1>1. PICK more : more = Append(F, r)
  OBVIOUS
<1>2. /\ more \in Seq(Seq(Nat)) /\ AllOf(more) = AllOf(F) \cup Range(r)
      /\ Apart(more) <=> Apart(F) /\ IsInjective(r) /\ AllOf(F) \cap Range(r) = {}
  BY <1>1, OneMoreList, AppendProperties
<1>3. /\ AllOf(Append(more, o)) = AllOf(more) \cup Range(o)
      /\ Apart(Append(more, o)) <=> Apart(more) /\ IsInjective(o) /\ AllOf(more) \cap Range(o) = {}
  BY <1>2, OneMoreList
<1> QED
  BY <1>1, <1>2, <1>3

\* What an execution without frames holds.
LEMMA Frameless ==
  ASSUME NEW o \in Seq(Nat)
  PROVE  /\ AllOf(Append(<<>>, o)) = Range(o) /\ (Apart(Append(<<>>, o)) <=> IsInjective(o))
<1>1. <<>> \in Seq(Seq(Nat)) /\ AllOf(<<>>) = {} /\ Apart(<<>>)
  BY NoLists
<1>2. /\ AllOf(Append(<<>>, o)) = AllOf(<<>>) \cup Range(o)
      /\ Apart(Append(<<>>, o)) <=> Apart(<<>>) /\ IsInjective(o) /\ AllOf(<<>>) \cap Range(o) = {}
  BY <1>1, OneMoreList
<1> QED
  BY <1>1, <1>2

\* The empty list.
LEMMA NoValues == Range(<<>>) = {} /\ IsInjective(<<>>) /\ <<>> \in Seq(Nat)
BY DEF Range, IsInjective

\* A list of one value.
LEMMA OneValue ==
  ASSUME NEW x \in Nat
  PROVE  <<x>> \in Seq(Nat) /\ Range(<<x>>) = {x} /\ IsInjective(<<x>>)
<1>1. DOMAIN <<x>> = {1} /\ <<x>>[1] = x
  OBVIOUS
<1> QED
  BY <1>1 DEF Range, IsInjective

\* The lists at the top of a stack, apart in a state of the invariant.
LEMMA TopApart ==
  ASSUME StacksOK, NoneTwice, NEW t \in Tasks, work[t] # <<>>
  PROVE  Apart(Lists(Top(t)))
<1>1. work[t] \in Seq(Activity)
  BY DEF StacksOK, Activity
<1>2. Len(work[t]) \in Nat \ {0} /\ Top(t) = work[t][Len(work[t])]
  BY <1>1, FrontAndLast DEF Top
<1>3. Len(work[t]) \in DOMAIN work[t]
  BY <1>1, <1>2
<1> QED
  BY <1>2, <1>3 DEF NoneTwice

\* Only the lists at the top are new.
LEMMA ApartStep ==
  ASSUME StacksOK, NoneTwice, NEW t \in Tasks, NEW new \in Seq(Activity), Replaces(t, new),
         \A j \in 1..Len(new) : Apart(Lists(new[j])),
         \A u \in Present' : IsInjective(fields'[u])
  PROVE  NoneTwice'
<1>0. Below(t) \in Nat
  BY Stacked
<1>m. PICK m \in Nat : m = Below(t)
  BY <1>0
<1>1. /\ \A u \in Tasks \ {t} : work'[u] = work[u]
      /\ Len(new) \in Nat /\ DOMAIN work'[t] = 1..m + Len(new)
      /\ \A i \in 1..m : work'[t][i] = work[t][i] /\ i \in DOMAIN work[t]
      /\ \A j \in 1..Len(new) : work'[t][m + j] = new[j]
  BY <1>m, Stacked
<1>2. ASSUME NEW i \in DOMAIN work'[t]
      PROVE  Apart(Lists(work'[t][i]))
  <2>1. i \in 1..m + Len(new)
    BY <1>1
  <2>2. CASE i <= m
    BY <1>1, <2>1, <2>2 DEF NoneTwice
  <2>3. CASE i > m
    <3>1. i - m \in 1..Len(new) /\ i = m + (i - m)
      BY <1>1, <2>1, <2>3
    <3> QED
      BY <1>1, <3>1
  <2> QED
    BY <2>1, <2>2, <2>3
<1>3. ASSUME NEW u \in Tasks, NEW i \in DOMAIN work'[u]
      PROVE  Apart(Lists(work'[u][i]))
  <2>1. CASE u = t
    BY <1>2, <1>3, <2>1
  <2>2. CASE u # t
    BY <1>1, <1>3, <2>2 DEF NoneTwice
  <2> QED
    BY <2>1, <2>2
<1> QED
  BY <1>3 DEF NoneTwice

\* Values that the execution at the top held are now its own, or wait to be
\* released, and none was lost or doubled.
Moves(t, x, values) ==
  /\ Advances(t, x, values)
  /\ AllOf(Lists(x)) \cup Range(values) = AllOf(Lists(Top(t)))
  /\ AllOf(Lists(x)) \cap Range(values) = {}
  /\ Apart(Lists(x)) /\ IsInjective(values)

Ownership == Divided /\ NoneTwice

\* Moving values within the top of one stack keeps ownership.
LEMMA MovesStep ==
  ASSUME CleanupShape, Ownership, NEW t \in Tasks, work[t] # <<>>, NEW x, NEW values,
         Moves(t, x, values), gone' = gone, kind' = kind, fields' = fields
  PROVE  Ownership'
<1>0. Below(t) + 1 \in Nat
  BY Stacked, AdvanceStack DEF Moves, CleanupShape
<1>n. PICK n \in Nat : n = Below(t) + 1
  BY <1>0
<1>1. /\ \A u \in Tasks, i \in Nat :
           u # t \/ (i # n /\ i # n + 1) => Stack(u, i)' = Stack(u, i)
      /\ Stack(t, n)' = AllOf(Lists(x)) /\ Stack(t, n + 1)' = Range(values)
      /\ Stack(t, n) = AllOf(Lists(Top(t))) /\ Stack(t, n + 1) = {}
  BY <1>n, AdvanceStack DEF Moves, CleanupShape
<1>r. \A u \in Tasks, i \in Nat :
        u # t \/ (i # n /\ i # n + 1) => Stack(u, i)' = Stack(u, i)
  BY <1>1
<1>2. /\ AllOf(Lists(x)) \cup Range(values) = AllOf(Lists(Top(t)))
      /\ AllOf(Lists(x)) \cap Range(values) = {}
      /\ Apart(Lists(x)) /\ IsInjective(values)
  BY DEF Moves
<1>3. Present' = Present /\ \A u \in Nat : FieldsOf(u)' = FieldsOf(u)
  BY DEF Present, Values, FieldsOf
\* a value whose fields are empty: no value is 0
<1>v. PICK v \in Nat : v = 0
  OBVIOUS
<1>4. FieldsOf(v) = {} /\ FieldsOf(v)' = {}
  <2>1. v \notin Present
    BY <1>v DEF Present, Values
  <2> QED
    BY <1>3, <2>1 DEF FieldsOf
<1>5. Divided'
  <2>1. PICK old, a, b, c : /\ old = Stack(t, n) \cup Stack(t, n + 1) \cup FieldsOf(v)
                            /\ a = Stack(t, n)' /\ b = Stack(t, n + 1)' /\ c = FieldsOf(v)'
    OBVIOUS
  <2>2. a = AllOf(Lists(x)) /\ b = Range(values) /\ c = {} /\ old = a \cup b
    BY <1>1, <1>2, <1>4, <2>1
  <2>3. old \subseteq Present
    BY <1>1, <1>4, <2>1 DEF Ownership, Divided
  <2>4. a \cap b = {} /\ a \cap c = {} /\ b \cap c = {}
    BY <1>2, <2>2
  <2>5. Present' = (Present \ old) \cup (a \cup b \cup c)
    BY <1>3, <2>2, <2>3
  <2>6. \A y \in a \cup b \cup c : y \in old \/ y \notin Present
    BY <2>2
  <2>7. \A u \in Nat : u # v => FieldsOf(u)' = FieldsOf(u)
    BY <1>3
  <2>8. Shuffled(t, n, v)
    BY <1>r, <2>1, <2>4, <2>5, <2>6, <2>7 DEF Shuffled
  <2>9. Divided
    BY DEF Ownership
  <2> QED
    BY <1>n, <1>v, <2>8, <2>9, Rearranged
<1>6. NoneTwice'
  <2>1. x \in Activity /\ values \in Seq(Nat) /\ Replaces(t, Pushed(x, values))
    BY DEF Moves, Advances, Activity
  <2>2. PICK new : new = Pushed(x, values)
    OBVIOUS
  <2>3. /\ new \in Seq(Activity) /\ Len(new) = (IF values = <<>> THEN 1 ELSE 2) /\ new[1] = x
        /\ values # <<>> => new[2] = Releasing(values)
    BY <2>1, <2>2, PushedIs
  <2>4. Apart(Lists(Releasing(values)))
    BY <1>2, <2>1, ReleaseProper, NoLists
  <2>5. ASSUME NEW j \in 1..Len(new)
        PROVE  Apart(Lists(new[j]))
    <3>1. j = 1 \/ (j = 2 /\ values # <<>>)
      BY <2>3
    <3> QED
      BY <1>2, <2>3, <2>4, <3>1
  <2>6. \A u \in Present' : IsInjective(fields'[u])
    BY <1>3 DEF Ownership, NoneTwice
  <2>7. Replaces(t, new)
    BY <2>1, <2>2
  <2> QED
    BY <2>3, <2>5, <2>6, <2>7, ApartStep DEF Ownership, CleanupShape
<1> QED
  BY <1>5, <1>6 DEF Ownership
\* What the innermost frame, the other frames and the result hold.
LEMMA TopHolds ==
  ASSUME CleanupShape, Ownership, NEW t \in Tasks, NEW at, Executes(t, at), Top(t).frames # <<>>,
         NEW F, F = Front(Top(t).frames), NEW r, r = Registers(t), NEW o, o = Top(t).owned
  PROVE  /\ F \in Seq(Seq(Nat)) /\ r \in Seq(Nat) /\ o \in Seq(Nat)
         /\ AllOf(Lists(Top(t))) = AllOf(F) \cup Range(r) \cup Range(o)
         /\ Apart(F) /\ IsInjective(r) /\ AllOf(F) \cap Range(r) = {}
         /\ IsInjective(o) /\ (AllOf(F) \cup Range(r)) \cap Range(o) = {}
<1>1. /\ F \in Seq(Seq(Nat)) /\ r \in Seq(Nat) /\ o \in Seq(Nat)
      /\ Top(t).frames = Append(F, r) /\ Lists(Top(t)) = Append(Top(t).frames, o)
      /\ work[t] # <<>>
  BY TopFrame, TopExecution
<1>2. Lists(Top(t)) = Append(Append(F, r), o)
  BY <1>1
<1>3. Apart(Lists(Top(t)))
  BY <1>1, TopApart DEF CleanupShape, Ownership
<1>4. F \in Seq(Seq(Nat)) /\ r \in Seq(Nat) /\ o \in Seq(Nat)
  BY <1>1
<1>5. /\ AllOf(Append(Append(F, r), o)) = AllOf(F) \cup Range(r) \cup Range(o)
      /\ Apart(Append(Append(F, r), o)) <=>
           /\ Apart(F) /\ IsInjective(r) /\ AllOf(F) \cap Range(r) = {}
           /\ IsInjective(o) /\ (AllOf(F) \cup Range(r)) \cap Range(o) = {}
  BY <1>4, Framed
<1> QED
  BY <1>2, <1>3, <1>4, <1>5

\* What an execution that unwound holds.
LEMMA TopHoldsNoFrame ==
  ASSUME CleanupShape, Ownership, NEW t \in Tasks, NEW at, Executes(t, at), Top(t).frames = <<>>,
         NEW o, o = Top(t).owned
  PROVE  o \in Seq(Nat) /\ AllOf(Lists(Top(t))) = Range(o) /\ IsInjective(o)
<1>1. /\ o \in Seq(Nat) /\ Lists(Top(t)) = Append(<<>>, o) /\ work[t] # <<>>
  BY TopExecution
<1>2. Apart(Lists(Top(t)))
  BY <1>1, TopApart DEF CleanupShape, Ownership
<1> QED
  BY <1>1, <1>2, Frameless

\* The lists of an execution that changed.
LEMMA ListsOf ==
  ASSUME NEW t, NEW at, NEW fs, NEW o, NEW r, NEW values,
         Advances(t, Becoming(Top(t), at, fs, o, r), values)
  PROVE  /\ Lists(Becoming(Top(t), at, fs, o, r)) = Append(fs, o)
         /\ fs \in Seq(Seq(Nat)) /\ o \in Seq(Nat) /\ values \in Seq(Nat)
<1>1. Becoming(Top(t), at, fs, o, r) \in Executions /\ values \in Seq(Nat)
  BY DEF Advances
<1>2. fs \in Seq(Seq(Nat)) /\ o \in Seq(Nat) /\ Top(t).role # "drop"
  BY <1>1 DEF Executions, Becoming
<1> QED
  BY <1>1, <1>2 DEF Becoming, Lists

\* What remains of a step that only moves values.
LEMMA MovesBy ==
  ASSUME NEW t, NEW at, NEW fs, NEW o, NEW r, NEW values,
         Advances(t, Becoming(Top(t), at, fs, o, r), values),
         AllOf(Append(fs, o)) \cup Range(values) = AllOf(Lists(Top(t))),
         AllOf(Append(fs, o)) \cap Range(values) = {},
         Apart(Append(fs, o)), IsInjective(values)
  PROVE  Moves(t, Becoming(Top(t), at, fs, o, r), values)
<1>1. Lists(Becoming(Top(t), at, fs, o, r)) = Append(fs, o)
  BY ListsOf
<1> QED
  BY <1>1, Zenon DEF Moves

\* A failure moves no value.
LEMMA FailMoves ==
  ASSUME CleanupAssumption, CleanupShape, Ownership, NEW t \in Tasks, Reported(t) \/ Fail(t)
  PROVE  \E x, values : Moves(t, x, values)
<1>1. PICK r : Advances(t, Becoming(Top(t), "unwind", Top(t).frames, Top(t).owned, r), <<>>)
  BY ReportedForm, FailForm
<1>2. Executes(t, "loop")
  BY ReportedForm, FailForm
<1>3. Lists(Top(t)) = Append(Top(t).frames, Top(t).owned) /\ work[t] # <<>>
  BY <1>2, TopExecution
<1>4. Apart(Lists(Top(t)))
  BY <1>3, TopApart DEF CleanupShape, Ownership
<1> QED
  BY <1>1, <1>3, <1>4, NoValues, MovesBy

\* A frame's registers move to the list of what it releases.
LEMMA UnwindMoves ==
  ASSUME CleanupShape, Ownership, NEW t \in Tasks, Unwind(t)
  PROVE  \E x, values : Moves(t, x, values)
<1>1. PICK F, r, o : F = Front(Top(t).frames) /\ r = Registers(t) /\ o = Top(t).owned
  OBVIOUS
<1>2. /\ Executes(t, "unwind") /\ Top(t).frames # <<>>
      /\ Advances(t, Becoming(Top(t), "unwind", F, o, Top(t).result), r)
  BY <1>1, UnwindForm
<1>3. /\ F \in Seq(Seq(Nat)) /\ r \in Seq(Nat) /\ o \in Seq(Nat)
      /\ AllOf(Lists(Top(t))) = AllOf(F) \cup Range(r) \cup Range(o)
      /\ Apart(F) /\ IsInjective(r) /\ AllOf(F) \cap Range(r) = {}
      /\ IsInjective(o) /\ (AllOf(F) \cup Range(r)) \cap Range(o) = {}
  BY <1>1, <1>2, TopHolds
<1>4. /\ AllOf(Append(F, o)) = AllOf(F) \cup Range(o)
      /\ Apart(Append(F, o)) <=> Apart(F) /\ IsInjective(o) /\ AllOf(F) \cap Range(o) = {}
  BY <1>3, OneMoreList
<1>5. /\ AllOf(Append(F, o)) \cup Range(r) = AllOf(Lists(Top(t)))
      /\ AllOf(Append(F, o)) \cap Range(r) = {} /\ Apart(Append(F, o))
  BY <1>3, <1>4
<1> QED
  BY <1>2, <1>3, <1>5, MovesBy

\* So does a result nobody takes.
LEMMA UnwoundMoves ==
  ASSUME CleanupShape, Ownership, NEW t \in Tasks, Unwound(t) \/ (Take(t) /\ ~Sent(t))
  PROVE  \E x, values : Moves(t, x, values)
<1>1. PICK o : o = Top(t).owned
  OBVIOUS
<1>2. (Executes(t, "unwind") \/ Executes(t, "take")) /\ Top(t).frames = <<>>
  BY UnwoundForm, TakeForm
<1>3. o \in Seq(Nat) /\ AllOf(Lists(Top(t))) = Range(o) /\ IsInjective(o)
  BY <1>1, <1>2, TopHoldsNoFrame
<1>4. /\ AllOf(Append(<<>>, o)) = Range(o) /\ Apart(Append(<<>>, o))
      /\ AllOf(Append(<<>>, <<>>)) = {} /\ Apart(Append(<<>>, <<>>))
  BY <1>3, Frameless, NoValues
<1>5. \/ \E r, at : Advances(t, Becoming(Top(t), at, <<>>, o, r), <<>>)
      \/ \E r, at : Advances(t, Becoming(Top(t), at, <<>>, <<>>, r), o)
  BY <1>1, UnwoundForm, TakeForm
<1>6. CASE \E r, at : Advances(t, Becoming(Top(t), at, <<>>, o, r), <<>>)
  BY <1>3, <1>4, <1>6, NoValues, MovesBy
<1>7. CASE \E r, at : Advances(t, Becoming(Top(t), at, <<>>, <<>>, r), o)
  BY <1>3, <1>4, <1>7, NoValues, MovesBy
<1> QED
  BY <1>5, <1>6, <1>7

\* So does a register that is emptied.
LEMMA DropRegisterMoves ==
  ASSUME CleanupShape, Ownership, NEW t \in Tasks, NEW i \in 1..MaxValues, DropRegister(t, i)
  PROVE  \E x, values : Moves(t, x, values)
<1>1. PICK F, r, o : F = Front(Top(t).frames) /\ r = Registers(t) /\ o = Top(t).owned
  OBVIOUS
<1>2. /\ Executes(t, "loop") /\ i \in 1..Len(r) /\ Top(t).frames # <<>>
      /\ Advances(t, Becoming(Top(t), "loop", Append(F, Emptied(r, i)), o, Top(t).result), <<r[i]>>)
  BY <1>1, DropRegisterForm
<1>3. /\ F \in Seq(Seq(Nat)) /\ r \in Seq(Nat) /\ o \in Seq(Nat)
      /\ AllOf(Lists(Top(t))) = AllOf(F) \cup Range(r) \cup Range(o)
      /\ Apart(F) /\ IsInjective(r) /\ AllOf(F) \cap Range(r) = {}
      /\ IsInjective(o) /\ (AllOf(F) \cup Range(r)) \cap Range(o) = {}
  BY <1>1, <1>2, TopHolds
<1>4. PICK e : e = Emptied(r, i)
  OBVIOUS
<1>5. /\ e \in Seq(Nat) /\ IsInjective(e) /\ r[i] \in Range(r) /\ Range(e) = Range(r) \ {r[i]}
  BY <1>2, <1>3, <1>4, OneRemoved
<1>6. r[i] \in Nat
  BY <1>2, <1>3, ElementOfSeq
<1>7. Range(<<r[i]>>) = {r[i]} /\ IsInjective(<<r[i]>>)
  BY <1>6, OneValue
<1>8. /\ AllOf(Append(Append(F, e), o)) = AllOf(F) \cup Range(e) \cup Range(o)
      /\ Apart(Append(Append(F, e), o)) <=>
           /\ Apart(F) /\ IsInjective(e) /\ AllOf(F) \cap Range(e) = {}
           /\ IsInjective(o) /\ (AllOf(F) \cup Range(e)) \cap Range(o) = {}
  BY <1>3, <1>5, Framed
<1>9. /\ AllOf(Append(Append(F, e), o)) \cup Range(<<r[i]>>) = AllOf(Lists(Top(t)))
      /\ AllOf(Append(Append(F, e), o)) \cap Range(<<r[i]>>) = {}
      /\ Apart(Append(Append(F, e), o))
  BY <1>3, <1>5, <1>7, <1>8
<1> QED
  BY <1>2, <1>4, <1>7, <1>9, MovesBy

\* Arguments move to the callee.
LEMMA CallMoves ==
  ASSUME CleanupShape, Ownership, NEW t \in Tasks, NEW i \in 1..MaxValues, Call(t, i)
  PROVE  \E x, values : Moves(t, x, values)
<1>1. PICK F, r, o : F = Front(Top(t).frames) /\ r = Registers(t) /\ o = Top(t).owned
  OBVIOUS
<1>4. PICK left, right : left = SubSeq(r, 1, i - 1) /\ right = SubSeq(r, i, Len(r))
  OBVIOUS
<1>2. /\ Executes(t, "loop") /\ i \in 1..Len(r) + 1 /\ Top(t).frames # <<>>
      /\ Advances(t, Becoming(Top(t), "loop", Append(Append(F, left), right), o,
                              Top(t).result), <<>>)
  BY <1>1, <1>4, CallForm
<1>3. /\ F \in Seq(Seq(Nat)) /\ r \in Seq(Nat) /\ o \in Seq(Nat)
      /\ AllOf(Lists(Top(t))) = AllOf(F) \cup Range(r) \cup Range(o)
      /\ Apart(F) /\ IsInjective(r) /\ AllOf(F) \cap Range(r) = {}
      /\ IsInjective(o) /\ (AllOf(F) \cup Range(r)) \cap Range(o) = {}
  BY <1>1, <1>2, TopHolds
<1>5. /\ left \in Seq(Nat) /\ right \in Seq(Nat) /\ Range(left) \cup Range(right) = Range(r)
      /\ IsInjective(left) /\ IsInjective(right) /\ Range(left) \cap Range(right) = {}
  BY <1>2, <1>3, <1>4, Cut
<1>6. PICK G : G = Append(F, left)
  OBVIOUS
<1>7. /\ G \in Seq(Seq(Nat)) /\ AllOf(G) = AllOf(F) \cup Range(left)
      /\ Apart(G) <=> Apart(F) /\ IsInjective(left) /\ AllOf(F) \cap Range(left) = {}
  BY <1>3, <1>5, <1>6, OneMoreList, AppendProperties
<1>8. /\ AllOf(Append(Append(G, right), o)) = AllOf(G) \cup Range(right) \cup Range(o)
      /\ Apart(Append(Append(G, right), o)) <=>
           /\ Apart(G) /\ IsInjective(right) /\ AllOf(G) \cap Range(right) = {}
           /\ IsInjective(o) /\ (AllOf(G) \cup Range(right)) \cap Range(o) = {}
  BY <1>3, <1>5, <1>7, Framed
<1>9. /\ AllOf(Append(Append(G, right), o)) = AllOf(Lists(Top(t)))
      /\ Apart(Append(Append(G, right), o))
  BY <1>3, <1>5, <1>7, <1>8
<1> QED
  BY <1>2, <1>6, <1>9, NoValues, MovesBy

\* A result moves to the caller, the rest is released.
LEMMA ReturnMoves ==
  ASSUME CleanupShape, Ownership, NEW t \in Tasks, NEW results, Return(t, results)
  PROVE  \E x, values : Moves(t, x, values)
<1>1. PICK F, r, o, kept : /\ F = Callers(t) /\ r = Registers(t) /\ o = Top(t).owned
                           /\ kept = Leftover(t, results)
  OBVIOUS
<1>2. /\ Executes(t, "loop") /\ Top(t).frames # <<>>
      /\ results = <<>> \/ (r # <<>> /\ results = <<Last(r)>>)
      /\ F = <<>> => Advances(t, Becoming(Top(t), "unwind", <<>>, o \o results,
                                          Top(t).result), kept)
      /\ F # <<>> => Advances(t, Becoming(Top(t), "loop",
                                   Append(Front(F), Last(F) \o results), o, Top(t).result), kept)
  BY <1>1, ReturnForm
<1>3. /\ F \in Seq(Seq(Nat)) /\ r \in Seq(Nat) /\ o \in Seq(Nat)
      /\ AllOf(Lists(Top(t))) = AllOf(F) \cup Range(r) \cup Range(o)
      /\ Apart(F) /\ IsInjective(r) /\ AllOf(F) \cap Range(r) = {}
      /\ IsInjective(o) /\ (AllOf(F) \cup Range(r)) \cap Range(o) = {}
  BY <1>1, <1>2, TopHolds DEF Callers
<1>4. kept = SubSeq(r, 1, Len(r) - Len(results))
  BY <1>1 DEF Leftover
<1>5. /\ kept \in Seq(Nat) /\ results \in Seq(Nat)
      /\ Range(kept) \cup Range(results) = Range(r)
      /\ IsInjective(kept) /\ IsInjective(results) /\ Range(kept) \cap Range(results) = {}
  <2>1. r \in Seq(Nat) /\ (results = <<>> \/ (r # <<>> /\ results = <<Last(r)>>))
    BY <1>2, <1>3
  <2>2. kept \in Seq(Nat) /\ results \in Seq(Nat)
    BY <1>4, <2>1, Divides
  <2>3. Range(kept) \cup Range(results) = Range(r)
    BY <1>4, <2>1, Divides
  <2>4. IsInjective(kept) /\ IsInjective(results) /\ Range(kept) \cap Range(results) = {}
    BY <1>3, <1>4, <2>1, DividesApart
  <2> QED
    BY <2>2, <2>3, <2>4
<1>6. CASE F = <<>>
  <2>1. PICK owned : owned = o \o results
    OBVIOUS
  <2>2. owned \in Seq(Nat) /\ Range(owned) = Range(o) \cup Range(results) /\ IsInjective(owned)
    <3>1. Range(o) \cap Range(results) = {}
      BY <1>3, <1>5
    <3> QED
      BY <1>3, <1>5, <2>1, <3>1, Joined
  <2>3. AllOf(Append(<<>>, owned)) = Range(owned) /\ Apart(Append(<<>>, owned)) /\ AllOf(F) = {}
    BY <1>6, <2>2, Frameless, NoLists
  <2>4. /\ AllOf(Append(<<>>, owned)) \cup Range(kept) = AllOf(Lists(Top(t)))
        /\ AllOf(Append(<<>>, owned)) \cap Range(kept) = {}
    BY <1>3, <1>5, <2>2, <2>3
  <2>5. Advances(t, Becoming(Top(t), "unwind", <<>>, owned, Top(t).result), kept)
    BY <1>2, <1>6, <2>1
  <2> QED
    BY <1>5, <2>3, <2>4, <2>5, MovesBy
<1>7. CASE F # <<>>
  <2>1. PICK G, l, joined : G = Front(F) /\ l = Last(F) /\ joined = l \o results
    OBVIOUS
  <2>2. G \in Seq(Seq(Nat)) /\ l \in Seq(Nat) /\ F = Append(G, l)
    BY <1>3, <1>7, <2>1, FrontAndLast
  <2>3. /\ AllOf(F) = AllOf(G) \cup Range(l) /\ Apart(G) /\ IsInjective(l)
        /\ AllOf(G) \cap Range(l) = {}
    BY <1>3, <2>2, OneMoreList
  <2>4. /\ joined \in Seq(Nat) /\ Range(joined) = Range(l) \cup Range(results)
        /\ IsInjective(joined)
    <3>1. Range(l) \cap Range(results) = {}
      BY <1>3, <1>5, <2>3
    <3> QED
      BY <1>5, <2>1, <2>2, <2>3, <3>1, Joined
  <2>5. /\ AllOf(Append(Append(G, joined), o)) = AllOf(G) \cup Range(joined) \cup Range(o)
        /\ Apart(Append(Append(G, joined), o)) <=>
             /\ Apart(G) /\ IsInjective(joined) /\ AllOf(G) \cap Range(joined) = {}
             /\ IsInjective(o) /\ (AllOf(G) \cup Range(joined)) \cap Range(o) = {}
    <3>1. G \in Seq(Seq(Nat)) /\ joined \in Seq(Nat) /\ o \in Seq(Nat)
      BY <1>3, <2>2, <2>4
    <3> QED
      BY <3>1, Framed
  <2>6. /\ AllOf(Append(Append(G, joined), o)) \cup Range(kept) = AllOf(Lists(Top(t)))
        /\ AllOf(Append(Append(G, joined), o)) \cap Range(kept) = {}
        /\ Apart(Append(Append(G, joined), o))
    BY <1>3, <1>5, <2>3, <2>4, <2>5
  <2>7. Advances(t, Becoming(Top(t), "loop", Append(G, joined), o, Top(t).result), kept)
    BY <1>2, <1>7, <2>1
  <2> QED
    BY <1>5, <2>6, <2>7, MovesBy
<1> QED
  BY <1>6, <1>7
-----------------------------------------------------------------------------
(***************************************************************************)
(* Values that are created, values that are released.                      *)
(***************************************************************************)
\* N is a new value of kind k, with these fields.
Creation(N, k, values) ==
  /\ N \in Nat /\ N \notin Values /\ N \notin Present
  /\ Values' = Values \cup {N} /\ Present' = Present \cup {N}
  /\ fields'[N] = values /\ \A u \in Values : fields'[u] = fields[u]
  /\ kind'[N] = k /\ \A u \in Values : kind'[u] = kind[u]
  /\ Len(kind') = N /\ Len(fields') = N
  /\ FieldsOf(N) = {} /\ FieldsOf(N)' = Range(values)
  /\ \A u \in Nat : u # N => FieldsOf(u)' = FieldsOf(u)

\* A new value has the next number.
LEMMA Created ==
  ASSUME ValuesOK, NEW k, NEW values \in Seq(Nat), NEW N, N = Len(kind) + 1,
         kind' = Append(kind, k), fields' = Append(fields, values), gone' = gone
  PROVE  Creation(N, k, values)
<1>1. /\ Len(kind) \in Nat /\ Len(fields) = Len(kind) /\ fields \in Seq(Seq(Nat))
      /\ kind \in Seq(Kinds \cup {"owned"}) /\ gone \subseteq Values
  BY LenProperties DEF ValuesOK
<1>2. /\ Len(kind') = N /\ kind'[N] = k
      /\ \A u \in 1..Len(kind) : kind'[u] = kind[u]
  BY <1>1
<1>3. /\ Len(fields') = N /\ fields'[N] = values
      /\ \A u \in 1..Len(kind) : fields'[u] = fields[u]
  BY <1>1
<1>4. N \in Nat /\ N \notin Values /\ N \notin Present
  BY <1>1 DEF Values, Present
<1>5. Values' = Values \cup {N}
  BY <1>1, <1>2 DEF Values
<1>6. Present' = Present \cup {N}
  BY <1>1, <1>4, <1>5 DEF Present
<1>7. FieldsOf(N) = {} /\ FieldsOf(N)' = Range(values)
  BY <1>3, <1>4, <1>6 DEF FieldsOf
<1>8. ASSUME NEW u \in Nat, u # N
      PROVE  FieldsOf(u)' = FieldsOf(u)
  <2>1. u \in Present' <=> u \in Present
    BY <1>6, <1>8
  <2>2. u \in Present => fields'[u] = fields[u]
    BY <1>3 DEF Present, Values
  <2> QED
    BY <2>1, <2>2 DEF FieldsOf
<1> QED
  BY <1>2, <1>3, <1>4, <1>5, <1>6, <1>7, <1>8 DEF Values, Creation

\* A value that is released is in no field's owner any more.
LEMMA ReleasedValue ==
  ASSUME NEW v \in Present, kind' = kind, fields' = fields, gone' = gone \cup {v}
  PROVE  /\ v \in Nat /\ Present' = Present \ {v} /\ FieldsOf(v)' = {}
         /\ \A u \in Nat : u # v => FieldsOf(u)' = FieldsOf(u)
<1>1. v \in Nat /\ Present' = Present \ {v}
  BY DEF Present, Values
<1> QED
  BY <1>1 DEF FieldsOf

\* The top is released for good.
LEMMA PopStep ==
  ASSUME CleanupShape, Ownership, NEW t \in Tasks, work[t] # <<>>,
         NEW new \in Seq(Activity), Len(new) = 0, Replaces(t, new),
         AllOf(Lists(Top(t))) = {}, gone' = gone, kind' = kind, fields' = fields
  PROVE  Ownership'
<1>e. StacksOK
  BY DEF CleanupShape
<1>b. Below(t) \in Nat
  BY <1>e, Stacked
<1>0. Below(t) + 1 \in Nat
  BY <1>b
<1>n. PICK n \in Nat : n = Below(t) + 1
  BY <1>0
<1>2. /\ \A u \in Tasks, i \in Nat :
           u # t \/ (i # n /\ i # n + 1) => Stack(u, i)' = Stack(u, i)
      /\ Stack(t, n)' = {} /\ Stack(t, n + 1)' = {}
      /\ Stack(t, n) = {} /\ Stack(t, n + 1) = {}
  <2>1. Len(new) <= 2
    OBVIOUS
  <2>2. StacksChange(t, n, new)
    BY <1>n, <1>e, <2>1, StackStep
  <2> QED
    BY <2>2 DEF StacksChange
<1>v. PICK v \in Nat : v = 0
  OBVIOUS
<1>3. Present' = Present /\ \A u \in Nat : FieldsOf(u)' = FieldsOf(u)
  BY DEF Present, Values, FieldsOf
<1>4. FieldsOf(v) = {} /\ FieldsOf(v)' = {}
  <2>1. v \notin Present
    BY <1>v DEF Present, Values
  <2> QED
    BY <1>3, <2>1 DEF FieldsOf
<1>5. Shuffled(t, n, v)
  BY <1>2, <1>3, <1>4 DEF Shuffled
<1>6. Divided'
  BY <1>n, <1>v, <1>5, Rearranged DEF Ownership
<1>7. NoneTwice'
  <2>1. \A u \in Present' : IsInjective(fields'[u])
    BY <1>3 DEF Ownership, NoneTwice
  <2>2. \A j \in 1..Len(new) : Apart(Lists(new[j]))
    OBVIOUS
  <2> QED
    BY <1>e, <2>1, <2>2, ApartStep DEF Ownership
<1> QED
  BY <1>6, <1>7 DEF Ownership

\* The end of an execution or of a list, which hold nothing.
LEMMA PopOwnership ==
  ASSUME CleanupShape, Ownership, NEW t \in Tasks, End(t) \/ Released(t)
  PROVE  Ownership'
<1>1. Replaces(t, <<>>)
  BY PopForm DEF End, Released
<1>2. gone' = gone /\ kind' = kind /\ fields' = fields
  BY DEF End, Released, history
<1>3. work[t] # <<>> /\ AllOf(Lists(Top(t))) = {}
  <2>1. CASE End(t)
    <3>1. Executes(t, "end")
      BY <2>1 DEF End
    <3>2. /\ work[t] # <<>> /\ Top(t).role # "drop" /\ Top(t).at = "end"
          /\ Proper(Top(t), Below(t) + 1)
      BY <3>1, TopExecution
    <3>3. Top(t).frames = <<>> /\ Top(t).owned = <<>>
      BY <3>2 DEF Proper
    <3> QED
      BY <3>1, <3>2, <3>3, TopHoldsNoFrame, NoValues
  <2>2. CASE Released(t)
    <3>1. Doing(t, "drop") /\ Top(t).values = <<>>
      BY <2>2 DEF Released
    <3>2. work[t] # <<>> /\ Lists(Top(t)) = <<Top(t).values>>
      BY <3>1, TopRelease
    <3> QED
      BY <3>1, <3>2, NoLists, NoValues
  <2> QED
    BY <2>1, <2>2
<1>4. PICK new : new = <<>>
  OBVIOUS
<1>5. <<>> \in Seq(Activity) /\ Len(<<>>) = 0
  OBVIOUS
<1>6. new \in Seq(Activity) /\ Len(new) = 0 /\ Replaces(t, new)
  BY <1>1, <1>4, <1>5
<1> QED
  BY <1>2, <1>3, <1>6, PopStep

\* A list of values to release comes to its next.
LEMMA ValueHeld ==
  ASSUME CleanupShape, Ownership, NEW t \in Tasks, Doing(t, "drop"), Top(t).values # <<>>,
         NEW v, v = Value(t), NEW rest, rest = Rest(t)
  PROVE  /\ rest \in Seq(Nat) /\ v \in Present /\ fields[v] \in Seq(Nat)
         /\ FieldsOf(v) = Range(fields[v]) /\ IsInjective(fields[v])
         /\ AllOf(Lists(Top(t))) = Range(rest) \cup {v}
         /\ IsInjective(rest) /\ v \notin Range(rest)
         /\ (Range(rest) \cup {v}) \cap Range(fields[v]) = {}
         /\ Range(rest) \subseteq Present /\ Range(fields[v]) \subseteq Present
<1>1. /\ v \in Present /\ v \in Nat /\ rest \in Seq(Nat) /\ Top(t).values = Append(rest, v)
      /\ fields[v] \in Seq(Nat) /\ FieldsOf(v) = Range(fields[v])
  BY ValueIs DEF Ownership
<1>2. /\ Top(t).values \in Seq(Nat) /\ Lists(Top(t)) = <<Top(t).values>> /\ work[t] # <<>>
      /\ Below(t) \in Nat
      /\ Below(t) + 1 \in DOMAIN work[t] /\ work[t][Below(t) + 1] = Top(t)
  BY TopRelease
<1>3. AllOf(Lists(Top(t))) = Range(Top(t).values) /\ IsInjective(Top(t).values)
  <2>1. Apart(Lists(Top(t)))
    BY <1>2, TopApart DEF Ownership, CleanupShape
  <2> QED
    BY <1>2, <2>1, NoLists
<1>4. /\ Range(Top(t).values) = Range(rest) \cup {v}
      /\ IsInjective(rest) /\ v \notin Range(rest)
  BY <1>2, <1>3, TakenOff DEF Value, Rest
<1>5. Stack(t, Below(t) + 1) = Range(rest) \cup {v}
  BY <1>2, <1>3, <1>4 DEF Stack
<1>6. /\ Stack(t, Below(t) + 1) \subseteq Present /\ FieldsOf(v) \subseteq Present
      /\ Stack(t, Below(t) + 1) \cap FieldsOf(v) = {}
  <2>1. Below(t) + 1 \in Nat /\ v \in Nat
    BY <1>1, <1>2 DEF Present, Values
  <2>2. Divided
    BY DEF Ownership
  <2> QED
    BY <2>1, <2>2 DEF Divided
<1>7. IsInjective(fields[v])
  BY <1>1 DEF Ownership, NoneTwice
<1> QED
  BY <1>1, <1>3, <1>4, <1>5, <1>6, <1>7
\* A deinit takes over the fields of its receiver.
LEMMA DeinitOwnership ==
  ASSUME CleanupShape, Ownership, NEW t \in Tasks, Deinit(t)
  PROVE  Ownership'
<1>1. PICK v, rest, a, b, new :
        /\ v = Value(t) /\ rest = Rest(t) /\ a = Releasing(Rest(t))
        /\ b = Started(fields[Value(t)], Pending(t)) /\ new = <<a, b>>
  OBVIOUS
<1>2. /\ Doing(t, "drop") /\ Top(t).values # <<>> /\ new \in Seq(Activity) /\ Replaces(t, new)
      /\ gone' = gone \cup {v} /\ kind' = kind /\ fields' = fields
  <2>1. Divided
    BY DEF Ownership
  <2>2. /\ Doing(t, "drop") /\ Top(t).values # <<>> /\ new \in Seq(Activity) /\ Replaces(t, new)
        /\ gone' = gone \cup {v}
    BY <1>1, <2>1, DeinitForm
  <2> QED
    BY <2>2 DEF Deinit
<1>3. /\ rest \in Seq(Nat) /\ v \in Present /\ fields[v] \in Seq(Nat)
      /\ FieldsOf(v) = Range(fields[v]) /\ IsInjective(fields[v])
      /\ AllOf(Lists(Top(t))) = Range(rest) \cup {v}
      /\ IsInjective(rest) /\ v \notin Range(rest)
      /\ (Range(rest) \cup {v}) \cap Range(fields[v]) = {}
      /\ Range(rest) \subseteq Present /\ Range(fields[v]) \subseteq Present
  BY <1>1, <1>2, ValueHeld
<1>4. work[t] # <<>> /\ Pending(t) \in AnyError
  BY <1>2, TopRelease
<1>5. AllOf(Lists(a)) = Range(rest) /\ Apart(Lists(a))
  BY <1>1, <1>3, ReleaseProper, NoLists
<1>6. AllOf(Lists(b)) = Range(fields[v]) /\ Apart(Lists(b))
  <2>1. Lists(b) = Append(<< <<>> >>, fields[v])
    BY <1>1, <1>3, <1>4, StartedIs DEF Started
  <2>2. PICK none : none = << <<>> >>
    OBVIOUS
  <2>3. none \in Seq(Seq(Nat)) /\ AllOf(none) = {} /\ Apart(none)
    BY <2>2, NoLists, NoValues
  <2>4. /\ AllOf(Append(none, fields[v])) = AllOf(none) \cup Range(fields[v])
        /\ Apart(Append(none, fields[v])) <=>
             Apart(none) /\ IsInjective(fields[v]) /\ AllOf(none) \cap Range(fields[v]) = {}
    BY <1>3, <2>3, OneMoreList
  <2> QED
    BY <1>3, <2>1, <2>2, <2>3, <2>4
<1>7. Len(new) = 2 /\ Len(new) <= 2 /\ new[1] = a /\ new[2] = b
  BY <1>1
<1>8. StacksOK /\ Divided /\ NoneTwice
  BY DEF CleanupShape, Ownership
<1>b. Below(t) \in Nat
  BY <1>2, TopRelease
<1>0. Below(t) + 1 \in Nat
  BY <1>b
<1>n. PICK n \in Nat : n = Below(t) + 1
  BY <1>0
<1>9. StacksChange(t, n, new)
  BY <1>2, <1>7, <1>8, <1>n, StackStep
<1>10. /\ \A u \in Tasks, i \in Nat :
            u # t \/ (i # n /\ i # n + 1) => Stack(u, i)' = Stack(u, i)
       /\ Stack(t, n)' = Range(rest) /\ Stack(t, n + 1)' = Range(fields[v])
       /\ Stack(t, n) = Range(rest) \cup {v} /\ Stack(t, n + 1) = {}
  BY <1>3, <1>4, <1>5, <1>6, <1>7, <1>9 DEF StacksChange
<1>11. /\ v \in Nat /\ Present' = Present \ {v} /\ FieldsOf(v)' = {}
       /\ \A u \in Nat : u # v => FieldsOf(u)' = FieldsOf(u)
  BY <1>2, <1>3, ReleasedValue
<1>12. Shuffled(t, n, v)
  BY <1>3, <1>10, <1>11 DEF Shuffled
<1>13. Divided'
  BY <1>n, <1>8, <1>11, <1>12, Rearranged
<1>14. NoneTwice'
  <2>1. \A u \in Present' : IsInjective(fields'[u])
    BY <1>2, <1>8, <1>11 DEF NoneTwice
  <2>2. \A j \in 1..Len(new) : Apart(Lists(new[j]))
    BY <1>5, <1>6, <1>7
  <2> QED
    BY <1>2, <1>8, <2>1, <2>2, ApartStep
<1> QED
  BY <1>13, <1>14 DEF Ownership

\* One activity takes the place of the top.
OneStack(t, n, a) ==
  /\ \A u \in Tasks, i \in Nat :
       u # t \/ (i # n /\ i # n + 1) => Stack(u, i)' = Stack(u, i)
  /\ Stack(t, n)' = AllOf(Lists(a)) /\ Stack(t, n + 1)' = {}
  /\ Stack(t, n) = IF work[t] = <<>> THEN {} ELSE AllOf(Lists(Top(t)))
  /\ Stack(t, n + 1) = {}

\* One activity replaces the top and repeats nothing.
LEMMA OneStep ==
  ASSUME CleanupShape, Ownership, NEW t \in Tasks, NEW a \in Activity, Replaces(t, <<a>>),
         Apart(Lists(a)), \A u \in Present' : IsInjective(fields'[u]),
         NEW n \in Nat, n = Below(t) + 1
  PROVE  NoneTwice' /\ OneStack(t, n, a)
<1>1. PICK new : new = <<a>>
  OBVIOUS
<1>2. new \in Seq(Activity) /\ Len(new) = 1 /\ Len(new) <= 2 /\ new[1] = a /\ Replaces(t, new)
  BY <1>1
<1>3. StacksOK /\ NoneTwice
  BY DEF CleanupShape, Ownership
<1>4. StacksChange(t, n, new)
  BY <1>2, <1>3, StackStep
<1>5. \A j \in 1..Len(new) : Apart(Lists(new[j]))
  BY <1>2
<1>6. NoneTwice'
  BY <1>2, <1>3, <1>5, ApartStep
<1> QED
  BY <1>2, <1>4, <1>6 DEF StacksChange, OneStack

\* An incomplete record's fields take its place in the list.
LEMMA ShortenOwnership ==
  ASSUME CleanupShape, Ownership, NEW t \in Tasks, Abandon(t) \/ ReleaseHandle(t)
  PROVE  Ownership'
<1>1. PICK v, rest, more, list, a :
        /\ v = Value(t) /\ rest = Rest(t)
        /\ more = (IF Abandon(t) THEN fields[Value(t)] ELSE <<>>)
        /\ list = rest \o more /\ a = Releasing(list)
  OBVIOUS
<1>2. /\ Doing(t, "drop") /\ Top(t).values # <<>> /\ Replaces(t, <<a>>)
      /\ more \in Seq(Nat) /\ list \in Seq(Nat)
      /\ gone' = gone \cup {v} /\ kind' = kind /\ fields' = fields
      /\ kind[v] = IF Abandon(t) THEN "partial" ELSE "handle"
  <2>1. Divided
    BY DEF Ownership
  <2>2. /\ Doing(t, "drop") /\ Top(t).values # <<>> /\ Replaces(t, <<a>>)
        /\ more \in Seq(Nat) /\ list \in Seq(Nat) /\ gone' = gone \cup {v}
        /\ kind[v] = IF Abandon(t) THEN "partial" ELSE "handle"
    BY <1>1, <2>1, ShortenForm
  <2> QED
    BY <2>2 DEF Abandon, ReleaseHandle, history
<1>3. /\ rest \in Seq(Nat) /\ v \in Present /\ fields[v] \in Seq(Nat)
      /\ FieldsOf(v) = Range(fields[v]) /\ IsInjective(fields[v])
      /\ AllOf(Lists(Top(t))) = Range(rest) \cup {v}
      /\ IsInjective(rest) /\ v \notin Range(rest)
      /\ (Range(rest) \cup {v}) \cap Range(fields[v]) = {}
      /\ Range(rest) \subseteq Present /\ Range(fields[v]) \subseteq Present
  BY <1>1, <1>2, ValueHeld
<1>4. work[t] # <<>> /\ Below(t) \in Nat
  BY <1>2, TopRelease
\* a handle has no fields
<1>5. Range(more) = Range(fields[v]) /\ IsInjective(more)
  <2>1. CASE Abandon(t)
    BY <1>1, <1>3, <2>1
  <2>2. CASE ~Abandon(t)
    <3>1. more = <<>> /\ kind[v] = "handle"
      BY <1>1, <1>2, <2>2
    <3>2. fields[v] = <<>>
      BY <1>3, <3>1 DEF CleanupShape, ValuesOK, Present
    <3> QED
      BY <3>1, <3>2, NoValues
  <2> QED
    BY <2>1, <2>2
<1>6. Range(list) = Range(rest) \cup Range(fields[v]) /\ IsInjective(list)
  <2>1. Range(rest) \cap Range(more) = {}
    BY <1>3, <1>5
  <2>2. rest \in Seq(Nat) /\ more \in Seq(Nat) /\ IsInjective(rest) /\ IsInjective(more)
    BY <1>2, <1>3, <1>5
  <2>3. Range(rest \o more) = Range(rest) \cup Range(more) /\ IsInjective(rest \o more)
    BY <2>1, <2>2, Joined
  <2> QED
    BY <1>1, <1>5, <2>3
<1>7. a \in Activity /\ AllOf(Lists(a)) = Range(list) /\ Apart(Lists(a))
  BY <1>1, <1>2, <1>6, ReleaseProper, NoLists
<1>8. Divided /\ NoneTwice
  BY DEF Ownership
<1>0. Below(t) + 1 \in Nat
  BY <1>4
<1>n. PICK n \in Nat : n = Below(t) + 1
  BY <1>0
<1>9. /\ v \in Nat /\ Present' = Present \ {v} /\ FieldsOf(v)' = {}
      /\ \A u \in Nat : u # v => FieldsOf(u)' = FieldsOf(u)
  BY <1>2, <1>3, ReleasedValue
<1>10. \A u \in Present' : IsInjective(fields'[u])
  BY <1>2, <1>8, <1>9 DEF NoneTwice
<1>11. /\ NoneTwice'
       /\ \A u \in Tasks, i \in Nat :
            u # t \/ (i # n /\ i # n + 1) => Stack(u, i)' = Stack(u, i)
       /\ Stack(t, n)' = AllOf(Lists(a)) /\ Stack(t, n + 1)' = {}
       /\ Stack(t, n) = IF work[t] = <<>> THEN {} ELSE AllOf(Lists(Top(t)))
       /\ Stack(t, n + 1) = {}
  <2>1. NoneTwice' /\ OneStack(t, n, a)
    BY <1>2, <1>7, <1>10, <1>n, OneStep
  <2> QED
    BY <2>1 DEF OneStack
<1>12. Stack(t, n)' = Range(rest) \cup Range(fields[v]) /\ Stack(t, n) = Range(rest) \cup {v}
  BY <1>3, <1>4, <1>6, <1>7, <1>11
<1>13. Shuffled(t, n, v)
  <2>1. PICK P, R, F : P = Present /\ R = Range(rest) /\ F = Range(fields[v])
    OBVIOUS
  <2>2. /\ FieldsOf(v) = F /\ v \notin R /\ v \in P /\ (R \cup {v}) \cap F = {}
        /\ R \subseteq P /\ F \subseteq P
    BY <1>3, <2>1
  <2>3. Present' = (P \ (R \cup {v} \cup F)) \cup R \cup F
    BY <1>9, <2>1, <2>2
  <2>4. /\ Stack(t, n)' = R \cup F /\ Stack(t, n + 1)' = {} /\ FieldsOf(v)' = {}
        /\ Stack(t, n) = R \cup {v} /\ Stack(t, n + 1) = {}
    BY <1>9, <1>11, <1>12, <2>1
  <2>5. /\ \A u \in Tasks, i \in Nat :
             u # t \/ (i # n /\ i # n + 1) => Stack(u, i)' = Stack(u, i)
        /\ \A u \in Nat : u # v => FieldsOf(u)' = FieldsOf(u)
    BY <1>9, <1>11
  <2> QED
    BY <2>1, <2>2, <2>3, <2>4, <2>5 DEF Shuffled
<1>14. Divided'
  BY <1>n, <1>8, <1>9, <1>13, Rearranged
<1> QED
  BY <1>11, <1>14 DEF Ownership
\* A new value owns the registers it was made from.
LEMMA MakeOwnership ==
  ASSUME CleanupShape, Ownership, NEW t \in Tasks, NEW k \in Kinds, NEW i \in 1..MaxValues,
         Make(t, k, i)
  PROVE  Ownership'
<1>1. PICK F, r, o, left, right, N :
        /\ F = Front(Top(t).frames) /\ r = Registers(t) /\ o = Top(t).owned
        /\ left = SubSeq(r, 1, i - 1) /\ right = SubSeq(r, i, Len(r)) /\ N = Len(kind) + 1
  OBVIOUS
<1>2. PICK kept, x : /\ kept = Append(left, N)
                     /\ x = Becoming(Top(t), "loop", Append(F, kept), o, Top(t).result)
  OBVIOUS
<1>3. /\ Executes(t, "loop") /\ i \in 1..Len(r) + 1 /\ Top(t).frames # <<>>
      /\ Advances(t, x, <<>>)
  BY <1>1, <1>2, MakeForm
<1>4. /\ F \in Seq(Seq(Nat)) /\ r \in Seq(Nat) /\ o \in Seq(Nat)
      /\ AllOf(Lists(Top(t))) = AllOf(F) \cup Range(r) \cup Range(o)
      /\ Apart(F) /\ IsInjective(r) /\ AllOf(F) \cap Range(r) = {}
      /\ IsInjective(o) /\ (AllOf(F) \cup Range(r)) \cap Range(o) = {}
  BY <1>1, <1>3, TopHolds
<1>5. /\ left \in Seq(Nat) /\ right \in Seq(Nat) /\ Range(left) \cup Range(right) = Range(r)
      /\ IsInjective(left) /\ IsInjective(right) /\ Range(left) \cap Range(right) = {}
  BY <1>1, <1>3, <1>4, Cut
<1>6. /\ kind' = Append(kind, k) /\ fields' = Append(fields, right) /\ gone' = gone
  BY <1>1 DEF Make
<1>7. /\ N \in Nat /\ N \notin Present /\ Present' = Present \cup {N}
      /\ fields'[N] = right /\ \A u \in Values : fields'[u] = fields[u]
      /\ FieldsOf(N) = {} /\ FieldsOf(N)' = Range(right)
      /\ \A u \in Nat : u # N => FieldsOf(u)' = FieldsOf(u)
  <2>1. Creation(N, k, right)
    BY <1>1, <1>5, <1>6, Created DEF CleanupShape
  <2> QED
    BY <2>1 DEF Creation
<1>8. work[t] # <<>> /\ Below(t) \in Nat
  BY <1>3, TopExecution
<1>0. Below(t) + 1 \in Nat
  BY <1>8
<1>n. PICK n \in Nat : n = Below(t) + 1
  BY <1>0
<1>s. StacksOK /\ Divided /\ NoneTwice
  BY DEF CleanupShape, Ownership
<1>9. /\ \A u \in Tasks, j \in Nat :
           u # t \/ (j # n /\ j # n + 1) => Stack(u, j)' = Stack(u, j)
      /\ Stack(t, n)' = AllOf(Lists(x)) /\ Stack(t, n + 1)' = {}
      /\ Stack(t, n) = AllOf(Lists(Top(t))) /\ Stack(t, n + 1) = {}
  BY <1>3, <1>8, <1>n, <1>s, AdvanceStack, NoValues
<1>10. Stack(t, n) \subseteq Present
  BY <1>n, <1>s DEF Divided
<1>11. N \notin AllOf(F) \cup Range(r) \cup Range(o)
  BY <1>4, <1>7, <1>9, <1>10
<1>12. kept \in Seq(Nat) /\ Range(kept) = Range(left) \cup {N} /\ IsInjective(kept)
  <2>1. N \notin Range(left)
    BY <1>5, <1>11
  <2> QED
    BY <1>2, <1>5, <1>7, <2>1, Appended
<1>13. Lists(x) = Append(Append(F, kept), o)
  <2>1. PICK fs, res, none : fs = Append(F, kept) /\ res = Top(t).result /\ none = <<>>
    OBVIOUS
  <2>2. x = Becoming(Top(t), "loop", fs, o, res)
    BY <1>2, <2>1
  <2>3. Advances(t, Becoming(Top(t), "loop", fs, o, res), none)
    BY <1>3, <2>1, <2>2
  <2>4. Lists(Becoming(Top(t), "loop", fs, o, res)) = Append(fs, o)
    BY <2>3, ListsOf
  <2> QED
    BY <2>1, <2>2, <2>4
<1>14. /\ AllOf(Append(Append(F, kept), o)) = AllOf(F) \cup Range(kept) \cup Range(o)
       /\ Apart(Append(Append(F, kept), o)) <=>
            /\ Apart(F) /\ IsInjective(kept) /\ AllOf(F) \cap Range(kept) = {}
            /\ IsInjective(o) /\ (AllOf(F) \cup Range(kept)) \cap Range(o) = {}
  <2>1. F \in Seq(Seq(Nat)) /\ kept \in Seq(Nat) /\ o \in Seq(Nat)
    BY <1>4, <1>12
  <2> QED
    BY <2>1, Framed
<1>15. AllOf(Lists(x)) = AllOf(F) \cup Range(left) \cup {N} \cup Range(o)
  BY <1>12, <1>13, <1>14
<1>16. Apart(Lists(x))
  <2>1. AllOf(F) \cap Range(kept) = {} /\ (AllOf(F) \cup Range(kept)) \cap Range(o) = {}
    BY <1>4, <1>5, <1>11, <1>12
  <2> QED
    BY <1>4, <1>12, <1>13, <1>14, <2>1
<1>17. Shuffled(t, n, N)
  <2>1. PICK old, a, b, c :
          /\ old = Stack(t, n) \cup Stack(t, n + 1) \cup FieldsOf(N)
          /\ a = Stack(t, n)' /\ b = Stack(t, n + 1)' /\ c = FieldsOf(N)'
    OBVIOUS
  <2>2. /\ old = AllOf(F) \cup Range(r) \cup Range(o)
        /\ a = AllOf(F) \cup Range(left) \cup {N} \cup Range(o) /\ b = {} /\ c = Range(right)
    BY <1>4, <1>7, <1>9, <1>15, <2>1
  <2>3. a \cap b = {} /\ b \cap c = {}
    BY <2>2
  <2>4. a \cap c = {}
    BY <1>4, <1>5, <1>11, <2>2
  <2>5. a \cup b \cup c = old \cup {N}
    BY <1>5, <2>2
  <2>6. \A y \in a \cup b \cup c : y \in old \/ y \notin Present
    BY <1>7, <2>5
  <2>7. Present' = (Present \ old) \cup (a \cup b \cup c)
    <3>1. old \subseteq Present
      BY <1>4, <1>9, <1>10, <2>2
    <3> QED
      BY <1>7, <2>5, <3>1
  <2> QED
    BY <1>7, <1>9, <2>1, <2>3, <2>4, <2>6, <2>7 DEF Shuffled
<1>18. Divided'
  BY <1>n, <1>s, <1>7, <1>17, Rearranged
<1>19. NoneTwice'
  <2>1. \A u \in Present' : IsInjective(fields'[u])
    BY <1>5, <1>7, <1>s DEF NoneTwice, Present
  <2>2. PICK new : new = Pushed(x, <<>>)
    OBVIOUS
  <2>3. x \in Activity /\ Replaces(t, new)
    BY <1>3, <2>2 DEF Advances, Activity
  <2>4. new \in Seq(Activity) /\ Len(new) = 1 /\ new[1] = x
    BY <2>2, <2>3, NoValues, PushedIs
  <2>5. \A j \in 1..Len(new) : Apart(Lists(new[j]))
    BY <1>16, <2>4
  <2> QED
    BY <1>s, <2>1, <2>3, <2>4, <2>5, ApartStep
<1> QED
  BY <1>18, <1>19 DEF Ownership

\* An execution that begins: it owns nothing.
LEMMA ExecuteOwnership ==
  ASSUME CleanupShape, Ownership, NEW t \in Tasks, NEW w \in Workers, Execute(t, w)
  PROVE  Ownership'
<1>1. PICK a, none : /\ a = Execution("run", << <<>> >>, <<>>, NoError)
                     /\ none = << <<>> >>
  OBVIOUS
<1>2. /\ work[t] = <<>> /\ work' = [work EXCEPT ![t] = <<a>>]
      /\ gone' = gone /\ kind' = kind /\ fields' = fields
  BY <1>1 DEF Execute, Begin
<1>3. a \in Activity /\ Lists(a) = Append(none, <<>>)
  <2>1. NoError \in AnyError
    BY DEF AnyError
  <2> QED
    BY <1>1, <2>1, NoValues, StartedIs
<1>4. AllOf(Lists(a)) = {} /\ Apart(Lists(a))
  <2>1. none \in Seq(Seq(Nat)) /\ AllOf(none) = {} /\ Apart(none)
    BY <1>1, NoLists, NoValues
  <2>2. PICK o : o = <<>>
    OBVIOUS
  <2>3. o \in Seq(Nat) /\ Range(o) = {} /\ IsInjective(o)
    BY <2>2, NoValues
  <2>4. /\ AllOf(Append(none, o)) = AllOf(none) \cup Range(o)
        /\ Apart(Append(none, o)) <=>
             Apart(none) /\ IsInjective(o) /\ AllOf(none) \cap Range(o) = {}
    BY <2>1, <2>3, OneMoreList
  <2> QED
    BY <1>3, <2>1, <2>2, <2>3, <2>4
<1>5. Replaces(t, <<a>>) /\ Below(t) = 0
  BY <1>2, <1>3, StartForm
<1>n. PICK n \in Nat : n = Below(t) + 1
  BY <1>5
<1>v. PICK v \in Nat : v = 0
  OBVIOUS
<1>6. Present' = Present /\ \A u \in Nat : FieldsOf(u)' = FieldsOf(u)
  BY <1>2 DEF Present, Values, FieldsOf
<1>7. FieldsOf(v) = {} /\ FieldsOf(v)' = {}
  <2>1. v \notin Present
    BY <1>v DEF Present, Values
  <2> QED
    BY <1>6, <2>1 DEF FieldsOf
<1>8. Divided /\ \A u \in Present' : IsInjective(fields'[u])
  BY <1>2, <1>6 DEF Ownership, NoneTwice
<1>9. /\ NoneTwice'
      /\ \A u \in Tasks, i \in Nat :
           u # t \/ (i # n /\ i # n + 1) => Stack(u, i)' = Stack(u, i)
      /\ Stack(t, n)' = {} /\ Stack(t, n + 1)' = {}
      /\ Stack(t, n) = {} /\ Stack(t, n + 1) = {}
  <2>1. NoneTwice' /\ OneStack(t, n, a)
    BY <1>3, <1>4, <1>5, <1>n, <1>8, OneStep
  <2> QED
    BY <1>2, <1>4, <2>1 DEF OneStack
<1>10. Shuffled(t, n, v)
  BY <1>6, <1>7, <1>9 DEF Shuffled
<1>11. Divided'
  BY <1>n, <1>v, <1>8, <1>10, Rearranged
<1> QED
  BY <1>9, <1>11 DEF Ownership

\* A message that is dropped is released.
LEMMA DiscardOwnership ==
  ASSUME CleanupShape, Ownership, NEW t \in Tasks, NEW w \in Workers, Discard(t, w)
  PROVE  Ownership'
<1>1. PICK N, a, none : N = Len(kind) + 1 /\ a = Releasing(<<N>>) /\ none = <<>>
  OBVIOUS
<1>2. /\ work[t] = <<>> /\ work' = [work EXCEPT ![t] = <<a>>]
      /\ gone' = gone /\ kind' = Append(kind, "owned") /\ fields' = Append(fields, none)
  BY <1>1 DEF Discard, Begin
<1>3. none \in Seq(Nat) /\ Range(none) = {} /\ IsInjective(none)
  BY <1>1, NoValues
<1>4. /\ N \in Nat /\ N \notin Present /\ Present' = Present \cup {N}
      /\ fields'[N] = none /\ \A u \in Values : fields'[u] = fields[u]
      /\ FieldsOf(N) = {} /\ FieldsOf(N)' = {}
      /\ \A u \in Nat : u # N => FieldsOf(u)' = FieldsOf(u)
  <2>1. Creation(N, "owned", none)
    BY <1>1, <1>2, <1>3, Created DEF CleanupShape
  <2> QED
    BY <1>3, <2>1 DEF Creation
<1>5. /\ <<N>> \in Seq(Nat) /\ Range(<<N>>) = {N} /\ IsInjective(<<N>>)
  BY <1>4, OneValue
<1>6. a \in Activity /\ AllOf(Lists(a)) = {N} /\ Apart(Lists(a))
  BY <1>1, <1>5, ReleaseProper, NoLists
<1>7. Replaces(t, <<a>>) /\ Below(t) = 0
  BY <1>2, <1>6, StartForm
<1>n. PICK n \in Nat : n = Below(t) + 1
  BY <1>7
<1>8. Divided /\ \A u \in Present' : IsInjective(fields'[u])
  BY <1>3, <1>4 DEF Ownership, NoneTwice, Present
<1>9. /\ NoneTwice'
      /\ \A u \in Tasks, i \in Nat :
           u # t \/ (i # n /\ i # n + 1) => Stack(u, i)' = Stack(u, i)
      /\ Stack(t, n)' = {N} /\ Stack(t, n + 1)' = {}
      /\ Stack(t, n) = {} /\ Stack(t, n + 1) = {}
  <2>1. NoneTwice' /\ OneStack(t, n, a)
    BY <1>6, <1>7, <1>n, <1>8, OneStep
  <2> QED
    BY <1>2, <1>6, <2>1 DEF OneStack
<1>10. Shuffled(t, n, N)
  BY <1>4, <1>9 DEF Shuffled
<1>11. Divided'
  BY <1>n, <1>4, <1>8, <1>10, Rearranged
<1> QED
  BY <1>9, <1>11 DEF Ownership
\* A worker's result leaves, with everything it owns: nothing else is owned by
\* what leaves, and nothing that stays owns what leaves.
LEMMA SubvaluesIs ==
  ASSUME CleanupShape, Divided, NEW o \in Seq(Nat), Range(o) \subseteq Present,
         NEW S, S = Subvalues(o)
  PROVE  /\ Range(o) \subseteq S /\ S \subseteq Present
         /\ \A u \in S : Range(fields[u]) \subseteq S
         /\ \A x \in S : x \in Range(o) \/ \E u \in S : x \in Range(fields[u])
<1>1. Present \subseteq Values /\ \A u \in Present : Range(fields[u]) \subseteq Present
  <2>1. \A u \in Present : u \in Nat /\ Range(fields[u]) = FieldsOf(u)
    BY DEF FieldsOf, Present, Values
  <2> QED
    BY <2>1 DEF Divided, Present
<1>2. S \subseteq Present
  BY <1>1 DEF Subvalues, Closed
<1>3. Range(o) \subseteq S
  BY <1>1 DEF Subvalues
<1>4. ASSUME NEW u \in S, NEW y \in Range(fields[u])
      PROVE  y \in S
  <2>1. y \in Values
    BY <1>1, <1>2, <1>4
  <2>2. ASSUME NEW T \in SUBSET Values, Range(o) \subseteq T, Closed(T)
        PROVE  y \in T
    <3>1. u \in T
      BY <1>4, <2>2 DEF Subvalues
    <3> QED
      BY <1>4, <2>2, <3>1 DEF Closed
  <2> QED
    BY <2>1, <2>2 DEF Subvalues
<1>5. ASSUME NEW x \in S, x \notin Range(o), \A u \in S : x \notin Range(fields[u])
      PROVE  FALSE
  <2>1. PICK T : T = S \ {x}
    OBVIOUS
  <2>2. T \in SUBSET Values /\ Range(o) \subseteq T
    BY <1>1, <1>2, <1>3, <1>5, <2>1
  <2>3. Closed(T)
    BY <1>4, <1>5, <2>1 DEF Closed
  <2>4. x \in T
    BY <1>5, <2>2, <2>3 DEF Subvalues
  <2> QED
    BY <2>1, <2>4
<1> QED
  BY <1>2, <1>3, <1>4, <1>5

\* What a worker sends leaves with all that its fields own.
LEMMA SentOwnership ==
  ASSUME CleanupShape, Ownership, NEW t \in Tasks, Take(t), Sent(t)
  PROVE  Ownership'
<1>1. PICK o, S, res, x, none :
        /\ o = Top(t).owned /\ S = Subvalues(Top(t).owned)
        /\ res = Or(Top(t).result, Pending(t))
        /\ x = Becoming(Top(t), "end", <<>>, <<>>, res) /\ none = <<>>
  OBVIOUS
<1>2. /\ Executes(t, "take") /\ Top(t).frames = <<>> /\ Advances(t, x, none)
      /\ gone' = gone \cup S
  BY <1>1, TakeForm
<1>3. kind' = kind /\ fields' = fields
  BY DEF Take
<1>4. o \in Seq(Nat) /\ AllOf(Lists(Top(t))) = Range(o) /\ IsInjective(o)
  BY <1>1, <1>2, TopHoldsNoFrame
<1>5. work[t] # <<>> /\ Below(t) \in Nat
  BY <1>2, TopExecution
<1>0. Below(t) + 1 \in Nat
  BY <1>5
<1>n. PICK n \in Nat : n = Below(t) + 1
  BY <1>0
<1>s. StacksOK /\ Divided /\ NoneTwice
  BY DEF CleanupShape, Ownership
<1>6. Lists(x) = Append(<<>>, <<>>) /\ Range(none) = {}
  <2>1. PICK fs, os : fs = <<>> /\ os = <<>>
    OBVIOUS
  <2>2. x = Becoming(Top(t), "end", fs, os, res)
    BY <1>1, <2>1
  <2>3. Advances(t, Becoming(Top(t), "end", fs, os, res), none)
    BY <1>2, <2>2
  <2>4. Lists(Becoming(Top(t), "end", fs, os, res)) = Append(fs, os)
    BY <2>3, ListsOf
  <2> QED
    BY <1>1, <2>1, <2>2, <2>4, NoValues
<1>7. AllOf(Lists(x)) = {} /\ Apart(Lists(x))
  <2>1. PICK os : os = <<>>
    OBVIOUS
  <2>2. os \in Seq(Nat) /\ Range(os) = {} /\ IsInjective(os)
    BY <2>1, NoValues
  <2>3. AllOf(Append(<<>>, os)) = Range(os) /\ (Apart(Append(<<>>, os)) <=> IsInjective(os))
    BY <2>2, Frameless
  <2> QED
    BY <1>6, <2>1, <2>2, <2>3
<1>8. /\ \A u \in Tasks, j \in Nat :
           u # t \/ (j # n /\ j # n + 1) => Stack(u, j)' = Stack(u, j)
      /\ Stack(t, n)' = {} /\ Stack(t, n + 1)' = {}
      /\ Stack(t, n) = Range(o) /\ Stack(t, n + 1) = {}
  BY <1>2, <1>4, <1>5, <1>6, <1>7, <1>n, <1>s, AdvanceStack
<1>9. Range(o) \subseteq Present
  BY <1>8, <1>n, <1>s DEF Divided
<1>10. /\ Range(o) \subseteq S /\ S \subseteq Present
       /\ \A u \in S : Range(fields[u]) \subseteq S
       /\ \A y \in S : y \in Range(o) \/ \E u \in S : y \in Range(fields[u])
  BY <1>1, <1>4, <1>9, <1>s, SubvaluesIs
<1>11. Present' = Present \ S
  BY <1>2, <1>3 DEF Present, Values
<1>12. \A u \in Present : u \in Nat /\ Range(fields[u]) = FieldsOf(u)
  BY DEF FieldsOf, Present, Values
<1>13. \A u \in Nat : FieldsOf(u)' = IF u \in S THEN {} ELSE FieldsOf(u)
  BY <1>3, <1>11 DEF FieldsOf
<1>14. \A u \in Nat : u \notin S => FieldsOf(u) \cap S = {}
  BY <1>8, <1>n, <1>s, <1>10, <1>12 DEF Divided
<1>15. \A u \in Tasks, i \in Nat :
         Stack(u, i)' = (IF u = t /\ i = n THEN {} ELSE Stack(u, i)) /\ Stack(u, i)' \cap S = {}
  <2>1. ASSUME NEW u \in Tasks, NEW i \in Nat
        PROVE  Stack(u, i)' = IF u = t /\ i = n THEN {} ELSE Stack(u, i)
    BY <1>8
  <2>2. ASSUME NEW u \in Tasks, NEW i \in Nat, ~(u = t /\ i = n), NEW y \in Stack(u, i), y \in S
        PROVE  FALSE
    <3>1. y \notin Range(o)
      BY <1>8, <1>n, <1>s, <2>2 DEF Divided
    <3>2. PICK w \in S : y \in Range(fields[w])
      BY <1>10, <2>2, <3>1
    <3>3. w \in Nat /\ y \in FieldsOf(w)
      BY <1>10, <1>12, <3>2
    <3> QED
      BY <1>s, <2>2, <3>3 DEF Divided
  <2> QED
    BY <2>1, <2>2
<1>16. Divided'
  <2>1. \A u \in Tasks, i \in Nat : Stack(u, i)' \subseteq Present'
    BY <1>s, <1>11, <1>15 DEF Divided
  <2>2. \A u \in Nat : FieldsOf(u)' \subseteq Present'
    BY <1>s, <1>11, <1>13, <1>14 DEF Divided
  <2>3. \A u, w \in Tasks, i, j \in Nat : \A y \in Stack(u, i)' \cap Stack(w, j)' : u = w /\ i = j
    BY <1>s, <1>15 DEF Divided
  <2>4. \A u, w \in Nat : \A y \in FieldsOf(u)' \cap FieldsOf(w)' : u = w
    BY <1>s, <1>13 DEF Divided
  <2>5. \A u \in Tasks, i, w \in Nat : Stack(u, i)' \cap FieldsOf(w)' = {}
    BY <1>s, <1>13, <1>15 DEF Divided
  <2>6. ASSUME NEW y \in Present'
        PROVE  \/ \E u \in Tasks, i \in Nat : y \in Stack(u, i)'
               \/ \E u \in Nat : y \in FieldsOf(u)'
    <3>1. y \in Present /\ y \notin S
      BY <1>11
    <3>2. CASE \E u \in Tasks, i \in Nat : y \in Stack(u, i)
      <4>1. PICK u \in Tasks, i \in Nat : y \in Stack(u, i)
        BY <3>2
      <4>2. ~(u = t /\ i = n)
        BY <1>8, <1>10, <3>1, <4>1
      <4> QED
        BY <1>15, <4>1, <4>2
    <3>3. CASE \E u \in Nat : y \in FieldsOf(u)
      <4>1. PICK u \in Nat : y \in FieldsOf(u)
        BY <3>3
      <4>2. u \notin S
        BY <1>10, <1>12, <3>1, <4>1
      <4> QED
        BY <1>13, <4>1, <4>2
    <3> QED
      BY <1>s, <3>1, <3>2, <3>3 DEF Divided
  <2> QED
    BY <2>1, <2>2, <2>3, <2>4, <2>5, <2>6 DEF Divided
<1>17. NoneTwice'
  <2>1. \A u \in Present' : IsInjective(fields'[u])
    BY <1>3, <1>11, <1>s DEF NoneTwice
  <2>2. PICK new : new = Pushed(x, none)
    OBVIOUS
  <2>3. x \in Activity /\ Replaces(t, new) /\ none \in Seq(Nat)
    BY <1>2, <2>2 DEF Advances, Activity
  <2>4. new \in Seq(Activity) /\ Len(new) = 1 /\ new[1] = x
    BY <1>1, <2>2, <2>3, PushedIs
  <2>5. \A j \in 1..Len(new) : Apart(Lists(new[j]))
    BY <1>7, <2>4
  <2> QED
    BY <1>s, <2>1, <2>3, <2>4, <2>5, ApartStep
<1> QED
  BY <1>16, <1>17 DEF Ownership

\* Every step keeps every value in one place.
LEMMA OwnershipStep ==
  ASSUME CleanupAssumption, CleanupShape, Ownership, [CleanupNext]_cleanupVars
  PROVE  Ownership'
<1>1. ASSUME work' = work, gone' = gone, fields' = fields, Len(kind') = Len(kind)
      PROVE  Ownership'
  <2>1. Values' = Values /\ Present' = Present
    BY <1>1 DEF Values, Present
  <2>2. /\ \A t, i : Stack(t, i)' = Stack(t, i)
        /\ \A u : FieldsOf(u)' = FieldsOf(u)
    BY <1>1, <2>1 DEF Stack, FieldsOf
  <2>3. Divided'
    BY <2>1, <2>2 DEF Ownership, Divided
  <2>4. NoneTwice'
    BY <1>1, <2>1 DEF Ownership, NoneTwice
  <2> QED
    BY <2>3, <2>4 DEF Ownership
<1>2. ASSUME NEW t \in Tasks, work[t] # <<>>, \E x, values : Moves(t, x, values),
             gone' = gone, kind' = kind, fields' = fields
      PROVE  Ownership'
  BY <1>2, MovesStep
<1>3. ASSUME NEW t \in Tasks, Progress(t)
      PROVE  Ownership'
  <2>1. CASE Reported(t)
    <3>1. work[t] # <<>> /\ gone' = gone /\ kind' = kind /\ fields' = fields
      BY <2>1 DEF Reported, Executes, history
    <3> QED
      BY <1>2, <2>1, <3>1, FailMoves
  <2>2. CASE Unwind(t)
    <3>1. work[t] # <<>> /\ gone' = gone /\ kind' = kind /\ fields' = fields
      BY <2>2 DEF Unwind, Executes
    <3> QED
      BY <1>2, <2>2, <3>1, UnwindMoves
  <2>3. CASE Unwound(t)
    <3>1. work[t] # <<>> /\ gone' = gone /\ kind' = kind /\ fields' = fields
      BY <2>3 DEF Unwound, Executes, history
    <3> QED
      BY <1>2, <2>3, <3>1, UnwoundMoves
  <2>4. CASE Take(t) /\ ~Sent(t)
    <3>1. work[t] # <<>> /\ kind' = kind /\ fields' = fields
      BY <2>4 DEF Take, Executes
    <3>2. gone' = gone
      BY <2>4, TakeForm
    <3> QED
      BY <1>2, <2>4, <3>1, <3>2, UnwoundMoves
  <2>5. CASE Take(t) /\ Sent(t)
    BY <2>5, SentOwnership
  <2>6. CASE End(t) \/ Released(t)
    BY <2>6, PopOwnership
  <2>7. CASE Deinit(t)
    BY <2>7, DeinitOwnership
  <2>8. CASE Abandon(t) \/ ReleaseHandle(t)
    BY <2>8, ShortenOwnership
  <2>9. CASE Leave(t)
    BY <1>1, <2>9 DEF Leave
  <2> QED
    BY <1>3, <2>1, <2>2, <2>3, <2>4, <2>5, <2>6, <2>7, <2>8, <2>9 DEF Progress
<1>4. ASSUME NEW t \in Tasks, Chosen(t)
      PROVE  Ownership'
  <2>1. ASSUME NEW k \in Kinds, NEW i \in 1..MaxValues, Make(t, k, i)
        PROVE  Ownership'
    BY <2>1, MakeOwnership
  <2>2. ASSUME NEW i \in 1..MaxValues, DropRegister(t, i)
        PROVE  Ownership'
    <3>1. work[t] # <<>> /\ gone' = gone /\ kind' = kind /\ fields' = fields
      BY <2>2 DEF DropRegister, Instruction, Executes, history
    <3> QED
      BY <1>2, <2>2, <3>1, DropRegisterMoves
  <2>3. ASSUME NEW i \in 1..MaxValues, Call(t, i)
        PROVE  Ownership'
    <3>1. work[t] # <<>> /\ gone' = gone /\ kind' = kind /\ fields' = fields
      BY <2>3 DEF Call, Instruction, Executes, history
    <3> QED
      BY <1>2, <2>3, <3>1, CallMoves
  <2>4. ASSUME NEW results, Return(t, results)
        PROVE  Ownership'
    <3>1. work[t] # <<>> /\ gone' = gone /\ kind' = kind /\ fields' = fields
      BY <2>4 DEF Return, Instruction, Executes
    <3> QED
      BY <1>2, <2>4, <3>1, ReturnMoves
  <2>5. CASE Fail(t)
    <3>1. work[t] # <<>> /\ gone' = gone /\ kind' = kind /\ fields' = fields
      BY <2>5 DEF Fail, Instruction, Executes, history
    <3> QED
      BY <1>2, <2>5, <3>1, FailMoves
  <2>6. CASE Complete(t)
    <3>1. kind \in Seq(Kinds \cup {"owned"})
      BY DEF CleanupShape, ValuesOK
    <3>2. work' = work /\ gone' = gone /\ fields' = fields
      BY <2>6 DEF Complete
    <3>3. \E v : kind' = [kind EXCEPT ![v] = "owned"]
      BY <2>6 DEF Complete
    <3>4. Len(kind') = Len(kind)
      BY <3>1, <3>3
    <3> QED
      BY <1>1, <3>2, <3>4
  <2>7. CASE Await(t)
    BY <1>1, <2>7 DEF Await
  <2> QED
    BY <1>4, <2>1, <2>2, <2>3, <2>4, <2>5, <2>6, <2>7 DEF Chosen
<1>5. ASSUME NEW t \in Tasks, NEW w \in Workers, Execute(t, w) \/ Discard(t, w) \/ Resume(t, w)
      PROVE  Ownership'
  <2>1. CASE Resume(t, w)
    BY <1>1, <2>1 DEF Resume
  <2> QED
    BY <1>5, <2>1, ExecuteOwnership, DiscardOwnership
<1> QED
  BY <1>1, <1>3, <1>4, <1>5 DEF CleanupNext, cleanupVars
-----------------------------------------------------------------------------
(***************************************************************************)
(* What is known of each value.                                            *)
(***************************************************************************)
Known == ValuesOK /\ DeinitsCounted

\* Nothing new is known of values that leave.
LEMMA KnownSame ==
  ASSUME Known, kind' = kind, fields' = fields, deinits' = deinits, order' = order,
         gone \subseteq gone', gone' \subseteq Values
  PROVE  Known'
<1>1. Values' = Values
  BY DEF Values
<1>2. ValuesOK'
  BY <1>1 DEF Known, ValuesOK
<1>3. DeinitsCounted'
  BY <1>1 DEF Known, DeinitsCounted
<1> QED
  BY <1>2, <1>3 DEF Known

\* A new value owns older ones, and its deinit was not called.
LEMMA KnownCreated ==
  ASSUME Known, NEW k \in Kinds \cup {"owned"}, NEW values \in Seq(Nat),
         Range(values) \subseteq Values, k = "handle" => values = <<>>,
         kind' = Append(kind, k), fields' = Append(fields, values), deinits' = Append(deinits, 0),
         gone' = gone, order' = order
  PROVE  Known'
<1>1. PICK N : N = Len(kind) + 1
  OBVIOUS
<1>2. ValuesOK /\ DeinitsCounted
  BY DEF Known
<1>3. Creation(N, k, values)
  BY <1>1, <1>2, Created
<1>4. /\ N \in Nat /\ N \notin Values /\ Values' = Values \cup {N}
      /\ fields'[N] = values /\ \A u \in Values : fields'[u] = fields[u]
      /\ kind'[N] = k /\ \A u \in Values : kind'[u] = kind[u]
      /\ Len(kind') = N /\ Len(fields') = N
  BY <1>3 DEF Creation
<1>5. /\ Len(kind) \in Nat /\ Len(deinits) = Len(kind) /\ deinits \in Seq(Nat)
      /\ kind \in Seq(Kinds \cup {"owned"}) /\ fields \in Seq(Seq(Nat))
  BY <1>2, LenProperties DEF ValuesOK
<1>6. /\ deinits' \in Seq(Nat) /\ Len(deinits') = N /\ deinits'[N] = 0
      /\ \A u \in Values : deinits'[u] = deinits[u]
  BY <1>1, <1>5 DEF Values
<1>7. kind' \in Seq(Kinds \cup {"owned"}) /\ fields' \in Seq(Seq(Nat))
  BY <1>5
<1>8. \A x \in Values : x \in Nat /\ x < N
  BY <1>1, <1>5 DEF Values
<1>9. ASSUME NEW v \in Values'
      PROVE  /\ \A x \in Range(fields'[v]) : x \in Nat /\ x < v
             /\ kind'[v] = "handle" => fields'[v] = <<>>
  <2>1. CASE v = N
    BY <1>4, <1>8, <2>1
  <2>2. CASE v \in Values
    BY <1>2, <1>4, <2>2 DEF ValuesOK
  <2> QED
    BY <1>4, <2>1, <2>2
<1>10. ValuesOK'
  <2>1. gone' \subseteq Values' /\ order' \in Seq(Nat) /\ Range(order') \subseteq gone'
    BY <1>2, <1>4 DEF ValuesOK
  <2> QED
    BY <1>4, <1>6, <1>7, <1>9, <2>1 DEF ValuesOK
<1>11. DeinitsCounted'
  BY <1>2, <1>4, <1>6 DEF DeinitsCounted
<1> QED
  BY <1>10, <1>11 DEF Known

\* Completing a record leaves its deinit to be called.
LEMMA KnownCompleted ==
  ASSUME Known, NEW v \in Values, kind[v] = "partial", kind' = [kind EXCEPT ![v] = "owned"],
         fields' = fields, deinits' = deinits, order' = order, gone' = gone
  PROVE  Known'
<1>1. ValuesOK /\ DeinitsCounted /\ kind \in Seq(Kinds \cup {"owned"})
  BY DEF Known, ValuesOK
<1>2. /\ kind' \in Seq(Kinds \cup {"owned"}) /\ Len(kind') = Len(kind)
      /\ kind'[v] = "owned" /\ \A u \in Values : u # v => kind'[u] = kind[u]
  <2>1. DOMAIN kind = 1..Len(kind) /\ "owned" \in Kinds \cup {"owned"}
    BY <1>1
  <2> QED
    BY <1>1, <2>1 DEF Values
<1>3. Values' = Values
  BY <1>2 DEF Values
<1>4. ASSUME NEW u \in Values
      PROVE  kind'[u] = "handle" => kind[u] = "handle"
  BY <1>2
<1>5. ValuesOK'
  <2>1. ASSUME NEW u \in Values
        PROVE  /\ \A x \in Range(fields[u]) : x \in Nat /\ x < u
               /\ kind'[u] = "handle" => fields[u] = <<>>
    BY <1>1, <1>4 DEF ValuesOK
  <2> QED
    BY <1>1, <1>2, <1>3, <2>1 DEF ValuesOK
<1>6. DeinitsCounted'
  <2>1. deinits[v] = 0
    BY <1>1 DEF DeinitsCounted
  <2> QED
    BY <1>1, <1>2, <1>3, <2>1 DEF DeinitsCounted
<1> QED
  BY <1>5, <1>6 DEF Known

\* A deinit is called when its value leaves.
LEMMA KnownDeinit ==
  ASSUME Known, NEW v \in Present, kind[v] = "owned", kind' = kind, fields' = fields,
         deinits' = [deinits EXCEPT ![v] = @ + 1], gone' = gone \cup {v},
         order' = Append(order, v)
  PROVE  Known'
<1>1. ValuesOK /\ DeinitsCounted /\ v \in Values /\ v \notin gone /\ v \in Nat
  BY DEF Known, Present, Values
<1>2. Values' = Values /\ Values = 1..Len(kind)
  BY DEF Values
<1>3. deinits[v] = 0
  BY <1>1 DEF DeinitsCounted
<1>4. /\ deinits' \in Seq(Nat) /\ Len(deinits') = Len(deinits) /\ deinits'[v] = 1
      /\ \A u \in Values : u # v => deinits'[u] = deinits[u]
  <2>1. deinits \in Seq(Nat) /\ Len(deinits) = Len(kind)
    BY <1>1 DEF ValuesOK
  <2>2. DOMAIN deinits = Values
    BY <1>2, <2>1
  <2>3. deinits' = [deinits EXCEPT ![v] = 1]
    BY <1>3
  <2> QED
    BY <1>1, <2>1, <2>2, <2>3
<1>5. order' \in Seq(Nat) /\ Range(order') = Range(order) \cup {v}
  <2>1. order \in Seq(Nat)
    BY <1>1 DEF ValuesOK
  <2>2. Append(order, v) \in Seq(Nat) /\ Range(Append(order, v)) = Range(order) \cup {v}
    BY <1>1, <2>1, Appended
  <2> QED
    BY <2>2
<1>6. ValuesOK'
  <2>1. gone' \subseteq Values' /\ Range(order') \subseteq gone'
    BY <1>1, <1>2, <1>5 DEF ValuesOK
  <2> QED
    BY <1>1, <1>2, <1>4, <1>5, <2>1 DEF ValuesOK
<1>7. DeinitsCounted'
  BY <1>1, <1>2, <1>4 DEF DeinitsCounted
<1> QED
  BY <1>6, <1>7 DEF Known

\* Every step counts deinits.
LEMMA KnownStep ==
  ASSUME CleanupAssumption, CleanupShape, Ownership, Known, [CleanupNext]_cleanupVars
  PROVE  Known'
<1>1. gone \subseteq Values /\ Present \subseteq Values /\ Divided
  BY DEF CleanupShape, ValuesOK, Present, Ownership
<1>2. ASSUME UNCHANGED <<kind, fields, deinits, order, gone>>
      PROVE  Known'
  BY <1>1, <1>2, KnownSame
<1>3. ASSUME NEW t \in Tasks, Progress(t)
      PROVE  Known'
  <2>1. CASE Reported(t) \/ Unwind(t) \/ Unwound(t) \/ End(t) \/ Released(t) \/ Leave(t)
    BY <1>2, <2>1 DEF Reported, Unwind, Unwound, End, Released, Leave, history
  <2>2. CASE Take(t)
    <3>1. kind' = kind /\ fields' = fields /\ deinits' = deinits /\ order' = order
      BY <2>2 DEF Take, history
    <3>2. gone' = gone \cup IF Sent(t) THEN Subvalues(Top(t).owned) ELSE {}
      BY <2>2, TakeForm
    <3>3. Subvalues(Top(t).owned) \subseteq Values
      BY DEF Subvalues
    <3> QED
      BY <1>1, <3>1, <3>2, <3>3, KnownSame
  <2>3. CASE Deinit(t)
    <3>1. /\ Doing(t, "drop") /\ Top(t).values # <<>> /\ kind[Value(t)] = "owned"
          /\ deinits' = [deinits EXCEPT ![Value(t)] = @ + 1]
          /\ gone' = gone \cup {Value(t)} /\ order' = Append(order, Value(t))
      BY <1>1, <2>3, DeinitForm
    <3>2. Value(t) \in Present
      BY <1>1, <3>1, ValueIs
    <3>3. kind' = kind /\ fields' = fields
      BY <2>3 DEF Deinit
    <3> QED
      BY <3>1, <3>2, <3>3, KnownDeinit
  <2>4. CASE Abandon(t) \/ ReleaseHandle(t)
    <3>1. /\ Doing(t, "drop") /\ Top(t).values # <<>> /\ gone' = gone \cup {Value(t)}
      BY <1>1, <2>4, ShortenForm
    <3>2. Value(t) \in Values
      BY <1>1, <3>1, ValueIs
    <3>3. kind' = kind /\ fields' = fields /\ deinits' = deinits /\ order' = order
      BY <2>4 DEF Abandon, ReleaseHandle, history
    <3> QED
      BY <1>1, <3>1, <3>2, <3>3, KnownSame
  <2> QED
    BY <1>3, <2>1, <2>2, <2>3, <2>4 DEF Progress
<1>4. ASSUME NEW t \in Tasks, Chosen(t)
      PROVE  Known'
  <2>1. ASSUME NEW k \in Kinds, NEW i \in 1..MaxValues, Make(t, k, i)
        PROVE  Known'
    <3>1. PICK r, right : r = Registers(t) /\ right = SubSeq(r, i, Len(r))
      OBVIOUS
    <3>2. /\ Executes(t, "loop") /\ i \in 1..Len(r) + 1 /\ Top(t).frames # <<>>
      BY <2>1, <3>1, MakeForm
    <3>3. /\ r \in Seq(Nat) /\ Range(r) \subseteq AllOf(Lists(Top(t)))
      BY <3>1, <3>2, TopHolds
    <3>4. right \in Seq(Nat) /\ Range(right) \subseteq Range(r)
      BY <3>1, <3>2, <3>3, Cut
    <3>5. Range(right) \subseteq Present
      <4>1. /\ Below(t) + 1 \in DOMAIN work[t] /\ work[t][Below(t) + 1] = Top(t)
            /\ Below(t) \in Nat
        BY <3>2, TopExecution
      <4>2. Stack(t, Below(t) + 1) = AllOf(Lists(Top(t))) /\ Below(t) + 1 \in Nat
        BY <4>1 DEF Stack
      <4> QED
        BY <1>1, <3>3, <3>4, <4>2 DEF Divided
    <3>6. /\ kind' = Append(kind, k) /\ fields' = Append(fields, right)
          /\ deinits' = Append(deinits, 0) /\ gone' = gone /\ order' = order
      BY <2>1, <3>1 DEF Make
    <3>7. k = "handle" => right = <<>>
      <4>1. k = "handle" => i = Len(r) + 1
        BY <2>1, <3>1 DEF Make
      <4>2. ASSUME i = Len(r) + 1
            PROVE  right = <<>>
        <5>1. Len(r) \in Nat /\ Len(r) < i
          BY <3>3, <4>2
        <5>2. SubSeq(r, i, Len(r)) = <<>>
          BY <3>3, <5>1
        <5> QED
          BY <3>1, <5>2
      <4> QED
        BY <4>1, <4>2
    <3> QED
      BY <1>1, <3>4, <3>5, <3>6, <3>7, KnownCreated
  <2>2. CASE Complete(t)
    <3>1. Executes(t, "loop")
      BY <2>2 DEF Complete, Instruction
    <3>2. Top(t).frames # <<>>
      BY <3>1, TopExecution DEF Proper
    <3>3. Registers(t) \in Seq(Nat) /\ Range(Registers(t)) \subseteq AllOf(Lists(Top(t)))
      BY <3>1, <3>2, TopHolds
    <3>4. /\ Below(t) + 1 \in DOMAIN work[t] /\ work[t][Below(t) + 1] = Top(t)
          /\ Below(t) \in Nat
      BY <3>1, TopExecution
    <3>5. Stack(t, Below(t) + 1) = AllOf(Lists(Top(t))) /\ Below(t) + 1 \in Nat
      BY <3>4 DEF Stack
    <3>6. Range(Registers(t)) \subseteq Values
      BY <1>1, <3>3, <3>5 DEF Divided
    <3>7. PICK v \in Range(Registers(t)) :
            kind[v] = "partial" /\ kind' = [kind EXCEPT ![v] = "owned"]
      BY <2>2 DEF Complete
    <3>8. fields' = fields /\ deinits' = deinits /\ order' = order /\ gone' = gone
      BY <2>2 DEF Complete, history
    <3> QED
      BY <3>6, <3>7, <3>8, KnownCompleted
  <2>3. ASSUME \/ \E i \in 1..MaxValues : DropRegister(t, i) \/ Call(t, i)
               \/ \E results \in {<<>>} \cup {<<v>> : v \in Values} : Return(t, results)
               \/ Fail(t) \/ Await(t)
        PROVE  Known'
    BY <1>2, <2>3 DEF DropRegister, Call, Return, Fail, Await, history
  <2> QED
    BY <1>4, <2>1, <2>2, <2>3 DEF Chosen
<1>5. ASSUME NEW t \in Tasks, NEW w \in Workers, Execute(t, w) \/ Discard(t, w) \/ Resume(t, w)
      PROVE  Known'
  <2>1. CASE Execute(t, w) \/ Resume(t, w)
    BY <1>2, <2>1 DEF Execute, Resume, Begin, history
  <2>2. CASE Discard(t, w)
    <3>1. /\ kind' = Append(kind, "owned") /\ fields' = Append(fields, <<>>)
          /\ deinits' = Append(deinits, 0) /\ gone' = gone /\ order' = order
      BY <2>2 DEF Discard, Begin
    <3> QED
      BY <3>1, NoValues, KnownCreated
  <2> QED
    BY <1>5, <2>1, <2>2
<1> QED
  BY <1>2, <1>3, <1>4, <1>5 DEF CleanupNext, cleanupVars
-----------------------------------------------------------------------------
(***************************************************************************)
(* The order of deinit.                                                    *)
(***************************************************************************)
Teardown == TornInOrder /\ ReverseOrder

\* Two values that wait in order go on waiting in order.
LEMMA WaitingStep ==
  ASSUME StacksOK, NEW t \in Tasks, NEW new \in Seq(Activity), Replaces(t, new),
         NEW x, NEW y, Waiting(x, y),
         work[t] # <<>> /\ Top(t).role = "drop" /\ InOrder(Top(t).values, x, y) =>
           Len(new) >= 1 /\ new[1].role = "drop" /\ InOrder(new[1].values, x, y)
  PROVE  Waiting(x, y)'
<1>b. Below(t) \in Nat
  BY Stacked
<1>m. PICK m \in Nat : m = Below(t)
  BY <1>b
<1>1. /\ work[t] # <<>> => DOMAIN work[t] = 1..m + 1 /\ Top(t) = work[t][m + 1]
      /\ \A u \in Tasks \ {t} : work'[u] = work[u]
      /\ Len(new) \in Nat /\ DOMAIN work'[t] = 1..m + Len(new)
      /\ \A i \in 1..m : work'[t][i] = work[t][i] /\ i \in DOMAIN work[t]
      /\ \A j \in 1..Len(new) : work'[t][m + j] = new[j]
  BY <1>m, Stacked
<1>u. PICK u \in Tasks : \E i \in DOMAIN work[u] :
        work[u][i].role = "drop" /\ InOrder(work[u][i].values, x, y)
  BY DEF Waiting
<1>2. PICK i \in DOMAIN work[u] :
        work[u][i].role = "drop" /\ InOrder(work[u][i].values, x, y)
  BY <1>u
<1>3. CASE u # t
  <2>1. work'[u] = work[u]
    BY <1>1, <1>3
  <2> QED
    BY <1>2, <2>1 DEF Waiting, InOrder
<1>4. CASE u = t
  <2>1. work[t] # <<>> /\ i \in 1..m + 1
    BY <1>1, <1>2, <1>4
  <2>2. CASE i \in 1..m
    <3>1. work'[t][i] = work[t][i] /\ i \in DOMAIN work'[t]
      BY <1>1, <2>2
    <3> QED
      BY <1>2, <1>4, <3>1 DEF Waiting, InOrder
  <2>3. CASE i = m + 1
    <3>1. Len(new) >= 1 /\ new[1].role = "drop" /\ InOrder(new[1].values, x, y)
      BY <1>1, <1>2, <1>4, <2>1, <2>3
    <3>2. m + 1 \in DOMAIN work'[t] /\ work'[t][m + 1] = new[1]
      BY <1>1, <3>1
    <3> QED
      BY <3>1, <3>2 DEF Waiting, InOrder
  <2> QED
    BY <2>1, <2>2, <2>3
<1> QED
  BY <1>3, <1>4

\* Nothing begins its deinit; at most one frame is torn down.
LEMMA TeardownStep ==
  ASSUME ValuesOK, Teardown, gone \subseteq gone', Values \subseteq Values',
         \A u \in Values : fields'[u] = fields[u], order' = order,
         \A x, y : y \in Present' /\ Waiting(x, y) => Waiting(x, y)',
         NEW kept, torn' = torn \/ torn' = torn \cup {kept},
         torn' # torn =>
           /\ kept \in Seq(Nat) /\ Range(kept) \subseteq Present
           /\ \A k, l \in DOMAIN kept : k < l => Waiting(kept[k], kept[l])'
  PROVE  Teardown'
<1>1. TornInOrder'
  <2>1. ASSUME NEW s \in torn
        PROVE  /\ s \in Seq(Nat) /\ Range(s) \subseteq Values'
               /\ \A k, l \in DOMAIN s : k < l /\ s[l] \in Present' => Waiting(s[k], s[l])'
    <3>1. s \in Seq(Nat) /\ Range(s) \subseteq Values
      BY <2>1 DEF Teardown, TornInOrder
    <3>2. ASSUME NEW k \in DOMAIN s, NEW l \in DOMAIN s, k < l, s[l] \in Present'
          PROVE  Waiting(s[k], s[l])'
      <4>1. s[l] \in Values
        BY <3>1 DEF Range
      <4>2. s[l] \in Present
        BY <3>2, <4>1 DEF Present
      <4>3. Waiting(s[k], s[l])
        BY <2>1, <3>2, <4>2 DEF Teardown, TornInOrder
      <4> QED
        BY <3>2, <4>3
    <3> QED
      BY <3>1, <3>2
  <2>2. CASE torn' = torn
    BY <2>1, <2>2 DEF TornInOrder
  <2>3. CASE torn' # torn
    <3>1. torn' = torn \cup {kept} /\ Range(kept) \subseteq Values'
      BY <2>3 DEF Present
    <3> QED
      BY <2>1, <2>3, <3>1 DEF TornInOrder
  <2> QED
    BY <2>2, <2>3
<1>2. ReverseOrder'
  <2> SUFFICES ASSUME NEW i \in DOMAIN order, NEW j \in DOMAIN order, i < j
               PROVE  /\ ~ order[i] \in Range(fields'[order[j]])
                      /\ \A s \in torn' : \A k, l \in DOMAIN s :
                           s[k] = order[i] /\ s[l] = order[j] => k > l
    BY DEF ReverseOrder
  <2>1. order[i] \in gone /\ order[j] \in gone /\ gone \subseteq Values
    BY DEF ValuesOK, Range
  <2>2. ~ order[i] \in Range(fields'[order[j]])
    BY <2>1 DEF Teardown, ReverseOrder
  <2>3. ASSUME NEW s \in torn, NEW k \in DOMAIN s, NEW l \in DOMAIN s,
               s[k] = order[i], s[l] = order[j]
        PROVE  k > l
    BY <2>3 DEF Teardown, ReverseOrder
  <2>4. ASSUME torn' # torn, NEW k \in DOMAIN kept, kept[k] = order[i]
        PROVE  FALSE
    BY <2>1, <2>4 DEF Range, Present
  <2> QED
    BY <2>2, <2>3, <2>4
<1> QED
  BY <1>1, <1>2 DEF Teardown

\* A step of an execution, which may tear a frame down.
LEMMA AdvanceTeardown ==
  ASSUME CleanupShape, Ownership, Teardown, NEW t \in Tasks, NEW at, Executes(t, at),
         NEW x, NEW values, Advances(t, x, values),
         gone \subseteq gone', Values \subseteq Values',
         \A u \in Values : fields'[u] = fields[u], order' = order,
         torn' = torn \/ (torn' = torn \cup {values} /\ Range(values) \subseteq Present)
  PROVE  Teardown'
<1>1. x \in Activity /\ values \in Seq(Nat) /\ Replaces(t, Pushed(x, values))
  BY DEF Advances, Activity
<1>2. PICK new : new = Pushed(x, values)
  OBVIOUS
<1>3. /\ new \in Seq(Activity) /\ Len(new) = (IF values = <<>> THEN 1 ELSE 2) /\ new[1] = x
      /\ values # <<>> => new[2] = Releasing(values)
  BY <1>1, <1>2, PushedIs
<1>4. Replaces(t, new) /\ StacksOK /\ ValuesOK /\ Top(t).role # "drop"
  BY <1>1, <1>2, TopExecution DEF CleanupShape
<1>5. \A a, b : Waiting(a, b) => Waiting(a, b)'
  BY <1>3, <1>4, WaitingStep
<1>6. ASSUME NEW k \in DOMAIN values, NEW l \in DOMAIN values, k < l
      PROVE  Waiting(values[k], values[l])'
  <2>b. Below(t) \in Nat
    BY TopExecution
  <2>m. PICK m \in Nat : m = Below(t)
    BY <2>b
  <2>1. DOMAIN work'[t] = 1..m + Len(new) /\ \A j \in 1..Len(new) : work'[t][m + j] = new[j]
    BY <1>3, <1>4, <2>m, Stacked
  <2>2. values # <<>>
    BY <1>6
  <2>3. Len(new) = 2 /\ new[2].role = "drop" /\ new[2].values = values
    BY <1>1, <1>3, <2>2, ReleaseProper
  <2>4. m + 2 \in DOMAIN work'[t] /\ work'[t][m + 2] = new[2]
    BY <2>1, <2>3
  <2>5. InOrder(values, values[k], values[l])
    BY <1>6 DEF InOrder
  <2> QED
    BY <2>3, <2>4, <2>5 DEF Waiting, InOrder
<1> QED
  BY <1>1, <1>4, <1>5, <1>6, TeardownStep
\* The top becomes one other activity, or none.
LEMMA QuietTeardown ==
  ASSUME CleanupShape, Teardown, NEW t \in Tasks, NEW new \in Seq(Activity), Replaces(t, new),
         gone \subseteq gone', Values \subseteq Values',
         \A u \in Values : fields'[u] = fields[u], order' = order, torn' = torn,
         \A x, y : y \in Present' /\ work[t] # <<>> /\ Top(t).role = "drop"
                     /\ InOrder(Top(t).values, x, y) =>
                       Len(new) >= 1 /\ new[1].role = "drop" /\ InOrder(new[1].values, x, y)
  PROVE  Teardown'
<1>1. StacksOK /\ ValuesOK
  BY DEF CleanupShape
<1>2. \A x, y : y \in Present' /\ Waiting(x, y) => Waiting(x, y)'
  BY <1>1, WaitingStep
<1> QED
  BY <1>1, <1>2, TeardownStep

\* A list without its last member, perhaps with more at its end.
LEMMA StillInOrder ==
  ASSUME NEW rest \in Seq(Nat), NEW v \in Nat, NEW more \in Seq(Nat), NEW x, NEW y, y # v,
         InOrder(Append(rest, v), x, y)
  PROVE  InOrder(rest \o more, x, y)
<1>1. /\ Len(rest) \in Nat /\ DOMAIN Append(rest, v) = 1..Len(rest) + 1
      /\ Append(rest, v)[Len(rest) + 1] = v
      /\ \A i \in 1..Len(rest) : Append(rest, v)[i] = rest[i]
  BY AppendProperties, LenProperties
<1>2. /\ \A i \in 1..Len(rest) : i \in DOMAIN (rest \o more) /\ (rest \o more)[i] = rest[i]
  BY LenProperties, ConcatProperties
<1>3. PICK p \in DOMAIN Append(rest, v) : \E q \in DOMAIN Append(rest, v) :
        p < q /\ Append(rest, v)[p] = x /\ Append(rest, v)[q] = y
  BY DEF InOrder
<1>4. PICK q \in DOMAIN Append(rest, v) :
        p < q /\ Append(rest, v)[p] = x /\ Append(rest, v)[q] = y
  BY <1>3
<1>5. q # Len(rest) + 1
  BY <1>1, <1>4
<1>6. q \in 1..Len(rest) /\ p \in 1..Len(rest)
  BY <1>1, <1>3, <1>4, <1>5
<1>7. rest[p] = x /\ rest[q] = y
  BY <1>1, <1>4, <1>6
<1> QED
  BY <1>2, <1>4, <1>6, <1>7 DEF InOrder

\* A deinit begins for the last value of its list.
LEMMA DeinitTeardown ==
  ASSUME CleanupShape, Ownership, Teardown, NEW t \in Tasks, Deinit(t)
  PROVE  Teardown'
<1>1. PICK v, rest, a, b, new :
        /\ v = Value(t) /\ rest = Rest(t) /\ a = Releasing(Rest(t))
        /\ b = Started(fields[Value(t)], Pending(t)) /\ new = <<a, b>>
  OBVIOUS
<1>d. Divided
  BY DEF Ownership
<1>2. /\ Doing(t, "drop") /\ Top(t).values # <<>> /\ new \in Seq(Activity) /\ Replaces(t, new)
      /\ gone' = gone \cup {v} /\ order' = Append(order, v)
  BY <1>1, <1>d, DeinitForm
<1>3. torn' = torn /\ kind' = kind /\ fields' = fields
  BY DEF Deinit
<1>4. /\ v \in Present /\ v \in Nat /\ v \notin gone /\ rest \in Seq(Nat)
      /\ Top(t).values = Append(rest, v) /\ FieldsOf(v) = Range(fields[v])
  BY <1>1, <1>2, <1>d, ValueIs
<1>5. StacksOK /\ ValuesOK
  BY DEF CleanupShape
<1>6. Len(new) >= 1 /\ new[1].role = "drop" /\ new[1].values = rest
  BY <1>1, <1>4, ReleaseProper
<1>7. Values' = Values /\ Present' = Present \ {v}
  BY <1>2, <1>3 DEF Values, Present
<1>8. ASSUME NEW x, NEW y, y \in Present', Waiting(x, y)
      PROVE  Waiting(x, y)'
  <2>1. ASSUME InOrder(Top(t).values, x, y)
        PROVE  InOrder(new[1].values, x, y)
    <3>1. PICK more : more = <<>>
      OBVIOUS
    <3>2. more \in Seq(Nat) /\ rest \o more = rest
      BY <1>4, <3>1, ConcatEmptySeq
    <3>3. InOrder(rest \o more, x, y)
      BY <1>4, <1>7, <1>8, <2>1, <3>2, StillInOrder
    <3> QED
      BY <1>6, <3>2, <3>3
  <2> QED
    BY <1>2, <1>5, <1>6, <1>8, <2>1, WaitingStep
<1>9. TornInOrder'
  BY <1>3, <1>7, <1>8 DEF Teardown, TornInOrder
<1>10. ReverseOrder'
  <2>1. /\ Len(order) \in Nat /\ DOMAIN order' = 1..Len(order) + 1 /\ DOMAIN order = 1..Len(order)
        /\ order'[Len(order) + 1] = v /\ \A i \in 1..Len(order) : order'[i] = order[i]
    <3>1. order \in Seq(Nat)
      BY <1>5 DEF ValuesOK
    <3> QED
      BY <1>2, <1>4, <3>1, AppendProperties, LenProperties
  <2> SUFFICES ASSUME NEW i \in 1..Len(order) + 1, NEW j \in 1..Len(order) + 1, i < j
               PROVE  /\ ~ order'[i] \in Range(fields[order'[j]])
                      /\ \A s \in torn : \A k, l \in DOMAIN s :
                           s[k] = order'[i] /\ s[l] = order'[j] => k > l
    BY <1>3, <2>1 DEF ReverseOrder
  <2>2. i \in 1..Len(order) /\ order'[i] = order[i] /\ order[i] \in gone
    <3>1. i \in 1..Len(order)
      BY <2>1
    <3> QED
      BY <1>5, <2>1, <3>1 DEF ValuesOK, Range
  <2>3. CASE j \in 1..Len(order)
    BY <2>1, <2>2, <2>3 DEF Teardown, ReverseOrder
  <2>4. CASE j = Len(order) + 1
    <3>1. order'[j] = v
      BY <2>1, <2>4
    <3>2. ~ order'[i] \in Range(fields[v])
      BY <1>4, <1>d, <2>2 DEF Divided, Present
    <3>3. ASSUME NEW s \in torn, NEW k \in DOMAIN s, NEW l \in DOMAIN s,
                 s[k] = order[i], s[l] = v
          PROVE  k > l
      <4>1. k # l
        BY <1>4, <2>2, <3>3
      <4>2. ASSUME k < l
            PROVE  FALSE
        <5>1. Waiting(order[i], v)
          BY <1>4, <3>3, <4>2 DEF Teardown, TornInOrder
        <5>2. PICK u \in Tasks : \E g \in DOMAIN work[u] :
                work[u][g].role = "drop" /\ InOrder(work[u][g].values, order[i], v)
          BY <5>1 DEF Waiting
        <5>3. PICK g \in DOMAIN work[u] :
                work[u][g].role = "drop" /\ InOrder(work[u][g].values, order[i], v)
          BY <5>2
        <5>4. order[i] \in Range(work[u][g].values)
          BY <5>3 DEF InOrder, Range
        <5>5. Stack(u, g) = Range(work[u][g].values)
          BY <5>3, NoLists DEF Stack, Lists
        <5>6. g \in Nat
          BY <1>5, <5>3 DEF StacksOK
        <5> QED
          BY <1>d, <2>2, <5>4, <5>5, <5>6 DEF Divided, Present
      <4>3. k \in Nat /\ l \in Nat
        BY <3>3 DEF Teardown, TornInOrder
      <4> QED
        BY <4>1, <4>2, <4>3
    <3> QED
      BY <2>2, <3>1, <3>2, <3>3
  <2> QED
    BY <2>1, <2>3, <2>4
<1> QED
  BY <1>9, <1>10 DEF Teardown

\* The last value of a list leaves it without a deinit.
LEMMA ShortenTeardown ==
  ASSUME CleanupShape, Ownership, Teardown, NEW t \in Tasks, Abandon(t) \/ ReleaseHandle(t)
  PROVE  Teardown'
<1>1. PICK v, rest, more, list, new :
        /\ v = Value(t) /\ rest = Rest(t)
        /\ more = (IF Abandon(t) THEN fields[Value(t)] ELSE <<>>)
        /\ list = rest \o more /\ new = <<Releasing(list)>>
  OBVIOUS
<1>d. Divided
  BY DEF Ownership
<1>2. /\ Doing(t, "drop") /\ Top(t).values # <<>> /\ new \in Seq(Activity) /\ Replaces(t, new)
      /\ more \in Seq(Nat) /\ list \in Seq(Nat) /\ gone' = gone \cup {v}
  BY <1>1, <1>d, ShortenForm
<1>3. torn' = torn /\ kind' = kind /\ fields' = fields /\ order' = order
  BY DEF Abandon, ReleaseHandle, history
<1>4. v \in Nat /\ rest \in Seq(Nat) /\ Top(t).values = Append(rest, v)
  BY <1>1, <1>2, <1>d, ValueIs
<1>5. Len(new) >= 1 /\ new[1].role = "drop" /\ new[1].values = list
  <2>1. Releasing(list).role = "drop" /\ Releasing(list).values = list
    BY <1>2, ReleaseProper
  <2>2. Len(new) = 1 /\ new[1] = Releasing(list)
    BY <1>1
  <2> QED
    BY <2>1, <2>2
<1>6. v \notin Present' /\ Values' = Values
  BY <1>2, <1>3 DEF Present, Values
<1>7. ASSUME NEW x, NEW y, y \in Present', InOrder(Top(t).values, x, y)
      PROVE  InOrder(new[1].values, x, y)
  <2>1. InOrder(rest \o more, x, y)
    BY <1>2, <1>4, <1>6, <1>7, StillInOrder
  <2> QED
    BY <1>1, <1>5, <2>1
<1> QED
  BY <1>2, <1>3, <1>5, <1>6, <1>7, QuietTeardown

\* Every step releases in reverse order.
LEMMA TeardownKept ==
  ASSUME CleanupAssumption, CleanupShape, Ownership, Teardown, [CleanupNext]_cleanupVars
  PROVE  Teardown'
<1>0. /\ StacksOK /\ ValuesOK /\ Divided /\ kind \in Seq(Kinds \cup {"owned"})
      /\ gone \subseteq Values
  BY DEF CleanupShape, ValuesOK, Ownership
<1>1. ASSUME work' = work, gone \subseteq gone', fields' = fields, Values' = Values,
             order' = order, torn' = torn
      PROVE  Teardown'
  <2>1. \A x, y : Waiting(x, y) => Waiting(x, y)'
    BY <1>1 DEF Waiting, InOrder
  <2> QED
    BY <1>0, <1>1, <2>1, TeardownStep
<1>2. ASSUME NEW t \in Tasks, NEW at, Executes(t, at), \E x, values : Advances(t, x, values),
             gone \subseteq gone', kind' = kind, fields' = fields, order' = order, torn' = torn
      PROVE  Teardown'
  <2>1. Values' = Values
    BY <1>2 DEF Values
  <2> QED
    BY <1>2, <2>1, AdvanceTeardown
\* what a frame still holds when it is torn down
<1>3. ASSUME NEW t \in Tasks, NEW at, Executes(t, at), Top(t).frames # <<>>,
             NEW x, NEW values, Advances(t, x, values), Range(values) \subseteq Range(Registers(t)),
             gone' = gone, kind' = kind, fields' = fields, order' = order,
             torn' = torn \cup {values}
      PROVE  Teardown'
  <2>1. Values' = Values
    BY <1>3 DEF Values
  <2>2. Range(Registers(t)) \subseteq AllOf(Lists(Top(t)))
    BY <1>3, TopHolds
  <2>3. /\ Below(t) + 1 \in DOMAIN work[t] /\ work[t][Below(t) + 1] = Top(t)
        /\ Below(t) \in Nat
    BY <1>3, TopExecution
  <2>4. Stack(t, Below(t) + 1) = AllOf(Lists(Top(t))) /\ Below(t) + 1 \in Nat
    BY <2>3 DEF Stack
  <2>5. Range(values) \subseteq Present
    BY <1>0, <1>3, <2>2, <2>4 DEF Divided
  <2> QED
    BY <1>3, <2>1, <2>5, AdvanceTeardown
<1>4. ASSUME NEW t \in Tasks, Progress(t)
      PROVE  Teardown'
  <2>1. CASE Reported(t)
    <3>1. gone' = gone /\ kind' = kind /\ fields' = fields /\ order' = order /\ torn' = torn
      BY <2>1 DEF Reported, history
    <3> QED
      BY <1>2, <2>1, <3>1, ReportedForm
  <2>2. CASE Unwind(t)
    <3>1. /\ gone' = gone /\ kind' = kind /\ fields' = fields /\ order' = order
          /\ torn' = torn \cup {Registers(t)}
      BY <2>2 DEF Unwind
    <3>2. PICK x, values :
            /\ x = Becoming(Top(t), "unwind", Front(Top(t).frames), Top(t).owned, Top(t).result)
            /\ values = Registers(t)
      OBVIOUS
    <3>3. Executes(t, "unwind") /\ Top(t).frames # <<>> /\ Advances(t, x, values)
      BY <2>2, <3>2, UnwindForm
    <3> QED
      BY <1>3, <3>1, <3>2, <3>3
  <2>3. CASE Unwound(t)
    <3>1. gone' = gone /\ kind' = kind /\ fields' = fields /\ order' = order /\ torn' = torn
      BY <2>3 DEF Unwound, history
    <3> QED
      BY <1>2, <2>3, <3>1, UnwoundForm
  <2>4. CASE Take(t)
    <3>1. kind' = kind /\ fields' = fields /\ order' = order /\ torn' = torn
      BY <2>4 DEF Take, history
    <3>2. gone \subseteq gone'
      BY <2>4, TakeForm
    <3> QED
      BY <1>2, <2>4, <3>1, <3>2, TakeForm
  <2>5. CASE End(t) \/ Released(t)
    <3>1. gone' = gone /\ kind' = kind /\ fields' = fields /\ order' = order /\ torn' = torn
      BY <2>5 DEF End, Released, history
    <3>2. PICK new : new = <<>>
      OBVIOUS
    <3>3. new \in Seq(Activity) /\ Replaces(t, new)
      BY <2>5, <3>2, PopForm DEF End, Released
    <3>4. \A x, y : ~(work[t] # <<>> /\ Top(t).role = "drop" /\ InOrder(Top(t).values, x, y))
      <4>1. CASE End(t)
        BY <4>1 DEF End, Executes
      <4>2. CASE Released(t)
        BY <4>2 DEF Released, InOrder
      <4> QED
        BY <2>5, <4>1, <4>2
    <3>5. Values' = Values
      BY <3>1 DEF Values
    <3> QED
      BY <3>1, <3>3, <3>4, <3>5, QuietTeardown
  <2>6. CASE Deinit(t)
    BY <2>6, DeinitTeardown
  <2>7. CASE Abandon(t) \/ ReleaseHandle(t)
    BY <2>7, ShortenTeardown
  <2>8. CASE Leave(t)
    BY <1>1, <2>8 DEF Leave, history, Values
  <2> QED
    BY <1>4, <2>1, <2>2, <2>3, <2>4, <2>5, <2>6, <2>7, <2>8 DEF Progress
<1>5. ASSUME NEW t \in Tasks, Chosen(t)
      PROVE  Teardown'
  <2>1. ASSUME NEW k \in Kinds, NEW i \in 1..MaxValues, Make(t, k, i)
        PROVE  Teardown'
    <3>1. PICK right, N : right = SubSeq(Registers(t), i, Len(Registers(t))) /\ N = Len(kind) + 1
      OBVIOUS
    <3>2. /\ Executes(t, "loop") /\ i \in 1..Len(Registers(t)) + 1 /\ Top(t).frames # <<>>
          /\ \E x, values : Advances(t, x, values)
      BY <2>1, MakeForm
    <3>3. Registers(t) \in Seq(Nat)
      BY <3>2, TopFrame
    <3>4. right \in Seq(Nat)
      BY <3>1, <3>2, <3>3, Cut
    <3>5. /\ kind' = Append(kind, k) /\ fields' = Append(fields, right) /\ gone' = gone
          /\ order' = order /\ torn' = torn
      BY <2>1, <3>1 DEF Make
    <3>6. Values \subseteq Values' /\ \A u \in Values : fields'[u] = fields[u]
      BY <1>0, <3>1, <3>4, <3>5, Created DEF Creation
    <3> QED
      BY <3>2, <3>5, <3>6, AdvanceTeardown
  <2>2. ASSUME NEW i \in 1..MaxValues, DropRegister(t, i)
        PROVE  Teardown'
    <3>1. gone' = gone /\ kind' = kind /\ fields' = fields /\ order' = order /\ torn' = torn
      BY <2>2 DEF DropRegister, history
    <3> QED
      BY <1>2, <2>2, <3>1, DropRegisterForm
  <2>3. ASSUME NEW i \in 1..MaxValues, Call(t, i)
        PROVE  Teardown'
    <3>1. gone' = gone /\ kind' = kind /\ fields' = fields /\ order' = order /\ torn' = torn
      BY <2>3 DEF Call, history
    <3> QED
      BY <1>2, <2>3, <3>1, CallForm
  <2>4. ASSUME NEW results, Return(t, results)
        PROVE  Teardown'
    <3>1. /\ gone' = gone /\ kind' = kind /\ fields' = fields /\ order' = order
      BY <2>4 DEF Return
    <3>2. PICK values, r : values = Leftover(t, results) /\ r = Registers(t)
      OBVIOUS
    <3>3. /\ Executes(t, "loop") /\ Top(t).frames # <<>>
          /\ results = <<>> \/ (r # <<>> /\ results = <<Last(r)>>)
          /\ \E x : Advances(t, x, values)
          /\ torn' = torn \cup {values}
      BY <2>4, <3>2, ReturnForm
    <3>4. r \in Seq(Nat) /\ values = SubSeq(r, 1, Len(r) - Len(results))
      BY <3>2, <3>3, TopFrame DEF Leftover
    <3>5. Range(values) \subseteq Range(r)
      <4>1. results = <<>> \/ (r # <<>> /\ results = <<Last(r)>>)
        BY <3>3
      <4>2. Range(values) \cup Range(results) = Range(r)
        BY <3>4, <4>1, Divides
      <4> QED
        BY <4>2
    <3> QED
      BY <1>3, <3>1, <3>2, <3>3, <3>5
  <2>5. CASE Fail(t)
    <3>1. gone' = gone /\ kind' = kind /\ fields' = fields /\ order' = order /\ torn' = torn
      BY <2>5 DEF Fail, history
    <3> QED
      BY <1>2, <2>5, <3>1, FailForm
  <2>6. CASE Complete(t)
    <3>1. \E v : kind' = [kind EXCEPT ![v] = "owned"]
      BY <2>6 DEF Complete
    <3>2. Len(kind') = Len(kind)
      BY <1>0, <3>1
    <3> QED
      BY <1>1, <2>6, <3>2 DEF Complete, history, Values
  <2>7. CASE Await(t)
    BY <1>1, <2>7 DEF Await, history, Values
  <2> QED
    BY <1>5, <2>1, <2>2, <2>3, <2>4, <2>5, <2>6, <2>7 DEF Chosen
<1>6. ASSUME NEW t \in Tasks, NEW w \in Workers, Execute(t, w) \/ Discard(t, w) \/ Resume(t, w)
      PROVE  Teardown'
  <2>1. CASE Resume(t, w)
    BY <1>1, <2>1 DEF Resume, history, Values
  <2>2. ASSUME NEW a \in Activity, work[t] = <<>>, work' = [work EXCEPT ![t] = <<a>>],
               gone' = gone, order' = order, torn' = torn, Values \subseteq Values',
               \A u \in Values : fields'[u] = fields[u]
        PROVE  Teardown'
    <3>1. PICK new : new = <<a>>
      OBVIOUS
    <3>2. new \in Seq(Activity) /\ Replaces(t, new)
      BY <2>2, <3>1, StartForm
    <3> QED
      BY <2>2, <3>2, QuietTeardown
  <2>3. CASE Execute(t, w)
    <3>1. PICK a : a = Execution("run", << <<>> >>, <<>>, NoError)
      OBVIOUS
    <3>2. a \in Activity
      <4>1. NoError \in AnyError
        BY DEF AnyError
      <4> QED
        BY <3>1, <4>1, NoValues, StartedIs
    <3>3. /\ work[t] = <<>> /\ work' = [work EXCEPT ![t] = <<a>>] /\ gone' = gone
          /\ order' = order /\ torn' = torn /\ Values' = Values /\ fields' = fields
      BY <2>3, <3>1 DEF Execute, Begin, Values
    <3> QED
      BY <2>2, <3>2, <3>3
  <2>4. CASE Discard(t, w)
    <3>1. PICK N, a, none : N = Len(kind) + 1 /\ a = Releasing(<<N>>) /\ none = <<>>
      OBVIOUS
    <3>2. /\ work[t] = <<>> /\ work' = [work EXCEPT ![t] = <<a>>] /\ gone' = gone
          /\ order' = order /\ torn' = torn
          /\ kind' = Append(kind, "owned") /\ fields' = Append(fields, none)
      BY <2>4, <3>1 DEF Discard, Begin
    <3>3. N \in Nat /\ Values \subseteq Values' /\ \A u \in Values : fields'[u] = fields[u]
      BY <1>0, <3>1, <3>2, NoValues, Created DEF Creation
    <3>4. a \in Activity
      BY <3>1, <3>3, OneValue, ReleaseProper
    <3> QED
      BY <2>2, <3>2, <3>3, <3>4
  <2> QED
    BY <1>6, <2>1, <2>3, <2>4
<1> QED
  BY <1>1, <1>4, <1>5, <1>6 DEF CleanupNext, cleanupVars, Values
-----------------------------------------------------------------------------
(***************************************************************************)
(* What the program may rely on, from the invariant.                       *)
(***************************************************************************)
\* A set of numbers up to a bound has a greatest element.
LEMMA Greatest ==
  ASSUME NEW n \in Nat, NEW T, T \subseteq 0..n, T # {}
  PROVE  \E x \in T : \A y \in T : y <= x
<1> DEFINE R == OpToRel(<, Nat)
           D == {n - x : x \in T}
<1>1. IsWellFoundedOn(R, Nat)
  BY NatLessThanWellFounded
<1>2. D \subseteq Nat /\ D # {}
  <2>1. ASSUME NEW x \in T
        PROVE  n - x \in Nat
    <3>1. x \in Nat /\ x <= n
      OBVIOUS
    <3> QED
      BY <3>1
  <2> QED
    BY <2>1
<1>3. PICK d \in D : \A e \in D : <<e, d>> \notin R
  <2> HIDE DEF R, D
  <2> QED
    BY <1>1, <1>2, WFMin
<1>4. PICK x \in T : d = n - x
  BY <1>3
<1>5. ASSUME NEW y \in T
      PROVE  y <= x
  <2>0. n - y \in D /\ d \in Nat
    BY <1>2, <1>3
  <2>1. n - y \in D /\ n - y \in Nat /\ d \in Nat /\ x \in Nat /\ y \in Nat
    <3> HIDE DEF D
    <3> QED
      BY <1>2, <1>5, <2>0
  <2>2. ~(n - y < d)
    <3> HIDE DEF D
    <3> QED
      BY <1>3, <2>1 DEF OpToRel
  <2> QED
    BY <1>4, <2>1, <2>2
<1> QED
  BY <1>5

\* A value without an owner cannot be all that is left: its owner is older.
LEMMA NothingLeft ==
  ASSUME CleanupShape, Divided, \A t \in Tasks : work[t] = <<>>
  PROVE  gone = Values
<1>1. SUFFICES ASSUME Present # {} PROVE FALSE
  BY DEF CleanupShape, ValuesOK, Present
<1>2. Len(kind) \in Nat /\ Present \subseteq 0..Len(kind)
  BY DEF CleanupShape, ValuesOK, Present, Values
<1>3. PICK x \in Present : \A y \in Present : y <= x
  BY <1>1, <1>2, Greatest
<1>4. \A t \in Tasks, i \in Nat : Stack(t, i) = {}
  BY DEF Stack
<1>5. PICK u \in Nat : x \in FieldsOf(u)
  BY <1>3, <1>4 DEF Divided
<1>6. u \in Present /\ x \in Range(fields[u])
  BY <1>5 DEF FieldsOf
<1>7. x < u
  BY <1>6 DEF Present, CleanupShape, ValuesOK
<1> QED
  BY <1>2, <1>3, <1>6, <1>7

\* What holds in every state is what the program may rely on.
LEMMA CompleteFrom ==
  ASSUME CleanupAssumption, DeinitsInv
  PROVE  DeinitsComplete
<1> USE DEF DeinitsInv
<1>1. CleanupTypeOK
  <2>1. ASSUME NEW t \in Tasks, NEW i \in DOMAIN work[t], work[t][i].role # "drop",
               NEW f \in Range(work[t][i].frames)
        PROVE  Range(f) \cap gone = {}
    <3>1. work[t] \in Seq(Activity) /\ work[t][i] \in Activity /\ i \in Nat
      BY DEF CleanupShape, StacksOK, Activity
    <3>2. work[t][i] \in Executions
      BY <2>1, <3>1 DEF Activity, Releases
    <3>3. work[t][i].frames \in Seq(Seq(Nat)) /\ work[t][i].owned \in Seq(Nat)
      BY <3>2 DEF Executions
    <3>4. Stack(t, i) = AllOf(Append(work[t][i].frames, work[t][i].owned))
      BY <2>1 DEF Stack, Lists
    <3>5. AllOf(work[t][i].frames) \subseteq Stack(t, i)
      BY <3>3, <3>4, OneMoreList
    <3>6. Range(f) \subseteq AllOf(work[t][i].frames)
      BY <2>1 DEF AllOf, Range
    <3>7. Stack(t, i) \subseteq Present
      BY <3>1 DEF Divided
    <3> QED
      BY <3>5, <3>6, <3>7 DEF Present
  <2> QED
    BY <2>1 DEF CleanupTypeOK, CleanupShape, ThreadsOK, ValuesOK, AnyError
<1>2. EveryDeinitOnce
  <2>1. \A v \in Values : deinits[v] <= 1 /\ (kind[v] # "owned" => deinits[v] = 0)
    BY DEF DeinitsCounted
  <2> QED
    BY <2>1, NothingLeft DEF EveryDeinitOnce
<1> QED
  BY <1>1, <1>2 DEF DeinitsComplete

\* Nothing is owned at first, and no failure is pending.
LEMMA CleanupInitially ==
  ASSUME CleanupAssumption, CleanupInit
  PROVE  DeinitsInv /\ FailuresOrdered
<1> USE DEF CleanupInit
<1>0. NoError \in AnyError /\ MaxFails \in Nat /\ Values = {} /\ Present = {}
  BY DEF AnyError, CleanupAssumption, Values, Present
<1>1. ThreadsOK
  BY <1>0 DEF ThreadsOK
<1>2. StacksOK
  BY DEF StacksOK
<1>3. ValuesOK
  BY <1>0 DEF ValuesOK, Range
<1>4. Divided
  <2>1. /\ \A t \in Tasks, i \in Nat : Stack(t, i) = {}
        /\ \A u \in Nat : FieldsOf(u) = {}
    BY <1>0 DEF Stack, FieldsOf
  <2> QED
    BY <1>0, <2>1 DEF Divided
<1>5. NoneTwice /\ DeinitsCounted /\ TornInOrder /\ ReverseOrder
  BY <1>0 DEF NoneTwice, DeinitsCounted, TornInOrder, ReverseOrder
<1>6. FailuresOrdered
  BY DEF FailuresOrdered, Begun, Faithful
<1> QED
  BY <1>1, <1>2, <1>3, <1>4, <1>5, <1>6 DEF DeinitsInv, CleanupShape
-----------------------------------------------------------------------------
(***************************************************************************)
(* Failures: what a step does to the chain of one task.                    *)
(***************************************************************************)
LEMMA OrIs ==
  ASSUME NEW a, NEW b, NEW c
  PROVE  Or(a, Or(b, c)) = Or(Or(a, b), c) /\ Or(NoError, a) = a /\ Or(a, NoError) = a
BY DEF Or

\* The end of a stack counts as pending to the rest.
LEMMA FirstOfLonger ==
  ASSUME NEW s \in Seq(Activity), NEW a \in Activity, NEW p, NEW f
  PROVE  FirstHeld(Append(s, a), p, f) <=> FirstHeld(s, Or(HeldBack(a), p), f)
<1> DEFINE r == Append(s, a)
           n == Len(s)
<1>1. /\ n \in Nat /\ DOMAIN s = 1..n /\ DOMAIN r = 1..n + 1
      /\ r[n + 1] = a /\ \A i \in 1..n : r[i] = s[i]
  BY AppendProperties
<1> HIDE DEF r, n
<1>2. (\A i \in DOMAIN r : HeldBack(r[i]) = NoError) <=>
        (\A i \in DOMAIN s : HeldBack(s[i]) = NoError) /\ HeldBack(a) = NoError
  <2>1. \A i \in 1..n : i \in 1..n + 1
    BY <1>1
  <2>2. \A i \in 1..n + 1 : i = n + 1 \/ i \in 1..n
    BY <1>1
  <2>3. n + 1 \in 1..n + 1
    BY <1>1
  <2> QED
    BY <1>1, <2>1, <2>2, <2>3
<1>3. \A i \in 1..n : (HeldBack(r[i]) = f /\ \A j \in 1..i - 1 : HeldBack(r[j]) = NoError) <=>
                      (HeldBack(s[i]) = f /\ \A j \in 1..i - 1 : HeldBack(s[j]) = NoError)
  <2>1. \A i \in 1..n : \A j \in 1..i - 1 : j \in 1..n
    BY <1>1
  <2> QED
    BY <1>1, <2>1
<1>4. (HeldBack(r[n + 1]) = f /\ \A j \in 1..(n + 1) - 1 : HeldBack(r[j]) = NoError) <=>
        (HeldBack(a) = f /\ \A j \in DOMAIN s : HeldBack(s[j]) = NoError)
  <2>1. (n + 1) - 1 = n
    BY <1>1
  <2> QED
    BY <1>1, <2>1
<1>5. (\E i \in DOMAIN r : HeldBack(r[i]) = f /\ \A j \in 1..i - 1 : HeldBack(r[j]) = NoError) <=>
        \/ \E i \in DOMAIN s : HeldBack(s[i]) = f /\ \A j \in 1..i - 1 : HeldBack(s[j]) = NoError
        \/ HeldBack(a) = f /\ \A j \in DOMAIN s : HeldBack(s[j]) = NoError
  <2>1. \A i : i \in DOMAIN r <=> i \in DOMAIN s \/ i = n + 1
    BY <1>1
  <2> QED
    BY <1>1, <1>3, <1>4, <2>1
<1>6. FirstHeld(r, p, f) <=> FirstHeld(s, Or(HeldBack(a), p), f)
  BY <1>2, <1>5 DEF FirstHeld, Or
<1> QED
  BY <1>6 DEF r

\* What a part of a stack makes of the pending failure, seen from below.
Through(new, pending) ==
  CASE Len(new) = 0 -> pending
    [] Len(new) = 1 -> Or(HeldBack(new[1]), pending)
    [] Len(new) = 2 -> Or(HeldBack(new[1]), Or(HeldBack(new[2]), pending))

\* The top of a stack counts as pending to the rest.
LEMMA TopSeen ==
  ASSUME StacksOK, NEW t \in Tasks, work[t] # <<>>, NEW p, NEW f
  PROVE  /\ FirstHeld(work[t], p, f) <=> FirstHeld(Front(work[t]), Or(HeldBack(Top(t)), p), f)
         /\ Front(work[t]) \in Seq(Activity) /\ Top(t) \in Activity
<1>1. work[t] \in Seq(Activity)
  BY DEF StacksOK, Activity
<1>2. /\ Front(work[t]) \in Seq(Activity) /\ Top(t) \in Activity
      /\ work[t] = Append(Front(work[t]), Top(t))
  BY <1>1, FrontAndLast DEF Top
<1> QED
  BY <1>2, FirstOfLonger

\* So does what replaces it.
LEMMA NewSeen ==
  ASSUME NEW F \in Seq(Activity), NEW new \in Seq(Activity), Len(new) <= 2, NEW p, NEW f
  PROVE  FirstHeld(F \o new, p, f) <=> FirstHeld(F, Through(new, p), f)
<1>0. Len(new) \in Nat
  OBVIOUS
<1>1. CASE Len(new) = 0
  <2>1. new = <<>>
    BY <1>1, EmptySeq
  <2>2. F \o new = F
    BY <2>1, ConcatEmptySeq
  <2> QED
    BY <1>1, <2>2 DEF Through
<1>2. CASE Len(new) = 1
  <2>1. new[1] \in Activity
    BY <1>2, ElementOfSeq
  <2>3. new = <<new[1]>>
    BY <1>2, <2>1, SeqEqual
  <2>2. F \o new = Append(F, new[1])
    BY <2>1, <2>3, AppendIsConcat
  <2> QED
    BY <1>2, <2>1, <2>2, FirstOfLonger DEF Through
<1>3. CASE Len(new) = 2
  <2>1. 1 \in 1..Len(new) /\ 2 \in 1..Len(new)
    BY <1>3
  <2>0. new[1] \in Activity /\ new[2] \in Activity
    BY <2>1, ElementOfSeq
  <2>a. PICK a \in Activity, b \in Activity : a = new[1] /\ b = new[2]
    BY <2>0
  <2>b. <<a>> \in Seq(Activity) /\ <<b>> \in Seq(Activity)
    OBVIOUS
  <2>c. new = <<a>> \o <<b>>
    <3>1. new = <<a, b>>
      BY <1>3, <2>a, SeqEqual
    <3> QED
      BY <3>1, Paired
  <2>d. F \o new = (F \o <<a>>) \o <<b>>
    BY <2>b, <2>c, ConcatAssociative
  <2>e. F \o <<a>> = Append(F, a) /\ Append(F, a) \in Seq(Activity)
    BY AppendIsConcat, AppendProperties
  <2>f. Append(F, a) \o <<b>> = Append(Append(F, a), b)
    BY <2>e, AppendIsConcat
  <2>x. /\ new[1] \in Activity /\ new[2] \in Activity
        /\ F \o new = Append(Append(F, new[1]), new[2])
    BY <2>a, <2>d, <2>e, <2>f
  <2>2. PICK G : G = Append(F, new[1])
    OBVIOUS
  <2>3. G \in Seq(Activity)
    BY <2>x, <2>2
  <2>4. FirstHeld(F \o new, p, f) <=> FirstHeld(G, Or(HeldBack(new[2]), p), f)
    BY <2>x, <2>2, <2>3, FirstOfLonger
  <2>5. FirstHeld(G, Or(HeldBack(new[2]), p), f) <=>
          FirstHeld(F, Or(HeldBack(new[1]), Or(HeldBack(new[2]), p)), f)
    BY <2>x, <2>2, FirstOfLonger
  <2> QED
    BY <1>3, <2>4, <2>5 DEF Through
<1>4. Len(new) = 0 \/ Len(new) = 1 \/ Len(new) = 2
  <2>x. PICK m \in Nat : m = Len(new)
    BY <1>0
  <2>2. m <= 2 => m = 0 \/ m = 1 \/ m = 2
    OBVIOUS
  <2> QED
    BY <2>x, <2>2
<1> QED
  BY <1>1, <1>2, <1>3, <1>4

\* A step of t does not touch what other tasks hold and have raised.
Elsewhere(t) ==
  \A u \in Tasks \ {t} :
    /\ work'[u] = work[u] /\ on'[u] = on[u] /\ fails'[u] = fails[u] /\ base'[u] = base[u]
    /\ clean'[u] = clean[u] /\ reported'[u] = reported[u] /\ begun'[u] = begun[u]
    /\ on[u] # Off => failure'[on[u]] = failure[on[u]]

\* Steps of others do not disturb what a task holds back.
LEMMA ElsewhereFaithful ==
  ASSUME ThreadsOK, NEW t \in Tasks, NEW u \in Tasks \ Coroutines, u # t, Faithful(u),
         Elsewhere(t)
  PROVE  Faithful(u)'
<1>1. /\ work'[u] = work[u] /\ on'[u] = on[u] /\ fails'[u] = fails[u] /\ base'[u] = base[u]
      /\ clean'[u] = clean[u] /\ reported'[u] = reported[u] /\ begun'[u] = begun[u]
      /\ on[u] # Off => failure'[on[u]] = failure[on[u]]
  BY DEF Elsewhere
<1>2. work[u] # <<>> => on[u] # Off
  BY DEF ThreadsOK
<1>3. work[u] # <<>> => Pending(u)' = Pending(u)
  BY <1>1, <1>2 DEF Pending
<1>4. FirstOf(u)' = FirstOf(u)
  BY <1>1 DEF FirstOf
<1> QED
  BY <1>1, <1>3, <1>4 DEF Faithful

\* A step that writes one entry of each function stays there.
LEMMA ElsewhereIs ==
  ASSUME CleanupShape, Begun, NEW t \in Tasks, \A u \in Tasks \ {t} : work'[u] = work[u],
         on' = on \/ \E w : on' = [on EXCEPT ![t] = w],
         failure' = failure \/ (on[t] # Off /\ \E e : SetPending(t, e)),
         fails' = fails \/ \E e : fails' = [fails EXCEPT ![t] = e],
         base' = base \/ \E e : base' = [base EXCEPT ![t] = e],
         clean' = clean \/ \E e : clean' = [clean EXCEPT ![t] = e],
         reported' = reported \/ \E e : reported' = [reported EXCEPT ![t] = e],
         begun' = begun \/ \E e : begun' = [begun EXCEPT ![t] = e]
  PROVE  Elsewhere(t)
<1> SUFFICES ASSUME NEW u \in Tasks \ {t}
             PROVE  /\ on'[u] = on[u] /\ fails'[u] = fails[u] /\ base'[u] = base[u]
                    /\ clean'[u] = clean[u] /\ reported'[u] = reported[u] /\ begun'[u] = begun[u]
                    /\ on[u] # Off => failure'[on[u]] = failure[on[u]]
  BY DEF Elsewhere
<1>0. /\ DOMAIN on = Tasks /\ DOMAIN fails = Tasks /\ DOMAIN base = Tasks
      /\ DOMAIN reported = Tasks /\ DOMAIN failure = Workers
      /\ \A v \in Tasks : on[v] # Off => on[v] \in Workers
  BY DEF CleanupShape, ThreadsOK
<1>a. DOMAIN clean = Tasks /\ DOMAIN begun = Tasks
  BY DEF Begun
<1>1. on'[u] = on[u] /\ fails'[u] = fails[u] /\ base'[u] = base[u]
  BY <1>0
<1>2. clean'[u] = clean[u] /\ reported'[u] = reported[u] /\ begun'[u] = begun[u]
  BY <1>0, <1>a
<1>3. on[u] # Off /\ on[t] # Off => on[u] # on[t]
  BY DEF CleanupShape, ThreadsOK
<1>4. on[u] # Off => failure'[on[u]] = failure[on[u]]
  <2>1. CASE failure' = failure
    BY <2>1
  <2>2. ASSUME on[t] # Off, NEW e, SetPending(t, e), on[u] # Off
        PROVE  failure'[on[u]] = failure[on[u]]
    BY <1>0, <1>3, <2>2 DEF SetPending
  <2> QED
    BY <2>1, <2>2
<1> QED
  BY <1>1, <1>2, <1>4

\* Every step of t is one.
LEMMA ElsewhereStep ==
  ASSUME CleanupShape, Begun, NEW t \in Tasks,
         \/ Progress(t) \/ Chosen(t)
         \/ \E w \in Workers : Execute(t, w) \/ Discard(t, w) \/ Resume(t, w)
  PROVE  Elsewhere(t)
<1>0. work \in [Tasks -> Seq(Activity)]
  BY DEF CleanupShape, StacksOK, Activity
<1>1. CASE Reported(t) \/ Unwind(t) \/ Unwound(t) \/ Abandon(t) \/ Released(t)
  <2>1. \A u \in Tasks \ {t} : work'[u] = work[u]
    BY <1>0, <1>1 DEF Reported, Unwind, Unwound, Abandon, Released, Becomes, BecomesAndReleases
  <2>2. /\ on' = on /\ fails' = fails /\ base' = base /\ clean' = clean /\ reported' = reported
        /\ begun' = begun
        /\ failure' = failure \/ (on[t] # Off /\ SetPending(t, NoError))
    BY <1>1 DEF Reported, Unwind, Unwound, Abandon, Released, Executes, Doing, history
  <2> QED
    BY <2>1, <2>2, ElsewhereIs
<1>2. CASE Take(t) \/ Deinit(t)
  <2>1. \A u \in Tasks \ {t} : work'[u] = work[u]
    BY <1>0, <1>2 DEF Take, Deinit, BecomesAndReleases
  <2>2. /\ on' = on /\ fails' = fails /\ base' = base /\ clean' = clean /\ reported' = reported
        /\ begun' = begun /\ on[t] # Off /\ SetPending(t, NoError)
    BY <1>2 DEF Take, Deinit, Executes, Doing, history
  <2> QED
    BY <2>1, <2>2, ElsewhereIs
<1>3. CASE End(t)
  <2>1. \A u \in Tasks \ {t} : work'[u] = work[u]
    BY <1>0, <1>3 DEF End
  <2>2. /\ on' = on /\ fails' = fails /\ base' = base /\ clean' = clean /\ begun' = begun
        /\ failure' = failure \/ (on[t] # Off /\ \E e : SetPending(t, e))
        /\ reported' = reported \/ \E e : reported' = [reported EXCEPT ![t] = e]
    BY <1>3 DEF End, Executes
  <2> QED
    BY <2>1, <2>2, ElsewhereIs
<1>4. CASE ReleaseHandle(t) \/ Leave(t) \/ Complete(t) \/ Await(t)
  <2>1. \A u \in Tasks \ {t} : work'[u] = work[u]
    BY <1>0, <1>4 DEF ReleaseHandle, Leave, Complete, Await, Becomes
  <2>2. /\ fails' = fails /\ base' = base /\ clean' = clean /\ reported' = reported
        /\ begun' = begun /\ failure' = failure
        /\ on' = on \/ on' = [on EXCEPT ![t] = Off]
    BY <1>4 DEF ReleaseHandle, Leave, Complete, Await, history
  <2> QED
    BY <2>1, <2>2, ElsewhereIs
<1>5. CASE Fail(t)
  <2>1. \A u \in Tasks \ {t} : work'[u] = work[u]
    BY <1>0, <1>5 DEF Fail, Becomes
  <2>2. /\ base' = base /\ clean' = clean /\ reported' = reported /\ begun' = begun
        /\ failure' = failure /\ on' = on /\ fails' = [fails EXCEPT ![t] = @ + 1]
    BY <1>5 DEF Fail, history
  <2> QED
    BY <2>1, <2>2, ElsewhereIs
<1>6. ASSUME \/ \E k \in Kinds, i \in 1..MaxValues : Make(t, k, i)
             \/ \E i \in 1..MaxValues : DropRegister(t, i) \/ Call(t, i)
             \/ \E results \in {<<>>} \cup {<<v>> : v \in Values} : Return(t, results)
      PROVE  Elsewhere(t)
  <2>1. \A u \in Tasks \ {t} : work'[u] = work[u]
    BY <1>0, <1>6 DEF Make, DropRegister, Call, Return, Becomes, BecomesAndReleases
  <2>2. /\ on' = on /\ fails' = fails /\ base' = base /\ clean' = clean /\ reported' = reported
        /\ begun' = begun /\ failure' = failure
    BY <1>6 DEF Make, DropRegister, Call, Return, history
  <2> QED
    BY <2>1, <2>2, ElsewhereIs
<1>7. ASSUME NEW w \in Workers, Execute(t, w) \/ Discard(t, w)
      PROVE  Elsewhere(t)
  <2>1. \A u \in Tasks \ {t} : work'[u] = work[u]
    BY <1>0, <1>7 DEF Execute, Discard
  <2>2. /\ on' = [on EXCEPT ![t] = w] /\ fails' = fails /\ base' = [base EXCEPT ![t] = fails[t]]
        /\ clean' = [clean EXCEPT ![t] = failure[w] = NoError] /\ reported' = reported
        /\ begun' = [begun EXCEPT ![t] = @ + 1] /\ failure' = failure
    BY <1>7 DEF Execute, Discard, Begin
  <2> QED
    BY <2>1, <2>2, ElsewhereIs
<1>8. ASSUME NEW w \in Workers, Resume(t, w)
      PROVE  Elsewhere(t)
  <2>1. /\ work' = work /\ on' = [on EXCEPT ![t] = w] /\ fails' = fails /\ base' = base
        /\ clean' = clean /\ reported' = reported /\ begun' = begun /\ failure' = failure
    BY <1>8 DEF Resume, history
  <2> QED
    BY <2>1, ElsewhereIs
<1> QED
  BY <1>1, <1>2, <1>3, <1>4, <1>5, <1>6, <1>7, <1>8 DEF Progress, Chosen

\* What an execution that began with nothing pending has held back, in the
\* order in which it was raised, stays so.
LEMMA FaithfulStep ==
  ASSUME CleanupShape, NEW t \in Tasks, Faithful(t), work[t] # <<>>,
         NEW new \in Seq(Activity), Len(new) <= 2, Replaces(t, new),
         Len(new) >= 1 => new[1].role = Top(t).role,
         Len(new) = 0 => Top(t).role # "run",
         clean' = clean, NEW p, p = Pending(t)', NEW f, f = FirstOf(t)',
         clean[t] /\ FirstHeld(Front(work[t]), Or(HeldBack(Top(t)), Pending(t)), FirstOf(t)) =>
           FirstHeld(Front(work[t]), Through(new, p), f)
  PROVE  Faithful(t)'
<1>0. PICK s : s = Front(work[t])
  OBVIOUS
<1>1. /\ s \in Seq(Activity)
      /\ FirstHeld(work[t], Pending(t), FirstOf(t)) <=>
           FirstHeld(s, Or(HeldBack(Top(t)), Pending(t)), FirstOf(t))
  BY <1>0, TopSeen DEF CleanupShape
<1>2. FirstHeld(s \o new, p, f) <=> FirstHeld(s, Through(new, p), f)
  BY <1>1, NewSeen
<1>3. LET m == Below(t) IN
      /\ m \in Nat /\ m + 1 \in DOMAIN work[t] /\ Top(t) = work[t][m + 1]
      /\ work'[t] = s \o new /\ Len(new) \in Nat /\ DOMAIN work'[t] = 1..m + Len(new)
      /\ \A i \in 1..m : work'[t][i] = work[t][i]
      /\ \A j \in 1..Len(new) : work'[t][m + j] = new[j]
  BY <1>0, Stacked DEF CleanupShape
<1>4. work[t][1].role = "run"
  BY DEF Faithful
<1>5. work'[t] # <<>> /\ work'[t][1].role = "run"
  <2>1. CASE Below(t) = 0
    BY <1>3, <1>4, <2>1
  <2>2. CASE Below(t) # 0
    <3>1. 1 \in 1..Below(t) /\ 1 \in DOMAIN work'[t]
      BY <1>3, <2>2
    <3> QED
      BY <1>3, <1>4, <3>1
  <2> QED
    BY <2>1, <2>2
<1>6. clean'[t] => FirstHeld(work'[t], p, f)
  BY <1>0, <1>1, <1>2, <1>3 DEF Faithful
<1> QED
  BY <1>5, <1>6 DEF Faithful

\* The same of a step that only carries a failure from one place to the next.
LEMMA FaithfulSame ==
  ASSUME CleanupShape, NEW t \in Tasks, Faithful(t), work[t] # <<>>,
         NEW new \in Seq(Activity), Len(new) <= 2, Replaces(t, new),
         Len(new) >= 1 => new[1].role = Top(t).role,
         Len(new) = 0 => Top(t).role # "run",
         clean' = clean, fails' = fails, base' = base, NEW p, p = Pending(t)',
         Through(new, p) = Or(HeldBack(Top(t)), Pending(t))
  PROVE  Faithful(t)'
<1>1. PICK f : f = FirstOf(t)'
  OBVIOUS
<1>2. f = FirstOf(t)
  BY <1>1 DEF FirstOf
<1> QED
  BY <1>1, <1>2, FaithfulStep

\* An execution that advances carries its failure along.
LEMMA FaithfulAdvance ==
  ASSUME CleanupShape, NEW t \in Tasks, Faithful(t), NEW was, Executes(t, was),
         NEW at, NEW fs, NEW o, NEW r, NEW values,
         Advances(t, Becoming(Top(t), at, fs, o, r), values),
         clean' = clean, fails' = fails, base' = base, NEW p, p = Pending(t)',
         Or(r, p) = Or(Top(t).result, Pending(t))
  PROVE  Faithful(t)'
<1>1. work[t] # <<>> /\ Top(t).role # "drop"
  BY TopExecution
<1>2. PICK x : x = Becoming(Top(t), at, fs, o, r)
  OBVIOUS
<1>3. x.role = Top(t).role /\ HeldBack(x) = Or(Top(t).original, r)
  BY <1>1, <1>2 DEF Becoming, HeldBack
<1>4. x \in Activity /\ values \in Seq(Nat) /\ Replaces(t, Pushed(x, values))
  BY <1>2 DEF Advances, Activity
<1>5. PICK new : new = Pushed(x, values)
  OBVIOUS
<1>6. /\ new \in Seq(Activity) /\ Len(new) = (IF values = <<>> THEN 1 ELSE 2) /\ new[1] = x
      /\ values # <<>> => new[2] = Releasing(values)
  BY <1>4, <1>5, PushedIs
<1>7. Through(new, p) = Or(HeldBack(x), p)
  <2>1. HeldBack(Releasing(values)) = NoError
    BY <1>4, ReleaseProper DEF HeldBack
  <2> QED
    BY <1>6, <2>1, OrIs DEF Through
<1>8. Or(HeldBack(x), p) = Or(HeldBack(Top(t)), Pending(t))
  BY <1>1, <1>3, OrIs DEF HeldBack
<1>9. Len(new) <= 2 /\ Len(new) # 0 /\ Replaces(t, new)
  BY <1>4, <1>5, <1>6
<1>10. /\ Len(new) >= 1 => new[1].role = Top(t).role
       /\ Len(new) = 0 => Top(t).role # "run"
  BY <1>3, <1>6, <1>9
<1>11. Through(new, p) = Or(HeldBack(Top(t)), Pending(t))
  BY <1>7, <1>8
<1>12. new \in Seq(Activity) /\ Len(new) <= 2 /\ Replaces(t, new)
  BY <1>6, <1>9
<1> QED
  BY <1>1, <1>10, <1>11, <1>12, FaithfulSame

\* A failure that an instruction raises is the first, or comes after it.
LEMMA FaithfulFail ==
  ASSUME CleanupAssumption, CleanupShape, NEW t \in Tasks, Faithful(t), Fail(t)
  PROVE  Faithful(t)'
<1>1. /\ fails' = [fails EXCEPT ![t] = @ + 1] /\ Pending(t) = NoError
      /\ on' = on /\ failure' = failure /\ base' = base /\ clean' = clean
  BY DEF Fail, Instruction, history
<1>2. PICK e, x, values :
        /\ e = <<t, fails[t] + 1>>
        /\ x = Becoming(Top(t), "unwind", Top(t).frames, Top(t).owned, e)
        /\ values = <<>>
  OBVIOUS
<1>3. Executes(t, "loop") /\ Advances(t, x, values)
  BY <1>2, FailForm
<1>4. /\ work[t] # <<>> /\ Top(t).role # "drop" /\ Top(t).at = "loop"
      /\ Proper(Top(t), Below(t) + 1)
  BY <1>3, TopExecution
<1>5. Top(t).result = NoError /\ HeldBack(Top(t)) = Top(t).original
  BY <1>4 DEF Proper, HeldBack, Or
<1>6. x.role = Top(t).role /\ HeldBack(x) = Or(Top(t).original, e)
  BY <1>2, <1>4 DEF Becoming, HeldBack
<1>7. x \in Activity /\ <<>> \in Seq(Nat) /\ Replaces(t, Pushed(x, values))
  BY <1>3 DEF Advances, Activity
<1>8. PICK new : new = Pushed(x, values)
  OBVIOUS
<1>9. new \in Seq(Activity) /\ Len(new) = 1 /\ new[1] = x /\ Replaces(t, new)
  BY <1>2, <1>7, <1>8, PushedIs
<1>p. PICK p : p = Pending(t)'
  OBVIOUS
<1>q. p = NoError
  BY <1>1, <1>p DEF Pending
<1>10. Through(new, p) = Or(Top(t).original, e)
  BY <1>6, <1>9, <1>q, OrIs DEF Through
<1>f. PICK f : f = FirstOf(t)'
  OBVIOUS
<1>11. /\ fails[t] \in Nat /\ base[t] \in Nat /\ base[t] <= fails[t]
       /\ fails'[t] = fails[t] + 1 /\ base'[t] = base[t]
  <2>1. MaxFails \in Nat
    BY DEF CleanupAssumption
  <2> QED
    BY <1>1, <2>1 DEF CleanupShape, ThreadsOK
<1>a. \A n : <<t, n>> # NoError
  BY DEF NoError
<1>b. fails'[t] > base'[t]
  BY <1>11
<1>c. f = <<t, base'[t] + 1>>
  BY <1>b, <1>f DEF FirstOf
<1>12. f = <<t, base[t] + 1>> /\ f # NoError /\ e # NoError
  BY <1>2, <1>11, <1>a, <1>c
<1>13. IF fails[t] > base[t] THEN FirstOf(t) = f ELSE FirstOf(t) = NoError /\ e = f
  BY <1>2, <1>11, <1>12 DEF FirstOf
<1>14. PICK s : s = Front(work[t])
  OBVIOUS
<1>15. FirstHeld(s, Top(t).original, FirstOf(t)) => FirstHeld(s, Or(Top(t).original, e), f)
  BY <1>12, <1>13 DEF FirstHeld, Or
<1>16. Or(HeldBack(Top(t)), Pending(t)) = Top(t).original
  BY <1>1, <1>5, OrIs
<1>17. /\ new \in Seq(Activity) /\ Len(new) <= 2 /\ Replaces(t, new)
       /\ Len(new) >= 1 => new[1].role = Top(t).role
       /\ Len(new) = 0 => Top(t).role # "run"
  BY <1>6, <1>9
<1>18. FirstHeld(Front(work[t]), Or(HeldBack(Top(t)), Pending(t)), FirstOf(t)) =>
         FirstHeld(Front(work[t]), Through(new, p), f)
  BY <1>10, <1>14, <1>15, <1>16
<1>19. work[t] # <<>> /\ clean' = clean
  BY <1>1, <1>4
<1> QED
  BY <1>17, <1>18, <1>19, <1>p, <1>f, FaithfulStep

\* The end of an execution hands its failure on, or reports it.
LEMMA FaithfulEnd ==
  ASSUME CleanupShape, Begun, NEW t \in Tasks \ Coroutines, Faithful(t), End(t)
  PROVE  Faithful(t)'
<1>1. /\ Executes(t, "end") /\ work' = [work EXCEPT ![t] = Front(@)]
      /\ on' = on /\ fails' = fails /\ base' = base /\ clean' = clean /\ begun' = begun
  BY DEF End
<1>2. /\ work[t] # <<>> /\ on[t] \in Workers /\ Top(t).role \in {"run", "cleanup"}
      /\ Proper(Top(t), Below(t) + 1) /\ Below(t) \in Nat /\ Pending(t) \in AnyError
  BY <1>1, TopExecution
<1>3. PICK new : new = <<>>
  OBVIOUS
<1>4. new \in Seq(Activity) /\ Len(new) = 0 /\ Replaces(t, new)
  BY <1>1, <1>3, PopForm
<1>5. HeldBack(Top(t)) = Or(Top(t).original, Top(t).result)
  BY <1>2 DEF HeldBack
<1>6. failure \in [Workers -> AnyError] /\ reported \in [Tasks -> AnyError]
  BY DEF CleanupShape, ThreadsOK
<1>7. CASE Top(t).role = "cleanup"
  <2>1. failure' = [failure EXCEPT ![on[t]] =
                      Precedence(Top(t).original, Top(t).result, Pending(t))]
    BY <1>7 DEF End, SetPending
  <2>2. PICK p : p = Pending(t)'
    OBVIOUS
  <2>3. p = Precedence(Top(t).original, Top(t).result, Pending(t))
    BY <1>1, <1>2, <1>6, <2>1, <2>2 DEF Pending
  <2>4. p = Or(HeldBack(Top(t)), Pending(t))
    BY <1>5, <2>3, OrIs DEF Precedence
  <2>5. Through(new, p) = p
    BY <1>4 DEF Through
  <2>6. /\ Len(new) <= 2 /\ Len(new) >= 1 => new[1].role = Top(t).role
        /\ Len(new) = 0 => Top(t).role # "run"
    BY <1>4, <1>7
  <2>7. Len(new) <= 2
    BY <1>4
  <2> QED
    BY <1>1, <1>2, <1>4, <2>2, <2>4, <2>5, <2>6, <2>7, FaithfulSame
<1>8. CASE Top(t).role = "run"
  <2>1. Below(t) = 0 /\ Top(t).original = NoError
    BY <1>2, <1>8 DEF Proper
  <2>2. work[t] \in Seq(Activity) /\ Front(work[t]) \in Seq(Activity)
    BY <1>2, TopSeen DEF CleanupShape, StacksOK, Activity
  <2>3. Front(work[t]) = <<>>
    BY <2>1, <2>2, EmptySeq DEF Below
  <2>4. work'[t] = <<>>
    BY <1>1, <2>3 DEF CleanupShape, StacksOK
  <2>5. FirstOf(t)' = FirstOf(t)
    BY <1>1 DEF FirstOf
  <2>6. ASSUME clean[t]
        PROVE  reported'[t] = FirstOf(t)
    <3>1. FirstHeld(<<>>, Or(HeldBack(Top(t)), Pending(t)), FirstOf(t))
      BY <1>2, <2>3, <2>6, TopSeen DEF Faithful, CleanupShape
    <3>2. FirstOf(t) = Or(HeldBack(Top(t)), Pending(t))
      BY <3>1 DEF FirstHeld
    <3>3. FirstOf(t) = Or(Top(t).result, Pending(t))
      BY <1>5, <2>1, <3>2, OrIs
    <3>4. reported'[t] = IF Top(t).result = NoError THEN Pending(t) ELSE Top(t).result
      BY <1>6, <1>8 DEF End
    <3> QED
      BY <3>3, <3>4 DEF Or
  <2> QED
    BY <1>1, <2>4, <2>5, <2>6 DEF Faithful
<1> QED
  BY <1>2, <1>7, <1>8

\* A deinit holds back what was pending when it began.
LEMMA FaithfulDeinit ==
  ASSUME CleanupShape, Divided, NEW t \in Tasks, Faithful(t), Deinit(t)
  PROVE  Faithful(t)'
<1>1. /\ on' = on /\ fails' = fails /\ base' = base /\ clean' = clean
      /\ failure' = [failure EXCEPT ![on[t]] = NoError]
  BY DEF Deinit, SetPending
<1>2. PICK new : new = <<Releasing(Rest(t)), Started(fields[Value(t)], Pending(t))>>
  OBVIOUS
<1>3. Doing(t, "drop") /\ Top(t).values # <<>> /\ new \in Seq(Activity) /\ Replaces(t, new)
  BY <1>2, DeinitForm
<1>4. work[t] # <<>> /\ on[t] \in Workers /\ Top(t).role = "drop"
  BY <1>3, TopRelease
<1>5. Len(new) = 2 /\ new[1].role = "drop"
  BY <1>2 DEF Releasing
<1>6. HeldBack(new[1]) = NoError /\ HeldBack(new[2]) = Pending(t)
  <2>1. HeldBack(Releasing(Rest(t))) = NoError
    BY DEF HeldBack, Releasing
  <2>2. HeldBack(Started(fields[Value(t)], Pending(t))) = Or(Pending(t), NoError)
    BY DEF HeldBack, Started, Execution
  <2> QED
    BY <1>2, <2>1, <2>2, OrIs
<1>7. PICK p : p = Pending(t)'
  OBVIOUS
<1>8. p = NoError
  BY <1>1, <1>4, <1>7 DEF Pending, CleanupShape, ThreadsOK
<1>9. Through(new, p) = Or(HeldBack(Top(t)), Pending(t))
  BY <1>4, <1>5, <1>6, <1>8, OrIs DEF Through, HeldBack
<1>10. /\ Len(new) <= 2 /\ (Len(new) >= 1 => new[1].role = Top(t).role)
       /\ Len(new) = 0 => Top(t).role # "run"
  BY <1>4, <1>5
<1> QED
  BY <1>1, <1>3, <1>4, <1>7, <1>9, <1>10, FaithfulSame

\* Releasing the next value without a deinit, and the end of a list.
LEMMA FaithfulRelease ==
  ASSUME CleanupShape, Divided, NEW t \in Tasks \ Coroutines, Faithful(t),
         Abandon(t) \/ ReleaseHandle(t) \/ Released(t)
  PROVE  Faithful(t)'
<1>1. /\ on' = on /\ fails' = fails /\ base' = base /\ clean' = clean /\ failure' = failure
      /\ Doing(t, "drop")
  BY DEF Abandon, ReleaseHandle, Released, history
<1>2. work[t] # <<>> /\ Top(t).role = "drop"
  BY <1>1, TopRelease
<1>3. PICK p : p = Pending(t)'
  OBVIOUS
<1>4. p = Pending(t)
  BY <1>1, <1>3 DEF Pending
<1>5. Or(HeldBack(Top(t)), Pending(t)) = p
  BY <1>2, <1>4, OrIs DEF HeldBack
<1>6. \E new \in Seq(Activity) :
        /\ Len(new) <= 2 /\ Replaces(t, new) /\ (Len(new) >= 1 => new[1].role = "drop")
        /\ Through(new, p) = p
  <2>1. CASE Released(t)
    <3>1. PICK new : new = <<>>
      OBVIOUS
    <3>2. new \in Seq(Activity) /\ Len(new) = 0 /\ Replaces(t, new)
      BY <2>1, <3>1, PopForm DEF Released
    <3>3. Through(new, p) = p /\ Len(new) <= 2 /\ ~(Len(new) >= 1)
      BY <3>2 DEF Through
    <3> QED
      BY <3>2, <3>3
  <2>2. CASE Abandon(t) \/ ReleaseHandle(t)
    <3>1. PICK more : more = IF Abandon(t) THEN fields[Value(t)] ELSE <<>>
      OBVIOUS
    <3>2. PICK new : new = <<Releasing(Rest(t) \o more)>>
      OBVIOUS
    <3>3. new \in Seq(Activity) /\ Replaces(t, new)
      BY <2>2, <3>1, <3>2, ShortenForm
    <3>4. Len(new) = 1 /\ new[1].role = "drop"
      BY <3>2 DEF Releasing
    <3>5. Through(new, p) = p
      BY <3>4, OrIs DEF Through, HeldBack
    <3>6. Len(new) <= 2
      BY <3>4
    <3> QED
      BY <3>3, <3>4, <3>5, <3>6
  <2> QED
    BY <2>1, <2>2
<1>7. PICK new \in Seq(Activity) :
        /\ Len(new) <= 2 /\ Replaces(t, new) /\ (Len(new) >= 1 => new[1].role = "drop")
        /\ Through(new, p) = p
  BY <1>6
<1>8. Through(new, p) = Or(HeldBack(Top(t)), Pending(t))
  BY <1>5, <1>7
<1>9. /\ Len(new) >= 1 => new[1].role = Top(t).role
      /\ Len(new) = 0 => Top(t).role # "run"
  BY <1>2, <1>7
<1> QED
  BY <1>1, <1>2, <1>3, <1>7, <1>8, <1>9, FaithfulSame

\* An execution begins with nothing to report.
LEMMA FaithfulStart ==
  ASSUME CleanupAssumption, CleanupShape, Begun, NEW t \in Tasks \ Coroutines,
         NEW w \in Workers, Execute(t, w)
  PROVE  Faithful(t)'
<1>1. /\ work' = [work EXCEPT ![t] = <<Execution("run", << <<>> >>, <<>>, NoError)>>]
      /\ on' = [on EXCEPT ![t] = w] /\ base' = [base EXCEPT ![t] = fails[t]] /\ fails' = fails
      /\ clean' = [clean EXCEPT ![t] = failure[w] = NoError] /\ failure' = failure
  BY DEF Execute, Begin
<1>2. PICK x, p, f : /\ x = Execution("run", << <<>> >>, <<>>, NoError)
                     /\ p = Pending(t)' /\ f = FirstOf(t)'
  OBVIOUS
<1>3. work'[t] = <<x>> /\ on'[t] = w /\ base'[t] = fails'[t] /\ (clean'[t] <=> failure[w] = NoError)
  BY <1>1, <1>2 DEF CleanupShape, StacksOK, ThreadsOK, Begun
<1>4. p = failure[w]
  BY <1>1, <1>2, <1>3 DEF Pending
<1>5. f = NoError
  <2>1. fails[t] \in Nat
    BY DEF CleanupShape, ThreadsOK, CleanupAssumption
  <2>2. ~(fails'[t] > base'[t])
    BY <1>1, <1>3, <2>1
  <2> QED
    BY <1>2, <2>2 DEF FirstOf
<1>6. x.role = "run" /\ HeldBack(x) = NoError
  BY <1>2 DEF Execution, HeldBack, Or
<1>7. clean'[t] => FirstHeld(work'[t], p, f)
  <2>1. DOMAIN <<x>> = {1} /\ <<x>>[1] = x
    OBVIOUS
  <2> QED
    BY <1>3, <1>4, <1>5, <1>6, <2>1 DEF FirstHeld
<1>8. work'[t] # <<>> /\ work'[t][1].role = "run"
  BY <1>3, <1>6
<1> QED
  BY <1>2, <1>7, <1>8 DEF Faithful

\* Every step keeps the failures in order.
LEMMA FailuresKept ==
  ASSUME CleanupAssumption, CleanupShape, Divided, FailuresOrdered, [CleanupNext]_cleanupVars
  PROVE  FailuresOrdered'
<1>1. CASE UNCHANGED cleanupVars
  BY <1>1 DEF cleanupVars, FailuresOrdered, Begun, Faithful, Pending, FirstOf
<1>2. ASSUME NEW t \in Tasks,
             \/ Progress(t) \/ Chosen(t)
             \/ \E w \in Workers : Execute(t, w) \/ Discard(t, w) \/ Resume(t, w)
      PROVE  FailuresOrdered'
  <2>0. Begun /\ ThreadsOK
    BY DEF FailuresOrdered, CleanupShape
  <2>1. Begun'
    <3>1. /\ clean' = clean \/ \E w : clean' = [clean EXCEPT ![t] = failure[w] = NoError]
          /\ begun' = begun \/ begun' = [begun EXCEPT ![t] = @ + 1]
      BY <1>2 DEF Progress, Chosen, Reported, Unwind, Unwound, Take, End, Deinit, Abandon,
                  ReleaseHandle, Released, Leave, Make, Complete, DropRegister, Call, Return,
                  Fail, Await, Execute, Discard, Resume, Begin, history
    <3>2. clean' \in [Tasks -> BOOLEAN]
      BY <2>0, <3>1 DEF Begun
    <3>3. begun' \in [Tasks -> Nat]
      BY <2>0, <3>1 DEF Begun
    <3> QED
      BY <3>2, <3>3 DEF Begun
  <2>2. ASSUME NEW u \in Tasks \ Coroutines, u # t
        PROVE  Faithful(u)'
    <3>1. Elsewhere(t)
      BY <1>2, <2>0, ElsewhereStep
    <3>2. Faithful(u)
      BY DEF FailuresOrdered
    <3> QED
      BY <2>0, <2>2, <3>1, <3>2, ElsewhereFaithful
  <2>3. ASSUME t \notin Coroutines
        PROVE  Faithful(t)'
    <3>0. Faithful(t) /\ t \in Tasks \ Coroutines
      BY <2>3 DEF FailuresOrdered
    <3>p. PICK p : p = Pending(t)'
      OBVIOUS
    \* the failure stays where it is
    <3>1. ASSUME NEW was, Executes(t, was), NEW at, NEW fs, NEW o, NEW values,
                 Advances(t, Becoming(Top(t), at, fs, o, Top(t).result), values),
                 on' = on, failure' = failure, fails' = fails, base' = base, clean' = clean
          PROVE  Faithful(t)'
      <4>1. p = Pending(t)
        BY <3>1, <3>p DEF Pending
      <4>2. Or(Top(t).result, p) = Or(Top(t).result, Pending(t))
        BY <4>1
      <4> QED
        BY <3>0, <3>1, <3>p, <4>2, FaithfulAdvance
    \* the pending failure becomes a result
    <3>2. ASSUME NEW was, Executes(t, was), NEW at, NEW fs, NEW o, NEW r, NEW values,
                 Advances(t, Becoming(Top(t), at, fs, o, r), values),
                 r = Or(Top(t).result, Pending(t)), SetPending(t, NoError),
                 on' = on, fails' = fails, base' = base, clean' = clean
          PROVE  Faithful(t)'
      <4>1. p = NoError
        <5>1. on[t] \in Workers
          BY <3>2, TopExecution
        <5> QED
          BY <3>2, <3>p, <5>1 DEF Pending, SetPending, CleanupShape, ThreadsOK
      <4>2. Or(r, p) = Or(Top(t).result, Pending(t))
        BY <3>2, <4>1, OrIs
      <4> QED
        BY <3>0, <3>2, <3>p, <4>2, FaithfulAdvance
    <3>3. CASE Reported(t)
      <4>1. /\ SetPending(t, NoError) /\ on' = on /\ fails' = fails /\ base' = base
            /\ clean' = clean
        BY <3>3 DEF Reported, history
      <4>2. /\ Executes(t, "loop")
            /\ Advances(t, Becoming(Top(t), "unwind", Top(t).frames, Top(t).owned, Pending(t)),
                        <<>>)
        BY <3>3, ReportedForm
      <4>3. Top(t).at = "loop" /\ Top(t).role # "drop" /\ Proper(Top(t), Below(t) + 1)
        BY <4>2, TopExecution
      <4>4. Pending(t) = Or(Top(t).result, Pending(t))
        BY <4>3, OrIs DEF Proper
      <4>5. PICK fs, o, r, values : /\ fs = Top(t).frames /\ o = Top(t).owned
                                    /\ r = Pending(t) /\ values = <<>>
        OBVIOUS
      <4>6. Advances(t, Becoming(Top(t), "unwind", fs, o, r), values)
        BY <4>2, <4>5
      <4> QED
        BY <3>2, <4>1, <4>2, <4>4, <4>5, <4>6
    <3>4. CASE Unwind(t)
      <4>1. /\ on' = on /\ failure' = failure /\ fails' = fails /\ base' = base /\ clean' = clean
        BY <3>4 DEF Unwind
      <4>2. PICK fs, o, values : /\ fs = Front(Top(t).frames) /\ o = Top(t).owned
                                 /\ values = Registers(t)
        OBVIOUS
      <4>3. /\ Executes(t, "unwind")
            /\ Advances(t, Becoming(Top(t), "unwind", fs, o, Top(t).result), values)
        BY <3>4, <4>2, UnwindForm
      <4> QED
        BY <3>1, <4>1, <4>3
    <3>5. CASE Unwound(t)
      <4>1. /\ on' = on /\ failure' = failure /\ fails' = fails /\ base' = base /\ clean' = clean
        BY <3>5 DEF Unwound, history
      <4>2. PICK none, o : none = <<>> /\ o = Top(t).owned
        OBVIOUS
      <4>3. /\ Executes(t, "unwind")
            /\ \/ Advances(t, Becoming(Top(t), "take", none, o, Top(t).result), none)
               \/ Advances(t, Becoming(Top(t), "take", none, none, Top(t).result), o)
        BY <3>5, <4>2, UnwoundForm
      <4> QED
        BY <3>1, <4>1, <4>3
    <3>6. CASE Take(t)
      <4>1. /\ SetPending(t, NoError) /\ on' = on /\ fails' = fails /\ base' = base
            /\ clean' = clean
        BY <3>6 DEF Take, history
      <4>2. PICK none, r, values : /\ none = <<>> /\ r = Or(Top(t).result, Pending(t))
                                   /\ values = IF Sent(t) THEN <<>> ELSE Top(t).owned
        OBVIOUS
      <4>3. Executes(t, "take") /\ Advances(t, Becoming(Top(t), "end", none, none, r), values)
        BY <3>6, <4>2, TakeForm
      <4> QED
        BY <3>2, <4>1, <4>2, <4>3
    <3>7. CASE End(t)
      BY <2>0, <3>0, <3>7, FaithfulEnd
    <3>8. CASE Deinit(t)
      BY <3>0, <3>8, FaithfulDeinit
    <3>9. CASE Abandon(t) \/ ReleaseHandle(t) \/ Released(t)
      BY <3>0, <3>9, FaithfulRelease
    <3>10. CASE Leave(t)
      <4>1. /\ work[t] = <<>> /\ work' = work /\ fails' = fails /\ base' = base /\ clean' = clean
            /\ reported' = reported /\ begun' = begun
        BY <3>10 DEF Leave, history
      <4>2. FirstOf(t)' = FirstOf(t)
        BY <4>1 DEF FirstOf
      <4> QED
        BY <3>0, <4>1, <4>2 DEF Faithful
    <3>11. ASSUME NEW k \in Kinds, NEW i \in 1..MaxValues, Make(t, k, i)
           PROVE  Faithful(t)'
      <4>1. /\ on' = on /\ failure' = failure /\ fails' = fails /\ base' = base /\ clean' = clean
        BY <3>11 DEF Make
      <4>2. PICK fs, o, values :
              /\ fs = Append(Front(Top(t).frames),
                             Append(SubSeq(Registers(t), 1, i - 1), Len(kind) + 1))
              /\ o = Top(t).owned /\ values = <<>>
        OBVIOUS
      <4>3. /\ Executes(t, "loop")
            /\ Advances(t, Becoming(Top(t), "loop", fs, o, Top(t).result), values)
        BY <3>11, <4>2, MakeForm
      <4> QED
        BY <3>1, <4>1, <4>3
    <3>12. ASSUME NEW i \in 1..MaxValues, DropRegister(t, i)
           PROVE  Faithful(t)'
      <4>1. /\ on' = on /\ failure' = failure /\ fails' = fails /\ base' = base /\ clean' = clean
        BY <3>12 DEF DropRegister, history
      <4>2. PICK fs, o, values :
              /\ fs = Append(Front(Top(t).frames), Emptied(Registers(t), i))
              /\ o = Top(t).owned /\ values = <<Registers(t)[i]>>
        OBVIOUS
      <4>3. /\ Executes(t, "loop")
            /\ Advances(t, Becoming(Top(t), "loop", fs, o, Top(t).result), values)
        BY <3>12, <4>2, DropRegisterForm
      <4> QED
        BY <3>1, <4>1, <4>3
    <3>13. ASSUME NEW i \in 1..MaxValues, Call(t, i)
           PROVE  Faithful(t)'
      <4>1. /\ on' = on /\ failure' = failure /\ fails' = fails /\ base' = base /\ clean' = clean
        BY <3>13 DEF Call, history
      <4>2. PICK fs, o, values :
              /\ fs = Append(Append(Front(Top(t).frames), SubSeq(Registers(t), 1, i - 1)),
                             SubSeq(Registers(t), i, Len(Registers(t))))
              /\ o = Top(t).owned /\ values = <<>>
        OBVIOUS
      <4>3. /\ Executes(t, "loop")
            /\ Advances(t, Becoming(Top(t), "loop", fs, o, Top(t).result), values)
        BY <3>13, <4>2, CallForm
      <4> QED
        BY <3>1, <4>1, <4>3
    <3>14. ASSUME NEW results, Return(t, results)
           PROVE  Faithful(t)'
      <4>1. /\ on' = on /\ failure' = failure /\ fails' = fails /\ base' = base /\ clean' = clean
        BY <3>14 DEF Return
      <4>2. PICK none, o, fs, o2, values :
              /\ none = <<>> /\ o = Top(t).owned \o results
              /\ fs = Append(Front(Callers(t)), Last(Callers(t)) \o results)
              /\ o2 = Top(t).owned /\ values = Leftover(t, results)
        OBVIOUS
      <4>3. /\ Executes(t, "loop")
            /\ \/ Advances(t, Becoming(Top(t), "unwind", none, o, Top(t).result), values)
               \/ Advances(t, Becoming(Top(t), "loop", fs, o2, Top(t).result), values)
        BY <3>14, <4>2, ReturnForm
      <4> QED
        BY <3>1, <4>1, <4>3
    <3>15. CASE Fail(t)
      BY <3>0, <3>15, FaithfulFail
    <3>16. CASE Complete(t)
      <4>1. /\ on' = on /\ failure' = failure /\ fails' = fails /\ base' = base /\ clean' = clean
            /\ work' = work /\ reported' = reported /\ begun' = begun
        BY <3>16 DEF Complete, history
      <4>2. FirstOf(t)' = FirstOf(t) /\ Pending(t)' = Pending(t)
        BY <4>1 DEF FirstOf, Pending
      <4> QED
        BY <3>0, <4>1, <4>2 DEF Faithful
    <3>17. ASSUME NEW w \in Workers, Execute(t, w)
           PROVE  Faithful(t)'
      BY <2>0, <3>0, <3>17, FaithfulStart
    <3>18. ~Await(t) /\ \A w \in Workers : ~Discard(t, w) /\ ~Resume(t, w)
      BY <2>0, <2>3 DEF Await, Discard, Resume, ThreadsOK
    <3> QED
      BY <1>2, <3>3, <3>4, <3>5, <3>6, <3>7, <3>8, <3>9, <3>10, <3>11, <3>12, <3>13, <3>14,
         <3>15, <3>16, <3>17, <3>18 DEF Progress, Chosen
  <2> QED
    BY <2>1, <2>2, <2>3 DEF FailuresOrdered
<1> QED
  BY <1>1, <1>2 DEF CleanupNext
-----------------------------------------------------------------------------
CleanupInv == DeinitsInv /\ FailuresOrdered

\* Ownership is divided and released in order, and failures are held back in
\* order, in every state of every program.
THEOREM CleanupCorrect ==
  ASSUME CleanupAssumption
  PROVE  CleanupSpec => []CleanupInv
<1>1. CleanupInit => CleanupInv
  BY CleanupInitially DEF CleanupInv
<1>2. CleanupInv /\ [CleanupNext]_cleanupVars => CleanupInv'
  <2> SUFFICES ASSUME CleanupInv, [CleanupNext]_cleanupVars PROVE CleanupInv'
    OBVIOUS
  <2>1. /\ CleanupShape /\ Ownership /\ Known /\ Teardown /\ FailuresOrdered /\ Divided
    BY DEF CleanupInv, DeinitsInv, Ownership, Known, Teardown, CleanupShape
  <2>2. StacksOK' /\ ThreadsOK'
    BY <2>1, ShapeOfStacks, ShapeOfThreads
  <2>3. Ownership' /\ Known' /\ Teardown'
    BY <2>1, OwnershipStep, KnownStep, TeardownKept
  <2>4. FailuresOrdered'
    BY <2>1, FailuresKept
  <2> QED
    BY <2>2, <2>3, <2>4 DEF CleanupInv, DeinitsInv, Ownership, Known, Teardown, CleanupShape
<1> QED
  BY <1>1, <1>2, PTL DEF CleanupSpec

\* Every release happens, and happens once and in reverse order, whatever
\* fails on the way (FrameStack::drop, OwnedFields::drop, Cleanup::run).
THEOREM CleanupDeinitsComplete ==
  ASSUME CleanupAssumption
  PROVE  CleanupSpec => []DeinitsComplete
<1>1. CleanupInv => DeinitsComplete
  BY CompleteFrom DEF CleanupInv
<1> QED
  BY <1>1, CleanupCorrect, PTL

\* An execution reports the first failure raised in it (Cleanup::run's
\* precedence, and the slot CLEANUP_FAILURE that failures pass through).
THEOREM CleanupFirstFailureReported ==
  ASSUME CleanupAssumption
  PROVE  CleanupSpec => []FirstFailureReported
<1>1. CleanupInv => FirstFailureReported
  BY DEF CleanupInv, FailuresOrdered, Faithful, FirstFailureReported, FirstOf
<1> QED
  BY <1>1, CleanupCorrect, PTL
=============================================================================
