--------------------------- MODULE MoveCheckProofs ---------------------------
(***************************************************************************)
(* The move checker is sound.  For every control-flow graph, with any      *)
(* branches and loops, over any places, a use in an accepted function      *)
(* finds the value complete, and no value whose deinit the checker finds   *)
(* (Guarded) has lost a part; and a function is rejected only if one of    *)
(* its paths is.                                                           *)
(***************************************************************************)
EXTENDS MoveCheck, WellFoundedInduction, SequenceTheorems, TLAPS

(***************************************************************************)
(* What the analysis may know, and when what it knows describes storage:   *)
(* a place that does not exist has a root that is not initialized, or      *)
(* something it is in was moved or deferred.                               *)
(***************************************************************************)
Fields ==
  {p \in Places : /\ Len(p) = 2 /\ p[2] # AnyIndex
                  /\ \A q \in Places : Root(q) = Root(p) /\ Len(q) > 1 => q[2] # AnyIndex}

KnownStates == [initialized : SUBSET {Root(p) : p \in Places},
                moved : SUBSET Places, deferred : SUBSET Fields]

\* p is in the place, or in an element the place may denote.
Covers(place, p) == Len(place) <= Len(p) /\ \A i \in 1..Len(place) : place[i] \in {p[i], AnyIndex}

Absent(state, p) ==
  \/ Root(p) \notin state.initialized
  \/ \E m \in state.moved \cup state.deferred : Covers(m, p)

Describes(state, storage) == \A p \in Storage \ storage : Absent(state, p)

\* Whatever the other state calls absent, this one does.
AtLeast(state, other) ==
  /\ state.initialized \subseteq other.initialized
  /\ other.moved \subseteq state.moved /\ other.deferred \subseteq state.deferred

(***************************************************************************)
(* The inductive invariant.  A block that is not queued has been passed    *)
(* with the state it has now, so the accepted states are a fixed point,    *)
(* and the run stays within them.                                          *)
(***************************************************************************)
Proper(op) == op \in [op : Operations, place : Places] /\ (op.op = "defer" => op.place \in Fields)
ProperBlock(b) ==
  /\ mir[b].ops \in Seq([op : Operations, place : Places])
  /\ \A i \in DOMAIN mir[b].ops : Proper(mir[b].ops[i])
  /\ mir[b].to \in Seq(DOMAIN mir)

MoveShaped ==
  /\ 1 \in DOMAIN mir /\ \A b \in DOMAIN mir : ProperBlock(b)
  /\ entries \in [DOMAIN mir -> KnownStates \cup {Unreached}]
  /\ work \in Seq(DOMAIN mir) /\ \A i \in DOMAIN work : entries[work[i]] # Unreached
  /\ verdict \in {"checking", "accepted", "rejected"}
  /\ verdict = "accepted" => work = <<>>
  /\ entries[1] # Unreached /\ entries[1].initialized = {}

StorageShaped ==
  /\ held \subseteq Storage /\ taken \subseteq Storage
  /\ at[1] \in DOMAIN mir /\ at[2] \in 1..Len(mir[at[1]].ops) + 1
  /\ at = <<at[1], at[2]>>
  /\ verdict # "accepted" => at = <<1, 1>> /\ held = {} /\ taken = {}

Leaving(b) == Last(Through(entries[b], mir[b].ops))

Passed(b) ==
  /\ ~RefusedIn(entries[b], mir[b].ops)
  /\ \A n \in Range(mir[b].to) : entries[n] # Unreached /\ AtLeast(entries[n], Leaving(b))

Settled ==
  verdict # "rejected" =>
    \A b \in DOMAIN mir : entries[b] # Unreached /\ b \notin Range(work) => Passed(b)

Followed ==
  verdict = "accepted" =>
    /\ entries[at[1]] # Unreached
    /\ Describes(Through(entries[at[1]], mir[at[1]].ops)[at[2]], held)

MoveInv == MoveShaped /\ StorageShaped /\ Settled /\ Followed /\ DeinitWhole
-----------------------------------------------------------------------------
(***************************************************************************)
(* Places, taken projection by projection.                                 *)
(***************************************************************************)
LEMMA PlaceIs ==
  ASSUME MoveAssumption, NEW p \in Places
  PROVE  /\ p \in Seq(Range(p)) /\ Len(p) \in Nat /\ Len(p) > 0 /\ DOMAIN p = 1..Len(p)
         /\ Root(p) = p[1] /\ p[1] \notin {AnyIndex, "unreached"}
<1>1. p \in Seq(Range(p)) /\ p # <<>> /\ Root(p) \notin {AnyIndex, "unreached"}
  BY DEF MoveAssumption
<1> HIDE DEF Range
<1> DEFINE S == Range(p)
<1>2. p \in Seq(S)
  BY <1>1
<1> HIDE DEF S
<1>3. Len(p) \in Nat /\ DOMAIN p = 1..Len(p) /\ Len(p) # 0 /\ Head(p) = p[1]
  BY <1>1, <1>2
<1> QED
  BY <1>1, <1>3 DEF Root

LEMMA ContainsIs ==
  ASSUME NEW S, NEW T, NEW p \in Seq(S), NEW q \in Seq(T)
  PROVE  PlaceContains(p, q) <=> Len(p) <= Len(q) /\ \A i \in 1..Len(p) : p[i] = q[i]
<1>1. Len(p) \in Nat /\ Len(q) \in Nat
  OBVIOUS
<1>2. CASE Len(p) <= Len(q)
  <2> DEFINE u == SubSeq(p, 1, Len(p))
             v == SubSeq(q, 1, Len(p))
  <2>1. u = [i \in 1..Len(p) |-> p[i]]
    BY <1>1
  <2>2. v = [i \in 1..Len(p) |-> q[i]]
    BY <1>1, <1>2
  <2> HIDE DEF u, v
  <2>3. u = v <=> \A i \in 1..Len(p) : p[i] = q[i]
    BY <2>1, <2>2
  <2> QED
    BY <1>2, <2>3 DEF u, v, PlaceContains, IsPrefix
<1>3. CASE ~(Len(p) <= Len(q))
  BY <1>3 DEF PlaceContains, IsPrefix
<1> QED
  BY <1>2, <1>3

LEMMA PlaceContainsIs ==
  ASSUME MoveAssumption, NEW p \in Places, NEW q \in Places
  PROVE  /\ PlaceContains(p, q) <=> Len(p) <= Len(q) /\ \A i \in 1..Len(p) : p[i] = q[i]
         /\ PlaceContains(p, q) /\ Len(p) = Len(q) => p = q
         /\ PlaceContains(p, q) => Root(p) = Root(q)
<1>1. /\ p \in Seq(Range(p)) /\ Len(p) \in Nat /\ Len(p) > 0 /\ DOMAIN p = 1..Len(p)
      /\ Root(p) = p[1]
  BY PlaceIs
<1>2. /\ q \in Seq(Range(q)) /\ Len(q) \in Nat /\ DOMAIN q = 1..Len(q) /\ Root(q) = q[1]
  BY PlaceIs
<1>3. PlaceContains(p, q) <=> Len(p) <= Len(q) /\ \A i \in 1..Len(p) : p[i] = q[i]
  BY <1>1, <1>2, ContainsIs
<1>4. PlaceContains(p, q) => 1 \in 1..Len(p) /\ p[1] = q[1]
  BY <1>1, <1>3
<1>5. ASSUME PlaceContains(p, q), Len(p) = Len(q) PROVE p = q
  <2> DEFINE S == Range(p)
             T == Range(q)
  <2>1. p \in Seq(S) /\ q \in Seq(T)
    BY <1>1, <1>2
  <2> HIDE DEF S, T
  <2>2. p = [i \in 1..Len(p) |-> p[i]] /\ q = [i \in 1..Len(q) |-> q[i]]
    BY <2>1
  <2> QED
    BY <1>3, <1>5, <2>2
<1> QED
  BY <1>1, <1>2, <1>3, <1>4, <1>5

\* What has the root of the place.
LEMMA WholeIs ==
  ASSUME MoveAssumption, NEW place \in Storage
  PROVE  Below(<<Root(place)>>) = {p \in Storage : Root(p) = Root(place)}
<1>1. ASSUME NEW p \in Storage
      PROVE  PlaceContains(<<Root(place)>>, p) <=> Root(p) = Root(place)
  <2> DEFINE r == <<Root(place)>>
  <2>1. p \in Seq(Range(p)) /\ Len(p) \in Nat /\ Len(p) > 0 /\ Root(p) = p[1]
    BY PlaceIs DEF Storage
  <2>2. r \in Seq({Root(place)}) /\ Len(r) = 1 /\ r[1] = Root(place)
    OBVIOUS
  <2> HIDE DEF r
  <2>3. PlaceContains(r, p) <=> Len(r) <= Len(p) /\ \A i \in 1..Len(r) : r[i] = p[i]
    BY <2>1, <2>2, ContainsIs
  <2>4. PlaceContains(r, p) <=> r[1] = p[1]
    BY <2>1, <2>2, <2>3
  <2> QED
    BY <2>1, <2>2, <2>4 DEF r
<1> QED
  BY <1>1 DEF Below

LEMMA DenotedIs ==
  ASSUME MoveAssumption, NEW place \in Places, NEW p \in Denoted(place)
  PROVE  /\ p \in Storage /\ p \in Places /\ Len(p) = Len(place) /\ Root(p) = Root(place)
         /\ \A i \in 1..Len(p) : place[i] \in {p[i], AnyIndex} /\ p[i] # AnyIndex
<1>1. p \in Storage /\ p \in Places /\ Denotes(place, p)
  BY DEF Denoted, Storage
<1>2. /\ DOMAIN p = 1..Len(p) /\ Len(p) \in Nat /\ Len(p) > 0 /\ Root(p) = p[1]
      /\ Root(place) = place[1] /\ place[1] # AnyIndex
  BY <1>1, PlaceIs
<1>3. \A i \in DOMAIN p : place[i] \in {p[i], AnyIndex} /\ p[i] # AnyIndex
  BY <1>1 DEF Denotes, Storage
<1>4. 1 \in DOMAIN p
  BY <1>2
<1>5. place[1] = p[1]
  BY <1>2, <1>3, <1>4
<1> QED
  BY <1>1, <1>2, <1>3, <1>5 DEF Denotes

\* A place and what it covers have the same root.
LEMMA CoversIs ==
  ASSUME MoveAssumption, NEW m \in Places, NEW p \in Storage, Covers(m, p)
  PROVE  /\ Root(m) = Root(p) /\ Len(m) \in Nat /\ Len(p) \in Nat /\ Len(m) <= Len(p)
         /\ \A i \in 1..Len(m) : m[i] \in {p[i], AnyIndex}
<1>1. /\ Len(m) \in Nat /\ Len(m) > 0 /\ Root(m) = m[1] /\ m[1] # AnyIndex
      /\ Len(p) \in Nat /\ Root(p) = p[1]
  BY PlaceIs DEF Storage
<1>2. 1 \in 1..Len(m)
  BY <1>1
<1> QED
  BY <1>1, <1>2 DEF Covers
-----------------------------------------------------------------------------
(***************************************************************************)
(* States: they are known from where nothing has arrived, and a join keeps *)
(* whatever is absent on either side.                                      *)
(***************************************************************************)
LEMMA KnownIs ==
  ASSUME MoveAssumption, NEW state \in KnownStates
  PROVE  /\ state # Unreached /\ state \in States
         /\ state.initialized \subseteq {Root(p) : p \in Places}
         /\ state.moved \subseteq Places /\ state.deferred \subseteq Fields
         /\ Fields \subseteq Places
<1>1. /\ state.initialized \subseteq {Root(p) : p \in Places}
      /\ state.moved \subseteq Places /\ state.deferred \subseteq Fields
      /\ state = [initialized |-> state.initialized, moved |-> state.moved,
                  deferred |-> state.deferred]
  BY DEF KnownStates
<1>2. Fields \subseteq Places
  BY DEF Fields
<1>3. "unreached" \notin {Root(p) : p \in Places}
  BY DEF MoveAssumption
<1>4. state # Unreached
  <2>1. Unreached.initialized = {"unreached"}
    BY DEF Unreached
  <2> QED
    BY <1>1, <1>3, <2>1
<1> QED
  BY <1>1, <1>2, <1>4 DEF States

LEMMA JoinIs ==
  ASSUME MoveAssumption, NEW old \in KnownStates \cup {Unreached}, NEW new \in KnownStates
  PROVE  /\ Join(old, new) \in KnownStates /\ AtLeast(Join(old, new), new)
         /\ old # Unreached => AtLeast(Join(old, new), old)
  BY DEF Join, KnownStates, AtLeast

LEMMA AtLeastTransitive ==
  ASSUME NEW s, NEW t, NEW u, AtLeast(s, t), AtLeast(t, u)
  PROVE  AtLeast(s, u)
  BY DEF AtLeast

LEMMA AtLeastDescribes ==
  ASSUME NEW s, NEW t, NEW storage, AtLeast(s, t), Describes(t, storage)
  PROVE  Describes(s, storage)
  BY DEF AtLeast, Describes, Absent

\* Nothing is claimed of what is not initialized.
LEMMA NothingDescribes ==
  ASSUME NEW s, s.initialized = {}
  PROVE  Describes(s, {})
  BY DEF Describes, Absent

LEMMA TransferKnown ==
  ASSUME MoveAssumption, NEW s \in KnownStates, NEW op, Proper(op)
  PROVE  Transfer(s, op) \in KnownStates
<1>1. /\ s.initialized \subseteq {Root(p) : p \in Places}
      /\ s.moved \subseteq Places /\ s.deferred \subseteq Fields
      /\ s = [initialized |-> s.initialized, moved |-> s.moved, deferred |-> s.deferred]
  BY DEF KnownStates
<1>2. /\ op.op \in Operations /\ op.place \in Places
      /\ op.op = "defer" => op.place \in Fields
  BY DEF Proper
<1>3. /\ Without(s.moved, Root(op.place)) \subseteq Places
      /\ Without(s.deferred, Root(op.place)) \subseteq Fields
  BY <1>1 DEF Without
<1>4. Root(op.place) \in {Root(p) : p \in Places}
  BY <1>2
<1>5. CASE op.op = "defer"
  BY <1>1, <1>2, <1>5 DEF Transfer, KnownStates
<1>6. CASE op.op = "read"
  BY <1>6 DEF Transfer
<1>7. CASE op.op = "write"
  BY <1>1, <1>7 DEF Transfer, KnownStates
<1>8. CASE op.op = "move"
  BY <1>1, <1>2, <1>3, <1>8 DEF Transfer, KnownStates
<1>9. CASE op.op = "init"
  BY <1>1, <1>3, <1>4, <1>9 DEF Transfer, KnownStates
<1>10. CASE op.op = "destroy"
  BY <1>1, <1>3, <1>10 DEF Transfer, KnownStates
<1> QED
  BY <1>2, <1>5, <1>6, <1>7, <1>8, <1>9, <1>10 DEF Operations
-----------------------------------------------------------------------------
(***************************************************************************)
(* A recursion over 0..n has a solution: the least length without one      *)
(* would extend the solution of the length before.                         *)
(***************************************************************************)
LEMMA LeastNumber ==
  ASSUME NEW S \in SUBSET Nat, S # {}
  PROVE  \E x \in S : \A y \in S : x <= y
<1> DEFINE R == OpToRel(<, Nat)
<1>1. IsWellFoundedOn(R, Nat)
  BY NatLessThanWellFounded
<1>2. \A x, y \in Nat : y < x => <<y, x>> \in R
  BY DEF OpToRel
<1> HIDE DEF R
<1>3. PICK x \in S : \A y \in S : ~(<<y, x>> \in R)
  BY <1>1, WFMin
<1>4. \A y \in S : ~(y < x)
  BY <1>2, <1>3, Zenon
<1> QED
  BY <1>4

\* next[i] takes the value at i - 1 to the one at i.
Iterates(f, base, next, S, n) ==
  f \in [0..n -> S] /\ f[0] = base /\ \A i \in 1..n : f[i] = next[i][f[i - 1]]

LEMMA IterationExists ==
  ASSUME NEW S, NEW base \in S, NEW n \in Nat, NEW next \in [1..n -> [S -> S]]
  PROVE  \E f : Iterates(f, base, next, S, n)
<1> DEFINE Unsolved == {m \in 0..n : ~\E f : Iterates(f, base, next, S, m)}
<1> SUFFICES ASSUME Unsolved # {} PROVE FALSE
  <2>1. n \in 0..n
    OBVIOUS
  <2> QED
    BY <2>1
<1>0. Unsolved \subseteq Nat
  OBVIOUS
<1>1. PICK k \in Unsolved : \A m \in Unsolved : k <= m
  BY <1>0, LeastNumber
<1>2. CASE k = 0
  <2> DEFINE g == [i \in 0..0 |-> base]
  <2>1. Iterates(g, base, next, S, 0)
    BY DEF Iterates
  <2> QED
    BY <1>1, <1>2, <2>1
<1>3. CASE k # 0
  <2>1. k \in 1..n /\ k - 1 \in 0..n /\ ~(k <= k - 1) /\ k - 1 \in 0..(k - 1)
    BY <1>1, <1>3
  <2>2. k - 1 \notin Unsolved
    BY <1>1, <2>1, Zenon
  <2>3. PICK f : Iterates(f, base, next, S, k - 1)
    BY <2>1, <2>2
  <2>4. f[k - 1] \in S
    BY <2>1, <2>3 DEF Iterates
  <2>5. next[k][f[k - 1]] \in S
    BY <2>1, <2>4
  <2> DEFINE g == [i \in 0..k |-> IF i = k THEN next[k][f[k - 1]] ELSE f[i]]
  <2>6. g \in [0..k -> S] /\ g[0] = base
    <3>1. ASSUME NEW i \in 0..k PROVE g[i] \in S
      <4>1. i # k => i \in 0..(k - 1)
        BY <2>1
      <4> QED
        BY <2>3, <2>5, <4>1 DEF Iterates
    <3>2. g[0] = f[0]
      BY <1>3, <2>1
    <3> QED
      BY <2>3, <3>1, <3>2 DEF Iterates
  <2>7. ASSUME NEW i \in 1..k PROVE g[i] = next[i][g[i - 1]]
    <3>1. CASE i = k
      <4>1. g[i] = next[k][f[k - 1]] /\ g[i - 1] = f[k - 1]
        BY <2>1, <3>1
      <4> QED
        BY <3>1, <4>1
    <3>2. CASE i # k
      <4>1. i \in 1..(k - 1) /\ i - 1 \in 0..k /\ i - 1 # k /\ i \in 0..k
        BY <2>1, <3>2
      <4>2. f[i] = next[i][f[i - 1]]
        BY <2>3, <4>1 DEF Iterates
      <4> QED
        BY <3>2, <4>1, <4>2
    <3> QED
      BY <3>1, <3>2
  <2>8. Iterates(g, base, next, S, k)
    BY <2>6, <2>7 DEF Iterates
  <2> QED
    BY <1>1, <2>8
<1> QED
  BY <1>2, <1>3

(***************************************************************************)
(* The states through a block.                                             *)
(***************************************************************************)
StateAt(states, state, ops, i) == IF i = 1 THEN state ELSE Transfer(states[i - 1], ops[i - 1])

LEMMA ThroughIs ==
  ASSUME MoveAssumption, NEW state \in KnownStates,
         NEW ops \in Seq([op : Operations, place : Places]),
         \A i \in DOMAIN ops : Proper(ops[i])
  PROVE  /\ Through(state, ops) \in Seq(KnownStates)
         /\ Len(Through(state, ops)) = Len(ops) + 1
         /\ Through(state, ops)[1] = state
         /\ \A i \in 1..Len(ops) :
              Through(state, ops)[i + 1] = Transfer(Through(state, ops)[i], ops[i])
<1> DEFINE n == Len(ops)
           next == [i \in 1..n |-> [s \in KnownStates |-> Transfer(s, ops[i])]]
           Solves(f) == f = [i \in 1..n + 1 |-> StateAt(f, state, ops, i)]
           states == CHOOSE f : Solves(f)
<1>1. n \in Nat /\ DOMAIN ops = 1..n
  OBVIOUS
<1>2. next \in [1..n -> [KnownStates -> KnownStates]]
  <2>1. ASSUME NEW i \in 1..n, NEW s \in KnownStates PROVE Transfer(s, ops[i]) \in KnownStates
    BY <1>1, <2>1, TransferKnown
  <2> QED
    BY <2>1
<1>3. PICK g : Iterates(g, state, next, KnownStates, n)
  BY <1>1, <1>2, IterationExists
<1> DEFINE h == [i \in 1..n + 1 |-> g[i - 1]]
<1>4. Solves(h)
  <2>1. ASSUME NEW i \in 1..n + 1 PROVE h[i] = StateAt(h, state, ops, i)
    <3>1. CASE i = 1
      BY <1>1, <1>3, <3>1 DEF Iterates, StateAt
    <3>2. CASE i # 1
      <4>1. i - 1 \in 1..n /\ i - 1 \in 1..n + 1 /\ (i - 1) - 1 \in 0..n
        BY <1>1, <3>2
      <4>2. g[i - 1] = next[i - 1][g[(i - 1) - 1]] /\ g[(i - 1) - 1] \in KnownStates
        BY <1>3, <4>1 DEF Iterates
      <4>3. g[i - 1] = Transfer(g[(i - 1) - 1], ops[i - 1])
        BY <4>1, <4>2
      <4>4. h[i] = g[i - 1] /\ h[i - 1] = g[(i - 1) - 1]
        BY <4>1
      <4> QED
        BY <3>2, <4>3, <4>4 DEF StateAt
    <3> QED
      BY <3>1, <3>2
  <2> HIDE DEF h
  <2>2. h = [i \in 1..n + 1 |-> h[i]]
    BY DEF h
  <2> QED
    BY <2>1, <2>2
<1>5. Solves(states)
  <2> HIDE DEF Solves, h
  <2> QED
    BY <1>4
<1>6. Through(state, ops) = states
  BY Zenon DEF Through, StateAt
<1> HIDE DEF states
<1>7. \A i \in 1..n + 1 : states[i] = StateAt(states, state, ops, i)
  BY <1>5
<1>8. states[1] = state /\ \A i \in 1..n : states[i + 1] = Transfer(states[i], ops[i])
  <2>1. ASSUME NEW i \in 1..n PROVE states[i + 1] = Transfer(states[i], ops[i])
    <3>1. i + 1 \in 1..n + 1 /\ i + 1 # 1 /\ (i + 1) - 1 = i
      BY <1>1
    <3> QED
      BY <1>7, <3>1 DEF StateAt
  <2>2. 1 \in 1..n + 1
    BY <1>1
  <2> QED
    BY <1>7, <2>1, <2>2 DEF StateAt
<1>9. \A i \in 1..n + 1 : states[i] \in KnownStates
  <2> DEFINE Strange == {i \in 1..n + 1 : states[i] \notin KnownStates}
  <2> SUFFICES ASSUME Strange # {} PROVE FALSE
    OBVIOUS
  <2>0. Strange \subseteq Nat
    OBVIOUS
  <2>1. PICK k \in Strange : \A m \in Strange : k <= m
    BY <2>0, LeastNumber
  <2>2. k # 1
    BY <1>8, <2>1
  <2>3. k - 1 \in 1..n /\ k - 1 \in 1..n + 1 /\ ~(k <= k - 1) /\ (k - 1) + 1 = k
    BY <1>1, <2>1, <2>2
  <2>4. states[k - 1] \in KnownStates
    BY <2>1, <2>3
  <2>5. Proper(ops[k - 1])
    BY <1>1, <2>3
  <2>6. Transfer(states[k - 1], ops[k - 1]) \in KnownStates
    BY <2>4, <2>5, TransferKnown
  <2>7. states[k] = Transfer(states[k - 1], ops[k - 1])
    BY <1>8, <2>3
  <2> QED
    BY <2>1, <2>6, <2>7
<1>10. states = [i \in 1..n + 1 |-> StateAt(states, state, ops, i)]
  BY <1>5
<1>11. DOMAIN states = 1..n + 1
  BY <1>10
<1>12. states \in [1..n + 1 -> KnownStates]
  BY <1>9, <1>10, <1>11
<1>13. states \in Seq(KnownStates) /\ Len(states) = n + 1
  BY <1>1, <1>12
<1> QED
  BY <1>6, <1>8, <1>13
-----------------------------------------------------------------------------
(***************************************************************************)
(* The successors of a block: what was known is weakened only, every block *)
(* whose state changed is queued, and each successor takes in the state.   *)
(***************************************************************************)
Arrivals == [entries : [DOMAIN mir -> KnownStates \cup {Unreached}], work : Seq(DOMAIN mir)]

Grown(known, later) ==
  /\ \A b \in DOMAIN mir : known.entries[b] # Unreached =>
       later.entries[b] # Unreached /\ AtLeast(later.entries[b], known.entries[b])
  /\ \A b \in DOMAIN mir : later.entries[b] = known.entries[b] \/ b \in Range(later.work)
  /\ Range(known.work) \subseteq Range(later.work)
  /\ \A b \in Range(later.work) \cap DOMAIN mir :
       b \in Range(known.work) \/ later.entries[b] # Unreached

TakesIn(known, b, state) == known.entries[b] # Unreached /\ AtLeast(known.entries[b], state)

LEMMA GrownTransitive ==
  ASSUME NEW r, NEW s, NEW t, Grown(r, s), Grown(s, t)
  PROVE  Grown(r, t)
<1>1. ASSUME NEW b \in DOMAIN mir, r.entries[b] # Unreached
      PROVE  t.entries[b] # Unreached /\ AtLeast(t.entries[b], r.entries[b])
  <2>1. s.entries[b] # Unreached /\ AtLeast(s.entries[b], r.entries[b])
    BY <1>1 DEF Grown
  <2>2. t.entries[b] # Unreached /\ AtLeast(t.entries[b], s.entries[b])
    BY <2>1 DEF Grown
  <2> QED
    BY <2>1, <2>2, AtLeastTransitive
<1>2. \A b \in DOMAIN mir : t.entries[b] = r.entries[b] \/ b \in Range(t.work)
  BY DEF Grown
<1>3. /\ Range(r.work) \subseteq Range(t.work)
      /\ \A b \in Range(t.work) \cap DOMAIN mir : b \in Range(r.work) \/ t.entries[b] # Unreached
  BY DEF Grown
<1> QED
  BY <1>1, <1>2, <1>3 DEF Grown

LEMMA RangeOfAppend ==
  ASSUME NEW S, NEW s \in Seq(S), NEW e
  PROVE  Range(Append(s, e)) = Range(s) \cup {e}
<1>1. /\ Len(Append(s, e)) = Len(s) + 1 /\ Len(s) \in Nat /\ DOMAIN s = 1..Len(s)
      /\ DOMAIN Append(s, e) = 1..Len(s) + 1
      /\ \A i \in 1..Len(s) : Append(s, e)[i] = s[i]
      /\ Append(s, e)[Len(s) + 1] = e
  OBVIOUS
<1> DEFINE t == Append(s, e)
           n == Len(s)
<1> HIDE DEF t, n
<1>2. 1..n + 1 = 1..n \cup {n + 1}
  BY <1>1 DEF n
<1> QED
  BY <1>1, <1>2 DEF Range, t, n

LEMMA ArriveIs ==
  ASSUME MoveAssumption, NEW known \in Arrivals, NEW next \in DOMAIN mir, NEW state \in KnownStates
  PROVE  LET later == Arrive(known, next, state)
         IN  later \in Arrivals /\ Grown(known, later) /\ TakesIn(later, next, state)
<1> DEFINE joined == Join(known.entries[next], state)
           later == Arrive(known, next, state)
<1>1. /\ known.entries \in [DOMAIN mir -> KnownStates \cup {Unreached}]
      /\ known.work \in Seq(DOMAIN mir)
      /\ known.entries[next] \in KnownStates \cup {Unreached}
  BY DEF Arrivals
<1>2. /\ joined \in KnownStates /\ AtLeast(joined, state)
      /\ known.entries[next] # Unreached => AtLeast(joined, known.entries[next])
  BY <1>1, JoinIs
<1>3. joined # Unreached
  BY <1>2, KnownIs
<1>4. \A s : AtLeast(s, s)
  BY DEF AtLeast
<1> HIDE DEF joined
<1>5. CASE joined = known.entries[next]
  <2>1. later = known
    BY <1>5 DEF Arrive, joined
  <2> QED
    BY <1>2, <1>3, <1>4, <1>5, <2>1 DEF Grown, TakesIn
<1>6. CASE joined # known.entries[next]
  <2>1. later = [entries |-> [known.entries EXCEPT ![next] = joined],
                 work |-> Append(known.work, next)]
    BY <1>6 DEF Arrive, joined
  <2> HIDE DEF later
  <2>2. later.entries = [known.entries EXCEPT ![next] = joined]
    BY <2>1
  <2>3. later.work = Append(known.work, next)
    BY <2>1
  <2>4. later \in Arrivals
    BY <1>1, <1>2, <2>1 DEF Arrivals
  <2>5. Range(later.work) = Range(known.work) \cup {next}
    BY <1>1, <2>3, RangeOfAppend
  <2>6. /\ later.entries[next] = joined
        /\ \A b \in DOMAIN mir : b # next => later.entries[b] = known.entries[b]
    BY <1>1, <2>2
  <2>7. Grown(known, later)
    BY <1>2, <1>3, <1>4, <2>5, <2>6 DEF Grown
  <2>8. TakesIn(later, next, state)
    BY <1>2, <1>3, <2>6 DEF TakesIn
  <2> QED
    BY <2>4, <2>7, <2>8 DEF later
<1> QED
  BY <1>5, <1>6

KnownAfter(known, state, successors, i) ==
  IF i = 0 THEN [entries |-> entries, work |-> Tail(work)]
  ELSE Arrive(known[i - 1], successors[i], state)

\* One successor after the other.
Arriving(known, state, successors) ==
  /\ known[0] = [entries |-> entries, work |-> Tail(work)]
  /\ \A i \in 1..Len(successors) : known[i] = Arrive(known[i - 1], successors[i], state)
  /\ Propagate(state, successors) = known[Len(successors)]

LEMMA PropagateSteps ==
  ASSUME MoveAssumption, NEW state \in KnownStates, NEW successors \in Seq(DOMAIN mir),
         [entries |-> entries, work |-> Tail(work)] \in Arrivals
  PROVE  \E known : Arriving(known, state, successors)
<1> DEFINE n == Len(successors)
           base == [entries |-> entries, work |-> Tail(work)]
           next == [i \in 1..n |-> [k \in Arrivals |-> Arrive(k, successors[i], state)]]
           Solves(f) == f = [i \in 0..n |-> KnownAfter(f, state, successors, i)]
           known == CHOOSE f : Solves(f)
<1>1. n \in Nat /\ DOMAIN successors = 1..n /\ \A i \in 1..n : successors[i] \in DOMAIN mir
  OBVIOUS
<1>2. next \in [1..n -> [Arrivals -> Arrivals]]
  <2>1. ASSUME NEW i \in 1..n, NEW k \in Arrivals PROVE Arrive(k, successors[i], state) \in Arrivals
    BY <1>1, <2>1, ArriveIs
  <2> QED
    BY <2>1
<1>3. PICK g : Iterates(g, base, next, Arrivals, n)
  BY <1>1, <1>2, IterationExists
<1>4. Solves(g)
  <2>1. ASSUME NEW i \in 0..n PROVE g[i] = KnownAfter(g, state, successors, i)
    <3>1. CASE i = 0
      BY <1>3, <3>1 DEF Iterates, KnownAfter
    <3>2. CASE i # 0
      <4>1. i \in 1..n /\ i - 1 \in 0..n
        BY <1>1, <3>2
      <4>2. g[i] = next[i][g[i - 1]] /\ g[i - 1] \in Arrivals
        BY <1>3, <4>1 DEF Iterates
      <4> QED
        BY <3>2, <4>1, <4>2 DEF KnownAfter
    <3> QED
      BY <3>1, <3>2
  <2>2. g = [i \in 0..n |-> g[i]]
    BY <1>3 DEF Iterates
  <2> QED
    BY <2>1, <2>2
<1>5. Solves(known)
  <2> HIDE DEF Solves
  <2> QED
    BY <1>4
<1>6. Propagate(state, successors) = known[n]
  BY Zenon DEF Propagate, KnownAfter
<1> HIDE DEF known
<1>7. \A i \in 0..n : known[i] = KnownAfter(known, state, successors, i)
  BY <1>5
<1>8. known[0] = base /\ \A i \in 1..n : known[i] = Arrive(known[i - 1], successors[i], state)
  <2>1. ASSUME NEW i \in 1..n PROVE known[i] = Arrive(known[i - 1], successors[i], state)
    <3>1. i \in 0..n /\ i # 0
      BY <1>1
    <3> QED
      BY <1>7, <3>1 DEF KnownAfter
  <2>2. 0 \in 0..n
    BY <1>1
  <2> QED
    BY <1>7, <2>1, <2>2 DEF KnownAfter
<1> HIDE DEF base
<1> QED
  BY <1>6, <1>8 DEF Arriving, base

LEMMA PropagateIs ==
  ASSUME MoveAssumption, NEW state \in KnownStates, NEW successors \in Seq(DOMAIN mir),
         [entries |-> entries, work |-> Tail(work)] \in Arrivals
  PROVE  /\ Propagate(state, successors) \in Arrivals
         /\ Grown([entries |-> entries, work |-> Tail(work)], Propagate(state, successors))
         /\ \A b \in Range(successors) : TakesIn(Propagate(state, successors), b, state)
<1> DEFINE n == Len(successors)
           base == [entries |-> entries, work |-> Tail(work)]
<1>1. n \in Nat /\ DOMAIN successors = 1..n /\ \A i \in 1..n : successors[i] \in DOMAIN mir
  OBVIOUS
<1>7. PICK known : Arriving(known, state, successors)
  BY PropagateSteps
<1>8. /\ known[0] = base /\ Propagate(state, successors) = known[n]
      /\ \A i \in 1..n : known[i] = Arrive(known[i - 1], successors[i], state)
  BY <1>7 DEF Arriving
<1> DEFINE Good(i) == /\ known[i] \in Arrivals /\ Grown(base, known[i])
                      /\ \A j \in 1..i : TakesIn(known[i], successors[j], state)
           Bad == {i \in 0..n : ~Good(i)}
<1> HIDE DEF base
<1>9. Bad = {}
  <2> SUFFICES ASSUME Bad # {} PROVE FALSE
    OBVIOUS
  <2>0. Bad \subseteq Nat
    OBVIOUS
  <2>1. PICK k \in Bad : \A m \in Bad : k <= m
    BY <2>0, LeastNumber
  <2>2. k # 0
    <3>1. Grown(base, base)
      BY DEF Grown, AtLeast
    <3>2. base \in Arrivals
      BY DEF base
    <3>3. Good(0)
      BY <1>8, <3>1, <3>2
    <3> QED
      BY <2>1, <3>3
  <2>3. k \in 1..n /\ k - 1 \in 0..n /\ ~(k <= k - 1)
    BY <1>1, <2>1, <2>2
  <2>4. Good(k - 1)
    BY <2>1, <2>3
  <2>5. /\ known[k] \in Arrivals /\ Grown(known[k - 1], known[k])
        /\ TakesIn(known[k], successors[k], state)
    <3>1. known[k] = Arrive(known[k - 1], successors[k], state)
      BY <1>8, <2>3
    <3>2. successors[k] \in DOMAIN mir /\ known[k - 1] \in Arrivals
      BY <1>1, <2>3, <2>4
    <3> QED
      BY <3>1, <3>2, ArriveIs
  <2>6. Grown(base, known[k])
    BY <2>4, <2>5, GrownTransitive
  <2>7. ASSUME NEW j \in 1..k PROVE TakesIn(known[k], successors[j], state)
    <3>1. CASE j = k
      BY <2>5, <3>1
    <3>2. CASE j # k
      <4>1. j \in 1..k - 1 /\ j \in 1..n
        BY <2>3, <3>2
      <4>2. TakesIn(known[k - 1], successors[j], state) /\ successors[j] \in DOMAIN mir
        BY <1>1, <2>4, <4>1
      <4> QED
        BY <2>5, <4>2, AtLeastTransitive DEF Grown, TakesIn, AtLeast
    <3> QED
      BY <3>1, <3>2
  <2>8. Good(k)
    BY <2>5, <2>6, <2>7
  <2> QED
    BY <2>1, <2>8
<1>10. Good(n)
  <2>1. n \in 0..n
    BY <1>1
  <2> HIDE DEF Good
  <2> QED
    BY <1>9, <2>1
<1>11. Range(successors) = {successors[j] : j \in 1..n}
  BY <1>1 DEF Range
<1> QED
  BY <1>8, <1>10, <1>11 DEF base
-----------------------------------------------------------------------------
(***************************************************************************)
(* One operation: the state after it describes the storage after it, and   *)
(* one that is not refused finds what it uses.                             *)
(***************************************************************************)
LEMMA OperateDescribed ==
  ASSUME MoveAssumption, NEW s \in KnownStates, NEW op, Proper(op), held \subseteq Storage,
         Describes(s, held), NEW place \in Denoted(op.place), Operate(op, place)
  PROVE  Describes(Transfer(s, op), held') /\ held' \subseteq Storage
<1> DEFINE after == Transfer(s, op)
           root == Root(op.place)
<1>1. /\ op.op \in Operations /\ op.place \in Places
      /\ op.op = "defer" => op.place \in Fields
  BY DEF Proper
<1>2. /\ place \in Storage /\ place \in Places /\ Len(place) = Len(op.place)
      /\ Root(place) = root
      /\ \A i \in 1..Len(place) : op.place[i] \in {place[i], AnyIndex} /\ place[i] # AnyIndex
  BY <1>1, DenotedIs
<1>3. Below(<<root>>) = {p \in Storage : Root(p) = root}
  BY <1>2, WholeIs
<1>4. Below(place) \subseteq Storage
  BY DEF Below
<1>5. s.moved \subseteq Places /\ s.deferred \subseteq Places
  BY KnownIs
<1>6. ASSUME NEW p \in Storage, p \notin held PROVE Absent(s, p)
  BY <1>6 DEF Describes
\* What is below the place is in what the operation names.
<1>7. ASSUME NEW p \in Below(place) PROVE Covers(op.place, p)
  <2>1. p \in Storage /\ p \in Places /\ PlaceContains(place, p)
    BY DEF Below, Storage
  <2>2. Len(place) <= Len(p) /\ \A i \in 1..Len(place) : place[i] = p[i]
    BY <1>2, <2>1, PlaceContainsIs
  <2> QED
    BY <1>2, <2>2 DEF Covers
<1>8. CASE op.op = "defer"
  <2>1. held' = held \ Below(place)
    BY <1>1, <1>8 DEF Operate
  <2>2. after = [s EXCEPT !.deferred = @ \cup {op.place}]
    BY <1>8 DEF Transfer
  <2>3. /\ after.initialized = s.initialized /\ after.moved = s.moved
        /\ after.deferred = s.deferred \cup {op.place}
    BY <2>2 DEF KnownStates
  <2> HIDE DEF after
  <2>4. ASSUME NEW p \in Storage, p \notin held' PROVE Absent(after, p)
    <3>1. CASE p \in Below(place)
      BY <1>7, <2>3, <3>1 DEF Absent
    <3>2. CASE p \notin Below(place)
      <4>1. Absent(s, p)
        BY <1>6, <2>1, <2>4, <3>2
      <4> QED
        BY <2>3, <4>1 DEF Absent
    <3> QED
      BY <3>1, <3>2
  <2> QED
    BY <2>1, <2>4 DEF Describes, after
<1>9. CASE op.op = "read"
  BY <1>9 DEF Operate, Transfer
<1>10. CASE op.op = "write"
  <2>1. held' = held \cup Below(place)
    BY <1>1, <1>10 DEF Operate
  <2>2. after = [s EXCEPT !.deferred = {m \in @ : ~PlaceContains(op.place, m)}]
    BY <1>10 DEF Transfer
  <2>3. /\ after.initialized = s.initialized /\ after.moved = s.moved
        /\ after.deferred = {m \in s.deferred : ~PlaceContains(op.place, m)}
    BY <2>2 DEF KnownStates
  <2> HIDE DEF after
  <2>4. ASSUME NEW p \in Storage, p \notin held' PROVE Absent(after, p)
    <3>1. Absent(s, p) /\ p \notin Below(place)
      BY <1>6, <2>1, <2>4
    \* A deferred place that is written is named exactly: fields are not indexed.
    <3>2. ASSUME NEW m \in s.deferred, Covers(m, p), PlaceContains(op.place, m)
          PROVE  FALSE
      <4>1. m \in Places /\ m \in Fields
        BY <1>5, KnownIs
      <4>2. /\ Root(m) = Root(p) /\ Len(m) <= Len(p)
            /\ \A i \in 1..Len(m) : m[i] \in {p[i], AnyIndex}
        BY <3>2, <4>1, CoversIs
      <4>3. /\ Len(op.place) <= Len(m)
            /\ \A i \in 1..Len(op.place) : op.place[i] = m[i]
        BY <1>1, <3>2, <4>1, PlaceContainsIs
      <4>4. Len(m) = 2 /\ m[2] # AnyIndex /\ m[1] # AnyIndex
        BY <4>1, PlaceIs DEF Fields
      <4>5. \A i \in 1..Len(m) : m[i] = p[i]
        <5>1. 1..Len(m) = {1, 2}
          BY <4>4
        <5> QED
          BY <4>2, <4>4, <5>1
      <4>6. Len(place) \in Nat /\ Len(m) \in Nat /\ Len(p) \in Nat /\ p \in Places
        BY <1>2, <4>1, PlaceIs DEF Storage
      <4>7. ASSUME NEW i \in 1..Len(place) PROVE place[i] = p[i]
        <5>1. i \in 1..Len(op.place) /\ i \in 1..Len(m)
          BY <1>2, <4>3, <4>6
        <5>2. op.place[i] = m[i] /\ m[i] = p[i] /\ p[i] # AnyIndex
          <6>1. m[i] # AnyIndex
            <7>1. i \in {1, 2}
              BY <4>4, <5>1
            <7> QED
              BY <4>4, <7>1
          <6> QED
            BY <4>3, <4>5, <5>1, <6>1
        <5> QED
          BY <1>2, <5>2
      <4>8. Len(place) <= Len(p)
        BY <1>2, <4>2, <4>3, <4>6
      <4>9. PlaceContains(place, p)
        BY <1>2, <4>6, <4>7, <4>8, PlaceContainsIs
      <4> QED
        BY <3>1, <4>9 DEF Below
    <3> QED
      BY <2>3, <3>1, <3>2 DEF Absent
  <2> QED
    BY <1>4, <2>1, <2>4 DEF Describes, after
<1>11. CASE op.op = "move"
  <2>1. held' = held \ Below(place)
    BY <1>1, <1>11 DEF Operate
  <2>2. CASE Len(op.place) = 1
    <3>1. after = [s EXCEPT !.initialized = @ \ {root}, !.moved = Without(@, root)]
      BY <1>11, <2>2 DEF Transfer
    <3>2. /\ after.initialized = s.initialized \ {root}
          /\ after.moved = {m \in s.moved : Root(m) # root}
          /\ after.deferred = s.deferred
      BY <3>1 DEF KnownStates, Without
    <3> HIDE DEF after
    <3>3. ASSUME NEW p \in Storage, p \notin held' PROVE Absent(after, p)
      <4>1. CASE Root(p) = root
        BY <3>2, <4>1 DEF Absent
      <4>2. CASE Root(p) # root
        <5>1. p \in Places
          BY DEF Storage
        <5>2. p \notin Below(place)
          BY <1>2, <4>2, <5>1, PlaceContainsIs DEF Below
        <5>3. Absent(s, p)
          BY <1>6, <2>1, <3>3, <5>2
        <5>4. \A m \in s.moved : Covers(m, p) => Root(m) # root
          BY <1>5, <4>2, CoversIs
        <5> QED
          BY <3>2, <5>3, <5>4 DEF Absent
      <4> QED
        BY <4>1, <4>2
    <3> QED
      BY <2>1, <3>3 DEF Describes, after
  <2>3. CASE Len(op.place) # 1
    <3>1. after = [s EXCEPT !.moved = @ \cup {op.place}]
      BY <1>11, <2>3 DEF Transfer
    <3>2. /\ after.initialized = s.initialized /\ after.moved = s.moved \cup {op.place}
          /\ after.deferred = s.deferred
      BY <3>1 DEF KnownStates
    <3> HIDE DEF after
    <3>3. ASSUME NEW p \in Storage, p \notin held' PROVE Absent(after, p)
      <4>1. CASE p \in Below(place)
        BY <1>7, <3>2, <4>1 DEF Absent
      <4>2. CASE p \notin Below(place)
        <5>1. Absent(s, p)
          BY <1>6, <2>1, <3>3, <4>2
        <5> QED
          BY <3>2, <5>1 DEF Absent
      <4> QED
        BY <4>1, <4>2
    <3> QED
      BY <2>1, <3>3 DEF Describes, after
  <2> QED
    BY <2>2, <2>3
<1>12. CASE op.op = "init"
  <2>1. held' = held \cup Below(<<root>>)
    BY <1>1, <1>2, <1>12 DEF Operate
  <2>2. /\ after.initialized = s.initialized \cup {root}
        /\ after.moved = {m \in s.moved : Root(m) # root}
        /\ after.deferred = {m \in s.deferred : Root(m) # root}
    BY <1>12 DEF Transfer, Without
  <2> HIDE DEF after
  <2>3. ASSUME NEW p \in Storage, p \notin held' PROVE Absent(after, p)
    <3>1. Root(p) # root /\ Absent(s, p)
      BY <1>3, <1>6, <2>1, <2>3
    <3>2. \A m \in s.moved \cup s.deferred : Covers(m, p) => Root(m) # root
      BY <1>5, <3>1, CoversIs
    <3> QED
      BY <2>2, <3>1, <3>2 DEF Absent
  <2> QED
    BY <1>3, <2>1, <2>3 DEF Describes, after
<1>13. CASE op.op = "destroy"
  <2>1. held' = held \ Below(<<root>>)
    BY <1>1, <1>2, <1>13 DEF Operate
  <2>2. /\ after.initialized = s.initialized \ {root}
        /\ after.moved = {m \in s.moved : Root(m) # root}
        /\ after.deferred = {m \in s.deferred : Root(m) # root}
    BY <1>13 DEF Transfer, Without
  <2> HIDE DEF after
  <2>3. ASSUME NEW p \in Storage, p \notin held' PROVE Absent(after, p)
    <3>1. CASE Root(p) = root
      BY <2>2, <3>1 DEF Absent
    <3>2. CASE Root(p) # root
      <4>1. Absent(s, p)
        BY <1>3, <1>6, <2>1, <2>3, <3>2
      <4>2. \A m \in s.moved \cup s.deferred : Covers(m, p) => Root(m) # root
        BY <1>5, <3>2, CoversIs
      <4> QED
        BY <2>2, <4>1, <4>2 DEF Absent
    <3> QED
      BY <3>1, <3>2
  <2> QED
    BY <2>1, <2>3 DEF Describes, after
<1> QED
  BY <1>1, <1>8, <1>9, <1>10, <1>11, <1>12, <1>13 DEF Operations

\* What is in the place, and what it is in, goes the way the operation names.
LEMMA AlongIs ==
  ASSUME MoveAssumption, NEW named \in Places, NEW place \in Denoted(named),
         NEW p \in Below(place) \cup Above(place)
  PROVE  /\ p \in Storage /\ p \in Places /\ Root(p) = Root(named)
         /\ Len(p) \in Nat /\ Len(place) \in Nat /\ Len(named) = Len(place)
         /\ \A i \in 1..Len(p) : p[i] # AnyIndex
         /\ \A i \in 1..Len(p) : i <= Len(named) => named[i] \in {p[i], AnyIndex}
<1>1. /\ place \in Storage /\ place \in Places /\ Len(place) = Len(named)
      /\ Root(place) = Root(named)
      /\ \A i \in 1..Len(place) : named[i] \in {place[i], AnyIndex}
  BY DenotedIs
<1>2. /\ p \in Storage /\ p \in Places
      /\ PlaceContains(place, p) \/ PlaceContains(p, place)
  BY DEF Below, Above, Storage
<1>3. /\ Len(p) \in Nat /\ DOMAIN p = 1..Len(p) /\ Len(place) \in Nat
  BY <1>1, <1>2, PlaceIs
<1>4. /\ Root(p) = Root(place)
      /\ \A i \in 1..Len(p) : i <= Len(place) => p[i] = place[i]
  <2>1. CASE PlaceContains(place, p)
    BY <1>1, <1>2, <1>3, <2>1, PlaceContainsIs
  <2>2. CASE PlaceContains(p, place)
    BY <1>1, <1>2, <1>3, <2>2, PlaceContainsIs
  <2> QED
    BY <1>2, <2>1, <2>2
<1>5. ASSUME NEW i \in 1..Len(p), i <= Len(named) PROVE named[i] \in {p[i], AnyIndex}
  <2>1. i \in 1..Len(place) /\ p[i] = place[i]
    BY <1>1, <1>3, <1>4, <1>5
  <2> QED
    BY <1>1, <2>1
<1>6. \A i \in 1..Len(p) : p[i] # AnyIndex
  BY <1>2, <1>3 DEF Storage
<1> QED
  BY <1>1, <1>2, <1>3, <1>4, <1>5, <1>6

\* What is absent along the place overlaps what the operation names.
LEMMA AbsentOverlaps ==
  ASSUME MoveAssumption, NEW named \in Places, NEW place \in Denoted(named),
         NEW p \in Below(place) \cup Above(place), NEW m \in Places, Covers(m, p)
  PROVE  PlacesOverlap(m, named)
<1>1. /\ p \in Storage /\ Root(p) = Root(named) /\ Len(p) \in Nat /\ Len(named) \in Nat
      /\ \A i \in 1..Len(p) : i <= Len(named) => named[i] \in {p[i], AnyIndex}
  BY AlongIs
<1>2. /\ Root(m) = Root(p) /\ Len(m) \in Nat /\ Len(m) <= Len(p)
      /\ \A i \in 1..Len(m) : m[i] \in {p[i], AnyIndex}
  BY <1>1, CoversIs
<1>3. m[1] = named[1]
  BY <1>1, <1>2, PlaceIs
<1>4. ASSUME NEW i \in 1..Len(m) \cap 1..Len(named)
      PROVE  m[i] = named[i] \/ (i > 1 /\ AnyIndex \in {m[i], named[i]})
  <2>1. i \in 1..Len(p) /\ i <= Len(named) /\ (i = 1 \/ i > 1)
    BY <1>1, <1>2
  <2>2. named[i] \in {p[i], AnyIndex} /\ m[i] \in {p[i], AnyIndex}
    BY <1>1, <1>2, <2>1
  <2> QED
    BY <1>3, <2>1, <2>2
<1> QED
  BY <1>4 DEF PlacesOverlap

LEMMA UseFinds ==
  ASSUME MoveAssumption, NEW s \in KnownStates, NEW op, Proper(op), ~Refused(s, op),
         Describes(s, held), NEW place \in Denoted(op.place)
  PROVE  Finds(op, place)
<1>1. op.op \in Operations /\ op.place \in Places
  BY DEF Proper
<1>2. s.moved \subseteq Places /\ s.deferred \subseteq Fields /\ Fields \subseteq Places
  BY KnownIs
<1>3. ASSUME op.op \in Uses
      PROVE  /\ Deferring(s, op) = {} /\ Root(op.place) \in s.initialized
             /\ \A m \in s.moved : ~PlacesOverlap(m, op.place)
  BY <1>3 DEF Refused, PlaceIsUsable
<1>4. ASSUME op.op \in Uses, NEW p \in Below(place) \cup Above(place), p \notin held
      PROVE  \E m \in s.deferred : Covers(m, p) /\ PlacesOverlap(m, op.place)
  <2>1. p \in Storage /\ Root(p) = Root(op.place)
    BY <1>1, AlongIs
  <2>2. Absent(s, p)
    BY <1>4, <2>1 DEF Describes
  <2>3. PICK m \in s.moved \cup s.deferred : Covers(m, p)
    BY <1>3, <1>4, <2>1, <2>2 DEF Absent
  <2>4. PlacesOverlap(m, op.place)
    BY <1>1, <1>2, <2>3, AbsentOverlaps
  <2> QED
    BY <1>3, <1>4, <2>3, <2>4
<1>5. CASE op.op \in {"read", "move"}
  <2>1. op.op \in Uses /\ op.op # "write"
    BY <1>5 DEF Uses
  <2>2. \A p \in Below(place) \cup Above(place) : p \in held
    BY <1>3, <1>4, <2>1 DEF Deferring
  <2> QED
    BY <1>5, <2>2 DEF Finds
<1>6. CASE op.op = "write"
  <2>1. op.op \in Uses
    BY <1>6 DEF Uses
  <2>2. ASSUME NEW p \in Above(place), p \notin held PROVE FALSE
    <3>1. PICK m \in s.deferred : Covers(m, p)
      BY <1>4, <2>1, <2>2
    <3>2. /\ p \in Storage /\ p \in Places /\ Root(p) = Root(op.place)
          /\ Len(p) \in Nat /\ Len(place) \in Nat /\ Len(op.place) = Len(place)
          /\ \A i \in 1..Len(p) : i <= Len(op.place) => op.place[i] \in {p[i], AnyIndex}
      BY <1>1, AlongIs
    <3>3. Len(p) < Len(place)
      <4>1. place \in Places /\ PlaceContains(p, place) /\ p # place
        BY <1>1, DenotedIs DEF Above
      <4>2. Len(p) <= Len(place) /\ Len(p) # Len(place)
        BY <3>2, <4>1, PlaceContainsIs
      <4> QED
        BY <3>2, <4>2
    <3>4. /\ m \in Places /\ m \in Fields /\ Len(m) = 2 /\ m[2] # AnyIndex
          /\ \A q \in Places : Root(q) = Root(m) /\ Len(q) > 1 => q[2] # AnyIndex
      BY <1>2 DEF Fields
    <3>5. /\ Root(m) = Root(p) /\ Len(m) <= Len(p)
          /\ \A i \in 1..Len(m) : m[i] \in {p[i], AnyIndex}
      BY <3>1, <3>2, <3>4, CoversIs
    <3>6. 2 \in 1..Len(m) /\ 2 \in 1..Len(p) /\ 2 <= Len(op.place) /\ Len(op.place) > 1
      BY <3>2, <3>3, <3>4, <3>5
    \* The field is named exactly.
    <3>7. m[2] = op.place[2]
      <4>1. m[2] = p[2]
        BY <3>4, <3>5, <3>6
      <4>2. op.place[2] # AnyIndex
        BY <1>1, <3>2, <3>4, <3>5, <3>6
      <4> QED
        BY <3>2, <3>6, <4>1, <4>2
    <3>8. m[1] = op.place[1]
      BY <1>1, <3>2, <3>4, <3>5, PlaceIs
    <3>9. PlaceContains(m, op.place)
      <4>1. 1..Len(m) = {1, 2}
        BY <3>4
      <4>2. \A i \in 1..Len(m) : m[i] = op.place[i]
        BY <3>7, <3>8, <4>1
      <4>3. Len(m) <= Len(op.place)
        BY <3>4, <3>6
      <4> QED
        BY <1>1, <3>4, <4>2, <4>3, PlaceContainsIs
    <3>10. m # op.place
      <4> DEFINE length == Len(op.place)
      <4>1. 2 < length /\ length \in Nat
        BY <3>2, <3>3, <3>4, <3>5
      <4> HIDE DEF length
      <4>2. length # 2
        BY <4>1
      <4> QED
        BY <3>4, <4>2 DEF length
    <3> QED
      BY <1>3, <1>6, <2>1, <3>9, <3>10 DEF Deferring
  <2> QED
    BY <1>6, <2>2 DEF Finds
<1>7. CASE op.op \notin {"read", "move", "write"}
  BY <1>7 DEF Finds
<1> QED
  BY <1>5, <1>6, <1>7

LEMMA DeinitKept ==
  ASSUME MoveAssumption, NEW s, NEW op, Proper(op), ~Refused(s, op), DeinitWhole,
         held \subseteq Storage, taken \subseteq Storage,
         NEW place \in Denoted(op.place), Operate(op, place)
  PROVE  DeinitWhole' /\ taken' \subseteq Storage
<1>1. op.op \in Operations /\ op.place \in Places
  BY DEF Proper
<1>2. /\ place \in Storage /\ place \in Places /\ Len(place) = Len(op.place)
      /\ Root(place) = Root(op.place)
      /\ \A i \in 1..Len(place) : op.place[i] \in {place[i], AnyIndex}
  BY <1>1, DenotedIs
<1>3. Below(<<Root(op.place)>>) = {p \in Storage : Root(p) = Root(op.place)}
  BY <1>2, WholeIs
<1>4. Below(place) \subseteq Storage
  BY DEF Below
<1>5. \A p \in Storage : p \in Places
  BY DEF Storage
<1>6. ASSUME NEW owner \in Guarded \cap held, NEW part \in Below(owner), part # owner
      PROVE  part \notin taken
  BY <1>6 DEF DeinitWhole, Whole
<1>7. ASSUME NEW owner \in Storage, NEW part \in Below(owner)
      PROVE  /\ part \in Storage /\ part \in Places /\ owner \in Places
             /\ Root(part) = Root(owner) /\ Len(owner) \in Nat /\ Len(part) \in Nat
             /\ Len(owner) <= Len(part) /\ \A i \in 1..Len(owner) : owner[i] = part[i]
  <2>1. part \in Storage /\ PlaceContains(owner, part) /\ part \in Places /\ owner \in Places
    BY <1>5 DEF Below
  <2> QED
    BY <2>1, PlaceContainsIs, PlaceIs
<1>8. CASE op.op = "init"
  <2>1. /\ held' = held \cup Below(<<Root(op.place)>>)
        /\ taken' = taken \ Below(<<Root(op.place)>>)
    BY <1>2, <1>8 DEF Operate
  <2>2. ASSUME NEW owner \in Guarded \cap held', NEW part \in Below(owner), part # owner
        PROVE  part \notin taken'
    <3>1. owner \in Storage
      BY <1>3, <2>1
    <3>2. CASE Root(owner) = Root(op.place)
      BY <1>3, <1>7, <2>1, <3>1, <3>2
    <3>3. CASE Root(owner) # Root(op.place)
      BY <1>3, <1>6, <2>1, <2>2, <3>3
    <3> QED
      BY <3>2, <3>3
  <2> QED
    BY <2>1, <2>2 DEF DeinitWhole, Whole, Below, Storage
<1>9. CASE op.op = "destroy"
  <2>1. held' \subseteq held /\ taken' \subseteq taken
    BY <1>9 DEF Operate
  <2> QED
    BY <1>6, <2>1 DEF DeinitWhole, Whole, Below, Storage
<1>10. CASE op.op \in {"defer", "read"}
  <2>1. held' \subseteq held /\ taken' = taken
    BY <1>10 DEF Operate
  <2> QED
    BY <1>6, <2>1 DEF DeinitWhole, Whole, Below, Storage
<1>11. CASE op.op = "write"
  <2>1. held' = held \cup Below(place) /\ taken' = taken \ Below(place)
    BY <1>11 DEF Operate
  <2>2. ASSUME NEW owner \in Guarded \cap held', NEW part \in Below(owner), part # owner
        PROVE  part \notin taken'
    <3>1. CASE owner \in Below(place)
      <4>1. /\ owner \in Storage /\ Len(place) \in Nat
            /\ Len(place) <= Len(owner) /\ \A i \in 1..Len(place) : place[i] = owner[i]
        BY <1>2, <1>7, <3>1
      <4>2. /\ part \in Storage /\ part \in Places /\ Len(owner) \in Nat /\ Len(part) \in Nat
            /\ Len(owner) <= Len(part) /\ \A i \in 1..Len(owner) : owner[i] = part[i]
        BY <1>7, <2>2, <4>1
      <4>3. Len(place) <= Len(part) /\ \A i \in 1..Len(place) : i \in 1..Len(owner)
        BY <4>1, <4>2
      <4>4. PlaceContains(place, part)
        BY <1>2, <4>1, <4>2, <4>3, PlaceContainsIs
      <4> QED
        BY <2>1, <4>2, <4>4 DEF Below
    <3>2. CASE owner \notin Below(place)
      BY <1>6, <2>1, <2>2, <3>2
    <3> QED
      BY <3>1, <3>2
  <2> QED
    BY <2>1, <2>2 DEF DeinitWhole, Whole, Below, Storage
<1>12. CASE op.op = "move"
  <2>1. held' = held \ Below(place) /\ taken' = taken \cup Below(place)
    BY <1>12 DEF Operate
  <2>2. ~MovesOutOfDrop(op.place)
    BY <1>12 DEF Refused, Uses
  <2>3. ASSUME NEW owner \in Guarded \cap held', NEW part \in Below(owner), part # owner,
               part \in taken'
        PROVE  FALSE
    <3>1. owner \in held /\ owner \in Storage /\ owner \notin Below(place) /\ owner \in Guarded
      BY <2>1
    <3>2. part \in Below(place)
      BY <1>6, <2>1, <2>3, <3>1
    <3>3. /\ Len(place) \in Nat /\ Len(place) <= Len(part)
          /\ \A i \in 1..Len(place) : place[i] = part[i]
      BY <1>2, <1>7, <3>2
    <3>4. /\ owner \in Places /\ Len(owner) \in Nat /\ Len(part) \in Nat
          /\ Len(owner) <= Len(part) /\ \A i \in 1..Len(owner) : owner[i] = part[i]
      BY <1>7, <2>3, <3>1
    <3>5. Len(owner) < Len(place)
      <4>1. SUFFICES ASSUME Len(place) <= Len(owner) PROVE FALSE
        BY <3>3, <3>4
      <4>2. \A i \in 1..Len(place) : i \in 1..Len(owner) /\ place[i] = owner[i]
        BY <3>3, <3>4, <4>1
      <4>3. PlaceContains(place, owner)
        BY <1>2, <3>4, <4>1, <4>2, PlaceContainsIs
      <4> QED
        BY <3>1, <4>3 DEF Below
    <3>6. \A i \in 1..Len(owner) : op.place[i] \in {owner[i], AnyIndex}
      <4>1. ASSUME NEW i \in 1..Len(owner) PROVE op.place[i] \in {owner[i], AnyIndex}
        <5>1. i \in 1..Len(place)
          BY <3>3, <3>4, <3>5
        <5> QED
          BY <1>2, <3>3, <3>4, <5>1
      <4> QED
        BY <4>1
    <3> DEFINE above == SubSeq(op.place, 1, Len(owner))
    <3>7. above \in Guarded
      <4>1. DOMAIN owner = 1..Len(owner) /\ owner \in Guarded \cap Places
        BY <3>1, <3>4, PlaceIs
      <4>2. Len(owner) <= Len(op.place)
        BY <1>2, <3>3, <3>4, <3>5
      <4> QED
        BY <1>1, <3>6, <4>1, <4>2 DEF MoveAssumption
    <3>8. /\ Len(above) = Len(owner) /\ above \in Seq(Range(op.place))
          /\ \A i \in 1..Len(owner) : above[i] = op.place[i]
      <4> DEFINE S == Range(op.place)
      <4>1. op.place \in Seq(S)
        BY <1>1, PlaceIs
      <4> HIDE DEF S
      <4>2. Len(owner) <= Len(op.place) /\ Len(op.place) \in Nat
        BY <1>2, <3>3, <3>4, <3>5
      <4>3. above = [i \in 1..Len(owner) |-> op.place[i]]
        BY <3>4, <4>1, <4>2
      <4>4. \A i \in 1..Len(owner) : op.place[i] \in S
        BY <3>4, <4>1, <4>2
      <4> HIDE DEF above
      <4>5. Len(above) = Len(owner) /\ above \in Seq(S)
        BY <3>4, <4>3, <4>4
      <4> QED
        BY <4>3, <4>5 DEF S
    <3> HIDE DEF above
    <3>9. PlaceContains(above, op.place)
      <4>1. op.place \in Seq(Range(op.place))
        BY <1>1, PlaceIs
      <4>2. Len(above) <= Len(op.place)
        BY <1>2, <3>3, <3>4, <3>5, <3>8
      <4> HIDE DEF Range
      <4> QED
        BY <3>8, <4>1, <4>2, ContainsIs
    <3>10. above # op.place
      BY <1>2, <3>3, <3>4, <3>5, <3>8
    <3> QED
      BY <2>2, <3>7, <3>9, <3>10 DEF MovesOutOfDrop
  <2> QED
    BY <1>4, <2>1, <2>3 DEF DeinitWhole, Whole, Below, Storage
<1> QED
  BY <1>1, <1>8, <1>9, <1>10, <1>11, <1>12 DEF Operations
-----------------------------------------------------------------------------
(***************************************************************************)
(* Every step keeps the invariant.                                         *)
(***************************************************************************)
LEMMA InitMoveInv ==
  ASSUME MoveAssumption, MoveInit
  PROVE  MoveInv
<1>1. /\ mir \in Functions /\ work = <<1>> /\ verdict = "checking"
      /\ entries = [b \in DOMAIN mir |-> IF b = 1 THEN AtEntry ELSE Unreached]
      /\ at = <<1, 1>> /\ held = {} /\ taken = {}
  BY DEF MoveInit
<1>2. /\ mir # <<>> /\ DOMAIN mir = 1..Len(mir)
      /\ \A b \in DOMAIN mir :
           /\ mir[b].ops \in Seq([op : Operations, place : Places])
           /\ mir[b].to \in Seq(DOMAIN mir)
           /\ \A i \in DOMAIN mir[b].ops :
                mir[b].ops[i].op = "defer" /\ mir[b].ops[i].place \in Places =>
                  mir[b].ops[i].place \in Fields
  BY <1>1 DEF MoveAssumption, Fields
<1>3. 1 \in DOMAIN mir
  BY <1>2
<1>4. ASSUME NEW b \in DOMAIN mir PROVE ProperBlock(b)
  <2>1. ASSUME NEW i \in DOMAIN mir[b].ops PROVE Proper(mir[b].ops[i])
    <3> DEFINE Ops == [op : Operations, place : Places]
               ops == mir[b].ops
    <3>0. ops \in Seq(Ops) /\ i \in DOMAIN ops
      BY <1>2
    <3> HIDE DEF Ops, ops
    <3>1. ops[i] \in Ops
      BY <3>0
    <3> USE DEF Ops, ops
    <3>2. mir[b].ops[i].place \in Places
      BY <3>1
    <3> QED
      BY <1>2, <3>1, <3>2 DEF Proper
  <2> QED
    BY <1>2, <2>1 DEF ProperBlock
<1>5. AtEntry \in KnownStates /\ AtEntry # Unreached
  BY DEF AtEntry, KnownStates, Unreached
<1>6. MoveShaped
  BY <1>1, <1>3, <1>4, <1>5 DEF MoveShaped, AtEntry
<1>7. StorageShaped
  <2>1. mir[1].ops \in Seq([op : Operations, place : Places])
    BY <1>2, <1>3
  <2>2. 1 \in 1..Len(mir[1].ops) + 1
    BY <2>1
  <2> QED
    BY <1>1, <1>3, <2>2 DEF StorageShaped
<1>8. Settled
  <2>1. 1 \in Range(work)
    BY <1>1 DEF Range
  <2> QED
    BY <1>1, <2>1 DEF Settled
<1>9. Followed /\ DeinitWhole
  BY <1>1 DEF Followed, DeinitWhole, Whole
<1> QED
  BY <1>6, <1>7, <1>8, <1>9 DEF MoveInv

\* A block taken off the queue leaves the others on it.
LEMMA RangeOfTail ==
  ASSUME NEW S, NEW s \in Seq(S), s # <<>>
  PROVE  /\ Head(s) \in S /\ Tail(s) \in Seq(S) /\ Head(s) \in Range(s)
         /\ Range(s) = {Head(s)} \cup Range(Tail(s))
<1>1. Len(s) \in Nat /\ DOMAIN s = 1..Len(s) /\ Len(s) > 0 /\ Head(s) = s[1]
  OBVIOUS
<1>2. /\ Tail(s) \in Seq(S) /\ Len(Tail(s)) = Len(s) - 1
      /\ DOMAIN Tail(s) = 1..Len(s) - 1
      /\ \A i \in 1..Len(s) - 1 : Tail(s)[i] = s[i + 1]
  OBVIOUS
<1> DEFINE t == Tail(s)
           n == Len(s)
<1> HIDE DEF t, n
<1>3. \A i \in 1..n : i = 1 \/ (i - 1 \in 1..n - 1 /\ (i - 1) + 1 = i)
  BY <1>1 DEF n
<1>4. \A i \in 1..n - 1 : i + 1 \in 1..n
  BY <1>1 DEF n
<1>5. Range(s) \subseteq {s[1]} \cup Range(t)
  <2>1. ASSUME NEW i \in 1..n PROVE s[i] = s[1] \/ s[i] \in Range(t)
    <3>1. CASE i = 1
      BY <3>1
    <3>2. CASE i # 1
      <4>1. i - 1 \in 1..n - 1 /\ (i - 1) + 1 = i
        BY <1>3, <3>2
      <4>2. t[i - 1] = s[i] /\ i - 1 \in DOMAIN t
        BY <1>2, <4>1 DEF t, n
      <4> QED
        BY <4>2 DEF Range
    <3> QED
      BY <3>1, <3>2
  <2> QED
    BY <1>1, <2>1 DEF Range, n
<1>6. {s[1]} \cup Range(t) \subseteq Range(s)
  <2>1. 1 \in 1..n
    BY <1>1 DEF n
  <2> QED
    BY <1>1, <1>2, <1>4, <2>1 DEF Range, t, n
<1> QED
  BY <1>1, <1>2, <1>5, <1>6 DEF t, n, Range

\* The states through a block, with what the invariant says of it.
LEMMA LeavingIs ==
  ASSUME MoveAssumption, MoveShaped, NEW b \in DOMAIN mir, entries[b] # Unreached
  PROVE  /\ entries[b] \in KnownStates /\ Len(mir[b].ops) \in Nat
         /\ DOMAIN mir[b].ops = 1..Len(mir[b].ops)
         /\ \A i \in 1..Len(mir[b].ops) : Proper(mir[b].ops[i])
         /\ \A i \in 1..Len(mir[b].ops) + 1 : Through(entries[b], mir[b].ops)[i] \in KnownStates
         /\ Through(entries[b], mir[b].ops)[1] = entries[b]
         /\ \A i \in 1..Len(mir[b].ops) :
              Through(entries[b], mir[b].ops)[i + 1] =
                Transfer(Through(entries[b], mir[b].ops)[i], mir[b].ops[i])
         /\ Leaving(b) = Through(entries[b], mir[b].ops)[Len(mir[b].ops) + 1]
         /\ Leaving(b) \in KnownStates
<1>1. /\ ProperBlock(b) /\ entries[b] \in KnownStates
  BY DEF MoveShaped
<1>2. /\ mir[b].ops \in Seq([op : Operations, place : Places])
      /\ \A i \in DOMAIN mir[b].ops : Proper(mir[b].ops[i])
  BY <1>1 DEF ProperBlock
<1> DEFINE states == Through(entries[b], mir[b].ops)
           n == Len(mir[b].ops)
<1>3. n \in Nat /\ DOMAIN mir[b].ops = 1..n
  BY <1>2
<1>4. /\ states \in Seq(KnownStates) /\ Len(states) = n + 1 /\ states[1] = entries[b]
      /\ \A i \in 1..n : states[i + 1] = Transfer(states[i], mir[b].ops[i])
  BY <1>1, <1>2, ThroughIs
<1>5. Leaving(b) = states[Len(states)]
  BY DEF Leaving, Last
<1> HIDE DEF states, n
<1>6. \A i \in 1..n + 1 : states[i] \in KnownStates
  BY <1>3, <1>4
<1>7. n + 1 \in 1..n + 1
  BY <1>3
<1> QED
  BY <1>1, <1>2, <1>3, <1>4, <1>5, <1>6, <1>7 DEF states, n

LEMMA CheckBlockKeeps ==
  ASSUME MoveAssumption, MoveInv, CheckBlock
  PROVE  MoveInv'
<1> DEFINE b == Head(work)
           next == Propagate(Leaving(b), mir[b].to)
           base == [entries |-> entries, work |-> Tail(work)]
<1>1. /\ verdict = "checking" /\ work # <<>>
      /\ mir' = mir /\ at' = at /\ held' = held /\ taken' = taken
  BY DEF CheckBlock, runVars
<1>2. /\ MoveShaped /\ StorageShaped /\ Settled /\ DeinitWhole
  BY DEF MoveInv
<1>3. /\ 1 \in DOMAIN mir /\ \A c \in DOMAIN mir : ProperBlock(c)
      /\ entries \in [DOMAIN mir -> KnownStates \cup {Unreached}]
      /\ work \in Seq(DOMAIN mir) /\ \A i \in DOMAIN work : entries[work[i]] # Unreached
      /\ entries[1] # Unreached /\ entries[1].initialized = {}
  BY <1>2 DEF MoveShaped
<1>4. DeinitWhole'
  BY <1>1, <1>2 DEF DeinitWhole, Whole, Below, Storage
<1>5. CASE RefusedIn(entries[b], mir[b].ops)
  <2>1. verdict' = "rejected" /\ entries' = entries /\ work' = work
    BY <1>5 DEF CheckBlock
  <2>2. MoveShaped'
    BY <1>1, <1>3, <2>1 DEF MoveShaped, ProperBlock
  <2>3. StorageShaped'
    BY <1>1, <1>2, <2>1 DEF StorageShaped, Storage
  <2> QED
    BY <1>4, <2>1, <2>2, <2>3 DEF MoveInv, Settled, Followed
<1>6. CASE ~RefusedIn(entries[b], mir[b].ops)
  <2>1. verdict' = verdict /\ entries' = next.entries /\ work' = next.work
    BY <1>6 DEF CheckBlock, Leaving
  <2>2. /\ b \in DOMAIN mir /\ Tail(work) \in Seq(DOMAIN mir) /\ b \in Range(work)
        /\ Range(work) = {b} \cup Range(Tail(work))
    BY <1>1, <1>3, RangeOfTail
  <2>3. entries[b] # Unreached
    BY <1>3, <2>2 DEF Range
  <2>4. Leaving(b) \in KnownStates /\ mir[b].to \in Seq(DOMAIN mir)
    BY <1>2, <1>3, <2>2, <2>3, LeavingIs DEF ProperBlock
  <2>5. base \in Arrivals
    BY <1>3, <2>2 DEF Arrivals
  <2> HIDE DEF base, b
  <2>6. /\ next \in Arrivals /\ Grown(base, next)
        /\ \A c \in Range(mir[b].to) : TakesIn(next, c, Leaving(b))
    BY <2>4, <2>5, PropagateIs DEF base
  <2>7. base.entries = entries /\ base.work = Tail(work)
    BY DEF base
  <2> HIDE DEF next
  <2>8. /\ entries' \in [DOMAIN mir -> KnownStates \cup {Unreached}]
        /\ work' \in Seq(DOMAIN mir)
    BY <2>1, <2>6 DEF Arrivals
  <2>9. /\ \A c \in DOMAIN mir : entries[c] # Unreached =>
              entries'[c] # Unreached /\ AtLeast(entries'[c], entries[c])
        /\ \A c \in DOMAIN mir : entries'[c] = entries[c] \/ c \in Range(work')
        /\ Range(Tail(work)) \subseteq Range(work')
        /\ \A c \in Range(work') \cap DOMAIN mir :
              c \in Range(Tail(work)) \/ entries'[c] # Unreached
    BY <2>1, <2>6, <2>7 DEF Grown
  <2>10. \A c \in Range(work) : entries[c] # Unreached
    BY <1>3 DEF Range
  <2>11. \A i \in DOMAIN work' : work'[i] \in DOMAIN mir /\ work'[i] \in Range(work')
    BY <2>8 DEF Range
  <2>12. \A i \in DOMAIN work' : entries'[work'[i]] # Unreached
    BY <2>2, <2>9, <2>10, <2>11
  <2>13. entries'[1] # Unreached /\ entries'[1].initialized = {}
    BY <1>3, <2>9 DEF AtLeast
  <2>14. MoveShaped'
    <3>1. \A c \in DOMAIN mir' : ProperBlock(c)'
      BY <1>1, <1>3 DEF ProperBlock
    <3> QED
      BY <1>1, <1>3, <2>1, <2>8, <2>12, <2>13, <3>1 DEF MoveShaped
  <2>15. StorageShaped'
    BY <1>1, <1>2, <2>1 DEF StorageShaped, Storage
  \* A block not queued has the state it had: it was passed before, or is the
  \* one passed now.
  <2>16. ASSUME NEW c \in DOMAIN mir, entries'[c] # Unreached, c \notin Range(work')
         PROVE  Passed(c)'
    <3>1. entries'[c] = entries[c] /\ Leaving(c)' = Leaving(c)
      BY <1>1, <2>9, <2>16 DEF Leaving
    <3>2. CASE c = b
      <4>1. \A n \in Range(mir[b].to) : entries'[n] # Unreached /\ AtLeast(entries'[n], Leaving(b))
        BY <2>1, <2>6 DEF TakesIn
      <4> QED
        BY <1>1, <1>6, <3>1, <3>2, <4>1 DEF Passed, RefusedIn, b
    <3>3. CASE c # b
      <4>1. c \notin Range(work)
        BY <2>2, <2>9, <2>16, <3>3
      <4>2. Passed(c)
        BY <1>1, <1>2, <2>16, <3>1, <4>1 DEF Settled
      <4>3. ASSUME NEW n \in Range(mir[c].to)
            PROVE  entries'[n] # Unreached /\ AtLeast(entries'[n], Leaving(c))
        <5>1. entries[n] # Unreached /\ AtLeast(entries[n], Leaving(c))
          BY <4>2 DEF Passed
        <5>2. n \in DOMAIN mir
          BY <1>3 DEF ProperBlock, Range
        <5>3. entries'[n] # Unreached /\ AtLeast(entries'[n], entries[n])
          BY <2>9, <5>1, <5>2
        <5> QED
          BY <5>1, <5>3, AtLeastTransitive
      <4> QED
        BY <1>1, <3>1, <4>2, <4>3 DEF Passed, RefusedIn
    <3> QED
      BY <3>2, <3>3
  <2>17. Settled'
    BY <1>1, <2>16 DEF Settled
  <2> QED
    BY <1>1, <1>4, <2>1, <2>14, <2>15, <2>17 DEF MoveInv, Followed
<1> QED
  BY <1>5, <1>6

LEMMA AcceptKeeps ==
  ASSUME MoveAssumption, MoveInv, Accept
  PROVE  MoveInv'
<1>1. /\ verdict = "checking" /\ work = <<>> /\ verdict' = "accepted"
      /\ mir' = mir /\ entries' = entries /\ work' = work
      /\ at' = at /\ held' = held /\ taken' = taken
  BY DEF Accept, runVars
<1>2. MoveShaped /\ StorageShaped /\ Settled /\ DeinitWhole
  BY DEF MoveInv
<1>3. MoveShaped'
  BY <1>1, <1>2 DEF MoveShaped, ProperBlock
<1>4. StorageShaped'
  BY <1>1, <1>2 DEF StorageShaped, Storage
<1>5. Settled'
  <2>1. \A b \in DOMAIN mir : Passed(b)' <=> Passed(b)
    BY <1>1 DEF Passed, Leaving, RefusedIn
  <2> QED
    BY <1>1, <1>2, <2>1 DEF Settled
<1>6. Followed'
  <2>1. /\ at = <<1, 1>> /\ held = {} /\ 1 \in DOMAIN mir
        /\ entries[1] # Unreached /\ entries[1].initialized = {}
    BY <1>1, <1>2 DEF StorageShaped, MoveShaped
  <2>2. Through(entries[1], mir[1].ops)[1] = entries[1]
    BY <1>2, <2>1, LeavingIs
  <2>3. Describes(Through(entries[1], mir[1].ops)[1], {})
    BY <2>1, <2>2, NothingDescribes
  <2>4. at[1] = 1 /\ at[2] = 1
    BY <2>1
  <2> QED
    BY <1>1, <2>1, <2>3, <2>4 DEF Followed, Describes, Storage
<1>7. DeinitWhole'
  BY <1>1, <1>2 DEF DeinitWhole, Whole, Below, Storage
<1> QED
  BY <1>3, <1>4, <1>5, <1>6, <1>7 DEF MoveInv

LEMMA ExecuteKeeps ==
  ASSUME MoveAssumption, MoveInv, Execute
  PROVE  MoveInv'
<1> DEFINE b == at[1]
           i == at[2]
           op == mir[b].ops[i]
           s == Through(entries[b], mir[b].ops)[i]
<1>1. /\ verdict = "accepted" /\ i <= Len(mir[b].ops)
      /\ mir' = mir /\ entries' = entries /\ work' = work /\ verdict' = verdict
      /\ at' = <<b, i + 1>>
  BY DEF Execute, checkVars
<1>2. PICK place \in Denoted(op.place) : Operate(op, place)
  BY DEF Execute
<1>3. MoveShaped /\ StorageShaped /\ Settled /\ Followed /\ DeinitWhole
  BY DEF MoveInv
<1>4. /\ b \in DOMAIN mir /\ i \in 1..Len(mir[b].ops) + 1
      /\ held \subseteq Storage /\ taken \subseteq Storage
  BY <1>3 DEF StorageShaped
<1>5. entries[b] # Unreached /\ Describes(s, held)
  BY <1>1, <1>3 DEF Followed
<1>6. work = <<>>
  BY <1>1, <1>3 DEF MoveShaped
<1>7. /\ Len(mir[b].ops) \in Nat /\ DOMAIN mir[b].ops = 1..Len(mir[b].ops)
      /\ \A j \in 1..Len(mir[b].ops) : Proper(mir[b].ops[j])
      /\ \A j \in 1..Len(mir[b].ops) + 1 : Through(entries[b], mir[b].ops)[j] \in KnownStates
      /\ \A j \in 1..Len(mir[b].ops) :
           Through(entries[b], mir[b].ops)[j + 1] =
             Transfer(Through(entries[b], mir[b].ops)[j], mir[b].ops[j])
  BY <1>3, <1>4, <1>5, LeavingIs
<1>8. i \in 1..Len(mir[b].ops) /\ i + 1 \in 1..Len(mir[b].ops) + 1
  BY <1>1, <1>4, <1>7
<1>9. /\ Proper(op) /\ s \in KnownStates
      /\ Through(entries[b], mir[b].ops)[i + 1] = Transfer(s, op)
  BY <1>4, <1>7, <1>8
<1>10. ~Refused(s, op)
  <2>1. Passed(b)
    BY <1>1, <1>3, <1>4, <1>5, <1>6 DEF Settled, Range
  <2> QED
    BY <1>7, <1>8, <2>1 DEF Passed, RefusedIn
<1> HIDE DEF s, op, b, i
<1>11. Describes(Transfer(s, op), held') /\ held' \subseteq Storage
  BY <1>2, <1>4, <1>5, <1>9, OperateDescribed
<1>12. DeinitWhole' /\ taken' \subseteq Storage
  BY <1>2, <1>3, <1>4, <1>9, <1>10, DeinitKept
<1>13. at'[1] = b /\ at'[2] = i + 1
  BY <1>1
<1>14. MoveShaped'
  BY <1>1, <1>3 DEF MoveShaped, ProperBlock
<1>15. StorageShaped'
  BY <1>1, <1>4, <1>8, <1>11, <1>12, <1>13 DEF StorageShaped, Storage
<1>16. Settled'
  <2>1. \A c \in DOMAIN mir : Passed(c)' <=> Passed(c)
    BY <1>1 DEF Passed, Leaving, RefusedIn
  <2> QED
    BY <1>1, <1>3, <2>1 DEF Settled
<1>17. Followed'
  BY <1>1, <1>5, <1>9, <1>11, <1>13 DEF Followed, Describes, Storage
<1> QED
  BY <1>12, <1>14, <1>15, <1>16, <1>17 DEF MoveInv

LEMMA BranchKeeps ==
  ASSUME MoveAssumption, MoveInv, Branch
  PROVE  MoveInv'
<1> DEFINE b == at[1]
<1>1. /\ verdict = "accepted" /\ at[2] > Len(mir[b].ops)
      /\ mir' = mir /\ entries' = entries /\ work' = work /\ verdict' = verdict
      /\ held' = held /\ taken' = taken
  BY DEF Branch, checkVars
<1>2. PICK next \in Range(mir[b].to) : at' = <<next, 1>>
  BY DEF Branch
<1>3. MoveShaped /\ StorageShaped /\ Settled /\ Followed /\ DeinitWhole
  BY DEF MoveInv
<1>4. b \in DOMAIN mir /\ at[2] \in 1..Len(mir[b].ops) + 1
  BY <1>3 DEF StorageShaped
<1>5. entries[b] # Unreached /\ Describes(Through(entries[b], mir[b].ops)[at[2]], held)
  BY <1>1, <1>3 DEF Followed
<1>6. work = <<>>
  BY <1>1, <1>3 DEF MoveShaped
<1>7. /\ Len(mir[b].ops) \in Nat
      /\ Leaving(b) = Through(entries[b], mir[b].ops)[Len(mir[b].ops) + 1]
  BY <1>3, <1>4, <1>5, LeavingIs
<1>8. at[2] = Len(mir[b].ops) + 1
  BY <1>1, <1>4, <1>7
<1>9. Describes(Leaving(b), held)
  BY <1>5, <1>7, <1>8
<1>10. next \in DOMAIN mir
  BY <1>2, <1>3, <1>4 DEF MoveShaped, ProperBlock, Range
<1>11. entries[next] # Unreached /\ AtLeast(entries[next], Leaving(b))
  <2>1. Passed(b)
    BY <1>1, <1>3, <1>4, <1>5, <1>6 DEF Settled, Range
  <2> QED
    BY <1>2, <2>1 DEF Passed
<1>12. Describes(entries[next], held)
  BY <1>9, <1>11, AtLeastDescribes
<1>13. /\ Through(entries[next], mir[next].ops)[1] = entries[next]
       /\ Len(mir[next].ops) \in Nat
  BY <1>3, <1>10, <1>11, LeavingIs
<1>14. at'[1] = next /\ at'[2] = 1 /\ 1 \in 1..Len(mir[next].ops) + 1
  BY <1>2, <1>13
<1>15. MoveShaped'
  BY <1>1, <1>3 DEF MoveShaped, ProperBlock
<1>16. StorageShaped'
  BY <1>1, <1>2, <1>3, <1>10, <1>14 DEF StorageShaped, Storage
<1>17. Settled'
  <2>1. \A c \in DOMAIN mir : Passed(c)' <=> Passed(c)
    BY <1>1 DEF Passed, Leaving, RefusedIn
  <2> QED
    BY <1>1, <1>3, <2>1 DEF Settled
<1>18. Followed'
  BY <1>1, <1>11, <1>12, <1>13, <1>14 DEF Followed, Describes, Storage
<1>19. DeinitWhole'
  BY <1>1, <1>3 DEF DeinitWhole, Whole, Below, Storage
<1> QED
  BY <1>15, <1>16, <1>17, <1>18, <1>19 DEF MoveInv

LEMMA MoveStepKeeps ==
  ASSUME MoveAssumption, MoveInv, [MoveNext]_moveVars
  PROVE  MoveInv'
<1>1. CASE CheckBlock
  BY <1>1, CheckBlockKeeps
<1>2. CASE Accept
  BY <1>2, AcceptKeeps
<1>3. CASE Execute
  BY <1>3, ExecuteKeeps
<1>4. CASE Branch
  BY <1>4, BranchKeeps
<1>5. CASE UNCHANGED moveVars
  <2>1. /\ mir' = mir /\ entries' = entries /\ work' = work /\ verdict' = verdict
        /\ at' = at /\ held' = held /\ taken' = taken
    BY <1>5 DEF moveVars, checkVars, runVars
  <2>2. MoveShaped' /\ StorageShaped'
    BY <2>1 DEF MoveInv, MoveShaped, ProperBlock, StorageShaped, Storage
  <2>3. Settled'
    <3>1. \A b \in DOMAIN mir : Passed(b)' <=> Passed(b)
      BY <2>1 DEF Passed, Leaving, RefusedIn
    <3> QED
      BY <2>1, <3>1 DEF MoveInv, Settled
  <2>4. Followed' /\ DeinitWhole'
    BY <2>1 DEF MoveInv, Followed, Describes, DeinitWhole, Whole, Below, Storage
  <2> QED
    BY <2>2, <2>3, <2>4 DEF MoveInv
<1> QED
  BY <1>1, <1>2, <1>3, <1>4, <1>5 DEF MoveNext

\* The invariant holds of every function within the assumption: the entries
\* of an accepted function are a fixed point of the transfer, and what they
\* call absent accounts for all that a run finds missing (check_function).
THEOREM MoveCorrect == MoveAssumption => (MoveSpec => []MoveInv)
<1> SUFFICES ASSUME MoveAssumption PROVE MoveSpec => []MoveInv
  OBVIOUS
<1>1. MoveInit => MoveInv
  BY InitMoveInv
<1>2. MoveInv /\ [MoveNext]_moveVars => MoveInv'
  BY MoveStepKeeps
<1> QED
  BY <1>1, <1>2, PTL DEF MoveSpec
-----------------------------------------------------------------------------
(***************************************************************************)
(* What acceptance promises.                                               *)
(***************************************************************************)
LEMMA MoveInvTypes ==
  ASSUME MoveAssumption, MoveInv
  PROVE  MoveTypeOK
<1>1. MoveShaped /\ StorageShaped
  BY DEF MoveInv
<1>2. entries \in [DOMAIN mir -> States \cup {Unreached}]
  BY <1>1, KnownIs DEF MoveShaped
<1> QED
  BY <1>1, <1>2 DEF MoveShaped, StorageShaped, MoveTypeOK

LEMMA MoveInvFinds ==
  ASSUME MoveAssumption, MoveInv
  PROVE  NoAbsentUse
<1> SUFFICES ASSUME verdict = "accepted", at[2] <= Len(mir[at[1]].ops),
                    NEW place \in Denoted(mir[at[1]].ops[at[2]].place)
             PROVE  Finds(mir[at[1]].ops[at[2]], place)
  BY DEF NoAbsentUse
<1> DEFINE b == at[1]
           i == at[2]
           op == mir[b].ops[i]
           s == Through(entries[b], mir[b].ops)[i]
<1>1. MoveShaped /\ StorageShaped /\ Settled /\ Followed
  BY DEF MoveInv
<1>2. b \in DOMAIN mir /\ i \in 1..Len(mir[b].ops) + 1
  BY <1>1 DEF StorageShaped
<1>3. entries[b] # Unreached /\ Describes(s, held) /\ work = <<>>
  BY <1>1 DEF Followed, MoveShaped
<1>4. /\ Len(mir[b].ops) \in Nat /\ DOMAIN mir[b].ops = 1..Len(mir[b].ops)
      /\ \A j \in 1..Len(mir[b].ops) : Proper(mir[b].ops[j])
      /\ \A j \in 1..Len(mir[b].ops) + 1 : Through(entries[b], mir[b].ops)[j] \in KnownStates
  BY <1>1, <1>2, <1>3, LeavingIs
<1>5. i \in 1..Len(mir[b].ops)
  BY <1>2, <1>4
<1>6. Proper(op) /\ s \in KnownStates
  BY <1>2, <1>4, <1>5
<1>7. ~Refused(s, op)
  <2>1. Passed(b)
    BY <1>1, <1>2, <1>3 DEF Settled, Range
  <2> QED
    BY <1>4, <1>5, <2>1 DEF Passed, RefusedIn
<1> HIDE DEF s, b, i
<1> QED
  BY <1>3, <1>6, <1>7, UseFinds DEF b, i

\* Along every path of an accepted function a use finds the value complete,
\* and a value whose deinit the checker finds (Guarded) has lost no part to a
\* move; one whose deinit it does not find may have (check_function).
THEOREM MoveAcceptedSafe == MoveAssumption => (MoveSpec => []AcceptedSafe)
<1> SUFFICES ASSUME MoveAssumption PROVE MoveSpec => []AcceptedSafe
  OBVIOUS
<1>1. MoveInv => AcceptedSafe
  BY MoveInvTypes, MoveInvFinds DEF AcceptedSafe, MoveInv
<1>2. MoveSpec => []MoveInv
  BY MoveCorrect
<1> QED
  BY <1>1, <1>2, PTL
-----------------------------------------------------------------------------
(***************************************************************************)
(* The joins lose nothing that matters.  A transfer treats each fact of a  *)
(* state by itself, and a refusal needs one fact; so what a joined state   *)
(* has lost was lost on some path.                                         *)
(***************************************************************************)
Roots == {Root(p) : p \in Places}

\* Whatever the state has lost, one of the states has lost.
From(known, s) ==
  /\ known # {}
  /\ \A r \in Roots \ s.initialized : \E t \in known : r \notin t.initialized
  /\ \A m \in s.moved : \E t \in known : m \in t.moved
  /\ \A d \in s.deferred : \E t \in known : d \in t.deferred

Gained(op) ==
  [initialized |-> IF op.op = "init" THEN {Root(op.place)} ELSE {},
   moved |-> IF op.op = "move" /\ Len(op.place) # 1 THEN {op.place} ELSE {},
   deferred |-> IF op.op = "defer" THEN {op.place} ELSE {}]

Rooted(root) == {p \in Places : Root(p) = root}

Lost(op) ==
  [initialized |-> IF op.op = "destroy" \/ (op.op = "move" /\ Len(op.place) = 1)
                   THEN {Root(op.place)} ELSE {},
   moved |-> IF op.op \in {"init", "destroy"} \/ (op.op = "move" /\ Len(op.place) = 1)
             THEN Rooted(Root(op.place)) ELSE {},
   deferred |-> IF op.op \in {"init", "destroy"} THEN Rooted(Root(op.place))
                ELSE IF op.op = "write" THEN {p \in Places : PlaceContains(op.place, p)} ELSE {}]

LEMMA FromMore ==
  ASSUME NEW known, NEW s, From(known, s), NEW more, known \subseteq more
  PROVE  From(more, s)
BY DEF From

LEMMA JoinFrom ==
  ASSUME NEW known, NEW old, NEW new, From(known, new), old # Unreached => From(known, old)
  PROVE  From(known, Join(old, new))
<1>1. CASE old = Unreached
  BY <1>1 DEF Join
<1>2. CASE old # Unreached
  <2> DEFINE joined == Join(old, new)
  <2>1. /\ joined.initialized = old.initialized \cap new.initialized
        /\ joined.moved = old.moved \cup new.moved
        /\ joined.deferred = old.deferred \cup new.deferred
    BY <1>2 DEF Join
  <2> HIDE DEF joined
  <2>2. From(known, old) /\ From(known, new)
    BY <1>2
  <2>3. From(known, joined)
    BY <2>1, <2>2 DEF From
  <2> QED
    BY <2>3 DEF joined
<1> QED
  BY <1>1, <1>2

LEMMA TransferIs ==
  ASSUME MoveAssumption, NEW s \in KnownStates, NEW op, Proper(op)
  PROVE  /\ Transfer(s, op).initialized =
              (s.initialized \ Lost(op).initialized) \cup Gained(op).initialized
         /\ Transfer(s, op).moved = (s.moved \ Lost(op).moved) \cup Gained(op).moved
         /\ Transfer(s, op).deferred = (s.deferred \ Lost(op).deferred) \cup Gained(op).deferred
<1>1. /\ op.op \in Operations /\ op.place \in Places
  BY DEF Proper
<1>2. /\ s.moved \subseteq Places /\ s.deferred \subseteq Places
      /\ s = [initialized |-> s.initialized, moved |-> s.moved, deferred |-> s.deferred]
  BY KnownIs DEF KnownStates
<1>3. /\ Without(s.moved, Root(op.place)) = s.moved \ Rooted(Root(op.place))
      /\ Without(s.deferred, Root(op.place)) = s.deferred \ Rooted(Root(op.place))
  BY <1>2 DEF Without, Rooted
<1>4. CASE op.op = "defer"
  BY <1>2, <1>4 DEF Transfer, Lost, Gained
<1>5. CASE op.op = "read"
  BY <1>5 DEF Transfer, Lost, Gained
<1>6. CASE op.op = "write"
  <2>1. /\ Transfer(s, op).initialized = s.initialized /\ Transfer(s, op).moved = s.moved
        /\ Transfer(s, op).deferred = {m \in s.deferred : ~PlaceContains(op.place, m)}
    BY <1>2, <1>6 DEF Transfer
  <2> QED
    BY <1>2, <1>6, <2>1 DEF Lost, Gained
<1>7. CASE op.op = "move" /\ Len(op.place) = 1
  BY <1>2, <1>3, <1>7 DEF Transfer, Lost, Gained
<1>8. CASE op.op = "move" /\ Len(op.place) # 1
  BY <1>2, <1>8 DEF Transfer, Lost, Gained
<1>9. CASE op.op = "init"
  BY <1>3, <1>9 DEF Transfer, Lost, Gained
<1>10. CASE op.op = "destroy"
  BY <1>3, <1>10 DEF Transfer, Lost, Gained
<1> QED
  BY <1>1, <1>4, <1>5, <1>6, <1>7, <1>8, <1>9, <1>10 DEF Operations

LEMMA TransferFrom ==
  ASSUME MoveAssumption, NEW known \in SUBSET KnownStates, NEW s \in KnownStates,
         From(known, s), NEW op, Proper(op)
  PROVE  From({Transfer(t, op) : t \in known}, Transfer(s, op))
<1> DEFINE gained == Gained(op)
           lost == Lost(op)
           all == {Transfer(t, op) : t \in known}
           T(t) == Transfer(t, op)
<1>1. \A t \in KnownStates :
        /\ T(t).initialized = (t.initialized \ lost.initialized) \cup gained.initialized
        /\ T(t).moved = (t.moved \ lost.moved) \cup gained.moved
        /\ T(t).deferred = (t.deferred \ lost.deferred) \cup gained.deferred
  BY TransferIs
<1>2. PICK some \in known : TRUE
  BY DEF From
<1>3. \A t \in known : T(t) \in all
  OBVIOUS
<1> HIDE DEF gained, lost, all, T
<1>4. ASSUME NEW r \in Roots \ T(s).initialized PROVE \E u \in all : r \notin u.initialized
  <2>1. r \notin gained.initialized /\ (r \notin s.initialized \/ r \in lost.initialized)
    BY <1>1, <1>4
  <2>2. PICK t \in known : r \notin t.initialized \/ r \in lost.initialized
    BY <1>2, <1>4, <2>1 DEF From
  <2> QED
    BY <1>1, <1>3, <2>1, <2>2
<1>5. ASSUME NEW m \in T(s).moved PROVE \E u \in all : m \in u.moved
  <2>1. m \in gained.moved \/ (m \in s.moved /\ m \notin lost.moved)
    BY <1>1, <1>5
  <2>2. PICK t \in known : m \in gained.moved \/ (m \in t.moved /\ m \notin lost.moved)
    BY <1>2, <2>1 DEF From
  <2> QED
    BY <1>1, <1>3, <2>2
<1>6. ASSUME NEW d \in T(s).deferred PROVE \E u \in all : d \in u.deferred
  <2>1. d \in gained.deferred \/ (d \in s.deferred /\ d \notin lost.deferred)
    BY <1>1, <1>6
  <2>2. PICK t \in known : d \in gained.deferred \/ (d \in t.deferred /\ d \notin lost.deferred)
    BY <1>2, <2>1 DEF From
  <2> QED
    BY <1>1, <1>3, <2>2
<1>7. all # {}
  BY <1>2, <1>3
<1>8. From(all, T(s))
  BY <1>4, <1>5, <1>6, <1>7 DEF From
<1> QED
  BY <1>8 DEF all, T

LEMMA RefusedFrom ==
  ASSUME MoveAssumption, NEW known, NEW s, From(known, s), NEW op, Proper(op), Refused(s, op)
  PROVE  \E t \in known : Refused(t, op)
<1>1. op.op \in Uses /\ op.place \in Places /\ Root(op.place) \in Roots
  BY DEF Proper, Refused, Roots
<1>2. CASE Deferring(s, op) # {}
  <2>1. PICK d \in Deferring(s, op) : TRUE
    BY <1>2
  <2>2. d \in s.deferred
    BY <2>1 DEF Deferring
  <2>3. PICK t \in known : d \in t.deferred
    BY <2>2 DEF From
  <2>4. d \in Deferring(t, op)
    BY <2>1, <2>3 DEF Deferring
  <2> QED
    BY <1>1, <2>4 DEF Refused
<1>3. CASE ~PlaceIsUsable(s, op.place)
  <2>1. CASE Root(op.place) \notin s.initialized
    <3>1. PICK t \in known : Root(op.place) \notin t.initialized
      BY <1>1, <2>1 DEF From
    <3> QED
      BY <1>1, <3>1 DEF Refused, PlaceIsUsable
  <2>2. CASE \E m \in s.moved : PlacesOverlap(m, op.place)
    <3>1. PICK m \in s.moved : PlacesOverlap(m, op.place)
      BY <2>2
    <3>2. PICK t \in known : m \in t.moved
      BY <3>1 DEF From
    <3> QED
      BY <1>1, <3>1, <3>2 DEF Refused, PlaceIsUsable
  <2> QED
    BY <1>3, <2>1, <2>2 DEF PlaceIsUsable
<1>4. CASE op.op = "move" /\ (MovesOutOfDrop(op.place) \/ Root(op.place) \in Borrowed)
  BY <1>1, <1>4 DEF Refused, From
<1> QED
  BY <1>2, <1>3, <1>4 DEF Refused

\* All states of a set followed through a block.
LEMMA ThroughFrom ==
  ASSUME MoveAssumption, NEW known \in SUBSET KnownStates, NEW s \in KnownStates, From(known, s),
         NEW ops \in Seq([op : Operations, place : Places]), \A i \in DOMAIN ops : Proper(ops[i])
  PROVE  \A i \in 1..Len(ops) + 1 : From({Through(t, ops)[i] : t \in known}, Through(s, ops)[i])
<1> DEFINE n == Len(ops)
           T(t, i) == Through(t, ops)[i]
           all(i) == {T(t, i) : t \in known}
           Bad == {i \in 1..n + 1 : ~From(all(i), T(s, i))}
<1>1. n \in Nat /\ DOMAIN ops = 1..n
  OBVIOUS
<1>2. ASSUME NEW t \in KnownStates
      PROVE  /\ T(t, 1) = t /\ \A i \in 1..n : T(t, i + 1) = Transfer(T(t, i), ops[i])
             /\ \A i \in 1..n + 1 : T(t, i) \in KnownStates
  <2> DEFINE states == Through(t, ops)
  <2>1. /\ states \in Seq(KnownStates) /\ Len(states) = n + 1 /\ states[1] = t
        /\ \A i \in 1..n : states[i + 1] = Transfer(states[i], ops[i])
    BY ThroughIs
  <2> HIDE DEF states
  <2>2. \A i \in 1..n + 1 : states[i] \in KnownStates
    BY <1>1, <2>1
  <2> QED
    BY <2>1, <2>2 DEF states
<1> HIDE DEF T
<1> SUFFICES ASSUME Bad # {} PROVE FALSE
  BY DEF T
<1>3. Bad \subseteq Nat
  OBVIOUS
<1>4. PICK k \in Bad : \A m \in Bad : k <= m
  BY <1>3, LeastNumber
<1>5. k # 1
  <2>1. all(1) = known /\ T(s, 1) = s
    BY <1>2
  <2> QED
    BY <1>4, <2>1
<1>6. k - 1 \in 1..n /\ k - 1 \in 1..n + 1 /\ (k - 1) + 1 = k /\ ~(k <= k - 1)
  BY <1>1, <1>4, <1>5
<1>7. From(all(k - 1), T(s, k - 1))
  BY <1>4, <1>6
<1>8. all(k - 1) \subseteq KnownStates /\ T(s, k - 1) \in KnownStates /\ Proper(ops[k - 1])
  BY <1>1, <1>2, <1>6
<1>9. From({Transfer(u, ops[k - 1]) : u \in all(k - 1)}, Transfer(T(s, k - 1), ops[k - 1]))
  BY <1>7, <1>8, TransferFrom
<1>10. \A t \in KnownStates : T(t, k) = Transfer(T(t, k - 1), ops[k - 1])
  BY <1>2, <1>6
<1>11. {Transfer(u, ops[k - 1]) : u \in all(k - 1)} = all(k)
  BY <1>10
<1> QED
  BY <1>4, <1>9, <1>10, <1>11

LEMMA RefusedInFrom ==
  ASSUME MoveAssumption, NEW known \in SUBSET KnownStates, NEW s \in KnownStates, From(known, s),
         NEW ops \in Seq([op : Operations, place : Places]), \A i \in DOMAIN ops : Proper(ops[i]),
         RefusedIn(s, ops)
  PROVE  \E t \in known : RefusedIn(t, ops)
<1>1. PICK i \in DOMAIN ops : Refused(Through(s, ops)[i], ops[i])
  BY DEF RefusedIn
<1>2. i \in 1..Len(ops) + 1
  OBVIOUS
<1>3. From({Through(t, ops)[i] : t \in known}, Through(s, ops)[i])
  BY <1>2, ThroughFrom
<1>4. \E u \in {Through(t, ops)[i] : t \in known} : Refused(u, ops[i])
  BY <1>1, <1>3, RefusedFrom
<1> QED
  BY <1>4 DEF RefusedIn

LEMMA LeavingFrom ==
  ASSUME MoveAssumption, NEW known \in SUBSET KnownStates, NEW s \in KnownStates, From(known, s),
         NEW ops \in Seq([op : Operations, place : Places]), \A i \in DOMAIN ops : Proper(ops[i])
  PROVE  From({Last(Through(t, ops)) : t \in known}, Last(Through(s, ops)))
<1>1. \A t \in KnownStates : Last(Through(t, ops)) = Through(t, ops)[Len(ops) + 1]
  BY ThroughIs DEF Last
<1>2. Len(ops) + 1 \in 1..Len(ops) + 1
  <2>1. Len(ops) \in Nat
    OBVIOUS
  <2> QED
    BY <2>1
<1>3. From({Through(t, ops)[Len(ops) + 1] : t \in known}, Through(s, ops)[Len(ops) + 1])
  BY <1>2, ThroughFrom
<1>4. {Last(Through(t, ops)) : t \in known} = {Through(t, ops)[Len(ops) + 1] : t \in known}
  BY <1>1
<1> QED
  BY <1>1, <1>3, <1>4

(***************************************************************************)
(* The paths.  Complete: another step brings nothing new.                  *)
(***************************************************************************)
PathsComplete(f) == \A k \in PathStates(f) : Onward(f, k) \subseteq PathStates(f)

Shaped(f) ==
  /\ 1 \in DOMAIN f
  /\ \A b \in DOMAIN f :
       /\ f[b].ops \in Seq([op : Operations, place : Places])
       /\ \A i \in DOMAIN f[b].ops : Proper(f[b].ops[i])
       /\ f[b].to \in Seq(DOMAIN f)

LEMMA OnwardIs ==
  ASSUME MoveAssumption, NEW f, Shaped(f), NEW k \in (DOMAIN f) \X KnownStates
  PROVE  Onward(f, k) \subseteq (DOMAIN f) \X KnownStates
<1> DEFINE ops == f[k[1]].ops
           states == Through(k[2], ops)
<1>1. /\ k[1] \in DOMAIN f /\ k[2] \in KnownStates
  OBVIOUS
<1>2. /\ ops \in Seq([op : Operations, place : Places])
      /\ \A i \in DOMAIN ops : Proper(ops[i])
      /\ f[k[1]].to \in Seq(DOMAIN f)
  BY <1>1 DEF Shaped
<1>3. Len(ops) \in Nat
  BY <1>2
<1>4. states \in Seq(KnownStates) /\ Len(states) = Len(ops) + 1
  BY <1>1, <1>2, ThroughIs
<1> HIDE DEF ops, states
<1>5. Last(states) \in KnownStates
  BY <1>3, <1>4 DEF Last
<1>6. Range(f[k[1]].to) \subseteq DOMAIN f
  BY <1>2 DEF Range
<1>7. Onward(f, k) \subseteq {<<next, Last(states)>> : next \in Range(f[k[1]].to)}
  BY DEF Onward, states, ops
<1> QED
  BY <1>5, <1>6, <1>7

ReachAt(reach, f, i) ==
  IF i = 0 THEN {<<1, AtEntry>>} ELSE reach[i - 1] \cup UNION {Onward(f, k) : k \in reach[i - 1]}

LEMMA PathStatesIs ==
  ASSUME MoveAssumption, NEW f, Shaped(f)
  PROVE  PathStates(f) \subseteq (DOMAIN f) \X KnownStates /\ <<1, AtEntry>> \in PathStates(f)
<1> DEFINE n == PathBound
           All == (DOMAIN f) \X KnownStates
           S == SUBSET All
           base == {<<1, AtEntry>>}
           step(K) == K \cup UNION {Onward(f, k) : k \in K}
           next == [i \in 1..n |-> [K \in S |-> step(K)]]
           Solves(r) == r = [i \in 0..n |-> ReachAt(r, f, i)]
           reach == CHOOSE r : Solves(r)
<1>1. n \in Nat
  BY DEF MoveAssumption
<1>2. base \in S
  <2>1. AtEntry \in KnownStates
    BY DEF AtEntry, KnownStates
  <2>2. 1 \in DOMAIN f
    BY DEF Shaped
  <2> QED
    BY <2>1, <2>2
<1> HIDE DEF All
<1>3. \A K \in S : step(K) \in S
  <2>1. \A k \in All : Onward(f, k) \subseteq All
    BY OnwardIs DEF All
  <2> QED
    BY <2>1
<1>4. next \in [1..n -> [S -> S]]
  BY <1>3
<1> HIDE DEF step, S
<1>5. PICK g : Iterates(g, base, next, S, n)
  BY <1>1, <1>2, <1>4, IterationExists
<1>6. Solves(g)
  <2>1. ASSUME NEW i \in 0..n PROVE g[i] = ReachAt(g, f, i)
    <3>1. CASE i = 0
      BY <1>5, <3>1 DEF Iterates, ReachAt
    <3>2. CASE i # 0
      <4>1. i \in 1..n /\ i - 1 \in 0..n
        BY <1>1, <3>2
      <4>2. g[i] = next[i][g[i - 1]] /\ g[i - 1] \in S
        BY <1>5, <4>1 DEF Iterates
      <4>3. g[i] = step(g[i - 1])
        BY <4>1, <4>2
      <4> QED
        BY <3>2, <4>3 DEF ReachAt, step
    <3> QED
      BY <3>1, <3>2
  <2>2. g = [i \in 0..n |-> g[i]]
    BY <1>5 DEF Iterates
  <2> QED
    BY <2>1, <2>2
<1>7. Solves(reach)
  <2> HIDE DEF Solves
  <2> QED
    BY <1>6
<1>8. PathStates(f) = reach[n]
  BY Zenon DEF PathStates, ReachAt
<1> HIDE DEF reach
<1>9. \A i \in 0..n : reach[i] = ReachAt(reach, f, i)
  BY <1>7
<1> DEFINE Bad == {i \in 0..n : ~(reach[i] \in S /\ <<1, AtEntry>> \in reach[i])}
<1>10. Bad = {}
  <2> SUFFICES ASSUME Bad # {} PROVE FALSE
    OBVIOUS
  <2>0. Bad \subseteq Nat
    OBVIOUS
  <2>1. PICK k \in Bad : \A m \in Bad : k <= m
    BY <2>0, LeastNumber
  <2>2. k # 0
    <3>1. 0 \in 0..n
      BY <1>1
    <3>2. reach[0] = base
      BY <1>9, <3>1 DEF ReachAt
    <3> QED
      BY <1>2, <2>1, <3>2
  <2>3. k \in 0..n /\ k - 1 \in 0..n /\ ~(k <= k - 1)
    BY <1>1, <2>1, <2>2
  <2>4. reach[k - 1] \in S /\ <<1, AtEntry>> \in reach[k - 1]
    BY <2>1, <2>3
  <2>5. reach[k] = step(reach[k - 1])
    BY <1>9, <2>2, <2>3 DEF ReachAt, step
  <2>6. step(reach[k - 1]) \in S /\ <<1, AtEntry>> \in step(reach[k - 1])
    BY <1>3, <2>4 DEF step
  <2> QED
    BY <2>1, <2>5, <2>6
<1>11. n \in 0..n
  BY <1>1
<1> HIDE DEF n
<1>12. reach[n] \in S /\ <<1, AtEntry>> \in reach[n]
  BY <1>10, <1>11
<1> QED
  BY <1>8, <1>12 DEF S, All, n
-----------------------------------------------------------------------------
(***************************************************************************)
(* While no path is refused, what each block has been entered with came    *)
(* along the paths that lead to it.                                        *)
(***************************************************************************)
At(b) == {k[2] : k \in {j \in PathStates(mir) : j[1] = b}}

Unrefused == \A k \in PathStates(mir) : ~RefusedIn(k[2], mir[k[1]].ops)

Traced(known) == \A b \in DOMAIN mir : known.entries[b] # Unreached => From(At(b), known.entries[b])

Witnessed ==
  PathsComplete(mir) /\ Unrefused =>
    verdict # "rejected" /\ Traced([entries |-> entries, work |-> work])

LEMMA AtIs ==
  ASSUME MoveAssumption, MoveShaped
  PROVE  /\ Shaped(mir) /\ AtEntry \in At(1)
         /\ \A b : \A t \in At(b) : <<b, t>> \in PathStates(mir) /\ t \in KnownStates
         /\ \A b, t : <<b, t>> \in PathStates(mir) => t \in At(b)
<1>1. Shaped(mir)
  BY DEF MoveShaped, ProperBlock, Shaped
<1>2. PathStates(mir) \subseteq (DOMAIN mir) \X KnownStates /\ <<1, AtEntry>> \in PathStates(mir)
  BY <1>1, PathStatesIs
<1>3. \A b, t : <<b, t>> \in PathStates(mir) => t \in At(b)
  BY DEF At
<1>4. ASSUME NEW b, NEW t \in At(b)
      PROVE  <<b, t>> \in PathStates(mir) /\ t \in KnownStates
  <2>1. PICK k \in PathStates(mir) : k[1] = b /\ t = k[2]
    BY <1>4 DEF At
  <2>2. k \in (DOMAIN mir) \X KnownStates
    BY <1>2
  <2>3. k = <<k[1], k[2]>> /\ k[2] \in KnownStates
    BY <2>2
  <2> QED
    BY <2>1, <2>3
<1> QED
  BY <1>1, <1>2, <1>3, <1>4

LEMMA ArriveTraced ==
  ASSUME NEW known \in Arrivals, Traced(known), NEW next \in DOMAIN mir, NEW state,
         From(At(next), state)
  PROVE  Traced(Arrive(known, next, state))
<1> DEFINE joined == Join(known.entries[next], state)
           later == Arrive(known, next, state)
<1>1. known.entries \in [DOMAIN mir -> KnownStates \cup {Unreached}]
  BY DEF Arrivals
<1>2. From(At(next), joined)
  BY JoinFrom DEF Traced
<1> HIDE DEF joined
<1>3. CASE joined = known.entries[next]
  BY <1>3 DEF Arrive, joined
<1>4. CASE joined # known.entries[next]
  <2>1. later = [entries |-> [known.entries EXCEPT ![next] = joined],
                 work |-> Append(known.work, next)]
    BY <1>4 DEF Arrive, joined
  <2> HIDE DEF later
  <2>2. later.entries = [known.entries EXCEPT ![next] = joined]
    BY <2>1
  <2>3. ASSUME NEW b \in DOMAIN mir, later.entries[b] # Unreached
        PROVE  From(At(b), later.entries[b])
    <3>1. CASE b = next
      BY <1>1, <1>2, <2>2, <3>1
    <3>2. CASE b # next
      <4>1. later.entries[b] = known.entries[b]
        BY <1>1, <2>2, <3>2
      <4> QED
        BY <2>3, <4>1 DEF Traced
    <3> QED
      BY <3>1, <3>2
  <2>4. Traced(later)
    BY <2>3 DEF Traced
  <2> QED
    BY <2>4 DEF later
<1> QED
  BY <1>3, <1>4

LEMMA PropagateTraced ==
  ASSUME MoveAssumption, NEW state \in KnownStates, NEW successors \in Seq(DOMAIN mir),
         [entries |-> entries, work |-> Tail(work)] \in Arrivals,
         Traced([entries |-> entries, work |-> Tail(work)]),
         \A b \in Range(successors) : From(At(b), state)
  PROVE  Traced(Propagate(state, successors))
<1> DEFINE n == Len(successors)
           base == [entries |-> entries, work |-> Tail(work)]
<1>1. /\ n \in Nat /\ DOMAIN successors = 1..n
      /\ \A i \in 1..n : successors[i] \in DOMAIN mir /\ successors[i] \in Range(successors)
  BY DEF Range
<1>2. PICK known : Arriving(known, state, successors)
  BY PropagateSteps
<1>3. /\ known[0] = base /\ Propagate(state, successors) = known[n]
      /\ \A i \in 1..n : known[i] = Arrive(known[i - 1], successors[i], state)
  BY <1>2 DEF Arriving
<1> DEFINE Good(i) == known[i] \in Arrivals /\ Traced(known[i])
           Bad == {i \in 0..n : ~Good(i)}
<1>4. Bad = {}
  <2> SUFFICES ASSUME Bad # {} PROVE FALSE
    OBVIOUS
  <2>0. Bad \subseteq Nat
    OBVIOUS
  <2>1. PICK k \in Bad : \A m \in Bad : k <= m
    BY <2>0, LeastNumber
  <2>2. k # 0
    BY <1>3, <2>1
  <2>3. k \in 1..n /\ k - 1 \in 0..n /\ ~(k <= k - 1)
    BY <1>1, <2>1, <2>2
  <2>4. Good(k - 1)
    BY <2>1, <2>3
  <2> HIDE DEF base
  <2>5. known[k] = Arrive(known[k - 1], successors[k], state)
    BY <1>3, <2>3
  <2>6. successors[k] \in DOMAIN mir /\ From(At(successors[k]), state)
    BY <1>1, <2>3
  <2>7. known[k] \in Arrivals
    BY <2>4, <2>5, <2>6, ArriveIs
  <2>8. Traced(known[k])
    BY <2>4, <2>5, <2>6, ArriveTraced
  <2> QED
    BY <2>1, <2>7, <2>8
<1>5. Good(n)
  <2>1. n \in 0..n
    BY <1>1
  <2> HIDE DEF Good
  <2> QED
    BY <1>4, <2>1
<1> QED
  BY <1>3, <1>5

LEMMA InitWitnessed ==
  ASSUME MoveAssumption, MoveInit
  PROVE  Witnessed
<1>1. /\ verdict = "checking"
      /\ entries = [b \in DOMAIN mir |-> IF b = 1 THEN AtEntry ELSE Unreached]
  BY DEF MoveInit
<1>2. MoveShaped
  BY InitMoveInv DEF MoveInv
<1>3. AtEntry \in At(1)
  BY <1>2, AtIs
<1>4. From(At(1), AtEntry)
  BY <1>3 DEF From, AtEntry
<1>5. \A b \in DOMAIN mir : entries[b] # Unreached => From(At(b), entries[b])
  BY <1>1, <1>4
<1> QED
  BY <1>1, <1>5 DEF Witnessed, Traced

LEMMA CheckBlockWitnessed ==
  ASSUME MoveAssumption, MoveInv, Witnessed, CheckBlock
  PROVE  Witnessed'
<1> DEFINE b == Head(work)
           ops == mir[b].ops
           state == Leaving(b)
           base == [entries |-> entries, work |-> Tail(work)]
<1>1. verdict = "checking" /\ work # <<>> /\ mir' = mir
  BY DEF CheckBlock
<1>2. MoveShaped
  BY DEF MoveInv
<1>3. /\ entries \in [DOMAIN mir -> KnownStates \cup {Unreached}]
      /\ work \in Seq(DOMAIN mir) /\ \A i \in DOMAIN work : entries[work[i]] # Unreached
  BY <1>2 DEF MoveShaped
<1>4. /\ b \in DOMAIN mir /\ Tail(work) \in Seq(DOMAIN mir) /\ b \in Range(work)
  BY <1>1, <1>3, RangeOfTail
<1>5. entries[b] # Unreached
  BY <1>3, <1>4 DEF Range
<1>6. /\ ops \in Seq([op : Operations, place : Places])
      /\ \A i \in DOMAIN ops : Proper(ops[i])
      /\ mir[b].to \in Seq(DOMAIN mir)
  BY <1>2, <1>4 DEF MoveShaped, ProperBlock
<1>7. entries[b] \in KnownStates /\ state \in KnownStates
  BY <1>2, <1>4, <1>5, LeavingIs
<1>8. /\ \A c : \A t \in At(c) : <<c, t>> \in PathStates(mir) /\ t \in KnownStates
      /\ \A c, t : <<c, t>> \in PathStates(mir) => t \in At(c)
  BY <1>2, AtIs
<1>9. At(b) \in SUBSET KnownStates
  BY <1>8
<1> HIDE DEF b, ops, state
<1> SUFFICES ASSUME PathsComplete(mir), Unrefused
             PROVE  verdict' # "rejected" /\ Traced([entries |-> entries', work |-> work'])
  <2>1. (PathsComplete(mir) /\ Unrefused)' <=> PathsComplete(mir) /\ Unrefused
    BY <1>1 DEF Unrefused
  <2>2. Traced([entries |-> entries, work |-> work])' <=>
          Traced([entries |-> entries', work |-> work'])
    BY <1>1 DEF Traced, At
  <2> QED
    BY <2>1, <2>2 DEF Witnessed
<1>10. Traced([entries |-> entries, work |-> work])
  BY DEF Witnessed
<1>11. From(At(b), entries[b])
  BY <1>4, <1>5, <1>10 DEF Traced
<1>12. ASSUME NEW t \in At(b) PROVE ~RefusedIn(t, ops)
  <2>1. <<b, t>> \in PathStates(mir)
    BY <1>8
  <2> QED
    BY <2>1 DEF Unrefused, ops
<1>13. ~RefusedIn(entries[b], ops)
  BY <1>6, <1>7, <1>9, <1>11, <1>12, RefusedInFrom
<1>14. /\ verdict' = verdict /\ entries' = Propagate(state, mir[b].to).entries
       /\ work' = Propagate(state, mir[b].to).work
  BY <1>13 DEF CheckBlock, Leaving, b, ops, state
<1>15. From({Last(Through(t, ops)) : t \in At(b)}, state)
  BY <1>6, <1>7, <1>9, <1>11, LeavingFrom DEF state, Leaving, ops
<1>16. ASSUME NEW c \in Range(mir[b].to) PROVE From(At(c), state)
  <2>1. ASSUME NEW t \in At(b) PROVE Last(Through(t, ops)) \in At(c)
    <3>1. <<b, t>> \in PathStates(mir)
      BY <1>8
    <3>2. <<c, Last(Through(t, ops))>> \in Onward(mir, <<b, t>>)
      BY <1>12 DEF Onward, ops
    <3>3. <<c, Last(Through(t, ops))>> \in PathStates(mir)
      BY <3>1, <3>2 DEF PathsComplete
    <3> QED
      BY <1>8, <3>3
  <2>2. {Last(Through(t, ops)) : t \in At(b)} \subseteq At(c)
    BY <2>1
  <2> QED
    BY <1>15, <2>2, FromMore
<1>17. base \in Arrivals /\ Traced(base)
  BY <1>3, <1>4, <1>10 DEF Arrivals, Traced
<1>18. Traced(Propagate(state, mir[b].to))
  BY <1>6, <1>7, <1>16, <1>17, PropagateTraced
<1> QED
  BY <1>1, <1>14, <1>18 DEF Traced

\* A function is rejected only if one of its paths is, whatever its branches
\* and loops, once PathBound is long enough for another step to bring nothing
\* new to any block (check_function: the joins of the work list).
THEOREM MoveRejectedByPath ==
  MoveAssumption => (MoveSpec => [](PathsComplete(mir) => RejectedByPath))
<1> SUFFICES ASSUME MoveAssumption
             PROVE  MoveSpec => [](PathsComplete(mir) => RejectedByPath)
  OBVIOUS
<1>1. MoveInit => Witnessed
  BY InitWitnessed
<1>2. ASSUME MoveInv, Witnessed, [MoveNext]_moveVars PROVE Witnessed'
  <2>1. CASE CheckBlock
    BY <1>2, <2>1, CheckBlockWitnessed
  <2>2. CASE ~CheckBlock
    <3>1. mir' = mir /\ entries' = entries /\ work' = work
      BY <1>2, <2>2 DEF MoveNext, Accept, Execute, Branch, moveVars, checkVars, runVars
    <3>2. verdict' = "rejected" => verdict = "rejected"
      BY <1>2, <2>2 DEF MoveNext, Accept, Execute, Branch, moveVars, checkVars, runVars
    <3>3. (PathsComplete(mir) /\ Unrefused)' <=> PathsComplete(mir) /\ Unrefused
      BY <3>1 DEF Unrefused
    <3>4. Traced([entries |-> entries, work |-> work])' <=>
            Traced([entries |-> entries, work |-> work])
      BY <3>1 DEF Traced, At
    <3> QED
      BY <1>2, <3>2, <3>3, <3>4 DEF Witnessed
  <2> QED
    BY <2>1, <2>2
<1>3. Witnessed => (PathsComplete(mir) => RejectedByPath)
  BY DEF Witnessed, Unrefused, RejectedByPath
<1>4. MoveSpec => []MoveInv
  BY MoveCorrect
<1> QED
  BY <1>1, <1>2, <1>3, <1>4, PTL DEF MoveSpec
=============================================================================
