------------------------- MODULE ValueAccessProofs -------------------------
(***************************************************************************)
(* Proofs about how values are reached: shared storage through its gate    *)
(* (SharedAccess), and parts of a slot through place handles (Places).     *)
(***************************************************************************)
EXTENDS SharedAccess, Places, FiniteSetTheorems, SequenceTheorems, TLAPS

(***************************************************************************)
(* The initial gate is free and nobody holds a lease.                      *)
(***************************************************************************)
LEMMA SharedInitInv == SharedInit => SharedInv
<1> SUFFICES ASSUME SharedInit
             PROVE  SharedInv
  OBVIOUS
<1>1. Reading = {} /\ Writing = {}
  BY DEF SharedInit, Reading, Writing, Leased
<1>2. Cardinality({}) = 0
  BY FS_EmptySet
<1>3. Exclusion
  BY <1>1, <1>2 DEF Exclusion, SharedInit
<1>4. SharedTypeOK
  BY DEF SharedInit, SharedTypeOK
<1> QED
  BY <1>3, <1>4 DEF SharedInit, SharedInv, ViewersOnlyRead, StableCopy, NoLostWakeup, Threads

(***************************************************************************)
(* The counters change by the lease that is granted or given back.         *)
(***************************************************************************)
LEMMA ReadingCount ==
  ASSUME SharedTypeOK, NEW t \in Threads
  PROVE  /\ IsFiniteSet(Reading) /\ Cardinality(Reading) \in Nat
         /\ t \notin Reading => Cardinality(Reading \cup {t}) = Cardinality(Reading) + 1
         /\ t \in Reading => Cardinality(Reading \ {t}) = Cardinality(Reading) - 1
         /\ Cardinality(Reading) = 0 <=> Reading = {}
<1>1. IsFiniteSet(Threads)
  BY SharedThreads, FS_AddElement DEF Threads
<1>2. Reading \subseteq Threads
  BY DEF Reading
<1>3. IsFiniteSet(Reading)
  BY <1>1, <1>2, FS_Subset
<1> QED
  BY <1>3, FS_AddElement, FS_RemoveElement, FS_CardinalityType, FS_EmptySet

(***************************************************************************)
(* Every step keeps the inductive invariant.                               *)
(***************************************************************************)
LEMMA SharedStep == SharedInv /\ [SharedNext]_sharedVars => SharedInv'
<1> SUFFICES ASSUME SharedInv, [SharedNext]_sharedVars
             PROVE  SharedInv'
  OBVIOUS
<1>v. SharedTypeOK /\ ViewersOnlyRead /\ Exclusion /\ StableCopy /\ NoLostWakeup
  BY DEF SharedInv
<1>w. Owner \in Threads /\ Viewers \subseteq Threads /\ Owner \notin Viewers
  BY SharedThreads DEF Threads
<1>x. \A t \in Threads : t # Owner => t \in Viewers
  BY DEF Threads
<1>1. ASSUME OwnerBegins
      PROVE  SharedInv'
  <2>1. SharedTypeOK'
    <3>1. /\ pc' = [pc EXCEPT ![Owner] = "acquiring"]
          /\ \E mode \in BOOLEAN : write' = [write EXCEPT ![Owner] = mode]
          /\ runs' = runs \/ runs' = [runs EXCEPT ![Owner] = runs[Owner] + 1]
          /\ UNCHANGED <<readers, writer, value, copy, outcome>>
      BY <1>1 DEF OwnerBegins, Step
    <3>2. runs[Owner] + 1 \in Nat
      BY <1>v, <1>w DEF SharedTypeOK
    <3>3. runs' \in [Threads -> Nat]
      BY <1>v, <3>1, <3>2 DEF SharedTypeOK
    <3>4. write' \in [Threads -> BOOLEAN]
      BY <1>v, <3>1 DEF SharedTypeOK
    <3> QED
      BY <1>v, <3>1, <3>3, <3>4 DEF SharedTypeOK
  <2>2. ViewersOnlyRead'
    BY <1>v, <1>w, <1>x, <1>1 DEF OwnerBegins, Step, SharedTypeOK, ViewersOnlyRead
  <2>3. UNCHANGED <<readers, writer>> /\ Reading' = Reading /\ Writing' = Writing
    BY <1>v, <1>w, <1>1 DEF OwnerBegins, Step, SharedTypeOK, Reading, Writing, Leased
  <2>4. Exclusion'
    BY <1>v, <2>3 DEF Exclusion
  <2>5. StableCopy'
    BY <1>v, <1>w, <1>x, <1>1 DEF OwnerBegins, Step, SharedTypeOK, StableCopy
  <2>6. NoLostWakeup'
    BY <1>v, <1>w, <1>1, <2>3 DEF OwnerBegins, Step, SharedTypeOK, NoLostWakeup, Blocked
  <2> QED
    BY <2>1, <2>2, <2>4, <2>5, <2>6 DEF SharedInv
<1>2. ASSUME NEW v \in Viewers, ViewerBegins(v)
      PROVE  SharedInv'
  <2>1. SharedTypeOK'
    BY <1>v, <1>w, <1>2 DEF ViewerBegins, Step, SharedTypeOK
  <2>2. ViewersOnlyRead'
    BY <1>v, <1>w, <1>x, <1>2 DEF ViewerBegins, Step, SharedTypeOK, ViewersOnlyRead
  <2>3. UNCHANGED <<readers, writer>> /\ Reading' = Reading /\ Writing' = Writing
    BY <1>v, <1>w, <1>2 DEF ViewerBegins, Step, SharedTypeOK, Reading, Writing, Leased
  <2>4. Exclusion'
    BY <1>v, <2>3 DEF Exclusion
  <2>5. StableCopy'
    BY <1>v, <1>w, <1>x, <1>2 DEF ViewerBegins, Step, SharedTypeOK, StableCopy
  <2>6. NoLostWakeup'
    BY <1>v, <1>w, <1>2, <2>3 DEF ViewerBegins, Step, SharedTypeOK, NoLostWakeup, Blocked
  <2> QED
    BY <2>1, <2>2, <2>4, <2>5, <2>6 DEF SharedInv
<1>3. ASSUME NEW t \in Threads, SpuriousWake(t)
      PROVE  SharedInv'
  <2>1. SharedTypeOK'
    BY <1>v, <1>w, <1>3 DEF SpuriousWake, Step, SharedTypeOK
  <2>2. ViewersOnlyRead'
    BY <1>v, <1>w, <1>x, <1>3 DEF SpuriousWake, Step, SharedTypeOK, ViewersOnlyRead
  <2>3. UNCHANGED <<readers, writer>> /\ Reading' = Reading /\ Writing' = Writing
    BY <1>v, <1>w, <1>3 DEF SpuriousWake, Step, SharedTypeOK, Reading, Writing, Leased
  <2>4. Exclusion'
    BY <1>v, <2>3 DEF Exclusion
  <2>5. StableCopy'
    BY <1>v, <1>w, <1>x, <1>3 DEF SpuriousWake, Step, SharedTypeOK, StableCopy
  <2>6. NoLostWakeup'
    BY <1>v, <1>w, <1>3, <2>3 DEF SpuriousWake, Step, SharedTypeOK, NoLostWakeup, Blocked
  <2> QED
    BY <2>1, <2>2, <2>4, <2>5, <2>6 DEF SharedInv
<1>4. ASSUME NEW t \in Threads, Snapshot(t)
      PROVE  SharedInv'
  <2>1. SharedTypeOK'
    BY <1>v, <1>w, <1>4 DEF Snapshot, Step, SharedTypeOK
  <2>2. ViewersOnlyRead'
    BY <1>v, <1>w, <1>x, <1>4 DEF Snapshot, Step, SharedTypeOK, ViewersOnlyRead
  <2>3. UNCHANGED <<readers, writer>> /\ Reading' = Reading /\ Writing' = Writing
    BY <1>v, <1>w, <1>4 DEF Snapshot, Step, SharedTypeOK, Reading, Writing, Leased
  <2>4. Exclusion'
    BY <1>v, <2>3 DEF Exclusion
  <2>5. StableCopy'
    BY <1>v, <1>w, <1>x, <1>4 DEF Snapshot, Step, SharedTypeOK, StableCopy
  <2>6. NoLostWakeup'
    BY <1>v, <1>w, <1>4, <2>3 DEF Snapshot, Step, SharedTypeOK, NoLostWakeup, Blocked
  <2> QED
    BY <2>1, <2>2, <2>4, <2>5, <2>6 DEF SharedInv
<1>5. ASSUME Commit
      PROVE  SharedInv'
  <2>1. SharedTypeOK'
    BY <1>v, <1>w, <1>5 DEF Commit, Step, SharedTypeOK
  <2>2. ViewersOnlyRead'
    BY <1>v, <1>w, <1>x, <1>5 DEF Commit, Step, SharedTypeOK, ViewersOnlyRead
  <2>3. UNCHANGED <<readers, writer>> /\ Reading' = Reading /\ Writing' = Writing
    BY <1>v, <1>w, <1>5 DEF Commit, Step, SharedTypeOK, Reading, Writing, Leased
  <2>4. Exclusion'
    BY <1>v, <2>3 DEF Exclusion
  <2>5. StableCopy'
    <3>1. write[Owner] /\ pc[Owner] = "holding" /\ pc' = [pc EXCEPT ![Owner] = "committed"]
      BY <1>5 DEF Commit, Step
    <3>2. Reading = {}
      BY <1>v, <1>w, <3>1 DEF Exclusion, Writing, Leased
    <3>3. \A v \in Viewers : pc[v] # "holding"
      BY <1>v, <1>w, <3>2 DEF ViewersOnlyRead, Reading, Leased
    <3> QED
      BY <1>v, <1>w, <1>x, <3>1, <3>3 DEF StableCopy, SharedTypeOK
  <2>6. NoLostWakeup'
    BY <1>v, <1>w, <1>5, <2>3 DEF Commit, Step, SharedTypeOK, NoLostWakeup, Blocked
  <2> QED
    BY <2>1, <2>2, <2>4, <2>5, <2>6 DEF SharedInv
<1>6. ASSUME NEW v \in Viewers, PublishReply(v)
      PROVE  SharedInv'
  <2>1. SharedTypeOK'
    BY <1>v, <1>w, <1>6 DEF PublishReply, Step, SharedTypeOK
  <2>2. ViewersOnlyRead'
    BY <1>v, <1>w, <1>x, <1>6 DEF PublishReply, Step, SharedTypeOK, ViewersOnlyRead
  <2>3. UNCHANGED <<readers, writer>> /\ Reading' = Reading /\ Writing' = Writing
    BY <1>v, <1>w, <1>6 DEF PublishReply, Step, SharedTypeOK, Reading, Writing, Leased
  <2>4. Exclusion'
    BY <1>v, <2>3 DEF Exclusion
  <2>5. StableCopy'
    BY <1>v, <1>w, <1>x, <1>6 DEF PublishReply, Step, SharedTypeOK, StableCopy
  <2>6. NoLostWakeup'
    BY <1>v, <1>w, <1>6, <2>3 DEF PublishReply, Step, SharedTypeOK, NoLostWakeup, Blocked
  <2> QED
    BY <2>1, <2>2, <2>4, <2>5, <2>6 DEF SharedInv
<1>7. ASSUME NEW v \in Viewers, CancelViewer(v)
      PROVE  SharedInv'
  <2>1. SharedTypeOK'
    BY <1>v, <1>w, <1>7 DEF CancelViewer, Step, SharedTypeOK
  <2>2. ViewersOnlyRead'
    BY <1>v, <1>w, <1>x, <1>7 DEF CancelViewer, Step, SharedTypeOK, ViewersOnlyRead
  <2>3. UNCHANGED <<readers, writer>> /\ Reading' = Reading /\ Writing' = Writing
    BY <1>v, <1>w, <1>7 DEF CancelViewer, Step, SharedTypeOK, Reading, Writing, Leased
  <2>4. Exclusion'
    BY <1>v, <2>3 DEF Exclusion
  <2>5. StableCopy'
    BY <1>v, <1>w, <1>x, <1>7 DEF CancelViewer, Step, SharedTypeOK, StableCopy
  <2>6. NoLostWakeup'
    BY <1>v, <1>w, <1>7, <2>3 DEF CancelViewer, Step, SharedTypeOK, NoLostWakeup, Blocked
  <2> QED
    BY <2>1, <2>2, <2>4, <2>5, <2>6 DEF SharedInv
<1>8. ASSUME NEW t \in Threads, Acquire(t)
      PROVE  SharedInv'
  <2>1. CASE Blocked(write[t])
    <3>1. /\ UNCHANGED <<readers, writer, value, write, copy, outcome, runs>>
          /\ pc[t] = "acquiring" /\ pc' = [pc EXCEPT ![t] = "waiting"]
      BY <1>8, <2>1 DEF Acquire, Step
    <3>2. Reading' = Reading /\ Writing' = Writing
      BY <1>v, <3>1 DEF SharedTypeOK, Reading, Writing, Leased
    <3>3. SharedTypeOK' /\ ViewersOnlyRead'
      BY <1>v, <1>w, <3>1 DEF SharedTypeOK, ViewersOnlyRead
    <3>4. Exclusion' /\ StableCopy' /\ NoLostWakeup'
      BY <1>v, <2>1, <3>1, <3>2 DEF SharedTypeOK, Exclusion, StableCopy, NoLostWakeup, Blocked
    <3> QED
      BY <3>3, <3>4 DEF SharedInv
  <2>2. CASE ~Blocked(write[t])
    <3>1. /\ UNCHANGED <<value, write, copy, outcome, runs>>
          /\ pc[t] = "acquiring" /\ pc' = [pc EXCEPT ![t] = "granted"]
          /\ writer' = write[t] /\ readers' = IF write[t] THEN readers ELSE readers + 1
      BY <1>8, <2>2 DEF Acquire, Step
    <3>2. ~writer /\ Writing = {} /\ (write[t] => readers = 0 /\ Reading = {}) /\ t \notin Reading
      <4>1. ~writer /\ (write[t] => ~(readers > 0))
        BY <2>2 DEF Blocked
      <4>2. Writing = {}
        BY <1>v, <4>1 DEF Exclusion
      <4>3. write[t] => readers = 0
        BY <1>v, <4>1 DEF SharedTypeOK
      <4>4. readers = 0 => Reading = {}
        BY <1>v, ReadingCount DEF Exclusion
      <4>5. t \notin Reading
        BY <3>1 DEF Reading, Leased
      <4> QED
        BY <4>1, <4>2, <4>3, <4>4, <4>5
    <3>3. SharedTypeOK' /\ ViewersOnlyRead'
      BY <1>v, <1>w, <3>1 DEF SharedTypeOK, ViewersOnlyRead
    <3>4. /\ Reading' = IF write[t] THEN Reading ELSE Reading \cup {t}
          /\ Writing' = IF write[t] THEN Writing \cup {t} ELSE Writing
      BY <1>v, <3>1 DEF SharedTypeOK, Reading, Writing, Leased
    <3>5. Exclusion'
      BY <1>v, <3>1, <3>2, <3>4, ReadingCount DEF Exclusion, SharedTypeOK
    <3>6. StableCopy' /\ NoLostWakeup'
      BY <1>v, <3>1, <3>2 DEF SharedTypeOK, StableCopy, NoLostWakeup, Blocked
    <3> QED
      BY <3>3, <3>5, <3>6 DEF SharedInv
  <2> QED
    BY <2>1, <2>2
<1>9. ASSUME NEW t \in Threads, Release(t)
      PROVE  SharedInv'
  <2> DEFINE rest == IF t = Owner THEN "ready" ELSE "returned"
  <2>1. /\ UNCHANGED <<value, write, copy, outcome, runs>>
        /\ pc[t] \in {"holding", "committed"}
        /\ pc' = NotifyAll([pc EXCEPT ![t] = rest])
        /\ writer' = (writer /\ ~write[t])
        /\ readers' = IF write[t] THEN readers ELSE readers - 1
    BY <1>9 DEF Release
  <2>2. /\ \A u \in Threads : pc'[u] = IF u = t THEN rest
                                        ELSE IF pc[u] = "waiting" THEN "acquiring" ELSE pc[u]
        /\ pc' \in [Threads -> {"ready", "acquiring", "waiting", "granted", "holding",
                                "committed", "returned"}]
    BY <1>v, <2>1 DEF SharedTypeOK, NotifyAll
  <2>3. /\ write[t] => t = Owner /\ writer /\ Writing = {t} /\ Reading = {}
        /\ ~write[t] => t \in Reading /\ ~writer
    <3>1. write[t] => t = Owner
      BY <1>v, <1>x DEF ViewersOnlyRead
    <3>2. Writing \subseteq {Owner}
      BY <1>v, <1>x DEF ViewersOnlyRead, Writing
    <3>3. /\ write[t] => t \in Writing
          /\ ~write[t] => t \in Reading
      BY <2>1 DEF Reading, Writing, Leased
    <3>4. /\ Writing # {} => writer /\ Reading = {}
          /\ Reading # {} => ~writer
      BY <1>v DEF Exclusion
    <3> QED
      BY <3>1, <3>2, <3>3, <3>4
  <2>4. /\ Reading' = IF write[t] THEN Reading ELSE Reading \ {t}
        /\ Writing' = IF write[t] THEN Writing \ {t} ELSE Writing
    BY <1>v, <2>1, <2>2, ZenonT(40) DEF SharedTypeOK, Reading, Writing, Leased
  <2>5. Exclusion'
    BY <1>v, <2>1, <2>3, <2>4, ReadingCount DEF Exclusion, SharedTypeOK
  <2>6. readers' \in Nat
    <3>1. readers \in Nat /\ readers = Cardinality(Reading)
      BY <1>v DEF Exclusion, SharedTypeOK
    <3>2. ~write[t] => readers # 0
      BY <1>v, <2>3, <3>1, ReadingCount
    <3>3. CASE write[t]
      BY <2>1, <3>1, <3>3
    <3>4. CASE ~write[t]
      <4>1. readers' = readers - 1
        BY <2>1, <3>4
      <4> QED
        BY <3>1, <3>2, <3>4, <4>1
    <3> QED
      BY <3>3, <3>4
  <2>7. SharedTypeOK'
    BY <1>v, <2>1, <2>2, <2>6 DEF SharedTypeOK
  <2>8. ViewersOnlyRead'
    <3> SUFFICES ASSUME NEW v \in Viewers
                 PROVE  /\ ~write[v] /\ pc'[v] # "committed"
                        /\ outcome[v] = "ok" => pc'[v] = "ready"
      BY <2>1 DEF ViewersOnlyRead
    <3>1. ~write[v] /\ pc[v] # "committed" /\ (outcome[v] = "ok" => pc[v] = "ready")
      BY <1>v DEF ViewersOnlyRead
    <3> QED
      BY <1>w, <2>1, <2>2, <3>1
  <2>9. StableCopy' /\ NoLostWakeup'
    BY <1>v, <2>1, <2>2 DEF StableCopy, NoLostWakeup
  <2> QED
    BY <2>5, <2>7, <2>8, <2>9 DEF SharedInv
<1>10. CASE UNCHANGED sharedVars
  BY <1>v, <1>10 DEF sharedVars, SharedInv, SharedTypeOK, ViewersOnlyRead, Exclusion, StableCopy,
                   NoLostWakeup, Reading, Writing, Blocked
<1> QED
  BY <1>1, <1>2, <1>3, <1>4, <1>5, <1>6, <1>7, <1>8, <1>9, <1>10 DEF SharedNext

(***************************************************************************)
(* The inductive invariant holds for every gate.                           *)
(***************************************************************************)
THEOREM SharedCorrect == SharedSpec => []SharedInv
<1>1. SharedInit => SharedInv
  BY SharedInitInv
<1>2. SharedInv /\ [SharedNext]_sharedVars => SharedInv'
  BY SharedStep
<1> QED
  BY <1>1, <1>2, PTL DEF SharedSpec

(***************************************************************************)
(* The gate counts its leases and a writer excludes everyone else.         *)
(***************************************************************************)
THEOREM SharedExclusion == SharedSpec => []Exclusion
BY SharedCorrect, PTL DEF SharedInv

(***************************************************************************)
(* Nobody's copy grows stale under its lease, so no change is lost.        *)
(***************************************************************************)
THEOREM SharedStableCopy == SharedSpec => []StableCopy
BY SharedCorrect, PTL DEF SharedInv

(***************************************************************************)
(* Nobody sleeps in front of a gate that would let it in.                  *)
(***************************************************************************)
THEOREM SharedNoLostWakeup == SharedSpec => []NoLostWakeup
BY SharedCorrect, PTL DEF SharedInv

(***************************************************************************)
(* A reply is published after the lease of its invocation has ended.       *)
(***************************************************************************)
THEOREM SharedReplyEndsLease == SharedSpec => []ReplyEndsLease
<1>1. SharedInv => ReplyEndsLease
  <2> SUFFICES ASSUME ViewersOnlyRead, NEW v \in Viewers, outcome[v] = "ok"
               PROVE  pc[v] \notin Leased
    BY DEF SharedInv, ReplyEndsLease
  <2>1. pc[v] = "ready"
    BY DEF ViewersOnlyRead
  <2> QED
    BY <2>1 DEF Leased
<1> QED
  BY <1>1, SharedCorrect, PTL

-----------------------------------------------------------------------------
(***************************************************************************)
(* Places.  The invariant has two parts: the value is a tree, and each     *)
(* handle agrees with the generations of the containers it indexes exactly *)
(* when it is not stale.                                                   *)
(***************************************************************************)
\* A step of the path to a part is what the container there has: a field of a
\* record or an index of a list.
Typed == \A q \in shape : \A i \in 1..Len(q) :
           q[i] \in IF i - 1 \in RecordsAt THEN Fields ELSE Indexes

\* The value is a tree.
Tree ==
  /\ shape \subseteq Paths /\ <<>> \in shape
  /\ \A p \in shape : p # <<>> =>
       /\ Front(p) \in shape
       /\ Last(p) \in Indexes => \A i \in 0..Last(p) : Append(Front(p), i) \in shape
  /\ Typed

\* A path is a sequence of steps.
LEMMA PathsAre ==
  ASSUME PlacesAssumption
  PROVE  /\ Steps \subseteq Nat
         /\ \A q : q \in Paths <=> q \in Seq(Steps) /\ Len(q) <= Depth
         /\ \A q \in Paths : q \in Seq(Nat) /\ Len(q) \in Nat
<1>1. Steps \subseteq Nat /\ Depth \in Nat /\ Width \in Nat
  <2>1. Depth \in Nat /\ Width \in Nat /\ Fields \subseteq Nat
    BY DEF PlacesAssumption
  <2>2. Indexes \subseteq Nat
    BY <2>1 DEF Indexes
  <2> QED
    BY <2>1, <2>2 DEF Steps
<1>2. ASSUME NEW q
      PROVE  q \in Paths <=> q \in Seq(Steps) /\ Len(q) <= Depth
  <2>1. ASSUME q \in Paths
        PROVE  q \in Seq(Steps) /\ Len(q) <= Depth
    <3>1. PICK n \in 0..Depth : q \in [1..n -> Steps]
      BY <2>1 DEF Paths
    <3> QED
      BY <1>1, <3>1
  <2>2. ASSUME q \in Seq(Steps), Len(q) <= Depth
        PROVE  q \in Paths
    <3>1. q \in [1..Len(q) -> Steps] /\ Len(q) \in 0..Depth
      BY <1>1, <2>2
    <3> QED
      BY <3>1 DEF Paths
  <2> QED
    BY <2>1, <2>2
<1>3. ASSUME NEW q \in Paths
      PROVE  q \in Seq(Nat) /\ Len(q) \in Nat
  <2>1. q \in Seq(Steps)
    BY <1>2
  <2>2. q \in Seq(Nat)
    BY <1>1, <2>1, SeqMonotonic
  <2> QED
    BY <2>2
<1> QED
  BY <1>1, <1>2, <1>3

\* A prefix, element by element.
LEMMA PrefixIs ==
  ASSUME NEW p \in Seq(Nat), NEW q \in Seq(Nat)
  PROVE  IsPrefix(p, q) <=> Len(p) <= Len(q) /\ \A i \in 1..Len(p) : p[i] = q[i]
<1> CASE Len(p) <= Len(q)
  <2> DEFINE s == SubSeq(p, 1, Len(p))
             t == SubSeq(q, 1, Len(p))
  <2>1. /\ s \in Seq(Nat) /\ Len(s) = Len(p) /\ \A i \in 1..Len(p) : s[i] = p[i]
        /\ t \in Seq(Nat) /\ Len(t) = Len(p) /\ \A i \in 1..Len(p) : t[i] = q[i]
    OBVIOUS
  <2>2. s = t <=> \A i \in 1..Len(p) : p[i] = q[i]
    <3> HIDE DEF s, t
    <3> QED
      BY <2>1, SeqEqual
  <2> QED
    BY <2>2 DEF IsPrefix
<1> CASE ~(Len(p) <= Len(q))
  BY DEF IsPrefix
<1> QED
  OBVIOUS

\* The container of a part, and the part's neighbours in it.
LEMMA FrontIs ==
  ASSUME PlacesAssumption, NEW q \in Paths, q # <<>>
  PROVE  /\ Front(q) \in Paths /\ Len(q) \in Nat \ {0} /\ Len(Front(q)) = Len(q) - 1
         /\ \A i \in 1..Len(q) - 1 : Front(q)[i] = q[i]
         /\ Last(q) = q[Len(q)] /\ Last(q) \in Steps
<1>1. q \in Seq(Steps) /\ Len(q) <= Depth /\ Depth \in Nat
  BY PathsAre DEF PlacesAssumption
<1>2. Len(q) \in Nat \ {0}
  BY <1>1
<1>3. /\ Front(q) \in Seq(Steps) /\ Len(Front(q)) = Len(q) - 1
      /\ \A i \in 1..Len(q) - 1 : Front(q)[i] = q[i]
  <2>1. \A i \in 1..(Len(q) - 1) : q[i] \in Steps
    BY <1>1, <1>2, ElementOfSeq
  <2>2. PICK m : m = Len(q) - 1
    OBVIOUS
  <2>3. PICK s : s = SubSeq(q, 1, m)
    OBVIOUS
  <2>4. m \in Nat /\ m + 1 = Len(q) /\ m - 1 + 1 = m /\ \A i \in 1..m : 1 + i - 1 = i
    BY <1>2, <2>2
  <2>5. /\ s \in Seq(Steps) /\ Len(s) = (IF 1 <= m THEN m - 1 + 1 ELSE 0)
        /\ \A i \in 1..(m - 1 + 1) : s[i] = q[1 + i - 1]
    <3>1. 1 \in Int /\ m \in Int
      BY <2>4
    <3>2. \A i \in 1..m : q[i] \in Steps
      BY <2>1, <2>2
    <3>3. /\ SubSeq(q, 1, m) \in Seq(Steps)
          /\ Len(SubSeq(q, 1, m)) = IF 1 <= m THEN m - 1 + 1 ELSE 0
          /\ \A i \in 1..m - 1 + 1 : SubSeq(q, 1, m)[i] = q[1 + i - 1]
      BY <3>1, <3>2, SubSeqProperties
    <3> QED
      BY <2>3, <3>3, Zenon
  <2>6. Len(s) = m /\ \A i \in 1..m : s[i] = q[i]
    BY <2>4, <2>5
  <2> QED
    BY <2>2, <2>3, <2>5, <2>6 DEF Front
<1>4. Front(q) \in Paths
  BY <1>1, <1>2, <1>3, PathsAre
<1> QED
  BY <1>1, <1>2, <1>3, <1>4 DEF Last

LEMMA SiblingIs ==
  ASSUME PlacesAssumption, NEW q \in Paths, q # <<>>, NEW k \in Steps
  PROVE  /\ Append(Front(q), k) \in Paths /\ Len(Append(Front(q), k)) = Len(q)
         /\ Append(Front(q), k)[Len(q)] = k
         /\ \A i \in 1..Len(q) - 1 : Append(Front(q), k)[i] = q[i]
         /\ k = Last(q) => Append(Front(q), k) = q
<1> DEFINE s == Append(Front(q), k)
<1>1. /\ Front(q) \in Seq(Steps) /\ Len(q) \in Nat \ {0} /\ Len(Front(q)) = Len(q) - 1
      /\ Len(q) <= Depth /\ q \in Seq(Steps)
  BY FrontIs, PathsAre
<1>2. /\ s \in Seq(Steps) /\ Len(s) = Len(q) /\ s[Len(q)] = k
      /\ \A i \in 1..Len(q) - 1 : s[i] = Front(q)[i]
  BY <1>1
<1>3. \A i \in 1..Len(q) - 1 : s[i] = q[i]
  BY <1>2, FrontIs
<1>4. s \in Paths
  BY <1>1, <1>2, PathsAre
<1>5. ASSUME k = Last(q)
      PROVE  s = q
  <2>1. \A i \in 1..Len(q) : s[i] = q[i]
    BY <1>1, <1>2, <1>3, <1>5, FrontIs
  <2> HIDE DEF s
  <2> QED
    BY <1>1, <1>2, <2>1, SeqEqual
<1> QED
  BY <1>2, <1>3, <1>4, <1>5

\* What has p in front of it, element by element.
LEMMA PrefixPaths ==
  ASSUME PlacesAssumption, NEW p \in Paths, NEW q \in Paths
  PROVE  /\ IsPrefix(p, q) <=> Len(p) <= Len(q) /\ \A i \in 1..Len(p) : p[i] = q[i]
         /\ IsPrefix(p, q) /\ Len(p) = Len(q) => p = q
         /\ Len(p) \in Nat /\ Len(q) \in Nat
         /\ Len(q) = 0 <=> q = <<>>
<1>1. p \in Seq(Nat) /\ q \in Seq(Nat)
  BY PathsAre
<1>2. Len(p) \in Nat /\ Len(q) \in Nat /\ (Len(q) = 0 <=> q = <<>>)
  BY <1>1
<1> QED
  BY <1>1, <1>2, PrefixIs, SeqEqual

\* A new value for a place is a tree where the old one was.
LEMMA BuiltIs ==
  ASSUME PlacesAssumption, NEW p \in Paths, NEW size \in 0..Width, NEW q
  PROVE  q \in Built(p, size) <=>
           /\ q \in Paths /\ Len(p) <= Len(q) /\ \A i \in 1..Len(p) : p[i] = q[i]
           /\ \A i \in (Len(p) + 1)..Len(q) :
                q[i] \in IF i - 1 \in RecordsAt THEN Fields ELSE 0..(size - 1)
BY PrefixPaths DEF Built

LEMMA ReplaceTree ==
  ASSUME PlacesAssumption, Tree, NEW p \in shape, NEW size \in 0..Width,
         shape' = {q \in shape : ~IsPrefix(p, q)} \cup Built(p, size)
  PROVE  Tree'
<1>1. /\ p \in Paths /\ Width \in Nat /\ Fields \cap Indexes = {} /\ 0..(size - 1) \subseteq Indexes
      /\ Indexes \subseteq Steps /\ Indexes \subseteq Nat
  BY DEF Tree, PlacesAssumption, Indexes, Steps
<1>2. p \in Built(p, size)
  <2>1. Len(p) \in Nat
    BY <1>1, PathsAre
  <2> QED
    BY <1>1, <2>1, BuiltIs
<1>3. shape' \subseteq Paths
  BY <1>1, BuiltIs DEF Tree
<1>4. <<>> \in shape'
  <2>1. CASE p = <<>>
    BY <1>2, <2>1
  <2>2. CASE p # <<>>
    <3>1. <<>> \in Paths /\ <<>> \in shape
      BY DEF Tree
    <3>2. ~IsPrefix(p, <<>>)
      BY <1>1, <2>2, <3>1, PrefixPaths
    <3> QED
      BY <3>1, <3>2
  <2> QED
    BY <2>1, <2>2
<1>5. ASSUME NEW q \in shape', q # <<>>
      PROVE  /\ Front(q) \in shape'
             /\ Last(q) \in Indexes => \A k \in 0..Last(q) : Append(Front(q), k) \in shape'
  <2>0. q \in Paths
    BY <1>3
  <2>f. /\ Front(q) \in Paths /\ Len(q) \in Nat \ {0} /\ Len(Front(q)) = Len(q) - 1
        /\ \A i \in 1..(Len(q) - 1) : Front(q)[i] = q[i]
        /\ Last(q) = q[Len(q)]
    BY <1>5, <2>0, FrontIs
  <2>s. ASSUME NEW k \in Steps
        PROVE  /\ Append(Front(q), k) \in Paths /\ Len(Append(Front(q), k)) = Len(q)
               /\ Append(Front(q), k)[Len(q)] = k
               /\ \A i \in 1..(Len(q) - 1) : Append(Front(q), k)[i] = q[i]
               /\ k = Last(q) => Append(Front(q), k) = q
    BY <1>5, <2>0, SiblingIs
  <2>p. Len(p) \in Nat
    BY <1>1, PathsAre
  <2>1. CASE q \in shape /\ ~IsPrefix(p, q)
    <3>1. Front(q) \in shape /\ ~IsPrefix(p, Front(q))
      <4>1. PICK s : s = Front(q)
        OBVIOUS
      <4>2. ~(Len(p) <= Len(q) /\ \A i \in 1..Len(p) : p[i] = q[i])
        BY <1>1, <2>0, <2>1, PrefixPaths
      <4>3. IsPrefix(p, s) => Len(p) <= Len(s) /\ \A i \in 1..Len(p) : p[i] = s[i]
        BY <1>1, <2>f, <4>1, PrefixPaths
      <4>4. ~IsPrefix(p, s)
        BY <2>f, <2>p, <4>1, <4>2, <4>3
      <4> QED
        BY <1>5, <2>1, <4>1, <4>4 DEF Tree
    <3>2. ASSUME Last(q) \in Indexes, NEW k \in 0..Last(q)
          PROVE  Append(Front(q), k) \in shape'
      <4>1. Append(Front(q), k) \in shape
        BY <1>5, <2>1, <3>2 DEF Tree
      <4>2. k \in Steps
        BY <1>1, <3>2 DEF Indexes
      <4>3. PICK s : s = Append(Front(q), k)
        OBVIOUS
      <4>4. /\ s \in Paths /\ Len(s) = Len(q) /\ s[Len(q)] = k
            /\ \A i \in 1..(Len(q) - 1) : s[i] = q[i]
        BY <2>s, <4>2, <4>3
      <4>5. ~(Len(p) <= Len(q) /\ \A i \in 1..Len(p) : p[i] = q[i])
        BY <1>1, <2>0, <2>1, PrefixPaths
      <4>6. IsPrefix(p, s) => Len(p) = Len(s)
        <5>1. IsPrefix(p, s) => Len(p) <= Len(s) /\ \A i \in 1..Len(p) : p[i] = s[i]
          BY <1>1, <4>4, PrefixPaths
        <5> QED
          BY <2>f, <2>p, <4>4, <4>5, <5>1
      <4>7. IsPrefix(p, s) => p = s
        BY <1>1, <4>4, <4>6, PrefixPaths
      <4> QED
        BY <1>2, <4>1, <4>3, <4>7
    <3> QED
      BY <3>1, <3>2
  <2>2. CASE q \in Built(p, size) /\ q = p
    <3>1. Front(q) \in shape /\ ~IsPrefix(p, Front(q))
      BY <1>1, <1>5, <2>0, <2>f, <2>2, <2>p, PrefixPaths DEF Tree
    <3>2. ASSUME Last(q) \in Indexes, NEW k \in 0..Last(q)
          PROVE  Append(Front(q), k) \in shape'
      <4>1. Append(Front(q), k) \in shape
        BY <1>5, <2>2, <3>2 DEF Tree
      <4>2. k \in Steps
        BY <1>1, <3>2 DEF Indexes
      <4>3. IsPrefix(p, Append(Front(q), k)) => p = Append(Front(q), k)
        BY <1>1, <2>0, <2>2, <2>f, <2>s, <2>p, <4>2, PrefixPaths
      <4> QED
        BY <1>2, <4>1, <4>3
    <3> QED
      BY <3>1, <3>2
  <2>3. CASE q \in Built(p, size) /\ q # p
    <3>b. /\ Len(p) <= Len(q) /\ \A i \in 1..Len(p) : p[i] = q[i]
          /\ \A i \in (Len(p) + 1)..Len(q) :
                q[i] \in IF i - 1 \in RecordsAt THEN Fields ELSE 0..(size - 1)
      BY <1>1, <2>3, BuiltIs
    <3>1. Len(p) < Len(q)
      BY <1>1, <2>0, <2>3, <3>b, PrefixPaths
    <3>2. Front(q) \in Built(p, size)
      <4>1. PICK s : s = Front(q)
        OBVIOUS
      <4>2. /\ s \in Paths /\ Len(s) = Len(q) - 1
            /\ \A i \in 1..(Len(q) - 1) : s[i] = q[i]
        BY <2>f, <4>1
      <4>3. Len(p) <= Len(s) /\ \A i \in 1..Len(p) : p[i] = s[i]
        BY <2>f, <2>p, <3>b, <3>1, <4>2
      <4>4. \A i \in (Len(p) + 1)..Len(s) : i \in (Len(p) + 1)..Len(q) /\ s[i] = q[i]
        BY <2>f, <2>p, <4>2
      <4> QED
        BY <1>1, <3>b, <4>1, <4>2, <4>3, <4>4, BuiltIs
    <3>3. ASSUME Last(q) \in Indexes, NEW k \in 0..Last(q)
          PROVE  Append(Front(q), k) \in Built(p, size)
      <4>1. k \in Steps /\ k \in Nat /\ Last(q) \in Nat /\ k <= Last(q)
        BY <1>1, <3>3 DEF Indexes
      <4>2. Last(q) \in 0..(size - 1) /\ Len(q) - 1 \notin RecordsAt
        BY <1>1, <2>f, <2>p, <3>b, <3>1, <3>3
      <4>3. k \in 0..(size - 1)
        BY <4>1, <4>2
      <4>4. PICK s : s = Append(Front(q), k)
        OBVIOUS
      <4>5. /\ s \in Paths /\ Len(s) = Len(q) /\ s[Len(q)] = k
            /\ \A i \in 1..(Len(q) - 1) : s[i] = q[i]
        BY <2>s, <4>1, <4>4
      <4>6. Len(p) <= Len(s) /\ \A i \in 1..Len(p) : p[i] = s[i]
        BY <2>f, <2>p, <3>b, <3>1, <4>5
      <4>7. ASSUME NEW i \in (Len(p) + 1)..Len(s)
            PROVE  s[i] \in IF i - 1 \in RecordsAt THEN Fields ELSE 0..(size - 1)
        <5>1. CASE i = Len(q)
          BY <4>2, <4>3, <4>5, <5>1
        <5>2. CASE i # Len(q)
          BY <2>f, <2>p, <3>b, <4>5, <5>2
        <5> QED
          BY <5>1, <5>2
      <4> QED
        BY <1>1, <4>4, <4>5, <4>6, <4>7, BuiltIs
    <3> QED
      BY <3>2, <3>3
  <2> QED
    BY <2>1, <2>2, <2>3
<1>6. Typed'
  <2>1. ASSUME NEW q \in shape', NEW i \in 1..Len(q)
        PROVE  q[i] \in IF i - 1 \in RecordsAt THEN Fields ELSE Indexes
    <3>1. CASE q \in shape
      BY <3>1 DEF Tree, Typed
    <3>2. CASE q \in Built(p, size)
      <4>1. Len(p) \in Nat /\ Len(q) \in Nat
        BY <1>1, <1>3, PathsAre
      <4>2. CASE i \in 1..Len(p)
        BY <1>1, <3>2, <4>2, BuiltIs DEF Tree, Typed
      <4>3. CASE i \in (Len(p) + 1)..Len(q)
        BY <1>1, <3>2, <4>3, BuiltIs
      <4> QED
        BY <4>1, <4>2, <4>3
    <3> QED
      BY <3>1, <3>2
  <2> QED
    BY <2>1 DEF Typed
<1> QED
  BY <1>3, <1>4, <1>5, <1>6 DEF Tree

\* Clearing a list leaves a tree.
LEMMA ClearTree ==
  ASSUME PlacesAssumption, Tree, NEW p \in shape, shape' = Cleared(p)
  PROVE  Tree'
<1>1. p \in Paths /\ shape' \subseteq shape /\ shape' \subseteq Paths /\ Indexes \subseteq Steps
      /\ Indexes \subseteq Nat /\ Width \in Nat
  BY PathsAre DEF Cleared, Tree, Steps, PlacesAssumption
<1>2. <<>> \in shape'
  <2>1. <<>> \in Paths /\ <<>> \in shape
    BY DEF Tree
  <2>2. ~IsStrictPrefix(p, <<>>)
    BY <1>1, <2>1, PrefixPaths DEF IsStrictPrefix
  <2> QED
    BY <2>1, <2>2 DEF Cleared
<1>3. ASSUME NEW q \in shape', q # <<>>
      PROVE  /\ Front(q) \in shape'
             /\ Last(q) \in Indexes => \A k \in 0..Last(q) : Append(Front(q), k) \in shape'
  <2>0. q \in Paths /\ q \in shape /\ Len(p) \in Nat
    BY <1>1, PathsAre
  <2>f. /\ Front(q) \in Paths /\ Len(q) \in Nat \ {0} /\ Len(Front(q)) = Len(q) - 1
        /\ \A i \in 1..(Len(q) - 1) : Front(q)[i] = q[i]
    BY <1>3, <2>0, FrontIs
  <2>1. ~(Len(p) < Len(q) /\ \A i \in 1..Len(p) : p[i] = q[i])
    BY <1>1, <2>0, PrefixPaths DEF Cleared, IsStrictPrefix
  <2>2. ~IsStrictPrefix(p, Front(q))
    <3>1. PICK s : s = Front(q)
      OBVIOUS
    <3>2. IsPrefix(p, s) => Len(p) <= Len(s) /\ \A i \in 1..Len(p) : p[i] = s[i]
      BY <1>1, <2>f, <3>1, PrefixPaths
    <3> QED
      BY <2>0, <2>f, <2>1, <3>1, <3>2 DEF IsStrictPrefix
  <2>3. Front(q) \in shape'
    BY <1>3, <2>0, <2>2 DEF Tree, Cleared
  <2>4. ASSUME Last(q) \in Indexes, NEW k \in 0..Last(q)
        PROVE  Append(Front(q), k) \in shape'
    <3>1. Append(Front(q), k) \in shape /\ k \in Steps
      BY <1>1, <1>3, <2>0, <2>4 DEF Tree, Indexes
    <3>2. PICK s : s = Append(Front(q), k)
      OBVIOUS
    <3>3. s \in Paths /\ Len(s) = Len(q) /\ \A i \in 1..(Len(q) - 1) : s[i] = q[i]
      BY <1>3, <2>0, <3>1, <3>2, SiblingIs
    <3>4. /\ IsPrefix(p, s) => Len(p) <= Len(s) /\ \A i \in 1..Len(p) : p[i] = s[i]
          /\ IsPrefix(p, s) /\ Len(p) = Len(s) => p = s
      BY <1>1, <3>3, PrefixPaths
    <3>5. ~IsStrictPrefix(p, s)
      BY <2>0, <2>f, <2>1, <3>3, <3>4 DEF IsStrictPrefix
    <3> QED
      BY <3>1, <3>2, <3>5 DEF Cleared
  <2> QED
    BY <2>3, <2>4
<1>4. Typed'
  BY <1>1 DEF Tree, Typed
<1> QED
  BY <1>1, <1>2, <1>3, <1>4 DEF Tree

\* A list has the elements 0, 1, ... as many as it has children.
LEMMA ListIs ==
  ASSUME PlacesAssumption, Tree, NEW p \in shape, ~IsRecord(p)
  PROVE  /\ Cardinality(Children(p)) \in Nat
         /\ \A i \in 0..(Cardinality(Children(p)) - 1) : Append(p, i) \in shape
<1>1. /\ p \in Paths /\ p \in Seq(Nat) /\ Len(p) \in Nat /\ shape \subseteq Paths
      /\ Width \in Nat /\ Indexes \subseteq Nat /\ Indexes \subseteq Steps
  BY PathsAre DEF Tree, PlacesAssumption, Indexes, Steps
<1>2. ASSUME NEW q \in Children(p)
      PROVE  /\ Last(q) \in Indexes /\ q = Append(p, Last(q))
             /\ \A k \in 0..Last(q) : Append(p, k) \in shape
  <2>1. q \in Paths /\ q \in shape /\ Len(q) = Len(p) + 1 /\ q # <<>>
    BY <1>1 DEF Children
  <2>2. \A i \in 1..Len(p) : p[i] = q[i]
    BY <1>1, <2>1, PrefixPaths DEF Children
  <2>3. Front(q) = p
    <3>1. Front(q) \in Seq(Nat) /\ Len(Front(q)) = Len(q) - 1 /\ \A i \in 1..(Len(q) - 1) : Front(q)[i] = q[i]
      BY <2>1, FrontIs, PathsAre
    <3>2. Len(Front(q)) = Len(p) /\ \A i \in 1..Len(p) : Front(q)[i] = p[i]
      BY <1>1, <2>1, <2>2, <3>1
    <3> QED
      BY <1>1, <3>1, <3>2, SeqEqual
  <2>4. Last(q) \in Indexes
    <3>1. Len(q) \in 1..Len(q) /\ Len(q) - 1 = Len(p) /\ Last(q) = q[Len(q)]
      BY <1>1, <2>1, FrontIs
    <3>2. Len(q) - 1 \notin RecordsAt
      BY <3>1 DEF IsRecord
    <3> QED
      BY <2>1, <3>1, <3>2 DEF Tree, Typed
  <2>5. q = Append(p, Last(q))
    BY <1>1, <2>1, <2>3, <2>4, SiblingIs
  <2> QED
    BY <2>1, <2>3, <2>4, <2>5 DEF Tree
<1>3. ASSUME NEW n \in Nat, \A q \in Children(p) : Last(q) < n
      PROVE  IsFiniteSet(Children(p)) /\ Cardinality(Children(p)) <= n
  <2> DEFINE S == 0..(n - 1)
             T == {Append(p, k) : k \in S}
  <2>1. IsFiniteSet(S) /\ Cardinality(S) = n
    BY FS_Interval
  <2>2. IsFiniteSet(T) /\ Cardinality(T) <= Cardinality(S)
    <3> DEFINE f == [k \in S |-> Append(p, k)]
    <3>1. T = {f[k] : k \in S}
      OBVIOUS
    <3>2. f \in Surjection(S, T)
      BY DEF Surjection
    <3> QED
      BY <2>1, <3>2, FS_Surjection
  <2>3. Children(p) \subseteq T
    <3> SUFFICES ASSUME NEW q \in Children(p)
                 PROVE  q \in T
      OBVIOUS
    <3>1. q = Append(p, Last(q)) /\ Last(q) \in S
      BY <1>1, <1>2, <1>3 DEF Indexes
    <3> QED
      BY <3>1
  <2>4. IsFiniteSet(Children(p)) /\ Cardinality(Children(p)) <= Cardinality(T)
    <3> HIDE DEF T
    <3> QED
      BY <2>2, <2>3, FS_Subset
  <2>5. Cardinality(Children(p)) \in Nat /\ Cardinality(T) \in Nat
    <3> HIDE DEF T
    <3> QED
      BY <2>2, <2>4, FS_CardinalityType
  <2> HIDE DEF S, T
  <2> QED
    BY <2>1, <2>2, <2>4, <2>5
<1>4. IsFiniteSet(Children(p)) /\ Cardinality(Children(p)) \in Nat
  <2>1. \A q \in Children(p) : Last(q) < Width
    BY <1>1, <1>2 DEF Indexes
  <2>2. IsFiniteSet(Children(p))
    BY <1>1, <1>3, <2>1
  <2> QED
    BY <2>2, FS_CardinalityType
<1>5. ASSUME NEW i \in 0..(Cardinality(Children(p)) - 1), Append(p, i) \notin shape
      PROVE  FALSE
  <2>1. i \in Nat /\ i < Cardinality(Children(p))
    BY <1>4
  <2>2. \A q \in Children(p) : Last(q) < i
    BY <1>1, <1>2, <1>5, <2>1 DEF Indexes
  <2>3. Cardinality(Children(p)) <= i
    BY <1>3, <2>1, <2>2
  <2> QED
    BY <1>4, <2>1, <2>3
<1> QED
  BY <1>4, <1>5

\* A push leaves a tree: the new element comes after the others.
LEMMA GrowTree ==
  ASSUME PlacesAssumption, Tree, NEW p \in shape, ~IsRecord(p), Len(p) < Depth,
         Cardinality(Children(p)) < Width,
         shape' = shape \cup Built(Append(p, Cardinality(Children(p))), 0)
  PROVE  Tree'
<1> DEFINE n == Cardinality(Children(p))
           a == Append(p, n)
<1>1. /\ p \in Paths /\ p \in Seq(Steps) /\ Len(p) \in Nat /\ shape \subseteq Paths
      /\ Width \in Nat /\ Indexes \subseteq Nat /\ Indexes \subseteq Steps /\ Depth \in Nat
      /\ Fields \cap Indexes = {} /\ 0 \in 0..Width
  BY PathsAre DEF Tree, PlacesAssumption, Indexes, Steps
<1>2. n \in Nat /\ n \in Indexes /\ \A i \in 0..(n - 1) : Append(p, i) \in shape
  BY <1>1, ListIs DEF Indexes
<1> HIDE DEF n
<1>3. /\ a \in Seq(Steps) /\ Len(a) = Len(p) + 1 /\ a[Len(p) + 1] = n /\ a # <<>>
      /\ \A i \in 1..Len(p) : a[i] = p[i]
  BY <1>1, <1>2, AppendProperties
<1>4. a \in Paths
  <2> HIDE DEF a
  <2>1. Len(a) <= Depth
    BY <1>1, <1>3
  <2> QED
    BY <1>3, <2>1, PathsAre
<1>5. shape' = shape \cup Built(a, 0)
  BY DEF n
<1>6. Front(a) = p /\ Last(a) = n
  <2>1. /\ Front(a) \in Seq(Steps) /\ Len(Front(a)) = Len(a) - 1 /\ Last(a) = a[Len(a)]
        /\ \A i \in 1..(Len(a) - 1) : Front(a)[i] = a[i]
    BY <1>3, <1>4, FrontIs, PathsAre
  <2> HIDE DEF a
  <2>2. Len(Front(a)) = Len(p) /\ \A i \in 1..Len(p) : Front(a)[i] = p[i]
    BY <1>1, <1>3, <2>1
  <2> QED
    BY <1>1, <1>3, <2>1, <2>2, SeqEqual
<1>7. a \in Built(a, 0)
  <2> HIDE DEF a
  <2> QED
    BY <1>1, <1>3, <1>4, BuiltIs
<1>8. \A i \in 0..n : Append(p, i) \in shape'
  BY <1>2, <1>5, <1>7
<1> HIDE DEF a
<1>9. shape' \subseteq Paths /\ <<>> \in shape'
  BY <1>1, <1>4, <1>5, BuiltIs DEF Tree
<1>10. ASSUME NEW q \in shape', q # <<>>
       PROVE  /\ Front(q) \in shape'
              /\ Last(q) \in Indexes => \A k \in 0..Last(q) : Append(Front(q), k) \in shape'
  <2>1. CASE q \in shape
    BY <1>5, <1>10, <2>1 DEF Tree
  <2>2. CASE q = a
    BY <1>5, <1>6, <1>8, <2>2
  <2>3. CASE q \in Built(a, 0) /\ q # a
    <3>b. /\ q \in Paths /\ Len(a) <= Len(q) /\ \A i \in 1..Len(a) : a[i] = q[i]
          /\ \A i \in (Len(a) + 1)..Len(q) : q[i] \in IF i - 1 \in RecordsAt THEN Fields ELSE 0..(0 - 1)
      BY <1>1, <1>4, <2>3, BuiltIs
    <3>f. /\ Front(q) \in Paths /\ Len(q) \in Nat \ {0} /\ Len(Front(q)) = Len(q) - 1
          /\ \A i \in 1..(Len(q) - 1) : Front(q)[i] = q[i]
          /\ Last(q) = q[Len(q)]
      BY <1>10, <3>b, FrontIs
    <3>1. Len(a) < Len(q) /\ Len(a) \in Nat
      BY <1>4, <2>3, <3>b, PrefixPaths
    <3>2. Front(q) \in Built(a, 0)
      <4>1. PICK s : s = Front(q)
        OBVIOUS
      <4>2. /\ s \in Paths /\ Len(s) = Len(q) - 1
            /\ \A i \in 1..(Len(q) - 1) : s[i] = q[i]
        BY <3>f, <4>1
      <4>3. Len(a) <= Len(s) /\ \A i \in 1..Len(a) : a[i] = s[i]
        BY <3>f, <3>b, <3>1, <4>2
      <4>4. \A i \in (Len(a) + 1)..Len(s) : i \in (Len(a) + 1)..Len(q) /\ s[i] = q[i]
        BY <3>f, <3>1, <4>2
      <4> QED
        BY <1>1, <1>4, <3>b, <4>1, <4>2, <4>3, <4>4, BuiltIs
    <3>3. Last(q) \notin Indexes
      <4>1. Len(q) \in (Len(a) + 1)..Len(q) /\ 0..(0 - 1) = {}
        BY <3>f, <3>1
      <4> QED
        BY <1>1, <3>b, <3>f, <4>1
    <3> QED
      BY <1>5, <3>2, <3>3
  <2> QED
    BY <1>5, <2>1, <2>2, <2>3
<1>11. Typed'
  <2>1. ASSUME NEW q \in shape', NEW i \in 1..Len(q)
        PROVE  q[i] \in IF i - 1 \in RecordsAt THEN Fields ELSE Indexes
    <3>1. CASE q \in shape
      BY <3>1 DEF Tree, Typed
    <3>2. CASE q \in Built(a, 0)
      <4>1. Len(a) \in Nat /\ Len(q) \in Nat
        BY <1>4, <1>9, PathsAre
      <4>2. CASE i \in 1..Len(p)
        <5>1. q[i] = p[i]
          <6>1. i \in 1..Len(a) /\ a[i] = p[i]
            BY <1>1, <1>3, <4>2
          <6> QED
            BY <1>1, <1>4, <3>2, <6>1, BuiltIs
        <5> QED
          BY <4>2, <5>1 DEF Tree, Typed
      <4>3. CASE i = Len(a)
        <5>1. q[i] = n /\ i - 1 \notin RecordsAt
          <6>1. i = Len(p) + 1 /\ i - 1 = Len(p) /\ i \in 1..Len(a)
            BY <1>1, <1>3, <4>3
          <6> QED
            BY <1>1, <1>3, <1>4, <3>2, <6>1, BuiltIs DEF IsRecord
        <5> QED
          BY <1>2, <5>1
      <4>4. CASE i \in (Len(a) + 1)..Len(q)
        <5>1. 0..(0 - 1) = {}
          OBVIOUS
        <5> QED
          BY <1>1, <1>4, <3>2, <4>4, <5>1, BuiltIs
      <4> QED
        BY <1>1, <1>3, <4>1, <4>2, <4>3, <4>4
    <3> QED
      BY <1>5, <3>1, <3>2
  <2> QED
    BY <2>1 DEF Typed
<1> QED
  BY <1>9, <1>10, <1>11 DEF Tree

\* The first value is a tree.
LEMMA InitTree ==
  ASSUME PlacesAssumption, shape = Built(<<>>, 0)
  PROVE  Tree
<1>1. /\ <<>> \in Paths /\ Len(<<>>) = 0 /\ 0 \in 0..Width /\ Width \in Nat
      /\ Fields \cap Indexes = {} /\ 0..(0 - 1) = {} /\ 0 \in Nat
  <2>1. Width \in Nat /\ Depth \in Nat
    BY DEF PlacesAssumption
  <2>2. <<>> \in Seq(Steps) /\ Len(<<>>) = 0
    OBVIOUS
  <2>3. Fields \cap Indexes = {}
    BY DEF PlacesAssumption, Indexes
  <2>4. <<>> \in Paths
    <3>1. Len(<<>>) <= Depth
      BY <2>1, <2>2
    <3> QED
      BY <2>2, <3>1, PathsAre
  <2> QED
    BY <2>1, <2>2, <2>3, <2>4
<1>2. ASSUME NEW q
      PROVE  q \in shape <=>
               /\ q \in Paths
               /\ \A i \in 1..Len(q) : i - 1 \in RecordsAt /\ q[i] \in Fields
  <2>1. q \in Paths => Len(q) \in Nat
    BY PathsAre
  <2>2. q \in shape <=>
          /\ q \in Paths /\ Len(<<>>) <= Len(q) /\ \A i \in 1..Len(<<>>) : <<>>[i] = q[i]
          /\ \A i \in (Len(<<>>) + 1)..Len(q) :
               q[i] \in IF i - 1 \in RecordsAt THEN Fields ELSE 0..(0 - 1)
    BY <1>1, BuiltIs
  <2> QED
    BY <1>1, <2>1, <2>2
<1>3. ASSUME NEW q \in shape, q # <<>>
      PROVE  Front(q) \in shape /\ Last(q) \notin Indexes
  <2>1. /\ Front(q) \in Paths /\ Len(q) \in Nat \ {0} /\ Len(Front(q)) = Len(q) - 1
        /\ \A i \in 1..(Len(q) - 1) : Front(q)[i] = q[i]
        /\ Last(q) = q[Len(q)]
    BY <1>2, <1>3, FrontIs
  <2>2. Last(q) \notin Indexes
    BY <1>1, <1>2, <2>1
  <2>3. \A i \in 1..Len(Front(q)) : i \in 1..Len(q) /\ Front(q)[i] = q[i]
    BY <2>1
  <2>4. Front(q) \in shape
    BY <1>2, <1>3, <2>1, <2>3
  <2> QED
    BY <2>2, <2>4
<1>4. Typed
  BY <1>2 DEF Typed
<1>5. <<>> \in shape
  BY <1>1, <1>2
<1> QED
  BY <1>2, <1>3, <1>4, <1>5 DEF Tree
-----------------------------------------------------------------------------
Projection == [kind : {"index", "field"}, step : Steps, root : Nat, path : Paths, generation : Nat]
Index(ps, i) == i \in 1..Len(ps) /\ ps[i].kind = "index"

\* A projection that indexes names the container before it, whose generation is
\* known and, like the slot's, has not gone back since.
SoundIn(ps, slot, known) ==
  /\ ps \in Seq(Projection)
  /\ \A i \in 1..Len(ps) : Index(ps, i) =>
       /\ Len(ps[i].path) = i - 1 /\ \A j \in 1..(i - 1) : ps[i].path[j] = ps[j].step
       /\ ps[i].path \in DOMAIN known
       /\ ps[i].root <= slot /\ ps[i].generation <= known[ps[i].path]

\* Every container it indexes is as it was, or one is not.
CurrentIn(ps, slot, known) == \A i \in 1..Len(ps) : Index(ps, i) =>
  ps[i].root = slot /\ ps[i].generation = known[ps[i].path]
ExpiredIn(ps, slot, known) == \E i \in 1..Len(ps) : Index(ps, i) /\
  (ps[i].root < slot \/ ps[i].generation < known[ps[i].path])

Sound(ps) == SoundIn(ps, generation, projected)
Current(ps) == CurrentIn(ps, generation, projected)
Expired(ps) == ExpiredIn(ps, generation, projected)

Generations ==
  /\ generation \in Nat /\ DOMAIN projected \subseteq Paths
  /\ \A q \in DOMAIN projected : projected[q] \in 0..MaxGeneration

HandlesInv ==
  /\ Generations /\ stale \subseteq DOMAIN handle
  /\ \A h \in DOMAIN handle : Sound(handle[h])
  /\ \A h \in stale : Expired(handle[h])
  /\ \A h \in DOMAIN handle \ stale : Current(handle[h])

\* The path of a handle, step by step.
LEMMA PathIs ==
  ASSUME PlacesAssumption, NEW ps \in Seq(Projection)
  PROVE  /\ PathOf(ps) \in Seq(Steps) /\ Len(PathOf(ps)) = Len(ps) /\ DOMAIN ps = 1..Len(ps)
         /\ \A i \in 1..Len(ps) : PathOf(ps)[i] = ps[i].step /\ ps[i] \in Projection
         /\ Len(ps) \in Nat
<1>1. DOMAIN ps = 1..Len(ps) /\ Len(ps) \in Nat /\ \A i \in 1..Len(ps) : ps[i] \in Projection
  BY LenProperties, ElementOfSeq
<1>2. \A i \in 1..Len(ps) : ps[i].step \in Steps
  BY <1>1 DEF Projection
<1>3. PathOf(ps) = [i \in 1..Len(ps) |-> ps[i].step]
  BY <1>1 DEF PathOf
<1>4. PathOf(ps) \in [1..Len(ps) -> Steps]
  BY <1>2, <1>3
<1>5. PathOf(ps) \in Seq(Steps) /\ Len(PathOf(ps)) = Len(ps)
  BY <1>1, <1>4
<1> QED
  BY <1>1, <1>3, <1>5

\* The containers a handle indexes are the paths its projections remember.
LEMMA IndexedIs ==
  ASSUME PlacesAssumption, NEW ps, Sound(ps), NEW q
  PROVE  q \in Indexed(ps) <=> \E i \in 1..Len(ps) : Index(ps, i) /\ q = ps[i].path
<1>1. /\ PathOf(ps) \in Seq(Steps) /\ Len(PathOf(ps)) = Len(ps) /\ DOMAIN ps = 1..Len(ps)
      /\ \A i \in 1..Len(ps) : PathOf(ps)[i] = ps[i].step /\ ps[i] \in Projection
      /\ Len(ps) \in Nat
  BY PathIs DEF Sound, SoundIn
<1>2. ASSUME NEW i \in 1..Len(ps), Index(ps, i)
      PROVE  SubSeq(PathOf(ps), 1, i - 1) = ps[i].path
  <2>1. PICK m : m = i - 1
    OBVIOUS
  <2>2. m \in Nat /\ m \in Int /\ 1 \in Int /\ m < Len(ps) /\ m - 1 + 1 = m /\ \A j \in 1..m : 1 + j - 1 = j
    BY <1>1, <2>1
  <2>3. \A j \in 1..m : PathOf(ps)[j] \in Steps
    BY <1>1, <2>2
  <2>4. /\ SubSeq(PathOf(ps), 1, m) \in Seq(Steps)
        /\ Len(SubSeq(PathOf(ps), 1, m)) = IF 1 <= m THEN m - 1 + 1 ELSE 0
        /\ \A j \in 1..m - 1 + 1 : SubSeq(PathOf(ps), 1, m)[j] = PathOf(ps)[1 + j - 1]
    BY <2>2, <2>3, SubSeqProperties
  <2>5. PICK s : s = SubSeq(PathOf(ps), 1, m)
    OBVIOUS
  <2>6. s \in Seq(Steps) /\ Len(s) = m /\ \A j \in 1..m : s[j] = PathOf(ps)[j]
    <3>1. s \in Seq(Steps) /\ Len(s) = (IF 1 <= m THEN m - 1 + 1 ELSE 0)
          /\ \A j \in 1..(m - 1 + 1) : s[j] = PathOf(ps)[1 + j - 1]
      BY <2>4, <2>5, Zenon
    <3> QED
      BY <2>2, <3>1
  <2>7. \A j \in 1..m : s[j] = ps[j].step
    BY <1>1, <2>2, <2>6
  <2>8. ps[i].path \in Seq(Steps) /\ Len(ps[i].path) = m /\ \A j \in 1..m : ps[i].path[j] = ps[j].step
    BY <1>1, <1>2, <2>1, PathsAre DEF Sound, SoundIn, Projection
  <2>9. s = ps[i].path
    BY <2>6, <2>7, <2>8, SeqEqual
  <2> QED
    BY <2>1, <2>5, <2>9
<1> QED
  BY <1>1, <1>2 DEF Indexed, Index

\* What a register stands for, and an access through it.
LEMMA BaseIs ==
  ASSUME PlacesAssumption, HandlesInv, NEW base \in Bases
  PROVE  /\ Sound(base) /\ (base = <<>> \/ \E h \in DOMAIN handle : base = handle[h])
         /\ (base # <<>> => Len(base) > 0)
<1>1. base = <<>> \/ \E h \in DOMAIN handle : base = handle[h]
  BY DEF Bases, Range
<1>2. CASE base = <<>>
  BY <1>1, <1>2 DEF Sound, SoundIn
<1>3. CASE \E h \in DOMAIN handle : base = handle[h]
  <2>1. Sound(base)
    BY <1>3 DEF HandlesInv
  <2>2. base # <<>> => Len(base) > 0
    BY <2>1 DEF Sound, SoundIn
  <2> QED
    BY <1>1, <2>1, <2>2
<1> QED
  BY <1>1, <1>2, <1>3

LEMMA ReachesIs ==
  ASSUME PlacesAssumption, Tree, HandlesInv, NEW base \in Bases, Reaches(base)
  PROVE  PathOf(base) \in shape /\ PathOf(base) \in Paths /\ Current(base)
<1>1. Sound(base) /\ base \in Seq(Projection)
  BY BaseIs DEF Sound, SoundIn
<1>2. /\ PathOf(base) \in Seq(Steps) /\ Len(PathOf(base)) = Len(base) /\ DOMAIN base = 1..Len(base)
      /\ Len(base) \in Nat
  BY <1>1, PathIs
<1>3. Current(base)
  BY <1>1, <1>2 DEF Reaches, EnsureGeneration, Known, Sound, SoundIn, Current, CurrentIn, Index
<1>4. PathOf(base) \in shape
  <2>1. CASE Len(base) = 0
    <3>1. PathOf(base) = <<>>
      BY <1>2, <2>1
    <3> QED
      BY <3>1 DEF Tree
  <2>2. CASE Len(base) # 0
    <3>1. Len(base) \in DOMAIN base
      BY <1>2, <2>2
    <3>2. SubSeq(PathOf(base), 1, Len(base)) \in shape
      BY <3>1 DEF Reaches
    <3>3. SubSeq(PathOf(base), 1, Len(base)) = PathOf(base)
      BY <1>2, SubSeqFull
    <3> QED
      BY <3>2, <3>3
  <2> QED
    BY <2>1, <2>2
<1> QED
  BY <1>3, <1>4 DEF Tree

\* What a step that loses no generation leaves of a handle.
LEMMA Later ==
  ASSUME NEW ps, SoundIn(ps, generation, projected),
         generation \in Nat, generation' \in Nat, generation <= generation',
         \A q \in DOMAIN projected : /\ q \in DOMAIN projected' /\ projected[q] <= projected'[q]
                                     /\ projected[q] \in Nat /\ projected'[q] \in Nat
  PROVE  /\ SoundIn(ps, generation', projected')
         /\ ExpiredIn(ps, generation, projected) => ExpiredIn(ps, generation', projected')
<1>1. \A i \in 1..Len(ps) : ps[i] \in Projection
  BY ElementOfSeq DEF SoundIn
<1>2. ASSUME NEW i \in 1..Len(ps), Index(ps, i)
      PROVE  /\ ps[i].path \in DOMAIN projected /\ ps[i].path \in DOMAIN projected'
             /\ ps[i].root \in Nat /\ ps[i].generation \in Nat
             /\ ps[i].root <= generation' /\ ps[i].generation <= projected'[ps[i].path]
             /\ ps[i].root < generation => ps[i].root < generation'
             /\ ps[i].generation < projected[ps[i].path] => ps[i].generation < projected'[ps[i].path]
  <2>1. ps[i].root \in Nat /\ ps[i].generation \in Nat
    BY <1>1 DEF Projection
  <2>2. /\ ps[i].path \in DOMAIN projected /\ ps[i].root <= generation
        /\ ps[i].generation <= projected[ps[i].path]
    BY <1>2 DEF SoundIn
  <2>3. PICK q \in DOMAIN projected : q = ps[i].path
    BY <2>2
  <2> QED
    BY <2>1, <2>2, <2>3
<1>3. SoundIn(ps, generation', projected')
  BY <1>2 DEF SoundIn
<1>4. ASSUME ExpiredIn(ps, generation, projected)
      PROVE  ExpiredIn(ps, generation', projected')
  BY <1>2, <1>4 DEF ExpiredIn
<1> QED
  BY <1>3, <1>4

\* A handle is bound and nobody else notices.
LEMMA BindStep ==
  ASSUME PlacesAssumption, HandlesInv, Generations', generation' = generation,
         \A q \in DOMAIN projected : q \in DOMAIN projected' /\ projected'[q] = projected[q],
         NEW h, NEW ps, Bind(h, ps), SoundIn(ps, generation', projected'),
         \/ stale' = stale \ {h} /\ CurrentIn(ps, generation', projected')
         \/ stale' = stale \cup {h} /\ ExpiredIn(ps, generation', projected')
  PROVE  HandlesInv'
<1>1. /\ DOMAIN handle' = DOMAIN handle \cup {h} /\ handle'[h] = ps
      /\ \A g \in DOMAIN handle : g # h => handle'[g] = handle[g]
  BY DEF Bind
<1>2. ASSUME NEW g \in DOMAIN handle, g # h
      PROVE  /\ SoundIn(handle'[g], generation', projected')
             /\ g \in stale => ExpiredIn(handle'[g], generation', projected')
             /\ g \notin stale => CurrentIn(handle'[g], generation', projected')
  <2>1. PICK x : x = handle[g] /\ x = handle'[g]
    BY <1>1, <1>2
  <2>2. SoundIn(x, generation, projected)
    BY <1>2, <2>1 DEF HandlesInv, Sound
  <2>3. /\ generation \in Nat /\ generation' \in Nat /\ generation <= generation'
        /\ \A q \in DOMAIN projected : /\ q \in DOMAIN projected' /\ projected[q] <= projected'[q]
                                       /\ projected[q] \in Nat /\ projected'[q] \in Nat
    BY DEF HandlesInv, Generations
  <2>4. /\ SoundIn(x, generation', projected')
        /\ ExpiredIn(x, generation, projected) => ExpiredIn(x, generation', projected')
    BY <2>2, <2>3, Later
  <2>5. CurrentIn(x, generation, projected) => CurrentIn(x, generation', projected')
    BY <2>2 DEF SoundIn, CurrentIn
  <2>6. g \in stale => ExpiredIn(x, generation, projected)
    BY <2>1 DEF HandlesInv, Expired
  <2>7. g \notin stale => CurrentIn(x, generation, projected)
    BY <1>2, <2>1 DEF HandlesInv, Current
  <2> QED
    BY <2>1, <2>4, <2>5, <2>6, <2>7
<1>3. stale' \subseteq DOMAIN handle'
  BY <1>1 DEF HandlesInv
<1>4. ASSUME NEW g \in DOMAIN handle'
      PROVE  /\ SoundIn(handle'[g], generation', projected')
             /\ g \in stale' => ExpiredIn(handle'[g], generation', projected')
             /\ g \notin stale' => CurrentIn(handle'[g], generation', projected')
  <2>1. CASE g = h
    BY <1>1, <2>1
  <2>2. CASE g # h
    BY <1>1, <1>2, <2>2
  <2> QED
    BY <2>1, <2>2
<1> QED
  BY <1>3, <1>4 DEF HandlesInv, Sound, Expired, Current

\* A mutation at p: what indexes p, or a part of it, expires, nothing else.
LEMMA MutateStep ==
  ASSUME PlacesAssumption, HandlesInv, NEW p \in Paths, Bounded,
         handle' = handle, stale' = stale \cup Taken(p),
         \/ p = <<>> /\ generation' = generation + 1 /\ projected' = projected
         \/ InvalidateProjected(p) /\ generation' = generation
  PROVE  HandlesInv'
<1>1. /\ generation \in Nat /\ generation' \in Nat /\ generation <= generation'
      /\ MaxGeneration \in Nat \ {0}
  BY DEF HandlesInv, Generations, PlacesAssumption
<1>2. \A q \in DOMAIN projected : projected[q] \in Nat /\ projected[q] < MaxGeneration
  BY <1>1 DEF HandlesInv, Generations, Bounded
<1>3. /\ \A q \in DOMAIN projected : /\ q \in DOMAIN projected' /\ projected[q] <= projected'[q]
                                     /\ projected'[q] \in Nat
      /\ Generations'
  <2>1. CASE projected' = projected
    BY <1>1, <1>2, <2>1 DEF HandlesInv, Generations
  <2>2. CASE InvalidateProjected(p)
    <3>1. DOMAIN projected' = DOMAIN projected \cup {p}
      BY <2>2 DEF InvalidateProjected
    <3>2. ASSUME NEW q \in DOMAIN projected
          PROVE  projected'[q] \in {projected[q], projected[q] + 1}
      BY <2>2 DEF InvalidateProjected
    <3>3. p \notin DOMAIN projected => projected'[p] = 1
      BY <2>2 DEF InvalidateProjected
    <3>4. \A q \in DOMAIN projected : /\ projected[q] <= projected'[q] /\ projected'[q] \in Nat
                                      /\ projected'[q] <= MaxGeneration
      BY <1>1, <1>2, <3>2
    <3>5. \A q \in DOMAIN projected' : projected'[q] \in 0..MaxGeneration
      BY <1>1, <3>1, <3>3, <3>4
    <3> QED
      BY <1>1, <3>1, <3>4, <3>5 DEF HandlesInv, Generations
  <2> QED
    BY <2>1, <2>2
<1>4. ASSUME NEW h \in DOMAIN handle
      PROVE  /\ SoundIn(handle[h], generation', projected')
             /\ h \in stale' => ExpiredIn(handle[h], generation', projected')
             /\ h \notin stale' => CurrentIn(handle[h], generation', projected')
  <2>1. PICK x : x = handle[h]
    OBVIOUS
  <2>2. SoundIn(x, generation, projected) /\ Sound(x) /\ x \in Seq(Projection)
    BY <2>1 DEF HandlesInv, Sound, SoundIn
  <2>3. /\ SoundIn(x, generation', projected')
        /\ ExpiredIn(x, generation, projected) => ExpiredIn(x, generation', projected')
    BY <1>1, <1>2, <1>3, <2>2, Later
  <2>4. /\ h \in stale => ExpiredIn(x, generation, projected)
        /\ h \notin stale => CurrentIn(x, generation, projected)
    BY <2>1 DEF HandlesInv, Expired, Current
  <2>5. ASSUME NEW i \in 1..Len(x), Index(x, i)
        PROVE  /\ x[i].path \in DOMAIN projected /\ x[i].path \in Paths
               /\ x[i].root \in Nat /\ x[i].generation \in Nat
               /\ x[i].root <= generation /\ x[i].generation <= projected[x[i].path]
    <3>1. x[i] \in Projection
      BY <2>2, ElementOfSeq
    <3> QED
      BY <2>2, <2>5, <3>1 DEF SoundIn, Projection
  <2>6. h \in Taken(p) <=> \E i \in 1..Len(x) : Index(x, i) /\ IsPrefix(p, x[i].path)
    <3>1. h \in Taken(p) <=> \E q \in Indexed(x) : IsPrefix(p, q)
      BY <2>1 DEF Taken
    <3> QED
      BY <2>2, <3>1, IndexedIs
  <2>7. ASSUME NEW i \in 1..Len(x), Index(x, i), IsPrefix(p, x[i].path)
        PROVE  x[i].root < generation' \/ x[i].generation < projected'[x[i].path]
    <3>1. CASE generation' = generation + 1
      BY <1>1, <2>5, <2>7, <3>1
    <3>2. CASE InvalidateProjected(p)
      <4>1. PICK q \in DOMAIN projected : q = x[i].path
        BY <2>5, <2>7
      <4>2. projected'[q] = projected[q] + 1
        BY <2>7, <3>2, <4>1 DEF InvalidateProjected, Under
      <4> QED
        BY <1>2, <2>5, <2>7, <4>1, <4>2
    <3> QED
      BY <3>1, <3>2
  <2>8. ASSUME NEW i \in 1..Len(x), Index(x, i), ~IsPrefix(p, x[i].path)
        PROVE  generation' = generation /\ projected'[x[i].path] = projected[x[i].path]
    <3>1. p # <<>>
      <4>1. IsPrefix(<<>>, x[i].path)
        <5>1. <<>> \in Paths /\ Len(<<>>) = 0
          <6>1. <<>> \in Seq(Steps) /\ Len(<<>>) = 0 /\ Len(<<>>) <= Depth
            BY DEF PlacesAssumption
          <6> QED
            BY <6>1, PathsAre
        <5>2. Len(x[i].path) \in Nat
          BY <2>5, <2>8, PathsAre
        <5> QED
          BY <2>5, <2>8, <5>1, <5>2, PrefixPaths
      <4> QED
        BY <2>8, <4>1
    <3>2. PICK q \in DOMAIN projected : q = x[i].path
      BY <2>5, <2>8
    <3> QED
      BY <2>8, <3>1, <3>2 DEF InvalidateProjected, Under
  <2>9. h \in stale' => ExpiredIn(x, generation', projected')
    BY <2>3, <2>4, <2>6, <2>7 DEF ExpiredIn
  <2>10. h \notin stale' => CurrentIn(x, generation', projected')
    BY <2>4, <2>6, <2>8 DEF CurrentIn
  <2> QED
    BY <2>1, <2>3, <2>9, <2>10
<1>5. stale' \subseteq DOMAIN handle'
  BY DEF HandlesInv, Taken
<1> QED
  BY <1>3, <1>4, <1>5 DEF HandlesInv, Sound, Expired, Current

PlacesInv == Tree /\ HandlesInv

\* The slot starts with a fresh value and no handles.
LEMMA PlacesInitInv ==
  ASSUME PlacesAssumption, PlacesInit
  PROVE  PlacesInv
<1>1. Tree
  BY InitTree DEF PlacesInit
<1>2. DOMAIN projected = {} /\ DOMAIN handle = {} /\ stale = {} /\ generation = 0
  BY DEF PlacesInit
<1> QED
  BY <1>1, <1>2 DEF PlacesInv, HandlesInv, Generations

\* A reference to an element remembers the generations it was made in.
LEMMA ReferenceStep ==
  ASSUME PlacesAssumption, PlacesInv, NEW h \in Handles, NEW base \in Bases, NEW i \in Indexes,
         MakeReference(h, base, i)
  PROVE  HandlesInv'
<1> USE DEF PlacesInv
<1>1. /\ Sound(base) /\ base \in Seq(Projection) /\ PathOf(base) \in Paths /\ Current(base)
      /\ i \in Steps
  BY BaseIs, ReachesIs DEF MakeReference, Sound, SoundIn, Steps
<1>2. PICK p \in Paths : p = PathOf(base)
  BY <1>1
<1>3. /\ Len(p) = Len(base) /\ Len(base) \in Nat
      /\ \A j \in 1..Len(base) : p[j] = base[j].step
  BY <1>1, <1>2, PathIs
<1>4. PICK k : k = Known(p)
  OBVIOUS
<1>5. k \in Nat /\ k \in 0..MaxGeneration /\ generation \in Nat
  BY <1>4 DEF Known, HandlesInv, Generations, PlacesAssumption
<1>6. PICK r : r = [kind |-> "index", step |-> i, root |-> generation, path |-> p, generation |-> k]
  OBVIOUS
<1>7. /\ r \in Projection /\ r.kind = "index" /\ r.step = i /\ r.root = generation /\ r.path = p
      /\ r.generation = k
  BY <1>1, <1>2, <1>5, <1>6 DEF Projection
<1>8. PICK ps : ps = Append(base, r)
  OBVIOUS
<1>9. /\ Bind(h, ps) /\ projected' = [q \in DOMAIN projected \cup {p} |-> Known(q)]
      /\ stale' = stale \ {h} /\ generation' = generation
  BY <1>2, <1>4, <1>6, <1>8 DEF MakeReference
<1>10. /\ ps \in Seq(Projection) /\ Len(ps) = Len(base) + 1 /\ ps[Len(base) + 1] = r
       /\ \A j \in 1..Len(base) : ps[j] = base[j]
  BY <1>1, <1>7, <1>8, AppendProperties
<1>11. /\ DOMAIN projected' = DOMAIN projected \cup {p} /\ projected'[p] = k
       /\ \A q \in DOMAIN projected : q \in DOMAIN projected' /\ projected'[q] = projected[q]
  BY <1>4, <1>9 DEF Known
<1>12. Generations'
  BY <1>5, <1>9, <1>11 DEF HandlesInv, Generations
<1>13. ASSUME NEW j \in 1..Len(ps), Index(ps, j)
       PROVE  /\ Len(ps[j].path) = j - 1 /\ \A l \in 1..(j - 1) : ps[j].path[l] = ps[l].step
              /\ ps[j].path \in DOMAIN projected'
              /\ ps[j].root = generation' /\ ps[j].generation = projected'[ps[j].path]
              /\ ps[j].root <= generation' /\ ps[j].generation <= projected'[ps[j].path]
  <2>1. CASE j = Len(base) + 1
    <3>1. j - 1 = Len(base) /\ ps[j] = r
      BY <1>3, <1>10, <2>1
    <3>2. \A l \in 1..(j - 1) : ps[j].path[l] = ps[l].step
      BY <1>3, <1>7, <1>10, <3>1
    <3> QED
      BY <1>3, <1>5, <1>7, <1>9, <1>11, <3>1, <3>2
  <2>2. CASE j \in 1..Len(base)
    <3>1. Index(base, j) /\ ps[j] = base[j]
      BY <1>10, <1>13, <2>2 DEF Index
    <3>2. /\ Len(base[j].path) = j - 1 /\ \A l \in 1..(j - 1) : base[j].path[l] = base[l].step
          /\ base[j].path \in DOMAIN projected
          /\ base[j].root = generation /\ base[j].generation = projected[base[j].path]
      BY <1>1, <2>2, <3>1 DEF Sound, SoundIn, Current, CurrentIn
    <3>3. \A l \in 1..(j - 1) : l \in 1..Len(base) /\ ps[l] = base[l]
      BY <1>3, <1>10, <2>2
    <3>4. PICK q \in DOMAIN projected : q = base[j].path
      BY <3>2
    <3>5. projected'[q] = projected[q] /\ projected[q] \in Nat /\ q \in DOMAIN projected'
      BY <1>11 DEF HandlesInv, Generations
    <3> QED
      BY <1>5, <1>9, <3>1, <3>2, <3>3, <3>4, <3>5
  <2> QED
    BY <1>3, <1>10, <2>1, <2>2
<1>14. SoundIn(ps, generation', projected') /\ CurrentIn(ps, generation', projected')
  BY <1>10, <1>13 DEF SoundIn, CurrentIn
<1> QED
  BY <1>9, <1>11, <1>12, <1>14, BindStep

\* A reference to a field remembers nothing of its own.
LEMMA FieldReferenceStep ==
  ASSUME PlacesAssumption, PlacesInv, NEW h \in Handles, NEW base \in Bases, NEW f \in Fields,
         MakeFieldReference(h, base, f)
  PROVE  HandlesInv'
<1> USE DEF PlacesInv
<1>1. /\ Sound(base) /\ base \in Seq(Projection) /\ Current(base) /\ f \in Steps /\ Len(base) \in Nat
  BY BaseIs, ReachesIs, PathIs DEF MakeFieldReference, Sound, SoundIn, Steps
<1>2. PICK r : r = [kind |-> "field", step |-> f, root |-> 0, path |-> <<>>, generation |-> 0]
  OBVIOUS
<1>3. r \in Projection /\ r.kind = "field"
  <2>1. <<>> \in Paths
    BY DEF Tree
  <2> QED
    BY <1>1, <1>2, <2>1 DEF Projection
<1>4. PICK ps : ps = Append(base, r)
  OBVIOUS
<1>5. /\ Bind(h, ps) /\ projected' = projected /\ stale' = stale \ {h} /\ generation' = generation
  BY <1>2, <1>4 DEF MakeFieldReference
<1>6. /\ ps \in Seq(Projection) /\ Len(ps) = Len(base) + 1 /\ ps[Len(base) + 1] = r
      /\ \A j \in 1..Len(base) : ps[j] = base[j]
  BY <1>1, <1>3, <1>4, AppendProperties
<1>7. ASSUME NEW j \in 1..Len(ps), Index(ps, j)
      PROVE  j \in 1..Len(base) /\ Index(base, j) /\ ps[j] = base[j]
             /\ \A l \in 1..(j - 1) : ps[l] = base[l]
  <2>1. j # Len(base) + 1
    BY <1>3, <1>6, <1>7 DEF Index
  <2>2. j \in 1..Len(base) /\ \A l \in 1..(j - 1) : l \in 1..Len(base)
    BY <1>1, <1>6, <2>1
  <2> QED
    BY <1>6, <1>7, <2>2 DEF Index
<1>8. SoundIn(ps, generation, projected) /\ CurrentIn(ps, generation, projected)
  <2>1. ASSUME NEW j \in 1..Len(ps), Index(ps, j)
        PROVE  /\ Len(ps[j].path) = j - 1 /\ \A l \in 1..(j - 1) : ps[j].path[l] = ps[l].step
               /\ ps[j].path \in DOMAIN projected
               /\ ps[j].root <= generation /\ ps[j].generation <= projected[ps[j].path]
               /\ ps[j].root = generation /\ ps[j].generation = projected[ps[j].path]
    <3>1. /\ Len(base[j].path) = j - 1 /\ \A l \in 1..(j - 1) : base[j].path[l] = base[l].step
          /\ base[j].path \in DOMAIN projected
          /\ base[j].root <= generation /\ base[j].generation <= projected[base[j].path]
      BY <1>1, <1>7, <2>1 DEF Sound, SoundIn
    <3>2. base[j].root = generation /\ base[j].generation = projected[base[j].path]
      BY <1>1, <1>7, <2>1 DEF Current, CurrentIn
    <3> QED
      BY <1>7, <2>1, <3>1, <3>2
  <2> QED
    BY <1>6, <2>1 DEF SoundIn, CurrentIn
<1>9. Generations' /\ SoundIn(ps, generation', projected') /\ CurrentIn(ps, generation', projected')
  BY <1>5, <1>8 DEF HandlesInv, Generations
<1> QED
  BY <1>5, <1>9, BindStep

\* A reference to the whole of a place is as good as the place.
LEMMA WholeReferenceStep ==
  ASSUME PlacesAssumption, PlacesInv, NEW h \in Handles, NEW base \in Bases,
         MakeWholeReference(h, base)
  PROVE  HandlesInv'
<1> USE DEF PlacesInv
<1>1. /\ Sound(base) /\ (base = <<>> \/ \E g \in DOMAIN handle : base = handle[g])
      /\ Bind(h, base) /\ projected' = projected /\ generation' = generation
  BY BaseIs DEF MakeWholeReference
<1>2. Generations' /\ SoundIn(base, generation', projected')
  BY <1>1 DEF HandlesInv, Generations, Sound
<1>3. CASE \E g \in stale : handle[g] = base
  <2>1. Expired(base) /\ stale' = stale \cup {h}
    BY <1>3 DEF MakeWholeReference, HandlesInv
  <2>2. ExpiredIn(base, generation', projected')
    BY <1>1, <2>1 DEF Expired
  <2> QED
    BY <1>1, <1>2, <2>1, <2>2, BindStep
<1>4. CASE ~\E g \in stale : handle[g] = base
  <2>1. Current(base)
    <3>1. CASE base = <<>>
      BY <3>1 DEF Current, CurrentIn
    <3>2. CASE \E g \in DOMAIN handle : base = handle[g]
      BY <1>4, <3>2 DEF HandlesInv
    <3> QED
      BY <1>1, <3>1, <3>2
  <2>2. stale' = stale \ {h}
    BY <1>4 DEF MakeWholeReference
  <2>3. CurrentIn(base, generation', projected')
    BY <1>1, <2>1 DEF Current
  <2> QED
    BY <1>1, <1>2, <2>2, <2>3, BindStep
<1> QED
  BY <1>3, <1>4

\* The steps that change the value.
LEMMA ReshapeStep ==
  ASSUME PlacesAssumption, PlacesInv, Bounded, NEW base \in Bases, NEW grows \in BOOLEAN,
         Reshape(base, grows)
  PROVE  PlacesInv'
<1> USE DEF PlacesInv
<1>1. PICK p : p = PathOf(base)
  OBVIOUS
<1>2. p \in shape /\ p \in Paths /\ ~IsRecord(p)
  BY <1>1, ReachesIs DEF Reshape
<1>3. Tree'
  <2>1. CASE grows
    BY <1>1, <1>2, <2>1, GrowTree DEF Reshape
  <2>2. CASE ~grows
    BY <1>1, <1>2, <2>2, ClearTree DEF Reshape
  <2> QED
    BY <2>1, <2>2
<1>4. base = <<>> => p = <<>>
  BY <1>1 DEF PathOf
<1>5. /\ handle' = handle /\ stale' = stale \cup Taken(p)
      /\ \/ p = <<>> /\ generation' = generation + 1 /\ projected' = projected
         \/ InvalidateProjected(p) /\ generation' = generation
  BY <1>1, <1>4 DEF Reshape
<1>6. HandlesInv'
  BY <1>2, <1>5, MutateStep
<1> QED
  BY <1>3, <1>6

LEMMA WriteStep ==
  ASSUME PlacesAssumption, PlacesInv, Bounded, NEW base \in Bases, NEW size \in 0..Width,
         Write(base, size)
  PROVE  PlacesInv'
<1> USE DEF PlacesInv
<1>1. PICK p : p = PathOf(base)
  OBVIOUS
<1>2. p \in shape /\ p \in Paths
  BY <1>1, ReachesIs DEF Write
<1>3. Tree'
  BY <1>1, <1>2, ReplaceTree DEF Write
<1>4. /\ handle' = handle /\ stale' = stale \cup Taken(p)
      /\ InvalidateProjected(p) /\ generation' = generation
  BY <1>1 DEF Write
<1>5. HandlesInv'
  BY <1>2, <1>4, MutateStep
<1> QED
  BY <1>3, <1>5

\* Every step keeps the tree and the generations in step with the handles.
LEMMA PlacesStep ==
  ASSUME PlacesAssumption, PlacesInv, [PlacesNext]_placesVars
  PROVE  PlacesInv'
<1>1. ASSUME NEW h \in Handles, NEW base \in Bases, NEW i \in Indexes, MakeReference(h, base, i)
      PROVE  PlacesInv'
  <2>1. Tree'
    BY <1>1 DEF MakeReference, PlacesInv, Tree, Typed
  <2> QED
    BY <1>1, <2>1, ReferenceStep DEF PlacesInv
<1>2. ASSUME NEW h \in Handles, NEW base \in Bases, NEW f \in Fields, MakeFieldReference(h, base, f)
      PROVE  PlacesInv'
  <2>1. Tree'
    BY <1>2 DEF MakeFieldReference, PlacesInv, Tree, Typed
  <2> QED
    BY <1>2, <2>1, FieldReferenceStep DEF PlacesInv
<1>3. ASSUME NEW h \in Handles, NEW base \in Bases, MakeWholeReference(h, base)
      PROVE  PlacesInv'
  <2>1. Tree'
    BY <1>3 DEF MakeWholeReference, PlacesInv, Tree, Typed
  <2> QED
    BY <1>3, <2>1, WholeReferenceStep DEF PlacesInv
<1>4. ASSUME Bounded, NEW base \in Bases, NEW grows \in BOOLEAN, Reshape(base, grows)
      PROVE  PlacesInv'
  BY <1>4, ReshapeStep
<1>5. ASSUME Bounded, NEW base \in Bases, NEW size \in 0..Width, Write(base, size)
      PROVE  PlacesInv'
  BY <1>5, WriteStep
<1>6. ASSUME NEW p \in shape, NEW size \in 0..Width, Assign(p, size)
      PROVE  PlacesInv'
  <2>1. Tree'
    BY <1>6, ReplaceTree DEF Assign, PlacesInv
  <2>2. HandlesInv'
    BY <1>6 DEF Assign, PlacesInv, HandlesInv, Generations, Sound, Expired, Current
  <2> QED
    BY <2>1, <2>2 DEF PlacesInv
<1>7. CASE Detach
  BY <1>7 DEF Detach, PlacesInv, Tree, Typed, HandlesInv, Generations, Sound, Expired, Current
<1>8. CASE UNCHANGED placesVars
  BY <1>8 DEF placesVars, PlacesInv, Tree, Typed, HandlesInv, Generations, Sound, Expired, Current
<1> QED
  BY <1>1, <1>2, <1>3, <1>4, <1>5, <1>6, <1>7, <1>8 DEF PlacesNext

(***************************************************************************)
(* The inductive invariant of the slot, its generations and the handles    *)
(* into it holds in every reachable state.                                 *)
(***************************************************************************)
THEOREM PlacesCorrect ==
  ASSUME PlacesAssumption
  PROVE  PlacesSpec => []PlacesInv
<1>1. PlacesInit => PlacesInv
  BY PlacesInitInv
<1>2. PlacesInv /\ [PlacesNext]_placesVars => PlacesInv'
  BY PlacesStep
<1> QED
  BY <1>1, <1>2, PTL DEF PlacesSpec

(***************************************************************************)
(* No access goes through a handle whose container was reshaped or         *)
(* replaced through a place (ensure_generation refuses it), no other       *)
(* handle is refused for it, and the value stays a tree.                   *)
(***************************************************************************)
THEOREM PlacesStaleNeverReached ==
  ASSUME PlacesAssumption
  PROVE  PlacesSpec => []StaleNeverReached
<1>1. ASSUME PlacesInv
      PROVE  StaleNeverReached
  <2> USE <1>1 DEF PlacesInv
  <2>1. PlacesTypeOK
    BY DEF Tree, HandlesInv, Generations, PlacesTypeOK
  <2>2. ASSUME NEW h \in DOMAIN handle
        PROVE  /\ Sound(handle[h]) /\ DOMAIN handle[h] = 1..Len(handle[h])
               /\ \A i \in 1..Len(handle[h]) : handle[h][i] \in Projection
    BY PathIs DEF HandlesInv, Sound, SoundIn
  <2>3. StaleRefused
    <3> SUFFICES ASSUME NEW h \in stale, Reaches(handle[h])
                 PROVE  FALSE
      BY DEF StaleRefused
    <3>1. h \in DOMAIN handle
      BY DEF HandlesInv
    <3>2. PICK i \in 1..Len(handle[h]) : /\ Index(handle[h], i)
            /\ \/ handle[h][i].root < generation
               \/ handle[h][i].generation < projected[handle[h][i].path]
      BY DEF HandlesInv, Expired, ExpiredIn
    <3>3. EnsureGeneration(handle[h][i])
      BY <2>2, <3>1, <3>2 DEF Reaches, Index
    <3>4. PICK r \in Projection : r = handle[h][i]
      BY <2>2, <3>1
    <3>5. r.path \in DOMAIN projected /\ generation \in Nat /\ projected[r.path] \in Nat
      BY <2>2, <3>1, <3>2, <3>4 DEF Sound, SoundIn, HandlesInv, Generations
    <3>6. generation = r.root /\ projected[r.path] = r.generation
      BY <3>3, <3>4, <3>5 DEF EnsureGeneration, Known
    <3> QED
      BY <3>2, <3>4, <3>5, <3>6
  <2>4. OthersStayValid
    <3> SUFFICES ASSUME NEW h \in DOMAIN handle \ stale, NEW i \in DOMAIN handle[h],
                        handle[h][i].kind = "index"
                 PROVE  EnsureGeneration(handle[h][i])
      BY DEF OthersStayValid
    <3>1. i \in 1..Len(handle[h]) /\ Index(handle[h], i)
      BY <2>2 DEF Index
    <3>2. /\ handle[h][i].root = generation
          /\ handle[h][i].generation = projected[handle[h][i].path]
          /\ handle[h][i].path \in DOMAIN projected
      BY <2>2, <3>1 DEF HandlesInv, Current, CurrentIn, Sound, SoundIn
    <3> QED
      BY <3>2 DEF EnsureGeneration, Known
  <2> QED
    BY <2>1, <2>3, <2>4 DEF StaleNeverReached
<1> QED
  BY <1>1, PlacesCorrect, PTL
=============================================================================
