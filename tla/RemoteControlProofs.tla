------------------------- MODULE RemoteControlProofs -------------------------
(***************************************************************************)
(* The controller's safety for every set of threads and requests, and that *)
(* it implements RemoteOutcome.                                            *)
(***************************************************************************)
EXTENDS RemoteControl, TLAPS

(***************************************************************************)
(* Initially nothing has been called and nothing is owed.                  *)
(***************************************************************************)
LEMMA ControlInitInv == ControlInit => ControlInv
BY DEF ControlInit, ControlInv, ControlTypeOK, ExactlyOnce, Conserved, TerminalDrains,
       Holds, NoId, Errors, Outcomes

(***************************************************************************)
(* Sending on an empty channel leaves one outcome, and no other channel    *)
(* changes (the effect of every callback and of every publication).        *)
(***************************************************************************)
LEMMA SendOnce ==
  ASSUME NEW r \in Requests, NEW o \in Outcomes,
         published \in [Requests -> Seq(Outcomes)], published[r] = <<>>,
         published' = [published EXCEPT ![r] = Append(@, o)]
  PROVE  /\ published' \in [Requests -> Seq(Outcomes)]
         /\ published'[r] = <<o>>
         /\ published'[r] # <<>>
         /\ Len(published'[r]) = 1
         /\ published'[r][1] = o
         /\ \A q \in Requests : q # r => published'[q] = published[q]
<1>1. Append(<<>>, o) = <<o>> /\ Len(<<o>>) = 1 /\ <<o>>[1] = o /\ <<o>> \in Seq(Outcomes) /\ <<o>> # <<>>
  OBVIOUS
<1>2. published' = [published EXCEPT ![r] = <<o>>]
  BY <1>1
<1> QED
  BY <1>1, <1>2

(***************************************************************************)
(* Every critical section and every step outside the lock keeps the        *)
(* inductive invariant.                                                    *)
(***************************************************************************)
LEMMA ControlStep == ControlInv /\ [ControlNext]_controlVars => ControlInv'
<1> SUFFICES ASSUME ControlInv, [ControlNext]_controlVars
             PROVE  ControlInv'
  OBVIOUS
<1> USE DEF ControlInv
<1>1. ASSUME NEW t \in Threads, NEW r \in Requests, Register(t, r)
      PROVE  ControlInv'
  <2>1. ControlTypeOK'
    <3>1. CASE terminal # "live"
      <4>1. /\ cancels' = [cancels EXCEPT ![t] = {r}] /\ called' = called \cup {r}
            /\ cancelWith' = [cancelWith EXCEPT ![t] = terminal]
            /\ UNCHANGED <<next, pending, id, reserved, published, terminal>>
        BY <1>1, <3>1 DEF Register
      <4> QED
        BY <4>1 DEF ControlTypeOK
    <3>2. CASE terminal = "live"
      <4>1. next \in Nat /\ next + 1 \in Nat
        BY DEF ControlTypeOK
      <4>2. id' \in [Requests -> Nat \cup {NoId}]
        BY <1>1, <3>2, <4>1 DEF Register, ControlTypeOK
      <4> QED
        BY <1>1, <3>2, <4>1, <4>2 DEF Register, ControlTypeOK
    <3> QED
      BY <3>1, <3>2
  <2>2. ExactlyOnce'
    BY <1>1 DEF Register, ExactlyOnce
  <2>3. r \notin pending /\ published[r] = <<>> /\ \A u \in Threads : ~Holds(u, r)
    <3>1. r \notin called
      BY <1>1 DEF Register
    <3> QED
      BY <3>1 DEF Conserved
  <2>4. cancels[t] = {} /\ reserved[t] = {}
    BY <1>1 DEF Register, Busy
  <2>5. CASE terminal # "live"
    <3>1. /\ cancels' = [cancels EXCEPT ![t] = {r}] /\ called' = called \cup {r}
          /\ cancelWith' = [cancelWith EXCEPT ![t] = terminal]
          /\ UNCHANGED <<pending, reserved, published, terminal>>
      BY <1>1, <2>5 DEF Register
    <3>2. \A u \in Threads, q \in Requests : Holds(u, q)' <=> Holds(u, q) \/ (u = t /\ q = r)
      BY <2>4, <3>1 DEF Holds, ControlTypeOK
    <3>3. \A u \in Threads, q \in Requests : ~(q \in cancels'[u] /\ q \in reserved'[u])
      BY <2>4, <3>1 DEF ControlTypeOK, Conserved
    <3>4. Conserved'
      BY <2>3, <3>1, <3>2, <3>3 DEF Conserved
    <3>5. TerminalDrains'
      BY <2>5, <3>1 DEF TerminalDrains, ControlTypeOK
    <3> QED
      BY <2>1, <2>2, <3>4, <3>5
  <2>6. CASE terminal = "live"
    <3>1. /\ pending' = pending \cup {r} /\ called' = called \cup {r}
          /\ UNCHANGED <<cancels, cancelWith, reserved, published, terminal>>
      BY <1>1, <2>6 DEF Register
    <3>2. \A u \in Threads, q \in Requests : Holds(u, q)' <=> Holds(u, q)
      BY <3>1 DEF Holds
    <3>3. Conserved'
      BY <2>3, <3>1, <3>2 DEF Conserved
    <3>4. TerminalDrains'
      BY <2>6, <3>1 DEF TerminalDrains
    <3> QED
      BY <2>1, <2>2, <3>3, <3>4
  <2> QED
    BY <2>5, <2>6
<1>2. ASSUME NEW t \in Threads, NEW r \in Requests, Complete(t, r)
      PROVE  ControlInv'
  <2>1. CASE r \notin pending
    <3>1. UNCHANGED controlVars
      BY <1>2, <2>1 DEF Complete, controlVars
    <3> QED
      BY <3>1 DEF controlVars, ControlTypeOK, ExactlyOnce, Conserved, Holds, TerminalDrains
  <2>2. CASE r \in pending
    <3>1. /\ pending' = pending \ {r} /\ reserved' = [reserved EXCEPT ![t] = {r}]
          /\ UNCHANGED <<terminal, next, id, called, cancels, cancelWith, published>>
      BY <1>2, <2>2 DEF Complete
    <3>2. cancels[t] = {} /\ reserved[t] = {}
      BY <1>2 DEF Complete, Busy
    <3>3. ControlTypeOK'
      BY <3>1 DEF ControlTypeOK
    <3>4. ExactlyOnce'
      BY <3>1 DEF ExactlyOnce
    <3>5. \A u \in Threads, q \in Requests : Holds(u, q)' <=> Holds(u, q) \/ (u = t /\ q = r)
      BY <3>1, <3>2 DEF Holds, ControlTypeOK
    <3>6. \A u \in Threads, q \in Requests : ~(q \in cancels'[u] /\ q \in reserved'[u])
      BY <3>1, <3>2 DEF ControlTypeOK, Conserved
    <3>7. Conserved'
      BY <2>2, <3>1, <3>5, <3>6 DEF Conserved
    <3>8. TerminalDrains'
      BY <3>1 DEF TerminalDrains
    <3> QED
      BY <3>3, <3>4, <3>7, <3>8
  <2> QED
    BY <2>1, <2>2
<1>3. ASSUME NEW t \in Threads, NEW error \in Errors, Terminate(t, error)
      PROVE  ControlInv'
  <2>1. CASE terminal # "live"
    <3>1. UNCHANGED controlVars
      BY <1>3, <2>1 DEF Terminate, controlVars
    <3> QED
      BY <3>1 DEF controlVars, ControlTypeOK, ExactlyOnce, Conserved, Holds, TerminalDrains
  <2>2. CASE terminal = "live"
    <3>1. /\ terminal' = error /\ cancels' = [cancels EXCEPT ![t] = pending]
          /\ cancelWith' = [cancelWith EXCEPT ![t] = error] /\ pending' = {}
          /\ UNCHANGED <<next, id, called, reserved, published>>
      BY <1>3, <2>2 DEF Terminate
    <3>2. cancels[t] = {} /\ reserved[t] = {}
      BY <1>3 DEF Terminate, Busy
    <3>3. ControlTypeOK'
      BY <3>1 DEF ControlTypeOK, Errors
    <3>4. ExactlyOnce'
      BY <3>1 DEF ExactlyOnce
    <3>5. \A u \in Threads, q \in Requests : Holds(u, q)' <=> Holds(u, q) \/ (u = t /\ q \in pending)
      BY <3>1, <3>2 DEF Holds, ControlTypeOK
    <3>6. \A u \in Threads, q \in Requests : ~(q \in cancels'[u] /\ q \in reserved'[u])
      BY <3>1, <3>2 DEF ControlTypeOK, Conserved
    <3>7. Conserved'
      BY <3>1, <3>5, <3>6 DEF Conserved
    <3>8. \A u \in Threads : u # t => cancels'[u] = {}
      BY <2>2, <3>1 DEF TerminalDrains, ControlTypeOK
    <3>9. TerminalDrains'
      BY <3>1, <3>8 DEF TerminalDrains, ControlTypeOK, Errors
    <3> QED
      BY <3>3, <3>4, <3>7, <3>9
  <2> QED
    BY <2>1, <2>2
<1>4. ASSUME NEW t \in Threads, RunCancel(t)
      PROVE  ControlInv'
  <2>1. PICK r \in cancels[t] :
          /\ published' = [published EXCEPT ![r] = Append(@, cancelWith[t])]
          /\ cancels' = [cancels EXCEPT ![t] = @ \ {r}]
          /\ UNCHANGED <<terminal, next, pending, id, called, reserved, cancelWith>>
    BY <1>4 DEF RunCancel
  <2>2. r \in Requests /\ Holds(t, r) /\ published[r] = <<>> /\ cancelWith[t] \in Outcomes
    BY <2>1 DEF ControlTypeOK, Conserved, Holds, TerminalDrains, Outcomes, Errors
  <2>3. /\ published' \in [Requests -> Seq(Outcomes)]
        /\ published'[r] # <<>> /\ Len(published'[r]) = 1
        /\ \A q \in Requests : q # r => published'[q] = published[q]
    BY <2>1, <2>2, SendOnce DEF ControlTypeOK
  <2>4. ControlTypeOK'
    BY <2>1, <2>3 DEF ControlTypeOK
  <2>5. ExactlyOnce'
    <3> SUFFICES ASSUME NEW q \in Requests
                 PROVE  Len(published'[q]) <= 1
      BY Zenon DEF ExactlyOnce
    <3>1. CASE q = r
      <4>1. Len(published'[q]) = 1
        BY <2>3, <3>1, Zenon
      <4> QED
        BY <4>1
    <3>2. CASE q # r
      <4>1. published'[q] = published[q]
        BY <2>3, <3>2
      <4> QED
        BY <4>1 DEF ExactlyOnce
    <3> QED
      BY <3>1, <3>2
  <2>6. \A u \in Threads, q \in Requests : Holds(u, q)' <=> Holds(u, q) /\ ~(u = t /\ q = r)
    BY <2>1, <2>2 DEF Holds, ControlTypeOK, Conserved
  <2>7. \A u \in Threads, q \in Requests : ~(q \in cancels'[u] /\ q \in reserved'[u])
    BY <2>1 DEF ControlTypeOK, Conserved
  <2>8. Conserved'
    <3>1. UNCHANGED <<pending, called>>
      BY <2>1
    <3>2. r \in called /\ r \notin pending /\ \A u \in Threads : Holds(u, r) => u = t
      BY <2>2 DEF Conserved
    <3> SUFFICES ASSUME NEW q \in Requests
                 PROVE  /\ q \in called <=> \/ q \in pending
                                            \/ \E u \in Threads : Holds(u, q)'
                                            \/ published'[q] # <<>>
                        /\ q \in pending => /\ published'[q] = <<>>
                                            /\ \A u \in Threads : ~Holds(u, q)'
                        /\ \A u \in Threads : Holds(u, q)' => published'[q] = <<>>
                        /\ \A u, v \in Threads : Holds(u, q)' /\ Holds(v, q)' => u = v
      BY <2>7, <3>1 DEF Conserved
    <3>3. CASE q = r
      BY <2>3, <2>6, <3>2, <3>3
    <3>4. CASE q # r
      BY <2>3, <2>6, <3>4 DEF Conserved
    <3> QED
      BY <3>3, <3>4
  <2>9. TerminalDrains'
    BY <2>1 DEF TerminalDrains, ControlTypeOK
  <2> QED
    BY <2>4, <2>5, <2>8, <2>9
<1>5. ASSUME NEW t \in Threads, Publish(t)
      PROVE  ControlInv'
  <2>1. PICK r \in reserved[t] :
          /\ published' = [published EXCEPT ![r] = Append(@, "ok")]
          /\ reserved' = [reserved EXCEPT ![t] = @ \ {r}]
          /\ UNCHANGED <<terminal, next, pending, id, called, cancels, cancelWith>>
    BY <1>5 DEF Publish
  <2>2. r \in Requests /\ Holds(t, r) /\ published[r] = <<>> /\ "ok" \in Outcomes
    BY <2>1 DEF ControlTypeOK, Conserved, Holds, TerminalDrains, Outcomes, Errors
  <2>3. /\ published' \in [Requests -> Seq(Outcomes)]
        /\ published'[r] # <<>> /\ Len(published'[r]) = 1
        /\ \A q \in Requests : q # r => published'[q] = published[q]
    BY <2>1, <2>2, SendOnce DEF ControlTypeOK
  <2>4. ControlTypeOK'
    BY <2>1, <2>3 DEF ControlTypeOK
  <2>5. ExactlyOnce'
    <3> SUFFICES ASSUME NEW q \in Requests
                 PROVE  Len(published'[q]) <= 1
      BY Zenon DEF ExactlyOnce
    <3>1. CASE q = r
      <4>1. Len(published'[q]) = 1
        BY <2>3, <3>1, Zenon
      <4> QED
        BY <4>1
    <3>2. CASE q # r
      <4>1. published'[q] = published[q]
        BY <2>3, <3>2
      <4> QED
        BY <4>1 DEF ExactlyOnce
    <3> QED
      BY <3>1, <3>2
  <2>6. \A u \in Threads, q \in Requests : Holds(u, q)' <=> Holds(u, q) /\ ~(u = t /\ q = r)
    BY <2>1, <2>2 DEF Holds, ControlTypeOK, Conserved
  <2>7. \A u \in Threads, q \in Requests : ~(q \in cancels'[u] /\ q \in reserved'[u])
    BY <2>1 DEF ControlTypeOK, Conserved
  <2>8. Conserved'
    <3>1. UNCHANGED <<pending, called>>
      BY <2>1
    <3>2. r \in called /\ r \notin pending /\ \A u \in Threads : Holds(u, r) => u = t
      BY <2>2 DEF Conserved
    <3> SUFFICES ASSUME NEW q \in Requests
                 PROVE  /\ q \in called <=> \/ q \in pending
                                            \/ \E u \in Threads : Holds(u, q)'
                                            \/ published'[q] # <<>>
                        /\ q \in pending => /\ published'[q] = <<>>
                                            /\ \A u \in Threads : ~Holds(u, q)'
                        /\ \A u \in Threads : Holds(u, q)' => published'[q] = <<>>
                        /\ \A u, v \in Threads : Holds(u, q)' /\ Holds(v, q)' => u = v
      BY <2>7, <3>1 DEF Conserved
    <3>3. CASE q = r
      BY <2>3, <2>6, <3>2, <3>3
    <3>4. CASE q # r
      BY <2>3, <2>6, <3>4 DEF Conserved
    <3> QED
      BY <3>3, <3>4
  <2>9. TerminalDrains'
    BY <2>1 DEF TerminalDrains, ControlTypeOK
  <2> QED
    BY <2>4, <2>5, <2>8, <2>9
<1>6. CASE UNCHANGED controlVars
  BY <1>6 DEF controlVars, ControlTypeOK, ExactlyOnce, Conserved, Holds, TerminalDrains
<1> QED
  BY <1>1, <1>2, <1>3, <1>4, <1>5, <1>6 DEF ControlNext

(***************************************************************************)
(* The controller's types, exactly-once outcomes, conservation of requests *)
(* and draining on termination hold for any threads and requests.          *)
(***************************************************************************)
THEOREM ControlCorrect == ControlSpec => []ControlInv
<1>1. ControlInit => ControlInv
  BY ControlInitInv
<1>2. ControlInv /\ [ControlNext]_controlVars => ControlInv'
  BY ControlStep
<1> QED
  BY <1>1, <1>2, PTL DEF ControlSpec

(***************************************************************************)
(* Exactly-once completion of every remote call.                           *)
(***************************************************************************)
THEOREM CompletesOnce == ControlSpec => []ExactlyOnce
BY ControlCorrect, PTL DEF ControlInv

(***************************************************************************)
(* No accepted request is ever lost or owed by two threads.                *)
(***************************************************************************)
THEOREM NoneLost == ControlSpec => []Conserved
BY ControlCorrect, PTL DEF ControlInv

(***************************************************************************)
(* Neither the terminal state nor an outcome is ever replaced.             *)
(***************************************************************************)
THEOREM TerminalSticky == ControlSpec => Sticky
<1>1. ASSUME ControlInv, [ControlNext]_controlVars
      PROVE  [/\ terminal # "live" => terminal' = terminal
              /\ \A r \in Requests : published[r] # <<>> => published'[r] = published[r]]_controlVars
  <2>1. ASSUME NEW t \in Threads, NEW r \in Requests, Register(t, r) \/ Complete(t, r)
        PROVE  UNCHANGED <<terminal, published>>
    BY <2>1 DEF Register, Complete
  <2>2. ASSUME NEW t \in Threads, NEW error \in Errors, Terminate(t, error)
        PROVE  (terminal # "live" => terminal' = terminal) /\ UNCHANGED published
    BY <2>2 DEF Terminate
  <2>3. ASSUME NEW t \in Threads, NEW r \in Requests, NEW o, Holds(t, r),
               published' = [published EXCEPT ![r] = o]
        PROVE  \A q \in Requests : published[q] # <<>> => published'[q] = published[q]
    BY <1>1, <2>3 DEF ControlInv, ControlTypeOK, Conserved
  <2>4. ASSUME NEW t \in Threads, RunCancel(t) \/ Publish(t)
        PROVE  /\ terminal' = terminal
               /\ \A q \in Requests : published[q] # <<>> => published'[q] = published[q]
    <3>1. terminal' = terminal
      BY <2>4 DEF RunCancel, Publish
    <3>2. PICK r \in Requests : /\ Holds(t, r)
                                /\ \E o : published' = [published EXCEPT ![r] = o]
      BY <1>1, <2>4 DEF RunCancel, Publish, Holds, ControlInv, ControlTypeOK
    <3> QED
      BY <2>3, <3>1, <3>2
  <2> QED
    BY <1>1, <2>1, <2>2, <2>4 DEF ControlNext, controlVars
<1> QED
  BY <1>1, ControlCorrect, PTL DEF ControlSpec, Sticky

(***************************************************************************)
(* What the refinement mapping says of a request, by who holds it.         *)
(***************************************************************************)
LEMMA DecidedBy ==
  ASSUME ControlInv, NEW r \in Requests
  PROVE  /\ r \notin called <=> Decided(r) = "uncalled"
         /\ r \in pending <=> Decided(r) = "pending"
         /\ \A t \in Threads : r \in reserved[t] => Decided(r) = "ok"
         /\ \A t \in Threads : r \in cancels[t] => Decided(r) = cancelWith[t]
         /\ published[r] # <<>> => Decided(r) = published[r][1]
<1>1. published[r] # <<>> => published[r][1] \in Outcomes
  BY DEF ControlInv, ControlTypeOK
<1>2. terminal \in {"live"} \cup Errors /\ terminal # "pending" /\ terminal # "uncalled"
  BY DEF ControlInv, ControlTypeOK, Errors
<1>3. \A t \in Threads : r \in cancels[t] => cancelWith[t] = terminal
  BY DEF ControlInv, TerminalDrains
<1>4. \A o \in Outcomes : o # "pending" /\ o # "uncalled"
  BY DEF Outcomes, Errors
<1>5. Conserved
  BY DEF ControlInv
<1> QED
  BY <1>1, <1>2, <1>3, <1>4, <1>5 DEF Conserved, Holds, Decided

(***************************************************************************)
(* A step outside the lock decides nothing: the outcome it sends was       *)
(* decided when the request left the map.                                  *)
(***************************************************************************)
LEMMA SendDecidesNothing ==
  ASSUME ControlInv, ControlInv', NEW t \in Threads, RunCancel(t) \/ Publish(t)
  PROVE  terminal' = terminal /\ \A q \in Requests : Decided(q)' = Decided(q)
<1>1. PICK r \in Requests, o \in Outcomes :
        /\ Holds(t, r) /\ o = Decided(r)
        /\ published' = [published EXCEPT ![r] = Append(@, o)]
        /\ \A q \in Requests, u \in Threads :
              q # r => /\ q \in reserved'[u] <=> q \in reserved[u]
                       /\ q \in cancels'[u] <=> q \in cancels[u]
        /\ terminal' = terminal /\ pending' = pending
  <2>1. CASE RunCancel(t)
    <3>1. PICK r \in cancels[t] :
            /\ published' = [published EXCEPT ![r] = Append(@, cancelWith[t])]
            /\ cancels' = [cancels EXCEPT ![t] = @ \ {r}]
            /\ UNCHANGED <<terminal, pending, reserved>>
      BY <2>1 DEF RunCancel
    <3>2. r \in Requests /\ Holds(t, r) /\ cancelWith[t] \in Outcomes
      BY <3>1 DEF ControlInv, ControlTypeOK, Holds, TerminalDrains, Outcomes, Errors
    <3>3. cancelWith[t] = Decided(r)
      BY <3>1, <3>2, DecidedBy
    <3> QED
      BY <3>1, <3>2, <3>3 DEF ControlInv, ControlTypeOK
  <2>2. CASE Publish(t)
    <3>1. PICK r \in reserved[t] :
            /\ published' = [published EXCEPT ![r] = Append(@, "ok")]
            /\ reserved' = [reserved EXCEPT ![t] = @ \ {r}]
            /\ UNCHANGED <<terminal, pending, cancels>>
      BY <2>2 DEF Publish
    <3>2. r \in Requests /\ Holds(t, r) /\ "ok" \in Outcomes
      BY <3>1 DEF ControlInv, ControlTypeOK, Holds, Outcomes
    <3>3. "ok" = Decided(r)
      BY <3>1, <3>2, DecidedBy
    <3> QED
      BY <3>1, <3>2, <3>3 DEF ControlInv, ControlTypeOK
  <2> QED
    BY <2>1, <2>2
<1>2. published[r] = <<>> /\ published \in [Requests -> Seq(Outcomes)]
  BY <1>1 DEF ControlInv, ControlTypeOK, Conserved
<1>3. /\ published'[r] # <<>> /\ published'[r][1] = o
      /\ \A q \in Requests : q # r => published'[q] = published[q]
  BY <1>1, <1>2, SendOnce
<1>4. Decided(r)' = Decided(r)
  BY <1>1, <1>3 DEF Decided
<1>5. ASSUME NEW q \in Requests, q # r
      PROVE  Decided(q)' = Decided(q)
  BY <1>1, <1>3, <1>5 DEF Decided
<1> QED
  BY <1>1, <1>4, <1>5

(***************************************************************************)
(* The critical sections are the abstract steps: register is Call,         *)
(* a complete that finds its request is Resolve, the first terminate is    *)
(* End, and everything else leaves the mapped state alone.                 *)
(***************************************************************************)
LEMMA StepMaps ==
  ASSUME ControlInv, ControlInv', [ControlNext]_controlVars
  PROVE  [Promise!Next]_(Promise!vars)
<1>0. \A r \in Requests : /\ r \notin called <=> Decided(r) = "uncalled"
                          /\ r \in pending <=> Decided(r) = "pending"
  BY DecidedBy
<1>s. ASSUME terminal' = terminal, \A q \in Requests : Decided(q)' = Decided(q)
      PROVE  UNCHANGED Promise!vars
  BY <1>s DEF Promise!vars
<1>1. ASSUME NEW t \in Threads, NEW r \in Requests, Register(t, r)
      PROVE  Promise!Call(r)
  <2>1. /\ r \notin called /\ called' = called \cup {r}
        /\ UNCHANGED <<terminal, reserved, published>>
        /\ cancels[t] = {} /\ reserved[t] = {}
    BY <1>1 DEF Register, Busy
  <2>2. /\ Decided(r) = "uncalled" /\ published[r] = <<>>
        /\ r \notin pending /\ \A u \in Threads : ~Holds(u, r)
    BY <1>0, <2>1 DEF ControlInv, Conserved
  <2>3. Decided(r)' = IF terminal = "live" THEN "pending" ELSE terminal
    <3>1. CASE terminal # "live"
      <4>1. r \in cancels'[t] /\ cancelWith'[t] = terminal
        BY <1>1, <3>1 DEF Register, ControlInv, ControlTypeOK
      <4>2. \A u \in Threads : r \notin reserved'[u]
        BY <2>1, <2>2 DEF Holds
      <4> QED
        BY <2>1, <2>2, <3>1, <4>1, <4>2 DEF Decided
    <3>2. CASE terminal = "live"
      <4>1. r \in pending' /\ cancels' = cancels
        BY <1>1, <3>2 DEF Register
      <4> QED
        BY <2>1, <2>2, <3>2, <4>1 DEF Decided, Holds
    <3> QED
      BY <3>1, <3>2
  <2>4. ASSUME NEW q \in Requests, q # r
        PROVE  Decided(q)' = Decided(q)
    <3>1. /\ q \in pending' <=> q \in pending
          /\ \A u \in Threads : q \in cancels'[u] <=> q \in cancels[u]
      <4>1. CASE terminal # "live"
        <5>1. cancels' = [cancels EXCEPT ![t] = {r}] /\ pending' = pending
          BY <1>1, <4>1 DEF Register
        <5> QED
          BY <2>1, <2>4, <5>1 DEF ControlInv, ControlTypeOK
      <4>2. CASE terminal = "live"
        <5>1. pending' = pending \cup {r} /\ cancels' = cancels
          BY <1>1, <4>2 DEF Register
        <5> QED
          BY <2>4, <5>1
      <4> QED
        BY <4>1, <4>2
    <3> QED
      BY <2>1, <3>1 DEF Decided
  <2> QED
    BY <2>1, <2>2, <2>3, <2>4 DEF Promise!Call
<1>2. ASSUME NEW t \in Threads, NEW r \in Requests, Complete(t, r)
      PROVE  Promise!Resolve(r) \/ UNCHANGED Promise!vars
  <2>1. CASE r \notin pending
    <3>1. UNCHANGED <<terminal, pending, cancels, reserved, published>>
      BY <1>2, <2>1 DEF Complete
    <3> QED
      BY <1>s, <3>1 DEF Decided
  <2>2. CASE r \in pending
    <3>1. /\ pending' = pending \ {r} /\ reserved' = [reserved EXCEPT ![t] = {r}]
          /\ UNCHANGED <<terminal, cancels, published>> /\ reserved[t] = {}
      BY <1>2, <2>2 DEF Complete, Busy
    <3>2. Decided(r) = "pending" /\ published[r] = <<>> /\ r \in reserved'[t]
      BY <1>0, <2>2, <3>1 DEF ControlInv, Conserved, ControlTypeOK
    <3>3. Decided(r)' = "ok"
      BY <3>1, <3>2 DEF Decided
    <3>4. ASSUME NEW q \in Requests, q # r
          PROVE  Decided(q)' = Decided(q)
      <4>1. \A u \in Threads : q \in reserved'[u] <=> q \in reserved[u]
        BY <3>1, <3>4 DEF ControlInv, ControlTypeOK
      <4> QED
        BY <3>1, <3>4, <4>1 DEF Decided
    <3> QED
      BY <3>1, <3>2, <3>3, <3>4 DEF Promise!Resolve
  <2> QED
    BY <2>1, <2>2
<1>3. ASSUME NEW t \in Threads, NEW error \in Errors, Terminate(t, error)
      PROVE  Promise!End(error) \/ UNCHANGED Promise!vars
  <2>1. CASE terminal # "live"
    <3>1. UNCHANGED <<terminal, pending, cancels, reserved, published>>
      BY <1>3, <2>1 DEF Terminate
    <3> QED
      BY <1>s, <3>1 DEF Decided
  <2>2. CASE terminal = "live"
    <3>1. /\ terminal' = error /\ pending' = {}
          /\ cancels' = [cancels EXCEPT ![t] = pending]
          /\ UNCHANGED <<reserved, published>>
      BY <1>3, <2>2 DEF Terminate
    <3>2. \A u \in Threads : cancels[u] = {}
      BY <2>2 DEF ControlInv, TerminalDrains
    <3>3. ASSUME NEW q \in Requests
          PROVE  Decided(q)' = IF Decided(q) = "pending" THEN error ELSE Decided(q)
      <4>1. CASE q \in pending
        <5>1. /\ Decided(q) = "pending" /\ published[q] = <<>>
              /\ \A u \in Threads : q \notin reserved[u]
          BY <1>0, <4>1 DEF ControlInv, Conserved, Holds
        <5>2. q \in cancels'[t]
          BY <3>1, <4>1 DEF ControlInv, ControlTypeOK
        <5> QED
          BY <3>1, <5>1, <5>2 DEF Decided
      <4>2. CASE q \notin pending
        <5>1. Decided(q) # "pending"
          BY <1>0, <4>2
        <5>2. \A u \in Threads : q \notin cancels'[u]
          BY <3>1, <3>2, <4>2 DEF ControlInv, ControlTypeOK
        <5> QED
          BY <3>1, <3>2, <4>2, <5>1, <5>2 DEF Decided
      <4> QED
        BY <4>1, <4>2
    <3> QED
      BY <2>2, <3>1, <3>3 DEF Promise!End
  <2> QED
    BY <2>1, <2>2
<1>4. ASSUME NEW t \in Threads, RunCancel(t) \/ Publish(t)
      PROVE  UNCHANGED Promise!vars
  BY <1>s, <1>4, SendDecidesNothing
<1>5. CASE UNCHANGED controlVars
  BY <1>s, <1>5 DEF controlVars, Decided
<1> QED
  BY <1>1, <1>2, <1>3, <1>4, <1>5 DEF ControlNext, Promise!Next, Errors, Promise!Errors

(***************************************************************************)
(* The controller implements the abstract promise of one outcome each.     *)
(***************************************************************************)
THEOREM ImplementsPromise == ControlSpec => KeepsPromise
<1>1. ControlInit => Promise!Init
  BY DEF ControlInit, Promise!Init, Decided
<1>2. ControlInv /\ ControlInv' /\ [ControlNext]_controlVars => [Promise!Next]_(Promise!vars)
  BY StepMaps
<1> QED
  BY <1>1, <1>2, ControlCorrect, PTL DEF ControlSpec, KeepsPromise, Promise!Spec
=============================================================================
