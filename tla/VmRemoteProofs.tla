--------------------------- MODULE VmRemoteProofs ---------------------------
(***************************************************************************)
(* Safety of the virtual machine's remote objects, for any callers and     *)
(* requests: what was proved of the controller carries over, and the       *)
(* worker's loop keeps its own promises.                                   *)
(***************************************************************************)
EXTENDS VmRemote, RemoteControlProofs

(***************************************************************************)
(* Each step of the remote object is a step of the controller or leaves it *)
(* alone.                                                                  *)
(***************************************************************************)
LEMMA VmStepControl ==
  ASSUME Scoped, [VmNext]_vmVars
  PROVE  [ControlNext]_controlVars
<1> USE CallersAndWorker
<1>1. ASSUME Receive \/ Exit \/ Check \/ Poll \/ Instruction
      PROVE  UNCHANGED controlVars
  BY <1>1 DEF Receive, Exit, Check, Poll, Instruction, controlVars
<1>2. ASSUME MethodFails
      PROVE  ControlNext
  BY <1>2 DEF MethodFails, ControlNext, Errors
<1>3. ASSUME MethodReturns
      PROVE  ControlNext
  <2>1. Complete(Worker, current[Worker]) /\ pc[Worker] = "completing"
    BY <1>3 DEF MethodReturns, At
  <2>2. current[Worker] \in Requests
    BY <2>1 DEF Scoped, Places, Executing
  <2> QED
    BY <2>1, <2>2 DEF ControlNext
<1>4. ASSUME NEW t \in Threads, SendReply \/ SendCancel(t)
      PROVE  ControlNext
  BY <1>4 DEF SendReply, SendCancel, ControlNext
<1>5. ASSUME NEW c \in Callers, CallerProceeds(c), ~SendCancel(c)
      PROVE  [ControlNext]_controlVars
  <2>1. CASE Shutdown(c)
    BY <2>1 DEF Shutdown, ControlNext, Errors
  <2>2. CASE Send(c) \/ AwaitEnds(c) \/ DropOwner(c) \/ AskPending(c) \/ Join(c)
    <3>1. UNCHANGED controlVars
      BY <2>2 DEF Send, AwaitEnds, DropOwner, AskPending, Join, controlVars
    <3> QED
      BY <3>1
  <2> QED
    BY <1>5, <2>1, <2>2 DEF CallerProceeds
<1>6. ASSUME NEW c \in Callers, CallerChooses(c)
      PROVE  [ControlNext]_controlVars
  <2>1. ASSUME NEW r \in Requests, Call(c, r)
        PROVE  ControlNext
    BY <2>1 DEF Call, ControlNext
  <2>2. ASSUME NEW r \in Requests, Await(c, r)
        PROVE  UNCHANGED controlVars
    BY <2>2 DEF Await, controlVars
  <2>3. ASSUME (\E d \in Callers : CloneHandle(c, d)) \/ CancelCaller(c) \/ DropSender(c)
        PROVE  UNCHANGED controlVars
    BY <2>3 DEF CloneHandle, CancelCaller, DropSender, controlVars
  <2> QED
    BY <1>6, <2>1, <2>2, <2>3 DEF CallerChooses
<1>7. ASSUME Quiet \/ UNCHANGED vmVars
      PROVE  UNCHANGED controlVars
  BY <1>7 DEF Quiet, vmVars, controlVars
<1> QED
  BY <1>1, <1>2, <1>3, <1>4, <1>5, <1>6, <1>7 DEF VmNext, WorkerNext, CallerProceeds

(***************************************************************************)
(* The initial state of a spawned remote.                                  *)
(***************************************************************************)
LEMMA VmInitInv == VmInit => VmInv
<1> SUFFICES ASSUME VmInit
             PROVE  VmInv
  OBVIOUS
<1>1. ControlInv
  BY ControlInitInv DEF VmInit
<1>2. /\ pc = [t \in Threads |-> IF t = Worker THEN "receive" ELSE "ready"]
      /\ owners \subseteq Callers /\ senders = owners
      /\ idle = [c \in Callers |-> FALSE] /\ inbox = <<>>
      /\ current = [t \in Threads |-> NoRequest]
      /\ caller = [r \in Requests |-> NoRequest]
      /\ taken = {} /\ cancelled = {} /\ discarded = {} /\ faulted = FALSE /\ late = 0
      /\ pending = {}
  BY DEF VmInit, ControlInit
<1>3. VmTypeOK
  <2>1. ControlTypeOK
    BY <1>1 DEF ControlInv
  <2>2. \A t \in Threads : pc[t] = IF t = Worker THEN "receive" ELSE "ready"
    BY <1>2
  <2>3. /\ pc \in [Threads -> CallerPc \cup WorkerPc]
        /\ \A c \in Callers : pc[c] \in CallerPc
        /\ pc[Worker] \in WorkerPc
    BY <1>2, <2>2, CallersAndWorker DEF CallerPc, WorkerPc
  <2>4. inbox \in Seq(Requests) /\ late \in Nat
    BY <1>2
  <2>5. faulted \in BOOLEAN
    BY <1>2, Zenon
  <2> QED
    BY <1>2, <2>1, <2>3, <2>4, <2>5 DEF VmTypeOK
<1>4. Scoped
  BY <1>2, CallersAndWorker DEF Scoped, Places, Executing
<1> QED
  BY <1>1, <1>2, <1>3, <1>4, CallersAndWorker DEF VmInv, Stopped, PendingReachable, Executing

(***************************************************************************)
(* Every step keeps the inductive invariant.                               *)
(***************************************************************************)
LEMMA VmStep == VmInv /\ [VmNext]_vmVars => VmInv'
<1> SUFFICES ASSUME VmInv, [VmNext]_vmVars
             PROVE  VmInv'
  OBVIOUS
<1>0. ControlInv'
  BY VmStepControl, ControlStep DEF VmInv
<1>t. ControlTypeOK' /\ TerminalDrains' /\ ControlTypeOK /\ TerminalDrains
  BY <1>0 DEF ControlInv, VmInv
<1>v. VmTypeOK /\ Scoped /\ Stopped /\ PendingReachable
  BY DEF VmInv
<1> USE CallersAndWorker, NoRequestFresh
<1>1. ASSUME Receive
      PROVE  VmTypeOK' /\ Scoped' /\ Stopped' /\ PendingReachable'
  <2>1. VmTypeOK'
    BY <1>t, <1>v, <1>1 DEF Receive, At, Goto, Leave, controlVars, VmTypeOK, Scoped, CallerPc,
           WorkerPc
  <2>2. Scoped'
    BY <1>t, <1>v, <1>1 DEF Receive, At, Goto, Leave, controlVars, VmTypeOK, Scoped, Places,
           Executing, CallerPc, WorkerPc
  <2>3. Stopped'
    BY <1>t, <1>v, <1>1 DEF Receive, At, Goto, Leave, controlVars, VmTypeOK, Scoped, Stopped,
           Places, Executing, CallerPc, WorkerPc
  <2>4. PendingReachable'
    <3>1. /\ inbox \in Seq(Requests) /\ inbox # <<>> /\ inbox' = Tail(inbox)
          /\ pending' = pending /\ current'[Worker] = Head(inbox) /\ pc'[Worker] = "check"
          /\ pc[Worker] = "receive"
          /\ \A c \in Callers : pc'[c] = pc[c] /\ current'[c] = current[c]
      BY <1>v, <1>1 DEF Receive, At, Goto, controlVars, VmTypeOK
    <3>2. ASSUME NEW i \in 1..Len(inbox), i # 1
          PROVE  i - 1 \in 1..Len(inbox') /\ inbox'[i - 1] = inbox[i]
      BY <3>1, <3>2
    <3>3. Head(inbox) = inbox[1]
      BY <3>1
    <3> QED
      BY <1>v, <3>1, <3>2, <3>3 DEF PendingReachable, Places, Executing
  <2> QED
    BY <2>1, <2>2, <2>3, <2>4
<1>2. ASSUME Exit
      PROVE  VmTypeOK' /\ Scoped' /\ Stopped' /\ PendingReachable'
  <2>1. VmTypeOK'
    BY <1>t, <1>v, <1>2 DEF Exit, At, Goto, Leave, controlVars, VmTypeOK, Scoped, CallerPc,
           WorkerPc
  <2>2. Scoped'
    BY <1>t, <1>v, <1>2 DEF Exit, At, Goto, Leave, controlVars, VmTypeOK, Scoped, Places,
           Executing, CallerPc, WorkerPc
  <2>3. Stopped'
    BY <1>t, <1>v, <1>2 DEF Exit, At, Goto, Leave, controlVars, VmTypeOK, Scoped, Stopped,
           Places, Executing, CallerPc, WorkerPc
  <2>4. PendingReachable'
    BY <1>t, <1>v, <1>2 DEF Exit, At, Goto, Leave, controlVars, VmTypeOK, Scoped,
           PendingReachable, Places, Executing, TerminalDrains, CallerPc, WorkerPc
  <2> QED
    BY <2>1, <2>2, <2>3, <2>4
<1>3. ASSUME Check
      PROVE  VmTypeOK' /\ Scoped' /\ Stopped' /\ PendingReachable'
  <2>1. VmTypeOK'
    <3>1. /\ current[Worker] \in Requests
          /\ UNCHANGED <<senders, owners, idle, inbox, caller, taken, cancelled, faulted, late, called>>
          /\ discarded' = discarded \/ discarded' = discarded \cup {current[Worker]}
          /\ pc' = [pc EXCEPT ![Worker] = "receive"] \/ pc' = [pc EXCEPT ![Worker] = "poll"]
          /\ current' = current \/ current' = [current EXCEPT ![Worker] = NoRequest]
      BY <1>v, <1>3 DEF Check, At, Goto, Leave, controlVars, Scoped, Places
    <3> QED
      BY <1>t, <1>v, <3>1 DEF VmTypeOK, CallerPc, WorkerPc
  <2>2. Scoped'
    BY <1>t, <1>v, <1>3 DEF Check, At, Goto, Leave, controlVars, VmTypeOK, Scoped, Places,
           Executing, CallerPc, WorkerPc
  <2>3. Stopped'
    BY <1>t, <1>v, <1>3 DEF Check, At, Goto, Leave, controlVars, VmTypeOK, Scoped, Stopped,
           Places, Executing, CallerPc, WorkerPc
  <2>4. PendingReachable'
    BY <1>t, <1>v, <1>3 DEF Check, At, Goto, Leave, controlVars, VmTypeOK, Scoped,
           PendingReachable, Places, Executing, TerminalDrains, CallerPc, WorkerPc
  <2> QED
    BY <2>1, <2>2, <2>3, <2>4
<1>4. ASSUME Poll
      PROVE  VmTypeOK' /\ Scoped' /\ Stopped' /\ PendingReachable'
  <2>1. VmTypeOK'
    BY <1>t, <1>v, <1>4 DEF Poll, At, Goto, Leave, controlVars, VmTypeOK, Scoped, CallerPc,
           WorkerPc
  <2>2. Scoped'
    BY <1>t, <1>v, <1>4 DEF Poll, At, Goto, Leave, controlVars, VmTypeOK, Scoped, Places,
           Executing, CallerPc, WorkerPc
  <2>3. Stopped'
    BY <1>t, <1>v, <1>4 DEF Poll, At, Goto, Leave, controlVars, VmTypeOK, Scoped, Stopped,
           Places, Executing, CallerPc, WorkerPc
  <2>4. PendingReachable'
    BY <1>t, <1>v, <1>4 DEF Poll, At, Goto, Leave, controlVars, VmTypeOK, Scoped,
           PendingReachable, Places, Executing, TerminalDrains, CallerPc, WorkerPc
  <2> QED
    BY <2>1, <2>2, <2>3, <2>4
<1>5. ASSUME Instruction
      PROVE  VmTypeOK' /\ Scoped' /\ Stopped' /\ PendingReachable'
  <2>1. VmTypeOK'
    BY <1>t, <1>v, <1>5 DEF Instruction, At, Goto, Leave, controlVars, VmTypeOK, Scoped,
           CallerPc, WorkerPc
  <2>2. Scoped'
    BY <1>t, <1>v, <1>5 DEF Instruction, At, Goto, Leave, controlVars, VmTypeOK, Scoped, Places,
           Executing, CallerPc, WorkerPc
  <2>3. Stopped'
    BY <1>t, <1>v, <1>5 DEF Instruction, At, Goto, Leave, controlVars, VmTypeOK, Scoped,
           Stopped, Places, Executing, CallerPc, WorkerPc
  <2>4. PendingReachable'
    BY <1>t, <1>v, <1>5 DEF Instruction, At, Goto, Leave, controlVars, VmTypeOK, Scoped,
           PendingReachable, Places, Executing, TerminalDrains, CallerPc, WorkerPc
  <2> QED
    BY <2>1, <2>2, <2>3, <2>4
<1>6. ASSUME MethodFails
      PROVE  VmTypeOK' /\ Scoped' /\ Stopped' /\ PendingReachable'
  <2>1. VmTypeOK'
    BY <1>t, <1>v, <1>6 DEF MethodFails, At, Goto, Leave, controlVars, Terminate, VmTypeOK,
           Scoped, CallerPc, WorkerPc
  <2>2. Scoped'
    BY <1>t, <1>v, <1>6 DEF MethodFails, At, Goto, Leave, controlVars, Terminate, VmTypeOK,
           Scoped, Places, Executing, CallerPc, WorkerPc
  <2>3. Stopped'
    BY <1>t, <1>v, <1>6 DEF MethodFails, At, Goto, Leave, controlVars, Terminate, VmTypeOK,
           Scoped, Stopped, Places, Executing, CallerPc, WorkerPc
  <2>4. PendingReachable'
    BY <1>t, <1>v, <1>6 DEF MethodFails, At, Goto, Leave, controlVars, Terminate, VmTypeOK,
           Scoped, PendingReachable, Places, Executing, TerminalDrains, CallerPc, WorkerPc
  <2> QED
    BY <2>1, <2>2, <2>3, <2>4
<1>7. ASSUME MethodReturns
      PROVE  VmTypeOK' /\ Scoped' /\ Stopped' /\ PendingReachable'
  <2>1. VmTypeOK'
    BY <1>t, <1>v, <1>7 DEF MethodReturns, At, Goto, Leave, controlVars, Complete, VmTypeOK,
           Scoped, CallerPc, WorkerPc
  <2>2. Scoped'
    BY <1>t, <1>v, <1>7 DEF MethodReturns, At, Goto, Leave, controlVars, Complete, VmTypeOK,
           Scoped, Places, Executing, CallerPc, WorkerPc
  <2>3. Stopped'
    BY <1>t, <1>v, <1>7 DEF MethodReturns, At, Goto, Leave, controlVars, Complete, VmTypeOK,
           Scoped, Stopped, Places, Executing, CallerPc, WorkerPc
  <2>4. PendingReachable'
    BY <1>t, <1>v, <1>7 DEF MethodReturns, At, Goto, Leave, controlVars, Complete, VmTypeOK,
           Scoped, PendingReachable, Places, Executing, TerminalDrains, CallerPc, WorkerPc
  <2> QED
    BY <2>1, <2>2, <2>3, <2>4
<1>8. ASSUME SendReply
      PROVE  VmTypeOK' /\ Scoped' /\ Stopped' /\ PendingReachable'
  <2>1. VmTypeOK'
    BY <1>t, <1>v, <1>8 DEF SendReply, At, Goto, Leave, controlVars, Publish, remoteVars,
           VmTypeOK, Scoped, CallerPc, WorkerPc
  <2>2. Scoped'
    BY <1>t, <1>v, <1>8 DEF SendReply, At, Goto, Leave, controlVars, Publish, remoteVars,
           VmTypeOK, Scoped, Places, Executing, CallerPc, WorkerPc
  <2>3. Stopped'
    BY <1>t, <1>v, <1>8 DEF SendReply, At, Goto, Leave, controlVars, Publish, remoteVars,
           VmTypeOK, Scoped, Stopped, Places, Executing, CallerPc, WorkerPc
  <2>4. PendingReachable'
    BY <1>t, <1>v, <1>8 DEF SendReply, At, Goto, Leave, controlVars, Publish, remoteVars,
           VmTypeOK, Scoped, PendingReachable, Places, Executing, TerminalDrains, CallerPc,
           WorkerPc
  <2> QED
    BY <2>1, <2>2, <2>3, <2>4
<1>9. ASSUME NEW c \in Callers, Send(c)
      PROVE  VmTypeOK' /\ Scoped' /\ Stopped' /\ PendingReachable'
  <2>1. VmTypeOK'
    BY <1>t, <1>v, <1>9 DEF Send, At, Goto, Leave, controlVars, VmTypeOK, Scoped, CallerPc,
           WorkerPc
  <2>2. Scoped'
    BY <1>t, <1>v, <1>9 DEF Send, At, Goto, Leave, controlVars, VmTypeOK, Scoped, Places,
           Executing, CallerPc, WorkerPc
  <2>3. Stopped'
    BY <1>t, <1>v, <1>9 DEF Send, At, Goto, Leave, controlVars, VmTypeOK, Scoped, Stopped,
           Places, Executing, CallerPc, WorkerPc
  <2>4. PendingReachable'
    BY <1>t, <1>v, <1>9 DEF Send, At, Goto, Leave, controlVars, VmTypeOK, Scoped,
           PendingReachable, Places, Executing, TerminalDrains, CallerPc, WorkerPc
  <2> QED
    BY <2>1, <2>2, <2>3, <2>4
<1>10. ASSUME NEW c \in Callers, AwaitEnds(c)
      PROVE  VmTypeOK' /\ Scoped' /\ Stopped' /\ PendingReachable'
  <2>1. VmTypeOK'
    BY <1>t, <1>v, <1>10 DEF AwaitEnds, At, Goto, Leave, controlVars, VmTypeOK, Scoped,
           CallerPc, WorkerPc
  <2>2. Scoped'
    BY <1>t, <1>v, <1>10 DEF AwaitEnds, At, Goto, Leave, controlVars, VmTypeOK, Scoped, Places,
           Executing, CallerPc, WorkerPc
  <2>3. Stopped'
    BY <1>t, <1>v, <1>10 DEF AwaitEnds, At, Goto, Leave, controlVars, VmTypeOK, Scoped, Stopped,
           Places, Executing, CallerPc, WorkerPc
  <2>4. PendingReachable'
    BY <1>t, <1>v, <1>10 DEF AwaitEnds, At, Goto, Leave, controlVars, VmTypeOK, Scoped,
           PendingReachable, Places, Executing, TerminalDrains, CallerPc, WorkerPc
  <2> QED
    BY <2>1, <2>2, <2>3, <2>4
<1>11. ASSUME NEW c \in Callers, DropOwner(c)
      PROVE  VmTypeOK' /\ Scoped' /\ Stopped' /\ PendingReachable'
  <2>1. VmTypeOK'
    BY <1>t, <1>v, <1>11 DEF DropOwner, At, Goto, Leave, controlVars, VmTypeOK, Scoped,
           CallerPc, WorkerPc
  <2>2. Scoped'
    BY <1>t, <1>v, <1>11 DEF DropOwner, At, Goto, Leave, controlVars, VmTypeOK, Scoped, Places,
           Executing, CallerPc, WorkerPc
  <2>3. Stopped'
    BY <1>t, <1>v, <1>11 DEF DropOwner, At, Goto, Leave, controlVars, VmTypeOK, Scoped, Stopped,
           Places, Executing, CallerPc, WorkerPc
  <2>4. PendingReachable'
    BY <1>t, <1>v, <1>11 DEF DropOwner, At, Goto, Leave, controlVars, VmTypeOK, Scoped,
           PendingReachable, Places, Executing, TerminalDrains, CallerPc, WorkerPc
  <2> QED
    BY <2>1, <2>2, <2>3, <2>4
<1>12. ASSUME NEW c \in Callers, AskPending(c)
      PROVE  VmTypeOK' /\ Scoped' /\ Stopped' /\ PendingReachable'
  <2>1. VmTypeOK'
    BY <1>t, <1>v, <1>12 DEF AskPending, At, Goto, Leave, controlVars, VmTypeOK, Scoped,
           CallerPc, WorkerPc
  <2>2. Scoped'
    BY <1>t, <1>v, <1>12 DEF AskPending, At, Goto, Leave, controlVars, VmTypeOK, Scoped, Places,
           Executing, CallerPc, WorkerPc
  <2>3. Stopped'
    BY <1>t, <1>v, <1>12 DEF AskPending, At, Goto, Leave, controlVars, VmTypeOK, Scoped,
           Stopped, Places, Executing, CallerPc, WorkerPc
  <2>4. PendingReachable'
    BY <1>t, <1>v, <1>12 DEF AskPending, At, Goto, Leave, controlVars, VmTypeOK, Scoped,
           PendingReachable, Places, Executing, TerminalDrains, CallerPc, WorkerPc
  <2> QED
    BY <2>1, <2>2, <2>3, <2>4
<1>13. ASSUME NEW c \in Callers, Shutdown(c)
      PROVE  VmTypeOK' /\ Scoped' /\ Stopped' /\ PendingReachable'
  <2>1. VmTypeOK'
    BY <1>t, <1>v, <1>13 DEF Shutdown, At, Goto, Leave, controlVars, Terminate, VmTypeOK,
           Scoped, CallerPc, WorkerPc
  <2>2. Scoped'
    BY <1>t, <1>v, <1>13 DEF Shutdown, At, Goto, Leave, controlVars, Terminate, VmTypeOK,
           Scoped, Places, Executing, CallerPc, WorkerPc
  <2>3. Stopped'
    BY <1>t, <1>v, <1>13 DEF Shutdown, At, Goto, Leave, controlVars, Terminate, VmTypeOK,
           Scoped, Stopped, Places, Executing, CallerPc, WorkerPc
  <2>4. PendingReachable'
    BY <1>t, <1>v, <1>13 DEF Shutdown, At, Goto, Leave, controlVars, Terminate, VmTypeOK,
           Scoped, PendingReachable, Places, Executing, TerminalDrains, CallerPc, WorkerPc
  <2> QED
    BY <2>1, <2>2, <2>3, <2>4
<1>14. ASSUME NEW c \in Callers, Join(c)
      PROVE  VmTypeOK' /\ Scoped' /\ Stopped' /\ PendingReachable'
  <2>1. VmTypeOK'
    BY <1>t, <1>v, <1>14 DEF Join, At, Goto, Leave, controlVars, VmTypeOK, Scoped, CallerPc,
           WorkerPc
  <2>2. Scoped'
    BY <1>t, <1>v, <1>14 DEF Join, At, Goto, Leave, controlVars, VmTypeOK, Scoped, Places,
           Executing, CallerPc, WorkerPc
  <2>3. Stopped'
    BY <1>t, <1>v, <1>14 DEF Join, At, Goto, Leave, controlVars, VmTypeOK, Scoped, Stopped,
           Places, Executing, CallerPc, WorkerPc
  <2>4. PendingReachable'
    BY <1>t, <1>v, <1>14 DEF Join, At, Goto, Leave, controlVars, VmTypeOK, Scoped,
           PendingReachable, Places, Executing, TerminalDrains, CallerPc, WorkerPc
  <2> QED
    BY <2>1, <2>2, <2>3, <2>4
<1>15. ASSUME NEW c \in Callers, NEW r \in Requests, Call(c, r)
      PROVE  VmTypeOK' /\ Scoped' /\ Stopped' /\ PendingReachable'
  <2>1. VmTypeOK'
    BY <1>t, <1>v, <1>15 DEF Call, At, Goto, Leave, controlVars, Register, VmTypeOK, Scoped,
           CallerPc, WorkerPc
  <2>2. Scoped'
    BY <1>t, <1>v, <1>15 DEF Call, At, Goto, Leave, controlVars, Register, VmTypeOK, Scoped,
           Places, Executing, CallerPc, WorkerPc
  <2>3. Stopped'
    BY <1>t, <1>v, <1>15 DEF Call, At, Goto, Leave, controlVars, Register, VmTypeOK, Scoped,
           Stopped, Places, Executing, CallerPc, WorkerPc
  <2>4. PendingReachable'
    <3>1. /\ inbox' = inbox /\ pc[c] = "ready"
          /\ \A t \in Threads : t # c => pc'[t] = pc[t] /\ current'[t] = current[t]
      BY <1>v, <1>15 DEF Call, At, Goto, VmTypeOK
    <3>2. CASE terminal = "live"
      <4>1. pending' = pending \cup {r} /\ pc'[c] = "sending" /\ current'[c] = r
        BY <1>v, <1>15, <3>2 DEF Call, Register, Goto, VmTypeOK
      <4>2. c # Worker
        OBVIOUS
      <4> QED
        BY <1>v, <3>1, <4>1, <4>2 DEF PendingReachable
    <3>3. CASE terminal # "live"
      <4>1. pending' = {}
        BY <1>t, <1>15, <3>3 DEF TerminalDrains, Call, Register
      <4> QED
        BY <4>1 DEF PendingReachable
    <3> QED
      BY <3>2, <3>3
  <2> QED
    BY <2>1, <2>2, <2>3, <2>4
<1>16. ASSUME NEW c \in Callers, NEW r \in Requests, Await(c, r)
      PROVE  VmTypeOK' /\ Scoped' /\ Stopped' /\ PendingReachable'
  <2>1. VmTypeOK'
    BY <1>t, <1>v, <1>16 DEF Await, At, Goto, Leave, controlVars, VmTypeOK, Scoped, CallerPc,
           WorkerPc
  <2>2. Scoped'
    BY <1>t, <1>v, <1>16 DEF Await, At, Goto, Leave, controlVars, VmTypeOK, Scoped, Places,
           Executing, CallerPc, WorkerPc
  <2>3. Stopped'
    BY <1>t, <1>v, <1>16 DEF Await, At, Goto, Leave, controlVars, VmTypeOK, Scoped, Stopped,
           Places, Executing, CallerPc, WorkerPc
  <2>4. PendingReachable'
    BY <1>t, <1>v, <1>16 DEF Await, At, Goto, Leave, controlVars, VmTypeOK, Scoped,
           PendingReachable, Places, Executing, TerminalDrains, CallerPc, WorkerPc
  <2> QED
    BY <2>1, <2>2, <2>3, <2>4
<1>17. ASSUME NEW c \in Callers, NEW d \in Callers, CloneHandle(c, d)
      PROVE  VmTypeOK' /\ Scoped' /\ Stopped' /\ PendingReachable'
  <2>1. VmTypeOK'
    BY <1>t, <1>v, <1>17 DEF CloneHandle, At, Goto, Leave, controlVars, VmTypeOK, Scoped,
           CallerPc, WorkerPc
  <2>2. Scoped'
    BY <1>t, <1>v, <1>17 DEF CloneHandle, At, Goto, Leave, controlVars, VmTypeOK, Scoped,
           Places, Executing, CallerPc, WorkerPc
  <2>3. Stopped'
    BY <1>t, <1>v, <1>17 DEF CloneHandle, At, Goto, Leave, controlVars, VmTypeOK, Scoped,
           Stopped, Places, Executing, CallerPc, WorkerPc
  <2>4. PendingReachable'
    BY <1>t, <1>v, <1>17 DEF CloneHandle, At, Goto, Leave, controlVars, VmTypeOK, Scoped,
           PendingReachable, Places, Executing, TerminalDrains, CallerPc, WorkerPc
  <2> QED
    BY <2>1, <2>2, <2>3, <2>4
<1>18. ASSUME NEW c \in Callers, CancelCaller(c)
      PROVE  VmTypeOK' /\ Scoped' /\ Stopped' /\ PendingReachable'
  <2>1. VmTypeOK'
    BY <1>t, <1>v, <1>18 DEF CancelCaller, At, Goto, Leave, controlVars, VmTypeOK, Scoped,
           CallerPc, WorkerPc
  <2>2. Scoped'
    BY <1>t, <1>v, <1>18 DEF CancelCaller, At, Goto, Leave, controlVars, VmTypeOK, Scoped,
           Places, Executing, CallerPc, WorkerPc
  <2>3. Stopped'
    BY <1>t, <1>v, <1>18 DEF CancelCaller, At, Goto, Leave, controlVars, VmTypeOK, Scoped,
           Stopped, Places, Executing, CallerPc, WorkerPc
  <2>4. PendingReachable'
    BY <1>t, <1>v, <1>18 DEF CancelCaller, At, Goto, Leave, controlVars, VmTypeOK, Scoped,
           PendingReachable, Places, Executing, TerminalDrains, CallerPc, WorkerPc
  <2> QED
    BY <2>1, <2>2, <2>3, <2>4
<1>19. ASSUME NEW c \in Callers, DropSender(c)
      PROVE  VmTypeOK' /\ Scoped' /\ Stopped' /\ PendingReachable'
  <2>1. VmTypeOK'
    BY <1>t, <1>v, <1>19 DEF DropSender, At, Goto, Leave, controlVars, VmTypeOK, Scoped,
           CallerPc, WorkerPc
  <2>2. Scoped'
    BY <1>t, <1>v, <1>19 DEF DropSender, At, Goto, Leave, controlVars, VmTypeOK, Scoped, Places,
           Executing, CallerPc, WorkerPc
  <2>3. Stopped'
    BY <1>t, <1>v, <1>19 DEF DropSender, At, Goto, Leave, controlVars, VmTypeOK, Scoped,
           Stopped, Places, Executing, CallerPc, WorkerPc
  <2>4. PendingReachable'
    BY <1>t, <1>v, <1>19 DEF DropSender, At, Goto, Leave, controlVars, VmTypeOK, Scoped,
           PendingReachable, Places, Executing, TerminalDrains, CallerPc, WorkerPc
  <2> QED
    BY <2>1, <2>2, <2>3, <2>4
<1>20. ASSUME NEW t \in Threads, SendCancel(t)
      PROVE  VmTypeOK' /\ Scoped' /\ Stopped' /\ PendingReachable'
  <2>1. VmTypeOK'
    BY <1>t, <1>v, <1>20 DEF SendCancel, At, Goto, Leave, controlVars, RunCancel, remoteVars,
           VmTypeOK, Scoped, CallerPc, WorkerPc
  <2>2. Scoped'
    BY <1>t, <1>v, <1>20 DEF SendCancel, At, Goto, Leave, controlVars, RunCancel, remoteVars,
           VmTypeOK, Scoped, Places, Executing, CallerPc, WorkerPc
  <2>3. Stopped'
    BY <1>t, <1>v, <1>20 DEF SendCancel, At, Goto, Leave, controlVars, RunCancel, remoteVars,
           VmTypeOK, Scoped, Stopped, Places, Executing, CallerPc, WorkerPc
  <2>4. PendingReachable'
    BY <1>t, <1>v, <1>20 DEF SendCancel, At, Goto, Leave, controlVars, RunCancel, remoteVars,
           VmTypeOK, Scoped, PendingReachable, Places, Executing, TerminalDrains, CallerPc,
           WorkerPc
  <2> QED
    BY <2>1, <2>2, <2>3, <2>4
<1>21. ASSUME UNCHANGED vmVars
      PROVE  VmTypeOK' /\ Scoped' /\ Stopped' /\ PendingReachable'
  <2>1. UNCHANGED remoteVars /\ UNCHANGED <<called, terminal, pending>>
    BY <1>21 DEF vmVars, controlVars
  <2>2. VmTypeOK'
    BY <1>t, <1>v, <2>1 DEF remoteVars, VmTypeOK
  <2>3. Scoped' /\ Stopped'
    BY <1>v, <2>1 DEF remoteVars, Scoped, Stopped
  <2>4. PendingReachable'
    BY <1>v, <2>1 DEF remoteVars, PendingReachable
  <2> QED
    BY <2>2, <2>3, <2>4
<1>q. VmTypeOK' /\ Scoped' /\ Stopped' /\ PendingReachable'
  <2>1. CASE WorkerNext
    BY <2>1, <1>1, <1>2, <1>3, <1>4, <1>5, <1>6, <1>7, <1>8, <1>20 DEF WorkerNext
  <2>2. ASSUME NEW c \in Callers, CallerProceeds(c)
        PROVE  VmTypeOK' /\ Scoped' /\ Stopped' /\ PendingReachable'
    BY <2>2, <1>9, <1>10, <1>11, <1>12, <1>13, <1>14, <1>20 DEF CallerProceeds
  <2>3. ASSUME NEW c \in Callers, CallerChooses(c)
        PROVE  VmTypeOK' /\ Scoped' /\ Stopped' /\ PendingReachable'
    BY <2>3, <1>15, <1>16, <1>17, <1>18, <1>19 DEF CallerChooses
  <2>4. CASE Quiet
    BY <1>21, <2>4 DEF Quiet
  <2> QED
    BY <1>21, <2>1, <2>2, <2>3, <2>4 DEF VmNext
<1> QED
  BY <1>0, <1>q DEF VmInv

(***************************************************************************)
(* The inductive invariant holds of every remote object: in particular its *)
(* controller keeps the controller's invariant.                            *)
(***************************************************************************)
THEOREM VmCorrect == VmSpec => []VmInv
<1>1. VmInit => VmInv
  BY VmInitInv
<1>2. VmInv /\ [VmNext]_vmVars => VmInv'
  BY VmStep
<1> QED
  BY <1>1, <1>2, PTL DEF VmSpec

(***************************************************************************)
(* Every request that waits for an outcome is where the worker finds it.   *)
(***************************************************************************)
THEOREM VmPendingReachable == VmSpec => []PendingReachable
BY VmCorrect, PTL DEF VmInv

(***************************************************************************)
(* After a method has failed, no other method runs on the worker's state.  *)
(***************************************************************************)
THEOREM VmContainment == VmSpec => []Containment
<1>1. VmInv => Containment
  BY DEF VmInv, Stopped, Containment
<1> QED
  BY <1>1, VmCorrect, PTL

(***************************************************************************)
(* At most one instruction executes after the terminal state is entered.   *)
(***************************************************************************)
THEOREM VmPromptStop == VmSpec => []PromptStop
<1>1. VmInv => PromptStop
  BY DEF VmInv, Stopped, PromptStop
<1> QED
  BY <1>1, VmCorrect, PTL

(***************************************************************************)
(* No caller ever sends to a mailbox whose worker has gone.                *)
(***************************************************************************)
THEOREM VmMailboxOpen == VmSpec => []MailboxOpen
<1>1. VmInv => MailboxOpen
  BY DEF VmInv, Stopped, Scoped, MailboxOpen
<1> QED
  BY <1>1, VmCorrect, PTL
-----------------------------------------------------------------------------
(***************************************************************************)
(* The order of a caller's requests.  Identities grow, and two requests of *)
(* one caller that are on their way to the worker stay in their order.     *)
(***************************************************************************)
Numbered ==
  /\ \A r \in Requests : id[r] # NoId => id[r] < next /\ caller[r] \in Callers
  /\ \A r, q \in Requests : id[r] # NoId /\ id[r] = id[q] => r = q
  /\ \A r \in Requests \ called : id[r] = NoId

Before(r, q) == caller[r] = caller[q] => id[r] < id[q]

Sent(r) == id[r] # NoId /\ (terminal = "live" => r \in pending)

Queued ==
  /\ \A c \in Callers : pc[c] = "sending" =>
       /\ caller[current[c]] = c /\ Sent(current[c])
       /\ \A r \in Requests : caller[r] = c => id[r] <= id[current[c]]
       /\ \A i \in 1..Len(inbox) : Before(inbox[i], current[c])
  /\ \A i \in 1..Len(inbox) : Sent(inbox[i])
  /\ \A i, j \in 1..Len(inbox) : i < j => Before(inbox[i], inbox[j])
  /\ pc[Worker] \in Places =>
       /\ Sent(current[Worker])
       /\ \A i \in 1..Len(inbox) : Before(current[Worker], inbox[i])
       /\ \A c \in Callers : pc[c] = "sending" => Before(current[Worker], current[c])

(***************************************************************************)
(* A request with a value was completed after the earlier ones of its      *)
(* caller had theirs; an error is only sent by a worker that has ended.    *)
(***************************************************************************)
Valued(q) == q \in reserved[Worker] \/ (published[q] # <<>> /\ published[q][1] = "ok")

InTurn ==
  /\ \A c \in Callers : reserved[c] = {}
  /\ \A q \in Requests : published[q] # <<>> /\ published[q][1] # "ok" => terminal # "live"
  /\ \A q \in Requests : Valued(q) =>
       /\ id[q] # NoId
       /\ \A r \in Requests : caller[r] = caller[q] /\ id[r] # NoId /\ id[r] < id[q] =>
            published[r] # <<>>

(***************************************************************************)
(* One caller destroys the owner, after every handle is gone.              *)
(***************************************************************************)
Ending == {"asking", "stopping", "joining"}

LastOwner ==
  /\ \A c \in Callers : pc[c] = "releasing" => c \in owners
  /\ \A c \in Callers : pc[c] \in Ending => owners = {}
  /\ \A c, d \in Callers : pc[c] \in Ending /\ pc[d] \in Ending => c = d
  /\ terminal = "shutdown" => /\ owners = {}
                              /\ \A c \in Callers : pc[c] \notin {"asking", "stopping"}
  /\ terminal = "failed" => faulted
  /\ \A c \in Callers : pc[c] \in {"stopping", "joining"} /\ idle[c] => pending = {}

VmOrderInv == VmInv /\ Numbered /\ Queued /\ InTurn /\ LastOwner /\ JoinsIdleWorker

(***************************************************************************)
(* A spawned remote has no requests and its owner.                         *)
(***************************************************************************)
LEMMA VmOrderInit ==
  ASSUME VmInit
  PROVE  VmOrderInv
<1>1. VmInv
  BY VmInitInv
<1>2. /\ pc = [t \in Threads |-> IF t = Worker THEN "receive" ELSE "ready"] /\ inbox = <<>>
      /\ id = [r \in Requests |-> NoId] /\ published = [r \in Requests |-> <<>>]
      /\ reserved = [t \in Threads |-> {}] /\ terminal = "live"
  BY DEF VmInit, ControlInit
<1>3. /\ pc[Worker] = "receive" /\ \A c \in Callers : pc[c] = "ready"
  BY <1>2, CallersAndWorker
<1> QED
  BY <1>1, <1>2, <1>3, CallersAndWorker
  DEF VmOrderInv, Numbered, Queued, InTurn, Valued, LastOwner, JoinsIdleWorker, Places, Executing,
      Ending

(***************************************************************************)
(* Identities are given out once, in order, and only by a call.            *)
(***************************************************************************)
LEMMA NumberedStep ==
  ASSUME VmOrderInv, VmInv', [VmNext]_vmVars
  PROVE  Numbered'
<1> USE CallersAndWorker, NoRequestFresh DEF VmOrderInv, At, Goto, Leave, controlVars
<1>1. ASSUME Receive
      PROVE  Numbered'
  BY <1>1 DEF Receive, VmInv, VmTypeOK, Scoped, ControlInv, ControlTypeOK, Numbered, Conserved
<1>2. ASSUME Exit
      PROVE  Numbered'
  BY <1>2 DEF Exit, VmInv, VmTypeOK, Scoped, ControlInv, ControlTypeOK, Numbered, Conserved
<1>3. ASSUME Check
      PROVE  Numbered'
  BY <1>3 DEF Check, VmInv, VmTypeOK, Scoped, ControlInv, ControlTypeOK, Numbered, Conserved
<1>4. ASSUME Poll
      PROVE  Numbered'
  BY <1>4 DEF Poll, VmInv, VmTypeOK, Scoped, ControlInv, ControlTypeOK, Numbered, Conserved
<1>5. ASSUME Instruction
      PROVE  Numbered'
  BY <1>5 DEF Instruction, VmInv, VmTypeOK, Scoped, ControlInv, ControlTypeOK, Numbered,
         Conserved
<1>6. ASSUME MethodFails
      PROVE  Numbered'
  BY <1>6 DEF MethodFails, Terminate, VmInv, VmTypeOK, Scoped, ControlInv, ControlTypeOK,
         Numbered, Conserved
<1>7. ASSUME MethodReturns
      PROVE  Numbered'
  BY <1>7 DEF MethodReturns, Complete, VmInv, VmTypeOK, Scoped, ControlInv, ControlTypeOK,
         Numbered, Conserved
<1>8. ASSUME SendReply
      PROVE  Numbered'
  BY <1>8 DEF SendReply, Publish, remoteVars, VmInv, VmTypeOK, Scoped, ControlInv,
         ControlTypeOK, Numbered, Conserved
<1>9. ASSUME NEW t \in Threads, SendCancel(t)
      PROVE  Numbered'
  BY <1>9 DEF SendCancel, RunCancel, remoteVars, VmInv, VmTypeOK, Scoped, ControlInv,
         ControlTypeOK, Numbered, Conserved
<1>10. ASSUME NEW c \in Callers, Send(c)
      PROVE  Numbered'
  BY <1>10 DEF Send, VmInv, VmTypeOK, Scoped, ControlInv, ControlTypeOK, Numbered, Conserved
<1>11. ASSUME NEW c \in Callers, AwaitEnds(c)
      PROVE  Numbered'
  BY <1>11 DEF AwaitEnds, VmInv, VmTypeOK, Scoped, ControlInv, ControlTypeOK, Numbered,
         Conserved
<1>12. ASSUME NEW c \in Callers, DropOwner(c)
      PROVE  Numbered'
  BY <1>12 DEF DropOwner, VmInv, VmTypeOK, Scoped, ControlInv, ControlTypeOK, Numbered,
         Conserved
<1>13. ASSUME NEW c \in Callers, AskPending(c)
      PROVE  Numbered'
  BY <1>13 DEF AskPending, VmInv, VmTypeOK, Scoped, ControlInv, ControlTypeOK, Numbered,
         Conserved
<1>14. ASSUME NEW c \in Callers, Shutdown(c)
      PROVE  Numbered'
  BY <1>14 DEF Shutdown, Terminate, VmInv, VmTypeOK, Scoped, ControlInv, ControlTypeOK,
         Numbered, Conserved
<1>15. ASSUME NEW c \in Callers, Join(c)
      PROVE  Numbered'
  BY <1>15 DEF Join, VmInv, VmTypeOK, Scoped, ControlInv, ControlTypeOK, Numbered, Conserved
<1>16. ASSUME NEW c \in Callers, CancelCaller(c)
      PROVE  Numbered'
  BY <1>16 DEF CancelCaller, VmInv, VmTypeOK, Scoped, ControlInv, ControlTypeOK, Numbered,
         Conserved
<1>17. ASSUME NEW c \in Callers, DropSender(c)
      PROVE  Numbered'
  BY <1>17 DEF DropSender, VmInv, VmTypeOK, Scoped, ControlInv, ControlTypeOK, Numbered,
         Conserved
<1>18. ASSUME NEW c \in Callers, NEW r \in Requests, Call(c, r)
      PROVE  Numbered'
  <2>1. CASE terminal # "live"
    <3>1. UNCHANGED <<id, next>> /\ called' = called \cup {r} /\ caller' = [caller EXCEPT ![r] = c]
      BY <1>18, <2>1 DEF Call, Register
    <3> QED
      BY <3>1 DEF VmInv, VmTypeOK, Numbered
  <2>2. CASE terminal = "live"
    <3>1. /\ id' = [id EXCEPT ![r] = next] /\ next' = next + 1 /\ called' = called \cup {r}
          /\ caller' = [caller EXCEPT ![r] = c] /\ r \notin called
      BY <1>18, <2>2 DEF Call, Register
    <3>2. next \in Nat /\ \A q \in Requests : id[q] # NoId => id[q] \in Nat /\ id[q] < next
      BY DEF VmInv, ControlInv, ControlTypeOK, Numbered
    <3>3. id'[r] = next /\ \A q \in Requests : q # r => id'[q] = id[q]
      BY <3>1 DEF VmInv, ControlInv, ControlTypeOK
    <3>4. caller'[r] = c /\ \A q \in Requests : q # r => caller'[q] = caller[q]
      BY <3>1 DEF VmInv, VmTypeOK
    <3>5. \A q \in Requests : id'[q] # NoId => id'[q] < next' /\ caller'[q] \in Callers
      BY <3>1, <3>2, <3>3, <3>4 DEF Numbered
    <3>6. \A p, q \in Requests : id'[p] # NoId /\ id'[p] = id'[q] => p = q
      BY <3>2, <3>3 DEF Numbered
    <3>7. \A q \in Requests \ called' : id'[q] = NoId
      BY <3>1, <3>3 DEF Numbered
    <3> QED
      BY <3>5, <3>6, <3>7 DEF Numbered
  <2> QED
    BY <2>1, <2>2
<1>19. ASSUME NEW c \in Callers, NEW r \in Requests, Await(c, r)
      PROVE  Numbered'
  BY <1>19 DEF Await, VmInv, VmTypeOK, Scoped, ControlInv, ControlTypeOK, Numbered, Conserved
<1>20. ASSUME NEW c \in Callers, NEW d \in Callers, CloneHandle(c, d)
      PROVE  Numbered'
  BY <1>20 DEF CloneHandle, VmInv, VmTypeOK, Scoped, ControlInv, ControlTypeOK, Numbered,
         Conserved
<1>21. CASE UNCHANGED vmVars
  BY <1>21 DEF vmVars, remoteVars, VmInv, VmTypeOK, Scoped, ControlInv, ControlTypeOK, Numbered,
         Conserved
<1> QED
  BY <1>1, <1>2, <1>3, <1>4, <1>5, <1>6, <1>7, <1>8, <1>9, <1>10, <1>11, <1>12, <1>13, <1>14,
         <1>15, <1>16, <1>17, <1>18, <1>19, <1>20, <1>21 DEF VmNext, WorkerNext, CallerProceeds,
         CallerChooses, Quiet

(***************************************************************************)
(* The owner is destroyed once, by the caller that dropped the last handle, *)
(* and no request is accepted any more.                                    *)
(***************************************************************************)
LEMMA OwnerStep ==
  ASSUME VmOrderInv, VmInv', [VmNext]_vmVars
  PROVE  LastOwner'
<1> USE CallersAndWorker, NoRequestFresh DEF VmOrderInv, At, Goto, Leave, controlVars
<1>1. ASSUME Receive
      PROVE  LastOwner'
  BY <1>1 DEF Receive, VmInv, VmTypeOK, Scoped, ControlInv, ControlTypeOK, LastOwner, Ending,
         Errors, Stopped
<1>2. ASSUME Exit
      PROVE  LastOwner'
  BY <1>2 DEF Exit, VmInv, VmTypeOK, Scoped, ControlInv, ControlTypeOK, LastOwner, Ending,
         Errors, Stopped
<1>3. ASSUME Check
      PROVE  LastOwner'
  <2>1. /\ UNCHANGED <<controlVars, owners, idle, faulted>>
        /\ \A c \in Callers : pc'[c] = pc[c]
    BY <1>3 DEF Check, VmInv, VmTypeOK
  <2> QED
    BY <2>1 DEF LastOwner
<1>4. ASSUME Poll
      PROVE  LastOwner'
  BY <1>4 DEF Poll, VmInv, VmTypeOK, Scoped, ControlInv, ControlTypeOK, LastOwner, Ending,
         Errors, Stopped
<1>5. ASSUME Instruction
      PROVE  LastOwner'
  BY <1>5 DEF Instruction, VmInv, VmTypeOK, Scoped, ControlInv, ControlTypeOK, LastOwner,
         Ending, Errors, Stopped
<1>6. ASSUME MethodFails
      PROVE  LastOwner'
  BY <1>6 DEF MethodFails, Terminate, VmInv, VmTypeOK, Scoped, ControlInv, ControlTypeOK,
         LastOwner, Ending, Errors, Stopped
<1>7. ASSUME MethodReturns
      PROVE  LastOwner'
  BY <1>7 DEF MethodReturns, Complete, VmInv, VmTypeOK, Scoped, ControlInv, ControlTypeOK,
         LastOwner, Ending, Errors, Stopped
<1>8. ASSUME SendReply
      PROVE  LastOwner'
  BY <1>8 DEF SendReply, Publish, remoteVars, VmInv, VmTypeOK, Scoped, ControlInv,
         ControlTypeOK, LastOwner, Ending, Errors, Stopped
<1>9. ASSUME NEW t \in Threads, SendCancel(t)
      PROVE  LastOwner'
  BY <1>9 DEF SendCancel, RunCancel, remoteVars, VmInv, VmTypeOK, Scoped, ControlInv,
         ControlTypeOK, LastOwner, Ending, Errors, Stopped
<1>10. ASSUME NEW c \in Callers, Send(c)
      PROVE  LastOwner'
  BY <1>10 DEF Send, VmInv, VmTypeOK, Scoped, ControlInv, ControlTypeOK, LastOwner, Ending,
         Errors, Stopped
<1>11. ASSUME NEW c \in Callers, AwaitEnds(c)
      PROVE  LastOwner'
  BY <1>11 DEF AwaitEnds, VmInv, VmTypeOK, Scoped, ControlInv, ControlTypeOK, LastOwner, Ending,
         Errors, Stopped
<1>12. ASSUME NEW c \in Callers, DropOwner(c)
      PROVE  LastOwner'
  BY <1>12 DEF DropOwner, VmInv, VmTypeOK, Scoped, ControlInv, ControlTypeOK, LastOwner, Ending,
         Errors, Stopped
<1>13. ASSUME NEW c \in Callers, AskPending(c)
      PROVE  LastOwner'
  <2>1. /\ UNCHANGED <<controlVars, owners, faulted>> /\ pc[c] = "asking" /\ pc'[c] = "stopping"
        /\ \A d \in Callers : d # c => pc'[d] = pc[d] /\ idle'[d] = idle[d]
    BY <1>13 DEF AskPending, VmInv, VmTypeOK
  <2>2. idle'[c] => pending = {}
    BY <1>13 DEF AskPending, VmInv, VmTypeOK
  <2>3. terminal # "shutdown"
    BY <2>1 DEF LastOwner
  <2> QED
    BY <2>1, <2>2, <2>3 DEF LastOwner, Ending
<1>14. ASSUME NEW c \in Callers, Shutdown(c)
      PROVE  LastOwner'
  BY <1>14 DEF Shutdown, Terminate, VmInv, VmTypeOK, Scoped, ControlInv, ControlTypeOK,
         LastOwner, Ending, Errors, Stopped
<1>15. ASSUME NEW c \in Callers, Join(c)
      PROVE  LastOwner'
  BY <1>15 DEF Join, VmInv, VmTypeOK, Scoped, ControlInv, ControlTypeOK, LastOwner, Ending,
         Errors, Stopped
<1>16. ASSUME NEW c \in Callers, CancelCaller(c)
      PROVE  LastOwner'
  BY <1>16 DEF CancelCaller, VmInv, VmTypeOK, Scoped, ControlInv, ControlTypeOK, LastOwner,
         Ending, Errors, Stopped
<1>17. ASSUME NEW c \in Callers, DropSender(c)
      PROVE  LastOwner'
  BY <1>17 DEF DropSender, VmInv, VmTypeOK, Scoped, ControlInv, ControlTypeOK, LastOwner,
         Ending, Errors, Stopped
<1>18. ASSUME NEW c \in Callers, NEW r \in Requests, Call(c, r)
      PROVE  LastOwner'
  <2>1. /\ UNCHANGED <<owners, idle, faulted, terminal>> /\ owners # {} /\ pc[c] = "ready"
        /\ \A d \in Callers : d # c => pc'[d] = pc[d]
    BY <1>18 DEF Call, Register, VmInv, VmTypeOK
  <2>2. pc'[c] \in {"ready", "sending"}
    BY <1>18 DEF Call, VmInv, VmTypeOK
  <2>3. \A d \in Callers : pc'[d] \notin Ending /\ (pc'[d] = "releasing" => d \in owners')
    BY <2>1, <2>2 DEF LastOwner, Ending
  <2> QED
    BY <2>1, <2>3 DEF LastOwner, Ending
<1>19. ASSUME NEW c \in Callers, NEW r \in Requests, Await(c, r)
      PROVE  LastOwner'
  BY <1>19 DEF Await, VmInv, VmTypeOK, Scoped, ControlInv, ControlTypeOK, LastOwner, Ending,
         Errors, Stopped
<1>20. ASSUME NEW c \in Callers, NEW d \in Callers, CloneHandle(c, d)
      PROVE  LastOwner'
  BY <1>20 DEF CloneHandle, VmInv, VmTypeOK, Scoped, ControlInv, ControlTypeOK, LastOwner,
         Ending, Errors, Stopped
<1>21. CASE UNCHANGED vmVars
  BY <1>21 DEF vmVars, remoteVars, VmInv, VmTypeOK, Scoped, ControlInv, ControlTypeOK,
         LastOwner, Ending, Errors, Stopped
<1> QED
  BY <1>1, <1>2, <1>3, <1>4, <1>5, <1>6, <1>7, <1>8, <1>9, <1>10, <1>11, <1>12, <1>13, <1>14,
         <1>15, <1>16, <1>17, <1>18, <1>19, <1>20, <1>21 DEF VmNext, WorkerNext, CallerProceeds,
         CallerChooses, Quiet

(***************************************************************************)
(* The destructor found nothing pending, so that the worker it waits for is *)
(* in no method and starts none.                                           *)
(***************************************************************************)
LEMMA JoinStep ==
  ASSUME VmOrderInv, VmInv', [VmNext]_vmVars
  PROVE  JoinsIdleWorker'
<1> USE CallersAndWorker, NoRequestFresh DEF VmOrderInv, At, Goto, Leave, controlVars
<1>1. ASSUME Receive
      PROVE  JoinsIdleWorker'
  BY <1>1 DEF Receive, VmInv, VmTypeOK, Scoped, ControlInv, ControlTypeOK, LastOwner, Ending,
         Errors, Stopped, JoinsIdleWorker, Executing, Places, Queued, Sent
<1>2. ASSUME Exit
      PROVE  JoinsIdleWorker'
  BY <1>2 DEF Exit, VmInv, VmTypeOK, Scoped, ControlInv, ControlTypeOK, LastOwner, Ending,
         Errors, Stopped, JoinsIdleWorker, Executing, Places, Queued, Sent
<1>3. ASSUME Check
      PROVE  JoinsIdleWorker'
  BY <1>3, SMTT(30) DEF Check, VmInv, VmTypeOK, Scoped, ControlInv, ControlTypeOK, LastOwner, Ending,
         Errors, Stopped, JoinsIdleWorker, Executing, Places, Queued, Sent
<1>4. ASSUME Poll
      PROVE  JoinsIdleWorker'
  BY <1>4 DEF Poll, VmInv, VmTypeOK, Scoped, ControlInv, ControlTypeOK, LastOwner, Ending,
         Errors, Stopped, JoinsIdleWorker, Executing, Places, Queued, Sent
<1>5. ASSUME Instruction
      PROVE  JoinsIdleWorker'
  BY <1>5 DEF Instruction, VmInv, VmTypeOK, Scoped, ControlInv, ControlTypeOK, LastOwner,
         Ending, Errors, Stopped, JoinsIdleWorker, Executing, Places, Queued, Sent
<1>6. ASSUME MethodFails
      PROVE  JoinsIdleWorker'
  BY <1>6 DEF MethodFails, Terminate, VmInv, VmTypeOK, Scoped, ControlInv, ControlTypeOK,
         LastOwner, Ending, Errors, Stopped, JoinsIdleWorker, Executing, Places, Queued, Sent
<1>7. ASSUME MethodReturns
      PROVE  JoinsIdleWorker'
  BY <1>7 DEF MethodReturns, Complete, VmInv, VmTypeOK, Scoped, ControlInv, ControlTypeOK,
         LastOwner, Ending, Errors, Stopped, JoinsIdleWorker, Executing, Places, Queued, Sent
<1>8. ASSUME SendReply
      PROVE  JoinsIdleWorker'
  BY <1>8 DEF SendReply, Publish, remoteVars, VmInv, VmTypeOK, Scoped, ControlInv,
         ControlTypeOK, LastOwner, Ending, Errors, Stopped, JoinsIdleWorker, Executing, Places,
         Queued, Sent
<1>9. ASSUME NEW t \in Threads, SendCancel(t)
      PROVE  JoinsIdleWorker'
  BY <1>9 DEF SendCancel, RunCancel, remoteVars, VmInv, VmTypeOK, Scoped, ControlInv,
         ControlTypeOK, LastOwner, Ending, Errors, Stopped, JoinsIdleWorker, Executing, Places,
         Queued, Sent
<1>10. ASSUME NEW c \in Callers, Send(c)
      PROVE  JoinsIdleWorker'
  BY <1>10 DEF Send, VmInv, VmTypeOK, Scoped, ControlInv, ControlTypeOK, LastOwner, Ending,
         Errors, Stopped, JoinsIdleWorker, Executing, Places, Queued, Sent
<1>11. ASSUME NEW c \in Callers, AwaitEnds(c)
      PROVE  JoinsIdleWorker'
  BY <1>11 DEF AwaitEnds, VmInv, VmTypeOK, Scoped, ControlInv, ControlTypeOK, LastOwner, Ending,
         Errors, Stopped, JoinsIdleWorker, Executing, Places, Queued, Sent
<1>12. ASSUME NEW c \in Callers, DropOwner(c)
      PROVE  JoinsIdleWorker'
  BY <1>12 DEF DropOwner, VmInv, VmTypeOK, Scoped, ControlInv, ControlTypeOK, LastOwner, Ending,
         Errors, Stopped, JoinsIdleWorker, Executing, Places, Queued, Sent
<1>13. ASSUME NEW c \in Callers, AskPending(c)
      PROVE  JoinsIdleWorker'
  BY <1>13 DEF AskPending, VmInv, VmTypeOK, Scoped, ControlInv, ControlTypeOK, LastOwner,
         Ending, Errors, Stopped, JoinsIdleWorker, Executing, Places, Queued, Sent
<1>14. ASSUME NEW c \in Callers, Shutdown(c)
      PROVE  JoinsIdleWorker'
  BY <1>14 DEF Shutdown, Terminate, VmInv, VmTypeOK, Scoped, ControlInv, ControlTypeOK,
         LastOwner, Ending, Errors, Stopped, JoinsIdleWorker, Executing, Places, Queued, Sent
<1>15. ASSUME NEW c \in Callers, Join(c)
      PROVE  JoinsIdleWorker'
  BY <1>15 DEF Join, VmInv, VmTypeOK, Scoped, ControlInv, ControlTypeOK, LastOwner, Ending,
         Errors, Stopped, JoinsIdleWorker, Executing, Places, Queued, Sent
<1>16. ASSUME NEW c \in Callers, CancelCaller(c)
      PROVE  JoinsIdleWorker'
  BY <1>16 DEF CancelCaller, VmInv, VmTypeOK, Scoped, ControlInv, ControlTypeOK, LastOwner,
         Ending, Errors, Stopped, JoinsIdleWorker, Executing, Places, Queued, Sent
<1>17. ASSUME NEW c \in Callers, DropSender(c)
      PROVE  JoinsIdleWorker'
  BY <1>17 DEF DropSender, VmInv, VmTypeOK, Scoped, ControlInv, ControlTypeOK, LastOwner,
         Ending, Errors, Stopped, JoinsIdleWorker, Executing, Places, Queued, Sent
<1>18. ASSUME NEW c \in Callers, NEW r \in Requests, Call(c, r)
      PROVE  JoinsIdleWorker'
  BY <1>18 DEF Call, Register, VmInv, VmTypeOK, Scoped, ControlInv, ControlTypeOK, LastOwner,
         Ending, Errors, Stopped, JoinsIdleWorker, Executing, Places, Queued, Sent
<1>19. ASSUME NEW c \in Callers, NEW r \in Requests, Await(c, r)
      PROVE  JoinsIdleWorker'
  BY <1>19 DEF Await, VmInv, VmTypeOK, Scoped, ControlInv, ControlTypeOK, LastOwner, Ending,
         Errors, Stopped, JoinsIdleWorker, Executing, Places, Queued, Sent
<1>20. ASSUME NEW c \in Callers, NEW d \in Callers, CloneHandle(c, d)
      PROVE  JoinsIdleWorker'
  BY <1>20 DEF CloneHandle, VmInv, VmTypeOK, Scoped, ControlInv, ControlTypeOK, LastOwner,
         Ending, Errors, Stopped, JoinsIdleWorker, Executing, Places, Queued, Sent
<1>21. CASE UNCHANGED vmVars
  BY <1>21 DEF vmVars, remoteVars, VmInv, VmTypeOK, Scoped, ControlInv, ControlTypeOK,
         LastOwner, Ending, Errors, Stopped, JoinsIdleWorker, Executing, Places, Queued, Sent
<1> QED
  BY <1>1, <1>2, <1>3, <1>4, <1>5, <1>6, <1>7, <1>8, <1>9, <1>10, <1>11, <1>12, <1>13, <1>14,
         <1>15, <1>16, <1>17, <1>18, <1>19, <1>20, <1>21 DEF VmNext, WorkerNext, CallerProceeds,
         CallerChooses, Quiet

(***************************************************************************)
(* When the worker completes a request, the earlier ones of its caller are *)
(* neither pending nor owed, and hence have their outcome.                 *)
(***************************************************************************)
LEMMA TurnStep ==
  ASSUME VmOrderInv, VmInv', [VmNext]_vmVars
  PROVE  InTurn'
<1> USE CallersAndWorker, NoRequestFresh DEF VmOrderInv, At, Goto, Leave, controlVars
<1>1. ASSUME Receive
      PROVE  InTurn'
  BY <1>1 DEF Receive, VmInv, VmTypeOK, Scoped, ControlInv, ControlTypeOK, InTurn, Valued,
         Numbered, Conserved, Holds, TerminalDrains, Busy
<1>2. ASSUME Exit
      PROVE  InTurn'
  BY <1>2 DEF Exit, VmInv, VmTypeOK, Scoped, ControlInv, ControlTypeOK, InTurn, Valued,
         Numbered, Conserved, Holds, TerminalDrains, Busy
<1>3. ASSUME Check
      PROVE  InTurn'
  BY <1>3 DEF Check, VmInv, VmTypeOK, Scoped, ControlInv, ControlTypeOK, InTurn, Valued,
         Numbered, Conserved, Holds, TerminalDrains, Busy
<1>4. ASSUME Poll
      PROVE  InTurn'
  BY <1>4 DEF Poll, VmInv, VmTypeOK, Scoped, ControlInv, ControlTypeOK, InTurn, Valued,
         Numbered, Conserved, Holds, TerminalDrains, Busy
<1>5. ASSUME Instruction
      PROVE  InTurn'
  BY <1>5 DEF Instruction, VmInv, VmTypeOK, Scoped, ControlInv, ControlTypeOK, InTurn, Valued,
         Numbered, Conserved, Holds, TerminalDrains, Busy
<1>6. ASSUME MethodFails
      PROVE  InTurn'
  BY <1>6 DEF MethodFails, Terminate, VmInv, VmTypeOK, Scoped, ControlInv, ControlTypeOK,
         InTurn, Valued, Numbered, Conserved, Holds, TerminalDrains, Busy
<1>7. ASSUME MethodReturns
      PROVE  InTurn'
  <2> DEFINE q == current[Worker]
  <2>1. /\ q \in Requests /\ pc[Worker] = "completing" /\ id[q] # NoId /\ reserved[Worker] = {}
        /\ UNCHANGED <<terminal, id, caller, published>>
    BY <1>7 DEF MethodReturns, Complete, Busy, VmInv, Scoped, Places, Executing
  <2>2. CASE q \notin pending
    BY <1>7, <2>1, <2>2 DEF MethodReturns, Complete, InTurn, Valued
  <2>3. CASE q \in pending
    <3>1. /\ terminal = "live" /\ reserved' = [reserved EXCEPT ![Worker] = {q}]
      BY <1>7, <2>3 DEF MethodReturns, Complete, VmInv, ControlInv, TerminalDrains
    <3>2. ASSUME NEW r \in Requests, caller[r] = caller[q], id[r] # NoId, id[r] < id[q]
          PROVE  published[r] # <<>>
      <4>1. r \in called /\ id[r] \in Nat /\ id[q] \in Nat
        BY <2>1, <3>2 DEF Numbered, VmInv, ControlInv, ControlTypeOK
      <4>2. \A t \in Threads : ~Holds(t, r)
        <5>1. \A t \in Threads : cancels[t] = {}
          BY <3>1 DEF VmInv, ControlInv, TerminalDrains
        <5>2. \A t \in Threads : reserved[t] = {}
          BY <2>1 DEF InTurn
        <5> QED
          BY <5>1, <5>2 DEF Holds
      <4>3. r \notin pending
        <5>1. \A i \in 1..Len(inbox) : inbox[i] # r
          BY <2>1, <3>2, <4>1 DEF Queued, Before, Places, Executing
        <5>2. \A c \in Callers : pc[c] = "sending" => current[c] # r
          BY <2>1, <3>2, <4>1 DEF Queued, Before, Places, Executing
        <5>3. q # r
          BY <3>2, <4>1
        <5> QED
          BY <5>1, <5>2, <5>3 DEF VmInv, PendingReachable
      <4> QED
        BY <4>1, <4>2, <4>3 DEF VmInv, ControlInv, Conserved
    <3>3. reserved'[Worker] = {q} /\ \A c \in Callers : reserved'[c] = reserved[c]
      BY <3>1 DEF VmInv, ControlInv, ControlTypeOK
    <3> QED
      BY <2>1, <3>2, <3>3 DEF InTurn, Valued
  <2> QED
    BY <2>2, <2>3
<1>8. ASSUME SendReply
      PROVE  InTurn'
  BY <1>8 DEF SendReply, Publish, remoteVars, VmInv, VmTypeOK, Scoped, ControlInv,
         ControlTypeOK, InTurn, Valued, Numbered, Conserved, Holds, TerminalDrains, Busy
<1>9. ASSUME NEW t \in Threads, SendCancel(t)
      PROVE  InTurn'
  <2>1. PICK r \in cancels[t] :
          /\ published' = [published EXCEPT ![r] = Append(@, cancelWith[t])]
          /\ UNCHANGED <<terminal, id, reserved, caller>>
    BY <1>9 DEF SendCancel, RunCancel, remoteVars
  <2>2. /\ r \in Requests /\ published[r] = <<>> /\ terminal # "live" /\ cancelWith[t] = terminal
        /\ cancelWith[t] \in Outcomes /\ published \in [Requests -> Seq(Outcomes)]
        /\ cancelWith[t] # "ok"
    BY <2>1 DEF VmInv, ControlInv, ControlTypeOK, TerminalDrains, Conserved, Holds, Outcomes,
           Errors
  <2>3. /\ published'[r] = <<cancelWith[t]>> /\ published'[r] # <<>> /\ published'[r][1] # "ok"
        /\ \A q \in Requests : q # r => published'[q] = published[q]
    BY <2>1, <2>2, SendOnce
  <2> QED
    BY <2>1, <2>2, <2>3 DEF InTurn, Valued
<1>10. ASSUME NEW c \in Callers, Send(c)
      PROVE  InTurn'
  BY <1>10 DEF Send, VmInv, VmTypeOK, Scoped, ControlInv, ControlTypeOK, InTurn, Valued,
         Numbered, Conserved, Holds, TerminalDrains, Busy
<1>11. ASSUME NEW c \in Callers, AwaitEnds(c)
      PROVE  InTurn'
  BY <1>11 DEF AwaitEnds, VmInv, VmTypeOK, Scoped, ControlInv, ControlTypeOK, InTurn, Valued,
         Numbered, Conserved, Holds, TerminalDrains, Busy
<1>12. ASSUME NEW c \in Callers, DropOwner(c)
      PROVE  InTurn'
  BY <1>12 DEF DropOwner, VmInv, VmTypeOK, Scoped, ControlInv, ControlTypeOK, InTurn, Valued,
         Numbered, Conserved, Holds, TerminalDrains, Busy
<1>13. ASSUME NEW c \in Callers, AskPending(c)
      PROVE  InTurn'
  BY <1>13 DEF AskPending, VmInv, VmTypeOK, Scoped, ControlInv, ControlTypeOK, InTurn, Valued,
         Numbered, Conserved, Holds, TerminalDrains, Busy
<1>14. ASSUME NEW c \in Callers, Shutdown(c)
      PROVE  InTurn'
  BY <1>14 DEF Shutdown, Terminate, VmInv, VmTypeOK, Scoped, ControlInv, ControlTypeOK, InTurn,
         Valued, Numbered, Conserved, Holds, TerminalDrains, Busy
<1>15. ASSUME NEW c \in Callers, Join(c)
      PROVE  InTurn'
  BY <1>15 DEF Join, VmInv, VmTypeOK, Scoped, ControlInv, ControlTypeOK, InTurn, Valued,
         Numbered, Conserved, Holds, TerminalDrains, Busy
<1>16. ASSUME NEW c \in Callers, CancelCaller(c)
      PROVE  InTurn'
  BY <1>16 DEF CancelCaller, VmInv, VmTypeOK, Scoped, ControlInv, ControlTypeOK, InTurn, Valued,
         Numbered, Conserved, Holds, TerminalDrains, Busy
<1>17. ASSUME NEW c \in Callers, DropSender(c)
      PROVE  InTurn'
  BY <1>17 DEF DropSender, VmInv, VmTypeOK, Scoped, ControlInv, ControlTypeOK, InTurn, Valued,
         Numbered, Conserved, Holds, TerminalDrains, Busy
<1>18. ASSUME NEW c \in Callers, NEW r \in Requests, Call(c, r)
      PROVE  InTurn'
  BY <1>18 DEF Call, Register, VmInv, VmTypeOK, Scoped, ControlInv, ControlTypeOK, InTurn,
         Valued, Numbered, Conserved, Holds, TerminalDrains, Busy
<1>19. ASSUME NEW c \in Callers, NEW r \in Requests, Await(c, r)
      PROVE  InTurn'
  BY <1>19 DEF Await, VmInv, VmTypeOK, Scoped, ControlInv, ControlTypeOK, InTurn, Valued,
         Numbered, Conserved, Holds, TerminalDrains, Busy
<1>20. ASSUME NEW c \in Callers, NEW d \in Callers, CloneHandle(c, d)
      PROVE  InTurn'
  BY <1>20 DEF CloneHandle, VmInv, VmTypeOK, Scoped, ControlInv, ControlTypeOK, InTurn, Valued,
         Numbered, Conserved, Holds, TerminalDrains, Busy
<1>21. CASE UNCHANGED vmVars
  BY <1>21 DEF vmVars, remoteVars, VmInv, VmTypeOK, Scoped, ControlInv, ControlTypeOK, InTurn,
         Valued, Numbered, Conserved, Holds, TerminalDrains, Busy
<1> QED
  BY <1>1, <1>2, <1>3, <1>4, <1>5, <1>6, <1>7, <1>8, <1>9, <1>10, <1>11, <1>12, <1>13, <1>14,
         <1>15, <1>16, <1>17, <1>18, <1>19, <1>20, <1>21 DEF VmNext, WorkerNext, CallerProceeds,
         CallerChooses, Quiet

(***************************************************************************)
(* A caller sends one request at a time and the mailbox is first in, first *)
(* out: the requests of one caller reach the worker in order.              *)
(***************************************************************************)
LEMMA QueueStep ==
  ASSUME VmOrderInv, VmInv', [VmNext]_vmVars
  PROVE  Queued'
<1> USE CallersAndWorker, NoRequestFresh DEF VmOrderInv, At, Goto, Leave, controlVars
<1>1. ASSUME Receive
      PROVE  Queued'
  BY <1>1 DEF Receive, VmInv, VmTypeOK, Scoped, ControlInv, ControlTypeOK, Queued, Sent, Before,
         Numbered, Places, Executing
<1>2. ASSUME Exit
      PROVE  Queued'
  BY <1>2 DEF Exit, VmInv, VmTypeOK, Scoped, ControlInv, ControlTypeOK, Queued, Sent, Before,
         Numbered, Places, Executing
<1>3. ASSUME Check
      PROVE  Queued'
  BY <1>3 DEF Check, VmInv, VmTypeOK, Scoped, ControlInv, ControlTypeOK, Queued, Sent, Before,
         Numbered, Places, Executing
<1>4. ASSUME Poll
      PROVE  Queued'
  BY <1>4 DEF Poll, VmInv, VmTypeOK, Scoped, ControlInv, ControlTypeOK, Queued, Sent, Before,
         Numbered, Places, Executing
<1>5. ASSUME Instruction
      PROVE  Queued'
  BY <1>5 DEF Instruction, VmInv, VmTypeOK, Scoped, ControlInv, ControlTypeOK, Queued, Sent,
         Before, Numbered, Places, Executing
<1>6. ASSUME MethodFails
      PROVE  Queued'
  BY <1>6 DEF MethodFails, Terminate, VmInv, VmTypeOK, Scoped, ControlInv, ControlTypeOK,
         Queued, Sent, Before, Numbered, Places, Executing
<1>7. ASSUME MethodReturns
      PROVE  Queued'
  BY <1>7 DEF MethodReturns, Complete, VmInv, VmTypeOK, Scoped, ControlInv, ControlTypeOK,
         Queued, Sent, Before, Numbered, Places, Executing
<1>8. ASSUME SendReply
      PROVE  Queued'
  BY <1>8 DEF SendReply, Publish, remoteVars, VmInv, VmTypeOK, Scoped, ControlInv,
         ControlTypeOK, Queued, Sent, Before, Numbered, Places, Executing
<1>9. ASSUME NEW t \in Threads, SendCancel(t)
      PROVE  Queued'
  BY <1>9 DEF SendCancel, RunCancel, remoteVars, VmInv, VmTypeOK, Scoped, ControlInv,
         ControlTypeOK, Queued, Sent, Before, Numbered, Places, Executing
<1>10. ASSUME NEW c \in Callers, Send(c)
      PROVE  Queued'
  <2> DEFINE r == current[c]
  <2>1. /\ r \in Requests /\ caller[r] = c /\ Sent(r) /\ pc[c] = "sending" /\ c # Worker
        /\ \A i \in 1..Len(inbox) : Before(inbox[i], r)
        /\ inbox \in Seq(Requests) /\ inbox' = Append(inbox, r)
        /\ UNCHANGED <<controlVars, caller>>
    BY <1>10 DEF Send, VmInv, VmTypeOK, Scoped, Queued
  <2>2. /\ pc'[c] = "ready"
        /\ \A t \in Threads : t # c => pc'[t] = pc[t] /\ current'[t] = current[t]
    BY <1>10 DEF Send, VmInv, VmTypeOK
  <2>3. /\ Len(inbox') = Len(inbox) + 1 /\ Len(inbox) \in Nat /\ inbox'[Len(inbox) + 1] = r
        /\ \A i \in 1..Len(inbox) : inbox'[i] = inbox[i]
    BY <2>1
  <2>4. \A i \in 1..Len(inbox') : i \in 1..Len(inbox) \/ (i = Len(inbox) + 1 /\ inbox'[i] = r)
    BY <2>3
  <2>5. \A i \in 1..Len(inbox') : Sent(inbox'[i])
    BY <2>1, <2>3, <2>4 DEF Queued, Sent
  <2>6. ASSUME NEW i \in 1..Len(inbox'), NEW j \in 1..Len(inbox'), i < j
        PROVE  Before(inbox'[i], inbox'[j])
    <3>1. i \in 1..Len(inbox)
      BY <2>3, <2>6
    <3> QED
      BY <2>1, <2>3, <2>4, <2>6, <3>1 DEF Queued
  <2>7. ASSUME NEW d \in Callers, pc'[d] = "sending"
        PROVE  /\ caller'[current'[d]] = d /\ Sent(current'[d])
               /\ \A q \in Requests : caller[q] = d => id[q] <= id[current'[d]]
               /\ \A i \in 1..Len(inbox') : Before(inbox'[i], current'[d])
    <3>1. d # c /\ pc[d] = "sending" /\ current'[d] = current[d]
      BY <2>2, <2>7
    <3>2. Before(r, current[d])
      BY <2>1, <3>1 DEF Queued, Before
    <3> QED
      BY <2>1, <2>3, <2>4, <3>1, <3>2 DEF Queued
  <2>8. ASSUME pc'[Worker] \in Places
        PROVE  /\ Sent(current'[Worker])
               /\ \A i \in 1..Len(inbox') : Before(current'[Worker], inbox'[i])
               /\ \A d \in Callers : pc'[d] = "sending" => Before(current'[Worker], current'[d])
    <3>1. pc[Worker] \in Places /\ current'[Worker] = current[Worker]
      BY <2>1, <2>2, <2>8
    <3>2. Before(current[Worker], r)
      BY <2>1, <3>1 DEF Queued
    <3> QED
      BY <2>2, <2>3, <2>4, <3>1, <3>2 DEF Queued
  <2> QED
    BY <2>1, <2>5, <2>6, <2>7, <2>8 DEF Queued, Sent, Before
<1>11. ASSUME NEW c \in Callers, AwaitEnds(c)
      PROVE  Queued'
  BY <1>11 DEF AwaitEnds, VmInv, VmTypeOK, Scoped, ControlInv, ControlTypeOK, Queued, Sent,
         Before, Numbered, Places, Executing
<1>12. ASSUME NEW c \in Callers, DropOwner(c)
      PROVE  Queued'
  BY <1>12 DEF DropOwner, VmInv, VmTypeOK, Scoped, ControlInv, ControlTypeOK, Queued, Sent,
         Before, Numbered, Places, Executing
<1>13. ASSUME NEW c \in Callers, AskPending(c)
      PROVE  Queued'
  BY <1>13 DEF AskPending, VmInv, VmTypeOK, Scoped, ControlInv, ControlTypeOK, Queued, Sent,
         Before, Numbered, Places, Executing
<1>14. ASSUME NEW c \in Callers, Shutdown(c)
      PROVE  Queued'
  BY <1>14 DEF Shutdown, Terminate, VmInv, VmTypeOK, Scoped, ControlInv, ControlTypeOK, Queued,
         Sent, Before, Numbered, Places, Executing
<1>15. ASSUME NEW c \in Callers, Join(c)
      PROVE  Queued'
  BY <1>15 DEF Join, VmInv, VmTypeOK, Scoped, ControlInv, ControlTypeOK, Queued, Sent, Before,
         Numbered, Places, Executing
<1>16. ASSUME NEW c \in Callers, CancelCaller(c)
      PROVE  Queued'
  BY <1>16 DEF CancelCaller, VmInv, VmTypeOK, Scoped, ControlInv, ControlTypeOK, Queued, Sent,
         Before, Numbered, Places, Executing
<1>17. ASSUME NEW c \in Callers, DropSender(c)
      PROVE  Queued'
  BY <1>17 DEF DropSender, VmInv, VmTypeOK, Scoped, ControlInv, ControlTypeOK, Queued, Sent,
         Before, Numbered, Places, Executing
<1>18. ASSUME NEW c \in Callers, NEW r \in Requests, Call(c, r)
      PROVE  Queued'
  <2>1. /\ r \notin called /\ id[r] = NoId /\ UNCHANGED <<inbox, terminal>> /\ pc[c] = "ready"
        /\ c # Worker
        /\ \A t \in Threads : t # c => pc'[t] = pc[t] /\ current'[t] = current[t]
        /\ caller'[r] = c /\ \A q \in Requests : q # r => caller'[q] = caller[q]
    BY <1>18 DEF Call, Register, VmInv, VmTypeOK, Numbered
  <2>2. /\ inbox \in Seq(Requests) /\ \A i \in 1..Len(inbox) : inbox[i] # r /\ inbox[i] \in Requests
        /\ pc[Worker] \in Places => current[Worker] # r /\ current[Worker] \in Requests
        /\ \A d \in Callers : pc[d] = "sending" => current[d] # r /\ current[d] \in Requests
    BY <2>1 DEF VmInv, VmTypeOK, Scoped, Queued, Sent
  <2>3. CASE terminal # "live"
    <3>1. UNCHANGED <<pc, current, id>>
      BY <1>18, <2>3 DEF Call, Register
    <3>2. \A d \in Callers : pc[d] = "sending" => d # c
      BY <2>1
    <3> QED
      BY <2>1, <2>2, <2>3, <3>1, <3>2 DEF Queued, Sent, Before
  <2>4. CASE terminal = "live"
    <3>1. /\ id'[r] = next /\ \A q \in Requests : q # r => id'[q] = id[q]
          /\ pending' = pending \cup {r} /\ pc'[c] = "sending" /\ current'[c] = r
      BY <1>18, <2>4 DEF Call, Register, VmInv, VmTypeOK, ControlInv, ControlTypeOK
    <3>2. /\ next \in Nat /\ \A q \in Requests : id[q] < next /\ id[q] \in Int
      BY DEF VmInv, ControlInv, ControlTypeOK, Numbered, NoId
    <3>3. next # NoId /\ id'[r] # NoId
      BY <3>1, <3>2 DEF NoId
    <3>4. \A q \in Requests : q # r => (Sent(q) => Sent(q)')
      BY <2>1, <3>1 DEF Sent
    <3>5. \A p, q \in Requests : p # r /\ q # r => (Before(p, q) => Before(p, q)')
      BY <2>1, <3>1 DEF Before
    <3>6. \A q \in Requests : q # r => Before(q, r)'
      BY <3>1, <3>2 DEF Before
    <3>7. Sent(r)'
      BY <2>1, <3>1, <3>3 DEF Sent
    <3>8. \A q \in Requests : id'[q] <= id'[r]
      BY <3>1, <3>2
    <3>9. ASSUME NEW d \in Callers, d # c, pc'[d] = "sending"
          PROVE  /\ caller'[current'[d]] = d /\ Sent(current[d])'
                 /\ \A q \in Requests : caller'[q] = d => id'[q] <= id'[current'[d]]
                 /\ (\A i \in 1..Len(inbox) : Before(inbox[i], current[d]))'
      <4>1. pc[d] = "sending" /\ current'[d] = current[d] /\ current[d] \in Requests \ {r}
        BY <2>1, <2>2, <3>9
      <4>2. /\ caller[current[d]] = d /\ Sent(current[d])
            /\ \A q \in Requests : caller[q] = d => id[q] <= id[current[d]]
            /\ \A i \in 1..Len(inbox) : Before(inbox[i], current[d])
        BY <4>1 DEF Queued
      <4> QED
        BY <2>1, <2>2, <3>1, <3>4, <3>5, <3>9, <4>1, <4>2 DEF Sent, Before
    <3> QED
      BY <2>1, <2>2, <3>1, <3>4, <3>5, <3>6, <3>7, <3>8, <3>9 DEF Queued
  <2> QED
    BY <2>3, <2>4
<1>19. ASSUME NEW c \in Callers, NEW r \in Requests, Await(c, r)
      PROVE  Queued'
  BY <1>19 DEF Await, VmInv, VmTypeOK, Scoped, ControlInv, ControlTypeOK, Queued, Sent, Before,
         Numbered, Places, Executing
<1>20. ASSUME NEW c \in Callers, NEW d \in Callers, CloneHandle(c, d)
      PROVE  Queued'
  BY <1>20 DEF CloneHandle, VmInv, VmTypeOK, Scoped, ControlInv, ControlTypeOK, Queued, Sent,
         Before, Numbered, Places, Executing
<1>21. CASE UNCHANGED vmVars
  BY <1>21 DEF vmVars, remoteVars, VmInv, VmTypeOK, Scoped, ControlInv, ControlTypeOK, Queued,
         Sent, Before, Numbered, Places, Executing
<1> QED
  BY <1>1, <1>2, <1>3, <1>4, <1>5, <1>6, <1>7, <1>8, <1>9, <1>10, <1>11, <1>12, <1>13, <1>14,
         <1>15, <1>16, <1>17, <1>18, <1>19, <1>20, <1>21 DEF VmNext, WorkerNext, CallerProceeds,
         CallerChooses, Quiet

(***************************************************************************)
(* The strengthened invariant is inductive, given the one proved before.   *)
(***************************************************************************)
LEMMA VmOrderStep ==
  ASSUME VmOrderInv, VmInv', [VmNext]_vmVars
  PROVE  VmOrderInv'
BY NumberedStep, QueueStep, TurnStep, OwnerStep, JoinStep DEF VmOrderInv

(***************************************************************************)
(* Requests of one caller keep their order, and one caller ends the remote, *)
(* for any callers and requests.                                           *)
(***************************************************************************)
THEOREM VmOrdered == VmSpec => []VmOrderInv
<1>1. VmInit => VmOrderInv
  BY VmOrderInit
<1>2. VmOrderInv /\ VmInv' /\ [VmNext]_vmVars => VmOrderInv'
  BY VmOrderStep
<1> QED
  BY <1>1, <1>2, VmCorrect, PTL DEF VmSpec

(***************************************************************************)
(* What the compiler relies on when it accepts the await of a later request *)
(* for the earlier ones (RemoteCall and Await in the machine's loop): the  *)
(* earlier requests of the same caller are decided, and have their values  *)
(* if the later one has.                                                   *)
(***************************************************************************)
THEOREM VmAwaitWitness == VmSpec => []AwaitWitness
<1>1. VmOrderInv => AwaitWitness
  <2> SUFFICES ASSUME VmOrderInv, NEW r \in Requests, NEW q \in Requests,
                      caller[r] = caller[q], id[r] # NoId, published[q] # <<>>,
                      id[q] # NoId => id[r] < id[q]
               PROVE  r \notin pending /\ (published[q][1] = "ok" => published[r] # <<>>)
    BY DEF AwaitWitness
  <2> USE DEF VmOrderInv
  <2>1. CASE published[q][1] = "ok"
    <3>1. published[r] # <<>>
      BY <2>1 DEF InTurn, Valued
    <3> QED
      BY <3>1 DEF VmInv, ControlInv, Conserved
  <2>2. CASE published[q][1] # "ok"
    BY <2>2 DEF InTurn, VmInv, ControlInv, TerminalDrains
  <2> QED
    BY <2>1, <2>2
<1> QED
  BY <1>1, VmOrdered, PTL

(***************************************************************************)
(* RemoteOwner::drop waits only for a worker that executes no method: the  *)
(* join in a destructor cannot hang on user code.                          *)
(***************************************************************************)
THEOREM VmJoinsIdleWorker == VmSpec => []JoinsIdleWorker
<1>1. VmOrderInv => JoinsIdleWorker
  BY DEF VmOrderInv
<1> QED
  BY <1>1, VmOrdered, PTL

(***************************************************************************)
(* The remote object as a whole, mailbox, callers and worker included, keeps *)
(* the promise of RemoteOutcome.                                           *)
(***************************************************************************)
THEOREM VmImplementsPromise == VmSpec => KeepsPromise
<1>1. VmInit => Promise!Init
  BY DEF VmInit, ControlInit, Promise!Init, Decided
<1>2. VmInv /\ VmInv' /\ [VmNext]_vmVars => [Promise!Next]_(Promise!vars)
  BY VmStepControl, StepMaps DEF VmInv
<1> QED
  BY <1>1, <1>2, VmCorrect, PTL DEF VmSpec, KeepsPromise, Promise!Spec
=============================================================================
