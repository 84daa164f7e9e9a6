------------------------- MODULE NativeRemoteProofs -------------------------
(***************************************************************************)
(* The words of a native remote call are accounted for, a failure is       *)
(* published before arguments go, and a release joins no running actor,    *)
(* for any callers and any finite set of requests.                         *)
(***************************************************************************)
EXTENDS NativeRemote, RemoteControlProofs

(***************************************************************************)
(* The inductive invariant.                                                *)
(***************************************************************************)

\* What the worker has in hand, also while it releases a handle on the way.
Stage == IF pc[Worker] \in Releasing THEN after ELSE pc[Worker]
Before == {"check", "reclaim"} \cup Running

InHand ==
  /\ Stage \in {"receive", "exited"} => current[Worker] = NoRequest
  /\ Stage \in Before => current[Worker] \in called /\ arguments[current[Worker]] = 0
  /\ Stage \in {"completing", "failing"} =>
       current[Worker] \in called /\ arguments[current[Worker]] = 1
  /\ reserved[Worker] # {} => pc[Worker] = "receive"
  /\ \A r, q \in reserved[Worker] : r = q

\* A message is with its sender, then in the mailbox, then in hand.
InFlight ==
  /\ \A i \in 1..Len(inbox) : /\ inbox[i] \in called /\ arguments[inbox[i]] = 0
                              /\ inbox[i] # current[Worker]
                              /\ \A j \in 1..Len(inbox) : inbox[i] = inbox[j] => i = j
  /\ \A c \in Callers : pc[c] = "sending" =>
       /\ current[c] \in called /\ arguments[current[c]] = 0 /\ caller[current[c]] = c
       /\ current[c] # current[Worker]
       /\ \A i \in 1..Len(inbox) : inbox[i] # current[c]

\* The result word appears when the method has returned.
Carries(r) == r \in reserved[Worker] \/ (current[Worker] = r /\ Stage = "completing")
Words ==
  \A r \in Requests :
    /\ arguments[r] = 0 => word[r] = "none"
    /\ word[r] = "worker" <=> Carries(r)
    /\ word[r] = "channel" => future[r] # "dropped"
    /\ frees[r] = IF word[r] = "freed" THEN 1 ELSE 0
    /\ arguments[r] \in {0, 1} /\ (r \notin called => arguments[r] = 0)

\* A caller owes callbacks only for its own late call, or for the shutdown.
Owes(c) ==
  /\ reserved[c] = {}
  /\ cancels[c] # {} => \/ pc[c] = "sending" /\ cancels[c] = {current[c]}
                        \/ pc[c] = "closing" /\ terminal = "shutdown"

\* A live actor has every request it has not run in its table.
LiveDecides ==
  /\ terminal = "live" => \A r \in called : arguments[r] = 0 => r \in pending
  /\ terminal = "failed" => pc[Worker] \notin Running
  /\ terminal = "shutdown" => holders \cup carried = {}

\* One thread releases the actor, after the last handle has gone.
LastHandle ==
  \A t \in Threads : pc[t] \in Releasing =>
    /\ holders \cup carried = {}
    /\ \A u \in Threads : pc[u] \in Releasing => u = t
    /\ pc[t] \in {"asking", "stopping"} => terminal # "shutdown"
    /\ pc[t] # "asking" /\ idle[t] /\ t # Worker =>
         pending = {} /\ pc[Worker] \notin Running
    /\ pc[t] = "joining" => idle[t] /\ t # Worker

NativeInv == /\ ControlInv /\ NativeTypeOK /\ InHand /\ InFlight /\ Words
             /\ (\A c \in Callers : Owes(c)) /\ LiveDecides /\ LastHandle
-----------------------------------------------------------------------------
(***************************************************************************)
(* Each step of the actor is a step of the controller or leaves it alone.  *)
(***************************************************************************)
LEMMA NativeStepControl ==
  ASSUME NativeInv, [NativeNext]_nativeVars
  PROVE  [ControlNext]_controlVars
<1> USE CallersAndWorker, NoRequestFresh DEF NativeInv, At, Goto, Leave, controlVars, wordVars
<1>1. ASSUME Receive
      PROVE  [ControlNext]_controlVars
  BY <1>1 DEF Receive
<1>2. ASSUME Exit
      PROVE  [ControlNext]_controlVars
  BY <1>2 DEF Exit
<1>3. ASSUME Check
      PROVE  [ControlNext]_controlVars
  BY <1>3 DEF Check
<1>4. ASSUME Reclaim
      PROVE  [ControlNext]_controlVars
  BY <1>4 DEF Reclaim, GiveUp
<1>5. ASSUME Poll
      PROVE  [ControlNext]_controlVars
  BY <1>5 DEF Poll
<1>6. ASSUME Block
      PROVE  [ControlNext]_controlVars
  BY <1>6 DEF Block
<1>7. ASSUME Cleanup
      PROVE  [ControlNext]_controlVars
  BY <1>7 DEF Cleanup, GiveUp
<1>8. ASSUME MethodFails
      PROVE  [ControlNext]_controlVars
  BY <1>8 DEF MethodFails, ControlNext, Errors
<1>9. ASSUME MethodReturns
      PROVE  [ControlNext]_controlVars
  <2>1. Complete(Worker, current[Worker]) /\ Stage = "completing"
    BY <1>9 DEF MethodReturns, Stage, Releasing
  <2>2. current[Worker] \in Requests
    BY <2>1 DEF InHand, ControlInv, ControlTypeOK
  <2> QED
    BY <2>1, <2>2 DEF ControlNext
<1>10. ASSUME SendReply
      PROVE  [ControlNext]_controlVars
  BY <1>10 DEF SendReply, ControlNext, Errors
<1>11. ASSUME NEW t \in Threads, AskPending(t)
      PROVE  [ControlNext]_controlVars
  BY <1>11 DEF AskPending
<1>12. ASSUME NEW t \in Threads, Shutdown(t)
      PROVE  [ControlNext]_controlVars
  BY <1>12 DEF Shutdown, ControlNext, Errors
<1>13. ASSUME NEW t \in Threads, Close(t)
      PROVE  [ControlNext]_controlVars
  BY <1>13 DEF Close
<1>14. ASSUME NEW t \in Threads, Join(t)
      PROVE  [ControlNext]_controlVars
  BY <1>14 DEF Join
<1>15. ASSUME NEW t \in Threads, SendCancel(t)
      PROVE  [ControlNext]_controlVars
  BY <1>15 DEF SendCancel, ControlNext, Errors
<1>16. ASSUME NEW c \in Callers, Send(c)
      PROVE  [ControlNext]_controlVars
  BY <1>16 DEF Send
<1>17. ASSUME NEW c \in Callers, Unblock(c)
      PROVE  [ControlNext]_controlVars
  BY <1>17 DEF Unblock
<1>18. ASSUME NEW c \in Callers, AwaitTakes(c)
      PROVE  [ControlNext]_controlVars
  BY <1>18 DEF AwaitTakes
<1>19. ASSUME NEW c \in Callers, AwaitCancelled(c)
      PROVE  [ControlNext]_controlVars
  BY <1>19 DEF AwaitCancelled, DropReceiver, Free
<1>20. ASSUME NEW c \in Callers, DropHandle(c)
      PROVE  [ControlNext]_controlVars
  BY <1>20 DEF DropHandle, GiveUp
<1>21. ASSUME NEW c \in Callers, CancelCaller(c)
      PROVE  [ControlNext]_controlVars
  BY <1>21 DEF CancelCaller, actorVars
<1>22. ASSUME NEW c \in Callers, NEW r \in Requests, NEW handle \in BOOLEAN,
             Call(c, r, handle)
      PROVE  [ControlNext]_controlVars
  BY <1>22 DEF Call, ControlNext, Errors
<1>23. ASSUME NEW c \in Callers, NEW r \in Requests, Await(c, r)
      PROVE  [ControlNext]_controlVars
  BY <1>23 DEF Await
<1>24. ASSUME NEW c \in Callers, NEW r \in Requests, FreeFuture(c, r)
      PROVE  [ControlNext]_controlVars
  BY <1>24 DEF FreeFuture, DropReceiver, Free, actorVars
<1>25. ASSUME NEW c \in Callers, NEW d \in Callers, CloneHandle(c, d)
      PROVE  [ControlNext]_controlVars
  BY <1>25 DEF CloneHandle
<1>26. CASE UNCHANGED nativeVars
  BY <1>26 DEF nativeVars, actorVars
<1> QED
  BY <1>1, <1>2, <1>3, <1>4, <1>5, <1>6, <1>7, <1>8, <1>9, <1>10, <1>11, <1>12, <1>13, <1>14,
         <1>15, <1>16, <1>17, <1>18, <1>19, <1>20, <1>21, <1>22, <1>23, <1>24, <1>25, <1>26 DEF
         NativeNext, WorkerNext, Releases, CallerProceeds, CallerChooses, Quiet

(***************************************************************************)
(* What the worker has in hand is a request that was made, or none.        *)
(***************************************************************************)
LEMMA WorkerHas ==
  ASSUME NativeInv
  PROVE  /\ current[Worker] \in called \cup {NoRequest} /\ called \subseteq Requests
         /\ Stage \in Before \cup {"completing", "failing"} => current[Worker] \in called
         /\ Stage \in Before \cup {"receive", "completing", "failing", "exited"}
BY DEF NativeInv, InHand, Stage, Before, NativeTypeOK, WorkerPc, Releasing, ControlInv,
       ControlTypeOK

(***************************************************************************)
(* A result word that is released.                                         *)
(***************************************************************************)
LEMMA FreeIs ==
  ASSUME NativeInv, NEW r, Free(r)
  PROVE  /\ word' \in [Requests -> {"none", "worker", "channel", "awaiter", "freed"}]
         /\ frees' \in [Requests -> Nat]
<1>1. word' = [word EXCEPT ![r] = "freed"] /\ frees' = [frees EXCEPT ![r] = frees[r] + 1]
  BY DEF Free
<1>2. word \in [Requests -> {"none", "worker", "channel", "awaiter", "freed"}]
      /\ frees \in [Requests -> Nat]
  BY DEF NativeInv, NativeTypeOK
<1>3. r \in Requests => frees[r] + 1 \in Nat
  BY <1>2
<1> QED
  BY <1>1, <1>2, <1>3

(***************************************************************************)
(* Every step keeps the shape of the state.                                *)
(***************************************************************************)
LEMMA TypeStep ==
  ASSUME NativeInv, ControlInv', [NativeNext]_nativeVars
  PROVE  NativeTypeOK'
<1> USE CallersAndWorker, NoRequestFresh DEF NativeInv, At, Goto, Leave, controlVars, wordVars
<1>t. ControlTypeOK'
  BY DEF ControlInv
<1>1. ASSUME Receive
      PROVE  NativeTypeOK'
  BY <1>1, SMTT(30) DEF Receive, NativeTypeOK, LastHandle, ControlInv, ControlTypeOK, CallerPc, WorkerPc,
         Running, Releasing, Outcomes
<1>2. ASSUME Exit
      PROVE  NativeTypeOK'
  BY <1>2 DEF Exit, NativeTypeOK, LastHandle, ControlInv, ControlTypeOK, CallerPc, WorkerPc,
         Running, Releasing, Outcomes
<1>3. ASSUME Check
      PROVE  NativeTypeOK'
  BY <1>3 DEF Check, NativeTypeOK, LastHandle, ControlInv, ControlTypeOK, CallerPc, WorkerPc,
         Running, Releasing, Outcomes
<1>4. ASSUME Reclaim
      PROVE  NativeTypeOK'
  <2>1. current[Worker] \in Requests
    BY <1>4, WorkerHas DEF Reclaim, Stage, Before, Releasing
  <2>2. arguments' = [arguments EXCEPT ![current[Worker]] = arguments[current[Worker]] + 1]
    BY <1>4 DEF Reclaim
  <2>3. PICK p \in {"asking", "receive"} : pc' = [pc EXCEPT ![Worker] = p]
    BY <1>4 DEF Reclaim, GiveUp
  <2>4. holders' \subseteq holders /\ carried' \subseteq carried
    BY <1>4 DEF Reclaim, GiveUp
  <2>5. arguments' \in [Requests -> Nat]
    BY <2>1, <2>2 DEF NativeTypeOK
  <2>6. UNCHANGED <<called, closed, idle, inbox, caller, future, word, frees, cancelled>>
    BY <1>4 DEF Reclaim
  <2>7. after' = "receive" /\ current' = [current EXCEPT ![Worker] = NoRequest]
    BY <1>4 DEF Reclaim
  <2>8. \A c \in Callers : pc'[c] = pc[c] /\ current'[c] = current[c]
    BY <2>3, <2>7 DEF NativeTypeOK
  <2>9. \A c \in Callers : pc[c] \in {"sending", "blocking"} => c \in holders'
    BY <1>4 DEF Reclaim, GiveUp, NativeTypeOK
  <2> QED
    BY <1>t, <2>3, <2>4, <2>5, <2>6, <2>7, <2>8, <2>9 DEF NativeTypeOK, WorkerPc, CallerPc, Releasing
<1>5. ASSUME Poll
      PROVE  NativeTypeOK'
  BY <1>5 DEF Poll, NativeTypeOK, LastHandle, ControlInv, ControlTypeOK, CallerPc, WorkerPc,
         Running, Releasing, Outcomes
<1>6. ASSUME Block
      PROVE  NativeTypeOK'
  BY <1>6 DEF Block, NativeTypeOK, LastHandle, ControlInv, ControlTypeOK, CallerPc, WorkerPc,
         Running, Releasing, Outcomes
<1>7. ASSUME Cleanup
      PROVE  NativeTypeOK'
  <2>0. PICK done \in {<<"returning", "completing">>, <<"unwinding", "failing">>} :
          /\ pc[Worker] = done[1]
          /\ arguments' = [arguments EXCEPT ![current[Worker]] = arguments[current[Worker]] + 1]
          /\ word' = IF done[2] = "completing"
                       THEN [word EXCEPT ![current[Worker]] = "worker"] ELSE word
          /\ after' = done[2]
          /\ IF current[Worker] \in carried
               THEN GiveUp(Worker, {}, {current[Worker]}, done[2])
               ELSE Goto(Worker, done[2]) /\ UNCHANGED <<holders, carried>>
    BY <1>7 DEF Cleanup
  <2>1. current[Worker] \in Requests
    BY <2>0, WorkerHas DEF Stage, Before, Running, Releasing
  <2>3. PICK p \in {"asking", "completing", "failing"} : pc' = [pc EXCEPT ![Worker] = p]
    BY <2>0 DEF GiveUp
  <2>4. holders' \subseteq holders /\ carried' \subseteq carried
    BY <2>0 DEF GiveUp
  <2>5. arguments' \in [Requests -> Nat]
    BY <2>0, <2>1 DEF NativeTypeOK
  <2>6. UNCHANGED <<called, closed, idle, inbox, current, caller, future, frees, cancelled>>
    BY <1>7 DEF Cleanup
  <2>7. after' \in {"completing", "failing"}
    BY <2>0
  <2>8. \A c \in Callers : pc'[c] = pc[c]
    BY <2>3 DEF NativeTypeOK
  <2>9. \A c \in Callers : pc[c] \in {"sending", "blocking"} => c \in holders'
    BY <2>0 DEF GiveUp, NativeTypeOK
  <2>10. word' \in [Requests -> {"none", "worker", "channel", "awaiter", "freed"}]
    BY <2>0, <2>1 DEF NativeTypeOK
  <2> QED
    BY <1>t, <2>3, <2>4, <2>5, <2>6, <2>7, <2>8, <2>9, <2>10
       DEF NativeTypeOK, WorkerPc, CallerPc, Releasing
<1>8. ASSUME MethodFails
      PROVE  NativeTypeOK'
  BY <1>8 DEF MethodFails, Terminate, NativeTypeOK, LastHandle, ControlInv, ControlTypeOK,
         CallerPc, WorkerPc, Running, Releasing, Outcomes
<1>9. ASSUME MethodReturns
      PROVE  NativeTypeOK'
  <2>1. current[Worker] \in Requests
    BY <1>9, WorkerHas DEF MethodReturns, Stage, Before, Releasing
  <2>2. /\ word' \in [Requests -> {"none", "worker", "channel", "awaiter", "freed"}]
        /\ frees' \in [Requests -> Nat]
    BY <1>9, FreeIs DEF MethodReturns, NativeTypeOK
  <2>3. /\ current' = [current EXCEPT ![Worker] = NoRequest]
        /\ pc' = [pc EXCEPT ![Worker] = "receive"]
        /\ UNCHANGED <<called, after, holders, carried, closed, idle, inbox, caller, future,
                       arguments, cancelled>>
    BY <1>9 DEF MethodReturns, Complete
  <2> QED
    BY <1>t, <2>2, <2>3 DEF NativeTypeOK, WorkerPc, CallerPc
<1>10. ASSUME SendReply
      PROVE  NativeTypeOK'
  <2>1. PICK r \in reserved[Worker] :
          IF future[r] = "dropped" THEN Free(r)
          ELSE word' = [word EXCEPT ![r] = "channel"] /\ UNCHANGED frees
    BY <1>10 DEF SendReply
  <2>2. r \in Requests
    BY <2>1 DEF ControlInv, ControlTypeOK
  <2>3. /\ word' \in [Requests -> {"none", "worker", "channel", "awaiter", "freed"}]
        /\ frees' \in [Requests -> Nat]
    BY <2>1, <2>2, FreeIs DEF NativeTypeOK
  <2>4. UNCHANGED <<called, actorVars, future, arguments, cancelled>>
    BY <1>10 DEF SendReply, Publish
  <2> QED
    BY <1>t, <2>3, <2>4 DEF NativeTypeOK, actorVars
<1>11. ASSUME NEW t \in Threads, AskPending(t)
      PROVE  NativeTypeOK'
  BY <1>11 DEF AskPending, NativeTypeOK, LastHandle, ControlInv, ControlTypeOK, CallerPc,
         WorkerPc, Running, Releasing, Outcomes
<1>12. ASSUME NEW t \in Threads, Shutdown(t)
      PROVE  NativeTypeOK'
  BY <1>12 DEF Shutdown, Terminate, NativeTypeOK, LastHandle, ControlInv, ControlTypeOK,
         CallerPc, WorkerPc, Running, Releasing, Outcomes
<1>13. ASSUME NEW t \in Threads, Close(t)
      PROVE  NativeTypeOK'
  BY <1>13 DEF Close, NativeTypeOK, LastHandle, ControlInv, ControlTypeOK, CallerPc, WorkerPc,
         Running, Releasing, Outcomes
<1>14. ASSUME NEW t \in Threads, Join(t)
      PROVE  NativeTypeOK'
  BY <1>14 DEF Join, NativeTypeOK, LastHandle, ControlInv, ControlTypeOK, CallerPc, WorkerPc,
         Running, Releasing, Outcomes
<1>15. ASSUME NEW t \in Threads, SendCancel(t)
      PROVE  NativeTypeOK'
  BY <1>15 DEF SendCancel, RunCancel, actorVars, NativeTypeOK, LastHandle, ControlInv,
         ControlTypeOK, CallerPc, WorkerPc, Running, Releasing, Outcomes
<1>16. ASSUME NEW c \in Callers, Send(c)
      PROVE  NativeTypeOK'
  <2>1. current[c] \in Requests /\ pc[c] = "sending"
    BY <1>16 DEF Send, NativeTypeOK
  <2>2. inbox' \in Seq(Requests)
    BY <1>16, <2>1 DEF Send, NativeTypeOK
  <2>3. UNCHANGED <<called, after, holders, carried, closed, idle, caller, word, frees,
                   arguments, cancelled>>
    BY <1>16 DEF Send
  <2>4. CASE pc' = [pc EXCEPT ![c] = "blocking"] /\ UNCHANGED <<current, future>>
    BY <1>t, <2>1, <2>2, <2>3, <2>4 DEF NativeTypeOK, CallerPc
  <2>5. CASE /\ current' = [current EXCEPT ![c] = NoRequest] /\ pc' = [pc EXCEPT ![c] = "ready"]
             /\ future' = [future EXCEPT ![current[c]] = "open"]
    BY <1>t, <2>1, <2>2, <2>3, <2>5 DEF NativeTypeOK, CallerPc
  <2> QED
    BY <1>16, <2>4, <2>5 DEF Send
<1>17. ASSUME NEW c \in Callers, Unblock(c)
      PROVE  NativeTypeOK'
  BY <1>17 DEF Unblock, NativeTypeOK, LastHandle, ControlInv, ControlTypeOK, CallerPc, WorkerPc,
         Running, Releasing, Outcomes
<1>18. ASSUME NEW c \in Callers, AwaitTakes(c)
      PROVE  NativeTypeOK'
  BY <1>18 DEF AwaitTakes, NativeTypeOK, LastHandle, ControlInv, ControlTypeOK, CallerPc,
         WorkerPc, Running, Releasing, Outcomes
<1>19. ASSUME NEW c \in Callers, AwaitCancelled(c)
      PROVE  NativeTypeOK'
  <2>1. /\ future' \in [Requests -> {"none", "open", "taken", "dropped"}]
        /\ word' \in [Requests -> {"none", "worker", "channel", "awaiter", "freed"}]
        /\ frees' \in [Requests -> Nat]
    BY <1>19, FreeIs DEF AwaitCancelled, DropReceiver, NativeTypeOK
  <2>2. /\ current' = [current EXCEPT ![c] = NoRequest] /\ pc' = [pc EXCEPT ![c] = "ready"]
        /\ UNCHANGED <<called, after, holders, carried, closed, idle, inbox, caller, arguments,
                       cancelled>>
    BY <1>19 DEF AwaitCancelled
  <2> QED
    BY <1>t, <2>1, <2>2 DEF NativeTypeOK, CallerPc
<1>20. ASSUME NEW c \in Callers, DropHandle(c)
      PROVE  NativeTypeOK'
  <2>1. PICK p \in {"asking", "ready"} : pc' = [pc EXCEPT ![c] = p]
    BY <1>20 DEF DropHandle, GiveUp
  <2>2. holders' = holders \ {c} /\ carried' = carried /\ pc[c] = "ready"
    BY <1>20 DEF DropHandle, GiveUp
  <2>3. UNCHANGED <<called, after, closed, idle, inbox, current, caller, wordVars, cancelled>>
    BY <1>20 DEF DropHandle
  <2> QED
    BY <1>t, <2>1, <2>2, <2>3 DEF NativeTypeOK, CallerPc, Releasing
<1>21. ASSUME NEW c \in Callers, CancelCaller(c)
      PROVE  NativeTypeOK'
  BY <1>21 DEF CancelCaller, actorVars, NativeTypeOK, LastHandle, ControlInv, ControlTypeOK,
         CallerPc, WorkerPc, Running, Releasing, Outcomes
<1>22. ASSUME NEW c \in Callers, NEW r \in Requests, NEW handle \in BOOLEAN,
             Call(c, r, handle)
      PROVE  NativeTypeOK'
  BY <1>22 DEF Call, Register, NativeTypeOK, LastHandle, ControlInv, ControlTypeOK, CallerPc,
         WorkerPc, Running, Releasing, Outcomes
<1>23. ASSUME NEW c \in Callers, NEW r \in Requests, Await(c, r)
      PROVE  NativeTypeOK'
  BY <1>23 DEF Await, NativeTypeOK, LastHandle, ControlInv, ControlTypeOK, CallerPc, WorkerPc,
         Running, Releasing, Outcomes
<1>24. ASSUME NEW c \in Callers, NEW r \in Requests, FreeFuture(c, r)
      PROVE  NativeTypeOK'
  <2>1. /\ future' \in [Requests -> {"none", "open", "taken", "dropped"}]
        /\ word' \in [Requests -> {"none", "worker", "channel", "awaiter", "freed"}]
        /\ frees' \in [Requests -> Nat]
    BY <1>24, FreeIs DEF FreeFuture, DropReceiver, NativeTypeOK
  <2>2. UNCHANGED <<called, actorVars, arguments, cancelled>>
    BY <1>24 DEF FreeFuture
  <2> QED
    BY <1>t, <2>1, <2>2 DEF NativeTypeOK, actorVars
<1>25. ASSUME NEW c \in Callers, NEW d \in Callers, CloneHandle(c, d)
      PROVE  NativeTypeOK'
  BY <1>25 DEF CloneHandle, NativeTypeOK, LastHandle, ControlInv, ControlTypeOK, CallerPc,
         WorkerPc, Running, Releasing, Outcomes
<1>26. CASE UNCHANGED nativeVars
  BY <1>26 DEF nativeVars, actorVars, NativeTypeOK, LastHandle, ControlInv, ControlTypeOK,
         CallerPc, WorkerPc, Running, Releasing, Outcomes
<1> QED
  BY <1>1, <1>2, <1>3, <1>4, <1>5, <1>6, <1>7, <1>8, <1>9, <1>10, <1>11, <1>12, <1>13, <1>14,
         <1>15, <1>16, <1>17, <1>18, <1>19, <1>20, <1>21, <1>22, <1>23, <1>24, <1>25, <1>26 DEF
         NativeNext, WorkerNext, Releases, CallerProceeds, CallerChooses, Quiet

(***************************************************************************)
(* The worker's loop: one request at a time, also while it releases a      *)
(* handle that came with it.                                               *)
(***************************************************************************)
LEMMA InHandStep ==
  ASSUME NativeInv, ControlInv', [NativeNext]_nativeVars
  PROVE  InHand'
<1> USE CallersAndWorker, NoRequestFresh DEF NativeInv, At, Goto, Leave, controlVars, wordVars
<1>1. ASSUME Receive
      PROVE  InHand'
  BY <1>1 DEF Receive, InHand, NativeTypeOK, LastHandle, ControlInv, ControlTypeOK, Stage,
         Before, WorkerPc, CallerPc, Running, Releasing, InFlight, Busy
<1>2. ASSUME Exit
      PROVE  InHand'
  BY <1>2 DEF Exit, InHand, NativeTypeOK, LastHandle, ControlInv, ControlTypeOK, Stage, Before,
         WorkerPc, CallerPc, Running, Releasing, InFlight, Busy
<1>3. ASSUME Check
      PROVE  InHand'
  BY <1>3 DEF Check, InHand, NativeTypeOK, LastHandle, ControlInv, ControlTypeOK, Stage, Before,
         WorkerPc, CallerPc, Running, Releasing, InFlight, Busy
<1>4. ASSUME Reclaim
      PROVE  InHand'
  BY <1>4 DEF Reclaim, GiveUp, InHand, NativeTypeOK, LastHandle, ControlInv, ControlTypeOK,
         Stage, Before, WorkerPc, CallerPc, Running, Releasing, InFlight, Busy
<1>5. ASSUME Poll
      PROVE  InHand'
  BY <1>5 DEF Poll, InHand, NativeTypeOK, LastHandle, ControlInv, ControlTypeOK, Stage, Before,
         WorkerPc, CallerPc, Running, Releasing, InFlight, Busy
<1>6. ASSUME Block
      PROVE  InHand'
  BY <1>6 DEF Block, InHand, NativeTypeOK, LastHandle, ControlInv, ControlTypeOK, Stage, Before,
         WorkerPc, CallerPc, Running, Releasing, InFlight, Busy
<1>7. ASSUME Cleanup
      PROVE  InHand'
  BY <1>7 DEF Cleanup, GiveUp, InHand, NativeTypeOK, LastHandle, ControlInv, ControlTypeOK,
         Stage, Before, WorkerPc, CallerPc, Running, Releasing, InFlight, Busy
<1>8. ASSUME MethodFails
      PROVE  InHand'
  BY <1>8 DEF MethodFails, Terminate, InHand, NativeTypeOK, LastHandle, ControlInv,
         ControlTypeOK, Stage, Before, WorkerPc, CallerPc, Running, Releasing, InFlight, Busy
<1>9. ASSUME MethodReturns
      PROVE  InHand'
  BY <1>9 DEF MethodReturns, Complete, Free, InHand, NativeTypeOK, LastHandle, ControlInv,
         ControlTypeOK, Stage, Before, WorkerPc, CallerPc, Running, Releasing, InFlight, Busy
<1>10. ASSUME SendReply
      PROVE  InHand'
  BY <1>10 DEF SendReply, Publish, Free, actorVars, InHand, NativeTypeOK, LastHandle,
         ControlInv, ControlTypeOK, Stage, Before, WorkerPc, CallerPc, Running, Releasing,
         InFlight, Busy
<1>11. ASSUME NEW t \in Threads, AskPending(t)
      PROVE  InHand'
  BY <1>11 DEF AskPending, InHand, NativeTypeOK, LastHandle, ControlInv, ControlTypeOK, Stage,
         Before, WorkerPc, CallerPc, Running, Releasing, InFlight, Busy
<1>12. ASSUME NEW t \in Threads, Shutdown(t)
      PROVE  InHand'
  BY <1>12 DEF Shutdown, Terminate, InHand, NativeTypeOK, LastHandle, ControlInv, ControlTypeOK,
         Stage, Before, WorkerPc, CallerPc, Running, Releasing, InFlight, Busy
<1>13. ASSUME NEW t \in Threads, Close(t)
      PROVE  InHand'
  BY <1>13 DEF Close, InHand, NativeTypeOK, LastHandle, ControlInv, ControlTypeOK, Stage,
         Before, WorkerPc, CallerPc, Running, Releasing, InFlight, Busy
<1>14. ASSUME NEW t \in Threads, Join(t)
      PROVE  InHand'
  BY <1>14 DEF Join, InHand, NativeTypeOK, LastHandle, ControlInv, ControlTypeOK, Stage, Before,
         WorkerPc, CallerPc, Running, Releasing, InFlight, Busy
<1>15. ASSUME NEW t \in Threads, SendCancel(t)
      PROVE  InHand'
  BY <1>15 DEF SendCancel, RunCancel, actorVars, InHand, NativeTypeOK, LastHandle, ControlInv,
         ControlTypeOK, Stage, Before, WorkerPc, CallerPc, Running, Releasing, InFlight, Busy
<1>16. ASSUME NEW c \in Callers, Send(c)
      PROVE  InHand'
  BY <1>16 DEF Send, InHand, NativeTypeOK, LastHandle, ControlInv, ControlTypeOK, Stage, Before,
         WorkerPc, CallerPc, Running, Releasing, InFlight, Busy
<1>17. ASSUME NEW c \in Callers, Unblock(c)
      PROVE  InHand'
  BY <1>17 DEF Unblock, InHand, NativeTypeOK, LastHandle, ControlInv, ControlTypeOK, Stage,
         Before, WorkerPc, CallerPc, Running, Releasing, InFlight, Busy
<1>18. ASSUME NEW c \in Callers, AwaitTakes(c)
      PROVE  InHand'
  BY <1>18 DEF AwaitTakes, InHand, NativeTypeOK, LastHandle, ControlInv, ControlTypeOK, Stage,
         Before, WorkerPc, CallerPc, Running, Releasing, InFlight, Busy
<1>19. ASSUME NEW c \in Callers, AwaitCancelled(c)
      PROVE  InHand'
  BY <1>19 DEF AwaitCancelled, DropReceiver, Free, InHand, NativeTypeOK, LastHandle, ControlInv,
         ControlTypeOK, Stage, Before, WorkerPc, CallerPc, Running, Releasing, InFlight, Busy
<1>20. ASSUME NEW c \in Callers, DropHandle(c)
      PROVE  InHand'
  BY <1>20 DEF DropHandle, GiveUp, InHand, NativeTypeOK, LastHandle, ControlInv, ControlTypeOK,
         Stage, Before, WorkerPc, CallerPc, Running, Releasing, InFlight, Busy
<1>21. ASSUME NEW c \in Callers, CancelCaller(c)
      PROVE  InHand'
  BY <1>21 DEF CancelCaller, actorVars, InHand, NativeTypeOK, LastHandle, ControlInv,
         ControlTypeOK, Stage, Before, WorkerPc, CallerPc, Running, Releasing, InFlight, Busy
<1>22. ASSUME NEW c \in Callers, NEW r \in Requests, NEW handle \in BOOLEAN,
             Call(c, r, handle)
      PROVE  InHand'
  BY <1>22 DEF Call, Register, InHand, NativeTypeOK, LastHandle, ControlInv, ControlTypeOK,
         Stage, Before, WorkerPc, CallerPc, Running, Releasing, InFlight, Busy
<1>23. ASSUME NEW c \in Callers, NEW r \in Requests, Await(c, r)
      PROVE  InHand'
  BY <1>23 DEF Await, InHand, NativeTypeOK, LastHandle, ControlInv, ControlTypeOK, Stage,
         Before, WorkerPc, CallerPc, Running, Releasing, InFlight, Busy
<1>24. ASSUME NEW c \in Callers, NEW r \in Requests, FreeFuture(c, r)
      PROVE  InHand'
  BY <1>24 DEF FreeFuture, DropReceiver, Free, actorVars, InHand, NativeTypeOK, LastHandle,
         ControlInv, ControlTypeOK, Stage, Before, WorkerPc, CallerPc, Running, Releasing,
         InFlight, Busy
<1>25. ASSUME NEW c \in Callers, NEW d \in Callers, CloneHandle(c, d)
      PROVE  InHand'
  BY <1>25 DEF CloneHandle, InHand, NativeTypeOK, LastHandle, ControlInv, ControlTypeOK, Stage,
         Before, WorkerPc, CallerPc, Running, Releasing, InFlight, Busy
<1>26. CASE UNCHANGED nativeVars
  BY <1>26 DEF nativeVars, actorVars, InHand, NativeTypeOK, LastHandle, ControlInv,
         ControlTypeOK, Stage, Before, WorkerPc, CallerPc, Running, Releasing, InFlight, Busy
<1> QED
  BY <1>1, <1>2, <1>3, <1>4, <1>5, <1>6, <1>7, <1>8, <1>9, <1>10, <1>11, <1>12, <1>13, <1>14,
         <1>15, <1>16, <1>17, <1>18, <1>19, <1>20, <1>21, <1>22, <1>23, <1>24, <1>25, <1>26 DEF
         NativeNext, WorkerNext, Releases, CallerProceeds, CallerChooses, Quiet

(***************************************************************************)
(* No message is sent, or taken out of the mailbox, twice.                 *)
(***************************************************************************)
LEMMA InFlightStep ==
  ASSUME NativeInv, ControlInv', [NativeNext]_nativeVars
  PROVE  InFlight'
<1> USE CallersAndWorker, NoRequestFresh DEF NativeInv, At, Goto, Leave, controlVars, wordVars
<1>w. /\ current[Worker] \in called \cup {NoRequest} /\ called \subseteq Requests
      /\ NoRequest \notin called
  BY WorkerHas
<1>f. ASSUME inbox' = inbox, called \subseteq called', current'[Worker] \in {current[Worker], NoRequest},
             \A i \in 1..Len(inbox) : arguments'[inbox[i]] = arguments[inbox[i]],
             \A c \in Callers : pc'[c] = "sending" =>
               /\ pc[c] = "sending" /\ current'[c] = current[c]
               /\ arguments'[current[c]] = arguments[current[c]]
               /\ caller'[current[c]] = caller[current[c]]
      PROVE  InFlight'
  BY <1>f, <1>w DEF InFlight
<1>1. ASSUME Receive
      PROVE  InFlight'
  <2>1. /\ current' = [current EXCEPT ![Worker] = Head(inbox)] /\ inbox' = Tail(inbox)
        /\ pc' = [pc EXCEPT ![Worker] = "check"] /\ inbox # <<>>
        /\ UNCHANGED <<called, arguments, caller>>
    BY <1>1 DEF Receive
  <2>2. /\ Len(inbox) \in Nat /\ Len(inbox) > 0 /\ Head(inbox) = inbox[1]
        /\ Len(inbox') = Len(inbox) - 1
        /\ \A i \in 1..Len(inbox') : i + 1 \in 1..Len(inbox) /\ inbox'[i] = inbox[i + 1]
    BY <2>1 DEF NativeTypeOK
  <2>3. current'[Worker] = inbox[1] /\ 1 \in 1..Len(inbox)
    BY <2>1, <2>2 DEF NativeTypeOK
  <2>4. \A c \in Callers : pc'[c] = pc[c] /\ current'[c] = current[c]
    BY <2>1 DEF NativeTypeOK
  <2>5. ASSUME NEW i \in 1..Len(inbox')
        PROVE  /\ inbox'[i] \in called' /\ arguments'[inbox'[i]] = 0
               /\ inbox'[i] # current'[Worker]
               /\ \A j \in 1..Len(inbox') : inbox'[i] = inbox'[j] => i = j
    <3>1. i + 1 \in 1..Len(inbox) /\ inbox'[i] = inbox[i + 1] /\ i + 1 # 1
      BY <2>2
    <3>2. inbox[i + 1] # inbox[1]
      BY <2>3, <3>1 DEF InFlight
    <3>3. ASSUME NEW j \in 1..Len(inbox'), inbox'[i] = inbox'[j]
          PROVE  i = j
      <4>1. j + 1 \in 1..Len(inbox) /\ inbox[i + 1] = inbox[j + 1]
        BY <2>2, <3>1, <3>3
      <4>2. i + 1 = j + 1
        BY <3>1, <4>1 DEF InFlight
      <4> QED
        BY <4>2, <2>2
    <3> QED
      BY <2>1, <2>3, <3>1, <3>2, <3>3 DEF InFlight
  <2>6. ASSUME NEW c \in Callers, pc'[c] = "sending"
        PROVE  /\ current'[c] \in called' /\ arguments'[current'[c]] = 0 /\ caller'[current'[c]] = c
               /\ current'[c] # current'[Worker]
               /\ \A i \in 1..Len(inbox') : inbox'[i] # current'[c]
    BY <2>1, <2>2, <2>3, <2>4, <2>6 DEF InFlight
  <2> QED
    BY <2>5, <2>6 DEF InFlight
<1>2. ASSUME Exit
      PROVE  InFlight'
  BY <1>2 DEF Exit, InFlight, InHand, NativeTypeOK, ControlInv, ControlTypeOK, Stage, Before,
         WorkerPc, CallerPc, Running, Releasing, Busy
<1>3. ASSUME Check
      PROVE  InFlight'
  BY <1>3, <1>f, <1>w DEF Check, InFlight, NativeTypeOK
<1>4. ASSUME Reclaim
      PROVE  InFlight'
  <2>1. PICK p \in {"asking", "receive"} : pc' = [pc EXCEPT ![Worker] = p]
    BY <1>4 DEF Reclaim, GiveUp
  <2>2. /\ arguments' = [arguments EXCEPT ![current[Worker]] = arguments[current[Worker]] + 1]
        /\ UNCHANGED <<called, inbox, caller>> /\ current' = [current EXCEPT ![Worker] = NoRequest]
    BY <1>4 DEF Reclaim
  <2>3. \A c \in Callers : pc'[c] = pc[c] /\ current'[c] = current[c]
    BY <2>1, <2>2 DEF NativeTypeOK
  <2>4. \A r \in Requests : r # current[Worker] => arguments'[r] = arguments[r]
    BY <2>2 DEF NativeTypeOK
  <2>5. current'[Worker] = NoRequest
    BY <2>2 DEF NativeTypeOK
  <2> QED
    BY <1>f, <1>w, <2>2, <2>3, <2>4, <2>5 DEF InFlight
<1>5. ASSUME Poll
      PROVE  InFlight'
  BY <1>5 DEF Poll, InFlight, InHand, NativeTypeOK, ControlInv, ControlTypeOK, Stage, Before,
         WorkerPc, CallerPc, Running, Releasing, Busy
<1>6. ASSUME Block
      PROVE  InFlight'
  BY <1>6 DEF Block, InFlight, InHand, NativeTypeOK, ControlInv, ControlTypeOK, Stage, Before,
         WorkerPc, CallerPc, Running, Releasing, Busy
<1>7. ASSUME Cleanup
      PROVE  InFlight'
  <2>1. PICK p : pc' = [pc EXCEPT ![Worker] = p]
    BY <1>7 DEF Cleanup, GiveUp
  <2>2. /\ arguments' = [arguments EXCEPT ![current[Worker]] = arguments[current[Worker]] + 1]
        /\ UNCHANGED <<called, inbox, caller, current>>
    BY <1>7 DEF Cleanup
  <2>3. \A c \in Callers : pc'[c] = pc[c]
    BY <2>1, <1>w DEF NativeTypeOK
  <2>4. \A r \in Requests : r # current[Worker] => arguments'[r] = arguments[r]
    BY <2>2 DEF NativeTypeOK
  <2> QED
    BY <1>f, <1>w, <2>2, <2>3, <2>4 DEF InFlight
<1>8. ASSUME MethodFails
      PROVE  InFlight'
  BY <1>8, SMTT(30) DEF MethodFails, Terminate, InFlight, InHand, NativeTypeOK, ControlInv, ControlTypeOK,
         Stage, Before, WorkerPc, CallerPc, Running, Releasing, Busy
<1>9. ASSUME MethodReturns
      PROVE  InFlight'
  BY <1>9, SMTT(30) DEF MethodReturns, Complete, Free, InFlight, InHand, NativeTypeOK, ControlInv,
         ControlTypeOK, Stage, Before, WorkerPc, CallerPc, Running, Releasing, Busy
<1>10. ASSUME SendReply
      PROVE  InFlight'
  BY <1>10 DEF SendReply, Publish, Free, actorVars, InFlight, InHand, NativeTypeOK, ControlInv,
         ControlTypeOK, Stage, Before, WorkerPc, CallerPc, Running, Releasing, Busy
<1>11. ASSUME NEW t \in Threads, AskPending(t)
      PROVE  InFlight'
  BY <1>11 DEF AskPending, InFlight, InHand, NativeTypeOK, ControlInv, ControlTypeOK, Stage,
         Before, WorkerPc, CallerPc, Running, Releasing, Busy
<1>12. ASSUME NEW t \in Threads, Shutdown(t)
      PROVE  InFlight'
  BY <1>12 DEF Shutdown, Terminate, InFlight, InHand, NativeTypeOK, ControlInv, ControlTypeOK,
         Stage, Before, WorkerPc, CallerPc, Running, Releasing, Busy
<1>13. ASSUME NEW t \in Threads, Close(t)
      PROVE  InFlight'
  BY <1>13 DEF Close, InFlight, InHand, NativeTypeOK, ControlInv, ControlTypeOK, Stage, Before,
         WorkerPc, CallerPc, Running, Releasing, Busy
<1>14. ASSUME NEW t \in Threads, Join(t)
      PROVE  InFlight'
  BY <1>14 DEF Join, InFlight, InHand, NativeTypeOK, ControlInv, ControlTypeOK, Stage, Before,
         WorkerPc, CallerPc, Running, Releasing, Busy
<1>15. ASSUME NEW t \in Threads, SendCancel(t)
      PROVE  InFlight'
  BY <1>15 DEF SendCancel, RunCancel, actorVars, InFlight, InHand, NativeTypeOK, ControlInv,
         ControlTypeOK, Stage, Before, WorkerPc, CallerPc, Running, Releasing, Busy
<1>16. ASSUME NEW c \in Callers, Send(c)
      PROVE  InFlight'
  <2>1. /\ pc[c] = "sending" /\ inbox' = Append(inbox, current[c]) /\ current[c] \in Requests
        /\ UNCHANGED <<called, arguments, caller>>
    BY <1>16 DEF Send, NativeTypeOK
  <2>2. /\ pc'[c] # "sending" /\ current'[Worker] = current[Worker]
        /\ \A d \in Callers : d # c => pc'[d] = pc[d] /\ current'[d] = current[d]
    BY <1>16 DEF Send, NativeTypeOK
  <2>3. /\ Len(inbox) \in Nat /\ Len(inbox') = Len(inbox) + 1
        /\ inbox'[Len(inbox) + 1] = current[c]
        /\ \A i \in 1..Len(inbox) : inbox'[i] = inbox[i]
    BY <2>1 DEF NativeTypeOK
  <2>4. \A i \in 1..Len(inbox') : i = Len(inbox) + 1 \/ i \in 1..Len(inbox)
    BY <2>3
  <2>5. \A i \in 1..Len(inbox') : /\ inbox'[i] \in called' /\ arguments'[inbox'[i]] = 0
                                  /\ inbox'[i] # current'[Worker]
    BY <2>1, <2>2, <2>3, <2>4 DEF InFlight
  <2>6. \A i, j \in 1..Len(inbox') : inbox'[i] = inbox'[j] => i = j
    BY <2>1, <2>3, <2>4 DEF InFlight
  <2>7. ASSUME NEW d \in Callers, pc'[d] = "sending"
        PROVE  /\ current'[d] \in called' /\ arguments'[current'[d]] = 0 /\ caller'[current'[d]] = d
               /\ current'[d] # current'[Worker]
               /\ \A i \in 1..Len(inbox') : inbox'[i] # current'[d]
    <3>1. d # c /\ pc[d] = "sending" /\ current'[d] = current[d]
      BY <2>2, <2>7
    <3>2. current[d] # current[c]
      BY <2>1, <3>1 DEF InFlight
    <3> QED
      BY <2>1, <2>2, <2>3, <2>4, <3>1, <3>2 DEF InFlight
  <2> QED
    BY <2>5, <2>6, <2>7 DEF InFlight
<1>17. ASSUME NEW c \in Callers, Unblock(c)
      PROVE  InFlight'
  BY <1>17, <1>f, <1>w DEF Unblock, InFlight, NativeTypeOK
<1>18. ASSUME NEW c \in Callers, AwaitTakes(c)
      PROVE  InFlight'
  BY <1>18, <1>f, <1>w DEF AwaitTakes, InFlight, NativeTypeOK
<1>19. ASSUME NEW c \in Callers, AwaitCancelled(c)
      PROVE  InFlight'
  BY <1>19, SMTT(30) DEF AwaitCancelled, DropReceiver, Free, InFlight, InHand, NativeTypeOK, ControlInv,
         ControlTypeOK, Stage, Before, WorkerPc, CallerPc, Running, Releasing, Busy
<1>20. ASSUME NEW c \in Callers, DropHandle(c)
      PROVE  InFlight'
  BY <1>20 DEF DropHandle, GiveUp, InFlight, InHand, NativeTypeOK, ControlInv, ControlTypeOK,
         Stage, Before, WorkerPc, CallerPc, Running, Releasing, Busy
<1>21. ASSUME NEW c \in Callers, CancelCaller(c)
      PROVE  InFlight'
  BY <1>21 DEF CancelCaller, actorVars, InFlight, InHand, NativeTypeOK, ControlInv,
         ControlTypeOK, Stage, Before, WorkerPc, CallerPc, Running, Releasing, Busy
<1>22. ASSUME NEW c \in Callers, NEW r \in Requests, NEW handle \in BOOLEAN,
             Call(c, r, handle)
      PROVE  InFlight'
  <2>1. /\ r \notin called /\ called' = called \cup {r} /\ UNCHANGED <<inbox, arguments>>
        /\ current' = [current EXCEPT ![c] = r] /\ caller' = [caller EXCEPT ![r] = c]
        /\ pc' = [pc EXCEPT ![c] = "sending"]
    BY <1>22 DEF Call, Register
  <2>2. /\ current'[c] = r /\ caller'[r] = c /\ current'[Worker] = current[Worker]
        /\ \A d \in Callers : d # c => pc'[d] = pc[d] /\ current'[d] = current[d]
        /\ \A q \in Requests : q # r => caller'[q] = caller[q]
    BY <2>1 DEF NativeTypeOK
  <2>3. r # current[Worker] /\ arguments[r] = 0
    BY <1>w, <2>1 DEF Words
  <2>4. ASSUME NEW d \in Callers, pc'[d] = "sending"
        PROVE  /\ current'[d] \in called' /\ arguments'[current'[d]] = 0 /\ caller'[current'[d]] = d
               /\ current'[d] # current'[Worker]
               /\ \A i \in 1..Len(inbox') : inbox'[i] # current'[d]
    <3>1. CASE d = c
      BY <2>1, <2>2, <2>3, <3>1 DEF InFlight
    <3>2. CASE d # c
      BY <1>w, <2>1, <2>2, <2>4, <3>2 DEF InFlight
    <3> QED
      BY <3>1, <3>2
  <2> QED
    BY <2>1, <2>2, <2>4 DEF InFlight
<1>23. ASSUME NEW c \in Callers, NEW r \in Requests, Await(c, r)
      PROVE  InFlight'
  BY <1>23, <1>f, <1>w DEF Await, InFlight, NativeTypeOK
<1>24. ASSUME NEW c \in Callers, NEW r \in Requests, FreeFuture(c, r)
      PROVE  InFlight'
  BY <1>24 DEF FreeFuture, DropReceiver, Free, actorVars, InFlight, InHand, NativeTypeOK,
         ControlInv, ControlTypeOK, Stage, Before, WorkerPc, CallerPc, Running, Releasing, Busy
<1>25. ASSUME NEW c \in Callers, NEW d \in Callers, CloneHandle(c, d)
      PROVE  InFlight'
  BY <1>25 DEF CloneHandle, InFlight, InHand, NativeTypeOK, ControlInv, ControlTypeOK, Stage,
         Before, WorkerPc, CallerPc, Running, Releasing, Busy
<1>26. CASE UNCHANGED nativeVars
  BY <1>26, <1>f DEF nativeVars, actorVars
<1> QED
  BY <1>1, <1>2, <1>3, <1>4, <1>5, <1>6, <1>7, <1>8, <1>9, <1>10, <1>11, <1>12, <1>13, <1>14,
         <1>15, <1>16, <1>17, <1>18, <1>19, <1>20, <1>21, <1>22, <1>23, <1>24, <1>25, <1>26 DEF
         NativeNext, WorkerNext, Releases, CallerProceeds, CallerChooses, Quiet

(***************************************************************************)
(* Every step moves a word from one owner to the next.                     *)
(***************************************************************************)
LEMMA WordsStep ==
  ASSUME NativeInv, ControlInv', [NativeNext]_nativeVars
  PROVE  Words'
<1> USE CallersAndWorker, NoRequestFresh DEF NativeInv, At, Goto, Leave, controlVars, wordVars
<1>1. ASSUME Receive
      PROVE  Words'
  BY <1>1 DEF Receive, Words, Carries, InHand, NativeTypeOK, ControlInv, ControlTypeOK, Stage,
         Before, WorkerPc, CallerPc, Running, Releasing, Busy
<1>2. ASSUME Exit
      PROVE  Words'
  BY <1>2 DEF Exit, Words, Carries, InHand, NativeTypeOK, ControlInv, ControlTypeOK, Stage,
         Before, WorkerPc, CallerPc, Running, Releasing, Busy
<1>3. ASSUME Check
      PROVE  Words'
  BY <1>3 DEF Check, Words, Carries, InHand, NativeTypeOK, ControlInv, ControlTypeOK, Stage,
         Before, WorkerPc, CallerPc, Running, Releasing, Busy
<1>4. ASSUME Reclaim
      PROVE  Words'
  BY <1>4 DEF Reclaim, GiveUp, Words, Carries, InHand, NativeTypeOK, ControlInv, ControlTypeOK,
         Stage, Before, WorkerPc, CallerPc, Running, Releasing, Busy
<1>5. ASSUME Poll
      PROVE  Words'
  BY <1>5 DEF Poll, Words, Carries, InHand, NativeTypeOK, ControlInv, ControlTypeOK, Stage,
         Before, WorkerPc, CallerPc, Running, Releasing, Busy
<1>6. ASSUME Block
      PROVE  Words'
  BY <1>6 DEF Block, Words, Carries, InHand, NativeTypeOK, ControlInv, ControlTypeOK, Stage,
         Before, WorkerPc, CallerPc, Running, Releasing, Busy
<1>7. ASSUME Cleanup
      PROVE  Words'
  BY <1>7, SMTT(30) DEF Cleanup, GiveUp, Words, Carries, InHand, NativeTypeOK, ControlInv, ControlTypeOK,
         Stage, Before, WorkerPc, CallerPc, Running, Releasing, Busy
<1>8. ASSUME MethodFails
      PROVE  Words'
  BY <1>8 DEF MethodFails, Terminate, Words, Carries, InHand, NativeTypeOK, ControlInv,
         ControlTypeOK, Stage, Before, WorkerPc, CallerPc, Running, Releasing, Busy
<1>9. ASSUME MethodReturns
      PROVE  Words'
  BY <1>9 DEF MethodReturns, Complete, Free, Words, Carries, InHand, NativeTypeOK, ControlInv,
         ControlTypeOK, Stage, Before, WorkerPc, CallerPc, Running, Releasing, Busy
<1>10. ASSUME SendReply
      PROVE  Words'
  BY <1>10, SMTT(30) DEF SendReply, Publish, Free, actorVars, Words, Carries, InHand, NativeTypeOK,
         ControlInv, ControlTypeOK, Stage, Before, WorkerPc, CallerPc, Running, Releasing, Busy
<1>11. ASSUME NEW t \in Threads, AskPending(t)
      PROVE  Words'
  BY <1>11 DEF AskPending, Words, Carries, InHand, NativeTypeOK, ControlInv, ControlTypeOK,
         Stage, Before, WorkerPc, CallerPc, Running, Releasing, Busy
<1>12. ASSUME NEW t \in Threads, Shutdown(t)
      PROVE  Words'
  BY <1>12 DEF Shutdown, Terminate, Words, Carries, InHand, NativeTypeOK, ControlInv,
         ControlTypeOK, Stage, Before, WorkerPc, CallerPc, Running, Releasing, Busy
<1>13. ASSUME NEW t \in Threads, Close(t)
      PROVE  Words'
  BY <1>13 DEF Close, Words, Carries, InHand, NativeTypeOK, ControlInv, ControlTypeOK, Stage,
         Before, WorkerPc, CallerPc, Running, Releasing, Busy
<1>14. ASSUME NEW t \in Threads, Join(t)
      PROVE  Words'
  BY <1>14 DEF Join, Words, Carries, InHand, NativeTypeOK, ControlInv, ControlTypeOK, Stage,
         Before, WorkerPc, CallerPc, Running, Releasing, Busy
<1>15. ASSUME NEW t \in Threads, SendCancel(t)
      PROVE  Words'
  BY <1>15 DEF SendCancel, RunCancel, actorVars, Words, Carries, InHand, NativeTypeOK,
         ControlInv, ControlTypeOK, Stage, Before, WorkerPc, CallerPc, Running, Releasing, Busy
<1>16. ASSUME NEW c \in Callers, Send(c)
      PROVE  Words'
  BY <1>16 DEF Send, Words, Carries, InHand, NativeTypeOK, ControlInv, ControlTypeOK, Stage,
         Before, WorkerPc, CallerPc, Running, Releasing, Busy
<1>17. ASSUME NEW c \in Callers, Unblock(c)
      PROVE  Words'
  BY <1>17 DEF Unblock, Words, Carries, InHand, NativeTypeOK, ControlInv, ControlTypeOK, Stage,
         Before, WorkerPc, CallerPc, Running, Releasing, Busy
<1>18. ASSUME NEW c \in Callers, AwaitTakes(c)
      PROVE  Words'
  BY <1>18 DEF AwaitTakes, Words, Carries, InHand, NativeTypeOK, ControlInv, ControlTypeOK,
         Stage, Before, WorkerPc, CallerPc, Running, Releasing, Busy
<1>19. ASSUME NEW c \in Callers, AwaitCancelled(c)
      PROVE  Words'
  BY <1>19 DEF AwaitCancelled, DropReceiver, Free, Words, Carries, InHand, NativeTypeOK,
         ControlInv, ControlTypeOK, Stage, Before, WorkerPc, CallerPc, Running, Releasing, Busy
<1>20. ASSUME NEW c \in Callers, DropHandle(c)
      PROVE  Words'
  BY <1>20 DEF DropHandle, GiveUp, Words, Carries, InHand, NativeTypeOK, ControlInv,
         ControlTypeOK, Stage, Before, WorkerPc, CallerPc, Running, Releasing, Busy
<1>21. ASSUME NEW c \in Callers, CancelCaller(c)
      PROVE  Words'
  BY <1>21 DEF CancelCaller, actorVars, Words, Carries, InHand, NativeTypeOK, ControlInv,
         ControlTypeOK, Stage, Before, WorkerPc, CallerPc, Running, Releasing, Busy
<1>22. ASSUME NEW c \in Callers, NEW r \in Requests, NEW handle \in BOOLEAN,
             Call(c, r, handle)
      PROVE  Words'
  BY <1>22 DEF Call, Register, Words, Carries, InHand, NativeTypeOK, ControlInv, ControlTypeOK,
         Stage, Before, WorkerPc, CallerPc, Running, Releasing, Busy
<1>23. ASSUME NEW c \in Callers, NEW r \in Requests, Await(c, r)
      PROVE  Words'
  BY <1>23 DEF Await, Words, Carries, InHand, NativeTypeOK, ControlInv, ControlTypeOK, Stage,
         Before, WorkerPc, CallerPc, Running, Releasing, Busy
<1>24. ASSUME NEW c \in Callers, NEW r \in Requests, FreeFuture(c, r)
      PROVE  Words'
  BY <1>24 DEF FreeFuture, DropReceiver, Free, actorVars, Words, Carries, InHand, NativeTypeOK,
         ControlInv, ControlTypeOK, Stage, Before, WorkerPc, CallerPc, Running, Releasing, Busy
<1>25. ASSUME NEW c \in Callers, NEW d \in Callers, CloneHandle(c, d)
      PROVE  Words'
  BY <1>25 DEF CloneHandle, Words, Carries, InHand, NativeTypeOK, ControlInv, ControlTypeOK,
         Stage, Before, WorkerPc, CallerPc, Running, Releasing, Busy
<1>26. CASE UNCHANGED nativeVars
  BY <1>26 DEF nativeVars, actorVars, Words, Carries, InHand, NativeTypeOK, ControlInv,
         ControlTypeOK, Stage, Before, WorkerPc, CallerPc, Running, Releasing, Busy
<1> QED
  BY <1>1, <1>2, <1>3, <1>4, <1>5, <1>6, <1>7, <1>8, <1>9, <1>10, <1>11, <1>12, <1>13, <1>14,
         <1>15, <1>16, <1>17, <1>18, <1>19, <1>20, <1>21, <1>22, <1>23, <1>24, <1>25, <1>26 DEF
         NativeNext, WorkerNext, Releases, CallerProceeds, CallerChooses, Quiet

(***************************************************************************)
(* Only the last handle's release makes a caller owe other callers'        *)
(* callbacks.                                                              *)
(***************************************************************************)
LEMMA OwesStep ==
  ASSUME NativeInv, ControlInv', [NativeNext]_nativeVars
  PROVE  (\A c \in Callers : Owes(c))'
<1> USE CallersAndWorker, NoRequestFresh DEF NativeInv, At, Goto, Leave, controlVars, wordVars
<1>1. ASSUME Receive
      PROVE  (\A c \in Callers : Owes(c))'
  BY <1>1 DEF Receive, Owes, LastHandle, NativeTypeOK, ControlInv, ControlTypeOK, CallerPc,
         WorkerPc, Running, Releasing, Busy, Errors
<1>2. ASSUME Exit
      PROVE  (\A c \in Callers : Owes(c))'
  BY <1>2 DEF Exit, Owes, LastHandle, NativeTypeOK, ControlInv, ControlTypeOK, CallerPc,
         WorkerPc, Running, Releasing, Busy, Errors
<1>3. ASSUME Check
      PROVE  (\A c \in Callers : Owes(c))'
  BY <1>3 DEF Check, Owes, LastHandle, NativeTypeOK, ControlInv, ControlTypeOK, CallerPc,
         WorkerPc, Running, Releasing, Busy, Errors
<1>4. ASSUME Reclaim
      PROVE  (\A c \in Callers : Owes(c))'
  <2>1. PICK p : pc' = [pc EXCEPT ![Worker] = p]
    BY <1>4 DEF Reclaim, GiveUp
  <2>2. UNCHANGED <<reserved, cancels, terminal>>
    BY <1>4 DEF Reclaim, Busy
  <2>3. \A c \in Callers : current'[c] = current[c]
    BY <1>4 DEF Reclaim, NativeTypeOK
  <2> QED
    BY <2>1, <2>2, <2>3 DEF Owes, NativeTypeOK
<1>5. ASSUME Poll
      PROVE  (\A c \in Callers : Owes(c))'
  BY <1>5 DEF Poll, Owes, LastHandle, NativeTypeOK, ControlInv, ControlTypeOK, CallerPc,
         WorkerPc, Running, Releasing, Busy, Errors
<1>6. ASSUME Block
      PROVE  (\A c \in Callers : Owes(c))'
  BY <1>6 DEF Block, Owes, LastHandle, NativeTypeOK, ControlInv, ControlTypeOK, CallerPc,
         WorkerPc, Running, Releasing, Busy, Errors
<1>7. ASSUME Cleanup
      PROVE  (\A c \in Callers : Owes(c))'
  <2>1. PICK p : pc' = [pc EXCEPT ![Worker] = p]
    BY <1>7 DEF Cleanup, GiveUp
  <2>2. UNCHANGED <<reserved, cancels, terminal, current>>
    BY <1>7 DEF Cleanup, Busy
  <2> QED
    BY <2>1, <2>2 DEF Owes, NativeTypeOK
<1>8. ASSUME MethodFails
      PROVE  (\A c \in Callers : Owes(c))'
  BY <1>8 DEF MethodFails, Terminate, Owes, LastHandle, NativeTypeOK, ControlInv, ControlTypeOK,
         CallerPc, WorkerPc, Running, Releasing, Busy, Errors
<1>9. ASSUME MethodReturns
      PROVE  (\A c \in Callers : Owes(c))'
  BY <1>9 DEF MethodReturns, Complete, Free, Owes, LastHandle, NativeTypeOK, ControlInv,
         ControlTypeOK, CallerPc, WorkerPc, Running, Releasing, Busy, Errors
<1>10. ASSUME SendReply
      PROVE  (\A c \in Callers : Owes(c))'
  BY <1>10 DEF SendReply, Publish, Free, actorVars, Owes, LastHandle, NativeTypeOK, ControlInv,
         ControlTypeOK, CallerPc, WorkerPc, Running, Releasing, Busy, Errors
<1>11. ASSUME NEW t \in Threads, AskPending(t)
      PROVE  (\A c \in Callers : Owes(c))'
  BY <1>11 DEF AskPending, Owes, LastHandle, NativeTypeOK, ControlInv, ControlTypeOK, CallerPc,
         WorkerPc, Running, Releasing, Busy, Errors
<1>12. ASSUME NEW t \in Threads, Shutdown(t)
      PROVE  (\A c \in Callers : Owes(c))'
  BY <1>12 DEF Shutdown, Terminate, Owes, LastHandle, NativeTypeOK, ControlInv, ControlTypeOK,
         CallerPc, WorkerPc, Running, Releasing, Busy, Errors
<1>13. ASSUME NEW t \in Threads, Close(t)
      PROVE  (\A c \in Callers : Owes(c))'
  BY <1>13 DEF Close, Owes, LastHandle, NativeTypeOK, ControlInv, ControlTypeOK, CallerPc,
         WorkerPc, Running, Releasing, Busy, Errors
<1>14. ASSUME NEW t \in Threads, Join(t)
      PROVE  (\A c \in Callers : Owes(c))'
  BY <1>14 DEF Join, Owes, LastHandle, NativeTypeOK, ControlInv, ControlTypeOK, CallerPc,
         WorkerPc, Running, Releasing, Busy, Errors
<1>15. ASSUME NEW t \in Threads, SendCancel(t)
      PROVE  (\A c \in Callers : Owes(c))'
  BY <1>15 DEF SendCancel, RunCancel, actorVars, Owes, LastHandle, NativeTypeOK, ControlInv,
         ControlTypeOK, CallerPc, WorkerPc, Running, Releasing, Busy, Errors
<1>16. ASSUME NEW c \in Callers, Send(c)
      PROVE  (\A b \in Callers : Owes(b))'
  BY <1>16, ZenonT(40) DEF Send, Owes, LastHandle, NativeTypeOK, ControlInv, ControlTypeOK, CallerPc,
         WorkerPc, Running, Releasing, Busy, Errors
<1>17. ASSUME NEW c \in Callers, Unblock(c)
      PROVE  (\A b \in Callers : Owes(b))'
  BY <1>17 DEF Unblock, Owes, LastHandle, NativeTypeOK, ControlInv, ControlTypeOK, CallerPc,
         WorkerPc, Running, Releasing, Busy, Errors
<1>18. ASSUME NEW c \in Callers, AwaitTakes(c)
      PROVE  (\A b \in Callers : Owes(b))'
  BY <1>18 DEF AwaitTakes, Owes, LastHandle, NativeTypeOK, ControlInv, ControlTypeOK, CallerPc,
         WorkerPc, Running, Releasing, Busy, Errors
<1>19. ASSUME NEW c \in Callers, AwaitCancelled(c)
      PROVE  (\A b \in Callers : Owes(b))'
  BY <1>19 DEF AwaitCancelled, DropReceiver, Free, Owes, LastHandle, NativeTypeOK, ControlInv,
         ControlTypeOK, CallerPc, WorkerPc, Running, Releasing, Busy, Errors
<1>20. ASSUME NEW c \in Callers, DropHandle(c)
      PROVE  (\A b \in Callers : Owes(b))'
  <2>1. PICK p : pc' = [pc EXCEPT ![c] = p]
    BY <1>20 DEF DropHandle, GiveUp
  <2>2. cancels[c] = {} /\ UNCHANGED <<reserved, cancels, terminal, current>>
    BY <1>20 DEF DropHandle, Busy
  <2> QED
    BY <2>1, <2>2 DEF Owes, NativeTypeOK
<1>21. ASSUME NEW c \in Callers, CancelCaller(c)
      PROVE  (\A b \in Callers : Owes(b))'
  BY <1>21 DEF CancelCaller, actorVars, Owes, LastHandle, NativeTypeOK, ControlInv,
         ControlTypeOK, CallerPc, WorkerPc, Running, Releasing, Busy, Errors
<1>22. ASSUME NEW c \in Callers, NEW r \in Requests, NEW handle \in BOOLEAN,
             Call(c, r, handle)
      PROVE  (\A b \in Callers : Owes(b))'
  BY <1>22, SMTT(30) DEF Call, Register, Owes, LastHandle, NativeTypeOK, ControlInv, ControlTypeOK,
         CallerPc, WorkerPc, Running, Releasing, Busy, Errors
<1>23. ASSUME NEW c \in Callers, NEW r \in Requests, Await(c, r)
      PROVE  (\A b \in Callers : Owes(b))'
  BY <1>23 DEF Await, Owes, LastHandle, NativeTypeOK, ControlInv, ControlTypeOK, CallerPc,
         WorkerPc, Running, Releasing, Busy, Errors
<1>24. ASSUME NEW c \in Callers, NEW r \in Requests, FreeFuture(c, r)
      PROVE  (\A b \in Callers : Owes(b))'
  BY <1>24 DEF FreeFuture, DropReceiver, Free, actorVars, Owes, LastHandle, NativeTypeOK,
         ControlInv, ControlTypeOK, CallerPc, WorkerPc, Running, Releasing, Busy, Errors
<1>25. ASSUME NEW c \in Callers, NEW d \in Callers, CloneHandle(c, d)
      PROVE  (\A b \in Callers : Owes(b))'
  BY <1>25 DEF CloneHandle, Owes, LastHandle, NativeTypeOK, ControlInv, ControlTypeOK, CallerPc,
         WorkerPc, Running, Releasing, Busy, Errors
<1>26. CASE UNCHANGED nativeVars
  BY <1>26 DEF nativeVars, actorVars, Owes, LastHandle, NativeTypeOK, ControlInv, ControlTypeOK,
         CallerPc, WorkerPc, Running, Releasing, Busy, Errors
<1> QED
  BY <1>1, <1>2, <1>3, <1>4, <1>5, <1>6, <1>7, <1>8, <1>9, <1>10, <1>11, <1>12, <1>13, <1>14,
         <1>15, <1>16, <1>17, <1>18, <1>19, <1>20, <1>21, <1>22, <1>23, <1>24, <1>25, <1>26 DEF
         NativeNext, WorkerNext, Releases, CallerProceeds, CallerChooses, Quiet

(***************************************************************************)
(* An undecided request of a live actor stays in its table until its       *)
(* arguments are gone.                                                     *)
(***************************************************************************)
LEMMA LiveStep ==
  ASSUME NativeInv, ControlInv', [NativeNext]_nativeVars
  PROVE  LiveDecides'
<1> USE CallersAndWorker, NoRequestFresh DEF NativeInv, At, Goto, Leave, controlVars, wordVars
<1>1. ASSUME Receive
      PROVE  LiveDecides'
  BY <1>1 DEF Receive, LiveDecides, LastHandle, InHand, Stage, Before, NativeTypeOK, ControlInv,
         ControlTypeOK, CallerPc, WorkerPc, Running, Releasing, Errors
<1>2. ASSUME Exit
      PROVE  LiveDecides'
  BY <1>2 DEF Exit, LiveDecides, LastHandle, InHand, Stage, Before, NativeTypeOK, ControlInv,
         ControlTypeOK, CallerPc, WorkerPc, Running, Releasing, Errors
<1>3. ASSUME Check
      PROVE  LiveDecides'
  BY <1>3 DEF Check, LiveDecides, LastHandle, InHand, Stage, Before, NativeTypeOK, ControlInv,
         ControlTypeOK, CallerPc, WorkerPc, Running, Releasing, Errors
<1>4. ASSUME Reclaim
      PROVE  LiveDecides'
  BY <1>4 DEF Reclaim, GiveUp, LiveDecides, LastHandle, InHand, Stage, Before, NativeTypeOK,
         ControlInv, ControlTypeOK, CallerPc, WorkerPc, Running, Releasing, Errors
<1>5. ASSUME Poll
      PROVE  LiveDecides'
  BY <1>5 DEF Poll, LiveDecides, LastHandle, InHand, Stage, Before, NativeTypeOK, ControlInv,
         ControlTypeOK, CallerPc, WorkerPc, Running, Releasing, Errors
<1>6. ASSUME Block
      PROVE  LiveDecides'
  BY <1>6 DEF Block, LiveDecides, LastHandle, InHand, Stage, Before, NativeTypeOK, ControlInv,
         ControlTypeOK, CallerPc, WorkerPc, Running, Releasing, Errors
<1>7. ASSUME Cleanup
      PROVE  LiveDecides'
  BY <1>7 DEF Cleanup, GiveUp, LiveDecides, LastHandle, InHand, Stage, Before, NativeTypeOK,
         ControlInv, ControlTypeOK, CallerPc, WorkerPc, Running, Releasing, Errors
<1>8. ASSUME MethodFails
      PROVE  LiveDecides'
  BY <1>8 DEF MethodFails, Terminate, LiveDecides, LastHandle, InHand, Stage, Before,
         NativeTypeOK, ControlInv, ControlTypeOK, CallerPc, WorkerPc, Running, Releasing, Errors
<1>9. ASSUME MethodReturns
      PROVE  LiveDecides'
  BY <1>9 DEF MethodReturns, Complete, Free, LiveDecides, LastHandle, InHand, Stage, Before,
         NativeTypeOK, ControlInv, ControlTypeOK, CallerPc, WorkerPc, Running, Releasing, Errors
<1>10. ASSUME SendReply
      PROVE  LiveDecides'
  BY <1>10 DEF SendReply, Publish, Free, actorVars, LiveDecides, LastHandle, InHand, Stage,
         Before, NativeTypeOK, ControlInv, ControlTypeOK, CallerPc, WorkerPc, Running,
         Releasing, Errors
<1>11. ASSUME NEW t \in Threads, AskPending(t)
      PROVE  LiveDecides'
  BY <1>11 DEF AskPending, LiveDecides, LastHandle, InHand, Stage, Before, NativeTypeOK,
         ControlInv, ControlTypeOK, CallerPc, WorkerPc, Running, Releasing, Errors
<1>12. ASSUME NEW t \in Threads, Shutdown(t)
      PROVE  LiveDecides'
  BY <1>12 DEF Shutdown, Terminate, LiveDecides, LastHandle, InHand, Stage, Before,
         NativeTypeOK, ControlInv, ControlTypeOK, CallerPc, WorkerPc, Running, Releasing, Errors
<1>13. ASSUME NEW t \in Threads, Close(t)
      PROVE  LiveDecides'
  BY <1>13 DEF Close, LiveDecides, LastHandle, InHand, Stage, Before, NativeTypeOK, ControlInv,
         ControlTypeOK, CallerPc, WorkerPc, Running, Releasing, Errors
<1>14. ASSUME NEW t \in Threads, Join(t)
      PROVE  LiveDecides'
  BY <1>14 DEF Join, LiveDecides, LastHandle, InHand, Stage, Before, NativeTypeOK, ControlInv,
         ControlTypeOK, CallerPc, WorkerPc, Running, Releasing, Errors
<1>15. ASSUME NEW t \in Threads, SendCancel(t)
      PROVE  LiveDecides'
  BY <1>15 DEF SendCancel, RunCancel, actorVars, LiveDecides, LastHandle, InHand, Stage, Before,
         NativeTypeOK, ControlInv, ControlTypeOK, CallerPc, WorkerPc, Running, Releasing, Errors
<1>16. ASSUME NEW c \in Callers, Send(c)
      PROVE  LiveDecides'
  BY <1>16 DEF Send, LiveDecides, LastHandle, InHand, Stage, Before, NativeTypeOK, ControlInv,
         ControlTypeOK, CallerPc, WorkerPc, Running, Releasing, Errors
<1>17. ASSUME NEW c \in Callers, Unblock(c)
      PROVE  LiveDecides'
  BY <1>17 DEF Unblock, LiveDecides, LastHandle, InHand, Stage, Before, NativeTypeOK,
         ControlInv, ControlTypeOK, CallerPc, WorkerPc, Running, Releasing, Errors
<1>18. ASSUME NEW c \in Callers, AwaitTakes(c)
      PROVE  LiveDecides'
  BY <1>18 DEF AwaitTakes, LiveDecides, LastHandle, InHand, Stage, Before, NativeTypeOK,
         ControlInv, ControlTypeOK, CallerPc, WorkerPc, Running, Releasing, Errors
<1>19. ASSUME NEW c \in Callers, AwaitCancelled(c)
      PROVE  LiveDecides'
  BY <1>19 DEF AwaitCancelled, DropReceiver, Free, LiveDecides, LastHandle, InHand, Stage,
         Before, NativeTypeOK, ControlInv, ControlTypeOK, CallerPc, WorkerPc, Running,
         Releasing, Errors
<1>20. ASSUME NEW c \in Callers, DropHandle(c)
      PROVE  LiveDecides'
  BY <1>20 DEF DropHandle, GiveUp, LiveDecides, LastHandle, InHand, Stage, Before, NativeTypeOK,
         ControlInv, ControlTypeOK, CallerPc, WorkerPc, Running, Releasing, Errors
<1>21. ASSUME NEW c \in Callers, CancelCaller(c)
      PROVE  LiveDecides'
  BY <1>21 DEF CancelCaller, actorVars, LiveDecides, LastHandle, InHand, Stage, Before,
         NativeTypeOK, ControlInv, ControlTypeOK, CallerPc, WorkerPc, Running, Releasing, Errors
<1>22. ASSUME NEW c \in Callers, NEW r \in Requests, NEW handle \in BOOLEAN,
             Call(c, r, handle)
      PROVE  LiveDecides'
  BY <1>22 DEF Call, Register, LiveDecides, LastHandle, InHand, Stage, Before, NativeTypeOK,
         ControlInv, ControlTypeOK, CallerPc, WorkerPc, Running, Releasing, Errors
<1>23. ASSUME NEW c \in Callers, NEW r \in Requests, Await(c, r)
      PROVE  LiveDecides'
  BY <1>23 DEF Await, LiveDecides, LastHandle, InHand, Stage, Before, NativeTypeOK, ControlInv,
         ControlTypeOK, CallerPc, WorkerPc, Running, Releasing, Errors
<1>24. ASSUME NEW c \in Callers, NEW r \in Requests, FreeFuture(c, r)
      PROVE  LiveDecides'
  BY <1>24 DEF FreeFuture, DropReceiver, Free, actorVars, LiveDecides, LastHandle, InHand,
         Stage, Before, NativeTypeOK, ControlInv, ControlTypeOK, CallerPc, WorkerPc, Running,
         Releasing, Errors
<1>25. ASSUME NEW c \in Callers, NEW d \in Callers, CloneHandle(c, d)
      PROVE  LiveDecides'
  BY <1>25 DEF CloneHandle, LiveDecides, LastHandle, InHand, Stage, Before, NativeTypeOK,
         ControlInv, ControlTypeOK, CallerPc, WorkerPc, Running, Releasing, Errors
<1>26. CASE UNCHANGED nativeVars
  BY <1>26 DEF nativeVars, actorVars, LiveDecides, LastHandle, InHand, Stage, Before,
         NativeTypeOK, ControlInv, ControlTypeOK, CallerPc, WorkerPc, Running, Releasing, Errors
<1> QED
  BY <1>1, <1>2, <1>3, <1>4, <1>5, <1>6, <1>7, <1>8, <1>9, <1>10, <1>11, <1>12, <1>13, <1>14,
         <1>15, <1>16, <1>17, <1>18, <1>19, <1>20, <1>21, <1>22, <1>23, <1>24, <1>25, <1>26 DEF
         NativeNext, WorkerNext, Releases, CallerProceeds, CallerChooses, Quiet

(***************************************************************************)
(* The last handle goes once, and nobody can call after it: an actor that  *)
(* was idle then runs no method any more.                                  *)
(***************************************************************************)
LEMMA LastHandleStep ==
  ASSUME NativeInv, ControlInv', [NativeNext]_nativeVars
  PROVE  LastHandle'
<1> USE CallersAndWorker, NoRequestFresh DEF NativeInv, At, Goto, Leave, controlVars, wordVars
<1>1. ASSUME Receive
      PROVE  LastHandle'
  BY <1>1 DEF Receive, LastHandle, LiveDecides, InHand, Stage, Before, NativeTypeOK, ControlInv,
         ControlTypeOK, CallerPc, WorkerPc, Running, Releasing, Errors
<1>2. ASSUME Exit
      PROVE  LastHandle'
  BY <1>2 DEF Exit, LastHandle, LiveDecides, InHand, Stage, Before, NativeTypeOK, ControlInv,
         ControlTypeOK, CallerPc, WorkerPc, Running, Releasing, Errors
<1>3. ASSUME Check
      PROVE  LastHandle'
  BY <1>3 DEF Check, LastHandle, LiveDecides, InHand, Stage, Before, NativeTypeOK, ControlInv,
         ControlTypeOK, CallerPc, WorkerPc, Running, Releasing, Errors
<1>4. ASSUME Reclaim
      PROVE  LastHandle'
  BY <1>4 DEF Reclaim, GiveUp, LastHandle, LiveDecides, InHand, Stage, Before, NativeTypeOK,
         ControlInv, ControlTypeOK, CallerPc, WorkerPc, Running, Releasing, Errors
<1>5. ASSUME Poll
      PROVE  LastHandle'
  BY <1>5 DEF Poll, LastHandle, LiveDecides, InHand, Stage, Before, NativeTypeOK, ControlInv,
         ControlTypeOK, CallerPc, WorkerPc, Running, Releasing, Errors
<1>6. ASSUME Block
      PROVE  LastHandle'
  BY <1>6 DEF Block, LastHandle, LiveDecides, InHand, Stage, Before, NativeTypeOK, ControlInv,
         ControlTypeOK, CallerPc, WorkerPc, Running, Releasing, Errors
<1>7. ASSUME Cleanup
      PROVE  LastHandle'
  BY <1>7 DEF Cleanup, GiveUp, LastHandle, LiveDecides, InHand, Stage, Before, NativeTypeOK,
         ControlInv, ControlTypeOK, CallerPc, WorkerPc, Running, Releasing, Errors
<1>8. ASSUME MethodFails
      PROVE  LastHandle'
  BY <1>8 DEF MethodFails, Terminate, LastHandle, LiveDecides, InHand, Stage, Before,
         NativeTypeOK, ControlInv, ControlTypeOK, CallerPc, WorkerPc, Running, Releasing, Errors
<1>9. ASSUME MethodReturns
      PROVE  LastHandle'
  BY <1>9 DEF MethodReturns, Complete, Free, LastHandle, LiveDecides, InHand, Stage, Before,
         NativeTypeOK, ControlInv, ControlTypeOK, CallerPc, WorkerPc, Running, Releasing, Errors
<1>10. ASSUME SendReply
      PROVE  LastHandle'
  BY <1>10 DEF SendReply, Publish, Free, actorVars, LastHandle, LiveDecides, InHand, Stage,
         Before, NativeTypeOK, ControlInv, ControlTypeOK, CallerPc, WorkerPc, Running,
         Releasing, Errors
<1>11. ASSUME NEW t \in Threads, AskPending(t)
      PROVE  LastHandle'
  <2>1. /\ pc[t] = "asking" /\ pc' = [pc EXCEPT ![t] = "stopping"]
        /\ idle' = [idle EXCEPT ![t] = pending = {}]
        /\ UNCHANGED <<terminal, pending, holders, carried>>
    BY <1>11 DEF AskPending
  <2>2. terminal # "shutdown"
    BY <2>1 DEF LastHandle, Releasing
  <2>3. ASSUME pc[Worker] \in Running
        PROVE  pending # {}
    <3>1. current[Worker] \in called /\ arguments[current[Worker]] = 0
      BY <2>3 DEF InHand, Stage, Before, Running, Releasing
    <3>2. terminal = "live"
      BY <2>2, <2>3 DEF LiveDecides, ControlInv, ControlTypeOK, Errors
    <3> QED
      BY <3>1, <3>2 DEF LiveDecides
  <2>4. /\ pc'[t] = "stopping" /\ idle'[t] = (pending = {})
        /\ \A u \in Threads : u # t => pc'[u] = pc[u]
    BY <2>1 DEF NativeTypeOK
  <2>5. \A u \in Threads : pc'[u] \in Releasing => u = t
    BY <2>1, <2>4 DEF LastHandle, Releasing
  <2>6. t # Worker => pc'[Worker] = pc[Worker]
    BY <2>4
  <2>7. holders' \cup carried' = {} /\ terminal' # "shutdown"
    BY <2>1, <2>2 DEF LastHandle, Releasing
  <2>8. idle'[t] /\ t # Worker => pending' = {} /\ pc'[Worker] \notin Running
    BY <2>1, <2>3, <2>4, <2>6
  <2> QED
    BY <2>4, <2>5, <2>7, <2>8 DEF LastHandle, Releasing
<1>12. ASSUME NEW t \in Threads, Shutdown(t)
      PROVE  LastHandle'
  BY <1>12 DEF Shutdown, Terminate, LastHandle, LiveDecides, InHand, Stage, Before,
         NativeTypeOK, ControlInv, ControlTypeOK, CallerPc, WorkerPc, Running, Releasing, Errors
<1>13. ASSUME NEW t \in Threads, Close(t)
      PROVE  LastHandle'
  BY <1>13 DEF Close, LastHandle, LiveDecides, InHand, Stage, Before, NativeTypeOK, ControlInv,
         ControlTypeOK, CallerPc, WorkerPc, Running, Releasing, Errors
<1>14. ASSUME NEW t \in Threads, Join(t)
      PROVE  LastHandle'
  BY <1>14 DEF Join, LastHandle, LiveDecides, InHand, Stage, Before, NativeTypeOK, ControlInv,
         ControlTypeOK, CallerPc, WorkerPc, Running, Releasing, Errors
<1>15. ASSUME NEW t \in Threads, SendCancel(t)
      PROVE  LastHandle'
  BY <1>15 DEF SendCancel, RunCancel, actorVars, LastHandle, LiveDecides, InHand, Stage, Before,
         NativeTypeOK, ControlInv, ControlTypeOK, CallerPc, WorkerPc, Running, Releasing, Errors
<1>16. ASSUME NEW c \in Callers, Send(c)
      PROVE  LastHandle'
  <2>1. PICK p \in {"blocking", "ready"} : pc' = [pc EXCEPT ![c] = p]
    BY <1>16 DEF Send
  <2>2. UNCHANGED <<terminal, pending, holders, carried, idle>> /\ pc[c] = "sending"
    BY <1>16 DEF Send
  <2> QED
    BY <2>1, <2>2 DEF LastHandle, NativeTypeOK, Releasing
<1>17. ASSUME NEW c \in Callers, Unblock(c)
      PROVE  LastHandle'
  BY <1>17 DEF Unblock, LastHandle, LiveDecides, InHand, Stage, Before, NativeTypeOK,
         ControlInv, ControlTypeOK, CallerPc, WorkerPc, Running, Releasing, Errors
<1>18. ASSUME NEW c \in Callers, AwaitTakes(c)
      PROVE  LastHandle'
  BY <1>18 DEF AwaitTakes, LastHandle, LiveDecides, InHand, Stage, Before, NativeTypeOK,
         ControlInv, ControlTypeOK, CallerPc, WorkerPc, Running, Releasing, Errors
<1>19. ASSUME NEW c \in Callers, AwaitCancelled(c)
      PROVE  LastHandle'
  BY <1>19 DEF AwaitCancelled, DropReceiver, Free, LastHandle, LiveDecides, InHand, Stage,
         Before, NativeTypeOK, ControlInv, ControlTypeOK, CallerPc, WorkerPc, Running,
         Releasing, Errors
<1>20. ASSUME NEW c \in Callers, DropHandle(c)
      PROVE  LastHandle'
  <2>1. UNCHANGED <<terminal, pending, idle>> /\ pc[c] = "ready" /\ c \in holders
    BY <1>20 DEF DropHandle
  <2>2. terminal' # "shutdown" /\ \A t \in Threads : pc[t] \notin Releasing
    BY <2>1 DEF LastHandle, LiveDecides
  <2>3. CASE holders' \cup carried' = {}
    <3>1. pc' = [pc EXCEPT ![c] = "asking"]
      BY <1>20, <2>3 DEF DropHandle, GiveUp
    <3>2. \A t \in Threads : pc'[t] \in Releasing => t = c /\ pc'[t] = "asking"
      BY <2>2, <3>1 DEF NativeTypeOK
    <3> QED
      BY <2>2, <2>3, <3>2 DEF LastHandle
  <2>4. CASE holders' \cup carried' # {}
    <3>1. pc' = [pc EXCEPT ![c] = "ready"]
      BY <1>20, <2>4 DEF DropHandle, GiveUp
    <3>2. \A t \in Threads : pc'[t] \notin Releasing
      BY <2>2, <3>1 DEF NativeTypeOK, Releasing
    <3> QED
      BY <3>2 DEF LastHandle
  <2> QED
    BY <2>3, <2>4
<1>21. ASSUME NEW c \in Callers, CancelCaller(c)
      PROVE  LastHandle'
  BY <1>21 DEF CancelCaller, actorVars, LastHandle, LiveDecides, InHand, Stage, Before,
         NativeTypeOK, ControlInv, ControlTypeOK, CallerPc, WorkerPc, Running, Releasing, Errors
<1>22. ASSUME NEW c \in Callers, NEW r \in Requests, NEW handle \in BOOLEAN,
             Call(c, r, handle)
      PROVE  LastHandle'
  BY <1>22 DEF Call, Register, LastHandle, LiveDecides, InHand, Stage, Before, NativeTypeOK,
         ControlInv, ControlTypeOK, CallerPc, WorkerPc, Running, Releasing, Errors
<1>23. ASSUME NEW c \in Callers, NEW r \in Requests, Await(c, r)
      PROVE  LastHandle'
  BY <1>23 DEF Await, LastHandle, LiveDecides, InHand, Stage, Before, NativeTypeOK, ControlInv,
         ControlTypeOK, CallerPc, WorkerPc, Running, Releasing, Errors
<1>24. ASSUME NEW c \in Callers, NEW r \in Requests, FreeFuture(c, r)
      PROVE  LastHandle'
  BY <1>24 DEF FreeFuture, DropReceiver, Free, actorVars, LastHandle, LiveDecides, InHand,
         Stage, Before, NativeTypeOK, ControlInv, ControlTypeOK, CallerPc, WorkerPc, Running,
         Releasing, Errors
<1>25. ASSUME NEW c \in Callers, NEW d \in Callers, CloneHandle(c, d)
      PROVE  LastHandle'
  BY <1>25 DEF CloneHandle, LastHandle, LiveDecides, InHand, Stage, Before, NativeTypeOK,
         ControlInv, ControlTypeOK, CallerPc, WorkerPc, Running, Releasing, Errors
<1>26. CASE UNCHANGED nativeVars
  BY <1>26 DEF nativeVars, actorVars, LastHandle, LiveDecides, InHand, Stage, Before,
         NativeTypeOK, ControlInv, ControlTypeOK, CallerPc, WorkerPc, Running, Releasing, Errors
<1> QED
  BY <1>1, <1>2, <1>3, <1>4, <1>5, <1>6, <1>7, <1>8, <1>9, <1>10, <1>11, <1>12, <1>13, <1>14,
         <1>15, <1>16, <1>17, <1>18, <1>19, <1>20, <1>21, <1>22, <1>23, <1>24, <1>25, <1>26 DEF
         NativeNext, WorkerNext, Releases, CallerProceeds, CallerChooses, Quiet

(***************************************************************************)
(* Initially nothing has been called.                                      *)
(***************************************************************************)
LEMMA NativeInitInv ==
  ASSUME NativeInit
  PROVE  NativeInv
<1> USE CallersAndWorker, NoRequestFresh
<1>1. ControlInv
  BY ControlInitInv DEF NativeInit
<1>2. NativeTypeOK
  <2>1. ControlTypeOK /\ inbox \in Seq(Requests) /\ carried \subseteq called
    BY <1>1 DEF ControlInv, NativeInit
  <2>2. /\ pc \in [Threads -> CallerPc \cup WorkerPc] /\ pc[Worker] = "receive"
        /\ \A c \in Callers : pc[c] = "ready"
    BY DEF NativeInit, CallerPc, WorkerPc
  <2>3. /\ after \in {"receive", "completing", "failing"} /\ holders \subseteq Callers
        /\ closed \in BOOLEAN /\ idle \in [Threads -> BOOLEAN] /\ cancelled \subseteq Callers
    BY DEF NativeInit
  <2>4. /\ current \in [Threads -> Requests \cup {NoRequest}]
        /\ caller \in [Requests -> Callers \cup {NoRequest}]
        /\ future \in [Requests -> {"none", "open", "taken", "dropped"}]
        /\ word \in [Requests -> {"none", "worker", "channel", "awaiter", "freed"}]
        /\ frees \in [Requests -> Nat] /\ arguments \in [Requests -> Nat]
    BY DEF NativeInit
  <2> QED
    BY <2>1, <2>2, <2>3, <2>4 DEF NativeTypeOK, CallerPc, WorkerPc
<1>3. InHand
  BY DEF NativeInit, ControlInit, InHand, Stage, Before, Running, Releasing
<1>4. InFlight
  BY DEF NativeInit, InFlight
<1>5. Words
  BY DEF NativeInit, ControlInit, Words, Carries, Stage, Releasing
<1>6. \A c \in Callers : Owes(c)
  BY DEF NativeInit, ControlInit, Owes
<1>7. LiveDecides /\ LastHandle
  BY DEF NativeInit, ControlInit, LiveDecides, LastHandle, Releasing, Running
<1> QED
  BY <1>1, <1>2, <1>3, <1>4, <1>5, <1>6, <1>7 DEF NativeInv

LEMMA NativeInductive ==
  ASSUME NativeInv, [NativeNext]_nativeVars
  PROVE  NativeInv'
<1>1. ControlInv'
  BY NativeStepControl, ControlStep DEF NativeInv
<1> QED
  BY <1>1, TypeStep, InHandStep, InFlightStep, WordsStep, OwesStep, LiveStep, LastHandleStep
     DEF NativeInv
-----------------------------------------------------------------------------
(***************************************************************************)
(* The invariant of a native remote object.                                *)
(***************************************************************************)
THEOREM NativeCorrect == NativeSpec => []NativeInv
<1>1. NativeInit => NativeInv
  BY NativeInitInv
<1>2. NativeInv /\ [NativeNext]_nativeVars => NativeInv'
  BY NativeInductive
<1> QED
  BY <1>1, <1>2, PTL DEF NativeSpec

(***************************************************************************)
(* Every argument word is given up once at most, and every result word is  *)
(* released once or handed to one awaiter, and never left behind, whatever *)
(* the races of reply, await, cancellation and release.                    *)
(***************************************************************************)
THEOREM NativeWordsFreedOnce == NativeSpec => []WordsFreedOnce
<1>1. NativeInv => WordsFreedOnce
  <2> SUFFICES ASSUME NativeInv
               PROVE  WordsFreedOnce
    OBVIOUS
  <2>1. ResultFreedOnce /\ ArgumentsOnce
    BY DEF NativeInv, Words, ResultFreedOnce, ArgumentsOnce
  <2>2. NoResultLeak
    BY DEF NativeInv, Words, Carries, Stage, NoResultLeak
  <2> QED
    BY <2>1, <2>2 DEF NativeInv, WordsFreedOnce
<1> QED
  BY <1>1, NativeCorrect, PTL

(***************************************************************************)
(* On an actor that failed, a request whose arguments are gone has its     *)
(* outcome: the failure is published before arguments are reclaimed.       *)
(***************************************************************************)
THEOREM NativeFailurePublishes == NativeSpec => []FailurePublishes
<1>1. NativeInv => FailurePublishes
  <2> SUFFICES ASSUME NativeInv, terminal = "failed", ~Busy(Worker), NEW r \in called,
                      arguments[r] = 1, published[r] = <<>>
               PROVE  FALSE
    BY DEF FailurePublishes
  <2>1. r \in Requests /\ r \notin pending
    BY DEF NativeInv, ControlInv, ControlTypeOK, TerminalDrains
  <2>2. PICK t \in Threads : r \in cancels[t] \/ r \in reserved[t]
    BY <2>1 DEF NativeInv, ControlInv, Conserved, Holds
  <2>3. t \in Callers
    BY <2>2, CallersAndWorker DEF Busy
  <2>4. pc[t] = "sending" /\ r = current[t]
    BY <2>2, <2>3 DEF NativeInv, Owes
  <2> QED
    BY <2>3, <2>4 DEF NativeInv, InFlight
<1> QED
  BY <1>1, NativeCorrect, PTL

(***************************************************************************)
(* remote_release waits for no actor that runs a method, and never for the *)
(* one that releases its own last handle.                                  *)
(***************************************************************************)
THEOREM NativeJoinsAnother == NativeSpec => []JoinsAnother
<1>1. NativeInv => JoinsAnother
  BY DEF NativeInv, LastHandle, JoinsAnother, Releasing
<1> QED
  BY <1>1, NativeCorrect, PTL

(***************************************************************************)
(* The native runtime keeps the promise of RemoteOutcome, as the VM does.  *)
(***************************************************************************)
THEOREM NativeImplementsPromise == NativeSpec => KeepsPromise
<1>1. NativeInit => Promise!Init
  BY DEF NativeInit, ControlInit, Promise!Init, Decided
<1>2. NativeInv /\ NativeInv' /\ [NativeNext]_nativeVars => [Promise!Next]_(Promise!vars)
  BY NativeStepControl, StepMaps DEF NativeInv
<1> QED
  BY <1>1, <1>2, NativeCorrect, PTL DEF NativeSpec, KeepsPromise, Promise!Spec
=============================================================================
