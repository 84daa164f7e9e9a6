------------------------------ MODULE VmRemote ------------------------------
(***************************************************************************)
(* One remote object of the virtual machine: the worker coroutine that     *)
(* SpawnRemote starts, its mailbox, the callers that hold handles to it    *)
(* (RemoteValue clones), the futures they await, and the destruction of    *)
(* the last handle.  It composes these with the lifecycle controller: each *)
(* use of the controller is one of RemoteControl's critical sections.      *)
(*                                                                         *)
(* A caller is a thread or coroutine that runs Foster code; it may itself  *)
(* be the worker of another remote, whose cancellation is `cancelled`.     *)
(* What a method computes is left out: an instruction continues, returns   *)
(* or fails, and a method need not terminate by itself.                    *)
(***************************************************************************)
EXTENDS RemoteThreads

VARIABLES pc,            \* where each thread is
          senders,       \* callers whose handle still has its mailbox sender
          owners,        \* callers that hold a reference to the RemoteOwner
          idle,          \* `idle` in RemoteOwner::drop
          inbox,         \* the mailbox: messages sent and not yet received
          current,       \* the request a thread works on
          caller,        \* the caller that made a request
          taken,         \* requests whose future has been awaited
          cancelled,     \* callers whose own worker was terminated
          discarded,     \* messages dropped without running their method
          faulted,       \* a method of the worker ended in an error
          late           \* instructions executed after the terminal state

remoteVars == <<pc, senders, owners, idle, inbox, current, caller, taken, cancelled,
                discarded, faulted, late>>
vmVars == <<controlVars, remoteVars>>

CallerPc == {"ready", "sending", "awaiting", "releasing", "asking", "stopping", "joining"}
WorkerPc == {"receive", "check", "poll", "instruction", "failing", "completing", "exited"}

VmTypeOK ==
  /\ ControlTypeOK
  /\ pc \in [Threads -> CallerPc \cup WorkerPc]
  /\ \A c \in Callers : pc[c] \in CallerPc
  /\ pc[Worker] \in WorkerPc
  /\ senders \subseteq owners
  /\ owners \subseteq Callers
  /\ idle \in [Callers -> BOOLEAN]
  /\ inbox \in Seq(Requests)
  /\ current \in [Threads -> Requests \cup {NoRequest}]
  /\ caller \in [Requests -> Callers \cup {NoRequest}]
  /\ taken \subseteq called
  /\ cancelled \subseteq Callers
  /\ discarded \subseteq Requests
  /\ faulted \in BOOLEAN
  /\ late \in Nat

(***************************************************************************)
(* SpawnRemote: the worker waits on its mailbox and the spawning caller    *)
(* holds the only handle.                                                  *)
(***************************************************************************)
VmInit ==
  /\ ControlInit
  /\ pc = [t \in Threads |-> IF t = Worker THEN "receive" ELSE "ready"]
  /\ \E c \in Callers : owners = {c}
  /\ senders = owners
  /\ idle = [c \in Callers |-> FALSE]
  /\ inbox = <<>>
  /\ current = [t \in Threads |-> NoRequest]
  /\ caller = [r \in Requests |-> NoRequest]
  /\ taken = {}
  /\ cancelled = {}
  /\ discarded = {}
  /\ faulted = FALSE
  /\ late = 0

Goto(t, place) == pc' = [pc EXCEPT ![t] = place]

(***************************************************************************)
(* The request goes out of scope.                                          *)
(***************************************************************************)
Leave(t, place) == Goto(t, place) /\ current' = [current EXCEPT ![t] = NoRequest]

(***************************************************************************)
(* A thread that is at a place and owes no callback or publication.        *)
(***************************************************************************)
At(t, place) == pc[t] = place /\ ~Busy(t)

-----------------------------------------------------------------------------
(***************************************************************************)
(* Mutants: plausible mistakes, each of which breaks a property below.     *)
(* They are no part of the specification.                                  *)
(***************************************************************************)
SendInFront(c) ==               \* the mailbox is a stack
  /\ At(c, "sending")
  /\ inbox' = <<current[c]>> \o inbox
  /\ Leave(c, "ready")
  /\ UNCHANGED <<controlVars, senders, owners, idle, caller, taken, cancelled,
                 discarded, faulted, late>>

AskAfterShutdown(c) ==          \* has_pending() read after terminate()
  /\ At(c, "asking")
  /\ idle' = [idle EXCEPT ![c] = TRUE]
  /\ Goto(c, "stopping")
  /\ UNCHANGED <<controlVars, senders, owners, inbox, current, caller, taken, cancelled,
                 discarded, faulted, late>>

ShutdownSkipped(c) ==           \* dropping the owner does not terminate
  /\ At(c, "stopping")
  /\ Goto(c, "joining")
  /\ UNCHANGED <<controlVars, senders, owners, idle, inbox, current, caller, taken,
                 cancelled, discarded, faulted, late>>

ReceiveLatest ==                \* drops the messages before the latest
  /\ At(Worker, "receive")
  /\ inbox # <<>>
  /\ current' = [current EXCEPT ![Worker] = inbox[Len(inbox)]]
  /\ inbox' = <<>>
  /\ Goto(Worker, "check")
  /\ UNCHANGED <<controlVars, senders, owners, idle, caller, taken, cancelled,
                 discarded, faulted, late>>

ExitWhenEnded ==                \* leaves the loop as soon as it has ended
  /\ At(Worker, "receive")
  /\ terminal # "live" \/ (inbox = <<>> /\ senders = {})
  /\ Goto(Worker, "exited")
  /\ UNCHANGED <<controlVars, senders, owners, idle, inbox, current, caller, taken,
                 cancelled, discarded, faulted, late>>

CheckSkipped ==                 \* runs whatever it receives
  /\ At(Worker, "check")
  /\ Goto(Worker, "poll")
  /\ UNCHANGED <<controlVars, senders, owners, idle, inbox, current, caller, taken,
                 cancelled, discarded, faulted, late>>

PollSkipped ==                  \* no cancellation point before instructions
  /\ At(Worker, "poll")
  /\ Goto(Worker, "instruction")
  /\ UNCHANGED <<controlVars, senders, owners, idle, inbox, current, caller, taken,
                 cancelled, discarded, faulted, late>>
-----------------------------------------------------------------------------
(***************************************************************************)
(* RemoteCall, first half: the future exists and its request is registered.*)
(* On an ended worker the callback resolves it and nothing is sent.        *)
(***************************************************************************)
Call(c, r) ==
  /\ At(c, "ready")
  /\ c \in senders
  /\ Register(c, r)
  /\ caller' = [caller EXCEPT ![r] = c]
  /\ IF terminal = "live"
       THEN Goto(c, "sending") /\ current' = [current EXCEPT ![c] = r]
       ELSE UNCHANGED <<pc, current>>
  /\ UNCHANGED <<senders, owners, idle, inbox, taken, cancelled, discarded, faulted, late>>

(***************************************************************************)
(* RemoteCall, second half: the message is sent.  The branch for a closed  *)
(* mailbox is dead code while the caller holds a sender: see MailboxOpen.  *)
(***************************************************************************)
Send(c) ==
  /\ At(c, "sending")
  /\ inbox' = Append(inbox, current[c])
  /\ Leave(c, "ready")
  /\ UNCHANGED <<controlVars, senders, owners, idle, caller, taken, cancelled,
                 discarded, faulted, late>>

(***************************************************************************)
(* A handle is cloned and reaches another caller (RemoteValue: Clone, and  *)
(* WireValue::Remote in the messages and states of other workers).         *)
(***************************************************************************)
CloneHandle(c, d) ==
  /\ At(c, "ready") /\ c \in senders
  /\ At(d, "ready") /\ d \notin owners
  /\ senders' = senders \cup {d}
  /\ owners' = owners \cup {d}
  /\ UNCHANGED <<controlVars, pc, idle, inbox, current, caller, taken, cancelled,
                 discarded, faulted, late>>

(***************************************************************************)
(* Await takes the receiver out of the future, then polls it.              *)
(***************************************************************************)
Await(c, r) ==
  /\ At(c, "ready")
  /\ caller[r] = c /\ r \notin taken
  /\ taken' = taken \cup {r}
  /\ current' = [current EXCEPT ![c] = r]
  /\ Goto(c, "awaiting")
  /\ UNCHANGED <<controlVars, senders, owners, idle, inbox, caller, cancelled,
                 discarded, faulted, late>>

AwaitEnds(c) ==
  /\ At(c, "awaiting")
  /\ c \in cancelled \/ published[current[c]] # <<>>
  /\ Leave(c, "ready")
  /\ UNCHANGED <<controlVars, senders, owners, idle, inbox, caller, taken,
                 cancelled, discarded, faulted, late>>

(***************************************************************************)
(* The caller is a worker whose own control is terminated.  It looks at    *)
(* that only in its polls, and not while it cleans up, so it may still     *)
(* begin any operation.                                                    *)
(***************************************************************************)
CancelCaller(c) ==
  /\ c \notin cancelled
  /\ cancelled' = cancelled \cup {c}
  /\ UNCHANGED <<controlVars, pc, senders, owners, idle, inbox, current, caller, taken,
                 discarded, faulted, late>>

(***************************************************************************)
(* Dropping a handle drops its fields in order: the sender, then the       *)
(* reference to the owner, whose last one runs RemoteOwner::drop.          *)
(***************************************************************************)
DropSender(c) ==
  /\ At(c, "ready")
  /\ c \in senders
  /\ senders' = senders \ {c}
  /\ Goto(c, "releasing")
  /\ UNCHANGED <<controlVars, owners, idle, inbox, current, caller, taken, cancelled,
                 discarded, faulted, late>>

DropOwner(c) ==
  /\ At(c, "releasing")
  /\ owners' = owners \ {c}
  /\ Goto(c, IF owners = {c} THEN "asking" ELSE "ready")
  /\ UNCHANGED <<controlVars, senders, idle, inbox, current, caller, taken, cancelled,
                 discarded, faulted, late>>

AskPending(c) ==
  /\ At(c, "asking")
  /\ idle' = [idle EXCEPT ![c] = pending = {}]
  /\ Goto(c, "stopping")
  /\ UNCHANGED <<controlVars, senders, owners, inbox, current, caller, taken, cancelled,
                 discarded, faulted, late>>

Shutdown(c) ==
  /\ At(c, "stopping")
  /\ Terminate(c, "shutdown")
  /\ Goto(c, "joining")
  /\ UNCHANGED <<senders, owners, idle, inbox, current, caller, taken, cancelled,
                 discarded, faulted, late>>

(***************************************************************************)
(* completion.recv(), only when the worker was idle.                       *)
(***************************************************************************)
Join(c) ==
  /\ At(c, "joining")
  /\ idle[c] => pc[Worker] = "exited"
  /\ Goto(c, "ready")
  /\ UNCHANGED <<controlVars, senders, owners, idle, inbox, current, caller, taken,
                 cancelled, discarded, faulted, late>>

-----------------------------------------------------------------------------
(***************************************************************************)
(* The worker's loop.  `inbox.recv()` fails, and the worker drops its      *)
(* state and signals its completion, once the mailbox is empty and no      *)
(* handle holds a sender.                                                  *)
(***************************************************************************)
Receive ==
  /\ At(Worker, "receive")
  /\ inbox # <<>>
  /\ current' = [current EXCEPT ![Worker] = Head(inbox)]
  /\ inbox' = Tail(inbox)
  /\ Goto(Worker, "check")
  /\ UNCHANGED <<controlVars, senders, owners, idle, caller, taken, cancelled,
                 discarded, faulted, late>>

Exit ==
  /\ At(Worker, "receive")
  /\ inbox = <<>> /\ senders = {}
  /\ Goto(Worker, "exited")
  /\ UNCHANGED <<controlVars, senders, owners, idle, inbox, current, caller, taken,
                 cancelled, discarded, faulted, late>>

(***************************************************************************)
(* worker_control.error(): an ended worker drops the message.              *)
(***************************************************************************)
Check ==
  /\ At(Worker, "check")
  /\ \/ /\ terminal # "live"
        /\ discarded' = discarded \cup {current[Worker]}
        /\ Leave(Worker, "receive")
     \/ /\ terminal = "live"
        /\ Goto(Worker, "poll")
        /\ UNCHANGED <<current, discarded>>
  /\ UNCHANGED <<controlVars, senders, owners, idle, inbox, caller, taken,
                 cancelled, faulted, late>>

(***************************************************************************)
(* The machine's loop: the cancellation check precedes every instruction,  *)
(* and an instruction continues, returns from the method or fails.         *)
(***************************************************************************)
Poll ==
  /\ At(Worker, "poll")
  /\ Goto(Worker, IF terminal = "live" THEN "instruction" ELSE "failing")
  /\ UNCHANGED <<controlVars, senders, owners, idle, inbox, current, caller, taken,
                 cancelled, discarded, faulted, late>>

Instruction ==
  /\ At(Worker, "instruction")
  /\ late' = IF terminal = "live" THEN late ELSE late + 1
  /\ \E place \in {"poll", "completing", "failing"} : Goto(Worker, place)
  /\ UNCHANGED <<controlVars, senders, owners, idle, inbox, current, caller, taken,
                 cancelled, discarded, faulted>>

MethodFails ==
  /\ At(Worker, "failing")
  /\ Terminate(Worker, "failed")
  /\ faulted' = TRUE
  /\ Leave(Worker, "receive")
  /\ UNCHANGED <<senders, owners, idle, inbox, caller, taken, cancelled,
                 discarded, late>>

MethodReturns ==
  /\ At(Worker, "completing")
  /\ Complete(Worker, current[Worker])
  /\ Leave(Worker, "receive")
  /\ UNCHANGED <<senders, owners, idle, inbox, caller, taken, cancelled,
                 discarded, faulted, late>>

(***************************************************************************)
(* What a thread owes after a critical section comes before its next step. *)
(***************************************************************************)
SendCancel(t) == RunCancel(t) /\ UNCHANGED remoteVars
SendReply     == Publish(Worker) /\ UNCHANGED remoteVars

WorkerNext == \/ Receive \/ Exit \/ Check \/ Poll \/ Instruction
              \/ MethodFails \/ MethodReturns \/ SendReply \/ SendCancel(Worker)

(***************************************************************************)
(* What a caller does without being asked to by its program.               *)
(***************************************************************************)
CallerProceeds(c) == \/ Send(c) \/ AwaitEnds(c) \/ DropOwner(c) \/ AskPending(c)
                     \/ Shutdown(c) \/ Join(c) \/ SendCancel(c)

CallerChooses(c) == \/ \E r \in Requests : Call(c, r) \/ Await(c, r)
                    \/ \E d \in Callers : CloneHandle(c, d)
                    \/ CancelCaller(c)
                    \/ DropSender(c)

(***************************************************************************)
(* The worker is gone and no caller is inside an operation.                *)
(***************************************************************************)
Quiet == /\ pc[Worker] = "exited"
         /\ \A c \in Callers : At(c, "ready")
         /\ UNCHANGED vmVars

VmNext == \/ WorkerNext
          \/ \E c \in Callers : CallerProceeds(c) \/ CallerChooses(c)
          \/ Quiet

(***************************************************************************)
(* Coroutines and threads that can take a step are scheduled: a worker at  *)
(* each instruction, a caller inside an operation it began.  Programs need *)
(* not call, await or drop anything, and methods need not terminate.       *)
(***************************************************************************)
VmFairness == /\ WF_vmVars(WorkerNext)
              /\ \A c \in Callers : WF_vmVars(CallerProceeds(c))

VmSpec == VmInit /\ [][VmNext]_vmVars /\ VmFairness

-----------------------------------------------------------------------------
Executing == {"poll", "instruction", "completing", "failing"}
Places    == {"check"} \cup Executing

(***************************************************************************)
(* Every request that still waits for an outcome is where the worker will  *)
(* find it: with the caller that is sending it, in the mailbox, or in the  *)
(* worker's hands.  No accepted request is forgotten by the mailbox.       *)
(***************************************************************************)
PendingReachable ==
  \A r \in pending :
    \/ \E c \in Callers : pc[c] = "sending" /\ current[c] = r
    \/ \E i \in 1..Len(inbox) : inbox[i] = r
    \/ pc[Worker] \in Places /\ current[Worker] = r

(***************************************************************************)
(* The completion witness that lets the compiler accept an await of a      *)
(* later request for all earlier ones of the same caller (E0730): when a   *)
(* request has an outcome, no earlier one of its caller is still pending,  *)
(* and when that outcome is a value, the earlier ones have theirs too.     *)
(***************************************************************************)
AwaitWitness ==
  \A r, q \in Requests :
    /\ caller[r] = caller[q] /\ id[r] # NoId
    /\ published[q] # <<>>
    /\ id[q] # NoId => id[r] < id[q]
    => /\ r \notin pending
       /\ published[q][1] = "ok" => published[r] # <<>>

(***************************************************************************)
(* Containment: once a method of the worker has ended in an error, no      *)
(* other method runs on its possibly inconsistent state.                   *)
(***************************************************************************)
Containment == faulted => pc[Worker] \notin Executing

(***************************************************************************)
(* Cancellation is prompt: over the whole life of a worker at most one     *)
(* instruction executes after the controller has entered a terminal state. *)
(***************************************************************************)
PromptStop == late <= 1

(***************************************************************************)
(* A worker outlives every handle that can still send to it, so the closed-*)
(* mailbox branch of RemoteCall is dead code.                              *)
(***************************************************************************)
MailboxOpen ==
  \A c \in Callers : c \in senders \/ pc[c] = "sending" => pc[Worker] # "exited"

(***************************************************************************)
(* The drop of the last handle blocks only on a worker that executes       *)
(* nothing and only has to leave its loop.                                 *)
(***************************************************************************)
JoinsIdleWorker ==
  \A c \in Callers : pc[c] \in {"stopping", "joining"} /\ idle[c] =>
                       pc[Worker] \notin Executing

(***************************************************************************)
(* The strengthening under which the invariants above are inductive: a     *)
(* thread at a place has what that place needs, and the terminal state is  *)
(* set before the worker can be seen to have failed or been late.          *)
(***************************************************************************)
Scoped ==
  /\ pc[Worker] \in Places => current[Worker] \in Requests
  /\ \A c \in Callers :
       /\ pc[c] \in {"sending", "awaiting"} => current[c] \in Requests
       /\ pc[c] = "sending" => c \in senders
       /\ pc[c] = "releasing" => c \notin senders
  /\ \A r \in Requests : caller[r] # NoRequest => r \in called

Stopped ==
  /\ faulted => terminal # "live" /\ pc[Worker] \notin Executing
  /\ late = 0 \/ (late = 1 /\ terminal # "live" /\ pc[Worker] # "instruction")
  /\ pc[Worker] = "exited" => senders = {}

VmInv == ControlInv /\ VmTypeOK /\ Scoped /\ Stopped /\ PendingReachable

(***************************************************************************)
(* Owner destruction cancels even a method that never returns: every       *)
(* request gets an outcome and the worker leaves its loop.                 *)
(***************************************************************************)
OwnerGoneResolves ==
  (owners = {}) ~> (pc[Worker] = "exited" /\ \A r \in called : published[r] # <<>>)

(***************************************************************************)
(* Destroying a handle returns, although the last one may wait for the     *)
(* worker.                                                                 *)
(***************************************************************************)
DropReturns ==
  \A c \in Callers : (pc[c] = "releasing") ~> (pc[c] = "ready")

(***************************************************************************)
(* The documentation's "Shutdown publishes outstanding errors before       *)
(* reclaiming queued arguments": a message the worker drops unexecuted     *)
(* already has its outcome.                                                *)
(***************************************************************************)
PublishedBeforeReclaim == \A r \in discarded : published[r] # <<>>
=============================================================================
