---------------------------- MODULE NativeRemote ----------------------------
(***************************************************************************)
(* One remote object of the native runtime (runtime/src/host.rs): the      *)
(* actor that remote_spawn starts, its mailbox of raw argument words, the  *)
(* futures of its callers and the release of the last handle.  Nothing     *)
(* frees a word by itself here: arguments are given up by calling the      *)
(* method's thunk, to run or to discard, and a result by the completion's  *)
(* drop unless an await took it.  So this module follows each word.        *)
(*                                                                         *)
(* A message may carry a handle of the very actor it is sent to, which the *)
(* actor then releases itself.                                             *)
(***************************************************************************)
EXTENDS RemoteThreads

VARIABLES pc,            \* where each thread is
          after,         \* where the worker goes on after a handle's release
          holders,       \* callers that hold a handle
          carried,       \* messages whose arguments hold a handle
          closed,        \* remote_release has dropped the mailbox's sender
          idle,          \* `idle` in remote_release
          inbox,         \* the mailbox
          current,       \* the request a thread works on
          caller,        \* the caller that made a request
          future,        \* the receiving end: none, open, taken or dropped
          word,          \* where the result word is
          frees,         \* how often the result word was released
          arguments,     \* how often the argument words were given up
          cancelled      \* callers whose own actor was terminated

actorVars  == <<pc, after, holders, carried, closed, idle, inbox, current, caller>>
wordVars   == <<future, word, frees, arguments>>
nativeVars == <<controlVars, actorVars, wordVars, cancelled>>

Releasing == {"asking", "stopping", "closing", "joining"}
CallerPc  == {"ready", "sending", "blocking", "awaiting"} \cup Releasing
Running   == {"poll", "block", "returning", "unwinding"}
WorkerPc  == {"receive", "check", "reclaim", "completing", "failing", "exited"}
               \cup Running \cup Releasing

NativeTypeOK ==
  /\ ControlTypeOK
  /\ \A c \in Callers : pc[c] \in CallerPc
  /\ pc \in [Threads -> CallerPc \cup WorkerPc] /\ pc[Worker] \in WorkerPc
  /\ after \in {"receive", "completing", "failing"}
  /\ holders \subseteq Callers /\ carried \subseteq called
  /\ closed \in BOOLEAN /\ idle \in [Threads -> BOOLEAN]
  /\ inbox \in Seq(Requests)
  /\ current \in [Threads -> Requests \cup {NoRequest}]
  /\ caller \in [Requests -> Callers \cup {NoRequest}]
  /\ future \in [Requests -> {"none", "open", "taken", "dropped"}]
  /\ word \in [Requests -> {"none", "worker", "channel", "awaiter", "freed"}]
  /\ frees \in [Requests -> Nat] /\ arguments \in [Requests -> Nat]
  /\ cancelled \subseteq Callers
  /\ \A c \in Callers : pc[c] \in {"sending", "blocking"} =>
                         c \in holders /\ current[c] \in Requests

NativeInit ==
  /\ ControlInit
  /\ pc = [t \in Threads |-> IF t = Worker THEN "receive" ELSE "ready"]
  /\ after = "receive"
  /\ \E c \in Callers : holders = {c}
  /\ carried = {} /\ closed = FALSE
  /\ idle = [t \in Threads |-> FALSE]
  /\ inbox = <<>>
  /\ current = [t \in Threads |-> NoRequest]
  /\ caller = [r \in Requests |-> NoRequest]
  /\ future = [r \in Requests |-> "none"] /\ word = [r \in Requests |-> "none"]
  /\ frees = [r \in Requests |-> 0] /\ arguments = [r \in Requests |-> 0]
  /\ cancelled = {}

Goto(t, place) == pc' = [pc EXCEPT ![t] = place]
At(t, place)   == pc[t] = place /\ ~Busy(t)
Leave(t)       == current' = [current EXCEPT ![t] = NoRequest]

(***************************************************************************)
(* Drop of a completion: foster_release_word on its result.                *)
(***************************************************************************)
Free(r) == /\ word' = [word EXCEPT ![r] = "freed"]
           /\ frees' = [frees EXCEPT ![r] = @ + 1]

(***************************************************************************)
(* The receiving end goes away, with what is in the channel.               *)
(***************************************************************************)
DropReceiver(r) ==
  /\ future' = [future EXCEPT ![r] = "dropped"]
  /\ IF word[r] = "channel" THEN Free(r) ELSE UNCHANGED <<word, frees>>

(***************************************************************************)
(* The thread gives up one handle; only the last starts remote_release.    *)
(***************************************************************************)
GiveUp(t, h, m, place) ==
  /\ holders' = holders \ h /\ carried' = carried \ m
  /\ IF holders' \cup carried' = {} THEN Goto(t, "asking") ELSE Goto(t, place)

-----------------------------------------------------------------------------
(***************************************************************************)
(* Mutants: plausible mistakes, each of which breaks a property below.     *)
(* They are no part of the specification.                                  *)
(***************************************************************************)
AwaitKeepsRelease(c) ==         \* forgets `completion.release = 0`
  /\ At(c, "awaiting")
  /\ published[current[c]] # <<>>
  /\ future' = [future EXCEPT ![current[c]] = "dropped"]
  /\ word' = [word EXCEPT ![current[c]] = IF @ = "channel" THEN "awaiter" ELSE @]
  /\ frees' = [frees EXCEPT ![current[c]] = IF word[current[c]] = "channel" THEN @ + 1 ELSE @]
  /\ Leave(c) /\ Goto(c, "ready")
  /\ UNCHANGED <<controlVars, after, holders, carried, closed, idle, inbox, caller,
                 arguments, cancelled>>

FailSilently ==                 \* publishes only the failing request
  /\ At(Worker, "failing")
  /\ terminal' = IF terminal = "live" THEN "failed" ELSE terminal
  /\ cancels' = [cancels EXCEPT ![Worker] = pending \cap {current[Worker]}]
  /\ cancelWith' = [cancelWith EXCEPT ![Worker] = "failed"]
  /\ pending' = pending \ {current[Worker]}
  /\ Leave(Worker) /\ Goto(Worker, "receive")
  /\ UNCHANGED <<next, id, called, reserved, published, after, holders, carried, closed,
                 idle, inbox, caller, wordVars, cancelled>>

CloseAndJoin(t) ==              \* no current_actor check
  /\ At(t, "closing")
  /\ closed' = TRUE
  /\ Goto(t, IF idle[t] THEN "joining" ELSE IF t = Worker THEN after ELSE "ready")
  /\ UNCHANGED <<controlVars, after, holders, carried, idle, inbox, current, caller,
                 wordVars, cancelled>>

PollSkipped ==                  \* no cancellation point at block entry
  /\ At(Worker, "poll")
  /\ Goto(Worker, "block")
  /\ UNCHANGED <<controlVars, after, holders, carried, closed, idle, inbox, current,
                 caller, wordVars, cancelled>>

-----------------------------------------------------------------------------
(***************************************************************************)
(* remote_call: the request is registered and, whether or not the actor    *)
(* has ended, sent, since only the actor can discard the arguments.  A     *)
(* call with borrowed arguments, or on a borrowed object, then blocks for  *)
(* its completion, without looking at the caller's own cancellation.       *)
(***************************************************************************)
Call(c, r, handle) ==
  /\ At(c, "ready") /\ c \in holders
  /\ Register(c, r)
  /\ caller' = [caller EXCEPT ![r] = c]
  /\ current' = [current EXCEPT ![c] = r]
  /\ carried' = IF handle THEN carried \cup {r} ELSE carried
  /\ Goto(c, "sending")
  /\ UNCHANGED <<after, holders, closed, idle, inbox, wordVars, cancelled>>

Send(c) ==
  /\ At(c, "sending")
  /\ inbox' = Append(inbox, current[c])
  /\ \/ /\ Goto(c, "blocking")
        /\ UNCHANGED <<current, future>>
     \/ /\ Leave(c) /\ Goto(c, "ready")
        /\ future' = [future EXCEPT ![current[c]] = "open"]
  /\ UNCHANGED <<controlVars, after, holders, carried, closed, idle, caller, word, frees,
                 arguments, cancelled>>

Unblock(c) ==
  /\ At(c, "blocking")
  /\ published[current[c]] # <<>>
  /\ Leave(c) /\ Goto(c, "ready")
  /\ future' = [future EXCEPT ![current[c]] = "open"]
  /\ UNCHANGED <<controlVars, after, holders, carried, closed, idle, inbox, caller, word,
                 frees, arguments, cancelled>>

(***************************************************************************)
(* future_await takes the receiver; its loop ends on the caller's own      *)
(* cancellation or with an outcome, whose word it keeps.                   *)
(***************************************************************************)
Await(c, r) ==
  /\ At(c, "ready")
  /\ caller[r] = c /\ future[r] = "open"
  /\ future' = [future EXCEPT ![r] = "taken"]
  /\ current' = [current EXCEPT ![c] = r]
  /\ Goto(c, "awaiting")
  /\ UNCHANGED <<controlVars, after, holders, carried, closed, idle, inbox, caller, word,
                 frees, arguments, cancelled>>

AwaitTakes(c) ==
  /\ At(c, "awaiting")
  /\ published[current[c]] # <<>>
  /\ future' = [future EXCEPT ![current[c]] = "dropped"]
  /\ word' = [word EXCEPT ![current[c]] = IF @ = "channel" THEN "awaiter" ELSE @]
  /\ Leave(c) /\ Goto(c, "ready")
  /\ UNCHANGED <<controlVars, after, holders, carried, closed, idle, inbox, caller, frees,
                 arguments, cancelled>>

AwaitCancelled(c) ==
  /\ At(c, "awaiting") /\ c \in cancelled
  /\ DropReceiver(current[c])
  /\ Leave(c) /\ Goto(c, "ready")
  /\ UNCHANGED <<controlVars, after, holders, carried, closed, idle, inbox, caller,
                 arguments, cancelled>>

FreeFuture(c, r) ==
  /\ At(c, "ready")
  /\ caller[r] = c /\ future[r] = "open"
  /\ DropReceiver(r)
  /\ UNCHANGED <<controlVars, actorVars, arguments, cancelled>>

(***************************************************************************)
(* The caller is an actor that was terminated.  It notices at its polls,   *)
(* and not while it cleans up, so it may still begin any operation.        *)
(***************************************************************************)
CancelCaller(c) ==
  /\ c \notin cancelled
  /\ cancelled' = cancelled \cup {c}
  /\ UNCHANGED <<controlVars, actorVars, wordVars>>

(***************************************************************************)
(* Handles are reference-counted objects; the last release calls           *)
(* remote_release: has_pending, terminate, drop of the sender, and a join  *)
(* of an idle actor other than the one that runs this.                     *)
(***************************************************************************)
CloneHandle(c, d) ==
  /\ At(c, "ready") /\ c \in holders
  /\ At(d, "ready") /\ d \notin holders
  /\ holders' = holders \cup {d}
  /\ UNCHANGED <<controlVars, pc, after, carried, closed, idle, inbox, current, caller,
                 wordVars, cancelled>>

DropHandle(c) ==
  /\ At(c, "ready") /\ c \in holders
  /\ GiveUp(c, {c}, {}, "ready")
  /\ UNCHANGED <<controlVars, after, closed, idle, inbox, current, caller, wordVars,
                 cancelled>>

AskPending(t) ==
  /\ At(t, "asking")
  /\ idle' = [idle EXCEPT ![t] = pending = {}]
  /\ Goto(t, "stopping")
  /\ UNCHANGED <<controlVars, after, holders, carried, closed, inbox, current, caller,
                 wordVars, cancelled>>

Shutdown(t) ==
  /\ At(t, "stopping")
  /\ Terminate(t, "shutdown")
  /\ Goto(t, "closing")
  /\ UNCHANGED <<after, holders, carried, closed, idle, inbox, current, caller, wordVars,
                 cancelled>>

Close(t) ==
  /\ At(t, "closing")
  /\ closed' = TRUE
  /\ Goto(t, IF t = Worker THEN after ELSE IF idle[t] THEN "joining" ELSE "ready")
  /\ UNCHANGED <<controlVars, after, holders, carried, idle, inbox, current, caller,
                 wordVars, cancelled>>

Join(t) ==
  /\ At(t, "joining")
  /\ pc[Worker] = "exited"
  /\ Goto(t, "ready")
  /\ UNCHANGED <<controlVars, after, holders, carried, closed, idle, inbox, current,
                 caller, wordVars, cancelled>>

-----------------------------------------------------------------------------
(***************************************************************************)
(* The actor's loop.                                                       *)
(***************************************************************************)
Receive ==
  /\ At(Worker, "receive")
  /\ inbox # <<>>
  /\ current' = [current EXCEPT ![Worker] = Head(inbox)]
  /\ inbox' = Tail(inbox)
  /\ Goto(Worker, "check")
  /\ UNCHANGED <<controlVars, after, holders, carried, closed, idle, caller, wordVars,
                 cancelled>>

Exit ==
  /\ At(Worker, "receive")
  /\ inbox = <<>> /\ closed
  /\ Goto(Worker, "exited")
  /\ UNCHANGED <<controlVars, after, holders, carried, closed, idle, inbox, current,
                 caller, wordVars, cancelled>>

Check ==
  /\ At(Worker, "check")
  /\ Goto(Worker, IF terminal # "live" \/ id[current[Worker]] = NoId
                    THEN "reclaim" ELSE "poll")
  /\ UNCHANGED <<controlVars, after, holders, carried, closed, idle, inbox, current,
                 caller, wordVars, cancelled>>

(***************************************************************************)
(* The thunk is called to discard: every managed argument is released.     *)
(***************************************************************************)
Reclaim ==
  /\ At(Worker, "reclaim")
  /\ arguments' = [arguments EXCEPT ![current[Worker]] = @ + 1]
  /\ after' = "receive"
  /\ IF current[Worker] \in carried
       THEN GiveUp(Worker, {}, {current[Worker]}, "receive")
       ELSE Goto(Worker, "receive") /\ UNCHANGED <<holders, carried>>
  /\ Leave(Worker)
  /\ UNCHANGED <<controlVars, closed, idle, inbox, caller, future, word, frees, cancelled>>

(***************************************************************************)
(* The thunk is called to run: cancellation is polled at block entry.      *)
(***************************************************************************)
Poll ==
  /\ At(Worker, "poll")
  /\ Goto(Worker, IF terminal = "live" THEN "block" ELSE "unwinding")
  /\ UNCHANGED <<controlVars, after, holders, carried, closed, idle, inbox, current,
                 caller, wordVars, cancelled>>

Block ==
  /\ At(Worker, "block")
  /\ \E place \in {"poll", "returning", "unwinding"} : Goto(Worker, place)
  /\ UNCHANGED <<controlVars, after, holders, carried, closed, idle, inbox, current,
                 caller, wordVars, cancelled>>

(***************************************************************************)
(* The method's own cleanup, on success or failure, releases what it was   *)
(* given; a handle among it may be the last one.                           *)
(***************************************************************************)
Cleanup ==
  \E done \in {<<"returning", "completing">>, <<"unwinding", "failing">>} :
    /\ At(Worker, done[1])
    /\ arguments' = [arguments EXCEPT ![current[Worker]] = @ + 1]
    /\ word' = IF done[2] = "completing"
                 THEN [word EXCEPT ![current[Worker]] = "worker"] ELSE word
    /\ after' = done[2]
    /\ IF current[Worker] \in carried
         THEN GiveUp(Worker, {}, {current[Worker]}, done[2])
         ELSE Goto(Worker, done[2]) /\ UNCHANGED <<holders, carried>>
    /\ UNCHANGED <<controlVars, closed, idle, inbox, current, caller, future, frees,
                   cancelled>>

MethodFails ==
  /\ At(Worker, "failing")
  /\ Terminate(Worker, "failed")
  /\ Leave(Worker) /\ Goto(Worker, "receive")
  /\ UNCHANGED <<after, holders, carried, closed, idle, inbox, caller, wordVars, cancelled>>

(***************************************************************************)
(* A value whose request was already decided is released with its          *)
(* completion; otherwise it is sent, and released if nobody can receive.   *)
(***************************************************************************)
MethodReturns ==
  /\ At(Worker, "completing")
  /\ Complete(Worker, current[Worker])
  /\ IF current[Worker] \in pending THEN UNCHANGED <<word, frees>>
                                    ELSE Free(current[Worker])
  /\ Leave(Worker) /\ Goto(Worker, "receive")
  /\ UNCHANGED <<after, holders, carried, closed, idle, inbox, caller, future, arguments,
                 cancelled>>

SendReply ==
  /\ Publish(Worker)
  /\ \E r \in reserved[Worker] :
       IF future[r] = "dropped" THEN Free(r)
       ELSE word' = [word EXCEPT ![r] = "channel"] /\ UNCHANGED frees
  /\ UNCHANGED <<actorVars, future, arguments, cancelled>>

SendCancel(t) == RunCancel(t) /\ UNCHANGED <<actorVars, wordVars, cancelled>>

-----------------------------------------------------------------------------
WorkerNext == \/ Receive \/ Exit \/ Check \/ Reclaim \/ Poll \/ Block \/ Cleanup
              \/ MethodFails \/ MethodReturns \/ SendReply

Releases(t) == AskPending(t) \/ Shutdown(t) \/ Close(t) \/ Join(t) \/ SendCancel(t)

CallerProceeds(c) == Send(c) \/ Unblock(c) \/ AwaitTakes(c) \/ AwaitCancelled(c)

CallerChooses(c) ==
  \/ \E r \in Requests : \/ \E handle \in BOOLEAN : Call(c, r, handle)
                         \/ Await(c, r) \/ FreeFuture(c, r)
  \/ \E d \in Callers : CloneHandle(c, d)
  \/ CancelCaller(c) \/ DropHandle(c)

Quiet == /\ pc[Worker] = "exited"
         /\ \A c \in Callers : At(c, "ready")
         /\ UNCHANGED nativeVars

NativeNext == \/ WorkerNext
              \/ \E t \in Threads : Releases(t)
              \/ \E c \in Callers : CallerProceeds(c) \/ CallerChooses(c)
              \/ Quiet

(***************************************************************************)
(* The scheduler runs every actor and thread that can take a step; the     *)
(* timer suspension in cancellation_point keeps busy actors from starving  *)
(* others.  Programs need not begin anything, methods need not return.     *)
(***************************************************************************)
NativeFairness ==
  /\ WF_nativeVars(WorkerNext \/ Releases(Worker))
  /\ \A c \in Callers : WF_nativeVars(CallerProceeds(c) \/ Releases(c))

NativeSpec == NativeInit /\ [][NativeNext]_nativeVars /\ NativeFairness

-----------------------------------------------------------------------------
(***************************************************************************)
(* A result word has one owner at a time: it is released once or given to  *)
(* an awaiter, never both, however await, cancellation, release of the     *)
(* future and the reply race.                                              *)
(***************************************************************************)
ResultFreedOnce ==
  \A r \in Requests : /\ frees[r] <= 1
                      /\ frees[r] = 1 <=> word[r] = "freed"

(***************************************************************************)
(* No result leaks: a word waits in a channel only while something can     *)
(* still receive or drop it, and with the worker only until it replies.    *)
(***************************************************************************)
NoResultLeak ==
  \A r \in Requests :
    /\ word[r] = "channel" => future[r] # "dropped"
    /\ word[r] = "worker" =>
         \/ r \in reserved[Worker]
         \/ current[Worker] = r /\ pc[Worker] \in {"completing"} \cup Releasing

(***************************************************************************)
(* Argument words are given up at most once, by running or by discarding.  *)
(***************************************************************************)
ArgumentsOnce == \A r \in Requests : arguments[r] <= 1

(***************************************************************************)
(* Together: every word that crosses the boundary to generated code is     *)
(* accounted for.                                                          *)
(***************************************************************************)
WordsFreedOnce == NativeTypeOK /\ ResultFreedOnce /\ NoResultLeak /\ ArgumentsOnce

(***************************************************************************)
(* The comment at the failure path, "Publish every outstanding failure     *)
(* before reclaiming queued arguments", also for requests that arrive      *)
(* later: on a failed actor no arguments are given up undecided.           *)
(***************************************************************************)
FailurePublishes ==
  terminal = "failed" /\ ~Busy(Worker) =>
    \A r \in called : arguments[r] = 1 => published[r] # <<>>

(***************************************************************************)
(* remote_release waits only for another actor, and one that runs no       *)
(* method: an actor that discards the last handle of itself goes on.       *)
(***************************************************************************)
JoinsAnother ==
  \A t \in Threads : pc[t] = "joining" => t # Worker /\ pc[Worker] \notin Running

(***************************************************************************)
(* Once the last handle is gone the actor ends, every request has an       *)
(* outcome and every argument word has been given up.                      *)
(***************************************************************************)
Teardown ==
  (holders \cup carried = {}) ~>
    /\ pc[Worker] = "exited"
    /\ \A r \in called : published[r] # <<>> /\ arguments[r] = 1
=============================================================================
