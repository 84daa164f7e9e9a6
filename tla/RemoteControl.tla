---------------------------- MODULE RemoteControl ----------------------------
(***************************************************************************)
(* The lifecycle controller shared by both backends (host/src/remote.rs):  *)
(* a mutex around {terminal, next, pending}.  Each critical section is one *)
(* action.  What a thread still has to do after it released the lock (run  *)
(* the cancellation callbacks it took out, publish the value it reserved)  *)
(* is separate, so that other threads' steps interleave with it.           *)
(*                                                                         *)
(* A request is the execution of one remote call: its response channel is  *)
(* published[r], and its callback sends an error on that channel.          *)
(***************************************************************************)
EXTENDS Integers, Sequences, FiniteSets

CONSTANTS Threads,       \* threads and coroutines that reach the controller
          Requests       \* the remote calls made in a behaviour

ASSUME RequestsFinite == IsFiniteSet(Requests)

VARIABLES terminal,      \* State.terminal: "live" stands for None
          next,          \* State.next
          pending,       \* State.pending: requests whose callback is stored
          id,            \* the identity register() returned for a request
          called,        \* requests register() was called for
          reserved,      \* requests whose complete() returned true to a thread
          cancels,       \* callbacks a thread has taken out and not yet run
          cancelWith,    \* the error those callbacks are run with
          published      \* outcomes sent on each request's response channel

controlVars == <<terminal, next, pending, id, called, reserved, cancels,
                 cancelWith, published>>

Errors   == {"shutdown", "failed"}
Outcomes == {"ok"} \cup Errors
NoId     == -1

ControlTypeOK ==
  /\ terminal \in {"live"} \cup Errors
  /\ next \in Nat
  /\ pending \subseteq Requests
  /\ id \in [Requests -> Nat \cup {NoId}]
  /\ called \subseteq Requests
  /\ reserved \in [Threads -> SUBSET Requests]
  /\ cancels \in [Threads -> SUBSET Requests]
  /\ cancelWith \in [Threads -> {"live"} \cup Errors]
  /\ published \in [Requests -> Seq(Outcomes)]

ControlInit ==
  /\ terminal = "live"
  /\ next = 0
  /\ pending = {}
  /\ id = [r \in Requests |-> NoId]
  /\ called = {}
  /\ reserved = [t \in Threads |-> {}]
  /\ cancels = [t \in Threads |-> {}]
  /\ cancelWith = [t \in Threads |-> "live"]
  /\ published = [r \in Requests |-> <<>>]

(***************************************************************************)
(* A thread between a critical section and the end of the call it made.    *)
(***************************************************************************)
Busy(t) == cancels[t] # {} \/ reserved[t] # {}

-----------------------------------------------------------------------------
(***************************************************************************)
(* Mutants: plausible mistakes in the three critical sections, each of     *)
(* which breaks a property below.  They are no part of the specification.  *)
(***************************************************************************)

CompleteUnchecked(t, r) ==      \* reports success without owning the request
  /\ ~Busy(t)
  /\ id[r] # NoId
  /\ pending' = pending \ {r}
  /\ reserved' = [reserved EXCEPT ![t] = {r}]
  /\ UNCHANGED <<terminal, next, id, called, cancels, cancelWith, published>>

TerminateAgain(t, error) ==     \* a later error replaces the first one
  /\ ~Busy(t)
  /\ terminal' = error
  /\ cancels' = [cancels EXCEPT ![t] = pending]
  /\ cancelWith' = [cancelWith EXCEPT ![t] = error]
  /\ pending' = {}
  /\ UNCHANGED <<next, id, called, reserved, published>>

-----------------------------------------------------------------------------
(***************************************************************************)
(* Control::register.  On an ended worker the callback runs right after    *)
(* the lock is released and no identity is given out.                      *)
(***************************************************************************)
Register(t, r) ==
  /\ ~Busy(t)
  /\ r \notin called
  /\ called' = called \cup {r}
  /\ \/ /\ terminal # "live"
        /\ cancels' = [cancels EXCEPT ![t] = {r}]
        /\ cancelWith' = [cancelWith EXCEPT ![t] = terminal]
        /\ UNCHANGED <<next, pending, id>>
     \/ /\ terminal = "live"
        /\ id' = [id EXCEPT ![r] = next]
        /\ next' = next + 1
        /\ pending' = pending \cup {r}
        /\ UNCHANGED <<cancels, cancelWith>>
  /\ UNCHANGED <<terminal, reserved, published>>

(***************************************************************************)
(* Control::complete: true, and the callback forgotten, exactly when the   *)
(* request is still pending.  Only then does the caller publish the value. *)
(***************************************************************************)
Complete(t, r) ==
  /\ ~Busy(t)
  /\ id[r] # NoId
  /\ \/ /\ r \in pending
        /\ pending' = pending \ {r}
        /\ reserved' = [reserved EXCEPT ![t] = {r}]
     \/ /\ r \notin pending
        /\ UNCHANGED <<pending, reserved>>
  /\ UNCHANGED <<terminal, next, id, called, cancels, cancelWith, published>>

(***************************************************************************)
(* Control::terminate: the first error wins and takes every callback.      *)
(***************************************************************************)
Terminate(t, error) ==
  /\ ~Busy(t)
  /\ \/ /\ terminal # "live"
        /\ UNCHANGED <<terminal, pending, cancels, cancelWith>>
     \/ /\ terminal = "live"
        /\ terminal' = error
        /\ cancels' = [cancels EXCEPT ![t] = pending]
        /\ cancelWith' = [cancelWith EXCEPT ![t] = error]
        /\ pending' = {}
  /\ UNCHANGED <<next, id, called, reserved, published>>

(***************************************************************************)
(* One cancellation callback, outside the lock: the loop of terminate runs *)
(* them in the order of the map's keys.                                    *)
(***************************************************************************)
RunCancel(t) ==
  \E r \in cancels[t] :
    /\ \A q \in cancels[t] : id[r] <= id[q]
    /\ published' = [published EXCEPT ![r] = Append(@, cancelWith[t])]
    /\ cancels' = [cancels EXCEPT ![t] = @ \ {r}]
    /\ UNCHANGED <<terminal, next, pending, id, called, reserved, cancelWith>>

(***************************************************************************)
(* The winner of complete() sends the value on the response channel.       *)
(***************************************************************************)
Publish(t) ==
  \E r \in reserved[t] :
    /\ published' = [published EXCEPT ![r] = Append(@, "ok")]
    /\ reserved' = [reserved EXCEPT ![t] = @ \ {r}]
    /\ UNCHANGED <<terminal, next, pending, id, called, cancels, cancelWith>>

ControlNext ==
  \E t \in Threads :
    \/ \E r \in Requests : Register(t, r) \/ Complete(t, r)
    \/ \E error \in Errors : Terminate(t, error)
    \/ RunCancel(t)
    \/ Publish(t)

(***************************************************************************)
(* Both loops run on the thread that entered them and hold no lock, so a   *)
(* thread that is scheduled finishes them.                                 *)
(***************************************************************************)
ControlFairness ==
  \A t \in Threads : WF_controlVars(RunCancel(t)) /\ WF_controlVars(Publish(t))

ControlSpec == ControlInit /\ [][ControlNext]_controlVars /\ ControlFairness

-----------------------------------------------------------------------------
(***************************************************************************)
(* Exactly-once completion: whatever completions, failures and shutdowns   *)
(* race, no response channel ever carries two outcomes.                    *)
(***************************************************************************)
ExactlyOnce == \A r \in Requests : Len(published[r]) <= 1

(***************************************************************************)
(* No request is lost between the critical sections: one that was accepted *)
(* and has no outcome yet is stored in the map, held by exactly one thread *)
(* that took its callback out, or reserved by the thread that completed it.*)
(***************************************************************************)
Holds(t, r) == r \in cancels[t] \/ r \in reserved[t]

Conserved ==
  \A r \in Requests :
    /\ r \in called <=> \/ r \in pending
                        \/ \E t \in Threads : Holds(t, r)
                        \/ published[r] # <<>>
    /\ r \in pending => published[r] = <<>> /\ \A t \in Threads : ~Holds(t, r)
    /\ \A t \in Threads : Holds(t, r) => published[r] = <<>>
    /\ \A t \in Threads : ~(r \in cancels[t] /\ r \in reserved[t])
    /\ \A t, u \in Threads : Holds(t, r) /\ Holds(u, r) => t = u

(***************************************************************************)
(* Callbacks outlive the critical section but not the error they were      *)
(* taken out for, and nothing is stored once that error is set.            *)
(***************************************************************************)
TerminalDrains ==
  /\ terminal # "live" => pending = {}
  /\ \A t \in Threads :
       cancels[t] # {} => terminal # "live" /\ cancelWith[t] = terminal

ControlInv == ControlTypeOK /\ ExactlyOnce /\ Conserved /\ TerminalDrains

(***************************************************************************)
(* The terminal state is sticky, and an outcome on a channel is neither    *)
(* replaced nor withdrawn (a failure after a shutdown, or the reverse).    *)
(***************************************************************************)
Sticky ==
  [][/\ terminal # "live" => terminal' = terminal
     /\ \A r \in Requests : published[r] # <<>> => published'[r] = published[r]]_controlVars

(***************************************************************************)
(* The controller implements the promise of RemoteOutcome: a request is    *)
(* decided in the critical section that takes its callback out of the map, *)
(* before the callback runs.                                               *)
(***************************************************************************)
Decided(r) ==
  IF published[r] # <<>> THEN published[r][1]
  ELSE IF \E t \in Threads : r \in reserved[t] THEN "ok"
  ELSE IF \E t \in Threads : r \in cancels[t] THEN terminal
  ELSE IF r \in pending THEN "pending"
  ELSE "uncalled"

Promise == INSTANCE RemoteOutcome
             WITH worker <- terminal, outcome <- [r \in Requests |-> Decided(r)]

KeepsPromise == Promise!Spec
=============================================================================
