---------------------------- MODULE RemoteOutcome ----------------------------
(***************************************************************************)
(* The promise a remote object makes to its callers, as one state machine: *)
(* a worker that is live until it fails or its owner is destroyed, and     *)
(* requests that each get one outcome.  Nothing of the mechanism (locks,   *)
(* mailboxes, callbacks) is visible here; RemoteControl implements it.     *)
(***************************************************************************)

CONSTANT Requests        \* the remote calls made in a behaviour

VARIABLES worker,        \* "live", or why the worker ended
          outcome        \* the outcome each request has, or its absence

vars == <<worker, outcome>>

Errors == {"shutdown", "failed"}

Init == /\ worker = "live"
        /\ outcome = [r \in Requests |-> "uncalled"]

(***************************************************************************)
(* A call on a live worker is accepted; a call that reaches a worker that  *)
(* has ended resolves at once with the reason, and is never executed.      *)
(***************************************************************************)
Call(r) ==
  /\ outcome[r] = "uncalled"
  /\ outcome' = [outcome EXCEPT ![r] = IF worker = "live" THEN "pending" ELSE worker]
  /\ UNCHANGED worker

Resolve(r) ==
  /\ outcome[r] = "pending"
  /\ outcome' = [outcome EXCEPT ![r] = "ok"]
  /\ UNCHANGED worker

(***************************************************************************)
(* Ending the worker decides every outstanding request, in one step.       *)
(***************************************************************************)
End(error) ==
  /\ worker = "live"
  /\ worker' = error
  /\ outcome' = [r \in Requests |-> IF outcome[r] = "pending" THEN error ELSE outcome[r]]

Next == \/ \E r \in Requests : Call(r) \/ Resolve(r)
        \/ \E error \in Errors : End(error)

Spec == Init /\ [][Next]_vars
=============================================================================
