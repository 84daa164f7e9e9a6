---------------------------- MODULE RemoteThreads ----------------------------
(***************************************************************************)
(* Who uses the controller of one remote, in either backend: the callers,  *)
(* which hold handles, and the worker, which runs the methods.             *)
(***************************************************************************)
EXTENDS RemoteControl

CONSTANTS Callers, Worker

ASSUME CallersAndWorker == Threads = Callers \cup {Worker} /\ Worker \notin Callers

\* What a thread that works on no request works on.
NoRequest == "none"

ASSUME NoRequestFresh == NoRequest \notin Callers /\ NoRequest \notin Requests
=============================================================================
