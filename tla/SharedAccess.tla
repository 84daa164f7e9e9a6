---------------------------- MODULE SharedAccess ----------------------------
(***************************************************************************)
(* A value of one owner that remote workers read while the owner changes   *)
(* it: SharedValue and its AccessGate (vm/src/value.rs).  The owner runs   *)
(* the operations of a slot whose storage is shared; a viewer is the       *)
(* worker of a `remote ref` view, or of a request with a borrow-mode       *)
(* argument, and holds a read lease for as long as its invocation runs.    *)
(*                                                                         *)
(* `value` is a version: what is stored is left out, and a commit of a     *)
(* changed copy is the next version.                                       *)
(***************************************************************************)
EXTENDS Integers, FiniteSets

CONSTANTS Owner, Viewers,
          MaxRuns        \* bound on a viewer's invocations and the owner's changes

Threads == Viewers \cup {Owner}

ASSUME SharedThreads == Owner \notin Viewers /\ IsFiniteSet(Viewers)
ASSUME SharedBounds  == MaxRuns \in Nat

VARIABLES readers, writer, \* AccessState, under the gate's mutex
          value,           \* the shared storage
          pc,              \* where each thread is
          write,           \* the mode of a thread's lease
          copy,            \* the copy a thread took when its lease began
          outcome,         \* what was published of a viewer's invocation
          runs             \* invocations a viewer, changes the owner began

sharedVars == <<readers, writer, value, pc, write, copy, outcome, runs>>

SharedTypeOK ==
  /\ readers \in Nat /\ writer \in BOOLEAN
  /\ value \in Nat
  /\ pc \in [Threads -> {"ready", "acquiring", "waiting", "granted", "holding",
                         "committed", "returned"}]
  /\ write \in [Threads -> BOOLEAN]
  /\ copy \in [Threads -> Nat]
  /\ outcome \in [Viewers -> {"none", "ok", "failed", "cancelled"}]
  /\ runs \in [Threads -> Nat]

SharedInit ==
  /\ readers = 0 /\ writer = FALSE
  /\ value = 0
  /\ pc = [t \in Threads |-> "ready"]
  /\ write = [t \in Threads |-> FALSE]
  /\ copy = [t \in Threads |-> 0]
  /\ outcome = [v \in Viewers |-> "none"]
  /\ runs = [t \in Threads |-> 0]

Step(t, from, to) == pc[t] = from /\ pc' = [pc EXCEPT ![t] = to]

Blocked(mode) == writer \/ (mode /\ readers > 0)

\* The effect of notify_all: every thread in the condition variable re-tests.
NotifyAll(f) == [t \in Threads |-> IF f[t] = "waiting" THEN "acquiring" ELSE f[t]]

Leased == {"granted", "holding", "committed"}

-----------------------------------------------------------------------------
(***************************************************************************)
(* Mutants: plausible mistakes, each of which breaks a property below.     *)
(* They are no part of the specification.                                  *)
(***************************************************************************)

ReleaseSilent(t) ==             \* forgets to notify the waiting threads
  /\ pc[t] \in {"holding", "committed"}
  /\ pc' = [pc EXCEPT ![t] = IF t = Owner THEN "ready" ELSE "returned"]
  /\ writer' = (writer /\ ~write[t])
  /\ readers' = IF write[t] THEN readers ELSE readers - 1
  /\ UNCHANGED <<value, write, copy, outcome, runs>>

ReleaseWriterOnly(t) ==         \* a reader's lease is never given back
  /\ pc[t] \in {"holding", "committed"}
  /\ pc' = NotifyAll([pc EXCEPT ![t] = IF t = Owner THEN "ready" ELSE "returned"])
  /\ writer' = FALSE
  /\ readers' = readers
  /\ UNCHANGED <<value, write, copy, outcome, runs>>

PublishEarly(v) ==              \* the reply precedes the end of the lease
  /\ pc[v] \in {"holding", "returned"}
  /\ outcome[v] = "none"
  /\ outcome' = [outcome EXCEPT ![v] = "ok"]
  /\ pc' = [pc EXCEPT ![v] = IF @ = "returned" THEN "ready" ELSE @]
  /\ UNCHANGED <<readers, writer, value, write, copy, runs>>

CommitLate ==                   \* the change is stored after the lease ended
  /\ write[Owner]
  /\ pc[Owner] = "ready" /\ value = copy[Owner]
  /\ value' = copy[Owner] + 1
  /\ UNCHANGED <<readers, writer, pc, write, copy, outcome, runs>>
-----------------------------------------------------------------------------
(***************************************************************************)
(* The owner begins an operation on the slot: read and argument take a     *)
(* read lease; write, replace, reshape and a method call on the shared     *)
(* receiver take a write lease.                                            *)
(***************************************************************************)
OwnerBegins ==
  /\ Step(Owner, "ready", "acquiring")
  /\ \/ /\ write' = [write EXCEPT ![Owner] = FALSE]
        /\ UNCHANGED runs
     \/ /\ runs[Owner] < MaxRuns
        /\ runs' = [runs EXCEPT ![Owner] = @ + 1]
        /\ write' = [write EXCEPT ![Owner] = TRUE]
  /\ UNCHANGED <<readers, writer, value, copy, outcome>>

(***************************************************************************)
(* A viewer's worker, unless it has ended, starts an invocation:           *)
(* read_snapshot of the viewed or borrowed value.                          *)
(***************************************************************************)
ViewerBegins(v) ==
  /\ Step(v, "ready", "acquiring")
  /\ outcome[v] \in {"none", "ok"}
  /\ runs[v] < MaxRuns
  /\ runs' = [runs EXCEPT ![v] = @ + 1]
  /\ outcome' = [outcome EXCEPT ![v] = "none"]
  /\ UNCHANGED <<readers, writer, value, write, copy>>

(***************************************************************************)
(* SharedValue::acquire: one pass of the loop under the gate's mutex, and  *)
(* the wait that gives it up.  A condition variable may wake by itself.    *)
(***************************************************************************)
Acquire(t) ==
  /\ \/ /\ Blocked(write[t])
        /\ Step(t, "acquiring", "waiting")
        /\ UNCHANGED <<readers, writer>>
     \/ /\ ~Blocked(write[t])
        /\ Step(t, "acquiring", "granted")
        /\ writer' = write[t]
        /\ readers' = IF write[t] THEN readers ELSE readers + 1
  /\ UNCHANGED <<value, write, copy, outcome, runs>>

SpuriousWake(t) ==
  /\ Step(t, "waiting", "acquiring")
  /\ UNCHANGED <<readers, writer, value, write, copy, outcome, runs>>

(***************************************************************************)
(* The clone under the value's own mutex, once the lease is held.          *)
(***************************************************************************)
Snapshot(t) ==
  /\ Step(t, "granted", "holding")
  /\ copy' = [copy EXCEPT ![t] = value]
  /\ UNCHANGED <<readers, writer, value, write, outcome, runs>>

(***************************************************************************)
(* SharedValue::commit of the changed copy: at the end of write, replace   *)
(* and reshape, and when a method on the shared receiver returns.  An      *)
(* operation that fails, or is cancelled, ends its lease without it.       *)
(***************************************************************************)
Commit ==
  /\ write[Owner]
  /\ Step(Owner, "holding", "committed")
  /\ value' = copy[Owner] + 1
  /\ UNCHANGED <<readers, writer, write, copy, outcome, runs>>

(***************************************************************************)
(* AccessLease::drop.  A viewer's lease ends with its frame, before the    *)
(* worker completes the request; the owner's after a commit or without.    *)
(***************************************************************************)
Release(t) ==
  /\ pc[t] \in {"holding", "committed"}
  /\ pc' = NotifyAll([pc EXCEPT ![t] = IF t = Owner THEN "ready" ELSE "returned"])
  /\ writer' = (writer /\ ~write[t])
  /\ readers' = IF write[t] THEN readers ELSE readers - 1
  /\ UNCHANGED <<value, write, copy, outcome, runs>>

(***************************************************************************)
(* The worker publishes the value, or the failure that ends it, unless the *)
(* request was cancelled.                                                  *)
(***************************************************************************)
PublishReply(v) ==
  /\ Step(v, "returned", "ready")
  /\ \E result \in {"ok", "failed"} :
       outcome' = [outcome EXCEPT ![v] = IF @ = "none" THEN result ELSE @]
  /\ UNCHANGED <<readers, writer, value, write, copy, runs>>

(***************************************************************************)
(* The view's owner is destroyed: the outcome is published at once, while  *)
(* the worker may still be executing or waiting for the gate.              *)
(***************************************************************************)
CancelViewer(v) ==
  /\ pc[v] # "ready"
  /\ outcome[v] = "none"
  /\ outcome' = [outcome EXCEPT ![v] = "cancelled"]
  /\ UNCHANGED <<readers, writer, value, pc, write, copy, runs>>

SharedNext ==
  \/ OwnerBegins
  \/ Commit
  \/ \E v \in Viewers : ViewerBegins(v) \/ PublishReply(v) \/ CancelViewer(v)
  \/ \E t \in Threads : Acquire(t) \/ SpuriousWake(t) \/ Snapshot(t) \/ Release(t)

(***************************************************************************)
(* Threads that hold no lock the others need are scheduled, and a method   *)
(* that holds a lease returns, fails or is cancelled.                      *)
(***************************************************************************)
SharedFairness ==
  /\ \A t \in Threads : /\ WF_sharedVars(Acquire(t))
                        /\ WF_sharedVars(Snapshot(t))
                        /\ WF_sharedVars(Release(t))
  /\ \A v \in Viewers : WF_sharedVars(PublishReply(v))

SharedSpec == SharedInit /\ [][SharedNext]_sharedVars /\ SharedFairness

-----------------------------------------------------------------------------
Reading == {t \in Threads : pc[t] \in Leased /\ ~write[t]}
Writing == {t \in Threads : pc[t] \in Leased /\ write[t]}

(***************************************************************************)
(* The gate's counters are the leases in existence, and a writer excludes  *)
(* everyone else.                                                          *)
(***************************************************************************)
Exclusion ==
  /\ readers = Cardinality(Reading)
  /\ writer <=> Writing # {}
  /\ writer => Reading = {}

(***************************************************************************)
(* Owner mutation commits atomically with respect to remote reads: for as  *)
(* long as an invocation runs, even one already cancelled, the copy it     *)
(* works on is the stored value; and a writer changes what it copied, so   *)
(* no change is lost.                                                      *)
(***************************************************************************)
StableCopy == \A t \in Threads : pc[t] = "holding" => copy[t] = value

(***************************************************************************)
(* No wakeup is lost: a thread sleeps in the condition variable only while *)
(* the gate keeps it out.                                                  *)
(***************************************************************************)
NoLostWakeup == \A t \in Threads : pc[t] = "waiting" => Blocked(write[t])

(***************************************************************************)
(* Shared access ends when the invocation returns: whoever has seen the    *)
(* value of a request does not wait for that request's lease.              *)
(***************************************************************************)
ReplyEndsLease == \A v \in Viewers : outcome[v] = "ok" => pc[v] \notin Leased

(***************************************************************************)
(* The strengthening under which these are inductive: only the owner asks  *)
(* for write leases, and a reply leaves its viewer at rest.                *)
(***************************************************************************)
ViewersOnlyRead ==
  \A v \in Viewers : /\ ~write[v]
                     /\ pc[v] # "committed"
                     /\ outcome[v] = "ok" => pc[v] = "ready"

SharedInv == /\ SharedTypeOK /\ ViewersOnlyRead
             /\ Exclusion /\ StableCopy /\ NoLostWakeup

(***************************************************************************)
(* With finitely many invocations and changes nobody waits for the gate    *)
(* for ever.  (The gate prefers nobody, so endless ones could starve some.)*)
(***************************************************************************)
GateOpens == \A t \in Threads : (pc[t] = "acquiring") ~> (pc[t] \in Leased)
=============================================================================
