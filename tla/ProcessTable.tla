---------------------------- MODULE ProcessTable ----------------------------
(***************************************************************************)
(* Child processes: the table of host/src/process.rs, the two threads that *)
(* capture a child's output, and the handle of std/process.fos that owns   *)
(* the child.  An owner runs spawn_with, then polls, terminates, awaits or *)
(* drops its handle; it may be cancelled wherever Foster code runs, which  *)
(* unwinds to the handle's deinit.  The operating system and the child are *)
(* the environment: a child writes, forks a descendant that inherits its   *)
(* pipes, and exits.                                                       *)
(*                                                                         *)
(* A child is named after the owner that spawned it, output is counted in  *)
(* chunks, and token 0 is what reserve answers when identities run out.    *)
(***************************************************************************)
EXTENDS Integers, FiniteSets, Functions

CONSTANTS Owners,
          MaxToken,    \* i64::MAX: the last identity reserve can give
          Limit,       \* output_limit, in chunks
          MaxWritten   \* bound on the chunks written to one stream

ProcessAssumption == MaxToken \in Nat /\ Limit \in Nat \ {0} /\ MaxWritten \in Nat

Streams == {"stdout", "stderr"}

VARIABLES
  next,      \* Processes.next
  entries,   \* Processes.entries: the child each open token stands for
  at,        \* where each owner is
  token,     \* its handle's token
  result,    \* what resolve returned, or none
  child,     \* none, running, zombie (exited, not waited for), reaped
  killed,    \* children that were sent SIGKILL
  heirs,     \* children with a descendant that holds their pipes
  written,   \* chunks written to each stream
  pipe,      \* chunks written and not read yet
  reader,    \* capture thread: none, reading, its result, taken
  kept,      \* bytes the capture thread has kept
  captured   \* Process.captured

tableVars == <<next, entries>>
ownerVars == <<at, token, result>>
systemVars == <<child, killed, heirs, written>>
captureVars == <<pipe, reader, kept, captured>>
processVars == <<tableVars, ownerVars, systemVars, captureVars>>

Places == {"new", "reserved", "launching", "spawned", "half", "full", "started",
           "waiting", "stdout", "stderr", "returning", "releasing", "reaping", "gone"}
Finished == {"ok", "overflow", "broken"}
Nothing == [s \in Streams |-> 0]

ProcessTypeOK ==
  /\ next \in 0..MaxToken /\ DOMAIN entries \subseteq 1..next
  /\ Range(entries) \subseteq Owners
  /\ at \in [Owners -> Places] /\ token \in [Owners -> 0..MaxToken]
  /\ \A o \in Owners : result[o].kind \in {"none", "ok", "error"}
  /\ child \in [Owners -> {"none", "running", "zombie", "reaped"}]
  /\ killed \subseteq Owners /\ heirs \subseteq Owners
  /\ written \in [Owners -> [Streams -> 0..MaxWritten]]
  /\ pipe \in [Owners -> [Streams -> 0..MaxWritten]]
  /\ reader \in [Owners -> [Streams -> {"none", "reading", "taken"} \cup Finished]]
  /\ kept \in [Owners -> [Streams -> 0..Limit]] /\ captured \subseteq Owners

ProcessInit ==
  /\ next = 0 /\ entries = <<>>
  /\ at = [o \in Owners |-> "new"] /\ token = [o \in Owners |-> 0]
  /\ result = [o \in Owners |-> [kind |-> "none"]]
  /\ child = [o \in Owners |-> "none"] /\ killed = {} /\ heirs = {}
  /\ written = [o \in Owners |-> Nothing] /\ pipe = [o \in Owners |-> Nothing]
  /\ reader = [o \in Owners |-> [s \in Streams |-> "none"]]
  /\ kept = [o \in Owners |-> Nothing] /\ captured = {}

Goto(o, place) == at' = [at EXCEPT ![o] = place]
Exited(c) == child[c] \in {"zombie", "reaped"}

\* try_wait reaps a child that has exited.
TryWait(c) == child' = IF Exited(c) THEN [child EXCEPT ![c] = "reaped"] ELSE child

\* kill, preceded by the test that keeps it from a child that has exited.
Kill(c) == killed' = IF Exited(c) THEN killed ELSE killed \cup {c}

Open(o) == token[o] \in DOMAIN entries
Mine(o) == entries[token[o]]     \* the child its token stands for
-----------------------------------------------------------------------------
(***************************************************************************)
(* Mutants: plausible mistakes, no part of the specification.              *)
(***************************************************************************)

BothCaptured(c) ==          \* a reader that failed is not finished
  \A s \in Streams : reader[c][s] = "ok"

CaptureForgets(o) ==        \* a Child that is dropped is neither killed nor reaped
  /\ \/ /\ at[o] = "spawned" /\ Goto(o, "half")
        /\ reader' = [reader EXCEPT ![o]["stdout"] = "reading"]
     \/ /\ at[o] = "half" /\ Goto(o, "full")
        /\ reader' = [reader EXCEPT ![o]["stderr"] = "reading"]
     \/ at[o] \in {"spawned", "half"} /\ Goto(o, "releasing") /\ UNCHANGED reader
  /\ UNCHANGED <<tableVars, token, result, systemVars, pipe, kept, captured>>

OverflowByLength(o, s) == kept[o][s] > Limit
-----------------------------------------------------------------------------
(***************************************************************************)
(* spawn_with: the handle exists from reserve on, before there is a child. *)
(***************************************************************************)
Reserve(o) ==
  /\ at[o] = "new" /\ Goto(o, "reserved")
  /\ token' = [token EXCEPT ![o] = IF next = MaxToken THEN 0 ELSE next + 1]
  /\ next' = IF next = MaxToken THEN next ELSE next + 1
  /\ UNCHANGED <<entries, result, systemVars, captureVars>>

\* start: the check of the token is a critical section of its own.
CheckToken(o) ==
  /\ at[o] = "reserved"
  /\ Goto(o, IF token[o] \in 1..next /\ ~Open(o) THEN "launching" ELSE "releasing")
  /\ UNCHANGED <<tableVars, token, result, systemVars, captureVars>>

\* A bad limit, a bad argument and a failing spawn leave no child.
Spawn(o) ==
  /\ at[o] = "launching"
  /\ \/ Goto(o, "spawned") /\ child' = [child EXCEPT ![o] = "running"]
     \/ Goto(o, "releasing") /\ UNCHANGED child
  /\ UNCHANGED <<tableVars, token, result, killed, heirs, written, captureVars>>

\* One thread per stream; when one cannot be started the Process is dropped
\* where it is, outside the table.
Capture(o) ==
  /\ \/ /\ at[o] = "spawned" /\ Goto(o, "half")
        /\ reader' = [reader EXCEPT ![o]["stdout"] = "reading"] /\ UNCHANGED killed
     \/ /\ at[o] = "half" /\ Goto(o, "full")
        /\ reader' = [reader EXCEPT ![o]["stderr"] = "reading"] /\ UNCHANGED killed
     \/ at[o] \in {"spawned", "half"} /\ Goto(o, "reaping") /\ Kill(o) /\ UNCHANGED reader
  /\ UNCHANGED <<tableVars, token, result, child, heirs, written, pipe, kept, captured>>

\* An entry that the insertion replaces is dropped: its child is killed and
\* waited for.
Insert(o) ==
  /\ at[o] = "full" /\ Goto(o, "started")
  /\ child' = IF Open(o) THEN [child EXCEPT ![Mine(o)] = "reaped"] ELSE child
  /\ entries' = [t \in DOMAIN entries \cup {token[o]} |-> IF t = token[o] THEN o ELSE entries[t]]
  /\ UNCHANGED <<next, token, result, killed, heirs, written, captureVars>>
-----------------------------------------------------------------------------
(***************************************************************************)
(* Operations of a started process.  Each looks its entry up under the     *)
(* table's lock and works under the entry's own.                           *)
(***************************************************************************)
Poll(o) ==
  /\ at[o] = "started" /\ Open(o) /\ TryWait(Mine(o))
  /\ UNCHANGED <<tableVars, ownerVars, killed, heirs, written, captureVars>>

Terminate(o) ==
  /\ at[o] = "started" /\ Open(o) /\ TryWait(Mine(o)) /\ Kill(Mine(o))
  /\ UNCHANGED <<tableVars, ownerVars, heirs, written, captureVars>>

Resolve(o) ==
  /\ at[o] = "started" /\ Goto(o, "waiting")
  /\ UNCHANGED <<tableVars, token, result, systemVars, captureVars>>

BothFinished(c) == \A s \in Streams : reader[c][s] \in Finished

\* `try` in resolve returns the error of a wait step.
AwaitFails(o) ==
  Goto(o, "returning") /\ result' = [result EXCEPT ![o] = [kind |-> "error"]]

\* exchange(2): stdout is taken and joined before stderr, so an error of
\* stdout leaves stderr's thread where it is.
WaitStep(o) ==
  /\ at[o] = "waiting"
  /\ \/ ~Open(o) /\ AwaitFails(o) /\ UNCHANGED <<child, reader, captured>>
     \/ /\ Open(o) /\ TryWait(Mine(o))
        /\ LET c == Mine(o)
               taken == IF reader[c]["stdout"] = "ok" THEN Streams ELSE {"stdout"}
           IN  IF ~(Exited(c) /\ BothFinished(c))
               THEN UNCHANGED <<at, result, reader, captured>>
               ELSE /\ reader' = [reader EXCEPT ![c] =
                                   [s \in Streams |-> IF s \in taken THEN "taken" ELSE @[s]]]
                    /\ IF \A s \in Streams : reader[c][s] = "ok"
                       THEN captured' = captured \cup {c} /\ Goto(o, "stdout") /\ UNCHANGED result
                       ELSE AwaitFails(o) /\ UNCHANGED captured
  /\ UNCHANGED <<tableVars, token, killed, heirs, written, pipe, kept>>

\* exchange(4) and exchange(5).  A reply that is no hexadecimal text, an error
\* above all, becomes no output at all.
Decoded(o, s) == IF Open(o) /\ Mine(o) \in captured THEN kept[Mine(o)][s] ELSE 0

ReadStdout(o) ==
  /\ at[o] = "stdout" /\ Goto(o, "stderr")
  /\ result' = [result EXCEPT ![o] = [kind |-> "none", stdout |-> Decoded(o, "stdout")]]
  /\ UNCHANGED <<tableVars, token, systemVars, captureVars>>

ReadStderr(o) ==
  /\ at[o] = "stderr" /\ Goto(o, "returning")
  /\ result' = [result EXCEPT ![o] = [kind |-> "ok", stdout |-> @.stdout,
                                      stderr |-> Decoded(o, "stderr")]]
  /\ UNCHANGED <<tableVars, token, systemVars, captureVars>>

\* The end of resolve, the end of the handle's scope, and cancellation.
Drop(o) ==
  /\ at[o] \in {"returning", "reserved", "started", "waiting", "stdout", "stderr"}
  /\ Goto(o, "releasing")
  /\ UNCHANGED <<tableVars, token, result, systemVars, captureVars>>

-----------------------------------------------------------------------------
(***************************************************************************)
(* deinit: the entry leaves the table first, then Process::drop kills and  *)
(* waits for the child, without waiting for the capture threads.           *)
(***************************************************************************)
Release(o) ==
  /\ at[o] = "releasing"
  /\ IF Open(o)
     THEN /\ entries' = [t \in DOMAIN entries \ {token[o]} |-> entries[t]]
          /\ TryWait(Mine(o)) /\ Kill(Mine(o)) /\ Goto(o, "reaping")
     ELSE UNCHANGED <<entries, child, killed>> /\ Goto(o, "gone")
  /\ UNCHANGED <<next, token, result, heirs, written, captureVars>>

Reapable(o) == Exited(o)

\* child.wait().  A failed start releases its token afterwards.
Reap(o) ==
  /\ at[o] = "reaping" /\ Reapable(o)
  /\ child' = [child EXCEPT ![o] = "reaped"]
  /\ Goto(o, IF reader[o]["stderr"] = "none" THEN "releasing" ELSE "gone")
  /\ UNCHANGED <<tableVars, token, result, killed, heirs, written, captureVars>>
-----------------------------------------------------------------------------
(***************************************************************************)
(* The capture threads.  What exceeds the limit is drained and reported    *)
(* once the stream ends.                                                   *)
(***************************************************************************)
Keep(count, o, s) == IF count > Limit - kept[o][s] THEN Limit - kept[o][s] ELSE count

Ended(o, s) == pipe[o][s] = 0 /\ Exited(o) /\ o \notin heirs

\* The thread's own overflow flag: something was read and not kept.
Overflowed(o, s) == written[o][s] - pipe[o][s] > kept[o][s]

ReadPipe(o, s) ==
  /\ reader[o][s] = "reading" /\ pipe[o][s] > 0
  /\ \E count \in 1..pipe[o][s] :
       /\ pipe' = [pipe EXCEPT ![o][s] = @ - count]
       /\ kept' = [kept EXCEPT ![o][s] = @ + Keep(count, o, s)]
  /\ UNCHANGED <<tableVars, ownerVars, systemVars, reader, captured>>

EndOfStream(o, s) ==
  /\ reader[o][s] = "reading" /\ Ended(o, s)
  /\ reader' = [reader EXCEPT ![o][s] = IF Overflowed(o, s) THEN "overflow" ELSE "ok"]
  /\ UNCHANGED <<tableVars, ownerVars, systemVars, pipe, kept, captured>>

ReadFails(o, s) ==
  /\ reader[o][s] = "reading"
  /\ reader' = [reader EXCEPT ![o][s] = "broken"]
  /\ UNCHANGED <<tableVars, ownerVars, systemVars, pipe, kept, captured>>
-----------------------------------------------------------------------------
\* The environment: the child and its descendants.
Write(o, s) ==
  /\ child[o] = "running" \/ o \in heirs
  /\ written[o][s] < MaxWritten
  /\ written' = [written EXCEPT ![o][s] = @ + 1] /\ pipe' = [pipe EXCEPT ![o][s] = @ + 1]
  /\ UNCHANGED <<tableVars, ownerVars, child, killed, heirs, reader, kept, captured>>

Fork(o) ==
  /\ child[o] = "running" /\ heirs' = heirs \cup {o}
  /\ UNCHANGED <<tableVars, ownerVars, child, killed, written, captureVars>>

HeirsEnd(o) ==
  /\ o \in heirs /\ heirs' = heirs \ {o}
  /\ UNCHANGED <<tableVars, ownerVars, child, killed, written, captureVars>>

Exit(o) ==
  /\ child[o] = "running" /\ child' = [child EXCEPT ![o] = "zombie"]
  /\ UNCHANGED <<tableVars, ownerVars, killed, heirs, written, captureVars>>
-----------------------------------------------------------------------------
OwnerNext(o) ==
  \/ Reserve(o) \/ CheckToken(o) \/ Spawn(o) \/ Capture(o) \/ Insert(o)
  \/ Poll(o) \/ Terminate(o) \/ Resolve(o) \/ WaitStep(o)
  \/ ReadStdout(o) \/ ReadStderr(o) \/ Drop(o) \/ Release(o) \/ Reap(o)

CaptureNext(o, s) == ReadPipe(o, s) \/ EndOfStream(o, s) \/ ReadFails(o, s)

ProcessNext ==
  \/ \E o \in Owners : OwnerNext(o) \/ Fork(o) \/ HeirsEnd(o) \/ Exit(o)
  \/ \E o \in Owners, s \in Streams : CaptureNext(o, s) \/ Write(o, s)

ProcessSpec == ProcessInit /\ [][ProcessNext]_processVars

\* Owners and capture threads are scheduled; SIGKILL ends a child.  Nothing
\* makes a child exit by itself or a descendant close its pipes.
Starts(o) == CheckToken(o) \/ Spawn(o) \/ Capture(o) \/ Insert(o)
Awaits(o) == WaitStep(o) \/ ReadStdout(o) \/ ReadStderr(o)
Frees(o) == Release(o) \/ Reap(o)
KilledExits(o) == o \in killed /\ Exit(o)
Captures(o, s) == ReadPipe(o, s) \/ EndOfStream(o, s)

ProcessFairness ==
  \A o \in Owners :
    /\ WF_processVars(Starts(o)) /\ WF_processVars(Awaits(o)) /\ WF_processVars(Frees(o))
    /\ WF_processVars(KilledExits(o))
    /\ \A s \in Streams : WF_processVars(Captures(o, s))

ProcessFairSpec == ProcessSpec /\ ProcessFairness
-----------------------------------------------------------------------------
\* "Install ownership before any child exists, so cancellation ... cannot
\* strand a native process": a child that is not reaped has a live owner,
\* which is still launching it, finds it under its token, or is reaping it.
NoStrandedChild ==
  \A o \in Owners : child[o] \in {"running", "zombie"} =>
    \/ at[o] \in {"spawned", "half", "full", "reaping"}
    \/ /\ at[o] \in {"started", "waiting", "stdout", "stderr", "returning", "releasing"}
       /\ Open(o) /\ Mine(o) = o

\* The table holds nothing of owners that are gone, and between start and
\* release an owner's token stands for the child it spawned and no other.
TableMatches ==
  /\ \A t \in DOMAIN entries : at[entries[t]] # "gone" /\ token[entries[t]] = t
  /\ \A o \in Owners : at[o] \in {"started", "waiting", "stdout", "stderr", "returning"} =>
       Open(o) /\ Mine(o) = o

\* Each child has its owner and each owner its child, through the table.
ChildrenOwned == NoStrandedChild /\ TableMatches

\* A successful await returns everything the child and its descendants wrote
\* to each stream: nothing cut off by the limit, read too early, or decoded
\* from an error reply.
OutputComplete ==
  \A o \in Owners : result[o].kind = "ok" =>
    \A s \in Streams : result[o][s] = written[o][s] /\ written[o][s] <= Limit

\* An await never asks again for streams that an earlier wait step has taken:
\* it would be told that the process runs, for ever.
NoTakenWait ==
  \A o \in Owners : at[o] = "waiting" /\ Open(o) =>
    \A s \in Streams : reader[Mine(o)][s] # "taken"

\* What an await promises, the captured bytes within the limit included.
AwaitExact == ProcessTypeOK /\ OutputComplete /\ NoTakenWait

\* An await of a child that has exited, with no descendant on its pipes, ends.
AwaitEnds ==
  \A o \in Owners : at[o] = "waiting" /\ Exited(o) /\ o \notin heirs ~> at[o] # "waiting"

\* Dropping a handle returns although the child never exits by itself and a
\* descendant keeps its pipes open.
ReleaseEnds == \A o \in Owners : at[o] = "releasing" ~> at[o] = "gone"
=============================================================================
