----------------------------- MODULE HostProofs -----------------------------
(***************************************************************************)
(* The host layer.  Every child process has its owner and every successful *)
(* await the whole output, for any owners, any number of tokens and any    *)
(* limit.  Waits keep to the socket of their handle and writes arrive      *)
(* whole, for any threads, handles, descriptors and amounts of data.  No   *)
(* native value that Foster or C can still use dangles, and the leases     *)
(* follow the calls in progress, for any number of resources and any depth *)
(* of nested calls.  The events of a callback are delivered once and in    *)
(* order, for any threads of the C library and any limits of the queue.    *)
(***************************************************************************)
EXTENDS Callbacks, ProcessTable, NetworkHandles, ForeignResources, TLAPS, FiniteSetTheorems,
        SequenceTheorems, WellFoundedInduction

(***************************************************************************)
(* Child processes: the inductive invariant.  Holding is where an owner may*)
(* have its entry in the table, Untaken where nobody has joined its capture*)
(* threads.                                                                *)
(***************************************************************************)
Holding == {"started", "waiting", "stdout", "stderr", "returning", "releasing"}
Untaken == {"new", "reserved", "launching", "spawned", "half", "full", "started", "waiting"}

\* Shapes that ProcessTypeOK leaves open.
ProcessShaped ==
  /\ DOMAIN result = Owners
  /\ \A o \in Owners : result[o].kind = "ok" => DOMAIN result[o] = {"kind", "stdout", "stderr"}

\* A token other than 0 belongs to one owner, and nothing is started with 0.
TokensUnique ==
  /\ \A o \in Owners : token[o] <= next
  /\ \A o, p \in Owners : token[o] = token[p] /\ token[o] # 0 => o = p
  /\ \A o \in Owners : at[o] \in {"launching", "spawned", "half", "full"} => token[o] # 0

\* An entry is its owner's, and its owner has yet to release it.
EntriesOwned ==
  \A t \in DOMAIN entries : token[entries[t]] = t /\ at[entries[t]] \in Holding

\* Before the child there is neither a child nor a capture thread.
Unborn ==
  /\ \A o \in Owners : at[o] \in {"new", "reserved", "launching"} => child[o] = "none"
  /\ \A o \in Owners : at[o] \in {"new", "reserved", "launching", "spawned"} =>
       reader[o]["stdout"] = "none" /\ reader[o]["stderr"] = "none"
  /\ \A o \in Owners : at[o] = "half" => reader[o]["stderr"] = "none"
  /\ \A o \in Owners, s \in Streams : at[o] \in Untaken => reader[o][s] # "taken"

\* Nothing can be added to the stream any more, and all of it was kept.
Drained(o, s) ==
  pipe[o][s] = 0 /\ Exited(o) /\ o \notin heirs /\ kept[o][s] = written[o][s]

\* What was kept was read; what ended well, or was taken well, is whole.
Accounted ==
  /\ \A o \in Owners, s \in Streams : kept[o][s] + pipe[o][s] <= written[o][s]
  /\ \A o \in Owners, s \in Streams : reader[o][s] = "ok" => Drained(o, s)
  /\ \A o \in captured, s \in Streams : reader[o][s] = "taken" /\ Drained(o, s)

\* The await has what it has read so far from the captured bytes.
Awaited ==
  /\ \A o \in Owners : at[o] \in {"stdout", "stderr"} => o \in captured
  /\ \A o \in Owners : at[o] = "stderr" => result[o].stdout = written[o]["stdout"]
  /\ \A o \in Owners : result[o].kind = "ok" =>
       /\ o \in captured
       /\ result[o].stdout = written[o]["stdout"] /\ result[o].stderr = written[o]["stderr"]

TableInv == ProcessTypeOK /\ ProcessShaped /\ TokensUnique /\ EntriesOwned /\ ChildrenOwned
ProcessInv == TableInv /\ Unborn /\ Accounted /\ Awaited

-----------------------------------------------------------------------------
(***************************************************************************)
(* No owner has a token, a child or an entry at the beginning.             *)
(***************************************************************************)
LEMMA ProcessInitInv ==
  ASSUME ProcessAssumption
  PROVE  ProcessInit => ProcessInv
<1> SUFFICES ASSUME ProcessInit
             PROVE  ProcessInv
  OBVIOUS
<1>1. DOMAIN entries = {}
  BY DEF ProcessInit
<1>2. ProcessTypeOK
  BY <1>1 DEF ProcessInit, ProcessTypeOK, ProcessAssumption, Places, Streams, Nothing, Finished,
     Range
<1>3. ProcessShaped /\ TokensUnique /\ EntriesOwned /\ ChildrenOwned
  BY <1>1 DEF ProcessInit, ProcessShaped, TokensUnique, EntriesOwned, ChildrenOwned,
     NoStrandedChild, TableMatches
<1>4. Unborn /\ Accounted /\ Awaited
  BY DEF ProcessInit, Unborn, Accounted, Awaited, Streams, Nothing
<1> QED
  BY <1>2, <1>3, <1>4 DEF ProcessInv, TableInv

(***************************************************************************)
(* An owner's token, if it is in the table, stands for its own child: the  *)
(* only place where the uniqueness of tokens is used.                      *)
(***************************************************************************)
LEMMA OwnEntry ==
  ASSUME TableInv, NEW o \in Owners
  PROVE  /\ Open(o) => Mine(o) = o /\ at[o] \in Holding
         /\ at[o] \in Holding \ {"releasing"} => Open(o)
<1>1. ASSUME Open(o)
      PROVE  Mine(o) = o /\ at[o] \in Holding
  <2>1. Mine(o) \in Owners /\ token[o] # 0
    BY <1>1 DEF TableInv, ProcessTypeOK, Open, Mine, Range
  <2>2. token[Mine(o)] = token[o] /\ at[Mine(o)] \in Holding
    BY <1>1 DEF TableInv, EntriesOwned, Open, Mine
  <2> QED
    BY <2>1, <2>2 DEF TableInv, TokensUnique
<1> QED
  BY <1>1 DEF TableInv, ChildrenOwned, TableMatches, Holding
(***************************************************************************)
(* Every step keeps the types; tokens stay unique because next only grows. *)
(***************************************************************************)
LEMMA ProcessTypeStep ==
  ASSUME ProcessAssumption, ProcessInv, [ProcessNext]_processVars
  PROVE  ProcessTypeOK' /\ ProcessShaped' /\ TokensUnique'
<1> USE DEF ProcessInv, TableInv, ProcessTypeOK, Goto, tableVars, ownerVars, systemVars,
            captureVars
<1>1. ASSUME NEW o \in Owners, Reserve(o)
      PROVE  ProcessTypeOK' /\ ProcessShaped' /\ TokensUnique'
  <2>1. /\ at' = [at EXCEPT ![o] = "reserved"] /\ at[o] = "new"
        /\ UNCHANGED <<entries, result, child, killed, heirs, written, pipe, reader, kept,
                       captured>>
    BY <1>1 DEF Reserve
  <2>2. CASE next = MaxToken /\ token' = [token EXCEPT ![o] = 0] /\ next' = next
    <3>1. /\ token' \in [Owners -> 0..MaxToken] /\ next' \in 0..MaxToken
          /\ DOMAIN entries' \subseteq 1..next'
      BY <2>1, <2>2 DEF ProcessAssumption
    <3>2. at' \in [Owners -> Places]
      BY <2>1 DEF Places
    <3>3. ProcessTypeOK' /\ ProcessShaped'
      BY <2>1, <3>1, <3>2 DEF Range, ProcessShaped, Finished
    <3>4. TokensUnique'
      BY <2>1, <2>2 DEF TokensUnique
    <3> QED
      BY <3>3, <3>4
  <2>3. CASE next # MaxToken /\ token' = [token EXCEPT ![o] = next + 1] /\ next' = next + 1
    <3>0. MaxToken \in Nat /\ next \in 0..MaxToken /\ token \in [Owners -> 0..MaxToken]
      BY DEF ProcessAssumption
    <3>1. /\ next + 1 \in 1..MaxToken
          /\ token' \in [Owners -> 0..MaxToken] /\ next' \in 0..MaxToken
      <4> HIDE DEF ProcessTypeOK, ProcessInv, TableInv
      <4>1. next + 1 \in 1..MaxToken /\ next + 1 \in 0..MaxToken
        BY <2>3, <3>0
      <4> QED
        BY <2>3, <3>0, <4>1
    <3>2. DOMAIN entries' \subseteq 1..next'
      BY <2>1, <2>3
    <3>3. at' \in [Owners -> Places]
      BY <2>1 DEF Places
    <3>4. ProcessTypeOK' /\ ProcessShaped'
      BY <2>1, <3>1, <3>2, <3>3 DEF Range, ProcessShaped, Finished
    <3>5. TokensUnique'
      BY <2>1, <2>3, <3>1 DEF TokensUnique
    <3> QED
      BY <3>4, <3>5
  <2> QED
    BY <1>1, <2>2, <2>3 DEF Reserve
<1>2. ASSUME NEW o \in Owners, CheckToken(o)
      PROVE  ProcessTypeOK' /\ ProcessShaped' /\ TokensUnique'
  BY <1>2 DEF CheckToken, ProcessShaped, TokensUnique, Places, Finished, Streams
<1>3. ASSUME NEW o \in Owners, Spawn(o)
      PROVE  ProcessTypeOK' /\ ProcessShaped' /\ TokensUnique'
  <2>1. CASE at' = [at EXCEPT ![o] = "spawned"] /\ child' = [child EXCEPT ![o] = "running"]
    BY <1>3, <2>1 DEF Spawn, ProcessShaped, TokensUnique, Places, Finished, Streams, Exited,
       TryWait, Kill
  <2>2. CASE at' = [at EXCEPT ![o] = "releasing"] /\ UNCHANGED child
    BY <1>3, <2>2 DEF Spawn, ProcessShaped, TokensUnique, Places, Finished, Streams, Exited,
       TryWait, Kill
  <2> QED
    BY <1>3, <2>1, <2>2 DEF Spawn
<1>4. ASSUME NEW o \in Owners, Capture(o)
      PROVE  ProcessTypeOK' /\ ProcessShaped' /\ TokensUnique'
  <2>1. CASE /\ at[o] = "spawned" /\ at' = [at EXCEPT ![o] = "half"] /\ UNCHANGED killed
             /\ reader' = [reader EXCEPT ![o]["stdout"] = "reading"]
    BY <1>4, <2>1 DEF Capture, ProcessShaped, TokensUnique, Places, Finished, Streams, Exited,
       TryWait, Kill
  <2>2. CASE /\ at[o] = "half" /\ at' = [at EXCEPT ![o] = "full"] /\ UNCHANGED killed
             /\ reader' = [reader EXCEPT ![o]["stderr"] = "reading"]
    BY <1>4, <2>2 DEF Capture, ProcessShaped, TokensUnique, Places, Finished, Streams, Exited,
       TryWait, Kill
  <2>3. CASE /\ at[o] \in {"spawned", "half"} /\ at' = [at EXCEPT ![o] = "reaping"]
             /\ Kill(o) /\ UNCHANGED reader
    BY <1>4, <2>3 DEF Capture, Kill, ProcessShaped, TokensUnique, Places, Finished, Streams, Exited,
           TryWait
  <2> QED
    BY <1>4, <2>1, <2>2, <2>3 DEF Capture
<1>5. ASSUME NEW o \in Owners, Insert(o)
      PROVE  ProcessTypeOK' /\ ProcessShaped' /\ TokensUnique'
  <2>1. ~Open(o)
    BY <1>5, OwnEntry DEF Insert, Holding
  <2>2. entries' = [t \in DOMAIN entries \cup {token[o]} |->
                     IF t = token[o] THEN o ELSE entries[t]]
    BY <1>5 DEF Insert
  <2>3. DOMAIN entries' \subseteq 1..next
    <3>1. token[o] \in 1..next
      BY <1>5 DEF Insert, TokensUnique
    <3> QED
      BY <2>2, <3>1
  <2>4. Range(entries') \subseteq Owners
    BY <2>2 DEF Range
  <2> QED
    BY <1>5, <2>1, <2>3, <2>4 DEF Insert, ProcessShaped, TokensUnique, Places, Finished, Streams,
           Exited, TryWait, Kill
<1>6. ASSUME NEW o \in Owners, Poll(o)
      PROVE  ProcessTypeOK' /\ ProcessShaped' /\ TokensUnique'
  BY <1>6, OwnEntry DEF Poll, ProcessShaped, TokensUnique, Places, Finished, Streams, Exited,
     TryWait
<1>7. ASSUME NEW o \in Owners, Terminate(o)
      PROVE  ProcessTypeOK' /\ ProcessShaped' /\ TokensUnique'
  BY <1>7, OwnEntry DEF Terminate, ProcessShaped, TokensUnique, Places, Finished, Streams, Exited,
         TryWait, Kill
<1>8. ASSUME NEW o \in Owners, Resolve(o)
      PROVE  ProcessTypeOK' /\ ProcessShaped' /\ TokensUnique'
  BY <1>8 DEF Resolve, ProcessShaped, TokensUnique, Places, Finished, Streams
<1>9. ASSUME NEW o \in Owners, WaitStep(o)
      PROVE  ProcessTypeOK' /\ ProcessShaped' /\ TokensUnique'
  <2>1. Open(o) /\ Mine(o) = o /\ at[o] = "waiting"
    BY <1>9, OwnEntry DEF WaitStep, Holding
  <2>2. /\ child' = IF Exited(o) THEN [child EXCEPT ![o] = "reaped"] ELSE child
        /\ UNCHANGED <<next, entries, token, killed, heirs, written, pipe, kept>>
    BY <1>9, <2>1 DEF WaitStep, TryWait
  <2>3. CASE ~(Exited(o) /\ BothFinished(o))
    <3>1. UNCHANGED <<at, result, reader, captured>>
      BY <1>9, <2>1, <2>3 DEF WaitStep
    <3> QED
      BY <2>2, <3>1 DEF ProcessShaped, TokensUnique, Places, Finished, Streams, Exited, TryWait,
         Kill
  <2>4. CASE Exited(o) /\ BothFinished(o)
    <3>1. /\ reader' = [reader EXCEPT ![o] = reader'[o]]
          /\ reader'[o] = [s \in Streams |->
               IF s \in (IF reader[o]["stdout"] = "ok" THEN Streams ELSE {"stdout"})
               THEN "taken" ELSE reader[o][s]]
      BY <1>9, <2>1, <2>4 DEF WaitStep
    <3>2. CASE \A s \in Streams : reader[o][s] = "ok"
      <4>1. /\ at' = [at EXCEPT ![o] = "stdout"]
            /\ captured' = captured \cup {o} /\ result' = result
        BY <1>9, <2>1, <2>4, <3>2 DEF WaitStep
      <4>2. reader' \in [Owners -> [Streams -> {"none", "reading", "taken"} \cup Finished]]
        <5>1. reader'[o] \in [Streams -> {"none", "reading", "taken"} \cup Finished]
          BY <3>1
        <5> QED
          BY <3>1, <5>1
      <4> QED
        BY <2>1, <2>2, <2>4, <4>1, <4>2 DEF ProcessShaped, TokensUnique, Places, Finished, Streams,
               Exited, TryWait, Kill
    <3>3. CASE ~(\A s \in Streams : reader[o][s] = "ok")
      <4>1. /\ at' = [at EXCEPT ![o] = "returning"] /\ captured' = captured
            /\ result' = [result EXCEPT ![o] = [kind |-> "error"]]
        BY <1>9, <2>1, <2>4, <3>3 DEF WaitStep, AwaitFails
      <4>2. reader' \in [Owners -> [Streams -> {"none", "reading", "taken"} \cup Finished]]
        <5>1. reader'[o] \in [Streams -> {"none", "reading", "taken"} \cup Finished]
          BY <3>1
        <5> QED
          BY <3>1, <5>1
      <4> QED
        BY <2>1, <2>2, <2>4, <4>1, <4>2 DEF ProcessShaped, TokensUnique, Places, Finished, Streams,
               Exited, TryWait, Kill
    <3> QED
      BY <3>2, <3>3
  <2> QED
    BY <2>3, <2>4
<1>10. ASSUME NEW o \in Owners, ReadStdout(o)
      PROVE  ProcessTypeOK' /\ ProcessShaped' /\ TokensUnique'
  BY <1>10 DEF ReadStdout, ProcessShaped, TokensUnique, Places, Finished, Streams
<1>11. ASSUME NEW o \in Owners, ReadStderr(o)
      PROVE  ProcessTypeOK' /\ ProcessShaped' /\ TokensUnique'
  BY <1>11 DEF ReadStderr, ProcessShaped, TokensUnique, Places, Finished, Streams
<1>12. ASSUME NEW o \in Owners, Drop(o)
      PROVE  ProcessTypeOK' /\ ProcessShaped' /\ TokensUnique'
  BY <1>12 DEF Drop, ProcessShaped, TokensUnique, Places, Finished, Streams
<1>13. ASSUME NEW o \in Owners, Release(o)
      PROVE  ProcessTypeOK' /\ ProcessShaped' /\ TokensUnique'
  <2>1. CASE Open(o)
    <3>1. /\ entries' = [t \in DOMAIN entries \ {token[o]} |-> entries[t]]
          /\ Mine(o) = o /\ TryWait(o) /\ Kill(o) /\ at' = [at EXCEPT ![o] = "reaping"]
          /\ UNCHANGED <<next, token, result, heirs, written, pipe, reader, kept, captured>>
      BY <1>13, <2>1, OwnEntry DEF Release
    <3>2. Range(entries') \subseteq Owners /\ DOMAIN entries' \subseteq DOMAIN entries
      BY <3>1 DEF Range
    <3>3. /\ child' \in [Owners -> {"none", "running", "zombie", "reaped"}]
          /\ killed' \subseteq Owners
      BY <3>1 DEF TryWait, Kill
    <3> QED
      BY <3>1, <3>2, <3>3 DEF ProcessShaped, TokensUnique, Places
  <2>2. CASE ~Open(o)
    BY <1>13, <2>2 DEF Release, ProcessShaped, TokensUnique, Places, Finished, Streams, Exited,
           TryWait, Kill
  <2> QED
    BY <2>1, <2>2
<1>14. ASSUME NEW o \in Owners, Reap(o)
      PROVE  ProcessTypeOK' /\ ProcessShaped' /\ TokensUnique'
  BY <1>14 DEF Reap, ProcessShaped, TokensUnique, Places, Finished, Streams
<1>15. ASSUME NEW o \in Owners, Fork(o)
      PROVE  ProcessTypeOK' /\ ProcessShaped' /\ TokensUnique'
  BY <1>15 DEF Fork, ProcessShaped, TokensUnique, Places, Finished, Streams
<1>16. ASSUME NEW o \in Owners, HeirsEnd(o)
      PROVE  ProcessTypeOK' /\ ProcessShaped' /\ TokensUnique'
  BY <1>16 DEF HeirsEnd, ProcessShaped, TokensUnique, Places, Finished, Streams
<1>17. ASSUME NEW o \in Owners, Exit(o)
      PROVE  ProcessTypeOK' /\ ProcessShaped' /\ TokensUnique'
  BY <1>17 DEF Exit, ProcessShaped, TokensUnique, Places, Finished, Streams
<1>18. ASSUME NEW o \in Owners, NEW s \in Streams, ReadPipe(o, s)
      PROVE  ProcessTypeOK' /\ ProcessShaped' /\ TokensUnique'
  BY <1>18 DEF ReadPipe, Keep, Accounted, ProcessAssumption, ProcessShaped, TokensUnique, Places,
         Finished, Streams
<1>19. ASSUME NEW o \in Owners, NEW s \in Streams, EndOfStream(o, s)
      PROVE  ProcessTypeOK' /\ ProcessShaped' /\ TokensUnique'
  BY <1>19 DEF EndOfStream, ProcessShaped, TokensUnique, Places, Finished, Streams
<1>20. ASSUME NEW o \in Owners, NEW s \in Streams, ReadFails(o, s)
      PROVE  ProcessTypeOK' /\ ProcessShaped' /\ TokensUnique'
  BY <1>20 DEF ReadFails, ProcessShaped, TokensUnique, Places, Finished, Streams
<1>21. ASSUME NEW o \in Owners, NEW s \in Streams, Write(o, s)
      PROVE  ProcessTypeOK' /\ ProcessShaped' /\ TokensUnique'
  <2>1. /\ written' = [written EXCEPT ![o][s] = written[o][s] + 1]
        /\ pipe' = [pipe EXCEPT ![o][s] = pipe[o][s] + 1]
    BY <1>21 DEF Write
  <2>2. written[o][s] + 1 \in 0..MaxWritten /\ pipe[o][s] + 1 \in 0..MaxWritten
    BY <1>21 DEF Write, Accounted, ProcessAssumption
  <2>3. /\ written' \in [Owners -> [Streams -> 0..MaxWritten]]
        /\ pipe' \in [Owners -> [Streams -> 0..MaxWritten]]
    BY <2>1, <2>2
  <2> QED
    BY <1>21, <2>3 DEF Write, ProcessShaped, TokensUnique, Places, Finished, Streams, Exited,
       TryWait, Kill
<1>22. CASE UNCHANGED processVars
  BY <1>22 DEF processVars, ProcessShaped, TokensUnique, Places, Finished, Streams, Exited, TryWait,
         Kill, Range
<1> QED
  BY <1>1, <1>2, <1>3, <1>4, <1>5, <1>6, <1>7, <1>8, <1>9, <1>10, <1>11, <1>12, <1>13, <1>14,
     <1>15, <1>16, <1>17, <1>18, <1>19, <1>20, <1>21, <1>22
  DEF ProcessNext, OwnerNext, CaptureNext

(***************************************************************************)
(* Children and entries move together: the entry is made after the child and *)
(* removed when the owner begins to reap it.                               *)
(***************************************************************************)
LEMMA ProcessTableStep ==
  ASSUME ProcessAssumption, ProcessInv, [ProcessNext]_processVars
  PROVE  EntriesOwned' /\ ChildrenOwned'
<1> USE DEF ProcessInv, TableInv, ProcessTypeOK, Goto, tableVars, ownerVars, systemVars,
            captureVars
<1>1. ASSUME NEW o \in Owners, Reserve(o)
      PROVE  EntriesOwned' /\ ChildrenOwned'
  BY <1>1 DEF Reserve, TokensUnique, EntriesOwned, ChildrenOwned, NoStrandedChild, TableMatches,
         Holding, Range, Open, Mine
<1>2. ASSUME NEW o \in Owners, CheckToken(o)
      PROVE  EntriesOwned' /\ ChildrenOwned'
  BY <1>2 DEF CheckToken, TokensUnique, EntriesOwned, ChildrenOwned, NoStrandedChild,
         TableMatches, Holding, Range, Open, Mine
<1>3. ASSUME NEW o \in Owners, Spawn(o)
      PROVE  EntriesOwned' /\ ChildrenOwned'
  <2>1. CASE at' = [at EXCEPT ![o] = "spawned"] /\ child' = [child EXCEPT ![o] = "running"]
    BY <1>3, <2>1 DEF Spawn, TokensUnique, EntriesOwned, ChildrenOwned, NoStrandedChild,
           TableMatches, Holding, Range, Open, Mine, Exited, TryWait, Kill
  <2>2. CASE at' = [at EXCEPT ![o] = "releasing"] /\ UNCHANGED child
    BY <1>3, <2>2 DEF Spawn, TokensUnique, EntriesOwned, ChildrenOwned, NoStrandedChild,
           TableMatches, Holding, Range, Open, Mine, Exited, TryWait, Kill
  <2> QED
    BY <1>3, <2>1, <2>2 DEF Spawn
<1>4. ASSUME NEW o \in Owners, Capture(o)
      PROVE  EntriesOwned' /\ ChildrenOwned'
  <2>1. CASE /\ at[o] = "spawned" /\ at' = [at EXCEPT ![o] = "half"] /\ UNCHANGED killed
             /\ reader' = [reader EXCEPT ![o]["stdout"] = "reading"]
    BY <1>4, <2>1 DEF Capture, TokensUnique, EntriesOwned, ChildrenOwned, NoStrandedChild,
           TableMatches, Holding, Range, Open, Mine, Exited, TryWait, Kill
  <2>2. CASE /\ at[o] = "half" /\ at' = [at EXCEPT ![o] = "full"] /\ UNCHANGED killed
             /\ reader' = [reader EXCEPT ![o]["stderr"] = "reading"]
    BY <1>4, <2>2 DEF Capture, TokensUnique, EntriesOwned, ChildrenOwned, NoStrandedChild,
           TableMatches, Holding, Range, Open, Mine, Exited, TryWait, Kill
  <2>3. CASE /\ at[o] \in {"spawned", "half"} /\ at' = [at EXCEPT ![o] = "reaping"]
             /\ Kill(o) /\ UNCHANGED reader
    BY <1>4, <2>3 DEF Capture, Kill, TokensUnique, EntriesOwned, ChildrenOwned, NoStrandedChild,
           TableMatches, Holding, Range, Open, Mine, Exited, TryWait
  <2> QED
    BY <1>4, <2>1, <2>2, <2>3 DEF Capture
<1>5. ASSUME NEW o \in Owners, Insert(o)
      PROVE  EntriesOwned' /\ ChildrenOwned'
  BY <1>5 DEF Insert, TokensUnique, EntriesOwned, ChildrenOwned, NoStrandedChild, TableMatches,
         Holding, Range, Open, Mine
<1>6. ASSUME NEW o \in Owners, Poll(o)
      PROVE  EntriesOwned' /\ ChildrenOwned'
  BY <1>6, OwnEntry DEF Poll, TokensUnique, EntriesOwned, ChildrenOwned, NoStrandedChild,
         TableMatches, Holding, Range, Open, Mine, Exited, TryWait
<1>7. ASSUME NEW o \in Owners, Terminate(o)
      PROVE  EntriesOwned' /\ ChildrenOwned'
  BY <1>7, OwnEntry DEF Terminate, TokensUnique, EntriesOwned, ChildrenOwned, NoStrandedChild,
         TableMatches, Holding, Range, Open, Mine, Exited, TryWait, Kill
<1>8. ASSUME NEW o \in Owners, Resolve(o)
      PROVE  EntriesOwned' /\ ChildrenOwned'
  BY <1>8 DEF Resolve, TokensUnique, EntriesOwned, ChildrenOwned, NoStrandedChild, TableMatches,
         Holding, Range, Open, Mine
<1>9. ASSUME NEW o \in Owners, WaitStep(o)
      PROVE  EntriesOwned' /\ ChildrenOwned'
  <2>1. Open(o) /\ Mine(o) = o /\ at[o] = "waiting"
    BY <1>9, OwnEntry DEF WaitStep, Holding
  <2>2. /\ child' = IF Exited(o) THEN [child EXCEPT ![o] = "reaped"] ELSE child
        /\ UNCHANGED <<next, entries, token, killed, heirs, written, pipe, kept>>
    BY <1>9, <2>1 DEF WaitStep, TryWait
  <2>3. CASE ~(Exited(o) /\ BothFinished(o))
    <3>1. UNCHANGED <<at, result, reader, captured>>
      BY <1>9, <2>1, <2>3 DEF WaitStep
    <3> QED
      BY <2>2, <3>1 DEF TokensUnique, EntriesOwned, ChildrenOwned, NoStrandedChild,
             TableMatches, Holding, Range, Open, Mine, Exited, TryWait, Kill
  <2>4. CASE Exited(o) /\ BothFinished(o)
    <3>1. /\ reader' = [reader EXCEPT ![o] = reader'[o]]
          /\ reader'[o] = [s \in Streams |->
               IF s \in (IF reader[o]["stdout"] = "ok" THEN Streams ELSE {"stdout"})
               THEN "taken" ELSE reader[o][s]]
      BY <1>9, <2>1, <2>4 DEF WaitStep
    <3>2. CASE \A s \in Streams : reader[o][s] = "ok"
      <4>1. /\ at' = [at EXCEPT ![o] = "stdout"]
            /\ captured' = captured \cup {o} /\ result' = result
        BY <1>9, <2>1, <2>4, <3>2 DEF WaitStep
      <4>2. reader'[o]["stdout"] = "taken" /\ reader'[o]["stderr"] = "taken"
        BY <3>1, <3>2 DEF Streams
      <4> QED
        BY <2>1, <2>2, <2>4, <3>1, <3>2, <4>1, <4>2 DEF TokensUnique, EntriesOwned,
               ChildrenOwned, NoStrandedChild, TableMatches, Holding, Range, Open, Mine, Exited,
               TryWait, Kill
    <3>3. CASE ~(\A s \in Streams : reader[o][s] = "ok")
      <4>1. /\ at' = [at EXCEPT ![o] = "returning"] /\ captured' = captured
            /\ result' = [result EXCEPT ![o] = [kind |-> "error"]]
        BY <1>9, <2>1, <2>4, <3>3 DEF WaitStep, AwaitFails
      <4>2. o \notin captured
        BY <2>1 DEF Accounted, Unborn, Untaken, Streams
      <4> QED
        BY <2>1, <2>2, <2>4, <3>1, <3>3, <4>1, <4>2 DEF TokensUnique, EntriesOwned,
               ChildrenOwned, NoStrandedChild, TableMatches, Holding, Range, Open, Mine, Exited,
               TryWait, Kill
    <3> QED
      BY <3>2, <3>3
  <2> QED
    BY <2>3, <2>4
<1>10. ASSUME NEW o \in Owners, ReadStdout(o)
      PROVE  EntriesOwned' /\ ChildrenOwned'
  BY <1>10 DEF ReadStdout, TokensUnique, EntriesOwned, ChildrenOwned, NoStrandedChild,
         TableMatches, Holding, Range, Open, Mine
<1>11. ASSUME NEW o \in Owners, ReadStderr(o)
      PROVE  EntriesOwned' /\ ChildrenOwned'
  BY <1>11 DEF ReadStderr, TokensUnique, EntriesOwned, ChildrenOwned, NoStrandedChild,
         TableMatches, Holding, Range, Open, Mine
<1>12. ASSUME NEW o \in Owners, Drop(o)
      PROVE  EntriesOwned' /\ ChildrenOwned'
  BY <1>12 DEF Drop, TokensUnique, EntriesOwned, ChildrenOwned, NoStrandedChild, TableMatches,
         Holding, Range, Open, Mine
<1>13. ASSUME NEW o \in Owners, Release(o)
      PROVE  EntriesOwned' /\ ChildrenOwned'
  <2>1. CASE Open(o)
    <3>1. /\ entries' = [t \in DOMAIN entries \ {token[o]} |-> entries[t]]
          /\ Mine(o) = o /\ TryWait(o) /\ at' = [at EXCEPT ![o] = "reaping"]
          /\ UNCHANGED token
      BY <1>13, <2>1, OwnEntry DEF Release
    <3>2. \A t \in DOMAIN entries' :
            t \in DOMAIN entries /\ entries'[t] = entries[t] /\ entries[t] # o
      BY <2>1, <3>1 DEF EntriesOwned
    <3>3. EntriesOwned'
      BY <3>1, <3>2 DEF EntriesOwned, Holding, Range
    <3>4. NoStrandedChild'
      BY <3>1, <3>2 DEF TokensUnique, EntriesOwned, ChildrenOwned, NoStrandedChild,
             TableMatches, Holding, Range, Open, Mine, Exited, TryWait, Kill
    <3>5. TableMatches'
      BY <3>1, <3>2 DEF TokensUnique, EntriesOwned, ChildrenOwned, NoStrandedChild,
             TableMatches, Holding, Range, Open, Mine, Exited, TryWait, Kill
    <3> QED
      BY <3>3, <3>4, <3>5 DEF ChildrenOwned
  <2>2. CASE ~Open(o)
    <3>1. /\ at[o] = "releasing" /\ at' = [at EXCEPT ![o] = "gone"]
          /\ UNCHANGED <<entries, token, child>>
      BY <1>13, <2>2 DEF Release
    <3>2. \A t \in DOMAIN entries : entries[t] # o
      BY <2>2 DEF EntriesOwned, Open
    <3>3. child[o] \notin {"running", "zombie"}
      BY <2>2, <3>1 DEF ChildrenOwned, NoStrandedChild
    <3> QED
      BY <3>1, <3>2, <3>3 DEF TokensUnique, EntriesOwned, ChildrenOwned, NoStrandedChild,
             TableMatches, Holding, Range, Open, Mine, Exited, TryWait, Kill
  <2> QED
    BY <2>1, <2>2
<1>14. ASSUME NEW o \in Owners, Reap(o)
      PROVE  EntriesOwned' /\ ChildrenOwned'
  <2>1. \A t \in DOMAIN entries : entries[t] # o
    BY <1>14 DEF Reap, EntriesOwned, Holding
  <2>2. PICK step \in {"releasing", "gone"} : at' = [at EXCEPT ![o] = step]
    BY <1>14 DEF Reap
  <2> QED
    BY <1>14, <2>1, <2>2 DEF Reap, TokensUnique, EntriesOwned, ChildrenOwned, NoStrandedChild,
           TableMatches, Holding, Range, Open, Mine, Exited, TryWait, Kill
<1>15. ASSUME NEW o \in Owners, Fork(o)
      PROVE  EntriesOwned' /\ ChildrenOwned'
  BY <1>15 DEF Fork, TokensUnique, EntriesOwned, ChildrenOwned, NoStrandedChild, TableMatches,
         Holding, Range, Open, Mine
<1>16. ASSUME NEW o \in Owners, HeirsEnd(o)
      PROVE  EntriesOwned' /\ ChildrenOwned'
  BY <1>16 DEF HeirsEnd, TokensUnique, EntriesOwned, ChildrenOwned, NoStrandedChild,
         TableMatches, Holding, Range, Open, Mine
<1>17. ASSUME NEW o \in Owners, Exit(o)
      PROVE  EntriesOwned' /\ ChildrenOwned'
  BY <1>17 DEF Exit, TokensUnique, EntriesOwned, ChildrenOwned, NoStrandedChild, TableMatches,
         Holding, Range, Open, Mine
<1>18. ASSUME NEW o \in Owners, NEW s \in Streams, ReadPipe(o, s)
      PROVE  EntriesOwned' /\ ChildrenOwned'
  BY <1>18 DEF ReadPipe, TokensUnique, EntriesOwned, ChildrenOwned, NoStrandedChild,
         TableMatches, Holding, Range, Open, Mine
<1>19. ASSUME NEW o \in Owners, NEW s \in Streams, EndOfStream(o, s)
      PROVE  EntriesOwned' /\ ChildrenOwned'
  BY <1>19 DEF EndOfStream, TokensUnique, EntriesOwned, ChildrenOwned, NoStrandedChild,
         TableMatches, Holding, Range, Open, Mine
<1>20. ASSUME NEW o \in Owners, NEW s \in Streams, ReadFails(o, s)
      PROVE  EntriesOwned' /\ ChildrenOwned'
  BY <1>20 DEF ReadFails, TokensUnique, EntriesOwned, ChildrenOwned, NoStrandedChild,
         TableMatches, Holding, Range, Open, Mine
<1>21. ASSUME NEW o \in Owners, NEW s \in Streams, Write(o, s)
      PROVE  EntriesOwned' /\ ChildrenOwned'
  BY <1>21 DEF Write, TokensUnique, EntriesOwned, ChildrenOwned, NoStrandedChild, TableMatches,
         Holding, Range, Open, Mine
<1>22. CASE UNCHANGED processVars
  BY <1>22 DEF processVars, TokensUnique, EntriesOwned, ChildrenOwned, NoStrandedChild,
         TableMatches, Holding, Range, Open, Mine, Exited, TryWait, Kill
<1> QED
  BY <1>1, <1>2, <1>3, <1>4, <1>5, <1>6, <1>7, <1>8, <1>9, <1>10, <1>11, <1>12, <1>13, <1>14,
     <1>15, <1>16, <1>17, <1>18, <1>19, <1>20, <1>21, <1>22
  DEF ProcessNext, OwnerNext, CaptureNext

(***************************************************************************)
(* What ended well stays whole: after the exit, with no descendant left,   *)
(* nobody writes, and nobody takes the streams a second time.              *)
(***************************************************************************)
LEMMA OutputStep ==
  ASSUME ProcessAssumption, ProcessInv, [ProcessNext]_processVars
  PROVE  Unborn' /\ Accounted' /\ Awaited'
<1> USE DEF ProcessInv, TableInv, ProcessTypeOK, Goto, tableVars, ownerVars, systemVars,
            captureVars
<1>1. ASSUME NEW o \in Owners, Reserve(o)
      PROVE  Unborn' /\ Accounted' /\ Awaited'
  BY <1>1 DEF Reserve, Unborn, Untaken, Accounted, Awaited, Drained, Holding, Exited, Streams
<1>2. ASSUME NEW o \in Owners, CheckToken(o)
      PROVE  Unborn' /\ Accounted' /\ Awaited'
  BY <1>2 DEF CheckToken, Unborn, Untaken, Accounted, Awaited, Drained, Holding, Exited, Streams
<1>3. ASSUME NEW o \in Owners, Spawn(o)
      PROVE  Unborn' /\ Accounted' /\ Awaited'
  <2>1. CASE at' = [at EXCEPT ![o] = "spawned"] /\ child' = [child EXCEPT ![o] = "running"]
    BY <1>3, <2>1 DEF Spawn, Unborn, Untaken, Accounted, Awaited, Drained, Holding, Exited,
           TryWait, Streams
  <2>2. CASE at' = [at EXCEPT ![o] = "releasing"] /\ UNCHANGED child
    BY <1>3, <2>2 DEF Spawn, Unborn, Untaken, Accounted, Awaited, Drained, Holding, Exited,
           TryWait, Streams
  <2> QED
    BY <1>3, <2>1, <2>2 DEF Spawn
<1>4. ASSUME NEW o \in Owners, Capture(o)
      PROVE  Unborn' /\ Accounted' /\ Awaited'
  <2>1. CASE /\ at[o] = "spawned" /\ at' = [at EXCEPT ![o] = "half"] /\ UNCHANGED killed
             /\ reader' = [reader EXCEPT ![o]["stdout"] = "reading"]
    BY <1>4, <2>1 DEF Capture, Unborn, Untaken, Accounted, Awaited, Drained, Holding, Exited,
           TryWait, Streams
  <2>2. CASE /\ at[o] = "half" /\ at' = [at EXCEPT ![o] = "full"] /\ UNCHANGED killed
             /\ reader' = [reader EXCEPT ![o]["stderr"] = "reading"]
    BY <1>4, <2>2 DEF Capture, Unborn, Untaken, Accounted, Awaited, Drained, Holding, Exited,
           TryWait, Streams
  <2>3. CASE /\ at[o] \in {"spawned", "half"} /\ at' = [at EXCEPT ![o] = "reaping"]
             /\ Kill(o) /\ UNCHANGED reader
    BY <1>4, <2>3 DEF Capture, Kill, Unborn, Untaken, Accounted, Awaited, Drained, Holding,
           Exited, TryWait, Streams
  <2> QED
    BY <1>4, <2>1, <2>2, <2>3 DEF Capture
<1>5. ASSUME NEW o \in Owners, Insert(o)
      PROVE  Unborn' /\ Accounted' /\ Awaited'
  <2>1. ~Open(o)
    BY <1>5, OwnEntry DEF Insert, Holding
  <2> QED
    BY <1>5, <2>1 DEF Insert, Unborn, Untaken, Accounted, Awaited, Drained, Holding, Exited,
           TryWait, Streams
<1>6. ASSUME NEW o \in Owners, Poll(o)
      PROVE  Unborn' /\ Accounted' /\ Awaited'
  BY <1>6, OwnEntry DEF Poll, Unborn, Untaken, Accounted, Awaited, Drained, Holding, Exited,
         TryWait, Streams
<1>7. ASSUME NEW o \in Owners, Terminate(o)
      PROVE  Unborn' /\ Accounted' /\ Awaited'
  BY <1>7, OwnEntry DEF Terminate, Unborn, Untaken, Accounted, Awaited, Drained, Holding,
         Exited, TryWait, Streams
<1>8. ASSUME NEW o \in Owners, Resolve(o)
      PROVE  Unborn' /\ Accounted' /\ Awaited'
  BY <1>8 DEF Resolve, Unborn, Untaken, Accounted, Awaited, Drained, Holding, Exited, Streams
<1>9. ASSUME NEW o \in Owners, WaitStep(o)
      PROVE  Unborn' /\ Accounted' /\ Awaited'
  <2>1. Open(o) /\ Mine(o) = o /\ at[o] = "waiting"
    BY <1>9, OwnEntry DEF WaitStep, Holding
  <2>2. /\ child' = IF Exited(o) THEN [child EXCEPT ![o] = "reaped"] ELSE child
        /\ UNCHANGED <<next, entries, token, killed, heirs, written, pipe, kept>>
    BY <1>9, <2>1 DEF WaitStep, TryWait
  <2>3. CASE ~(Exited(o) /\ BothFinished(o))
    <3>1. UNCHANGED <<at, result, reader, captured>>
      BY <1>9, <2>1, <2>3 DEF WaitStep
    <3> QED
      BY <2>2, <3>1 DEF Unborn, Untaken, Accounted, Awaited, Drained, Holding, Exited, TryWait,
             Streams, ProcessShaped, BothFinished, Finished
  <2>4. CASE Exited(o) /\ BothFinished(o)
    <3>1. /\ reader' = [reader EXCEPT ![o] = reader'[o]]
          /\ reader'[o] = [s \in Streams |->
               IF s \in (IF reader[o]["stdout"] = "ok" THEN Streams ELSE {"stdout"})
               THEN "taken" ELSE reader[o][s]]
      BY <1>9, <2>1, <2>4 DEF WaitStep
    <3>2. CASE \A s \in Streams : reader[o][s] = "ok"
      <4>1. /\ at' = [at EXCEPT ![o] = "stdout"]
            /\ captured' = captured \cup {o} /\ result' = result
        BY <1>9, <2>1, <2>4, <3>2 DEF WaitStep
      <4>2. reader'[o]["stdout"] = "taken" /\ reader'[o]["stderr"] = "taken"
        BY <3>1, <3>2 DEF Streams
      <4> QED
        BY <2>1, <2>2, <2>4, <3>1, <3>2, <4>1, <4>2 DEF Unborn, Untaken, Accounted, Awaited,
               Drained, Holding, Exited, TryWait, Streams, ProcessShaped, BothFinished, Finished
    <3>3. CASE ~(\A s \in Streams : reader[o][s] = "ok")
      <4>1. /\ at' = [at EXCEPT ![o] = "returning"] /\ captured' = captured
            /\ result' = [result EXCEPT ![o] = [kind |-> "error"]]
        BY <1>9, <2>1, <2>4, <3>3 DEF WaitStep, AwaitFails
      <4>2. o \notin captured
        BY <2>1 DEF Accounted, Unborn, Untaken, Streams
      <4> QED
        BY <2>1, <2>2, <2>4, <3>1, <3>3, <4>1, <4>2 DEF Unborn, Untaken, Accounted, Awaited,
               Drained, Holding, Exited, TryWait, Streams, ProcessShaped, BothFinished, Finished
    <3> QED
      BY <3>2, <3>3
  <2> QED
    BY <2>3, <2>4
<1>10. ASSUME NEW o \in Owners, ReadStdout(o)
      PROVE  Unborn' /\ Accounted' /\ Awaited'
  <2>1. at[o] = "stdout" /\ o \in captured /\ Decoded(o, "stdout") = written[o]["stdout"]
    BY <1>10, OwnEntry DEF ReadStdout, Decoded, Holding, Awaited, Accounted, Drained, Streams
  <2> QED
    BY <1>10, <2>1 DEF ReadStdout, ProcessShaped, Unborn, Untaken, Accounted, Awaited, Drained,
           Holding, Exited, TryWait, Streams
<1>11. ASSUME NEW o \in Owners, ReadStderr(o)
      PROVE  Unborn' /\ Accounted' /\ Awaited'
  <2>1. at[o] = "stderr" /\ o \in captured /\ Decoded(o, "stderr") = written[o]["stderr"]
    BY <1>11, OwnEntry DEF ReadStderr, Decoded, Holding, Awaited, Accounted, Drained, Streams
  <2> QED
    BY <1>11, <2>1 DEF ReadStderr, ProcessShaped, Unborn, Untaken, Accounted, Awaited, Drained,
           Holding, Exited, TryWait, Streams
<1>12. ASSUME NEW o \in Owners, Drop(o)
      PROVE  Unborn' /\ Accounted' /\ Awaited'
  BY <1>12 DEF Drop, Unborn, Untaken, Accounted, Awaited, Drained, Holding, Exited, Streams
<1>13. ASSUME NEW o \in Owners, Release(o)
      PROVE  Unborn' /\ Accounted' /\ Awaited'
  <2>1. CASE Open(o)
    <3>1. Mine(o) = o /\ TryWait(o) /\ at' = [at EXCEPT ![o] = "reaping"]
      BY <1>13, <2>1, OwnEntry DEF Release
    <3> QED
      BY <1>13, <3>1 DEF Release, Unborn, Untaken, Accounted, Awaited, Drained, Holding, Exited,
             TryWait, Streams
  <2>2. CASE ~Open(o)
    BY <1>13, <2>2 DEF Release, Unborn, Untaken, Accounted, Awaited, Drained, Holding, Exited,
           TryWait, Streams
  <2> QED
    BY <2>1, <2>2
<1>14. ASSUME NEW o \in Owners, Reap(o)
      PROVE  Unborn' /\ Accounted' /\ Awaited'
  BY <1>14 DEF Reap, Unborn, Untaken, Accounted, Awaited, Drained, Holding, Exited, Streams
<1>15. ASSUME NEW o \in Owners, Fork(o)
      PROVE  Unborn' /\ Accounted' /\ Awaited'
  BY <1>15 DEF Fork, Unborn, Untaken, Accounted, Awaited, Drained, Holding, Exited, Streams
<1>16. ASSUME NEW o \in Owners, HeirsEnd(o)
      PROVE  Unborn' /\ Accounted' /\ Awaited'
  BY <1>16 DEF HeirsEnd, Unborn, Untaken, Accounted, Awaited, Drained, Holding, Exited, Streams
<1>17. ASSUME NEW o \in Owners, Exit(o)
      PROVE  Unborn' /\ Accounted' /\ Awaited'
  BY <1>17 DEF Exit, Unborn, Untaken, Accounted, Awaited, Drained, Holding, Exited, Streams
<1>18. ASSUME NEW o \in Owners, NEW s \in Streams, ReadPipe(o, s)
      PROVE  Unborn' /\ Accounted' /\ Awaited'
  <2>1. PICK count \in 1..pipe[o][s] :
          /\ pipe' = [pipe EXCEPT ![o][s] = pipe[o][s] - count]
          /\ kept' = [kept EXCEPT ![o][s] = kept[o][s] + Keep(count, o, s)]
    BY <1>18 DEF ReadPipe
  <2>2. Keep(count, o, s) \in Int /\ Keep(count, o, s) <= count
    BY <1>18, <2>1 DEF Keep, ProcessAssumption
  <2>3. reader[o][s] = "reading" /\ o \notin captured
    BY <1>18 DEF ReadPipe, Accounted
  <2>4. \A p \in Owners, r \in Streams : p # o \/ r # s =>
          pipe'[p][r] = pipe[p][r] /\ kept'[p][r] = kept[p][r]
    BY <2>1
  <2>5. pipe'[o][s] = pipe[o][s] - count /\ kept'[o][s] = kept[o][s] + Keep(count, o, s)
    BY <2>1
  <2>6. kept'[o][s] + pipe'[o][s] <= written[o][s]
    BY <2>1, <2>2, <2>5 DEF Accounted
  <2>7. UNCHANGED <<at, result, child, heirs, written, reader, captured>>
    BY <1>18 DEF ReadPipe
  <2>8. Accounted'
    <3>1. ASSUME NEW p \in Owners, NEW r \in Streams
          PROVE  kept'[p][r] + pipe'[p][r] <= written'[p][r]
      BY <2>4, <2>6, <2>7 DEF Accounted
    <3>2. ASSUME NEW p \in Owners, NEW r \in Streams, reader[p][r] = "ok" \/ p \in captured
          PROVE  Drained(p, r) => Drained(p, r)'
      BY <2>3, <2>4, <2>7, <3>2 DEF Drained, Exited
    <3> QED
      BY <2>7, <3>1, <3>2 DEF Accounted
  <2> QED
    BY <2>7, <2>8 DEF Unborn, Awaited
<1>19. ASSUME NEW o \in Owners, NEW s \in Streams, EndOfStream(o, s)
      PROVE  Unborn' /\ Accounted' /\ Awaited'
  BY <1>19, SMTT(30) DEF EndOfStream, Ended, Overflowed, Unborn, Untaken, Accounted, Awaited,
     Drained, Holding, Exited, Streams
<1>20. ASSUME NEW o \in Owners, NEW s \in Streams, ReadFails(o, s)
      PROVE  Unborn' /\ Accounted' /\ Awaited'
  BY <1>20 DEF ReadFails, Unborn, Untaken, Accounted, Awaited, Drained, Holding, Exited, Streams
<1>21. ASSUME NEW o \in Owners, NEW s \in Streams, Write(o, s)
      PROVE  Unborn' /\ Accounted' /\ Awaited'
  <2>1. /\ written' = [written EXCEPT ![o][s] = written[o][s] + 1]
        /\ pipe' = [pipe EXCEPT ![o][s] = pipe[o][s] + 1]
        /\ UNCHANGED <<at, result, child, heirs, reader, kept, captured>>
    BY <1>21 DEF Write
  <2>2. ~Drained(o, s) /\ o \notin captured /\ reader[o][s] # "ok"
    BY <1>21 DEF Write, Accounted, Drained, Exited
  <2>3. \A p \in Owners, r \in Streams : p # o \/ r # s =>
          pipe'[p][r] = pipe[p][r] /\ written'[p][r] = written[p][r]
    BY <2>1
  <2>4. pipe'[o][s] = pipe[o][s] + 1 /\ written'[o][s] = written[o][s] + 1
    BY <2>1
  <2>5. kept[o][s] + pipe'[o][s] <= written'[o][s]
    BY <2>4 DEF Accounted
  <2>6. Accounted'
    BY <2>1, <2>2, <2>3, <2>5 DEF Accounted, Drained, Exited
  <2>7. Awaited'
    BY <2>1, <2>2, <2>3 DEF Awaited, Streams
  <2> QED
    BY <2>1, <2>6, <2>7 DEF Unborn
<1>22. CASE UNCHANGED processVars
  BY <1>22 DEF processVars, Unborn, Untaken, Accounted, Awaited, Drained, Holding, Exited,
         TryWait, Streams
<1> QED
  BY <1>1, <1>2, <1>3, <1>4, <1>5, <1>6, <1>7, <1>8, <1>9, <1>10, <1>11, <1>12, <1>13, <1>14,
     <1>15, <1>16, <1>17, <1>18, <1>19, <1>20, <1>21, <1>22
  DEF ProcessNext, OwnerNext, CaptureNext

(***************************************************************************)
(* The inductive invariant holds for every table.                          *)
(***************************************************************************)
THEOREM ProcessCorrect ==
  ASSUME ProcessAssumption
  PROVE  ProcessSpec => []ProcessInv
<1>1. ProcessInit => ProcessInv
  BY ProcessInitInv
<1>2. ProcessInv /\ [ProcessNext]_processVars => ProcessInv'
  BY ProcessTypeStep, ProcessTableStep, OutputStep DEF ProcessInv, TableInv
<1> QED
  BY <1>1, <1>2, PTL DEF ProcessSpec

(***************************************************************************)
(* No child is left without an owner that will reap it, whatever is        *)
(* cancelled, and a token never stands for another owner's child.          *)
(***************************************************************************)
THEOREM ProcessChildrenOwned ==
  ASSUME ProcessAssumption
  PROVE  ProcessSpec => []ChildrenOwned
<1>1. ProcessInv => ChildrenOwned
  BY DEF ProcessInv, TableInv
<1> QED
  BY <1>1, ProcessCorrect, PTL

(***************************************************************************)
(* A successful await returns all that was written, within the limit, and  *)
(* no await asks for streams that were taken.                              *)
(***************************************************************************)
THEOREM ProcessAwaitExact ==
  ASSUME ProcessAssumption
  PROVE  ProcessSpec => []AwaitExact
<1>1. ProcessInv => AwaitExact
  <2> SUFFICES ASSUME ProcessInv
               PROVE  OutputComplete /\ NoTakenWait
    BY DEF ProcessInv, TableInv, AwaitExact
  <2>1. OutputComplete
    <3> SUFFICES ASSUME NEW o \in Owners, result[o].kind = "ok", NEW s \in Streams
                 PROVE  result[o][s] = written[o][s] /\ written[o][s] <= Limit
      BY DEF OutputComplete
    <3>1. result[o]["stdout"] = written[o]["stdout"] /\ result[o]["stderr"] = written[o]["stderr"]
      BY DEF ProcessInv, Awaited
    <3>2. written[o][s] = kept[o][s]
      BY DEF ProcessInv, Awaited, Accounted, Drained
    <3> QED
      BY <3>1, <3>2 DEF Streams, ProcessInv, TableInv, ProcessTypeOK
  <2>2. NoTakenWait
    <3> SUFFICES ASSUME NEW o \in Owners, at[o] = "waiting", Open(o), NEW s \in Streams
                 PROVE  reader[Mine(o)][s] # "taken"
      BY DEF NoTakenWait
    <3>1. Mine(o) = o
      BY OwnEntry DEF ProcessInv
    <3> QED
      BY <3>1 DEF ProcessInv, Unborn, Untaken
  <2> QED
    BY <2>1, <2>2
<1> QED
  BY <1>1, ProcessCorrect, PTL
-----------------------------------------------------------------------------
(***************************************************************************)
(* Sockets: the inductive invariant.  The records of the operations:       *)
(***************************************************************************)
InsertOp == [at : {"insert"}, holds : SUBSET Nat, kind : {"listen", "connect"}, socket : Nat]
AcceptOp == [at : {"accept"}, holds : SUBSET Nat, socket : Nat]
PollOp == [at : {"poll"}, holds : SUBSET Nat, handle : Nat, socket : Nat, fd : Descriptors,
           left : Nat]
CheckOp == [at : {"recheck", "again"}, holds : SUBSET Nat, handle : Nat, ready : BOOLEAN,
            socket : Nat, left : Nat, polled : Nat]
TransferOp == [at : {"lock", "read", "write"}, kind : {"read", "write"}, holds : SUBSET Nat,
               socket : Nat, chunk : Nat]
Ops == {Idle} \cup InsertOp \cup AcceptOp \cup PollOp \cup CheckOp \cup TransferOp

\* Shapes that NetworkTypeOK leaves open.
NetworkShaped ==
  /\ op \in [Threads -> Ops]
  /\ DOMAIN input = Sockets /\ io \in [Sockets -> SUBSET Threads]
  /\ output \in [Sockets -> Seq(Threads \X Nat)]

\* An operation other than the test of a handle holds its socket.
Holds == \A t \in Threads : op[t].at \notin {"idle", "recheck", "again"} =>
           op[t].socket \in op[t].holds

\* A socket that something keeps open has a descriptor.
Described == \A s \in Alive : \E d \in DOMAIN bound : bound[d] = s

\* The descriptor that is polled is the one of the socket.
Polling == \A t \in Threads : op[t].at = "poll" =>
             op[t].fd \in DOMAIN bound /\ bound[op[t].fd] = op[t].socket

\* A wait's handle was given out before.
Given == \A t \in Threads : op[t].at \in Waiting => op[t].handle < nextHandle

SocketInv == /\ NetworkTypeOK /\ NetworkShaped /\ Holds /\ Described /\ Polling /\ Given
             /\ PollsItsOwn /\ SameSocket

\* Who transfers has the lock, and nothing was written since its last chunk.
Transfers(t) ==
  /\ op[t].at \in {"read", "write"} => io[op[t].socket] = {t}
  /\ op[t].at = "lock" => op[t].chunk = 0
  /\ op[t].at = "write" /\ op[t].chunk > 0 =>
       /\ Len(output[op[t].socket]) > 0
       /\ output[op[t].socket][Len(output[op[t].socket])] = <<t, op[t].chunk - 1>>

Locked == \A t \in Threads : Transfers(t)

NetworkInv == SocketInv /\ Locked /\ WritesWhole
-----------------------------------------------------------------------------
\* What something keeps open, one holder at a time.
LEMMA AliveIs ==
  ASSUME NEW x
  PROVE  x \in Alive <=> \/ \E h \in DOMAIN listeners : listeners[h] = x
                         \/ \E h \in DOMAIN connections : connections[h] = x
                         \/ \E t \in Threads : x \in op[t].holds
BY DEF Alive, Range

\* The same after a step.
LEMMA AliveIsNext ==
  ASSUME NEW x
  PROVE  x \in Alive' <=> \/ \E h \in DOMAIN listeners' : listeners'[h] = x
                          \/ \E h \in DOMAIN connections' : connections'[h] = x
                          \/ \E t \in Threads : x \in op'[t].holds
BY DEF Alive, Range

\* What is open was opened.
LEMMA AliveOpened ==
  ASSUME NetworkAssumption, NetworkTypeOK, NEW x \in Alive
  PROVE  x \in Nat /\ x \in Sockets /\ x <= opened
<1>1. x \in 1..opened
  BY DEF NetworkTypeOK
<1>2. opened \in Nat /\ MaxSockets \in Nat /\ opened <= MaxSockets
  BY DEF NetworkTypeOK, NetworkAssumption
<1> QED
  BY <1>1, <1>2 DEF Sockets

\* Nothing is open at first.
LEMMA NetworkInitInv ==
  ASSUME NetworkAssumption, NetworkInit
  PROVE  NetworkInv
<1> USE DEF NetworkInit, Idle
<1>1. Alive = {} /\ Handles = {}
  BY DEF Alive, Handles, Range
<1>2. NetworkTypeOK
  BY <1>1 DEF NetworkTypeOK, NetworkAssumption, Handles
<1>3. NetworkShaped
  BY DEF NetworkShaped, Ops
<1> QED
  BY <1>1, <1>2, <1>3 DEF NetworkInv, SocketInv, Holds, Described, Polling, Given, PollsItsOwn,
     SameSocket, Locked, Transfers, WritesWhole, Waiting

\* The record of an operation, by where the operation is.
LEMMA OpIs ==
  ASSUME NetworkShaped, NEW t \in Threads
  PROVE  /\ op[t].at = "insert" => op[t] \in InsertOp
         /\ op[t].at = "accept" => op[t] \in AcceptOp
         /\ op[t].at = "poll" => op[t] \in PollOp
         /\ op[t].at \in {"recheck", "again"} => op[t] \in CheckOp
         /\ op[t].at \in {"lock", "read", "write"} => op[t] \in TransferOp
         /\ op[t].holds \subseteq Nat
BY DEF NetworkShaped, Ops, Idle, InsertOp, AcceptOp, PollOp, CheckOp, TransferOp

\* The socket of an open handle, its descriptor, and a poll of it.
LEMMA Reached ==
  ASSUME NetworkAssumption, NetworkTypeOK, Described, NEW h \in Handles
  PROVE  /\ Socket(h) \in Alive /\ Socket(h) \in Nat
         /\ DescriptorOf(Socket(h)) \in DOMAIN bound
         /\ DescriptorOf(Socket(h)) \in Descriptors
         /\ bound[DescriptorOf(Socket(h))] = Socket(h)
<1>1. Socket(h) \in Alive
  BY AliveIs DEF Socket, Handles
<1>2. Socket(h) \in Nat
  BY <1>1, AliveOpened
<1>3. \E d \in DOMAIN bound : bound[d] = Socket(h)
  BY <1>1 DEF Described
<1>4. DescriptorOf(Socket(h)) \in DOMAIN bound /\ bound[DescriptorOf(Socket(h))] = Socket(h)
  BY <1>3 DEF DescriptorOf
<1> QED
  BY <1>1, <1>2, <1>4 DEF NetworkTypeOK

\* The poll of an open handle is a well-formed record.
LEMMA PollRecord ==
  ASSUME NetworkAssumption, NetworkTypeOK, Described, NEW t, NEW h \in Handles
  PROVE  PollOf(t, h) \in PollOp
<1>1. h \in Nat
  BY DEF NetworkTypeOK
<1> QED
  BY <1>1, Reached DEF PollOf, PollOp, NetworkAssumption

\* An operation's socket is one of those opened.
LEMMA SocketOf ==
  ASSUME NetworkAssumption, NetworkInv, NEW t \in Threads,
         op[t].at \notin {"idle", "recheck", "again"}
  PROVE  op[t].socket \in Alive /\ op[t].socket \in Sockets /\ op[t].socket \in Nat
<1>1. op[t].socket \in op[t].holds
  BY DEF NetworkInv, SocketInv, Holds
<1>2. op[t].socket \in Alive
  BY <1>1, AliveIs
<1> QED
  BY <1>2, AliveOpened DEF NetworkInv, SocketInv

\* Every operation keeps the shape of its record, and the tables theirs.
LEMMA ShapeStep ==
  ASSUME NetworkAssumption, NetworkInv, [NetworkNext]_networkVars
  PROVE  NetworkShaped'
<1> USE DEF NetworkInv, SocketInv, Step, handleVars, peerVars, Idle
<1>1. ASSUME NEW t \in Threads, OpenSocket(t)
      PROVE  NetworkShaped'
  BY <1>1, OpIs, SocketOf DEF OpenSocket, Obtain, NetworkShaped, NetworkTypeOK,
     NetworkAssumption, Ops, InsertOp, AcceptOp, PollOp, CheckOp, TransferOp
<1>2. ASSUME NEW t \in Threads, Accept(t)
      PROVE  NetworkShaped'
  <2>1. op'[t] \in InsertOp /\ op' = [op EXCEPT ![t] = op'[t]]
    BY <1>2, OpIs DEF NetworkShaped, Accept, Obtain, InsertOp, AcceptOp, NetworkTypeOK
  <2> QED
    BY <1>2, <2>1, SocketOf DEF Accept, Obtain, NetworkShaped, Ops
<1>3. ASSUME NEW t \in Threads, InsertSocket(t)
      PROVE  NetworkShaped'
  BY <1>3, OpIs, SocketOf DEF InsertSocket, Advance, NextFree, Exhausted, NetworkShaped,
     NetworkTypeOK, NetworkAssumption, Ops, InsertOp, AcceptOp, PollOp, CheckOp, TransferOp
<1>4. ASSUME NEW t \in Threads, PollSocket(t)
      PROVE  NetworkShaped'
  <2>1. op'[t] \in CheckOp \cup {Idle} /\ op' = [op EXCEPT ![t] = op'[t]]
    BY <1>4, OpIs, SocketOf DEF NetworkShaped, PollSocket, PollOp, CheckOp, NetworkTypeOK, Polling
  <2> QED
    BY <1>4, <2>1, SocketOf DEF PollSocket, NetworkShaped, Ops
<1>5. ASSUME NEW t \in Threads, Recheck(t)
      PROVE  NetworkShaped'
  <2>1. op'[t] \in CheckOp \cup {Idle} /\ op' = [op EXCEPT ![t] = op'[t]]
    BY <1>5, OpIs DEF NetworkShaped, Recheck, CheckOp
  <2> QED
    BY <1>5, <2>1, SocketOf DEF Recheck, NetworkShaped, Ops
<1>6. ASSUME NEW t \in Threads, PollAgain(t)
      PROVE  NetworkShaped'
  <2>1. op'[t] \in PollOp \cup {Idle} /\ op' = [op EXCEPT ![t] = op'[t]]
    BY <1>6, OpIs, PollRecord DEF NetworkShaped, PollAgain, PollOf, CheckOp, PollOp, NetworkTypeOK
  <2> QED
    BY <1>6, <2>1, SocketOf DEF PollAgain, PollOf, NetworkShaped, Ops
<1>7. ASSUME NEW t \in Threads, TimePasses(t)
      PROVE  NetworkShaped'
  <2>1. op' = [op EXCEPT ![t] = [op[t] EXCEPT !.left = op[t].left - 1]]
    BY <1>7 DEF TimePasses
  <2>2. CASE op[t].at = "poll"
    <3>1. [op[t] EXCEPT !.left = op[t].left - 1] \in PollOp
      BY <1>7, <2>2, OpIs DEF TimePasses, PollOp
    <3> QED
      BY <1>7, <2>1, <3>1 DEF TimePasses, NetworkShaped, Ops
  <2>3. CASE op[t].at \in {"recheck", "again"}
    <3>1. [op[t] EXCEPT !.left = op[t].left - 1] \in CheckOp
      BY <1>7, <2>3, OpIs DEF TimePasses, CheckOp
    <3> QED
      BY <1>7, <2>1, <3>1 DEF TimePasses, NetworkShaped, Ops
  <2> QED
    BY <1>7, <2>2, <2>3 DEF TimePasses, Waiting
<1>8. ASSUME NEW t \in Threads, Lock(t)
      PROVE  NetworkShaped'
  <2>1. op'[t] \in TransferOp /\ op' = [op EXCEPT ![t] = op'[t]]
    BY <1>8, OpIs DEF NetworkShaped, Lock, TransferOp
  <2> QED
    BY <1>8, <2>1, SocketOf DEF Lock, NetworkShaped, Ops
<1>9. ASSUME NEW t \in Threads, Read(t)
      PROVE  NetworkShaped'
  BY <1>9, OpIs, SocketOf DEF Read, TransferEnds, NetworkShaped, NetworkTypeOK,
     NetworkAssumption, Ops, InsertOp, AcceptOp, PollOp, CheckOp, TransferOp
<1>10. ASSUME NEW t \in Threads, WriteChunk(t)
      PROVE  NetworkShaped'
  <2>1. op' = [op EXCEPT ![t] = [op[t] EXCEPT !.chunk = op[t].chunk + 1]]
    BY <1>10 DEF WriteChunk
  <2>2. op[t] \in TransferOp
    BY <1>10, OpIs DEF WriteChunk
  <2>3. [op[t] EXCEPT !.chunk = op[t].chunk + 1] \in TransferOp
    BY <2>2 DEF TransferOp
  <2>4. op' \in [Threads -> Ops]
    BY <2>1, <2>3 DEF NetworkShaped, Ops
  <2>5. <<t, op[t].chunk>> \in Threads \X Nat
    BY <2>2 DEF TransferOp
  <2>6. /\ op[t].socket \in Sockets
        /\ output' = [output EXCEPT ![op[t].socket] = Append(output[op[t].socket], <<t, op[t].chunk>>)]
    BY <1>10, SocketOf DEF WriteChunk
  <2>7. output' \in [Sockets -> Seq(Threads \X Nat)]
    BY <2>5, <2>6 DEF NetworkShaped
  <2> QED
    BY <1>10, <2>4, <2>7 DEF WriteChunk, NetworkShaped
<1>11. ASSUME NEW t \in Threads, WriteEnds(t)
      PROVE  NetworkShaped'
  BY <1>11, OpIs, SocketOf DEF WriteEnds, TransferEnds, NetworkShaped, NetworkTypeOK,
         NetworkAssumption, Ops, InsertOp, AcceptOp, PollOp, CheckOp, TransferOp
<1>12. ASSUME NEW t \in Threads, NEW h \in 1..MaxHandle, AcceptBegins(t, h)
      PROVE  NetworkShaped'
  <2>1. op'[t] \in AcceptOp /\ op' = [op EXCEPT ![t] = op'[t]]
    BY <1>12, Reached DEF NetworkShaped, AcceptBegins, Begins, AcceptOp
  <2> QED
    BY <1>12, <2>1, SocketOf DEF AcceptBegins, Begins, NetworkShaped, Ops
<1>13. ASSUME NEW t \in Threads, NEW h \in 1..MaxHandle, CloseHandle(t, h)
      PROVE  NetworkShaped'
  BY <1>13, OpIs, SocketOf DEF CloseHandle, Begins, NetworkShaped, NetworkTypeOK,
     NetworkAssumption, Ops, InsertOp, AcceptOp, PollOp, CheckOp, TransferOp
<1>14. ASSUME NEW t \in Threads, NEW h \in 1..MaxHandle, WaitBegins(t, h)
      PROVE  NetworkShaped'
  <2>1. op'[t] \in PollOp /\ op' = [op EXCEPT ![t] = op'[t]]
    BY <1>14, PollRecord DEF NetworkShaped, WaitBegins, PollOf, Begins, NetworkTypeOK
  <2> QED
    BY <1>14, <2>1, SocketOf DEF WaitBegins, PollOf, Begins, NetworkShaped, Ops
<1>15. ASSUME NEW t \in Threads, NEW h \in 1..MaxHandle, TransferBegins(t, h)
      PROVE  NetworkShaped'
  <2>1. op'[t] \in TransferOp /\ op' = [op EXCEPT ![t] = op'[t]]
    BY <1>15, Reached DEF NetworkShaped, TransferBegins, Begins, TransferOp
  <2> QED
    BY <1>15, <2>1, SocketOf DEF TransferBegins, Begins, NetworkShaped, Ops
<1>16. ASSUME NEW s \in Sockets, PeerSends(s)
      PROVE  NetworkShaped'
  BY <1>16, OpIs, SocketOf DEF PeerSends, NetworkShaped, NetworkTypeOK, NetworkAssumption, Ops,
         InsertOp, AcceptOp, PollOp, CheckOp, TransferOp
<1>17. CASE UNCHANGED networkVars
  BY <1>17 DEF networkVars, NetworkShaped, NetworkTypeOK, NetworkAssumption, Ops, InsertOp,
     AcceptOp, PollOp, CheckOp, TransferOp
<1> QED
  BY <1>1, <1>2, <1>3, <1>4, <1>5, <1>6, <1>7, <1>8, <1>9, <1>10, <1>11, <1>12, <1>13, <1>14,
     <1>15, <1>16, <1>17
  DEF NetworkNext

\* A thread that takes up no new socket leaves open what was open.
LEMMA OpAlive ==
  ASSUME NetworkShaped, UNCHANGED handleVars, NEW t \in Threads, NEW S,
         op' = [op EXCEPT ![t] = op'[t]], op'[t].holds \subseteq Alive \cup S
  PROVE  Alive' \subseteq Alive \cup S
<1> SUFFICES ASSUME NEW x \in Alive', x \notin Alive
             PROVE  x \in S
  OBVIOUS
<1>1. listeners' = listeners /\ connections' = connections
  BY DEF handleVars
<1>2. PICK u \in Threads : x \in op'[u].holds
  BY <1>1, AliveIs, AliveIsNext
<1>3. u = t
  BY <1>2, AliveIs DEF NetworkShaped
<1> QED
  BY <1>2, <1>3

\* Dropping what is dead keeps the descriptors of the rest.
LEMMA DropKeeps ==
  ASSUME DropDead
  PROVE  /\ DOMAIN bound' \subseteq DOMAIN bound
         /\ \A d \in DOMAIN bound : bound[d] \in Alive' =>
              d \in DOMAIN bound' /\ bound'[d] = bound[d]
BY DEF DropDead, Restrict

\* A handle below next_handle is not given again: it is open only if it was,
\* and then for the same socket.
LEMMA HandleTableStep ==
  ASSUME NetworkAssumption, NetworkInv, [NetworkNext]_networkVars
  PROVE  /\ nextHandle' \in 1..MaxHandle /\ Handles' \subseteq 1..(nextHandle' - 1)
         /\ DOMAIN listeners' \cap DOMAIN connections' = {} /\ nextHandle <= nextHandle'
         /\ \A h \in Handles' : h < nextHandle => h \in Handles /\ Socket(h)' = Socket(h)
<1> USE DEF NetworkInv, SocketInv, Step, handleVars, peerVars, Idle
<1>1. ASSUME NEW t \in Threads, InsertSocket(t)
      PROVE  /\ nextHandle' \in 1..MaxHandle /\ Handles' \subseteq 1..(nextHandle' - 1)
             /\ DOMAIN listeners' \cap DOMAIN connections' = {} /\ nextHandle <= nextHandle'
             /\ \A h \in Handles' : h < nextHandle => h \in Handles /\ Socket(h)' = Socket(h)
  <2>1. op[t] \in InsertOp /\ op[t].socket \in Alive
    BY <1>1, OpIs, SocketOf DEF InsertSocket
  <2>2. CASE Exhausted
    BY <1>1, <2>2 DEF InsertSocket, NetworkTypeOK, NetworkAssumption, Handles, Socket
  <2>3. CASE ~Exhausted
    <3>1. /\ nextHandle \in Nat /\ nextHandle > 0 /\ nextHandle < MaxHandle /\ MaxHandle \in Nat
          /\ nextHandle' = nextHandle + 1
      BY <1>1, <2>3 DEF InsertSocket, Exhausted, Advance, NetworkTypeOK, NetworkAssumption
    <3>2. /\ \A h \in DOMAIN listeners : h \in Nat /\ h > 0 /\ h < nextHandle
          /\ \A h \in DOMAIN connections : h \in Nat /\ h > 0 /\ h < nextHandle
      BY <3>1 DEF NetworkTypeOK, Handles
    <3>3. \/ /\ DOMAIN listeners' = DOMAIN listeners \cup {nextHandle}
             /\ \A h \in DOMAIN listeners : h # nextHandle => listeners'[h] = listeners[h]
             /\ connections' = connections
          \/ /\ DOMAIN connections' = DOMAIN connections \cup {nextHandle}
             /\ \A h \in DOMAIN connections : h # nextHandle => connections'[h] = connections[h]
             /\ listeners' = listeners
      BY <1>1, <2>3 DEF InsertSocket, NextFree
    <3>4. CASE /\ DOMAIN listeners' = DOMAIN listeners \cup {nextHandle}
               /\ \A h \in DOMAIN listeners : h # nextHandle => listeners'[h] = listeners[h]
               /\ connections' = connections
      BY <3>1, <3>2, <3>4 DEF NetworkTypeOK, Handles, Socket
    <3>5. CASE /\ DOMAIN connections' = DOMAIN connections \cup {nextHandle}
               /\ \A h \in DOMAIN connections : h # nextHandle => connections'[h] = connections[h]
               /\ listeners' = listeners
      BY <3>1, <3>2, <3>5 DEF NetworkTypeOK, Handles, Socket
    <3> QED
      BY <3>3, <3>4, <3>5
  <2> QED
    BY <2>2, <2>3
<1>2. ASSUME NEW t \in Threads, NEW h \in 1..MaxHandle, CloseHandle(t, h)
      PROVE  /\ nextHandle' \in 1..MaxHandle /\ Handles' \subseteq 1..(nextHandle' - 1)
             /\ DOMAIN listeners' \cap DOMAIN connections' = {} /\ nextHandle <= nextHandle'
             /\ \A k \in Handles' : k < nextHandle => k \in Handles /\ Socket(k)' = Socket(k)
  <2>1. /\ DOMAIN listeners' = DOMAIN listeners \ {h} /\ DOMAIN connections' = DOMAIN connections \ {h}
        /\ \A k \in DOMAIN listeners' : listeners'[k] = listeners[k]
        /\ \A k \in DOMAIN connections' : connections'[k] = connections[k]
        /\ nextHandle' = nextHandle
    BY <1>2 DEF CloseHandle, Restrict
  <2>2. nextHandle \in Nat
    BY DEF NetworkTypeOK, NetworkAssumption
  <2> QED
    BY <2>1, <2>2 DEF NetworkTypeOK, Handles, Socket
<1>3. CASE UNCHANGED handleVars
  BY <1>3 DEF NetworkTypeOK, NetworkAssumption, Handles, Socket
<1>4. \/ UNCHANGED handleVars
      \/ \E t \in Threads : InsertSocket(t) \/ \E h \in 1..MaxHandle : CloseHandle(t, h)
  BY ZenonT(40) DEF NetworkNext, networkVars, OpenSocket, Accept, Obtain, PollSocket, Recheck,
     PollAgain, TimePasses, Lock, Read, WriteChunk, WriteEnds, TransferEnds, AcceptBegins,
     WaitBegins, TransferBegins,
         PeerSends
<1> QED
  BY <1>1, <1>2, <1>3, <1>4

\* A step opens at most the next socket, which gets a free descriptor; every
\* socket that stays open keeps its own.
LEMMA AliveStep ==
  ASSUME NetworkAssumption, NetworkInv, [NetworkNext]_networkVars
  PROVE  /\ \/ opened' = opened /\ Alive' \subseteq Alive
            \/ /\ opened' = opened + 1 /\ opened' \in Sockets /\ Alive' \subseteq Alive \cup {opened'}
               /\ \E d \in DOMAIN bound' : bound'[d] = opened'
         /\ DOMAIN bound' \subseteq Descriptors
         /\ \A d \in DOMAIN bound : bound[d] \in Alive' =>
              d \in DOMAIN bound' /\ bound'[d] = bound[d]
<1> USE DEF NetworkInv, SocketInv, Step, handleVars, peerVars, Idle
<1>1. ASSUME NEW t \in Threads, OpenSocket(t)
      PROVE  /\ \/ opened' = opened /\ Alive' \subseteq Alive
                \/ /\ opened' = opened + 1 /\ opened' \in Sockets /\ Alive' \subseteq Alive \cup {opened'}
                   /\ \E d \in DOMAIN bound' : bound'[d] = opened'
             /\ DOMAIN bound' \subseteq Descriptors
             /\ \A d \in DOMAIN bound : bound[d] \in Alive' =>
                  d \in DOMAIN bound' /\ bound'[d] = bound[d]
  <2>1. op' = [op EXCEPT ![t] = op'[t]] /\ op'[t].holds \subseteq Alive \cup {opened'}
    BY <1>1, AliveIs DEF OpenSocket, Obtain, NetworkShaped
  <2>2. Alive' \subseteq Alive \cup {opened'}
    BY <1>1, <2>1, OpAlive DEF OpenSocket, Obtain
  <2>3. opened' = opened + 1 /\ opened' \in Sockets
    BY <1>1 DEF OpenSocket, Obtain, NetworkTypeOK, NetworkAssumption, Sockets
  <2>4. PICK d \in Descriptors \ DOMAIN bound :
          bound' = [e \in DOMAIN bound \cup {d} |-> IF e = d THEN opened' ELSE bound[e]]
    BY <1>1 DEF OpenSocket, Obtain
  <2>5. /\ DOMAIN bound' = DOMAIN bound \cup {d} /\ bound'[d] = opened'
        /\ \A e \in DOMAIN bound : bound'[e] = bound[e]
    BY <2>4
  <2> QED
    BY <2>2, <2>3, <2>5 DEF NetworkTypeOK
<1>2. ASSUME NEW t \in Threads, Accept(t)
      PROVE  /\ \/ opened' = opened /\ Alive' \subseteq Alive
                \/ /\ opened' = opened + 1 /\ opened' \in Sockets /\ Alive' \subseteq Alive \cup {opened'}
                   /\ \E d \in DOMAIN bound' : bound'[d] = opened'
             /\ DOMAIN bound' \subseteq Descriptors
             /\ \A d \in DOMAIN bound : bound[d] \in Alive' =>
                  d \in DOMAIN bound' /\ bound'[d] = bound[d]
  <2>1. op' = [op EXCEPT ![t] = op'[t]] /\ op'[t].holds \subseteq Alive \cup {opened'}
    BY <1>2, AliveIs DEF Accept, Obtain, NetworkShaped
  <2>2. Alive' \subseteq Alive \cup {opened'}
    BY <1>2, <2>1, OpAlive DEF Accept, Obtain
  <2>3. opened' = opened + 1 /\ opened' \in Sockets
    BY <1>2 DEF Accept, Obtain, NetworkTypeOK, NetworkAssumption, Sockets
  <2>4. PICK d \in Descriptors \ DOMAIN bound :
          bound' = [e \in DOMAIN bound \cup {d} |-> IF e = d THEN opened' ELSE bound[e]]
    BY <1>2 DEF Accept, Obtain
  <2>5. /\ DOMAIN bound' = DOMAIN bound \cup {d} /\ bound'[d] = opened'
        /\ \A e \in DOMAIN bound : bound'[e] = bound[e]
    BY <2>4
  <2> QED
    BY <2>2, <2>3, <2>5 DEF NetworkTypeOK
<1>3. ASSUME NEW t \in Threads, InsertSocket(t)
      PROVE  /\ \/ opened' = opened /\ Alive' \subseteq Alive
                \/ /\ opened' = opened + 1 /\ opened' \in Sockets /\ Alive' \subseteq Alive \cup {opened'}
                   /\ \E d \in DOMAIN bound' : bound'[d] = opened'
             /\ DOMAIN bound' \subseteq Descriptors
             /\ \A d \in DOMAIN bound : bound[d] \in Alive' =>
                  d \in DOMAIN bound' /\ bound'[d] = bound[d]
  <2>1. op[t].socket \in Alive /\ op' = [op EXCEPT ![t] = Idle]
    BY <1>3, SocketOf DEF InsertSocket
  <2>2. ASSUME NEW x \in Alive'
        PROVE  x \in Alive
    <3>1. CASE \E u \in Threads : x \in op'[u].holds
      BY <2>1, <3>1, AliveIs DEF NetworkShaped
    <3>2. CASE \E h \in DOMAIN listeners' : listeners'[h] = x
      BY <1>3, <2>1, <3>2, AliveIs DEF InsertSocket, NextFree
    <3>3. CASE \E h \in DOMAIN connections' : connections'[h] = x
      BY <1>3, <2>1, <3>3, AliveIs DEF InsertSocket, NextFree
    <3> QED
      BY <2>2, <3>1, <3>2, <3>3, AliveIsNext
  <2> QED
    BY <1>3, <2>2, DropKeeps DEF InsertSocket, NetworkTypeOK
<1>4. ASSUME NEW t \in Threads, PollSocket(t)
      PROVE  /\ \/ opened' = opened /\ Alive' \subseteq Alive
                \/ /\ opened' = opened + 1 /\ opened' \in Sockets /\ Alive' \subseteq Alive \cup {opened'}
                   /\ \E d \in DOMAIN bound' : bound'[d] = opened'
             /\ DOMAIN bound' \subseteq Descriptors
             /\ \A d \in DOMAIN bound : bound[d] \in Alive' =>
                  d \in DOMAIN bound' /\ bound'[d] = bound[d]
  <2>1. op' = [op EXCEPT ![t] = op'[t]] /\ op'[t].holds \subseteq Alive
    BY <1>4, AliveIs DEF NetworkShaped, PollSocket
  <2>2. Alive' \subseteq Alive
    BY <1>4, <2>1, OpAlive DEF PollSocket
  <2> QED
    BY <1>4, <2>2, DropKeeps DEF PollSocket, NetworkTypeOK
<1>5. ASSUME NEW t \in Threads, Recheck(t)
      PROVE  /\ \/ opened' = opened /\ Alive' \subseteq Alive
                \/ /\ opened' = opened + 1 /\ opened' \in Sockets /\ Alive' \subseteq Alive \cup {opened'}
                   /\ \E d \in DOMAIN bound' : bound'[d] = opened'
             /\ DOMAIN bound' \subseteq Descriptors
             /\ \A d \in DOMAIN bound : bound[d] \in Alive' =>
                  d \in DOMAIN bound' /\ bound'[d] = bound[d]
  <2>1. op' = [op EXCEPT ![t] = op'[t]] /\ op'[t].holds \subseteq Alive
    BY <1>5, AliveIs, OpIs DEF NetworkShaped, Recheck
  <2>2. Alive' \subseteq Alive
    BY <1>5, <2>1, OpAlive DEF Recheck
  <2> QED
    BY <1>5, <2>2 DEF Recheck, NetworkTypeOK
<1>6. ASSUME NEW t \in Threads, PollAgain(t)
      PROVE  /\ \/ opened' = opened /\ Alive' \subseteq Alive
                \/ /\ opened' = opened + 1 /\ opened' \in Sockets /\ Alive' \subseteq Alive \cup {opened'}
                   /\ \E d \in DOMAIN bound' : bound'[d] = opened'
             /\ DOMAIN bound' \subseteq Descriptors
             /\ \A d \in DOMAIN bound : bound[d] \in Alive' =>
                  d \in DOMAIN bound' /\ bound'[d] = bound[d]
  <2>1. op' = [op EXCEPT ![t] = op'[t]] /\ op'[t].holds \subseteq Alive
    BY <1>6, AliveIs, Reached DEF NetworkShaped, PollAgain, PollOf
  <2>2. Alive' \subseteq Alive
    BY <1>6, <2>1, OpAlive DEF PollAgain, PollOf
  <2> QED
    BY <1>6, <2>2 DEF PollAgain, PollOf, NetworkTypeOK
<1>7. ASSUME NEW t \in Threads, TimePasses(t)
      PROVE  /\ \/ opened' = opened /\ Alive' \subseteq Alive
                \/ /\ opened' = opened + 1 /\ opened' \in Sockets /\ Alive' \subseteq Alive \cup {opened'}
                   /\ \E d \in DOMAIN bound' : bound'[d] = opened'
             /\ DOMAIN bound' \subseteq Descriptors
             /\ \A d \in DOMAIN bound : bound[d] \in Alive' =>
                  d \in DOMAIN bound' /\ bound'[d] = bound[d]
  <2>1. op' = [op EXCEPT ![t] = op'[t]] /\ op'[t].holds \subseteq Alive
    BY <1>7, AliveIs, OpIs DEF NetworkShaped, TimePasses
  <2>2. Alive' \subseteq Alive
    BY <1>7, <2>1, OpAlive DEF TimePasses
  <2> QED
    BY <1>7, <2>2 DEF TimePasses, NetworkTypeOK
<1>8. ASSUME NEW t \in Threads, Lock(t)
      PROVE  /\ \/ opened' = opened /\ Alive' \subseteq Alive
                \/ /\ opened' = opened + 1 /\ opened' \in Sockets /\ Alive' \subseteq Alive \cup {opened'}
                   /\ \E d \in DOMAIN bound' : bound'[d] = opened'
             /\ DOMAIN bound' \subseteq Descriptors
             /\ \A d \in DOMAIN bound : bound[d] \in Alive' =>
                  d \in DOMAIN bound' /\ bound'[d] = bound[d]
  <2>1. op' = [op EXCEPT ![t] = op'[t]] /\ op'[t].holds \subseteq Alive
    BY <1>8, AliveIs, OpIs DEF NetworkShaped, Lock
  <2>2. Alive' \subseteq Alive
    BY <1>8, <2>1, OpAlive DEF Lock
  <2> QED
    BY <1>8, <2>2 DEF Lock, NetworkTypeOK
<1>9. ASSUME NEW t \in Threads, Read(t)
      PROVE  /\ \/ opened' = opened /\ Alive' \subseteq Alive
                \/ /\ opened' = opened + 1 /\ opened' \in Sockets /\ Alive' \subseteq Alive \cup {opened'}
                   /\ \E d \in DOMAIN bound' : bound'[d] = opened'
             /\ DOMAIN bound' \subseteq Descriptors
             /\ \A d \in DOMAIN bound : bound[d] \in Alive' =>
                  d \in DOMAIN bound' /\ bound'[d] = bound[d]
  <2>1. op' = [op EXCEPT ![t] = op'[t]] /\ op'[t].holds \subseteq Alive
    BY <1>9, AliveIs DEF NetworkShaped, Read, TransferEnds
  <2>2. Alive' \subseteq Alive
    BY <1>9, <2>1, OpAlive DEF Read, TransferEnds
  <2> QED
    BY <1>9, <2>2, DropKeeps DEF Read, TransferEnds, NetworkTypeOK
<1>10. ASSUME NEW t \in Threads, WriteChunk(t)
      PROVE  /\ \/ opened' = opened /\ Alive' \subseteq Alive
                \/ /\ opened' = opened + 1 /\ opened' \in Sockets /\ Alive' \subseteq Alive \cup {opened'}
                   /\ \E d \in DOMAIN bound' : bound'[d] = opened'
             /\ DOMAIN bound' \subseteq Descriptors
             /\ \A d \in DOMAIN bound : bound[d] \in Alive' =>
                  d \in DOMAIN bound' /\ bound'[d] = bound[d]
  <2>1. op' = [op EXCEPT ![t] = op'[t]] /\ op'[t].holds \subseteq Alive
    BY <1>10, AliveIs, OpIs DEF NetworkShaped, WriteChunk
  <2>2. Alive' \subseteq Alive
    BY <1>10, <2>1, OpAlive DEF WriteChunk
  <2> QED
    BY <1>10, <2>2 DEF WriteChunk, NetworkTypeOK
<1>11. ASSUME NEW t \in Threads, WriteEnds(t)
      PROVE  /\ \/ opened' = opened /\ Alive' \subseteq Alive
                \/ /\ opened' = opened + 1 /\ opened' \in Sockets /\ Alive' \subseteq Alive \cup {opened'}
                   /\ \E d \in DOMAIN bound' : bound'[d] = opened'
             /\ DOMAIN bound' \subseteq Descriptors
             /\ \A d \in DOMAIN bound : bound[d] \in Alive' =>
                  d \in DOMAIN bound' /\ bound'[d] = bound[d]
  <2>1. op' = [op EXCEPT ![t] = op'[t]] /\ op'[t].holds \subseteq Alive
    BY <1>11, AliveIs DEF NetworkShaped, WriteEnds, TransferEnds
  <2>2. Alive' \subseteq Alive
    BY <1>11, <2>1, OpAlive DEF WriteEnds, TransferEnds
  <2> QED
    BY <1>11, <2>2, DropKeeps DEF WriteEnds, TransferEnds, NetworkTypeOK
<1>12. ASSUME NEW t \in Threads, NEW h \in 1..MaxHandle, AcceptBegins(t, h)
      PROVE  /\ \/ opened' = opened /\ Alive' \subseteq Alive
                \/ /\ opened' = opened + 1 /\ opened' \in Sockets /\ Alive' \subseteq Alive \cup {opened'}
                   /\ \E d \in DOMAIN bound' : bound'[d] = opened'
             /\ DOMAIN bound' \subseteq Descriptors
             /\ \A d \in DOMAIN bound : bound[d] \in Alive' =>
                  d \in DOMAIN bound' /\ bound'[d] = bound[d]
  <2>1. op' = [op EXCEPT ![t] = op'[t]] /\ op'[t].holds \subseteq Alive
    BY <1>12, AliveIs, Reached DEF NetworkShaped, AcceptBegins, Begins
  <2>2. Alive' \subseteq Alive
    BY <1>12, <2>1, OpAlive DEF AcceptBegins, Begins
  <2> QED
    BY <1>12, <2>2 DEF AcceptBegins, Begins, NetworkTypeOK
<1>13. ASSUME NEW t \in Threads, NEW h \in 1..MaxHandle, CloseHandle(t, h)
      PROVE  /\ \/ opened' = opened /\ Alive' \subseteq Alive
                \/ /\ opened' = opened + 1 /\ opened' \in Sockets /\ Alive' \subseteq Alive \cup {opened'}
                   /\ \E d \in DOMAIN bound' : bound'[d] = opened'
             /\ DOMAIN bound' \subseteq Descriptors
             /\ \A d \in DOMAIN bound : bound[d] \in Alive' =>
                  d \in DOMAIN bound' /\ bound'[d] = bound[d]
  <2>1. Alive' \subseteq Alive
    BY <1>13, AliveIs, AliveIsNext DEF CloseHandle, Restrict
  <2> QED
    BY <1>13, <2>1, DropKeeps DEF CloseHandle, NetworkTypeOK
<1>14. ASSUME NEW t \in Threads, NEW h \in 1..MaxHandle, WaitBegins(t, h)
      PROVE  /\ \/ opened' = opened /\ Alive' \subseteq Alive
                \/ /\ opened' = opened + 1 /\ opened' \in Sockets /\ Alive' \subseteq Alive \cup {opened'}
                   /\ \E d \in DOMAIN bound' : bound'[d] = opened'
             /\ DOMAIN bound' \subseteq Descriptors
             /\ \A d \in DOMAIN bound : bound[d] \in Alive' =>
                  d \in DOMAIN bound' /\ bound'[d] = bound[d]
  <2>1. op' = [op EXCEPT ![t] = op'[t]] /\ op'[t].holds \subseteq Alive
    BY <1>14, AliveIs, Reached DEF NetworkShaped, WaitBegins, PollOf, Begins
  <2>2. Alive' \subseteq Alive
    BY <1>14, <2>1, OpAlive DEF WaitBegins, PollOf, Begins
  <2> QED
    BY <1>14, <2>2 DEF WaitBegins, PollOf, Begins, NetworkTypeOK
<1>15. ASSUME NEW t \in Threads, NEW h \in 1..MaxHandle, TransferBegins(t, h)
      PROVE  /\ \/ opened' = opened /\ Alive' \subseteq Alive
                \/ /\ opened' = opened + 1 /\ opened' \in Sockets /\ Alive' \subseteq Alive \cup {opened'}
                   /\ \E d \in DOMAIN bound' : bound'[d] = opened'
             /\ DOMAIN bound' \subseteq Descriptors
             /\ \A d \in DOMAIN bound : bound[d] \in Alive' =>
                  d \in DOMAIN bound' /\ bound'[d] = bound[d]
  <2>1. op' = [op EXCEPT ![t] = op'[t]] /\ op'[t].holds \subseteq Alive
    BY <1>15, AliveIs, Reached DEF NetworkShaped, TransferBegins, Begins
  <2>2. Alive' \subseteq Alive
    BY <1>15, <2>1, OpAlive DEF TransferBegins, Begins
  <2> QED
    BY <1>15, <2>2 DEF TransferBegins, Begins, NetworkTypeOK
<1>16. ASSUME NEW s \in Sockets, PeerSends(s)
      PROVE  /\ \/ opened' = opened /\ Alive' \subseteq Alive
                \/ /\ opened' = opened + 1 /\ opened' \in Sockets /\ Alive' \subseteq Alive \cup {opened'}
                   /\ \E d \in DOMAIN bound' : bound'[d] = opened'
             /\ DOMAIN bound' \subseteq Descriptors
             /\ \A d \in DOMAIN bound : bound[d] \in Alive' =>
                  d \in DOMAIN bound' /\ bound'[d] = bound[d]
  <2>1. Alive' = Alive
    BY <1>16 DEF PeerSends, Alive
  <2> QED
    BY <1>16, <2>1 DEF PeerSends, NetworkTypeOK
<1>17. CASE UNCHANGED networkVars
  <2>1. Alive' = Alive
    BY <1>17 DEF networkVars, Alive
  <2> QED
    BY <1>17, <2>1 DEF networkVars, NetworkTypeOK
<1> QED
  BY <1>1, <1>2, <1>3, <1>4, <1>5, <1>6, <1>7, <1>8, <1>9, <1>10, <1>11, <1>12, <1>13, <1>14,
     <1>15, <1>16, <1>17
  DEF NetworkNext

\* The types, and that what is open has a descriptor.
LEMMA NetworkTypeStep ==
  ASSUME NetworkAssumption, NetworkInv, [NetworkNext]_networkVars
  PROVE  NetworkTypeOK' /\ NetworkShaped' /\ Described'
<1> USE DEF NetworkInv, SocketInv
<1>1. opened' \in 0..MaxSockets /\ Alive' \subseteq 1..opened'
  <2>1. opened \in Nat /\ opened <= MaxSockets /\ MaxSockets \in Nat
    BY DEF NetworkTypeOK, NetworkAssumption
  <2>2. \A x \in Alive : x \in Nat /\ 1 <= x /\ x <= opened
    <3>1. Alive \subseteq 1..opened
      BY DEF NetworkTypeOK
    <3> QED
      BY <2>1, <3>1
  <2> QED
    BY <2>1, <2>2, AliveStep DEF Sockets
<1>2. \A s \in Sockets : input'[s] \in 0..MaxInput
  <2>1. \/ input' = input
        \/ \E s \in Sockets : input' = [input EXCEPT ![s] = input[s] + 1] /\ input[s] < MaxInput
        \/ \E s \in Sockets : input' = [input EXCEPT ![s] = input[s] - 1] /\ input[s] > 0
    BY SocketOf
    DEF NetworkNext, networkVars, peerVars, OpenSocket, Accept, Obtain, InsertSocket,
       PollSocket, Recheck, PollAgain, TimePasses, Lock, Read, WriteChunk, WriteEnds,
       TransferEnds, AcceptBegins,
        CloseHandle, WaitBegins, TransferBegins, PeerSends
  <2>2. MaxInput \in Nat /\ \A s \in Sockets : input[s] \in Nat /\ input[s] <= MaxInput
    BY DEF NetworkTypeOK, NetworkAssumption
  <2>3. CASE input' = input
    BY <2>2, <2>3
  <2>4. ASSUME NEW s \in Sockets, input' = [input EXCEPT ![s] = input[s] + 1], input[s] < MaxInput
        PROVE  \A r \in Sockets : input'[r] \in 0..MaxInput
    BY <2>2, <2>4 DEF NetworkShaped
  <2>5. ASSUME NEW s \in Sockets, input' = [input EXCEPT ![s] = input[s] - 1], input[s] > 0
        PROVE  \A r \in Sockets : input'[r] \in 0..MaxInput
    BY <2>2, <2>5 DEF NetworkShaped
  <2> QED
    BY <2>1, <2>3, <2>4, <2>5
<1>3. Described'
  BY AliveStep DEF Described
<1>4. NetworkShaped'
  BY ShapeStep
<1>5. \A s \in Sockets : io'[s] \subseteq Threads
  BY <1>4 DEF NetworkShaped
<1> QED
  BY <1>1, <1>2, <1>3, <1>4, <1>5, AliveStep, HandleTableStep DEF NetworkTypeOK, Sockets

\* What one thread relies on.
Relies(u) ==
  /\ op[u].at \notin {"idle", "recheck", "again"} => op[u].socket \in op[u].holds
  /\ op[u].at = "poll" => op[u].fd \in DOMAIN bound /\ bound[op[u].fd] = op[u].socket
  /\ op[u].at \in Waiting => op[u].handle < nextHandle
  /\ op[u].at = "recheck" => op[u].polled = op[u].socket
  /\ op[u].at \in Waiting /\ op[u].handle \in Handles => Socket(op[u].handle) = op[u].socket

\* It stays true while the others run.
LEMMA OtherStays ==
  ASSUME NetworkAssumption, NetworkInv, [NetworkNext]_networkVars,
         NEW u \in Threads, op'[u] = op[u]
  PROVE  Relies(u)'
<1> USE DEF NetworkInv, SocketInv
<1>1. op[u].at = "poll" => op[u].socket \in Alive'
  BY AliveIsNext DEF Holds
<1>2. op[u].at \in Waiting => op[u].handle \in Nat /\ op[u].handle < nextHandle
  BY OpIs DEF Waiting, PollOp, CheckOp, Given
<1>3. nextHandle \in Nat /\ nextHandle' \in Nat /\ nextHandle <= nextHandle'
  BY HandleTableStep DEF NetworkTypeOK, NetworkAssumption
<1>4. op[u].at \in Waiting => op[u].handle < nextHandle'
  BY <1>2, <1>3
<1>5. op[u].at = "poll" => op[u].fd \in DOMAIN bound' /\ bound'[op[u].fd] = op[u].socket
  BY <1>1, AliveStep DEF Polling
<1>6. ASSUME op[u].at \in Waiting, op[u].handle \in Handles'
      PROVE  Socket(op[u].handle)' = op[u].socket
  <2>1. op[u].handle \in Handles /\ Socket(op[u].handle)' = Socket(op[u].handle)
    BY <1>2, <1>6, HandleTableStep
  <2> QED
    BY <1>6, <2>1 DEF SameSocket
<1>7. /\ op'[u].at \notin {"idle", "recheck", "again"} => op'[u].socket \in op'[u].holds
      /\ op'[u].at = "recheck" => op'[u].polled = op'[u].socket
  BY DEF Holds, PollsItsOwn
<1> QED
  BY <1>4, <1>5, <1>6, <1>7 DEF Relies, Waiting

\* Every thread can still rely on its socket after any step.
LEMMA SocketStep ==
  ASSUME NetworkAssumption, NetworkInv, [NetworkNext]_networkVars
  PROVE  \A u \in Threads : Relies(u)'
<1> USE DEF NetworkInv, SocketInv, Step, handleVars, peerVars, Idle
<1>1. ASSUME NEW t \in Threads, OpenSocket(t)
      PROVE  \A u \in Threads : Relies(u)'
  <2>1. op' = [op EXCEPT ![t] = op'[t]]
    BY <1>1 DEF OpenSocket, Obtain, NetworkShaped
  <2>2. Relies(t)'
    BY <1>1, OpIs DEF OpenSocket, Obtain, NetworkShaped, Relies, Waiting
  <2>3. \A u \in Threads \ {t} : op'[u] = op[u]
    BY <2>1 DEF NetworkShaped
  <2> QED
    BY <2>2, <2>3, OtherStays
<1>2. ASSUME NEW t \in Threads, Accept(t)
      PROVE  \A u \in Threads : Relies(u)'
  <2>1. op' = [op EXCEPT ![t] = op'[t]]
    BY <1>2 DEF Accept, Obtain, NetworkShaped
  <2>2. Relies(t)'
    BY <1>2, OpIs DEF Accept, Obtain, NetworkShaped, Relies, Waiting
  <2>3. \A u \in Threads \ {t} : op'[u] = op[u]
    BY <2>1 DEF NetworkShaped
  <2> QED
    BY <2>2, <2>3, OtherStays
<1>3. ASSUME NEW t \in Threads, InsertSocket(t)
      PROVE  \A u \in Threads : Relies(u)'
  <2>1. op' = [op EXCEPT ![t] = op'[t]]
    BY <1>3 DEF InsertSocket, Advance, NextFree, Exhausted, NetworkShaped
  <2>2. Relies(t)'
    BY <1>3, OpIs DEF InsertSocket, Advance, NextFree, Exhausted, NetworkShaped, Relies, Waiting
  <2>3. \A u \in Threads \ {t} : op'[u] = op[u]
    BY <2>1 DEF NetworkShaped
  <2> QED
    BY <2>2, <2>3, OtherStays
<1>4. ASSUME NEW t \in Threads, PollSocket(t)
      PROVE  \A u \in Threads : Relies(u)'
  <2>1. op' = [op EXCEPT ![t] = op'[t]]
    BY <1>4 DEF PollSocket, NetworkShaped
  <2>2. Relies(t)'
    <3>1. CASE op' = [op EXCEPT ![t] = Idle]
      BY <1>4, <3>1 DEF Relies, NetworkShaped, Waiting
    <3>2. CASE op'[t].at = "recheck"
      <4>1. /\ op'[t].handle = op[t].handle /\ op'[t].socket = op[t].socket
            /\ op'[t].polled = bound[op[t].fd] /\ op[t].at = "poll"
        BY <1>4, <3>2 DEF PollSocket, Polling, NetworkShaped
      <4>2. op'[t].polled = op'[t].socket /\ op'[t].handle < nextHandle'
        BY <1>4, <4>1 DEF PollSocket, Polling, Given, Waiting
      <4>3. op'[t].handle \in Handles' => Socket(op[t].handle)' = op'[t].socket
        BY <1>4, <4>1 DEF PollSocket, SameSocket, Waiting, Handles, Socket
      <4> QED
        BY <3>2, <4>1, <4>2, <4>3 DEF Relies
    <3> QED
      BY <1>4, <3>1, <3>2 DEF PollSocket, NetworkShaped
  <2>3. \A u \in Threads \ {t} : op'[u] = op[u]
    BY <2>1 DEF NetworkShaped
  <2> QED
    BY <2>2, <2>3, OtherStays
<1>5. ASSUME NEW t \in Threads, Recheck(t)
      PROVE  \A u \in Threads : Relies(u)'
  <2>1. op' = [op EXCEPT ![t] = op'[t]]
    BY <1>5 DEF Recheck, NetworkShaped
  <2>2. Relies(t)'
    BY <1>5, OpIs DEF Recheck, NetworkShaped, Holds, Polling, Given, PollsItsOwn, SameSocket,
       Handles, Socket, PollOp, CheckOp, TransferOp, Relies, Waiting
  <2>3. \A u \in Threads \ {t} : op'[u] = op[u]
    BY <2>1 DEF NetworkShaped
  <2> QED
    BY <2>2, <2>3, OtherStays
<1>6. ASSUME NEW t \in Threads, PollAgain(t)
      PROVE  \A u \in Threads : Relies(u)'
  <2>1. op' = [op EXCEPT ![t] = op'[t]]
    BY <1>6 DEF PollAgain, PollOf, NetworkShaped
  <2>2. Relies(t)'
    <3>1. CASE op[t].handle \notin Handles
      BY <1>6, <3>1 DEF PollAgain, Relies, NetworkShaped, Waiting
    <3>2. CASE op[t].handle \in Handles
      <4>1. op'[t] = [PollOf(t, op[t].handle) EXCEPT !.left = op[t].left]
        BY <1>6, <3>2 DEF PollAgain, NetworkShaped
      <4>2. /\ op'[t].at = "poll" /\ op'[t].holds = {Socket(op[t].handle)}
            /\ op'[t].handle = op[t].handle /\ op'[t].socket = Socket(op[t].handle)
            /\ op'[t].fd = DescriptorOf(Socket(op[t].handle))
        BY <4>1 DEF PollOf
      <4>3. op[t].handle < nextHandle
        BY <1>6 DEF PollAgain, Given, Waiting
      <4>4. op'[t].fd \in DOMAIN bound /\ bound[op'[t].fd] = op'[t].socket
        BY <3>2, <4>2, Reached
      <4> QED
        BY <1>6, <4>2, <4>3, <4>4 DEF PollAgain, Relies, Handles, Socket
    <3> QED
      BY <3>1, <3>2
  <2>3. \A u \in Threads \ {t} : op'[u] = op[u]
    BY <2>1 DEF NetworkShaped
  <2> QED
    BY <2>2, <2>3, OtherStays
<1>7. ASSUME NEW t \in Threads, TimePasses(t)
      PROVE  \A u \in Threads : Relies(u)'
  <2>1. op' = [op EXCEPT ![t] = op'[t]]
    BY <1>7 DEF TimePasses, NetworkShaped
  <2>2. Relies(t)'
    BY <1>7, OpIs DEF TimePasses, NetworkShaped, Holds, Polling, Given, PollsItsOwn, SameSocket,
       Handles, Socket, PollOp, CheckOp, TransferOp, Relies, Waiting
  <2>3. \A u \in Threads \ {t} : op'[u] = op[u]
    BY <2>1 DEF NetworkShaped
  <2> QED
    BY <2>2, <2>3, OtherStays
<1>8. ASSUME NEW t \in Threads, Lock(t)
      PROVE  \A u \in Threads : Relies(u)'
  <2>1. op' = [op EXCEPT ![t] = op'[t]]
    BY <1>8 DEF Lock, NetworkShaped
  <2>2. Relies(t)'
    BY <1>8, OpIs DEF Lock, NetworkShaped, Holds, Polling, Given, PollsItsOwn, SameSocket, Handles,
           Socket, PollOp, CheckOp, TransferOp, Relies, Waiting
  <2>3. \A u \in Threads \ {t} : op'[u] = op[u]
    BY <2>1 DEF NetworkShaped
  <2> QED
    BY <2>2, <2>3, OtherStays
<1>9. ASSUME NEW t \in Threads, Read(t)
      PROVE  \A u \in Threads : Relies(u)'
  <2>1. op' = [op EXCEPT ![t] = op'[t]]
    BY <1>9 DEF Read, TransferEnds, NetworkShaped
  <2>2. Relies(t)'
    BY <1>9, OpIs DEF Read, TransferEnds, NetworkShaped, Relies, Waiting
  <2>3. \A u \in Threads \ {t} : op'[u] = op[u]
    BY <2>1 DEF NetworkShaped
  <2> QED
    BY <2>2, <2>3, OtherStays
<1>10. ASSUME NEW t \in Threads, WriteChunk(t)
      PROVE  \A u \in Threads : Relies(u)'
  <2>1. op' = [op EXCEPT ![t] = op'[t]]
    BY <1>10 DEF WriteChunk, NetworkShaped
  <2>2. Relies(t)'
    BY <1>10, OpIs DEF WriteChunk, NetworkShaped, Holds, Polling, Given, PollsItsOwn,
       SameSocket, Handles, Socket, PollOp, CheckOp, TransferOp, Relies, Waiting
  <2>3. \A u \in Threads \ {t} : op'[u] = op[u]
    BY <2>1 DEF NetworkShaped
  <2> QED
    BY <2>2, <2>3, OtherStays
<1>11. ASSUME NEW t \in Threads, WriteEnds(t)
      PROVE  \A u \in Threads : Relies(u)'
  <2>1. op' = [op EXCEPT ![t] = op'[t]]
    BY <1>11 DEF WriteEnds, TransferEnds, NetworkShaped
  <2>2. Relies(t)'
    BY <1>11, OpIs DEF WriteEnds, TransferEnds, NetworkShaped, Relies, Waiting
  <2>3. \A u \in Threads \ {t} : op'[u] = op[u]
    BY <2>1 DEF NetworkShaped
  <2> QED
    BY <2>2, <2>3, OtherStays
<1>12. ASSUME NEW t \in Threads, NEW h \in 1..MaxHandle, AcceptBegins(t, h)
      PROVE  \A u \in Threads : Relies(u)'
  <2>1. op' = [op EXCEPT ![t] = op'[t]]
    BY <1>12 DEF AcceptBegins, Begins, NetworkShaped
  <2>2. Relies(t)'
    BY <1>12, OpIs DEF AcceptBegins, Begins, NetworkShaped, Relies, Waiting
  <2>3. \A u \in Threads \ {t} : op'[u] = op[u]
    BY <2>1 DEF NetworkShaped
  <2> QED
    BY <2>2, <2>3, OtherStays
<1>13. ASSUME NEW t \in Threads, NEW h \in 1..MaxHandle, CloseHandle(t, h)
      PROVE  \A u \in Threads : Relies(u)'
  BY <1>13, OtherStays DEF CloseHandle
<1>14. ASSUME NEW t \in Threads, NEW h \in 1..MaxHandle, WaitBegins(t, h)
      PROVE  \A u \in Threads : Relies(u)'
  <2>1. op' = [op EXCEPT ![t] = op'[t]]
    BY <1>14 DEF WaitBegins, PollOf, Begins, NetworkShaped
  <2>2. Relies(t)'
    BY <1>14, OpIs, Reached, HandleTableStep DEF WaitBegins, PollOf, Begins, Handles, Socket,
           NetworkTypeOK, NetworkAssumption, Relies, Waiting
  <2>3. \A u \in Threads \ {t} : op'[u] = op[u]
    BY <2>1 DEF NetworkShaped
  <2> QED
    BY <2>2, <2>3, OtherStays
<1>15. ASSUME NEW t \in Threads, NEW h \in 1..MaxHandle, TransferBegins(t, h)
      PROVE  \A u \in Threads : Relies(u)'
  <2>1. op' = [op EXCEPT ![t] = op'[t]]
    BY <1>15 DEF TransferBegins, Begins, NetworkShaped
  <2>2. Relies(t)'
    BY <1>15, OpIs DEF TransferBegins, Begins, NetworkShaped, Relies, Waiting
  <2>3. \A u \in Threads \ {t} : op'[u] = op[u]
    BY <2>1 DEF NetworkShaped
  <2> QED
    BY <2>2, <2>3, OtherStays
<1>16. ASSUME NEW s \in Sockets, PeerSends(s)
      PROVE  \A u \in Threads : Relies(u)'
  BY <1>16, OtherStays DEF PeerSends
<1>17. CASE UNCHANGED networkVars
  BY <1>17, OtherStays DEF networkVars
<1> QED
  BY <1>1, <1>2, <1>3, <1>4, <1>5, <1>6, <1>7, <1>8, <1>9, <1>10, <1>11, <1>12, <1>13, <1>14,
     <1>15, <1>16, <1>17
  DEF NetworkNext

\* The part of the invariant about sockets.
LEMMA SocketsKept ==
  ASSUME NetworkAssumption, NetworkInv, [NetworkNext]_networkVars
  PROVE  SocketInv'
<1>1. \A u \in Threads : Relies(u)'
  BY SocketStep
<1>2. Holds' /\ Polling' /\ Given' /\ PollsItsOwn' /\ SameSocket'
  BY <1>1 DEF Relies, Holds, Polling, Given, PollsItsOwn, SameSocket
<1> QED
  BY <1>2, NetworkTypeStep DEF SocketInv

\* Two transfers of one connection exclude each other.
LEMMA Alone ==
  ASSUME NetworkInv, NEW t \in Threads, NEW u \in Threads, u # t,
         op[t].at \in {"read", "write"}, op[u].at \in {"read", "write"}
  PROVE  op[u].socket # op[t].socket
BY DEF NetworkInv, Locked, Transfers

\* A step of a thread that transfers nothing, before and after.
LEMMA NoTransfer ==
  ASSUME NetworkInv, NEW t \in Threads, op' = [op EXCEPT ![t] = op'[t]],
         op'[t].at \notin {"read", "write"}, op'[t].at = "lock" => op'[t].chunk = 0,
         UNCHANGED <<io, output>>
  PROVE  Locked' /\ WritesWhole'
<1>1. \A u \in Threads : u # t => op'[u] = op[u]
  BY DEF NetworkInv, SocketInv, NetworkShaped
<1> QED
  BY <1>1 DEF NetworkInv, Locked, Transfers, WritesWhole

\* The io lock keeps the chunks of a write together.
LEMMA WriteStep ==
  ASSUME NetworkAssumption, NetworkInv, [NetworkNext]_networkVars
  PROVE  Locked' /\ WritesWhole'
<1> USE DEF NetworkInv, SocketInv, Step, handleVars, peerVars, Idle
<1>1. ASSUME NEW t \in Threads, OpenSocket(t)
      PROVE  Locked' /\ WritesWhole'
  <2>1. /\ op' = [op EXCEPT ![t] = op'[t]] /\ op'[t].at \notin {"read", "write"}
        /\ op'[t].at = "lock" => op'[t].chunk = 0
    BY <1>1, OpIs DEF OpenSocket, Obtain, NetworkShaped
  <2> QED
    BY <1>1, <2>1, NoTransfer DEF OpenSocket, Obtain
<1>2. ASSUME NEW t \in Threads, Accept(t)
      PROVE  Locked' /\ WritesWhole'
  <2>1. /\ op' = [op EXCEPT ![t] = op'[t]] /\ op'[t].at \notin {"read", "write"}
        /\ op'[t].at = "lock" => op'[t].chunk = 0
    BY <1>2, OpIs DEF Accept, Obtain, NetworkShaped
  <2> QED
    BY <1>2, <2>1, NoTransfer DEF Accept, Obtain
<1>3. ASSUME NEW t \in Threads, InsertSocket(t)
      PROVE  Locked' /\ WritesWhole'
  <2>1. /\ op' = [op EXCEPT ![t] = op'[t]] /\ op'[t].at \notin {"read", "write"}
        /\ op'[t].at = "lock" => op'[t].chunk = 0
    BY <1>3, OpIs DEF InsertSocket, Advance, NextFree, Exhausted, NetworkShaped
  <2> QED
    BY <1>3, <2>1, NoTransfer DEF InsertSocket, Advance, NextFree, Exhausted
<1>4. ASSUME NEW t \in Threads, PollSocket(t)
      PROVE  Locked' /\ WritesWhole'
  <2>1. /\ op' = [op EXCEPT ![t] = op'[t]] /\ op'[t].at \notin {"read", "write"}
        /\ op'[t].at = "lock" => op'[t].chunk = 0
    BY <1>4, OpIs DEF PollSocket, NetworkShaped
  <2> QED
    BY <1>4, <2>1, NoTransfer DEF PollSocket
<1>5. ASSUME NEW t \in Threads, Recheck(t)
      PROVE  Locked' /\ WritesWhole'
  <2>1. /\ op' = [op EXCEPT ![t] = op'[t]] /\ op'[t].at \notin {"read", "write"}
        /\ op'[t].at = "lock" => op'[t].chunk = 0
    BY <1>5, OpIs DEF Recheck, NetworkShaped
  <2> QED
    BY <1>5, <2>1, NoTransfer DEF Recheck
<1>6. ASSUME NEW t \in Threads, PollAgain(t)
      PROVE  Locked' /\ WritesWhole'
  <2>1. /\ op' = [op EXCEPT ![t] = op'[t]] /\ op'[t].at \notin {"read", "write"}
        /\ op'[t].at = "lock" => op'[t].chunk = 0
    BY <1>6, OpIs DEF PollAgain, PollOf, NetworkShaped
  <2> QED
    BY <1>6, <2>1, NoTransfer DEF PollAgain, PollOf
<1>7. ASSUME NEW t \in Threads, TimePasses(t)
      PROVE  Locked' /\ WritesWhole'
  <2>1. /\ op' = [op EXCEPT ![t] = op'[t]] /\ op'[t].at \notin {"read", "write"}
        /\ op'[t].at = "lock" => op'[t].chunk = 0
    BY <1>7, OpIs DEF TimePasses, NetworkShaped, PollOp, CheckOp, Waiting
  <2> QED
    BY <1>7, <2>1, NoTransfer DEF TimePasses
<1>8. ASSUME NEW t \in Threads, Lock(t)
      PROVE  Locked' /\ WritesWhole'
  <2>1. /\ op[t] \in TransferOp /\ op[t].socket \in Sockets /\ op[t].chunk = 0
        /\ op' = [op EXCEPT ![t] = [op[t] EXCEPT !.at = op[t].kind]]
        /\ io' = [io EXCEPT ![op[t].socket] = {t}] /\ io[op[t].socket] = {} /\ output' = output
    BY <1>8, OpIs, SocketOf DEF Lock, Locked, Transfers
  <2>2. /\ op'[t].at \in {"read", "write"} /\ op'[t].chunk = 0
        /\ op'[t].socket = op[t].socket /\ io'[op[t].socket] = {t}
    BY <2>1 DEF NetworkShaped, TransferOp
  <2>3. Transfers(t)'
    BY <2>2 DEF Transfers
  <2>4. ASSUME NEW u \in Threads, u # t
        PROVE  Transfers(u)'
    <3>1. op'[u] = op[u]
      BY <2>1, <2>4 DEF NetworkShaped
    <3>2. op[u].at \in {"read", "write"} => io'[op[u].socket] = {u}
      <4>1. op[u].at \in {"read", "write"} => io[op[u].socket] = {u} /\ op[u].socket \in Sockets
        BY SocketOf DEF Locked, Transfers
      <4> QED
        BY <2>1, <4>1 DEF NetworkShaped
    <3> QED
      BY <2>1, <3>1, <3>2 DEF Locked, Transfers
  <2> QED
    BY <2>1, <2>3, <2>4 DEF Locked, WritesWhole
<1>9. ASSUME NEW t \in Threads, Read(t)
      PROVE  Locked' /\ WritesWhole'
  <2>1. /\ op[t].socket \in Sockets /\ op' = [op EXCEPT ![t] = Idle]
        /\ io' = [io EXCEPT ![op[t].socket] = {}] /\ output' = output
    BY <1>9, SocketOf DEF Read, TransferEnds
  <2>2. ASSUME NEW u \in Threads, u # t
        PROVE  Transfers(u)'
    <3>1. /\ op'[u] = op[u]
          /\ op[u].at \in {"read", "write"} => io'[op[u].socket] = io[op[u].socket]
      BY <1>9, <2>1, <2>2, Alone DEF Read, NetworkShaped
    <3> QED
      BY <2>1, <3>1 DEF Locked, Transfers
  <2>3. Transfers(t)'
    BY <2>1 DEF NetworkShaped, Transfers
  <2> QED
    BY <2>1, <2>2, <2>3 DEF Locked, WritesWhole
<1>10. ASSUME NEW t \in Threads, WriteChunk(t)
      PROVE  Locked' /\ WritesWhole'
  <2> DEFINE r == op[t].socket
  <2>1. /\ op[t] \in TransferOp /\ r \in Sockets /\ op[t].at = "write"
        /\ op' = [op EXCEPT ![t] = [op[t] EXCEPT !.chunk = op[t].chunk + 1]]
        /\ output' = [output EXCEPT ![r] = Append(output[r], <<t, op[t].chunk>>)] /\ io' = io
    BY <1>10, OpIs, SocketOf DEF WriteChunk
  <2>2. /\ op[t].chunk \in Nat /\ op'[t].chunk = op[t].chunk + 1 /\ op'[t].at = "write"
        /\ op'[t].socket = r
    BY <2>1 DEF TransferOp, NetworkShaped
  <2>3. /\ output[r] \in Seq(Threads \X Nat) /\ output'[r] = Append(output[r], <<t, op[t].chunk>>)
        /\ \A s \in Sockets : s # r => output'[s] = output[s]
    BY <2>1 DEF NetworkShaped
  <2>4. /\ Len(output'[r]) = Len(output[r]) + 1 /\ Len(output[r]) \in Nat
        /\ output'[r][Len(output[r]) + 1] = <<t, op[t].chunk>>
        /\ \A i \in 1..Len(output[r]) : output'[r][i] = output[r][i]
    BY <2>3, SMTT(30)
  <2>5. ASSUME NEW u \in Threads, u # t
        PROVE  Transfers(u)'
    <3>1. op'[u] = op[u]
      BY <2>1, <2>5 DEF NetworkShaped
    <3>2. op[u].at = "write" => output'[op[u].socket] = output[op[u].socket]
      BY <2>1, <2>3, <2>5, Alone, SocketOf
    <3> QED
      BY <2>1, <3>1, <3>2 DEF Locked, Transfers
  <2>6. Transfers(t)'
    <3>1. op'[t].chunk - 1 = op[t].chunk /\ Len(output'[r]) > 0
      BY <2>2, <2>4
    <3>2. output'[r][Len(output'[r])] = <<t, op'[t].chunk - 1>>
      BY <2>4, <3>1
    <3>3. io'[r] = {t}
      BY <2>1 DEF Locked, Transfers
    <3> QED
      BY <2>2, <3>1, <3>2, <3>3 DEF Transfers
  <2>7. WritesWhole'
    <3> SUFFICES ASSUME NEW s \in Sockets, NEW i \in DOMAIN output'[s], output'[s][i][2] > 0
                 PROVE  i > 1 /\ output'[s][i - 1] = <<output'[s][i][1], output'[s][i][2] - 1>>
      BY DEF WritesWhole
    <3>1. CASE s # r
      BY <2>3, <3>1 DEF WritesWhole
    <3>2. CASE s = r /\ i = Len(output[r]) + 1
      <4>1. output'[s][i][2] = op[t].chunk /\ output'[s][i][1] = t
        BY <2>4, <3>2
      <4>2. Len(output[r]) > 0 /\ output[r][Len(output[r])] = <<t, op[t].chunk - 1>>
        BY <2>1, <4>1 DEF Locked, Transfers
      <4>3. i > 1 /\ i - 1 = Len(output[r]) /\ i - 1 \in 1..Len(output[r])
        BY <2>4, <3>2, <4>2
      <4>4. output'[s][i - 1] = <<t, op[t].chunk - 1>>
        BY <2>4, <3>2, <4>2, <4>3
      <4> QED
        BY <4>1, <4>3, <4>4
    <3>3. CASE s = r /\ i \in 1..Len(output[r])
      <4>1. i \in DOMAIN output[r] /\ output'[r][i] = output[r][i] /\ i \in Nat
        <5>1. DOMAIN output[r] = 1..Len(output[r])
          BY <2>3
        <5>2. output'[r][i] = output[r][i]
          BY <2>4, <3>3
        <5>3. i \in Nat
          BY <2>4, <3>3
        <5> QED
          BY <3>3, <5>1, <5>2, <5>3
      <4>2. i > 1 /\ output[r][i - 1] = <<output[r][i][1], output[r][i][2] - 1>>
        BY <3>3, <4>1 DEF WritesWhole
      <4>3. i - 1 \in 1..Len(output[r])
        BY <2>4, <3>3, <4>2
      <4> QED
        BY <2>4, <3>3, <4>1, <4>2, <4>3
    <3>4. i \in 1..(Len(output[r]) + 1) \/ s # r
      BY <2>3, <2>4 DEF NetworkShaped
    <3> QED
      BY <2>4, <3>1, <3>2, <3>3, <3>4, SMTT(30)
  <2> QED
    BY <2>5, <2>6, <2>7 DEF Locked
<1>11. ASSUME NEW t \in Threads, WriteEnds(t)
      PROVE  Locked' /\ WritesWhole'
  <2>1. /\ op[t].socket \in Sockets /\ op' = [op EXCEPT ![t] = Idle]
        /\ io' = [io EXCEPT ![op[t].socket] = {}] /\ output' = output
    BY <1>11, SocketOf DEF WriteEnds, TransferEnds
  <2>2. ASSUME NEW u \in Threads, u # t
        PROVE  Transfers(u)'
    <3>1. /\ op'[u] = op[u]
          /\ op[u].at \in {"read", "write"} => io'[op[u].socket] = io[op[u].socket]
      BY <1>11, <2>1, <2>2, Alone DEF WriteEnds, NetworkShaped
    <3> QED
      BY <2>1, <3>1 DEF Locked, Transfers
  <2>3. Transfers(t)'
    BY <2>1 DEF NetworkShaped, Transfers
  <2> QED
    BY <2>1, <2>2, <2>3 DEF Locked, WritesWhole
<1>12. ASSUME NEW t \in Threads, NEW h \in 1..MaxHandle, AcceptBegins(t, h)
      PROVE  Locked' /\ WritesWhole'
  <2>1. /\ op' = [op EXCEPT ![t] = op'[t]] /\ op'[t].at \notin {"read", "write"}
        /\ op'[t].at = "lock" => op'[t].chunk = 0
    BY <1>12, OpIs DEF AcceptBegins, Begins, NetworkShaped
  <2> QED
    BY <1>12, <2>1, NoTransfer DEF AcceptBegins, Begins
<1>13. ASSUME NEW t \in Threads, NEW h \in 1..MaxHandle, CloseHandle(t, h)
      PROVE  Locked' /\ WritesWhole'
  BY <1>13, OpIs DEF CloseHandle, Begins, Locked, Transfers, WritesWhole, NetworkShaped
<1>14. ASSUME NEW t \in Threads, NEW h \in 1..MaxHandle, WaitBegins(t, h)
      PROVE  Locked' /\ WritesWhole'
  <2>1. /\ op' = [op EXCEPT ![t] = op'[t]] /\ op'[t].at \notin {"read", "write"}
        /\ op'[t].at = "lock" => op'[t].chunk = 0
    BY <1>14, OpIs DEF WaitBegins, PollOf, Begins, NetworkShaped
  <2> QED
    BY <1>14, <2>1, NoTransfer DEF WaitBegins, PollOf, Begins
<1>15. ASSUME NEW t \in Threads, NEW h \in 1..MaxHandle, TransferBegins(t, h)
      PROVE  Locked' /\ WritesWhole'
  <2>1. /\ op' = [op EXCEPT ![t] = op'[t]] /\ op'[t].at \notin {"read", "write"}
        /\ op'[t].at = "lock" => op'[t].chunk = 0
    BY <1>15, OpIs DEF TransferBegins, Begins, NetworkShaped
  <2> QED
    BY <1>15, <2>1, NoTransfer DEF TransferBegins, Begins
<1>16. ASSUME NEW s \in Sockets, PeerSends(s)
      PROVE  Locked' /\ WritesWhole'
  BY <1>16, OpIs DEF PeerSends, Locked, Transfers, WritesWhole, NetworkShaped
<1>17. CASE UNCHANGED networkVars
  BY <1>17 DEF networkVars, Locked, Transfers, WritesWhole
<1> QED
  BY <1>1, <1>2, <1>3, <1>4, <1>5, <1>6, <1>7, <1>8, <1>9, <1>10, <1>11, <1>12, <1>13, <1>14,
     <1>15, <1>16, <1>17
  DEF NetworkNext

\* The invariant is inductive.
LEMMA NetworkInductive ==
  ASSUME NetworkAssumption, NetworkInv, [NetworkNext]_networkVars
  PROVE  NetworkInv'
BY SocketsKept, WriteStep DEF NetworkInv

\* For any number of threads and sockets the invariant holds in every state of
\* the handle table, its operations and the operating system's descriptors.
THEOREM NetworkCorrect ==
  ASSUME NetworkAssumption
  PROVE  NetworkSpec => []NetworkInv
BY NetworkInitInv, NetworkInductive, PTL DEF NetworkSpec

\* wait_socket never looks at another socket: although the descriptor is polled
\* without the table's lock and may be closed and given out again, the Arc keeps
\* it, and a handle is never given a second time.
THEOREM NetworkWaitKeepsSocket ==
  ASSUME NetworkAssumption
  PROVE  NetworkSpec => []WaitKeepsSocket
<1>1. NetworkInv => WaitKeepsSocket
  BY DEF NetworkInv, SocketInv, WaitKeepsSocket
<1> QED
  BY <1>1, NetworkCorrect, PTL

\* write_bytes holds the connection's io lock for all of its chunks, so that no
\* other write comes between them.
THEOREM NetworkWritesWhole ==
  ASSUME NetworkAssumption
  PROVE  NetworkSpec => []WritesWhole
<1>1. NetworkInv => WritesWhole
  BY DEF NetworkInv
<1> QED
  BY <1>1, NetworkCorrect, PTL
-----------------------------------------------------------------------------
(***************************************************************************)
(* Resources: the inductive invariant.                                     *)
(***************************************************************************)
Live == (1..made) \ freed
Calls == 1..Len(stack)

\* A resource that another one retains.
Retained(r) == \E o \in Live : r \in parents[o]

FrameSet ==
  [kind : {"function", "constructor", "method", "close"}, phase : {"args", "native"},
   receiver : Nat, leases : SUBSET Resources, parents : SUBSET Resources,
   transfers : SUBSET Resources]

Shaped == ForeignTypeOK /\ stack \in Seq(FrameSet)

\* What a call keeps is leased to it alone; what it consumes nobody retains;
\* what is being closed nobody uses.
Leases ==
  /\ leased \subseteq registry \cap pointer
  /\ \A r \in leased : \E i \in Calls : r \in stack[i].leases
  /\ \A i \in Calls :
       /\ stack[i].transfers \subseteq stack[i].parents
       /\ stack[i].parents \subseteq stack[i].leases /\ stack[i].leases \subseteq leased
       /\ \A r \in stack[i].transfers : ~Retained(r)
       /\ \A j \in Calls : j # i => stack[i].leases \cap stack[j].leases = {}

Closes ==
  \A i \in Calls : stack[i].kind = "close" =>
    /\ stack[i].receiver \in (registry \cap pointer) \ leased
    /\ ~Retained(stack[i].receiver) /\ stack[i].phase = "native" /\ stack[i].leases = {}
    /\ \A j \in Calls : j # i /\ stack[j].kind = "close" => stack[j].receiver # stack[i].receiver

\* A resource keeps its parents, and what it points to belongs to one of them
\* or is what one of them points to.
Family ==
  \A r \in Live :
    /\ parents[r] \subseteq Live /\ \A p \in parents[r] : p < r
    /\ r \in contents[r]
    /\ \A v \in needs[r] :
         \E p \in parents[r] : v \in needs[p] \/ (p \in pointer /\ v \in contents[p])

\* A native value has one owner.
Disjoint ==
  \A r, s \in Live \cap pointer : r # s => contents[r] \cap contents[s] = {}

ForeignInv == Shaped /\ Leases /\ Closes /\ Family /\ Disjoint /\ Backed
-----------------------------------------------------------------------------
\* A set of numbers has a least element.
LEMMA Least ==
  ASSUME NEW T, T \subseteq Nat, T # {}
  PROVE  \E x \in T : \A y \in T : x <= y
<1> DEFINE R == OpToRel(<, Nat)
<1>1. IsWellFoundedOn(R, Nat)
  BY NatLessThanWellFounded
<1>2. PICK x \in T : \A y \in T : <<y, x>> \notin R
  <2> HIDE DEF R
  <2> QED
    BY <1>1, WFMin
<1>3. ASSUME NEW y \in T
      PROVE  x <= y
  <2>1. ~(y < x)
    BY <1>2 DEF OpToRel
  <2> QED
    BY <2>1
<1> QED
  BY <1>3

\* Shape of the state, without the frames.
LEMMA ShapeIs ==
  ASSUME ForeignAssumption, Shaped
  PROVE  /\ made \in Nat /\ made <= MaxResources /\ MaxResources \in Nat /\ MaxDepth \in Nat
         /\ Len(stack) \in Nat /\ Len(stack) <= MaxDepth /\ DOMAIN stack = Calls
         /\ registry \subseteq Live /\ Live \subseteq Nat /\ Live \subseteq Resources
         /\ pointer \subseteq 1..made /\ leased \subseteq 1..made /\ freed \subseteq 1..made
         /\ dead \subseteq 1..made
         /\ parents \in [Resources -> SUBSET (1..made)]
         /\ needs \in [Resources -> SUBSET (1..made)]
         /\ contents \in [Resources -> SUBSET (1..made)]
         /\ \A i \in Calls : stack[i] \in FrameSet
<1>1. made \in Nat /\ made <= MaxResources /\ MaxResources \in Nat /\ MaxDepth \in Nat
  BY DEF ForeignAssumption, Shaped, ForeignTypeOK
<1>2. /\ Len(stack) \in Nat /\ Len(stack) <= MaxDepth /\ DOMAIN stack = Calls
      /\ \A i \in Calls : stack[i] \in FrameSet
  BY DEF Shaped, ForeignTypeOK, Calls
<1>3. /\ registry \subseteq Live /\ pointer \subseteq 1..made /\ leased \subseteq 1..made
      /\ freed \subseteq 1..made /\ dead \subseteq 1..made
  BY DEF Shaped, ForeignTypeOK, Live
<1>4. Live \subseteq Nat /\ Live \subseteq Resources
  BY <1>1 DEF Live, Resources
<1>5. /\ parents \in [Resources -> SUBSET (1..made)]
      /\ needs \in [Resources -> SUBSET (1..made)]
      /\ contents \in [Resources -> SUBSET (1..made)]
  BY DEF Shaped, ForeignTypeOK
<1> QED
  BY <1>1, <1>2, <1>3, <1>4, <1>5

\* What a count of references says.
LEMMA StrongIs ==
  ASSUME ForeignAssumption, Shaped, NEW r
  PROVE  /\ Strong(r) \in Nat
         /\ Strong(r) = 0 => r \notin registry /\ ~Retained(r)
         /\ r \in registry /\ Strong(r) <= 1 => ~Retained(r)
         /\ r \in registry /\ Strong(r) <= 2 /\ (\E i \in Calls : r \in stack[i].leases) =>
              ~Retained(r)
<1> DEFINE L == {i \in DOMAIN stack : r \in stack[i].leases}
           P == {i \in DOMAIN stack : r \in stack[i].parents}
           C == {i \in DOMAIN stack : r = stack[i].receiver}
           O == {o \in (1..made) \ freed : r \in parents[o]}
           g == IF r \in registry THEN 1 ELSE 0
<1>1. Strong(r) = g + Cardinality(L) + Cardinality(P) + Cardinality(C) + Cardinality(O)
  BY DEF Strong, Frames
<1>2. DOMAIN stack = Calls /\ Len(stack) \in Nat /\ made \in Nat
  BY ShapeIs
<1>3. IsFiniteSet(1..Len(stack)) /\ IsFiniteSet(1..made)
  BY <1>2, FS_Interval
<1>4. IsFiniteSet(L) /\ IsFiniteSet(P) /\ IsFiniteSet(C) /\ IsFiniteSet(O)
  <2>1. /\ L \subseteq 1..Len(stack) /\ P \subseteq 1..Len(stack) /\ C \subseteq 1..Len(stack)
        /\ O \subseteq 1..made
    BY <1>2 DEF Calls
  <2> HIDE DEF L, P, C, O
  <2> QED
    BY <1>3, <2>1, FS_Subset
<1>5. /\ Cardinality(L) \in Nat /\ Cardinality(P) \in Nat /\ Cardinality(C) \in Nat
      /\ Cardinality(O) \in Nat
      /\ (Cardinality(O) = 0 <=> O = {}) /\ (Cardinality(L) = 0 <=> L = {})
  <2> HIDE DEF L, P, C, O
  <2> QED
    BY <1>4, FS_CardinalityType, FS_EmptySet
<1>6. Retained(r) <=> O # {}
  BY DEF Retained, Live
<1>7. (\E i \in Calls : r \in stack[i].leases) <=> L # {}
  BY <1>2
<1>8. g \in Nat /\ (g = 0 \/ g = 1) /\ (r \in registry <=> g = 1)
  OBVIOUS
<1> HIDE DEF L, P, C, O, g
<1>9. Strong(r) \in Nat
  BY <1>1, <1>5, <1>8
<1>10. Strong(r) = 0 => g = 0 /\ Cardinality(O) = 0
  <2>1. g + Cardinality(L) + Cardinality(P) + Cardinality(C) + Cardinality(O) = 0 =>
          g = 0 /\ Cardinality(O) = 0
    BY <1>5, <1>8
  <2> QED
    BY <1>1, <2>1
<1>11. g = 1 /\ Strong(r) <= 1 => Cardinality(O) = 0
  BY <1>1, <1>5
<1>12. g = 1 /\ Strong(r) <= 2 /\ Cardinality(L) # 0 => Cardinality(O) = 0
  BY <1>1, <1>5
<1> QED
  BY <1>5, <1>6, <1>7, <1>8, <1>9, <1>10, <1>11, <1>12

\* Nothing that can still be reached points into a value nobody retains.
LEMMA NotNeeded ==
  ASSUME ForeignAssumption, ForeignInv, NEW s \in Live \cap pointer, ~Retained(s),
         NEW r \in Live
  PROVE  needs[r] \cap contents[s] = {}
<1> SUFFICES ASSUME NEW v \in needs[r] \cap contents[s]
             PROVE  FALSE
  OBVIOUS
<1> DEFINE T == {q \in Live : v \in needs[q]}
<1>1. Live \subseteq Nat
  BY ShapeIs DEF ForeignInv
<1>2. PICK m \in T : \A q \in T : m <= q
  <2>1. T \subseteq Nat /\ T # {}
    BY <1>1
  <2> HIDE DEF T
  <2> QED
    BY <2>1, Least
<1>3. PICK p \in parents[m] : v \in needs[p] \/ (p \in pointer /\ v \in contents[p])
  BY <1>2 DEF ForeignInv, Family
<1>4. p \in Live /\ p < m /\ m \in Live
  BY <1>2, <1>3 DEF ForeignInv, Family
<1>5. v \notin needs[p]
  <2> SUFFICES ASSUME v \in needs[p]
               PROVE  FALSE
    OBVIOUS
  <2>1. p \in T /\ m \in Nat /\ p \in Nat
    BY <1>1, <1>4
  <2>2. m <= p
    BY <1>2, <2>1
  <2> QED
    BY <1>4, <2>1, <2>2
<1>6. p = s
  BY <1>3, <1>4, <1>5 DEF ForeignInv, Disjoint
<1> QED
  BY <1>3, <1>4, <1>6 DEF Retained

\* A call begins: the others stay as they are.
LEMMA Pushed ==
  ASSUME ForeignAssumption, Shaped, NEW f \in FrameSet, stack' = Append(stack, f)
  PROVE  /\ stack' \in Seq(FrameSet) /\ Len(stack') = Len(stack) + 1
         /\ Calls' = Calls \cup {Len(stack) + 1} /\ Len(stack) + 1 \notin Calls
         /\ stack'[Len(stack) + 1] = f /\ \A i \in Calls : stack'[i] = stack[i]
<1>1. stack \in Seq(FrameSet) /\ Len(stack) \in Nat
  BY DEF Shaped
<1>2. stack' \in Seq(FrameSet) /\ Len(stack') = Len(stack) + 1
  BY <1>1
<1> QED
  BY <1>1, <1>2 DEF Calls

\* The innermost call ends: the others stay as they are.
LEMMA Popped ==
  ASSUME ForeignAssumption, Shaped, stack # <<>>, Pop
  PROVE  /\ stack' \in Seq(FrameSet) /\ Len(stack') = Len(stack) - 1 /\ Len(stack) \in Calls
         /\ Calls' = Calls \ {Len(stack)} /\ \A i \in Calls' : i \in Calls /\ stack'[i] = stack[i]
<1>1. stack \in Seq(FrameSet) /\ Len(stack) \in Nat /\ Len(stack) > 0
  BY DEF Shaped
<1>2. stack' = SubSeq(stack, 1, Len(stack) - 1)
  BY DEF Pop
<1>3. /\ stack' \in Seq(FrameSet) /\ Len(stack') = Len(stack) - 1
      /\ \A i \in 1..(Len(stack) - 1) : stack'[i] = stack[i]
  <2>1. Len(stack) - 1 \in Int /\ 1 \in Int
    BY <1>1
  <2>2. \A i \in 1..(Len(stack) - 1) : stack[i] \in FrameSet
    BY <1>1
  <2>3. /\ SubSeq(stack, 1, Len(stack) - 1) \in Seq(FrameSet)
        /\ Len(SubSeq(stack, 1, Len(stack) - 1)) =
             IF 1 <= Len(stack) - 1 THEN Len(stack) - 1 - 1 + 1 ELSE 0
        /\ \A i \in 1..(Len(stack) - 1 - 1 + 1) :
             SubSeq(stack, 1, Len(stack) - 1)[i] = stack[1 + i - 1]
    BY <2>1, <2>2, SubSeqProperties
  <2>4. Len(stack') = Len(stack) - 1
    <3>1. Len(stack') = IF 1 <= Len(stack) - 1 THEN Len(stack) - 1 - 1 + 1 ELSE 0
      BY <1>2, <2>3
    <3>2. Len(stack) \in Nat /\ Len(stack) > 0
      BY <1>1
    <3>3. CASE 1 <= Len(stack) - 1
      BY <3>1, <3>2, <3>3
    <3>4. CASE ~(1 <= Len(stack) - 1)
      <4>1. Len(stack) = 1
        BY <3>2, <3>4
      <4>2. Len(stack') = 0
        BY <3>1, <3>4, Zenon
      <4> QED
        BY <4>1, <4>2
    <3> QED
      BY <3>3, <3>4
  <2>5. ASSUME NEW i \in 1..(Len(stack) - 1)
        PROVE  stack'[i] = stack[i]
    <3>1. i \in 1..(Len(stack) - 1 - 1 + 1) /\ 1 + i - 1 = i
      BY <1>1
    <3> QED
      BY <1>2, <2>3, <3>1
  <2> QED
    BY <1>2, <2>3, <2>4, <2>5
<1> QED
  BY <1>1, <1>3 DEF Calls

\* The innermost call goes on: the others stay as they are.
LEMMA Replaced ==
  ASSUME ForeignAssumption, Shaped, stack # <<>>, NEW f \in FrameSet, ReplaceTop(f)
  PROVE  /\ stack' \in Seq(FrameSet) /\ Len(stack') = Len(stack) /\ Calls' = Calls
         /\ Len(stack) \in Calls /\ stack'[Len(stack)] = f
         /\ \A i \in Calls : i # Len(stack) => stack'[i] = stack[i]
<1>1. stack \in Seq(FrameSet) /\ Len(stack) \in Nat /\ Len(stack) > 0
  BY DEF Shaped
<1>2. stack' = [stack EXCEPT ![Len(stack)] = f]
  BY DEF ReplaceTop
<1>3. stack' \in Seq(FrameSet) /\ Len(stack') = Len(stack)
  BY <1>1, <1>2
<1>4. Len(stack) \in Calls /\ Calls' = Calls
  BY <1>1, <1>3 DEF Calls
<1>5. DOMAIN stack = Calls
  BY <1>1 DEF Calls
<1>6. stack'[Len(stack)] = f /\ \A i \in Calls : i # Len(stack) => stack'[i] = stack[i]
  BY <1>2, <1>4, <1>5
<1> QED
  BY <1>3, <1>4, <1>6

\* What the shape of the state after a step comes down to.
LEMMA ShapeFrom ==
  ASSUME stack' \in Seq(FrameSet), Len(stack') <= MaxDepth, made' \in 0..MaxResources,
         registry' \cap freed' = {},
         registry' \cup pointer' \cup leased' \cup freed' \cup dead' \subseteq 1..made',
         {parents', needs', contents'} \subseteq [Resources -> SUBSET (1..made')]
  PROVE  Shaped'
<1>1. \A i \in DOMAIN stack' : stack'[i] \in FrameSet
  OBVIOUS
<1>2. \A i \in DOMAIN stack' : /\ stack'[i].kind \in {"function", "constructor", "method", "close"}
                               /\ stack'[i].phase \in {"args", "native"}
  BY <1>1 DEF FrameSet
<1> QED
  BY <1>2 DEF Shaped, ForeignTypeOK

\* What the innermost call keeps, and what it consumes.
LEMMA TopHolds ==
  ASSUME ForeignAssumption, ForeignInv, stack # <<>>
  PROVE  /\ Len(stack) \in Calls /\ Top \in FrameSet /\ Top = stack[Len(stack)]
         /\ Top.transfers \subseteq Top.parents /\ Top.parents \subseteq Top.leases
         /\ Top.leases \subseteq leased /\ leased \subseteq Live \cap pointer
         /\ \A r \in Top.transfers : ~Retained(r)
<1>1. Len(stack) \in Calls /\ Top = stack[Len(stack)]
  BY DEF ForeignInv, Shaped, Calls, Top
<1>2. registry \subseteq Live /\ Top \in FrameSet
  BY <1>1, ShapeIs DEF ForeignInv
<1> QED
  BY <1>1, <1>2 DEF ForeignInv, Leases

\* What a constructor does, with the native values it adopts and points to.
Adopted == UNION {contents[r] : r \in Top.transfers}
Pointed == (UNION {contents[r] : r \in Top.parents \ Top.transfers})
           \cup (UNION {needs[r] : r \in Top.parents})
Yields == /\ made < MaxResources /\ made' = made + 1
          /\ parents' = [parents EXCEPT ![made + 1] = Top.parents]
          /\ contents' = [contents EXCEPT ![made + 1] = Adopted \cup {made + 1}]
          /\ needs' = [needs EXCEPT ![made + 1] = Pointed]
          /\ registry \subseteq registry' /\ registry' \subseteq registry \cup {made + 1}
          /\ pointer' = (pointer \ Top.transfers) \cup {made + 1} /\ dead' = dead
Disposes == /\ pointer' = pointer \ Top.transfers /\ dead' = dead \cup Adopted
            /\ UNCHANGED <<made, registry, parents, needs, contents>>

\* Whose values a constructor adopts, and whose it points to.
LEMMA PointedIs ==
  ASSUME NEW v
  PROVE  /\ v \in Adopted <=> \E r \in Top.transfers : v \in contents[r]
         /\ v \in Pointed <=> \E r \in Top.parents :
                               v \in needs[r] \/ (r \notin Top.transfers /\ v \in contents[r])
<1> DEFINE Own == UNION {contents[r] : r \in Top.parents \ Top.transfers}
           Far == UNION {needs[r] : r \in Top.parents}
<1>1. v \in Adopted <=> \E r \in Top.transfers : v \in contents[r]
  BY Zenon DEF Adopted
<1>2. v \in Own <=> \E r \in Top.parents \ Top.transfers : v \in contents[r]
  BY Zenon
<1>3. v \in Far <=> \E r \in Top.parents : v \in needs[r]
  BY Zenon
<1>4. Pointed = Own \cup Far
  BY Zenon DEF Pointed
<1> HIDE DEF Own, Far
<1>5. v \in Pointed <=> \E r \in Top.parents :
                        v \in needs[r] \/ (r \notin Top.transfers /\ v \in contents[r])
  BY <1>2, <1>3, <1>4
<1> QED
  BY <1>1, <1>5, Zenon

\* A constructor that has run yields a resource or disposes of what it adopted.
LEMMA ConstructIs ==
  ASSUME Construct
  PROVE  /\ stack # <<>> /\ Pop /\ leased' = leased \ Top.leases /\ freed' = freed
         /\ Top.kind = "constructor" /\ (Yields \/ Disposes)
BY DEF Construct, Unleased, Kept, Adopted, Pointed, Yields, Disposes, knownVars

\* A constructor keeps the shape of the state.
LEMMA ConstructShape ==
  ASSUME ForeignAssumption, ForeignInv, Construct
  PROVE  Shaped'
<1>0. /\ made \in Nat /\ made <= MaxResources /\ MaxResources \in Nat
      /\ Len(stack) \in Nat /\ Len(stack) <= MaxDepth /\ MaxDepth \in Nat
      /\ registry \subseteq Live /\ Live \subseteq Resources
      /\ pointer \subseteq 1..made /\ leased \subseteq 1..made /\ freed \subseteq 1..made
      /\ dead \subseteq 1..made
      /\ parents \in [Resources -> SUBSET (1..made)]
      /\ needs \in [Resources -> SUBSET (1..made)]
      /\ contents \in [Resources -> SUBSET (1..made)]
  BY ShapeIs DEF ForeignInv
<1>1. /\ stack # <<>> /\ Pop /\ leased' = leased \ Top.leases /\ freed' = freed
      /\ Yields \/ Disposes
  BY ConstructIs
<1>2. stack' \in Seq(FrameSet) /\ Len(stack') <= MaxDepth
  BY <1>0, <1>1, Popped DEF ForeignInv
<1>3. Top.parents \subseteq Live /\ Top.transfers \subseteq Live
  BY <1>1, TopHolds
<1>4. Adopted \subseteq 1..made /\ Pointed \subseteq 1..made
  <2>1. \A r \in Live : contents[r] \subseteq 1..made /\ needs[r] \subseteq 1..made
    BY <1>0
  <2>2. Adopted \subseteq 1..made
    BY <1>3, <2>1, PointedIs
  <2>3. Pointed \subseteq 1..made
    BY <1>3, <2>1, PointedIs
  <2> QED
    BY <2>2, <2>3
<1>5. CASE Yields
  <2>1. made + 1 \in Resources /\ made' = made + 1 /\ made' \in 0..MaxResources
    BY <1>0, <1>5 DEF Yields, Resources
  <2>2. \A S : S \in SUBSET (1..made) => S \in SUBSET (1..made')
    BY <1>0, <2>1
  <2>3. /\ parents \in [Resources -> SUBSET (1..made')]
        /\ needs \in [Resources -> SUBSET (1..made')]
        /\ contents \in [Resources -> SUBSET (1..made')]
    BY <1>0, <2>2
  <2>4. /\ Top.parents \in SUBSET (1..made') /\ Pointed \in SUBSET (1..made')
        /\ Adopted \cup {made + 1} \in SUBSET (1..made')
    BY <1>0, <1>3, <1>4, <2>1 DEF Live
  <2>5. {parents', needs', contents'} \subseteq [Resources -> SUBSET (1..made')]
    <3>1. parents' \in [Resources -> SUBSET (1..made')]
      BY <1>5, <2>3, <2>4 DEF Yields
    <3>2. needs' \in [Resources -> SUBSET (1..made')]
      BY <1>5, <2>3, <2>4 DEF Yields
    <3>3. contents' \in [Resources -> SUBSET (1..made')]
      BY <1>5, <2>3, <2>4 DEF Yields
    <3> QED
      BY <3>1, <3>2, <3>3
  <2>6. registry' \cap freed' = {}
    BY <1>0, <1>1, <1>5 DEF Yields, Live
  <2>7. registry' \cup pointer' \cup leased' \cup freed' \cup dead' \subseteq 1..made'
    <3>1. 1..made \subseteq 1..made' /\ made + 1 \in 1..made'
      BY <1>0, <2>1
    <3>2. registry' \subseteq 1..made'
      BY <1>0, <1>5, <3>1 DEF Yields, Live
    <3>3. pointer' \subseteq 1..made'
      BY <1>0, <1>5, <3>1 DEF Yields
    <3>4. leased' \cup freed' \cup dead' \subseteq 1..made'
      BY <1>0, <1>1, <1>5, <3>1 DEF Yields
    <3> QED
      BY <3>2, <3>3, <3>4
  <2> QED
    BY <1>2, <2>1, <2>5, <2>6, <2>7, ShapeFrom
<1>6. CASE Disposes
  <2>1. {parents', needs', contents'} \subseteq [Resources -> SUBSET (1..made')]
    BY <1>0, <1>6 DEF Disposes
  <2>2. registry' \cap freed' = {} /\ made' \in 0..MaxResources
    BY <1>0, <1>1, <1>6 DEF Disposes, Live
  <2>3. registry' \cup pointer' \cup leased' \cup freed' \cup dead' \subseteq 1..made'
    BY <1>0, <1>1, <1>4, <1>6 DEF Disposes, Live
  <2> QED
    BY <1>2, <2>1, <2>2, <2>3, ShapeFrom
<1> QED
  BY <1>1, <1>5, <1>6

\* Every step keeps the shape of the state.
LEMMA ResourceStep ==
  ASSUME ForeignAssumption, ForeignInv, [ForeignNext]_foreignVars
  PROVE  Shaped'
<1>0. /\ made \in 0..MaxResources /\ Len(stack) \in Nat /\ Len(stack) <= MaxDepth
      /\ MaxDepth \in Nat /\ MaxResources \in Nat /\ registry \cap freed = {}
      /\ registry \cup pointer \cup leased \cup freed \cup dead \subseteq 1..made
      /\ {parents, needs, contents} \subseteq [Resources -> SUBSET (1..made)]
      /\ stack \in Seq(FrameSet)
      /\ 1..made \subseteq Resources /\ registry \subseteq 1..made
  <2>1. made \in Nat /\ made <= MaxResources /\ MaxResources \in Nat /\ MaxDepth \in Nat
    BY ShapeIs DEF ForeignInv
  <2>2. 1..made \subseteq Resources
    BY <2>1 DEF Resources
  <2> QED
    BY <2>1, <2>2 DEF ForeignInv, Shaped, ForeignTypeOK
<1>s. Shaped
  BY DEF ForeignInv
\* Most steps change nothing but the frames and the leases.
<1>f. ASSUME stack' \in Seq(FrameSet), Len(stack') <= MaxDepth, leased' \subseteq 1..made,
             UNCHANGED <<made, registry, pointer, freed, dead, parents, needs, contents>>
      PROVE  Shaped'
  BY <1>0, <1>f, ShapeFrom
<1>1. ASSUME NEW kind \in {"function", "constructor"}, CallFunction(kind)
      PROVE  Shaped'
  <2>1. Frame(kind, 0, {}) \in FrameSet
    BY DEF Frame, FrameSet
  <2>2. stack' \in Seq(FrameSet) /\ Len(stack') <= MaxDepth
    BY <1>0, <1>1, <1>s, <2>1, Pushed DEF CallFunction
  <2> QED
    BY <1>0, <1>1, <1>f, <2>2 DEF CallFunction, knownVars
<1>2. ASSUME NEW r \in Resources, CallMethod(r)
      PROVE  Shaped'
  <2>1. Frame("method", r, {r}) \in FrameSet
    BY <1>0 DEF Frame, FrameSet, Resources
  <2>2. stack' \in Seq(FrameSet) /\ Len(stack') <= MaxDepth
    BY <1>0, <1>2, <1>s, <2>1, Pushed DEF CallMethod
  <2> QED
    BY <1>0, <1>2, <1>f, <2>2 DEF CallMethod, knownVars
<1>3. ASSUME NEW r \in Resources, NEW action \in Actions, ResolveResource(r, action)
      PROVE  Shaped'
  <2> DEFINE f == [Top EXCEPT !.leases = @ \cup {r},
                              !.parents = IF action = "borrow" THEN @ ELSE @ \cup {r},
                              !.transfers = IF action = "consume" THEN @ \cup {r} ELSE @]
  <2>1. f \in FrameSet
    BY <1>3, TopHolds DEF ResolveResource, FrameSet
  <2>2. ReplaceTop(f) /\ stack # <<>>
    BY <1>3 DEF ResolveResource
  <2> HIDE DEF f
  <2>3. stack' \in Seq(FrameSet) /\ Len(stack') <= MaxDepth
    BY <1>0, <1>s, <2>1, <2>2, Replaced
  <2> QED
    BY <1>0, <1>3, <1>f, <2>3 DEF ResolveResource, knownVars
<1>4. ASSUME RunNative
      PROVE  Shaped'
  <2> DEFINE f == [Top EXCEPT !.phase = "native"]
  <2>1. f \in FrameSet
    BY <1>4, TopHolds DEF RunNative, FrameSet
  <2>2. ReplaceTop(f) /\ stack # <<>>
    BY <1>4 DEF RunNative
  <2> HIDE DEF f
  <2>3. stack' \in Seq(FrameSet) /\ Len(stack') <= MaxDepth
    BY <1>0, <1>s, <2>1, <2>2, Replaced
  <2> QED
    BY <1>0, <1>4, <1>f, <2>3 DEF RunNative, knownVars
<1>5. ASSUME Return
      PROVE  Shaped'
  <2>1. stack' \in Seq(FrameSet) /\ Len(stack') <= MaxDepth
    BY <1>0, <1>5, <1>s, Popped DEF Return
  <2> QED
    BY <1>0, <1>5, <1>f, <2>1 DEF Return, Unleased, knownVars
<1>6. ASSUME Construct
      PROVE  Shaped'
  BY <1>6, ConstructShape
<1>7. ASSUME NEW r \in Resources, CloseResource(r)
      PROVE  Shaped'
  <2>1. Frame("close", r, {}) \in FrameSet
    BY <1>0 DEF Frame, FrameSet, Resources
  <2>2. stack' \in Seq(FrameSet) /\ Len(stack') <= MaxDepth
    BY <1>0, <1>7, <1>s, <2>1, Pushed DEF CloseResource
  <2> QED
    BY <1>0, <1>7, <1>f, <2>2 DEF CloseResource, knownVars
<1>8. ASSUME CloseReturns
      PROVE  Shaped'
  <2>1. stack' \in Seq(FrameSet) /\ Len(stack') <= MaxDepth
    BY <1>0, <1>8, <1>s, Popped DEF CloseReturns
  <2>2. /\ UNCHANGED <<made, leased, freed, parents, needs, contents>>
        /\ pointer' \subseteq pointer /\ registry' \subseteq registry
    BY <1>8 DEF CloseReturns, knownVars
  <2>3. dead' \subseteq 1..made
    <3>1. Len(stack) \in Calls /\ Top.kind = "close" /\ Top = stack[Len(stack)]
      BY <1>8, TopHolds DEF CloseReturns
    <3>2. Top.receiver \in registry
      BY <3>1 DEF ForeignInv, Closes
    <3>3. contents[Top.receiver] \subseteq 1..made
      BY <1>0, <3>2
    <3> QED
      BY <1>0, <1>8, <3>3 DEF CloseReturns
  <2> QED
    BY <1>0, <2>1, <2>2, <2>3, ShapeFrom
<1>9. ASSUME NEW r \in Resources, ReleaseResource(r)
      PROVE  Shaped'
  <2>1. /\ registry' \subseteq registry
        /\ UNCHANGED <<stack, made, pointer, leased, freed, dead, parents, needs, contents>>
    BY <1>9 DEF ReleaseResource, knownVars
  <2> QED
    BY <1>0, <2>1, ShapeFrom
<1>10. ASSUME NEW r \in Resources, DropResource(r)
      PROVE  Shaped'
  <2>1. /\ freed' = freed \cup {r} /\ r \in 1..made /\ r \notin registry
        /\ UNCHANGED <<stack, made, pointer, leased, registry, parents, needs, contents>>
    BY <1>10, <1>s, StrongIs DEF DropResource, Dropping, knownVars
  <2>2. dead' \subseteq 1..made
    BY <1>0, <1>10, <2>1 DEF DropResource
  <2> QED
    BY <1>0, <2>1, <2>2, ShapeFrom
<1>11. CASE UNCHANGED foreignVars
  BY <1>0, <1>11, <1>f DEF foreignVars
<1> QED
  BY <1>1, <1>2, <1>3, <1>4, <1>5, <1>6, <1>7, <1>8, <1>9, <1>10, <1>11 DEF ForeignNext

\* What is retained after a step.
LEMMA RetainedNext ==
  ASSUME ForeignAssumption, ForeignInv, NEW r
  PROVE  /\ UNCHANGED <<made, freed, parents>> => Retained(r)' = Retained(r)
         /\ \A s : DropResource(s) /\ Retained(r)' => Retained(r)
         /\ Construct /\ Retained(r)' => Retained(r) \/ r \in Top.parents
<1>1. ASSUME UNCHANGED <<made, freed, parents>>
      PROVE  Retained(r)' = Retained(r)
  BY <1>1 DEF Retained, Live
<1>2. ASSUME NEW s, DropResource(s), Retained(r)'
      PROVE  Retained(r)
  BY <1>2 DEF DropResource, Retained, Live, knownVars
<1>3. ASSUME Construct, Retained(r)'
      PROVE  Retained(r) \/ r \in Top.parents
  <2>1. freed' = freed /\ (Yields \/ Disposes)
    BY <1>3, ConstructIs
  <2>2. PICK o \in (1..made') \ freed : r \in parents'[o]
    BY <1>3, <2>1 DEF Retained, Live
  <2>3. CASE Disposes
    BY <2>2, <2>3 DEF Disposes, Retained, Live
  <2>4. CASE Yields
    <3>1. made \in Nat /\ made' = made + 1 /\ parents \in [Resources -> SUBSET (1..made)]
      BY <2>4, ShapeIs DEF ForeignInv, Yields
    <3>2. parents' = [parents EXCEPT ![made + 1] = Top.parents]
      BY <2>4 DEF Yields
    <3>3. o = made + 1 \/ o \in Live
      BY <2>2, <3>1 DEF Live
    <3>4. CASE o = made + 1
      <4>1. made + 1 \in Resources
        BY <2>4, <3>1 DEF Yields, Resources, ForeignAssumption
      <4>2. parents'[made + 1] = Top.parents
        BY <3>1, <3>2, <4>1
      <4> QED
        BY <2>2, <3>4, <4>2
    <3>5. CASE o # made + 1 /\ o \in Live
      BY <2>2, <3>1, <3>2, <3>5 DEF Retained
    <3> QED
      BY <3>3, <3>4, <3>5
  <2> QED
    BY <2>1, <2>3, <2>4
<1> QED
  BY <1>1, <1>2, <1>3

\* A constructor keeps values with one owner and backed by what they point to.
LEMMA ConstructValues ==
  ASSUME ForeignAssumption, ForeignInv, Construct
  PROVE  Family' /\ Disjoint' /\ Backed'
<1>0. /\ made \in Nat /\ MaxResources \in Nat /\ freed \subseteq 1..made /\ dead \subseteq 1..made
      /\ Live \subseteq Resources /\ pointer \subseteq 1..made
      /\ parents \in [Resources -> SUBSET (1..made)]
      /\ needs \in [Resources -> SUBSET (1..made)]
      /\ contents \in [Resources -> SUBSET (1..made)]
  BY ShapeIs DEF ForeignInv
<1>1. stack # <<>> /\ freed' = freed /\ (Yields \/ Disposes)
  BY ConstructIs
<1>2. /\ Top.transfers \subseteq Live \cap pointer /\ Top.parents \subseteq Live \cap pointer
      /\ Top.transfers \subseteq Top.parents /\ \A r \in Top.transfers : ~Retained(r)
  BY <1>1, TopHolds
<1>3. /\ Family /\ Disjoint /\ Backed
  BY DEF ForeignInv
<1>4. ASSUME NEW r \in Live, NEW p \in parents[r]
      PROVE  p \in Live /\ p \notin Top.transfers
  BY <1>2, <1>3 DEF Family, Retained
<1>5. CASE Disposes
  <2>1. Live' = Live /\ pointer' = pointer \ Top.transfers /\ dead' = dead \cup Adopted
        /\ UNCHANGED <<parents, needs, contents>>
    BY <1>1, <1>5 DEF Disposes, Live
  <2>2. Family'
    BY <1>3, <1>4, <2>1 DEF Family
  <2>3. Disjoint'
    BY <1>3, <2>1 DEF Disjoint
  <2>4. Backed'
    <3>1. ASSUME NEW r \in Live, r \in pointer', NEW v \in needs[r] \cup contents[r]
          PROVE  v \notin dead'
      <4>1. v \notin dead
        BY <1>3, <2>1, <3>1 DEF Backed, Live
      <4>2. ASSUME NEW s \in Top.transfers
            PROVE  v \notin contents[s]
        <5>1. s \in Live \cap pointer /\ ~Retained(s) /\ s # r /\ r \in Live \cap pointer
          BY <1>2, <2>1, <3>1
        <5>2. needs[r] \cap contents[s] = {}
          BY <5>1, NotNeeded
        <5>3. contents[r] \cap contents[s] = {}
          BY <1>3, <5>1 DEF Disjoint
        <5> QED
          BY <3>1, <5>2, <5>3
      <4>3. v \notin Adopted
        BY <4>2 DEF Adopted
      <4> QED
        BY <2>1, <4>1, <4>3
    <3> QED
      BY <2>1, <3>1 DEF Backed, Live
  <2> QED
    BY <2>2, <2>3, <2>4
<1>6. CASE Yields
  <2> DEFINE n == made + 1
  <2>1. /\ n \in Resources /\ n \notin Live /\ n \notin dead /\ n \notin pointer /\ n \notin 1..made
        /\ Live' = Live \cup {n} /\ dead' = dead
        /\ pointer' = (pointer \ Top.transfers) \cup {n}
    BY <1>0, <1>1, <1>6 DEF Yields, Live, Resources
  <2>2. /\ parents'[n] = Top.parents /\ contents'[n] = Adopted \cup {n} /\ needs'[n] = Pointed
        /\ \A r \in Live : /\ parents'[r] = parents[r] /\ contents'[r] = contents[r]
                           /\ needs'[r] = needs[r] /\ contents[r] \subseteq 1..made
    <3>1. n \in Resources
      BY <2>1
    <3>2. parents'[n] = Top.parents /\ contents'[n] = Adopted \cup {n} /\ needs'[n] = Pointed
      BY <1>0, <1>6, <3>1 DEF Yields
    <3>3. ASSUME NEW r \in Live
          PROVE  /\ parents'[r] = parents[r] /\ contents'[r] = contents[r]
                 /\ needs'[r] = needs[r] /\ contents[r] \subseteq 1..made
      <4>1. r # n /\ r \in Resources
        BY <1>0, <2>1, <3>3
      <4> QED
        BY <1>0, <1>6, <4>1 DEF Yields
    <3> QED
      BY <3>2, <3>3
  <2>3. \A p \in Live : p < n
    BY <1>0 DEF Live
  <2> HIDE DEF n
  <2>4. Family'
    <3>1. ASSUME NEW r \in Live
          PROVE  /\ parents'[r] \subseteq Live' /\ \A p \in parents'[r] : p < r
                 /\ r \in contents'[r]
                 /\ \A v \in needs'[r] : \E p \in parents'[r] :
                      v \in needs'[p] \/ (p \in pointer' /\ v \in contents'[p])
      <4>1. /\ parents'[r] = parents[r] /\ contents'[r] = contents[r] /\ needs'[r] = needs[r]
            /\ parents[r] \subseteq Live /\ \A p \in parents[r] : p < r
            /\ r \in contents[r]
        BY <1>3, <2>2, <3>1 DEF Family
      <4>2. ASSUME NEW v \in needs[r]
            PROVE  \E p \in parents[r] : v \in needs'[p] \/ (p \in pointer' /\ v \in contents'[p])
        <5>1. PICK p \in parents[r] : v \in needs[p] \/ (p \in pointer /\ v \in contents[p])
          BY <1>3, <3>1, <4>2 DEF Family
        <5>2. p \in Live /\ p \notin Top.transfers
          BY <1>4, <3>1, <5>1
        <5>3. needs'[p] = needs[p] /\ contents'[p] = contents[p] /\ (p \in pointer => p \in pointer')
          BY <2>1, <2>2, <5>2
        <5> QED
          BY <5>1, <5>3
      <4> QED
        BY <2>1, <4>1, <4>2
    <3>2. /\ parents'[n] \subseteq Live' /\ \A p \in parents'[n] : p < n
          /\ n \in contents'[n]
      BY <1>2, <2>1, <2>2, <2>3
    <3>3. ASSUME NEW v \in needs'[n]
          PROVE  \E p \in parents'[n] : v \in needs'[p] \/ (p \in pointer' /\ v \in contents'[p])
      <4>1. PICK q \in Top.parents : v \in needs[q] \/ (q \notin Top.transfers /\ v \in contents[q])
        BY <2>2, <3>3, PointedIs
      <4>2. q \in Live /\ q \in pointer
        BY <1>2, <4>1
      <4>3. needs'[q] = needs[q] /\ contents'[q] = contents[q] /\ q \in parents'[n]
        BY <2>2, <4>1, <4>2
      <4> QED
        BY <2>1, <4>1, <4>2, <4>3
    <3> QED
      BY <2>1, <3>1, <3>2, <3>3 DEF Family
  <2>5. Disjoint'
    <3>1. ASSUME NEW s \in Live, s \in pointer', s # n
          PROVE  s \in pointer /\ s \notin Top.transfers
      BY <2>1, <3>1
    <3>2. ASSUME NEW s \in Live, s \in pointer'
          PROVE  contents'[n] \cap contents'[s] = {}
      <4>1. s # n /\ s \in pointer /\ s \notin Top.transfers
        BY <2>1, <3>2
      <4>2. n \notin contents[s] /\ contents'[s] = contents[s]
        BY <2>1, <2>2, <3>2
      <4>3. \A t \in Top.transfers : contents[t] \cap contents[s] = {}
        BY <1>2, <1>3, <3>2, <4>1 DEF Disjoint
      <4> QED
        BY <2>2, <4>2, <4>3 DEF Adopted
    <3>3. ASSUME NEW r \in Live, r \in pointer', NEW s \in Live, s \in pointer', r # s
          PROVE  contents'[r] \cap contents'[s] = {}
      BY <1>3, <2>1, <2>2, <3>1, <3>3 DEF Disjoint
    <3> QED
      BY <2>1, <3>2, <3>3 DEF Disjoint
  <2>6. Backed'
    <3>1. ASSUME NEW r \in Live, r \in pointer'
          PROVE  (needs'[r] \cup contents'[r]) \cap dead' = {}
      BY <1>3, <2>1, <2>2, <3>1 DEF Backed, Live
    <3>2. \A q \in Top.parents : (needs[q] \cup contents[q]) \cap dead = {}
      BY <1>2, <1>3 DEF Backed, Live
    <3>3. (needs'[n] \cup contents'[n]) \cap dead' = {}
      <4>1. ASSUME NEW v \in needs'[n] \cup contents'[n]
            PROVE  v \notin dead
        <5>1. v = n \/ v \in Adopted \/ v \in Pointed
          BY <2>2, <4>1
        <5>2. v = n \/ \E q \in Top.parents : v \in needs[q] \cup contents[q]
          BY <1>2, <5>1, PointedIs
        <5> QED
          BY <2>1, <3>2, <5>2
      <4> QED
        BY <2>1, <4>1
    <3>4. (1..made') \ freed' = Live \cup {n}
      BY <2>1 DEF Live
    <3> QED
      BY <3>1, <3>3, <3>4 DEF Backed
  <2> QED
    BY <2>4, <2>5, <2>6
<1> QED
  BY <1>1, <1>5, <1>6

\* Every step keeps values with one owner and backed by what they point to.
LEMMA ValuesStep ==
  ASSUME ForeignAssumption, ForeignInv, [ForeignNext]_foreignVars
  PROVE  Family' /\ Disjoint' /\ Backed'
<1>1. Family /\ Disjoint /\ Backed /\ Shaped
  BY DEF ForeignInv
\* Most steps leave every value alone.
<1>2. ASSUME UNCHANGED <<made, freed, parents, needs, contents, pointer, dead>>
      PROVE  Family' /\ Disjoint' /\ Backed'
  BY <1>1, <1>2 DEF Family, Disjoint, Backed, Live
\* A resource that nobody retains gives up its value, and maybe its memory.
<1>3. ASSUME NEW s \in Live \cap pointer, ~Retained(s), dead' = dead \cup contents[s],
             UNCHANGED <<made, parents, needs, contents>>,
             \/ freed' = freed \cup {s} /\ pointer' = pointer
             \/ freed' = freed /\ pointer' = pointer \ {s}
      PROVE  Family' /\ Disjoint' /\ Backed'
  <2>1. /\ Live' \subseteq Live /\ \A r \in Live : r # s => r \in Live'
        /\ pointer' \subseteq pointer /\ \A r \in pointer : r # s => r \in pointer'
        /\ ~(s \in Live' /\ s \in pointer')
    BY <1>3 DEF Live
  <2>2. \A r \in Live : s \notin parents[r]
    BY <1>3 DEF Retained
  <2>3. Family'
    <3>1. ASSUME NEW r \in Live'
          PROVE  /\ parents[r] \subseteq Live' /\ \A p \in parents[r] : p < r
                 /\ r \in contents[r]
                 /\ \A v \in needs[r] : \E p \in parents[r] :
                      v \in needs[p] \/ (p \in pointer' /\ v \in contents[p])
      BY <1>1, <2>1, <2>2, <3>1 DEF Family
    <3> QED
      BY <1>3, <3>1 DEF Family
  <2>4. Disjoint'
    BY <1>1, <1>3, <2>1 DEF Disjoint
  <2>5. Backed'
    <3>1. ASSUME NEW r \in Live', r \in pointer'
          PROVE  (needs[r] \cup contents[r]) \cap dead' = {}
      <4>1. r \in Live /\ r \in pointer /\ r # s
        BY <2>1, <3>1
      <4>2. (needs[r] \cup contents[r]) \cap dead = {}
        BY <1>1, <4>1 DEF Backed, Live
      <4>3. needs[r] \cap contents[s] = {}
        BY <1>3, <4>1, NotNeeded
      <4>4. contents[r] \cap contents[s] = {}
        BY <1>1, <1>3, <4>1 DEF Disjoint
      <4> QED
        BY <1>3, <4>2, <4>3, <4>4
    <3> QED
      BY <1>3, <3>1 DEF Backed, Live
  <2> QED
    BY <2>3, <2>4, <2>5
<1>4. CASE Construct
  BY <1>4, ConstructValues
<1>5. CASE CloseReturns
  <2>1. CASE UNCHANGED <<pointer, registry, dead>>
    BY <1>2, <1>5, <2>1 DEF CloseReturns, knownVars
  <2>2. CASE /\ pointer' = pointer \ {Top.receiver} /\ registry' = registry \ {Top.receiver}
             /\ dead' = dead \cup contents[Top.receiver]
    <3>1. Len(stack) \in Calls /\ Top = stack[Len(stack)] /\ Top.kind = "close"
      BY <1>5, TopHolds DEF CloseReturns
    <3>2. Top.receiver \in registry \cap pointer /\ ~Retained(Top.receiver)
      BY <3>1 DEF ForeignInv, Closes
    <3>3. Top.receiver \in Live \cap pointer
      BY <1>1, <3>2, ShapeIs
    <3> QED
      BY <1>3, <1>5, <2>2, <3>2, <3>3 DEF CloseReturns, knownVars
  <2> QED
    BY <1>5, <2>1, <2>2 DEF CloseReturns
<1>6. ASSUME NEW r \in Resources, DropResource(r)
      PROVE  Family' /\ Disjoint' /\ Backed'
  <2>1. r \in Live /\ ~Retained(r)
    BY <1>1, <1>6, StrongIs DEF DropResource, Dropping, Live
  <2>2. CASE r \in pointer
    BY <1>3, <1>6, <2>1, <2>2 DEF DropResource, knownVars
  <2>3. CASE r \notin pointer
    <3>1. /\ Live' = Live \ {r} /\ dead' = dead
          /\ UNCHANGED <<parents, needs, contents, pointer>>
      BY <1>6, <2>3 DEF DropResource, knownVars, Live
    <3>2. \A q \in Live : r \notin parents[q]
      BY <2>1 DEF Retained
    <3>3. Family'
      BY <1>1, <3>1, <3>2 DEF Family
    <3>4. Disjoint' /\ Backed'
      BY <1>1, <3>1 DEF Disjoint, Backed, Live
    <3> QED
      BY <3>3, <3>4
  <2> QED
    BY <2>2, <2>3
<1>7. CASE UNCHANGED foreignVars
  BY <1>2, <1>7 DEF foreignVars
<1>8. ASSUME NEW kind \in {"function", "constructor"}, CallFunction(kind)
      PROVE  Family' /\ Disjoint' /\ Backed'
  BY <1>2, <1>8 DEF CallFunction, knownVars
<1>9. CASE RunNative
  BY <1>2, <1>9 DEF RunNative, knownVars
<1>10. CASE Return
  BY <1>2, <1>10 DEF Return, knownVars
<1>11. ASSUME NEW r \in Resources, CallMethod(r) \/ CloseResource(r) \/ ReleaseResource(r)
       PROVE  Family' /\ Disjoint' /\ Backed'
  BY <1>2, <1>11 DEF CallMethod, CloseResource, ReleaseResource, knownVars
<1>12. ASSUME NEW r \in Resources, NEW action \in Actions, ResolveResource(r, action)
       PROVE  Family' /\ Disjoint' /\ Backed'
  BY <1>2, <1>12 DEF ResolveResource, knownVars
<1> QED
  BY <1>4, <1>5, <1>6, <1>7, <1>8, <1>9, <1>10, <1>11, <1>12 DEF ForeignNext

-----------------------------------------------------------------------------
(***************************************************************************)
(* The frames, by what becomes of the innermost one.                       *)
(***************************************************************************)

\* A call or a close of a resource that nobody uses begins.
LEMMA FramesBegin ==
  ASSUME ForeignAssumption, ForeignInv, NEW f \in FrameSet, stack' = Append(stack, f),
         f.parents = {}, f.transfers = {}, f.leases \subseteq (registry \cap pointer) \ leased,
         \A r \in f.leases : ~Borrowed(r), leased' = leased \cup f.leases,
         f.kind = "close" =>
           /\ f.receiver \in (registry \cap pointer) \ leased /\ ~Retained(f.receiver)
           /\ f.phase = "native" /\ f.leases = {} /\ ~Borrowed(f.receiver),
         UNCHANGED <<made, registry, pointer, freed, parents>>
  PROVE  Leases' /\ Closes'
<1> DEFINE n == Len(stack) + 1
<1>1. /\ Calls' = Calls \cup {n} /\ n \notin Calls
      /\ stack'[n] = f /\ \A i \in Calls : stack'[i] = stack[i]
  BY Pushed DEF ForeignInv
<1>2. \A r : Retained(r)' = Retained(r)
  BY RetainedNext
<1>3. Leases /\ Closes /\ DOMAIN stack = Calls
  BY ShapeIs DEF ForeignInv
<1> HIDE DEF n
<1>4. \A i \in Calls : stack[i].leases \cap f.leases = {}
  BY <1>3 DEF Leases
<1>5. \A i \in Calls : stack[i].kind = "close" =>
        stack[i].receiver \notin f.leases /\ (f.kind = "close" => stack[i].receiver # f.receiver)
  BY <1>3 DEF Borrowed
<1>6. Leases'
  <2>1. leased' \subseteq registry' \cap pointer'
    BY <1>3 DEF Leases
  <2>2. ASSUME NEW r \in leased' PROVE \E i \in Calls' : r \in stack'[i].leases
    <3>1. CASE r \in f.leases
      BY <1>1, <3>1
    <3>2. CASE r \in leased
      <4>1. PICK i \in Calls : r \in stack[i].leases
        BY <1>3, <3>2 DEF Leases
      <4> QED
        BY <1>1, <4>1
    <3> QED
      BY <3>1, <3>2
  <2>3. \A i \in Calls' :
          /\ stack'[i].transfers \subseteq stack'[i].parents
          /\ stack'[i].parents \subseteq stack'[i].leases /\ stack'[i].leases \subseteq leased'
          /\ \A r \in stack'[i].transfers : ~Retained(r)'
    BY <1>1, <1>2, <1>3, ZenonT(40) DEF Leases
  <2>4. \A i, j \in Calls' : j # i => stack'[i].leases \cap stack'[j].leases = {}
    <3>1. \A i, j \in Calls : j # i => stack[i].leases \cap stack[j].leases = {}
      BY <1>3 DEF Leases
    <3>2. ASSUME NEW i \in Calls', NEW j \in Calls', j # i
          PROVE  stack'[i].leases \cap stack'[j].leases = {}
      <4>1. CASE i = n
        BY <1>1, <1>4, <3>2, <4>1
      <4>2. CASE j = n
        BY <1>1, <1>4, <3>2, <4>2
      <4>3. CASE i # n /\ j # n
        BY <1>1, <3>1, <3>2, <4>3
      <4> QED
        BY <4>1, <4>2, <4>3
    <3> QED
      BY <3>2
  <2> QED
    BY <2>1, <2>2, <2>3, <2>4 DEF Leases
<1>7. Closes'
  <2>1. ASSUME NEW i \in Calls', stack'[i].kind = "close"
        PROVE  /\ stack'[i].receiver \in (registry' \cap pointer') \ leased'
               /\ stack'[i].phase = "native" /\ stack'[i].leases = {}
    BY <1>1, <1>2, <1>3, <1>5, <2>1 DEF Closes
  <2>2. ASSUME NEW i \in Calls', stack'[i].kind = "close"
        PROVE  ~Retained(stack'[i].receiver)
    BY <1>1, <1>3, <2>2 DEF Closes
  <2>3. \A i, j \in Calls' : /\ j # i /\ stack'[i].kind = "close" /\ stack'[j].kind = "close"
                             => stack'[j].receiver # stack'[i].receiver
    <3>1. \A i, j \in Calls : /\ j # i /\ stack[i].kind = "close" /\ stack[j].kind = "close"
                              => stack[j].receiver # stack[i].receiver
      BY <1>3 DEF Closes
    <3>2. ASSUME NEW i \in Calls', NEW j \in Calls', j # i,
                 stack'[i].kind = "close", stack'[j].kind = "close"
          PROVE  stack'[j].receiver # stack'[i].receiver
      <4>1. CASE i = n
        BY <1>1, <1>5, <3>2, <4>1
      <4>2. CASE j = n
        BY <1>1, <1>5, <3>2, <4>2
      <4>3. CASE i # n /\ j # n
        BY <1>1, <3>1, <3>2, <4>3
      <4> QED
        BY <4>1, <4>2, <4>3
    <3> QED
      BY <3>2
  <2> QED
    BY <1>2, <2>1, <2>2, <2>3 DEF Closes
<1> QED
  BY <1>6, <1>7

\* The innermost frame is gone; it may leave what it leased retained.
LEMMA FramesEnd ==
  ASSUME ForeignAssumption, ForeignInv, stack # <<>>, Pop, leased' = leased \ Top.leases,
         \A r \in leased' : r \in registry' \cap pointer',
         \A i \in Calls' : stack[i].kind = "close" => stack[i].receiver \in registry' \cap pointer',
         \A r : Retained(r)' => Retained(r) \/ r \in Top.leases
  PROVE  Leases' /\ Closes'
<1> DEFINE n == Len(stack)
<1>1. /\ n \in Calls /\ Calls' = Calls \ {n} /\ Top = stack[n]
      /\ \A i \in Calls' : i \in Calls /\ i # n /\ stack'[i] = stack[i]
  BY Popped, TopHolds DEF ForeignInv
<1>2. Leases /\ Closes
  BY DEF ForeignInv
<1> HIDE DEF n
<1>3. \A i \in Calls' : stack[i].leases \cap Top.leases = {}
  BY <1>1, <1>2 DEF Leases
<1>4. Top.leases \subseteq leased
  BY <1>1, <1>2 DEF Leases
<1>5. Leases'
  <2>1. leased' \subseteq registry' \cap pointer'
    OBVIOUS
  <2>2. \A r \in leased' : \E i \in Calls' : r \in stack'[i].leases
    BY <1>1, <1>2 DEF Leases
  <2>3. ASSUME NEW i \in Calls'
        PROVE  /\ stack'[i].transfers \subseteq stack'[i].parents
               /\ stack'[i].parents \subseteq stack'[i].leases /\ stack'[i].leases \subseteq leased'
    BY <1>1, <1>2, <1>3, <2>3 DEF Leases
  <2>4. ASSUME NEW i \in Calls', NEW r \in stack'[i].transfers
        PROVE  ~Retained(r)'
    <3>1. ~Retained(r) /\ r \in stack[i].leases
      BY <1>1, <1>2, <2>4 DEF Leases
    <3> QED
      BY <1>3, <2>4, <3>1
  <2>5. \A i, j \in Calls' : j # i => stack'[i].leases \cap stack'[j].leases = {}
    BY <1>1, <1>2 DEF Leases
  <2> QED
    BY <2>1, <2>2, <2>3, <2>4, <2>5 DEF Leases
<1>6. Closes'
  <2>1. ASSUME NEW i \in Calls', stack'[i].kind = "close"
        PROVE  /\ stack'[i].receiver \in (registry' \cap pointer') \ leased'
               /\ stack'[i].phase = "native" /\ stack'[i].leases = {}
    BY <1>1, <1>2, <2>1 DEF Closes
  <2>2. ASSUME NEW i \in Calls', stack[i].kind = "close"
        PROVE  ~Retained(stack[i].receiver)'
    <3>1. ~Retained(stack[i].receiver) /\ stack[i].receiver \notin leased
      BY <1>1, <1>2, <2>2 DEF Closes
    <3>2. PICK s : s = stack[i].receiver
      OBVIOUS
    <3>3. ~Retained(s)'
      BY <1>4, <3>1, <3>2
    <3>4. stack'[i].receiver = s
      BY <1>1, <2>2, <3>2
    <3> QED
      BY <3>3, <3>4 DEF Retained
  <2> QED
    BY <1>1, <1>2, <2>1, <2>2 DEF Closes
<1> QED
  BY <1>5, <1>6

\* The innermost call goes on, and may lease another resource.
LEMMA FramesGoOn ==
  ASSUME ForeignAssumption, ForeignInv, stack # <<>>, NEW f \in FrameSet, ReplaceTop(f),
         Top.kind # "close", f.kind # "close",
         f.transfers \subseteq f.parents, f.parents \subseteq f.leases,
         Top.leases \subseteq f.leases,
         f.leases \ Top.leases \subseteq (registry \cap pointer) \ leased,
         \A r \in f.leases \ Top.leases : ~Borrowed(r),
         \A r \in f.transfers : ~Retained(r), leased' = leased \cup f.leases,
         UNCHANGED <<made, registry, pointer, freed, parents>>
  PROVE  Leases' /\ Closes'
<1> DEFINE n == Len(stack)
<1>1. /\ n \in Calls /\ Calls' = Calls /\ Top = stack[n] /\ stack'[n] = f
      /\ \A i \in Calls : i # n => stack'[i] = stack[i]
  BY Replaced, TopHolds DEF ForeignInv
<1>2. \A r : Retained(r)' = Retained(r)
  BY RetainedNext
<1>3. Leases /\ Closes /\ DOMAIN stack = Calls
  BY ShapeIs DEF ForeignInv
<1> HIDE DEF n
<1>4. \A i \in Calls : i # n => stack[i].leases \cap f.leases = {}
  BY <1>1, <1>3 DEF Leases
<1>5. \A i \in Calls : stack[i].kind = "close" => i # n /\ stack[i].receiver \notin f.leases
  <2>1. Top.leases \subseteq leased
    BY <1>1, <1>3 DEF Leases
  <2>2. \A i \in Calls : stack[i].kind = "close" => stack[i].receiver \notin leased
    BY <1>3 DEF Closes
  <2> QED
    BY <1>1, <1>3, <2>1, <2>2 DEF Borrowed
<1>6. Leases'
  <2>1. leased' \subseteq registry' \cap pointer'
    BY <1>1, <1>3 DEF Leases
  <2>2. \A r \in leased' : \E i \in Calls' : r \in stack'[i].leases
    <3>1. ASSUME NEW r \in leased
          PROVE  \E i \in Calls' : r \in stack'[i].leases
      BY <1>1, <1>3, <3>1 DEF Leases
    <3> QED
      BY <1>1, <3>1
  <2>3. \A i \in Calls' :
          /\ stack'[i].transfers \subseteq stack'[i].parents
          /\ stack'[i].parents \subseteq stack'[i].leases /\ stack'[i].leases \subseteq leased'
          /\ \A r \in stack'[i].transfers : ~Retained(r)'
    BY <1>1, <1>2, <1>3 DEF Leases
  <2>4. ASSUME NEW i \in Calls', NEW j \in Calls', j # i
        PROVE  stack'[i].leases \cap stack'[j].leases = {}
    <3>1. \A k, l \in Calls : l # k => stack[k].leases \cap stack[l].leases = {}
      BY <1>3 DEF Leases
    <3>2. CASE i = n
      BY <1>1, <1>4, <2>4, <3>2
    <3>3. CASE j = n
      BY <1>1, <1>4, <2>4, <3>3
    <3>4. CASE i # n /\ j # n
      BY <1>1, <2>4, <3>1, <3>4
    <3> QED
      BY <3>2, <3>3, <3>4
  <2> QED
    BY <2>1, <2>2, <2>3, <2>4 DEF Leases
<1>7. Closes'
  <2>1. \A i \in Calls' : stack'[i].kind = "close" => i # n /\ stack'[i] = stack[i]
    BY <1>1
  <2>2. ASSUME NEW i \in Calls', stack'[i].kind = "close"
        PROVE  /\ stack'[i].receiver \in (registry' \cap pointer') \ leased'
               /\ ~Retained(stack'[i].receiver)
               /\ stack'[i].phase = "native" /\ stack'[i].leases = {}
    BY <1>1, <1>3, <1>5, <2>1, <2>2 DEF Closes
  <2>3. \A i, j \in Calls' : /\ j # i /\ stack'[i].kind = "close" /\ stack'[j].kind = "close"
                             => stack'[j].receiver # stack'[i].receiver
    BY <1>1, <1>3, <2>1 DEF Closes
  <2> QED
    BY <1>2, <2>2, <2>3 DEF Closes
<1> QED
  BY <1>6, <1>7

\* No frame changes, and what they use stays.
LEMMA FramesStay ==
  ASSUME ForeignAssumption, ForeignInv, UNCHANGED <<stack, leased>>, pointer' = pointer,
         \A r \in leased : r \in registry',
         \A i \in Calls : stack[i].kind = "close" => stack[i].receiver \in registry',
         \A r : Retained(r)' => Retained(r)
  PROVE  Leases' /\ Closes'
<1>1. Leases /\ Closes /\ Calls' = Calls
  BY DEF ForeignInv, Calls
<1>2. Leases'
  BY <1>1 DEF Leases
<1>3. ASSUME NEW i \in Calls, stack[i].kind = "close"
      PROVE  ~Retained(stack[i].receiver)'
  <2>1. PICK s : s = stack[i].receiver
    OBVIOUS
  <2>2. ~Retained(s)'
    BY <1>1, <1>3, <2>1 DEF Closes
  <2>3. stack'[i].receiver = s
    BY <2>1
  <2> QED
    BY <2>2, <2>3 DEF Retained
<1>4. Closes'
  BY <1>1, <1>3 DEF Closes
<1> QED
  BY <1>2, <1>4

\* Every step keeps the leases and the closes with their frames.
LEMMA FramesStep ==
  ASSUME ForeignAssumption, ForeignInv, [ForeignNext]_foreignVars
  PROVE  Leases' /\ Closes'
<1>0. /\ Shaped /\ Leases /\ Closes /\ DOMAIN stack = Calls /\ MaxResources \in Nat
      /\ registry \subseteq Live
  BY ShapeIs DEF ForeignInv, ForeignAssumption
<1>r. UNCHANGED <<made, freed, parents>> => \A r : Retained(r)' => Retained(r)
  BY RetainedNext
<1>1. ASSUME NEW kind \in {"function", "constructor"}, CallFunction(kind)
      PROVE  Leases' /\ Closes'
  <2> DEFINE f == Frame(kind, 0, {})
  <2>1. f \in FrameSet /\ f.parents = {} /\ f.transfers = {} /\ f.leases = {} /\ f.kind # "close"
    BY DEF Frame, FrameSet
  <2>2. stack' = Append(stack, f) /\ UNCHANGED <<made, registry, pointer, leased, freed, parents>>
    BY <1>1 DEF CallFunction, knownVars
  <2> HIDE DEF f
  <2> QED
    BY <2>1, <2>2, FramesBegin
<1>2. ASSUME NEW r \in Resources, CallMethod(r)
      PROVE  Leases' /\ Closes'
  <2> DEFINE f == Frame("method", r, {r})
  <2>1. f \in FrameSet /\ f.parents = {} /\ f.transfers = {} /\ f.leases = {r} /\ f.kind # "close"
    BY <1>0 DEF Frame, FrameSet, Resources
  <2>2. /\ stack' = Append(stack, f) /\ UNCHANGED <<made, registry, pointer, freed, parents>>
        /\ leased' = leased \cup {r} /\ r \in (registry \cap pointer) \ leased /\ ~Borrowed(r)
    BY <1>2 DEF CallMethod, Available, knownVars
  <2> HIDE DEF f
  <2> QED
    BY <2>1, <2>2, FramesBegin
<1>3. ASSUME NEW r \in Resources, NEW action \in Actions, ResolveResource(r, action)
      PROVE  Leases' /\ Closes'
  <2> DEFINE f == [Top EXCEPT !.leases = @ \cup {r},
                              !.parents = IF action = "borrow" THEN @ ELSE @ \cup {r},
                              !.transfers = IF action = "consume" THEN @ \cup {r} ELSE @]
  <2>0. /\ stack # <<>> /\ ReplaceTop(f) /\ Top.phase = "args" /\ r \in registry /\ r \in pointer
        /\ ~Borrowed(r) /\ (r \in Top.leases \/ r \notin leased)
        /\ (action = "consume" => Transferable(r)) /\ leased' = leased \cup {r}
        /\ UNCHANGED <<made, registry, pointer, freed, parents>>
    BY <1>3 DEF ResolveResource, Available, knownVars
  <2>1. /\ Len(stack) \in Calls /\ Top \in FrameSet /\ Top = stack[Len(stack)]
        /\ Top.transfers \subseteq Top.parents /\ Top.parents \subseteq Top.leases
        /\ Top.leases \subseteq leased /\ \A s \in Top.transfers : ~Retained(s)
    BY <2>0, TopHolds
  <2>2. /\ f \in FrameSet /\ f.kind = Top.kind /\ f.leases = Top.leases \cup {r}
        /\ f.parents = IF action = "borrow" THEN Top.parents ELSE Top.parents \cup {r}
        /\ f.transfers = IF action = "consume" THEN Top.transfers \cup {r} ELSE Top.transfers
    BY <2>1 DEF FrameSet
  <2>3. Top.kind # "close"
    BY <1>0, <2>0, <2>1 DEF Closes
  <2>4. action = "consume" => ~Retained(r)
    <3> SUFFICES ASSUME action = "consume"
                 PROVE  ~Retained(r)
      OBVIOUS
    <3>1. Strong(r) \in Nat /\ Strong(r) + (IF r \in Top.leases THEN 0 ELSE 1) + 1 <= 3
      BY <1>0, <2>0, StrongIs DEF Transferable
    <3>2. CASE r \in Top.leases
      <4>1. Strong(r) <= 2
        BY <3>1, <3>2
      <4> QED
        BY <1>0, <2>0, <2>1, <3>2, <4>1, StrongIs
    <3>3. CASE r \notin Top.leases
      <4>1. Strong(r) <= 1
        BY <3>1, <3>3
      <4> QED
        BY <1>0, <2>0, <4>1, StrongIs
    <3> QED
      BY <3>2, <3>3
  <2> HIDE DEF f
  <2>5. f.transfers \subseteq f.parents /\ f.parents \subseteq f.leases
    BY <2>1, <2>2
  <2>6. \A s \in f.transfers : ~Retained(s)
    BY <2>1, <2>2, <2>4
  <2>7. /\ f.leases \ Top.leases \subseteq (registry \cap pointer) \ leased
        /\ \A s \in f.leases \ Top.leases : ~Borrowed(s)
        /\ leased' = leased \cup f.leases /\ Top.leases \subseteq f.leases
    BY <2>0, <2>1, <2>2
  <2> QED
    BY <2>0, <2>2, <2>3, <2>5, <2>6, <2>7, FramesGoOn
<1>4. ASSUME RunNative
      PROVE  Leases' /\ Closes'
  <2> DEFINE f == [Top EXCEPT !.phase = "native"]
  <2>0. /\ stack # <<>> /\ ReplaceTop(f) /\ Top.phase = "args"
        /\ UNCHANGED <<made, registry, pointer, leased, freed, parents>>
    BY <1>4 DEF RunNative, knownVars
  <2>1. /\ Len(stack) \in Calls /\ Top \in FrameSet /\ Top = stack[Len(stack)]
        /\ Top.transfers \subseteq Top.parents /\ Top.parents \subseteq Top.leases
        /\ Top.leases \subseteq leased /\ \A s \in Top.transfers : ~Retained(s)
    BY <2>0, TopHolds
  <2>2. /\ f \in FrameSet /\ f.kind = Top.kind /\ f.leases = Top.leases
        /\ f.parents = Top.parents /\ f.transfers = Top.transfers
    BY <2>1 DEF FrameSet
  <2>3. Top.kind # "close"
    BY <1>0, <2>0, <2>1 DEF Closes
  <2> HIDE DEF f
  <2> QED
    BY <2>0, <2>1, <2>2, <2>3, FramesGoOn
<1>5. ASSUME Return
      PROVE  Leases' /\ Closes'
  <2>1. /\ stack # <<>> /\ Pop /\ leased' = leased \ Top.leases
        /\ UNCHANGED <<made, registry, pointer, freed, parents>>
    BY <1>5 DEF Return, Unleased, knownVars
  <2>2. \A i \in Calls' : i \in Calls
    BY <1>0, <2>1, Popped
  <2>3. \A i \in Calls' : stack[i].kind = "close" => stack[i].receiver \in registry' \cap pointer'
    BY <1>0, <2>1, <2>2 DEF Closes
  <2>4. \A r \in leased' : r \in registry' \cap pointer'
    BY <1>0, <2>1 DEF Leases
  <2> QED
    BY <1>r, <2>1, <2>3, <2>4, FramesEnd
<1>6. ASSUME Construct
      PROVE  Leases' /\ Closes'
  <2>1. /\ stack # <<>> /\ Pop /\ leased' = leased \ Top.leases /\ (Yields \/ Disposes)
    BY <1>6, ConstructIs
  <2>2. /\ Top.transfers \subseteq Top.leases /\ Top.parents \subseteq Top.leases
        /\ Top.leases \subseteq leased
    BY <2>1, TopHolds
  <2>3. \A r : r \in registry \cap pointer /\ r \notin Top.leases => r \in registry' \cap pointer'
    BY <2>1, <2>2 DEF Yields, Disposes
  <2>4. \A i \in Calls' : i \in Calls
    BY <1>0, <2>1, Popped
  <2>5. \A i \in Calls' : stack[i].kind = "close" => stack[i].receiver \in registry' \cap pointer'
    BY <1>0, <2>2, <2>3, <2>4 DEF Closes
  <2>6. \A r \in leased' : r \in registry' \cap pointer'
    BY <1>0, <2>1, <2>3 DEF Leases
  <2>7. \A r : Retained(r)' => Retained(r) \/ r \in Top.leases
    BY <1>6, <2>2, RetainedNext
  <2> QED
    BY <2>1, <2>5, <2>6, <2>7, FramesEnd
<1>7. ASSUME NEW r \in Resources, CloseResource(r)
      PROVE  Leases' /\ Closes'
  <2> DEFINE f == Frame("close", r, {})
  <2>1. /\ f \in FrameSet /\ f.parents = {} /\ f.transfers = {} /\ f.leases = {}
        /\ f.kind = "close" /\ f.receiver = r /\ f.phase = "native"
    BY <1>0 DEF Frame, FrameSet, Resources
  <2>2. /\ stack' = Append(stack, f)
        /\ UNCHANGED <<made, registry, pointer, leased, freed, parents>>
        /\ r \in (registry \cap pointer) \ leased /\ ~Borrowed(r) /\ Strong(r) + 1 <= 2
    BY <1>7 DEF CloseResource, Closable, knownVars
  <2>3. ~Retained(r)
    <3>1. Strong(r) \in Nat
      BY <1>0, StrongIs
    <3>2. Strong(r) <= 1
      BY <2>2, <3>1
    <3> QED
      BY <1>0, <2>2, <3>2, StrongIs
  <2> HIDE DEF f
  <2> QED
    BY <2>1, <2>2, <2>3, FramesBegin
<1>8. ASSUME CloseReturns
      PROVE  Leases' /\ Closes'
  <2>1. /\ stack # <<>> /\ Pop /\ Top.kind = "close"
        /\ UNCHANGED <<made, leased, freed, parents>>
        /\ \A r : r \in registry \cap pointer /\ r # Top.receiver => r \in registry' \cap pointer'
    BY <1>8 DEF CloseReturns, knownVars
  <2>2. Len(stack) \in Calls /\ Top = stack[Len(stack)]
    BY <2>1, TopHolds
  <2>3. Top.leases = {} /\ Top.receiver \notin leased
    BY <1>0, <2>1, <2>2 DEF Closes
  <2>4. \A i \in Calls' : i \in Calls /\ i # Len(stack)
    BY <1>0, <2>1, Popped
  <2>5. \A i \in Calls' : stack[i].kind = "close" => stack[i].receiver \in registry' \cap pointer'
    BY <1>0, <2>1, <2>2, <2>4 DEF Closes
  <2>6. \A r \in leased' : r \in registry' \cap pointer'
    BY <1>0, <2>1, <2>3 DEF Leases
  <2> QED
    BY <1>r, <2>1, <2>3, <2>5, <2>6, FramesEnd
<1>9. ASSUME NEW r \in Resources, ReleaseResource(r)
      PROVE  Leases' /\ Closes'
  <2>1. /\ r \notin leased /\ ~Borrowed(r) /\ registry' = registry \ {r}
        /\ UNCHANGED <<stack, made, pointer, leased, freed, parents>>
    BY <1>9 DEF ReleaseResource, knownVars
  <2>2. \A s \in leased : s \in registry'
    BY <1>0, <2>1 DEF Leases
  <2>3. \A i \in Calls : stack[i].kind = "close" => stack[i].receiver \in registry'
    BY <1>0, <2>1 DEF Closes, Borrowed
  <2> QED
    BY <1>r, <2>1, <2>2, <2>3, FramesStay
<1>10. ASSUME NEW r \in Resources, DropResource(r)
      PROVE  Leases' /\ Closes'
  <2>1. UNCHANGED <<stack, registry, pointer, leased>>
    BY <1>10 DEF DropResource
  <2>2. \A s : Retained(s)' => Retained(s)
    BY <1>10, RetainedNext
  <2>3. \A s \in leased : s \in registry'
    BY <1>0, <2>1 DEF Leases
  <2>4. \A i \in Calls : stack[i].kind = "close" => stack[i].receiver \in registry'
    BY <1>0, <2>1 DEF Closes
  <2> QED
    BY <2>1, <2>2, <2>3, <2>4, FramesStay
<1>11. CASE UNCHANGED foreignVars
  <2>1. UNCHANGED <<stack, registry, pointer, leased, made, freed, parents>>
    BY <1>11 DEF foreignVars
  <2>2. \A s \in leased : s \in registry'
    BY <1>0, <2>1 DEF Leases
  <2>3. \A i \in Calls : stack[i].kind = "close" => stack[i].receiver \in registry'
    BY <1>0, <2>1 DEF Closes
  <2> QED
    BY <1>r, <2>1, <2>2, <2>3, FramesStay
<1> QED
  BY <1>1, <1>2, <1>3, <1>4, <1>5, <1>6, <1>7, <1>8, <1>9, <1>10, <1>11 DEF ForeignNext
-----------------------------------------------------------------------------
\* No resource exists at the start.
LEMMA ForeignInitInv ==
  ASSUME ForeignAssumption, ForeignInit
  PROVE  ForeignInv
<1>1. stack = <<>> /\ Len(stack) = 0 /\ Calls = {} /\ made = 0 /\ Live = {} /\ 1..made = {}
  BY DEF ForeignInit, Calls, Live
<1>2. Shaped
  BY <1>1 DEF ForeignAssumption, ForeignInit, Shaped, ForeignTypeOK
<1>3. Leases /\ Closes
  BY <1>1 DEF ForeignInit, Leases, Closes
<1>4. Family /\ Disjoint /\ Backed
  BY <1>1 DEF Family, Disjoint, Backed
<1> QED
  BY <1>2, <1>3, <1>4 DEF ForeignInv

\* The invariant holds in every state: the reference counts, the leases and the
\* parents of host/src/foreign.rs stay consistent with the calls in progress.
THEOREM ForeignCorrect ==
  ASSUME ForeignAssumption
  PROVE  ForeignSpec => []ForeignInv
<1>1. ForeignInit => ForeignInv
  BY ForeignInitInv
<1>2. ForeignInv /\ [ForeignNext]_foreignVars => ForeignInv'
  BY ResourceStep, ValuesStep, FramesStep DEF ForeignInv
<1> QED
  BY <1>1, <1>2, PTL DEF ForeignSpec

\* What a call in progress has leased has not been destroyed.
LEMMA LeasedLive ==
  ASSUME ForeignAssumption, ForeignInv
  PROVE  ArgumentsLive
<1>1. DOMAIN stack = Calls /\ registry \subseteq Live
  BY ShapeIs DEF ForeignInv
<1>2. ASSUME NEW i \in Calls, NEW r \in stack[i].leases
      PROVE  r \notin dead
  <2>1. r \in Live /\ r \in pointer
    BY <1>1, <1>2 DEF ForeignInv, Leases
  <2>2. r \in contents[r] /\ (needs[r] \cup contents[r]) \cap dead = {}
    BY <2>1 DEF ForeignInv, Family, Backed, Live
  <2> QED
    BY <2>2
<1> QED
  BY <1>1, <1>2 DEF ArgumentsLive

\* No native value that Foster or C can still use dangles, whatever the
\* callbacks of a C call do to the resources it uses.
THEOREM ForeignNothingDangles ==
  ASSUME ForeignAssumption
  PROVE  ForeignSpec => []NothingDangles
<1>1. ForeignInv => NothingDangles
  BY LeasedLive DEF ForeignInv, NothingDangles
<1> QED
  BY <1>1, ForeignCorrect, PTL

\* A resource is leased once, or not at all.
LEMMA LeasedOnce ==
  ASSUME ForeignAssumption, ForeignInv
  PROVE  OneLease
<1>1. DOMAIN stack = Calls
  BY ShapeIs DEF ForeignInv
<1>2. ASSUME NEW r \in 1..made
      PROVE  Cardinality({i \in DOMAIN stack : r \in stack[i].leases}) =
               IF r \in leased THEN 1 ELSE 0
  <2> DEFINE L == {i \in DOMAIN stack : r \in stack[i].leases}
  <2>1. CASE r \in leased
    <3>1. PICK i \in Calls : r \in stack[i].leases
      BY <2>1 DEF ForeignInv, Leases
    <3>2. \A j \in Calls : j # i => r \notin stack[j].leases
      BY <3>1 DEF ForeignInv, Leases
    <3>3. L = {i}
      BY <1>1, <3>1, <3>2
    <3> HIDE DEF L
    <3>4. Cardinality(L) = 1
      BY <3>3, FS_Singleton
    <3> QED
      BY <2>1, <3>4 DEF L
  <2>2. CASE r \notin leased
    <3>1. L = {}
      BY <1>1, <2>2 DEF ForeignInv, Leases
    <3> HIDE DEF L
    <3>2. Cardinality(L) = 0
      BY <3>1, FS_EmptySet
    <3> QED
      BY <2>2, <3>2 DEF L
  <2> QED
    BY <2>1, <2>2
<1> QED
  BY <1>2 DEF OneLease

\* The commit of a consumed argument finds it as the call left it.
LEMMA CommitFinds ==
  ASSUME ForeignAssumption, ForeignInv
  PROVE  CommitSucceeds
<1>1. DOMAIN stack = Calls
  BY ShapeIs DEF ForeignInv
<1>2. ASSUME NEW i \in Calls, NEW r \in stack[i].transfers
      PROVE  r \in leased /\ r \in registry /\ r \in pointer
  BY <1>2 DEF ForeignInv, Leases
<1>3. \A r \in leased : ~Borrowed(r)
  BY <1>1 DEF ForeignInv, Closes, Borrowed
<1> QED
  BY <1>1, <1>2, <1>3 DEF CommitSucceeds

\* A resource is leased exactly while one call in progress uses it, and the
\* stub's commit of a consumed argument always succeeds.
THEOREM ForeignLeasesExact ==
  ASSUME ForeignAssumption
  PROVE  ForeignSpec => []LeasesExact
<1>1. ForeignInv => LeasesExact
  BY LeasedOnce, CommitFinds DEF ForeignInv, Shaped, LeasesExact
<1> QED
  BY <1>1, ForeignCorrect, PTL
-----------------------------------------------------------------------------
(***************************************************************************)
(* Callbacks: the inductive invariant.  The ledger has what is delivered,  *)
(* what a poll holds and what is queued.                                   *)
(***************************************************************************)
Ledger == delivered \o batch \o events

\* Where the owner is says what runs, what is closed and what is left to deliver;
\* a direct callback has no queue.
Turns ==
  /\ active <=> owner = "handler"
  /\ closed <=> owner \in {"closed", "unlisted", "released"}
  /\ owner = "idle" => batch = <<>>
  /\ ~queued => events = <<>> /\ batch = <<>>

\* Numbers are given out as C sends.
NumberedPackets ==
  /\ Len(accepted) <= sent /\ mark <= Len(accepted)
  /\ \A i \in 1..Len(accepted) : accepted[i].number <= sent
  /\ \A e \in lost : e.number <= sent

CallbackInv == CallbackDelivery /\ Turns /\ NumberedPackets
-----------------------------------------------------------------------------
\* The sums of a queue from its head.
Sums(sum, s) ==
  /\ DOMAIN sum = 0..Len(s) /\ sum[0] = 0
  /\ \A i \in 1..Len(s) : sum[i] = sum[i - 1] + s[i].length

SumStep(f, s, i) == IF i = 0 THEN 0 ELSE f[i - 1] + s[i].length
Sum(f, s, n) == f = [i \in 0..n |-> SumStep(f, s, i)]

\* The recursion of Total is well defined.
LEMMA SumExists ==
  ASSUME NEW s, NEW n \in Nat
  PROVE  \E f : Sum(f, s, n)
<1> DEFINE Missing == {m \in Nat : ~\E f : Sum(f, s, m)}
<1> SUFFICES ASSUME Missing # {} PROVE FALSE
  OBVIOUS
<1>1. PICK k \in Missing : \A m \in Missing : k <= m
  BY Least
<1>2. CASE k = 0
  <2> DEFINE g == [i \in 0..0 |-> 0]
  <2>1. Sum(g, s, 0)
    BY DEF Sum, SumStep
  <2> QED
    BY <1>1, <1>2, <2>1
<1>3. CASE k # 0
  <2>1. k \in Nat /\ k - 1 \in Nat /\ ~(k <= k - 1)
    BY <1>3
  <2>2. k - 1 \notin Missing
    BY <1>1, <2>1, Zenon
  <2>3. PICK f : Sum(f, s, k - 1)
    BY <2>1, <2>2
  <2> DEFINE g == [i \in 0..k |-> IF i = k THEN f[k - 1] + s[k].length ELSE f[i]]
  <2>4. ASSUME NEW i \in 0..k PROVE g[i] = SumStep(g, s, i)
    <3>1. CASE i = k
      BY <1>3, <2>1, <3>1 DEF SumStep
    <3>2. CASE i # k
      <4>1. i \in 0..(k - 1)
        BY <2>1, <3>2
      <4>2. f[i] = SumStep(f, s, i)
        BY <2>3, <4>1 DEF Sum
      <4>3. i # 0 => i - 1 \in 0..k /\ i - 1 # k
        BY <2>1, <4>1
      <4> QED
        BY <3>2, <4>2, <4>3 DEF SumStep
    <3> QED
      BY <3>1, <3>2
  <2>5. Sum(g, s, k)
    BY <2>4 DEF Sum
  <2> QED
    BY <1>1, <2>5
<1> QED
  BY <1>2, <1>3

LEMMA TotalUnfolds ==
  ASSUME NEW s, Len(s) \in Nat
  PROVE  \E sum : Sums(sum, s) /\ Total(s) = sum[Len(s)]
<1> DEFINE sum == CHOOSE f : Sum(f, s, Len(s))
<1>1. Total(s) = sum[Len(s)]
  BY Zenon DEF Total, Sum, SumStep
<1>2. Sum(sum, s, Len(s))
  BY SumExists
<1> HIDE DEF sum
<1>3. DOMAIN sum = 0..Len(s) /\ \A i \in 0..Len(s) : sum[i] = SumStep(sum, s, i)
  BY <1>2 DEF Sum
<1>4. sum[0] = 0 /\ \A i \in 1..Len(s) : sum[i] = sum[i - 1] + s[i].length
  BY <1>3 DEF SumStep
<1> QED
  BY <1>1, <1>3, <1>4 DEF Sums

\* Two sums agree as long as the queues do.
LEMMA SumsAgree ==
  ASSUME NEW s, NEW t, Len(s) \in Nat, Len(t) \in Nat, Len(s) <= Len(t),
         \A i \in 1..Len(s) : s[i] = t[i],
         NEW f, NEW g, Sums(f, s), Sums(g, t)
  PROVE  f[Len(s)] = g[Len(s)]
<1> DEFINE Differ == {i \in 0..Len(s) : f[i] # g[i]}
<1>1. CASE Differ = {}
  BY <1>1
<1>2. CASE Differ # {}
  <2>0. Differ \subseteq Nat
    OBVIOUS
  <2>1. PICK k \in Differ : \A m \in Differ : k <= m
    BY <1>2, <2>0, Least
  <2>2. k # 0
    BY <2>1 DEF Sums
  <2>3. k \in 1..Len(s) /\ k \in 1..Len(t) /\ k - 1 \in 0..Len(s) /\ ~(k <= k - 1)
    BY <2>1, <2>2
  <2>4. f[k - 1] = g[k - 1]
    BY <2>1, <2>3
  <2>5. f[k] = f[k - 1] + s[k].length /\ g[k] = g[k - 1] + t[k].length
    BY <2>3 DEF Sums
  <2> QED
    BY <2>1, <2>3, <2>4, <2>5
<1> QED
  BY <1>1, <1>2

LEMMA TotalOfEmpty == Total(<<>>) = 0
<1>1. PICK f : Sums(f, <<>>) /\ Total(<<>>) = f[Len(<<>>)]
  BY TotalUnfolds
<1> QED
  BY <1>1 DEF Sums

LEMMA TotalOfAppend ==
  ASSUME NEW s \in Seq(Packet), NEW p \in Packet
  PROVE  Total(Append(s, p)) = Total(s) + p.length
<1> DEFINE t == Append(s, p)
<1>1. /\ Len(s) \in Nat /\ Len(t) = Len(s) + 1 /\ t[Len(s) + 1] = p
      /\ \A i \in 1..Len(s) : s[i] = t[i]
  OBVIOUS
<1> HIDE DEF t
<1>2. PICK f : Sums(f, s) /\ Total(s) = f[Len(s)]
  BY <1>1, TotalUnfolds
<1>3. PICK g : Sums(g, t) /\ Total(t) = g[Len(t)]
  BY <1>1, TotalUnfolds
<1>4. f[Len(s)] = g[Len(s)]
  BY <1>1, <1>2, <1>3, SumsAgree
<1>5. Len(t) \in 1..Len(t) /\ Len(t) - 1 = Len(s)
  BY <1>1
<1>6. g[Len(t)] = g[Len(s)] + p.length
  BY <1>1, <1>3, <1>5 DEF Sums
<1> QED
  BY <1>2, <1>3, <1>4, <1>6 DEF t
-----------------------------------------------------------------------------
\* A packet with a higher number than all before it keeps the order.
LEMMA AscendingAppend ==
  ASSUME NEW s \in Seq(Packet), NEW p \in Packet, Ascending(s),
         \A i \in 1..Len(s) : s[i].number < p.number
  PROVE  Ascending(Append(s, p)) /\ Range(Append(s, p)) = Range(s) \cup {p}
<1>1. /\ Len(Append(s, p)) = Len(s) + 1 /\ Append(s, p)[Len(s) + 1] = p /\ Len(s) \in Nat
      /\ \A i \in 1..Len(s) : Append(s, p)[i] = s[i]
  OBVIOUS
<1>2. Ascending(Append(s, p))
  BY <1>1 DEF Ascending
<1>3. Range(Append(s, p)) = Range(s) \cup {p}
  <2>1. DOMAIN s = 1..Len(s) /\ DOMAIN Append(s, p) = 1..(Len(s) + 1)
    OBVIOUS
  <2> QED
    BY <1>1, <2>1 DEF Range
<1> QED
  BY <1>2, <1>3

\* The part before a queue holds exactly what the queue does not.
LEMMA AscendingPrefix ==
  ASSUME NEW s \in Seq(Packet), NEW t \in Seq(Packet), Ascending(s \o t)
  PROVE  Ascending(s) /\ Range(s) = Range(s \o t) \ Range(t)
<1>1. /\ s \o t \in Seq(Packet) /\ Len(s \o t) = Len(s) + Len(t)
      /\ Len(s) \in Nat /\ Len(t) \in Nat
      /\ \A i \in 1..Len(s) : (s \o t)[i] = s[i]
      /\ \A i \in 1..Len(t) : (s \o t)[Len(s) + i] = t[i]
  OBVIOUS
<1>2. Ascending(s)
  BY <1>1 DEF Ascending
<1>3. Range(s \o t) = Range(s) \cup Range(t)
  BY RangeConcatenation
<1>4. ASSUME NEW i \in 1..Len(s), NEW j \in 1..Len(t) PROVE s[i] # t[j]
  <2>1. i \in 1..Len(s \o t) /\ Len(s) + j \in 1..Len(s \o t) /\ i < Len(s) + j
    BY <1>1
  <2>2. s[i].number < t[j].number
    BY <1>1, <2>1 DEF Ascending
  <2>3. s[i] \in Packet
    OBVIOUS
  <2>4. s[i].number \in Int
    BY <2>3 DEF Packet
  <2> QED
    BY <2>2, <2>4
<1>5. Range(s) \cap Range(t) = {}
  BY <1>4, RangeEquality
<1> QED
  BY <1>2, <1>3, <1>5

\* Queues one after the other.
LEMMA Joined ==
  ASSUME NEW s \in Seq(Packet), NEW t \in Seq(Packet)
  PROVE  s \o t \in Seq(Packet) /\ Range(s \o t) = Range(s) \cup Range(t)
<1>1. s \o t \in Seq(Packet)
  BY ConcatProperties
<1>2. Range(s \o t) = Range(s) \cup Range(t)
  BY RangeConcatenation
<1> QED
  BY <1>1, <1>2

LEMMA JoinedEitherWay ==
  ASSUME NEW s \in Seq(Packet), NEW t \in Seq(Packet)
  PROVE  Range(s \o t) = Range(t \o s)
<1>1. Range(s \o t) = Range(s) \cup Range(t) /\ Range(t \o s) = Range(t) \cup Range(s)
  BY Joined
<1> QED
  BY <1>1

LEMMA JoinedAppend ==
  ASSUME NEW s \in Seq(Packet), NEW t \in Seq(Packet), NEW p \in Packet
  PROVE  s \o Append(t, p) = Append(s \o t, p)
<1>1. <<p>> \in Seq(Packet) /\ s \o t \in Seq(Packet)
  BY ConcatProperties
<1>2. Append(t, p) = t \o <<p>> /\ Append(s \o t, p) = (s \o t) \o <<p>>
  BY <1>1, AppendIsConcat
<1> QED
  BY <1>1, <1>2, ConcatAssociative

\* Delivering moves the border between what is delivered and what is not.
LEMMA MovesOn ==
  ASSUME NEW s \in Seq(Packet), NEW t \in Seq(Packet), t # <<>>
  PROVE  /\ Head(t) \in Packet /\ Tail(t) \in Seq(Packet)
         /\ Append(s, Head(t)) \o Tail(t) = s \o t
<1>1. Head(t) \in Packet /\ Tail(t) \in Seq(Packet) /\ t = <<Head(t)>> \o Tail(t)
  BY HeadTailProperties
<1>2. Append(s, Head(t)) = s \o <<Head(t)>>
  BY <1>1, AppendIsConcat
<1> QED
  BY <1>1, <1>2, ConcatAssociative
-----------------------------------------------------------------------------
\* A new token has no packets.
LEMMA CallbackInitInv ==
  ASSUME CallbackAssumption, CallbackInit
  PROVE  CallbackInv
<1>1. CallbackTypeOK
  <2>1. 0 \in 0..ByteLimit /\ 0 \in 0..MaxEvents
    BY DEF CallbackAssumption
  <2>2. <<>> \in Seq(Packet)
    OBVIOUS
  <2> QED
    BY <2>1, <2>2 DEF CallbackInit, CallbackTypeOK
<1>2. QueueBounded
  BY TotalOfEmpty DEF CallbackAssumption, CallbackInit, QueueBounded
<1>3. ClosedIsFinal /\ SnapshotOnly /\ Turns
  BY DEF CallbackInit, ClosedIsFinal, SnapshotOnly, Turns
<1>4. InOrder /\ NumberedPackets
  <2>1. delivered \o batch \o events = <<>> /\ accepted = <<>> /\ lost = {}
    BY DEF CallbackInit
  <2>2. Ascending(<<>>) /\ Range(<<>>) = {}
    BY DEF Ascending, Range
  <2> QED
    BY <2>1, <2>2 DEF CallbackInit, InOrder, NumberedPackets
<1> QED
  BY <1>1, <1>2, <1>3, <1>4 DEF CallbackInv, CallbackDelivery

\* Types, and what the place of the owner says.
LEMMA CallbackTurnsStep ==
  ASSUME CallbackAssumption, CallbackInv, [CallbackNext]_callbackVars
  PROVE  CallbackTypeOK' /\ Turns' /\ ClosedIsFinal'
<1> USE DEF CallbackInv, CallbackDelivery
<1>1. CASE InvokeDirect
  <2>1. ~queued /\ owner \in {"idle", "handler"} /\ error' \in BOOLEAN
    BY <1>1 DEF InvokeDirect, CallbackTypeOK
  <2>2. \/ owner' = owner /\ active' = active
        \/ ~active /\ owner' = "handler" /\ active' = TRUE
    BY <1>1 DEF InvokeDirect
  <2>3. UNCHANGED <<queued, listed, held, closed, queueVars, place, batch, sent, delivered,
                   lost, mark>>
    BY <1>1 DEF InvokeDirect
  <2>4. CallbackTypeOK'
    BY <2>1, <2>2, <2>3 DEF queueVars, CallbackTypeOK
  <2>5. Turns' /\ ClosedIsFinal'
    BY <2>1, <2>2, <2>3 DEF queueVars, Turns, ClosedIsFinal
  <2> QED
    BY <2>4, <2>5
<1>2. CASE PollQueue
  <2>1. mark' \in 0..MaxEvents
    BY <1>2 DEF PollQueue, CallbackTypeOK, NumberedPackets, CallbackAssumption
  <2>2. bytes' \in 0..ByteLimit /\ events' \in Seq(Packet)
    <3>1. bytes' \in {0, bytes} /\ events' \in {<<>>, events}
      BY <1>2 DEF PollQueue
    <3>2. 0 \in 0..ByteLimit /\ <<>> \in Seq(Packet)
      BY DEF CallbackAssumption
    <3> QED
      BY <3>1, <3>2 DEF CallbackTypeOK
  <2>3. CallbackTypeOK'
    BY <1>2, <2>1, <2>2 DEF PollQueue, CallbackTypeOK
  <2>4. Turns' /\ ClosedIsFinal'
    BY <1>2 DEF PollQueue, Turns, ClosedIsFinal
  <2> QED
    BY <2>3, <2>4
<1>3. CASE Deliver
  <2>1. CASE batch = <<>>
    BY <1>3, <2>1 DEF Deliver, queueVars, CallbackTypeOK, Turns, ClosedIsFinal
  <2>2. CASE batch # <<>>
    <3>1. batch' \in Seq(Packet) /\ delivered' \in Seq(Packet)
      <4>1. batch \in Seq(Packet) /\ delivered \in Seq(Packet)
        BY DEF CallbackTypeOK
      <4>2. Head(batch) \in Packet /\ Tail(batch) \in Seq(Packet)
        BY <2>2, <4>1, MovesOn
      <4>3. batch' = Tail(batch) /\ delivered' = Append(delivered, Head(batch))
        BY <1>3, <2>2 DEF Deliver
      <4> QED
        BY <4>1, <4>2, <4>3, AppendProperties
    <3> QED
      BY <1>3, <2>2, <3>1 DEF Deliver, queueVars, CallbackTypeOK, Turns, ClosedIsFinal
  <2> QED
    BY <2>1, <2>2
<1>4. CASE NestedPoll
  <2>1. Range(events) \subseteq Packet
    BY RangeOfSeq DEF CallbackTypeOK
  <2> QED
    BY <1>4, <2>1 DEF NestedPoll, CallbackTypeOK, Turns, ClosedIsFinal, CallbackAssumption
<1>5. CASE TakeError
  BY <1>5 DEF TakeError, queueVars, CallbackTypeOK, Turns, ClosedIsFinal
<1>6. CASE HandlerEnds
  BY <1>6 DEF HandlerEnds, queueVars, CallbackTypeOK, Turns, ClosedIsFinal
<1>7. CASE Close
  BY <1>7 DEF Close, CallbackTypeOK, Turns, ClosedIsFinal, CallbackAssumption
<1>8. CASE Unlist
  BY <1>8 DEF Unlist, queueVars, CallbackTypeOK, Turns, ClosedIsFinal
<1>9. CASE Forget
  BY <1>9 DEF Forget, queueVars, CallbackTypeOK, Turns, ClosedIsFinal
<1>10. ASSUME NEW t \in CThreads, Lookup(t) \/ Mismatch(t) \/ LookClosed(t) \/ Probe(t) \/ Reject(t)
       PROVE  CallbackTypeOK' /\ Turns' /\ ClosedIsFinal'
  <2>1. /\ place' \in [CThreads -> {"out", "cloned", "open"}] /\ error' \in BOOLEAN
        /\ UNCHANGED <<queued, listed, held, closed, bytes, events, accepted, owner, batch,
                       active, sent, delivered, lost, mark>>
    BY <1>10 DEF Lookup, Mismatch, LookClosed, Probe, Reject, Reaches, queueVars, CallbackTypeOK
  <2> QED
    BY <2>1 DEF CallbackTypeOK, Turns, ClosedIsFinal
<1>11. ASSUME NEW t \in CThreads, CSends(t)
       PROVE  CallbackTypeOK' /\ Turns' /\ ClosedIsFinal'
  <2>1. sent' \in 0..MaxEvents /\ sent + 1 \in 1..MaxEvents
    BY <1>11 DEF CSends, CallbackTypeOK, CallbackAssumption
  <2>2. PICK l \in 0..ByteLimit : Enqueue(t, [number |-> sent + 1, length |-> l])
    BY <1>11 DEF CSends
  <2> DEFINE p == [number |-> sent + 1, length |-> l]
  <2>3. p \in Packet /\ p.length = l
    BY <2>1 DEF Packet
  <2> HIDE DEF p
  <2>4. Enqueue(t, p)
    BY <2>2 DEF p
  <2>5. /\ bytes' \in 0..ByteLimit /\ events' \in Seq(Packet) /\ accepted' \in Seq(Packet)
        /\ error' \in BOOLEAN
    <3>1. CASE ~closed /\ ~Overfull(p) /\ bytes' = bytes + p.length
               /\ events' = Append(events, p) /\ accepted' = Append(accepted, p)
               /\ UNCHANGED error
      <4>1. p.length <= ByteLimit - bytes
        BY <2>3, <3>1 DEF Overfull, CallbackTypeOK, CallbackAssumption
      <4>2. bytes' \in 0..ByteLimit
        BY <2>3, <3>1, <4>1 DEF CallbackTypeOK, CallbackAssumption
      <4> QED
        BY <2>3, <3>1, <4>2, AppendProperties DEF CallbackTypeOK
    <3>2. CASE UNCHANGED queueVars /\ error' \in {error, TRUE}
      BY <3>2 DEF queueVars, CallbackTypeOK
    <3> QED
      BY <2>4, <3>1, <3>2 DEF Enqueue, Overfull
  <2>6. /\ place' \in [CThreads -> {"out", "cloned", "open"}] /\ queued
        /\ closed => events' = events
        /\ UNCHANGED <<queued, listed, held, closed, owner, batch, active, delivered, lost, mark>>
    BY <2>4 DEF Enqueue, Reaches, queueVars, CallbackTypeOK
  <2> QED
    BY <2>1, <2>5, <2>6 DEF CallbackTypeOK, Turns, ClosedIsFinal
<1>12. CASE UNCHANGED callbackVars
  BY <1>12 DEF callbackVars, CallbackTypeOK, Turns, ClosedIsFinal
<1> QED
  BY <1>1, <1>2, <1>3, <1>4, <1>5, <1>6, <1>7, <1>8, <1>9, <1>10, <1>11, <1>12
  DEF CallbackNext, OwnerSteps, Rest

\* The steps that move no packet.
Quiet ==
  /\ UNCHANGED <<queued, closed, bytes, events, accepted, batch, delivered, lost, mark>>
  /\ sent' \in {sent, sent + 1}
  /\ queued /\ owner' \in {"poll", "handler"} => owner \in {"poll", "handler"}

\* C adds a packet.
Enqueued(p) ==
  /\ ~closed /\ ~Overfull(p) /\ p \in Packet /\ p.number = sent + 1 /\ sent' = sent + 1
  /\ bytes' = bytes + p.length
  /\ events' = Append(events, p) /\ accepted' = Append(accepted, p)
  /\ UNCHANGED <<queued, closed, owner, batch, delivered, lost, mark>>

LEMMA CallbackSteps ==
  ASSUME CallbackAssumption, CallbackInv, [CallbackNext]_callbackVars
  PROVE  \/ Quiet \/ (\E p \in Packet : Enqueued(p))
         \/ (PollQueue /\ ~error) \/ (Deliver /\ batch # <<>>) \/ NestedPoll \/ Close
<1> USE DEF CallbackInv, CallbackDelivery
<1>1. CASE InvokeDirect
  BY <1>1 DEF InvokeDirect, queueVars, Quiet
<1>2. CASE PollQueue /\ error
  BY <1>2 DEF PollQueue, Quiet
<1>3. CASE Deliver /\ batch = <<>>
  BY <1>3 DEF Deliver, queueVars, Quiet
<1>4. CASE TakeError \/ HandlerEnds \/ Unlist \/ Forget
  BY <1>4 DEF TakeError, HandlerEnds, Unlist, Forget, queueVars, Quiet
<1>5. ASSUME NEW t \in CThreads, Lookup(t) \/ Mismatch(t) \/ LookClosed(t) \/ Probe(t) \/ Reject(t)
      PROVE  Quiet
  BY <1>5 DEF Lookup, Mismatch, LookClosed, Probe, Reject, queueVars, Quiet
<1>6. ASSUME NEW t \in CThreads, CSends(t)
      PROVE  Quiet \/ \E p \in Packet : Enqueued(p)
  <2>1. sent' = sent + 1 /\ sent + 1 \in 1..MaxEvents
    BY <1>6 DEF CSends, CallbackTypeOK, CallbackAssumption
  <2>2. PICK l \in 0..ByteLimit : Enqueue(t, [number |-> sent + 1, length |-> l])
    BY <1>6 DEF CSends
  <2> DEFINE p == [number |-> sent + 1, length |-> l]
  <2>3. p \in Packet /\ p.number = sent + 1
    BY <2>1 DEF Packet
  <2> HIDE DEF p
  <2>4. Enqueue(t, p)
    BY <2>2 DEF p
  <2>5. CASE closed \/ Overfull(p)
    BY <2>1, <2>4, <2>5 DEF Enqueue, queueVars, Quiet
  <2>6. CASE ~closed /\ ~Overfull(p)
    BY <2>1, <2>3, <2>4, <2>6 DEF Enqueue, Enqueued
  <2> QED
    BY <2>5, <2>6
<1>7. CASE UNCHANGED callbackVars
  BY <1>7 DEF callbackVars, Quiet
<1> QED
  BY <1>1, <1>2, <1>3, <1>4, <1>5, <1>6, <1>7 DEF CallbackNext, OwnerSteps, Rest

\* The limits.
LEMMA CallbackBoundStep ==
  ASSUME CallbackAssumption, CallbackInv, [CallbackNext]_callbackVars
  PROVE  QueueBounded'
<1> USE DEF CallbackInv, CallbackDelivery
<1>1. CASE Quiet \/ (Deliver /\ batch # <<>>)
  BY <1>1 DEF Quiet, Deliver, queueVars, QueueBounded
<1>2. ASSUME NEW p \in Packet, Enqueued(p)
      PROVE  QueueBounded'
  <2>1. Total(events') = Total(events) + p.length
    BY <1>2, TotalOfAppend DEF Enqueued, CallbackTypeOK
  <2>2. Len(events') = Len(events) + 1 /\ Len(events) \in Nat
    BY <1>2, AppendProperties, LenProperties DEF Enqueued, CallbackTypeOK
  <2>3. bytes \in Nat /\ ByteLimit \in Nat /\ Capacity \in Nat /\ bytes' = bytes + p.length
    BY <1>2 DEF Enqueued, CallbackTypeOK, CallbackAssumption
  <2>4. p.length \in Nat
    BY <2>3 DEF Packet
  <2>5. Len(events) < Capacity /\ p.length <= ByteLimit - bytes /\ p.length \in Nat
    <3>1. ~(Len(events) >= Capacity) /\ ~(p.length > ByteLimit - bytes)
      BY <1>2 DEF Enqueued, Overfull
    <3> QED
      BY <2>2, <2>3, <2>4, <3>1
  <2> QED
    BY <2>1, <2>2, <2>3, <2>5 DEF QueueBounded
<1>3. CASE (PollQueue /\ ~error) \/ NestedPoll \/ Close
  <2>1. events' = <<>> /\ bytes' = 0
    BY <1>3 DEF PollQueue, NestedPoll, Close
  <2> QED
    BY <2>1, TotalOfEmpty DEF QueueBounded, CallbackAssumption
<1> QED
  BY <1>1, <1>2, <1>3, CallbackSteps

\* The ledger is what was accepted and not lost, while the callback is open.
LEMMA LedgerIs ==
  ASSUME CallbackInv
  PROVE  /\ delivered \in Seq(Packet) /\ batch \in Seq(Packet) /\ events \in Seq(Packet)
         /\ accepted \in Seq(Packet) /\ delivered \o batch \in Seq(Packet)
         /\ Ledger \in Seq(Packet) /\ Range(Ledger) = Range(delivered \o batch) \cup Range(events)
         /\ ~closed => /\ Ascending(accepted) /\ Ascending(Ledger)
                       /\ Range(Ledger) = Range(accepted) \ lost
<1>1. /\ delivered \in Seq(Packet) /\ batch \in Seq(Packet) /\ events \in Seq(Packet)
      /\ accepted \in Seq(Packet)
  BY DEF CallbackInv, CallbackDelivery, CallbackTypeOK
<1>2. delivered \o batch \in Seq(Packet)
  BY <1>1, Joined
<1>3. Ledger \in Seq(Packet) /\ Range(Ledger) = Range(delivered \o batch) \cup Range(events)
  BY <1>1, <1>2, Joined DEF Ledger
<1> QED
  BY <1>1, <1>2, <1>3 DEF CallbackInv, CallbackDelivery, InOrder, Ledger

\* A packet that C adds is the last of all.
LEMMA EnqueuedOrder ==
  ASSUME CallbackAssumption, CallbackInv, NEW p \in Packet, Enqueued(p)
  PROVE  InOrder' /\ NumberedPackets'
<1>1. sent \in Nat /\ mark \in Nat /\ Len(accepted) \in Nat
  BY LedgerIs, LenProperties DEF CallbackInv, CallbackDelivery, CallbackTypeOK, CallbackAssumption
<1>2. \A e \in Range(accepted) : e.number < p.number
  <2>1. \A i \in 1..Len(accepted) : accepted[i] \in Packet /\ accepted[i].number <= sent
    BY LedgerIs, ElementOfSeq DEF CallbackInv, NumberedPackets
  <2>2. \A e \in Packet : e.number \in Int
    BY DEF Packet
  <2>3. \A i \in 1..Len(accepted) : accepted[i].number < p.number
    BY <1>1, <2>1, <2>2 DEF Enqueued
  <2> QED
    BY <2>3, LedgerIs, RangeEquality
<1>3. p \notin lost
  BY <1>1 DEF CallbackInv, NumberedPackets, Enqueued
<1>4. Ascending(accepted') /\ Range(accepted') = Range(accepted) \cup {p}
  <2>1. \A i \in 1..Len(accepted) : accepted[i].number < p.number
    BY <1>2, LedgerIs, RangeEquality
  <2> QED
    BY <2>1, LedgerIs, AscendingAppend DEF Enqueued
<1>5. Ascending(Append(Ledger, p)) /\ Range(Append(Ledger, p)) = Range(Ledger) \cup {p}
  <2>1. \A i \in 1..Len(Ledger) : Ledger[i] \in Range(accepted)
    BY LedgerIs, RangeEquality DEF Enqueued
  <2>2. \A i \in 1..Len(Ledger) : Ledger[i].number < p.number
    BY <1>2, <2>1
  <2> QED
    BY <2>2, LedgerIs, AscendingAppend DEF Enqueued
<1>6. Ledger' = Append(Ledger, p)
  <2>1. Ledger' = (delivered \o batch) \o Append(events, p)
    BY DEF Ledger, Enqueued
  <2>2. delivered \o batch \in Seq(Packet) /\ events \in Seq(Packet)
    BY LedgerIs
  <2> QED
    BY <2>1, <2>2, JoinedAppend DEF Ledger
<1>7. InOrder'
  <2>1. Range(Ledger') = Range(accepted') \ lost'
    BY <1>3, <1>4, <1>5, <1>6, LedgerIs DEF Enqueued
  <2> QED
    BY <1>4, <1>5, <1>6, <2>1 DEF InOrder, Ledger
<1>8. NumberedPackets'
  <2>1. Len(accepted') = Len(accepted) + 1 /\ accepted'[Len(accepted) + 1] = p
        /\ \A i \in 1..Len(accepted) : accepted'[i] = accepted[i]
    BY LedgerIs, AppendProperties DEF Enqueued
  <2>2. \A i \in 1..Len(accepted) : accepted[i].number \in Int
    <3>1. \A i \in 1..Len(accepted) : accepted[i] \in Packet
      BY LedgerIs, ElementOfSeq
    <3> QED
      BY <3>1 DEF Packet
  <2>3. \A e \in lost : e.number \in Int
    BY DEF CallbackInv, CallbackDelivery, CallbackTypeOK, Packet
  <2> QED
    BY <1>1, <2>1, <2>2, <2>3 DEF CallbackInv, NumberedPackets, Enqueued
<1> QED
  BY <1>7, <1>8

\* Polling inside the handler loses exactly what was queued.
LEMMA NestedPollOrder ==
  ASSUME CallbackAssumption, CallbackInv, NestedPoll
  PROVE  InOrder' /\ NumberedPackets'
<1>1. ~closed
  BY DEF NestedPoll, CallbackInv, Turns
<1>2. Ledger' = delivered \o batch
  BY LedgerIs, ConcatEmptySeq DEF Ledger, NestedPoll
<1>3. Ascending(delivered \o batch) /\ Range(delivered \o batch) = Range(Ledger) \ Range(events)
  BY <1>1, LedgerIs, AscendingPrefix DEF Ledger
<1>4. InOrder'
  <2>1. accepted' = accepted /\ lost' = lost \cup Range(events) /\ closed' = closed
    BY DEF NestedPoll
  <2>2. Range(Ledger') = Range(accepted') \ lost'
    BY <1>1, <1>2, <1>3, <2>1, LedgerIs
  <2> QED
    BY <1>1, <1>2, <1>3, <2>1, <2>2, LedgerIs DEF InOrder, Ledger
<1>5. \A e \in Range(events) : e.number <= sent
  <2>1. \A e \in Range(events) : e \in Range(accepted)
    BY <1>1, LedgerIs
  <2> QED
    BY <2>1, LedgerIs, RangeEquality DEF CallbackInv, NumberedPackets
<1> QED
  BY <1>4, <1>5 DEF NestedPoll, CallbackInv, NumberedPackets

\* The order.
LEMMA CallbackOrderStep ==
  ASSUME CallbackAssumption, CallbackInv, [CallbackNext]_callbackVars
  PROVE  InOrder' /\ NumberedPackets'
<1>0. sent \in Nat /\ Len(accepted) \in Nat
  BY LedgerIs, LenProperties DEF CallbackInv, CallbackDelivery, CallbackTypeOK, CallbackAssumption
<1>1. CASE Quiet
  <2>1. InOrder'
    BY <1>1 DEF Quiet, InOrder, CallbackInv, CallbackDelivery
  <2>2. \A i \in 1..Len(accepted) : accepted[i].number \in Int
    <3>1. \A i \in 1..Len(accepted) : accepted[i] \in Packet
      BY LedgerIs, ElementOfSeq
    <3> QED
      BY <3>1 DEF Packet
  <2>3. \A e \in lost : e.number \in Int
    BY DEF CallbackInv, CallbackDelivery, CallbackTypeOK, Packet
  <2>4. NumberedPackets'
    BY <1>0, <1>1, <2>2, <2>3 DEF Quiet, NumberedPackets, CallbackInv
  <2> QED
    BY <2>1, <2>4
<1>2. CASE PollQueue /\ ~error
  <2>1. batch = <<>> /\ batch' = events /\ events' = <<>>
    BY <1>2 DEF PollQueue, CallbackInv, Turns
  <2>2. delivered' \o batch' \o events' = Ledger
    BY <1>2, <2>1, LedgerIs, ConcatEmptySeq DEF Ledger, PollQueue
  <2> QED
    BY <1>0, <1>2, <2>2, LedgerIs DEF PollQueue, InOrder, NumberedPackets, CallbackInv
<1>3. CASE Deliver /\ batch # <<>>
  <2>1. /\ delivered' = Append(delivered, Head(batch)) /\ batch' = Tail(batch)
        /\ UNCHANGED <<closed, events, accepted, lost, sent, mark>>
    BY <1>3 DEF Deliver, queueVars
  <2>2. delivered' \o batch' \o events' = Ledger
    BY <1>3, <2>1, LedgerIs, MovesOn DEF Ledger
  <2> QED
    BY <2>1, <2>2, LedgerIs DEF InOrder, NumberedPackets, CallbackInv
<1>4. CASE Close
  BY <1>4 DEF Close, InOrder, NumberedPackets, CallbackInv
<1> QED
  BY <1>1, <1>2, <1>3, <1>4, CallbackSteps, EnqueuedOrder, NestedPollOrder

\* What poll delivers was accepted before it began.
LEMMA CallbackSnapshotStep ==
  ASSUME CallbackAssumption, CallbackInv, [CallbackNext]_callbackVars
  PROVE  SnapshotOnly'
<1> USE DEF CallbackInv, CallbackDelivery
<1>1. CASE Quiet \/ NestedPoll \/ Close
  BY <1>1 DEF Quiet, NestedPoll, Close, SnapshotOnly
<1>2. ASSUME NEW p \in Packet, Enqueued(p)
      PROVE  SnapshotOnly'
  <2>1. mark \in Nat /\ Len(accepted) \in Nat /\ mark <= Len(accepted)
    BY LedgerIs, LenProperties DEF CallbackTypeOK, CallbackAssumption, NumberedPackets
  <2>2. SubSeq(accepted', 1, mark) = SubSeq(accepted, 1, mark)
    BY <1>2, <2>1, LedgerIs DEF Enqueued
  <2> QED
    BY <1>2, <2>2 DEF Enqueued, SnapshotOnly
<1>3. CASE PollQueue /\ ~error
  <2>1. batch = <<>> /\ batch' = events /\ delivered' = delivered /\ ~closed
        /\ accepted' = accepted /\ mark' = Len(accepted)
    BY <1>3 DEF PollQueue, Turns
  <2>2. SubSeq(accepted', 1, mark') = accepted
    BY <2>1, LedgerIs, SubSeqFull
  <2>3. Range(delivered \o batch) = Range(delivered)
    BY <2>1, LedgerIs, ConcatEmptySeq
  <2>4. Range(batch' \o delivered') = Range(events) \cup Range(delivered)
    BY <2>1, LedgerIs, RangeConcatenation
  <2> QED
    BY <2>1, <2>2, <2>3, <2>4, LedgerIs DEF SnapshotOnly
<1>4. CASE Deliver /\ batch # <<>>
  <2>1. /\ delivered' = Append(delivered, Head(batch)) /\ batch' = Tail(batch)
        /\ UNCHANGED <<queued, accepted, mark>> /\ owner = "poll"
    BY <1>4 DEF Deliver, queueVars
  <2>2. delivered' \o batch' = delivered \o batch
        /\ delivered' \in Seq(Packet) /\ batch' \in Seq(Packet)
    BY <1>4, <2>1, LedgerIs, MovesOn, AppendProperties
  <2>3. Range(batch' \o delivered') = Range(batch \o delivered)
    <3>1. Range(batch' \o delivered') = Range(delivered' \o batch')
      BY <2>2, JoinedEitherWay
    <3>2. Range(batch \o delivered) = Range(delivered \o batch)
      BY LedgerIs, JoinedEitherWay
    <3> QED
      BY <2>2, <3>1, <3>2
  <2> QED
    BY <2>1, <2>3 DEF SnapshotOnly
<1> QED
  BY <1>1, <1>2, <1>3, <1>4, CallbackSteps

(***************************************************************************)
(* The invariant holds for any C threads and any limits.                   *)
(***************************************************************************)
THEOREM CallbackCorrect == CallbackAssumption => (CallbackSpec => []CallbackInv)
<1> SUFFICES ASSUME CallbackAssumption PROVE CallbackSpec => []CallbackInv
  OBVIOUS
<1>1. CallbackInit => CallbackInv
  BY CallbackInitInv
<1>2. CallbackInv /\ [CallbackNext]_callbackVars => CallbackInv'
  BY CallbackTurnsStep, CallbackBoundStep, CallbackOrderStep, CallbackSnapshotStep
  DEF CallbackInv, CallbackDelivery
<1> QED
  BY <1>1, <1>2, PTL DEF CallbackSpec

(***************************************************************************)
(* The events of a callback stay inside its limits and are delivered once  *)
(* and in order, none after it is closed, and a poll ends with those that  *)
(* were queued when it began (host/src/callbacks.rs).                      *)
(***************************************************************************)
THEOREM CallbackDelivered == CallbackAssumption => (CallbackSpec => []CallbackDelivery)
<1>1. CallbackInv => CallbackDelivery
  BY DEF CallbackInv
<1> QED
  BY <1>1, CallbackCorrect, PTL
=============================================================================
