----------------------------- MODULE VmCleanup -----------------------------
(***************************************************************************)
(* How the virtual machine releases owned values: frames torn down on      *)
(* return and on failure, deinit callbacks that run in a machine of their  *)
(* own while another failure may be pending, and the failure they report   *)
(* through CLEANUP_FAILURE, a variable of the operating-system thread.     *)
(* Tasks that are coroutines (the workers of remote objects) leave their   *)
(* thread while they wait, and go on on whichever thread is free.          *)
(*                                                                         *)
(* What an instruction computes is left out: it binds an owned value,      *)
(* calls, returns, releases a register, waits or fails.  A value is owned  *)
(* by one register or one field; sharing is the subject of OwnedValues.    *)
(***************************************************************************)
EXTENDS Naturals, Sequences, SequencesExt

CONSTANTS Tasks, Coroutines, Workers, Kinds, MaxValues, MaxFrames, MaxFails, MaxExecutions

Off == "off"
CleanupAssumption ==
  /\ Off \notin Workers /\ Coroutines \subseteq Tasks
  /\ Kinds \subseteq {"owned", "partial", "handle"}
  /\ {MaxValues, MaxFrames, MaxFails, MaxExecutions} \subseteq Nat \ {0}

VARIABLES work,      \* what each task is doing, the innermost activity last
          on,        \* the thread a task runs on
          failure,   \* CLEANUP_FAILURE of each thread
          kind,      \* of each value created so far
          fields,    \* the values its fields own
          deinits,   \* how often its deinit has been called
          gone,      \* values released, or handed to another owner
          order,     \* values in the order their deinit began
          torn,      \* the registers of each frame that was torn down
          fails,     \* failures raised by each task
          base,      \* of those, the ones before its present execution
          clean,     \* whether nothing was pending when that execution began
          reported,  \* what its latest execution reported
          begun      \* executions of each task

cleanupVars == <<work, on, failure, kind, fields, deinits, gone, order, torn, fails, base,
                 clean, reported, begun>>
history == <<deinits, order, torn, base, clean, reported, begun>>

NoError == <<>>
Values == 1..Len(kind)
Errors == {<<t, n>> : t \in Tasks, n \in 1..MaxFails}

(* An execution: its frames, each the registers in allocation order, the   *)
(* fields of its receiver when it is a deinit, the value it returns.       *)
Execution(role, frames, owned, original) ==
  [role |-> role, at |-> "loop", frames |-> frames, owned |-> owned,
   original |-> original, result |-> NoError]
Releasing(values) == [role |-> "drop", values |-> values]

Top(t) == Last(work[t])
Doing(t, role) == on[t] # Off /\ work[t] # <<>> /\ Top(t).role = role
Executes(t, at) == on[t] # Off /\ work[t] # <<>> /\ Top(t).role # "drop" /\ Top(t).at = at
Becomes(t, activity) == work' = [work EXCEPT ![t] = Append(Front(@), activity)]
BecomesAndReleases(t, activity, values) ==
  work' = [work EXCEPT ![t] = Front(@) \o <<activity>>
                                \o IF values = <<>> THEN <<>> ELSE <<Releasing(values)>>]
Pending(t) == failure[on[t]]
SetPending(t, error) == failure' = [failure EXCEPT ![on[t]] = error]
Or(a, b) == IF a # NoError THEN a ELSE b
Registers(t) == Last(Top(t).frames)
(* values and everything their fields own *)
Closed(S) == \A u \in S : Range(fields[u]) \subseteq S
Subvalues(values) ==
  {v \in Values : \A S \in SUBSET Values : Range(values) \subseteq S /\ Closed(S) => v \in S}
(* an incomplete record stays in its local: it is not read as a whole *)
Whole(values) == \A v \in Range(values) : kind[v] # "partial"

----------------------------------------------------------------------------
(* What a careless edit would make of the definitions below.               *)

UnwindTopFrame(t) ==                \* only the failing frame is torn down
  /\ Executes(t, "unwind") /\ Top(t).frames # <<>>
  /\ BecomesAndReleases(t, [Top(t) EXCEPT !.frames = <<>>], Registers(t))
  /\ torn' = torn \cup {Registers(t)}
  /\ UNCHANGED <<on, failure, kind, fields, deinits, gone, order, fails, base, clean,
                 reported, begun>>
LatestFirst(original, error, nested) == Or(nested, Or(error, original))

----------------------------------------------------------------------------
(* the coroutine scheduler: external *)
Free(w) == \A u \in Tasks : on[u] # w

(* main, or a worker that received a message *)
Begin(t, w) ==
  /\ work[t] = <<>> /\ on[t] = Off /\ begun[t] < MaxExecutions /\ Free(w)
  /\ on' = [on EXCEPT ![t] = w]
  /\ begun' = [begun EXCEPT ![t] = @ + 1]
  /\ base' = [base EXCEPT ![t] = fails[t]]
  /\ clean' = [clean EXCEPT ![t] = failure[w] = NoError]
  /\ UNCHANGED <<failure, gone, order, torn, fails, reported>>

(* execute of a main function, or of the method the message names *)
Execute(t, w) ==
  /\ Begin(t, w)
  /\ work' = [work EXCEPT ![t] = <<Execution("run", << <<>> >>, <<>>, NoError)>>]
  /\ UNCHANGED <<kind, fields, deinits>>

(* a terminated worker drops the message, its arguments included *)
Discard(t, w) ==
  /\ t \in Coroutines /\ Len(kind) < MaxValues
  /\ Begin(t, w)
  /\ work' = [work EXCEPT ![t] = <<Releasing(<<Len(kind) + 1>>)>>]
  /\ kind' = Append(kind, "owned")
  /\ fields' = Append(fields, <<>>)
  /\ deinits' = Append(deinits, 0)

Resume(t, w) ==
  /\ on[t] = Off /\ work[t] # <<>> /\ Free(w)
  /\ on' = [on EXCEPT ![t] = w]
  /\ UNCHANGED <<work, failure, kind, fields, gone, fails, history>>

Leave(t) ==
  /\ on[t] # Off /\ work[t] = <<>>
  /\ on' = [on EXCEPT ![t] = Off]
  /\ UNCHANGED <<work, failure, kind, fields, gone, fails, history>>

----------------------------------------------------------------------------
(* execute_frames: the pending failure is looked at before an instruction *)
Reported(t) ==
  /\ Executes(t, "loop") /\ Pending(t) # NoError
  /\ Becomes(t, [Top(t) EXCEPT !.at = "unwind", !.result = Pending(t)])
  /\ SetPending(t, NoError)
  /\ UNCHANGED <<on, kind, fields, gone, fails, history>>

Instruction(t) == Executes(t, "loop") /\ Pending(t) = NoError

(* MakeRecord, MakeVariant or SpawnRemote: the fields are moved from registers *)
Make(t, k, i) ==
  LET registers == Registers(t) IN
  /\ Instruction(t) /\ Len(kind) < MaxValues
  /\ i \in 1..Len(registers) + 1 /\ (k = "handle" => i = Len(registers) + 1)
  /\ kind' = Append(kind, k)
  /\ Whole(SubSeq(registers, i, Len(registers)))
  /\ fields' = Append(fields, SubSeq(registers, i, Len(registers)))
  /\ deinits' = Append(deinits, 0)
  /\ Becomes(t, [Top(t) EXCEPT !.frames =
                   Append(Front(@), Append(SubSeq(registers, 1, i - 1), Len(kind) + 1))])
  /\ UNCHANGED <<on, failure, gone, order, torn, fails, base, clean, reported, begun>>

(* StoreField fills the last missing field *)
Complete(t) ==
  /\ Instruction(t)
  /\ \E v \in Range(Registers(t)) :
       kind[v] = "partial" /\ kind' = [kind EXCEPT ![v] = "owned"]
  /\ UNCHANGED <<work, on, failure, fields, gone, fails, history>>

Emptied(registers, i) == RemoveAt(registers, i)

(* Drop, and the old value of a register or a place that is written *)
DropRegister(t, i) ==
  /\ Instruction(t) /\ i \in 1..Len(Registers(t))
  /\ BecomesAndReleases(t, [Top(t) EXCEPT !.frames = Append(Front(@), Emptied(Registers(t), i))],
                        <<Registers(t)[i]>>)
  /\ UNCHANGED <<on, failure, kind, fields, gone, fails, history>>

(* the consumed arguments, here the last registers, become the callee's *)
Call(t, i) ==
  LET registers == Registers(t) IN
  /\ Instruction(t) /\ Len(Top(t).frames) < MaxFrames
  /\ i \in 1..Len(registers) + 1 /\ Whole(SubSeq(registers, i, Len(registers)))
  /\ Becomes(t, [Top(t) EXCEPT !.frames =
                   Front(@) \o <<SubSeq(registers, 1, i - 1), SubSeq(registers, i, Len(registers))>>])
  /\ UNCHANGED <<on, failure, kind, fields, gone, fails, history>>

(* the result, if it is owned, reaches the caller before the frame is torn down *)
Return(t, results) ==
  LET frames    == Top(t).frames
      registers == Last(frames)
      kept      == SubSeq(registers, 1, Len(registers) - Len(results))
      callers   == Front(frames)
      received  == IF callers = <<>> THEN callers
                   ELSE Append(Front(callers), Last(callers) \o results)
  IN
  /\ Instruction(t)
  /\ results \in {<<>>} \cup IF registers = <<>> THEN {} ELSE {<<Last(registers)>>}
  /\ Whole(results)
  /\ Top(t).role = "cleanup" /\ callers = <<>> => results = <<>>
  /\ BecomesAndReleases(t, [Top(t) EXCEPT !.frames = received,
                                          !.owned = IF callers = <<>> THEN @ \o results ELSE @,
                                          !.at = IF callers = <<>> THEN "unwind" ELSE @],
                        kept)
  /\ torn' = torn \cup {kept}
  /\ UNCHANGED <<on, failure, kind, fields, deinits, gone, order, fails, base, clean,
                 reported, begun>>

Fail(t) ==
  /\ Instruction(t) /\ fails[t] < MaxFails
  /\ fails' = [fails EXCEPT ![t] = @ + 1]
  /\ Becomes(t, [Top(t) EXCEPT !.at = "unwind", !.result = <<t, fails[t] + 1>>])
  /\ UNCHANGED <<on, failure, kind, fields, gone, history>>

(* Await: a coroutine sleeps between two looks at the future; a deinit cannot *)
Await(t) ==
  /\ Instruction(t) /\ t \in Coroutines /\ Top(t).role = "run"
  /\ on' = [on EXCEPT ![t] = Off]
  /\ UNCHANGED <<work, failure, kind, fields, gone, fails, history>>

----------------------------------------------------------------------------
(* FrameStack::drop and Frame::drop *)
Unwind(t) ==
  /\ Executes(t, "unwind") /\ Top(t).frames # <<>>
  /\ BecomesAndReleases(t, [Top(t) EXCEPT !.frames = Front(@)], Registers(t))
  /\ torn' = torn \cup {Registers(t)}
  /\ UNCHANGED <<on, failure, kind, fields, deinits, gone, order, fails, base, clean,
                 reported, begun>>

(* the receiver of a failed deinit goes with execute_frames; otherwise the *)
(* result still holds it                                                   *)
Unwound(t) ==
  /\ Executes(t, "unwind") /\ Top(t).frames = <<>>
  /\ IF Top(t).result = NoError
     THEN Becomes(t, [Top(t) EXCEPT !.at = "take"])
     ELSE BecomesAndReleases(t, [Top(t) EXCEPT !.at = "take", !.owned = <<>>], Top(t).owned)
  /\ UNCHANGED <<on, failure, kind, fields, gone, fails, history>>

(* execute_with_leases; what it returned is then released, or sent by a worker *)
Take(t) ==
  LET result == Or(Top(t).result, Pending(t))
      sent   == result = NoError /\ t \in Coroutines /\ Top(t).role = "run"
  IN
  /\ Executes(t, "take")
  /\ SetPending(t, NoError)
  /\ BecomesAndReleases(t, [Top(t) EXCEPT !.at = "end", !.result = result, !.owned = <<>>],
                        IF sent THEN <<>> ELSE Top(t).owned)
  /\ gone' = gone \cup IF sent THEN Subvalues(Top(t).owned) ELSE {}
  /\ UNCHANGED <<on, kind, fields, fails, history>>

Precedence(original, error, nested) == Or(original, Or(error, nested))

(* the end of Cleanup::run; of an execution, and of release_value on its result *)
End(t) ==
  /\ Executes(t, "end")
  /\ work' = [work EXCEPT ![t] = Front(@)]
  /\ \/ /\ Top(t).role = "cleanup"
        /\ SetPending(t, Precedence(Top(t).original, Top(t).result, Pending(t)))
        /\ UNCHANGED reported
     \/ /\ Top(t).role = "run" /\ t \notin Coroutines /\ Top(t).result = NoError
        /\ reported' = [reported EXCEPT ![t] = Pending(t)]
        /\ SetPending(t, NoError)
     \/ /\ Top(t).role = "run" /\ (t \in Coroutines \/ Top(t).result # NoError)
        /\ reported' = [reported EXCEPT ![t] = Top(t).result]
        /\ UNCHANGED failure
  /\ UNCHANGED <<on, kind, fields, deinits, gone, order, torn, fails, base, clean, begun>>

----------------------------------------------------------------------------
(* registers and fields are released last to first *)
Split(values) == <<Last(values), Front(values)>>

(* OwnedFields::drop with its cleanup, and the beginning of Cleanup::run *)
Deinit(t) ==
  LET v == Split(Top(t).values)[1] IN
  /\ Doing(t, "drop") /\ Top(t).values # <<>> /\ kind[v] = "owned"
  /\ deinits' = [deinits EXCEPT ![v] = @ + 1]
  /\ gone' = gone \cup {v}
  /\ order' = Append(order, v)
  /\ work' = [work EXCEPT ![t] = Front(@) \o
                <<Releasing(Split(Top(t).values)[2]),
                  Execution("cleanup", << <<>> >>, fields[v], Pending(t))>>]
  /\ SetPending(t, NoError)
  /\ UNCHANGED <<on, kind, fields, torn, fails, base, clean, reported, begun>>

(* OwnedFields::drop of an incomplete record: only its fields *)
Abandon(t) ==
  LET v == Split(Top(t).values)[1] IN
  /\ Doing(t, "drop") /\ Top(t).values # <<>> /\ kind[v] = "partial"
  /\ gone' = gone \cup {v}
  /\ Becomes(t, Releasing(Split(Top(t).values)[2] \o fields[v]))
  /\ UNCHANGED <<on, failure, kind, fields, fails, history>>

(* RemoteOwner::drop waits for an idle worker to end *)
ReleaseHandle(t) ==
  LET v == Split(Top(t).values)[1] IN
  /\ Doing(t, "drop") /\ Top(t).values # <<>> /\ kind[v] = "handle"
  /\ gone' = gone \cup {v}
  /\ Becomes(t, Releasing(Split(Top(t).values)[2]))
  /\ on' = IF t \in Coroutines THEN [on EXCEPT ![t] = Off] ELSE on
  /\ UNCHANGED <<failure, kind, fields, fails, history>>

Released(t) ==
  /\ Doing(t, "drop") /\ Top(t).values = <<>>
  /\ work' = [work EXCEPT ![t] = Front(@)]
  /\ UNCHANGED <<on, failure, kind, fields, gone, fails, history>>

----------------------------------------------------------------------------
CleanupInit ==
  /\ work = [t \in Tasks |-> <<>>] /\ on = [t \in Tasks |-> Off]
  /\ failure = [w \in Workers |-> NoError]
  /\ kind = <<>> /\ fields = <<>> /\ deinits = <<>>
  /\ gone = {} /\ order = <<>> /\ torn = {}
  /\ fails = [t \in Tasks |-> 0] /\ base = [t \in Tasks |-> 0]
  /\ clean = [t \in Tasks |-> TRUE]
  /\ reported = [t \in Tasks |-> NoError] /\ begun = [t \in Tasks |-> 0]

Progress(t) ==
  \/ Reported(t) \/ Unwind(t) \/ Unwound(t) \/ Take(t) \/ End(t)
  \/ Deinit(t) \/ Abandon(t) \/ ReleaseHandle(t) \/ Released(t) \/ Leave(t)

Chosen(t) ==
  \/ \E k \in Kinds, i \in 1..MaxValues : Make(t, k, i)
  \/ Complete(t)
  \/ \E i \in 1..MaxValues : DropRegister(t, i) \/ Call(t, i)
  \/ \E results \in {<<>>} \cup {<<v>> : v \in Values} : Return(t, results)
  \/ Fail(t) \/ Await(t)

CleanupNext ==
  \E t \in Tasks :
    \/ Progress(t) \/ Chosen(t)
    \/ \E w \in Workers : Execute(t, w) \/ Discard(t, w) \/ Resume(t, w)

CleanupSpec == CleanupInit /\ [][CleanupNext]_cleanupVars

----------------------------------------------------------------------------
(* The shape of the state: one task a thread, and no register of a live    *)
(* frame holds a value that was released.                                  *)
CleanupTypeOK ==
  /\ on \in [Tasks -> Workers \cup {Off}]
  /\ failure \in [Workers -> Errors \cup {NoError}]
  /\ reported \in [Tasks -> Errors \cup {NoError}]
  /\ kind \in Seq(Kinds \cup {"owned"}) /\ gone \subseteq Values
  /\ \A t, u \in Tasks : t # u /\ on[t] = on[u] => on[t] = Off
  /\ \A t \in Tasks : \A i \in DOMAIN work[t] :
       work[t][i].role # "drop" =>
         \A f \in Range(work[t][i].frames) : Range(f) \cap gone = {}

(* Every release happens, and happens once, whatever fails on the way: a   *)
(* task between executions owns nothing, a complete value's deinit has run *)
(* exactly once and an incomplete one's never ("Cleanup continues after    *)
(* errors").                                                               *)
EveryDeinitOnce ==
  /\ \A v \in Values : deinits[v] <= 1 /\ (kind[v] # "owned" => deinits[v] = 0)
  /\ (\A t \in Tasks : work[t] = <<>>) => gone = Values

(* An execution that no foreign failure disturbed reports the first        *)
(* failure raised in it, wherever later ones come from (deinits of the     *)
(* unwound frames, their locals, the fields of a receiver), and reports    *)
(* one if there was any.                                                   *)
FirstFailureReported ==
  \A t \in Tasks \ Coroutines :
    work[t] = <<>> /\ begun[t] > 0 /\ clean[t] =>
      reported[t] = IF fails[t] > base[t] THEN <<t, base[t] + 1>> ELSE NoError

(* Values of one frame that its teardown releases are deinitialized in the *)
(* reverse of the order they were bound in, and an owner before what its   *)
(* fields own.                                                             *)
ReverseOrder ==
  \A i, j \in DOMAIN order :
    i < j => /\ ~ order[i] \in Range(fields[order[j]])
             /\ \A s \in torn : \A k, l \in DOMAIN s :
                  s[k] = order[i] /\ s[l] = order[j] => k > l

(* remote-semantics.md R-04: "A remote execution failure must be contained *)
(* within the remote": an execution reports failures of its own.           *)
FailureContained == \A t \in Tasks : reported[t] # NoError => reported[t][1] = t

(* What the program may rely on of deinit. *)
DeinitsComplete == CleanupTypeOK /\ EveryDeinitOnce /\ ReverseOrder
=============================================================================
