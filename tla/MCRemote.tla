------------------------------ MODULE MCRemote ------------------------------
(***************************************************************************)
(* The remotes of the two backends.  They share no state, so a behaviour   *)
(* exercises one part and leaves the other as it began.                    *)
(*   vm      two callers, three requests                                   *)
(*   native  two callers, two requests                                     *)
(* The callers and the requests of the virtual machine are each used       *)
(* alike, so both are taken as symmetric; those of the native part are     *)
(* apart from them, and its requests, alike too, are made in order.        *)
(* Liveness, for which symmetry would be unsound, is left to MCProgress.   *)
(***************************************************************************)
EXTENDS VmRemote, TLC

CONSTANT Parts

VARIABLES part,
  actorTerminal, actorNext, actorPending, actorId, actorCalled, actorReserved, actorCancels,
  actorCancelWith, actorPublished, actorPc, after, holders, carried, closed, actorIdle,
  actorInbox, actorCurrent, actorCaller, future, word, frees, arguments, actorCancelled

actorVars == <<actorTerminal, actorNext, actorPending, actorId, actorCalled, actorReserved,
               actorCancels, actorCancelWith, actorPublished, actorPc, after, holders, carried,
               closed, actorIdle, actorInbox, actorCurrent, actorCaller, future, word, frees,
               arguments, actorCancelled>>
bothVars == <<part, vmVars, actorVars>>

AnyOrder == Permutations(Callers) \cup Permutations(Requests)

Native == INSTANCE NativeRemote WITH
  Callers <- {"d1", "d2"}, Worker <- "actor", Threads <- {"d1", "d2", "actor"},
  Requests <- {"s1", "s2"},
  terminal <- actorTerminal, next <- actorNext, pending <- actorPending, id <- actorId,
  called <- actorCalled, reserved <- actorReserved, cancels <- actorCancels,
  cancelWith <- actorCancelWith, published <- actorPublished, pc <- actorPc, idle <- actorIdle,
  inbox <- actorInbox, current <- actorCurrent, caller <- actorCaller,
  cancelled <- actorCancelled

RemoteInit ==
  /\ part \in Parts
  /\ VmInit
  /\ Native!NativeInit /\ holders = {"d1"}     \* the callers are alike

RemoteNext ==
  /\ UNCHANGED part
  /\ \/ part = "vm" /\ VmNext /\ UNCHANGED actorVars
     \/ /\ part = "native" /\ Native!NativeNext /\ UNCHANGED vmVars
        /\ "s2" \in actorCalled' => "s1" \in actorCalled'

RemoteSpec == RemoteInit /\ [][RemoteNext]_bothVars
-----------------------------------------------------------------------------
\* The words, the failures and the joins of the native actor: the properties
\* of these names of NativeRemote.
WordsFreedOnce   == Native!WordsFreedOnce
FailurePublishes == Native!FailurePublishes
JoinsAnother     == Native!JoinsAnother
=============================================================================
