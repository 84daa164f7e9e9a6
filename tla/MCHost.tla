------------------------------- MODULE MCHost -------------------------------
(***************************************************************************)
(* The tables of the host layer.  They share no state, so a behaviour      *)
(* exercises one part and leaves the others as they began.                 *)
(*   callbacks  one token, two C threads                                   *)
(*   output     one child: its two streams and the limit                   *)
(*   exhausted  an owner for whom no token is left                         *)
(*   table      two owners starting children                               *)
(*   waits      two threads waiting for sockets, closing and opening them  *)
(*   handles    two threads opening and closing until no handle is left    *)
(*   transfer   three threads reading and writing connections              *)
(*   foreign    three resources in calls nested two deep                   *)
(***************************************************************************)
EXTENDS Callbacks, ProcessTable, NetworkHandles, ForeignResources

CONSTANT Parts

VARIABLE part

hostVars == <<part, callbackVars, processVars, networkVars, foreignVars>>

ASSUME /\ CallbackAssumption /\ ProcessAssumption /\ NetworkAssumption
       /\ ForeignAssumption

\* What the owners of child processes do in each part: three owners with their
\* output would be too many states at once.
ProcessPart ==
  CASE part = "output" -> at'["o2"] = "new" /\ at'["o3"] = "new"
    [] part = "table" -> at'["o3"] = "new" /\ written' = written
    [] part = "exhausted" ->
         /\ \A o \in {"o1", "o2"} : at'[o] \in {"new", "reserved", "releasing", "gone"}
         /\ at'["o3"] # "new" => at["o1"] = "gone" /\ at["o2"] = "gone"

\* What the threads do to sockets in each part.
NetworkPart ==
  LET Never(places) == \A t \in Threads : op'[t].at \notin places IN
  CASE part = "waits" -> opened' <= 2 /\ op'["t3"] = Idle /\ Never({"lock"})
    [] part = "handles" -> op'["t3"] = Idle /\ Never(Waiting \cup {"lock", "accept"})
    [] part = "transfer" ->
         /\ opened' <= 2 /\ nextHandle' <= 2 /\ DOMAIN bound' \subseteq {"f1"} /\ Never(Waiting)
         /\ \A t \in Threads : op'[t].at = "insert" => op'[t].kind = "connect"

HostInit ==
  /\ part \in Parts
  /\ CallbackInit /\ (queued => part = "callbacks")
  /\ ProcessInit /\ NetworkInit /\ ForeignInit

HostNext ==
  /\ UNCHANGED part
  /\ \/ /\ part = "callbacks" /\ CallbackNext
        /\ UNCHANGED <<processVars, networkVars, foreignVars>>
     \/ /\ part \in {"output", "table", "exhausted"} /\ ProcessNext /\ ProcessPart
        /\ UNCHANGED <<callbackVars, networkVars, foreignVars>>
     \/ /\ part \in {"waits", "handles", "transfer"} /\ NetworkNext /\ NetworkPart
        /\ UNCHANGED <<callbackVars, processVars, foreignVars>>
     \/ /\ part = "foreign" /\ ForeignNext
        /\ UNCHANGED <<callbackVars, processVars, networkVars>>

HostSpec == HostInit /\ [][HostNext]_hostVars
=============================================================================
