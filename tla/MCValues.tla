------------------------------ MODULE MCValues ------------------------------
(***************************************************************************)
(* The values of the VM and their cleanup.  The four mechanisms share no   *)
(* state, so a behaviour exercises one part and leaves the others as they  *)
(* began: interleaving them would show nothing more.                       *)
(*   shared     one shared value, its owner and two viewers                *)
(*   frames     one program: nested values, failing deinits                *)
(*   workers    coroutines that await, resume on other threads and discard *)
(*   contained  two coroutines on one thread                               *)
(*   record     handles into one record of two lists                       *)
(*   lists      handles into a list of records, made again and again       *)
(*   owned      a value with deinit on two threads                         *)
(***************************************************************************)
EXTENDS SharedAccess, Places, OwnedValues, VmCleanup, TLC

CONSTANTS Parts, t1, t2, h1, h2

VARIABLE part

valueVars == <<part, sharedVars, cleanupVars, placesVars, ownedVars>>

ASSUME CleanupAssumption /\ PlacesAssumption /\ OwnedAssumption

\* One main task on one thread that makes three values; or two coroutines that
\* execute once, each with one frame and at most one failure.
CleanupPart ==
  CASE part = "frames" ->
         /\ \A t \in Coroutines : begun'[t] = 0
         /\ on'["main"] # "w2" /\ Range(kind') \subseteq {"owned", "partial"}
    [] part \in {"workers", "contained"} ->
         /\ begun'["main"] = 0 /\ \A t \in Coroutines : begun'[t] <= 1 /\ fails'[t] <= 1
         /\ Len(kind') <= 2 /\ Range(kind') \subseteq {"owned", "handle"}
         /\ \A t \in Coroutines : \A i \in DOMAIN work'[t] :
              work'[t][i].role # "drop" => Len(work'[t][i].frames) <= 1
         /\ part = "contained" => \A t \in Coroutines : on'[t] # "w2"

\* The value is a list of records of two lists.  In one part it has one record,
\* with lists of two elements and of one, each reshaped once; in the other the
\* lists have one element and the handles stay with the first field.
PlacesPart ==
  CASE part = "record" ->
         /\ \A p \in shape' : p # <<>> => p[1] = 0 /\ p # <<0, 9, 1>>
         /\ generation' <= 1 /\ \A q \in DOMAIN projected' : projected'[q] <= 1
    [] part = "lists" ->
         /\ \A p \in shape' : 1 \notin Range(p)
         /\ \A h \in DOMAIN handle' : 9 \notin Range(PathOf(handle'[h]))

ValuesInit ==
  /\ part \in Parts
  /\ SharedInit /\ OwnedInit /\ PlacesInit /\ CleanupInit

ValuesNext ==
  /\ UNCHANGED part
  /\ \/ /\ \/ part = "shared" /\ SharedNext
        /\ UNCHANGED <<cleanupVars, placesVars, ownedVars>>
     \/ /\ part \in {"frames", "workers", "contained"} /\ CleanupNext /\ CleanupPart
        /\ UNCHANGED <<sharedVars, placesVars, ownedVars>>
     \/ /\ part \in {"record", "lists"} /\ PlacesNext /\ PlacesPart
        /\ UNCHANGED <<sharedVars, cleanupVars, ownedVars>>
     \/ /\ part = "owned" /\ OwnedNext
        /\ UNCHANGED <<sharedVars, cleanupVars, placesVars>>

ValuesSpec == ValuesInit /\ [][ValuesNext]_valueVars

Symmetry == Permutations({t1, t2}) \cup Permutations({h1, h2})
=============================================================================
