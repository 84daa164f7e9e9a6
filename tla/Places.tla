------------------------------- MODULE Places -------------------------------
(***************************************************************************)
(* Places of the virtual machine: a slot that owns a value, the handles    *)
(* (PlaceHandle) that name it or a part of it, and the generations by      *)
(* which an access through a handle finds out that a container it indexes  *)
(* was reshaped meanwhile.  A value is its shape, the set of paths to its  *)
(* parts: a step of a path is a field of a record or an index of a list.   *)
(***************************************************************************)
EXTENDS Naturals, Sequences, SequencesExt, FiniteSets

CONSTANTS Handles,      \* registers that hold a reference
          Fields,       \* path steps that name a field of a record
          RecordsAt,    \* how deep the value has records; elsewhere lists
          Width,        \* elements a list may have
          Depth,        \* steps of the longest path
          MaxGeneration

PlacesAssumption ==
  /\ {Width, Depth, MaxGeneration} \subseteq Nat \ {0}
  /\ RecordsAt \subseteq 0..Depth - 1 /\ Fields \subseteq Nat \ (0..Width - 1)

VARIABLES shape,       \* the paths of the value in the slot
          alive,       \* the slot has an owner
          generation,  \* Slot::generation
          projected,   \* Slot::projected_generations
          handle,      \* the projections of each handle there is
          stale        \* handles a later mutation took a container from

placesVars == <<shape, alive, generation, projected, handle, stale>>

Indexes == 0..Width - 1
Steps == Fields \cup Indexes
Paths == UNION {[1..n -> Steps] : n \in 0..Depth}
IsRecord(p) == Len(p) \in RecordsAt
Children(p) == {q \in shape : Len(q) = Len(p) + 1 /\ IsPrefix(p, q)}

(* projection_path *)
PathOf(projections) == [i \in DOMAIN projections |-> projections[i].step]
Known(p) == IF p \in DOMAIN projected THEN projected[p] ELSE 0

----------------------------------------------------------------------------
(* What a careless edit would make of the definitions below.               *)
PathIgnored(projection) == generation = projection.root

----------------------------------------------------------------------------
(* starts_with in invalidate_projected *)
Under(candidate, p) == IsPrefix(p, candidate)

InvalidateProjected(p) ==
  projected' = [q \in DOMAIN projected \cup {p} |->
                  IF q \notin DOMAIN projected THEN 1
                  ELSE IF Under(q, p) THEN projected[q] + 1 ELSE projected[q]]

(* ensure_generation *)
EnsureGeneration(projection) ==
  generation = projection.root /\ Known(projection.path) = projection.generation

(* an access through a handle: origin, project_value, update_projected *)
Reaches(projections) ==
  /\ alive
  /\ \A i \in DOMAIN projections :
       /\ projections[i].kind = "index" => EnsureGeneration(projections[i])
       /\ SubSeq(PathOf(projections), 1, i) \in shape

(* the place a register stands for: the whole slot, or what its handle names *)
Bases == {<<>>} \cup Range(handle)

Bind(h, projections) ==
  handle' = [g \in DOMAIN handle \cup {h} |-> IF g = h THEN projections ELSE handle[g]]

----------------------------------------------------------------------------
(* MakeReference: PlaceHandle::indexed *)
MakeReference(h, base, i) ==
  LET path == PathOf(base) IN
  /\ Reaches(base) /\ ~IsRecord(path) /\ Append(path, i) \in shape
  /\ Bind(h, Append(base, [kind |-> "index", step |-> i, root |-> generation,
                           path |-> path, generation |-> Known(path)]))
  /\ projected' = [q \in DOMAIN projected \cup {path} |-> Known(q)]
  /\ stale' = stale \ {h}
  /\ UNCHANGED <<shape, alive, generation>>

(* MakeFieldReference: PlaceHandle::field *)
MakeFieldReference(h, base, f) ==
  /\ Reaches(base) /\ IsRecord(PathOf(base)) /\ Append(PathOf(base), f) \in shape
  /\ Bind(h, Append(base, [kind |-> "field", step |-> f, root |-> 0,
                           path |-> <<>>, generation |-> 0]))
  /\ stale' = stale \ {h}
  /\ UNCHANGED <<shape, alive, generation, projected>>

(* MakeWholeReference: Slot::place *)
MakeWholeReference(h, base) ==
  /\ alive
  /\ Bind(h, base)
  /\ stale' = IF \E g \in stale : handle[g] = base THEN stale \cup {h} ELSE stale \ {h}
  /\ UNCHANGED <<shape, alive, generation, projected>>

(* the containers a handle indexes, and those a mutation at p is about *)
Indexed(projections) ==
  {SubSeq(PathOf(projections), 1, i - 1) :
     i \in {j \in DOMAIN projections : projections[j].kind = "index"}}
Taken(p) ==
  {h \in DOMAIN handle : \E q \in Indexed(handle[h]) : IsPrefix(p, q)}

(* a fresh value for the place p whose lists, down to Depth, have size elements *)
Built(p, size) ==
  {q \in Paths : /\ IsPrefix(p, q)
                 /\ \A i \in Len(p) + 1..Len(q) :
                      q[i] \in IF i - 1 \in RecordsAt THEN Fields ELSE 0..size - 1}

(* List.clear releases the elements with everything in them *)
Cleared(p) == {q \in shape : ~IsStrictPrefix(p, q)}

(* Push, and the builtins that grow, clear or take from a list             *)
Reshape(base, grows) ==
  LET p == PathOf(base) IN
  /\ Reaches(base) /\ ~IsRecord(p)
  /\ IF grows THEN /\ Cardinality(Children(p)) < Width /\ Len(p) < Depth
                   /\ shape' = shape \cup Built(Append(p, Cardinality(Children(p))), 0)
              ELSE /\ Children(p) # {}
                   /\ shape' = Cleared(p)
  /\ IF base = <<>>
     THEN generation' = generation + 1 /\ UNCHANGED projected      \* Slot::reshape
     ELSE InvalidateProjected(p) /\ UNCHANGED generation           \* PlaceHandle::reshape
  /\ stale' = stale \cup Taken(p)
  /\ UNCHANGED <<alive, handle>>

(* an assignment through a reference: PlaceHandle::write *)
Write(base, size) ==
  LET p == PathOf(base) IN
  /\ base # <<>> /\ Reaches(base)
  /\ shape' = {q \in shape : ~IsPrefix(p, q)} \cup Built(p, size)
  /\ InvalidateProjected(p)
  /\ stale' = stale \cup Taken(p)
  /\ UNCHANGED <<alive, generation, handle>>

(* an assignment to the local itself, or to a part of it (StoreIndex,      *)
(* StoreField): Slot::write keeps every generation                         *)
Assign(p, size) ==
  /\ alive /\ p \in shape /\ Len(p) <= 1
  /\ shape' = {q \in shape : ~IsPrefix(p, q)} \cup Built(p, size)
  /\ UNCHANGED <<alive, generation, projected, handle, stale>>

(* the register that owns the slot is detached: its frame ends *)
Detach ==
  /\ alive /\ alive' = FALSE
  /\ UNCHANGED <<shape, generation, projected, handle, stale>>

----------------------------------------------------------------------------
PlacesInit ==
  /\ shape = Built(<<>>, 0)
  /\ alive = TRUE /\ generation = 0 /\ projected = << >>
  /\ handle = << >> /\ stale = {}

Bounded == generation < MaxGeneration /\ \A q \in DOMAIN projected : projected[q] < MaxGeneration

PlacesNext ==
  \/ \E h \in Handles, base \in Bases :
       \/ \E i \in Indexes : MakeReference(h, base, i)
       \/ \E f \in Fields : MakeFieldReference(h, base, f)
       \/ MakeWholeReference(h, base)
  \/ Bounded /\ \E base \in Bases :
       \/ \E grows \in BOOLEAN : Reshape(base, grows)
       \/ \E size \in 0..Width : Write(base, size)
  \/ \E p \in shape, size \in 0..Width : Assign(p, size)
  \/ Detach

PlacesSpec == PlacesInit /\ [][PlacesNext]_placesVars

----------------------------------------------------------------------------
(* Shape of the state; the value is a tree and lists have no holes. *)
PlacesTypeOK ==
  /\ shape \subseteq Paths
  /\ \A p \in shape : p # <<>> =>
       /\ Front(p) \in shape
       /\ Last(p) \in Indexes => \A i \in 0..Last(p) : Append(Front(p), i) \in shape
  /\ \A q \in DOMAIN projected : q \in Paths /\ projected[q] \in 0..MaxGeneration

(* A mutation through a place takes every handle into the container. *)
StaleRefused == \A h \in stale : ~Reaches(handle[h])

(* "Projected mutations invalidate their own path, not unrelated indexed   *)
(* places": no other mutation makes a handle report an invalidation.       *)
OthersStayValid ==
  \A h \in DOMAIN handle \ stale :
    \A i \in DOMAIN handle[h] :
      handle[h][i].kind = "index" => EnsureGeneration(handle[h][i])

(* A handle that took an index of a container is never used again once     *)
(* that container, or one it lies in, was reshaped or replaced through a   *)
(* place: no access reads or writes an element that merely moved there.    *)
(* Every other handle keeps naming the part of the tree it was made for.   *)
StaleNeverReached == PlacesTypeOK /\ StaleRefused /\ OthersStayValid
=============================================================================
