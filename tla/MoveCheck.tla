----------------------------- MODULE MoveCheck -----------------------------
(***************************************************************************)
(* The definite-initialization and use-after-move analysis of the          *)
(* ownership pass, compiler/src/ownership/check.rs, together with a run of *)
(* the function it has accepted.                                           *)
(*                                                                         *)
(* The analysis is a work list over the blocks of the ownership CFG.  A    *)
(* state is the set of initialized roots, the projected places moved out   *)
(* of them and the fields whose construction is deferred; spans and        *)
(* messages are left out.  The execution keeps what really is in storage:  *)
(* the places that exist.                                                  *)
(***************************************************************************)
EXTENDS Integers, Sequences, FiniteSets, SequencesExt

CONSTANTS
    Functions,  \* the functions analysed: sequences of [ops, to], ops a
                \* sequence of operations and to a sequence of blocks
    Places,     \* the places named by them, <<root, projection, ...>>
    AnyIndex,   \* the projection of an index that is not a constant
    Deinits,    \* the places whose type has a deinit
    Opaque,     \* the places whose type the move checker does not find: fields declared
                \* with a parameter of their record, payloads, what is named through a
                \* reference without a dereference, roots that are no locals
    PathBound,  \* the length of the paths followed without joins
    Borrowed    \* the roots that are parameters without consume

Root(place) == Head(place)

Operations == {"defer", "read", "write", "move", "init", "destroy"}

\* The deinits the move checker knows of: it finds the type of the place from
\* the declared type of its root, one projection after the other.
Guarded == {owner \in Deinits: \A n \in 1..Len(owner): SubSeq(owner, 1, n) \notin Opaque}

\* The functions are over the places, and what is indexed is an element, never
\* a local.  Only a field of a local is deferred, whose type is then a record,
\* so no place indexes that local.  A deinit belongs to a type, so all elements
\* of a list have one the move checker knows of or none has.
MoveAssumption ==
    /\ PathBound \in Nat
    /\ \A p \in Places: p \in Seq(Range(p)) /\ p # <<>> /\ Root(p) \notin {AnyIndex, "unreached"}
    /\ \A owner \in Guarded \cap Places, p \in Places:
         Len(owner) <= Len(p) /\ (\A i \in DOMAIN owner: p[i] \in {owner[i], AnyIndex})
            => SubSeq(p, 1, Len(owner)) \in Guarded
    /\ \A f \in Functions:
         /\ f # <<>> /\ DOMAIN f = 1..Len(f)
         /\ \A b \in DOMAIN f:
              /\ f[b].ops \in Seq([op: Operations, place: Places])
              /\ f[b].to \in Seq(DOMAIN f)
              /\ \A i \in DOMAIN f[b].ops:
                   LET op == f[b].ops[i] IN
                   op.op = "defer" =>
                      /\ Len(op.place) = 2 /\ op.place[2] # AnyIndex
                      /\ \A p \in Places: Root(p) = Root(op.place) /\ Len(p) > 1 => p[2] # AnyIndex

VARIABLES
    mir,        \* the function
    entries,    \* entries[b]: the state on entry to b, Unreached before
    work,       \* the blocks to process
    verdict,    \* "checking", "accepted" or "rejected"
    at,         \* <<block, operation>> the run performs next
    held,       \* the places that exist
    taken       \* the places moved out and not stored since

checkVars == <<mir, entries, work, verdict>>
runVars == <<at, held, taken>>
moveVars == <<checkVars, runVars>>

Unreached == [initialized |-> {"unreached"}, moved |-> {}, deferred |-> {}]
AtEntry == [initialized |-> {}, moved |-> {}, deferred |-> {}]
----------------------------------------------------------------------------
(* Places *)

\* The parent's projections are a prefix of the child's.
PlaceContains(parent, child) == IsPrefix(parent, child)

\* Two places may denote common storage: no projection at which both go
\* distinguishes them.
PlacesOverlap(left, right) ==
    \A i \in 1..Len(left) \cap 1..Len(right):
        \/ left[i] = right[i]
        \/ i > 1 /\ AnyIndex \in {left[i], right[i]}
----------------------------------------------------------------------------
(* The transfer of one operation; an operation is [op, place]. *)

Deferring(state, op) ==
    {missing \in state.deferred:
        IF op.op = "write"
        THEN PlaceContains(missing, op.place) /\ missing # op.place
        ELSE PlacesOverlap(missing, op.place)}

PlaceIsUsable(state, place) ==
    /\ Root(place) \in state.initialized
    /\ \A moved \in state.moved: ~PlacesOverlap(moved, place)

\* A strict prefix of the place has a type with deinit, and no projection
\* before it ended the walk: past a type that is not found nothing is refused.
MovesOutOfDrop(place) ==
    \E parent \in Guarded: PlaceContains(parent, place) /\ parent # place

Uses == {"read", "write", "move"}

Refused(state, op) ==
    /\ op.op \in Uses
    /\ \/ Deferring(state, op) # {}
       \/ ~PlaceIsUsable(state, op.place)
       \/ op.op = "move" /\ (MovesOutOfDrop(op.place) \/ Root(op.place) \in Borrowed)

Without(places, root) == {p \in places: Root(p) # root}

\* Initialize, Destroy and the move of a whole local forget what was known
\* of the root.
Transfer(state, op) ==
    LET root == Root(op.place)
    IN CASE op.op = "defer" -> [state EXCEPT !.deferred = @ \cup {op.place}]
         [] op.op = "read"  -> state
         [] op.op = "write" -> [state EXCEPT !.deferred =
                                   {missing \in @: ~PlaceContains(op.place, missing)}]
         [] op.op = "move" /\ Len(op.place) = 1 ->
                [state EXCEPT !.initialized = @ \ {root}, !.moved = Without(@, root)]
         [] op.op = "move" /\ Len(op.place) # 1 -> [state EXCEPT !.moved = @ \cup {op.place}]
         [] op.op = "init" ->
                [initialized |-> state.initialized \cup {root},
                 moved |-> Without(state.moved, root),
                 deferred |-> Without(state.deferred, root)]
         [] op.op = "destroy" ->
                [initialized |-> state.initialized \ {root},
                 moved |-> Without(state.moved, root),
                 deferred |-> Without(state.deferred, root)]

\* The states before each operation of a block entered in the given state, and
\* after the last.
Through(state, ops) ==
    LET states[i \in 1..Len(ops) + 1] ==
            IF i = 1 THEN state ELSE Transfer(states[i - 1], ops[i - 1])
    IN states

RefusedIn(state, ops) == \E i \in DOMAIN ops: Refused(Through(state, ops)[i], ops[i])
----------------------------------------------------------------------------
(* The analysis *)

\* The first state to arrive is kept.
JoinFirst(old, new) == IF old = Unreached THEN new ELSE old

\* A block nothing has reached counted as one in which nothing is
\* initialized.
JoinEmpty(old, new) ==
    [initialized |-> old.initialized \cap new.initialized,
     moved |-> old.moved \cup new.moved,
     deferred |-> old.deferred \cup new.deferred]

\* What holds on both paths: initialized by both, moved or deferred by one.
Join(old, new) ==
    IF old = Unreached THEN new
    ELSE [initialized |-> old.initialized \cap new.initialized,
          moved |-> old.moved \cup new.moved,
          deferred |-> old.deferred \cup new.deferred]

\* The successors in order: each is joined and queued if that changed it.
Arrive(known, next, state) ==
    LET joined == Join(known.entries[next], state)
    IN IF joined = known.entries[next] THEN known
       ELSE [entries |-> [known.entries EXCEPT ![next] = joined],
             work |-> Append(known.work, next)]

Propagate(state, successors) ==
    LET known[i \in 0..Len(successors)] ==
            IF i = 0 THEN [entries |-> entries, work |-> Tail(work)]
            ELSE Arrive(known[i - 1], successors[i], state)
    IN known[Len(successors)]

CheckBlock ==
    /\ verdict = "checking" /\ work # <<>>
    /\ LET block == mir[Head(work)]
           state == entries[Head(work)]
       IN IF RefusedIn(state, block.ops)
          THEN verdict' = "rejected" /\ UNCHANGED <<entries, work>>
          ELSE LET next == Propagate(Last(Through(state, block.ops)), block.to)
               IN /\ entries' = next.entries /\ work' = next.work
                  /\ UNCHANGED verdict
    /\ UNCHANGED <<mir, runVars>>

Accept ==
    /\ verdict = "checking" /\ work = <<>>
    /\ verdict' = "accepted"
    /\ UNCHANGED <<mir, entries, work, runVars>>
----------------------------------------------------------------------------
(* The run of an accepted function *)

\* What the operation's place may denote: an index that is not a constant is
\* some element.
Storage == {p \in Places: \A i \in DOMAIN p: p[i] # AnyIndex}
Denotes(place, p) == Len(p) = Len(place) /\ \A i \in DOMAIN p: place[i] \in {p[i], AnyIndex}
Denoted(place) == {p \in Storage: Denotes(place, p)}

Below(place) == {p \in Storage: PlaceContains(place, p)}
Above(place) == {p \in Storage: PlaceContains(p, place) /\ p # place}

\* What the operation does to the place it finds.
Operate(op, place) ==
    LET whole == Below(<<Root(place)>>)
    IN CASE op.op = "init"    -> held' = held \cup whole /\ taken' = taken \ whole
         [] op.op = "destroy" -> held' = held \ whole /\ taken' = taken \ whole
         [] op.op = "defer"   -> held' = held \ Below(place) /\ UNCHANGED taken
         [] op.op = "read"    -> UNCHANGED <<held, taken>>
         [] op.op = "write"   -> held' = held \cup Below(place) /\ taken' = taken \ Below(place)
         [] op.op = "move"    -> held' = held \ Below(place) /\ taken' = taken \cup Below(place)

Execute ==
    /\ verdict = "accepted" /\ at[2] <= Len(mir[at[1]].ops)
    /\ LET op == mir[at[1]].ops[at[2]]
       IN \E place \in Denoted(op.place): Operate(op, place)
    /\ at' = <<at[1], at[2] + 1>>
    /\ UNCHANGED checkVars

Branch ==
    /\ verdict = "accepted" /\ at[2] > Len(mir[at[1]].ops)
    /\ \E next \in Range(mir[at[1]].to): at' = <<next, 1>>
    /\ UNCHANGED <<checkVars, held, taken>>
----------------------------------------------------------------------------
MoveInit ==
    /\ mir \in Functions
    /\ entries = [b \in DOMAIN mir |-> IF b = 1 THEN AtEntry ELSE Unreached]
    /\ work = <<1>> /\ verdict = "checking"
    /\ at = <<1, 1>> /\ held = {} /\ taken = {}

MoveNext == CheckBlock \/ Accept \/ Execute \/ Branch
MoveSpec == MoveInit /\ [][MoveNext]_moveVars /\ WF_moveVars(CheckBlock \/ Accept)
----------------------------------------------------------------------------
(* Properties *)

States == [initialized: SUBSET {Root(p): p \in Places},
           moved: SUBSET Places, deferred: SUBSET Places]

\* Types; a block is queued only once a state has reached it.
MoveTypeOK ==
    /\ entries \in [DOMAIN mir -> States \cup {Unreached}]
    /\ work \in Seq(DOMAIN mir)
    /\ \A i \in DOMAIN work: entries[work[i]] # Unreached
    /\ verdict \in {"checking", "accepted", "rejected"}
    /\ held \subseteq Storage /\ taken \subseteq Storage

\* What a use finds in storage: all of the value it reads or moves, the
\* parents of the place it writes.
Finds(op, place) ==
    CASE op.op \in {"read", "move"} -> Below(place) \cup Above(place) \subseteq held
      [] op.op = "write" -> Above(place) \subseteq held
      [] OTHER -> TRUE

\* Along every path of an accepted function, loops included, a use finds the
\* value complete: nothing is read or moved after it was moved, before it was
\* initialized or while one of its fields is still deferred
\* (Operation::Use in check_function).
NoAbsentUse ==
    verdict = "accepted" /\ at[2] <= Len(mir[at[1]].ops) =>
        LET op == mir[at[1]].ops[at[2]]
        IN \A place \in Denoted(op.place): Finds(op, place)

\* A value that still exists has never lost a part to a move.
Whole(owner) == \A part \in Below(owner): part # owner => part \notin taken

\* A value whose deinit the move checker knows of and which still exists is
\* whole, so deinit sees every field that was initialized (moves_out_of_drop).
DeinitWhole == \A owner \in Guarded \cap held: Whole(owner)

\* What is said of every value with deinit: moving a field out of it is
\* rejected (documentation/semantics.md:438, ownership.md:146), "deinit needs
\* the complete value until ownership ends" (check.rs:133).  The walk returns
\* "no deinit" where it does not find a type (check.rs:276), so a part of a
\* value held in a field of generic type is moved and its deinit still runs.
DeinitSeesWhole == \A owner \in Deinits \cap held: Whole(owner)

\* What acceptance promises.
AcceptedSafe == MoveTypeOK /\ NoAbsentUse /\ DeinitWhole

\* Where a path that enters a block in a state goes on, and in what state.
Onward(f, k) ==
    IF RefusedIn(k[2], f[k[1]].ops) THEN {}
    ELSE {<<next, Last(Through(k[2], f[k[1]].ops))>>: next \in Range(f[k[1]].to)}

\* The states a path, without any join, brings to each block.
PathStates(f) ==
    LET reach[n \in 0..PathBound] ==
            IF n = 0 THEN {<<1, AtEntry>>}
            ELSE LET known == reach[n - 1] IN known \cup UNION {Onward(f, k): k \in known}
    IN reach[PathBound]

\* The joins lose nothing that matters: a function is rejected only if one of
\* its paths, followed alone, performs a use that is refused.
RejectedByPath ==
    verdict = "rejected" => \E k \in PathStates(mir): RefusedIn(k[2], mir[k[1]].ops)

============================================================================
