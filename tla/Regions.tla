------------------------------ MODULE Regions ------------------------------
(***************************************************************************)
(* The loan checker of the ownership pass, compiler/src/ownership/         *)
(* regions.rs, together with a run of the function it has accepted.        *)
(*                                                                         *)
(* Four work lists over the blocks of the ownership CFG follow one another:*)
(* which loans a place may hold (provenance, forward), which loans are     *)
(* still needed (requirements, backward), under which facts they are       *)
(* needed (guarded requirements, backward) and under which facts a point   *)
(* is reached (forward).  A loan that is needed after its origin is        *)
(* invalidated is a conflict, unless the facts exclude it.                 *)
(*                                                                         *)
(* Spans and the use that a message would quote are left out, as are the   *)
(* targets of callable values, the loans inside a parameter's value and    *)
(* suspension.  A fact is <<subject, value>>, a subject                    *)
(* <<"bool", place>>, <<"variant", place, v>> or <<"equal" or "less" or    *)
(* "lessEqual", operand, operand>>, and a condition is a set of facts.     *)
(***************************************************************************)
EXTENDS Integers, Sequences, FiniteSets, SequencesExt, FiniteSetsExt

CONSTANTS
  LoanFunctions,     \* [blocks, loans]; a block is [ops, end]
  IndexOf,           \* dynamic index projection -> the local it reads
  Elements,          \* the constant index projections, in their order
  Scalars,           \* locals of a copied type -> their possible values
  References,        \* parameters of reference type in an exposed group
  MaxAlternatives    \* MAX_PATH_ALTERNATIVES

VARIABLES
  fn,         \* the function
  phase,      \* the analysis in progress, "accepted" or "rejected"
  work,       \* the blocks to process
  points,     \* points[b]: the contents before each operation and after all
  parents,    \* parents[l]: the loans in the place from which l was taken
  needed,     \* needed[b]: the loans required on entry to b
  guarded,    \* guarded[b][l]: the conditions under which l is required
  reached,    \* reached[b]: the conditions under which b is entered
  at,         \* <<block, operation>> the run performs next
  held,       \* the references in storage: [at, to, ok]
  values      \* the values of the scalars

analysisVars == <<fn, phase, work, points, parents, needed, guarded, reached>>
runVars == <<at, held, values>>
regionVars == <<analysisVars, runVars>>

Blocks == DOMAIN fn.blocks
Loans == DOMAIN fn.loans
Ops(b) == fn.blocks[b].ops
To(b) == Range(fn.blocks[b].end.to)
From(b) == {p \in Blocks : b \in To(p)}
----------------------------------------------------------------------------
(* Places *)

PlaceContains(parent, child) == IsPrefix(parent, child)

PlacesOverlap(left, right) ==
  \A i \in 1..Len(left) \cap 1..Len(right) :
    \/ left[i] = right[i]
    \/ i > 1 /\ {left[i], right[i]} \cap DOMAIN IndexOf # {}

IsIndex(projection) == projection \in Range(Elements) \cup DOMAIN IndexOf
----------------------------------------------------------------------------
(* Provenance: contents are pairs <<place, loan>>. *)

ContentsAt(contents, place) ==
  {c[2] : c \in {d \in contents : PlacesOverlap(d[1], place)}}

\* The loans of a value and the contents that evaluating it leaves: moving a
\* place empties it.
Evaluate(value, contents) ==
  LET one(v, left) ==
        CASE v.kind = "empty"    -> {}
          [] v.kind = "reborrow" -> {v.loan}
          [] v.kind \in {"place", "move"} -> ContentsAt(left, v.place)
      after(v, left) ==
        IF v.kind = "move" THEN {c \in left : ~PlaceContains(v.place, c[1])} ELSE left
  IN FoldLeft(LAMBDA acc, v : [loans |-> acc.loans \cup one(v, acc.left), left |-> after(v, acc.left)],
              [loans |-> {}, left |-> contents], value)

Replace(place, loans, contents) ==
  {c \in contents : ~PlaceContains(place, c[1])} \cup {<<place, l>> : l \in loans}

\* A list or record literal is stored field by field into an emptied place.
Store(op, contents) ==
  IF op.fields = <<>>
  THEN LET e == Evaluate(op.value, contents) IN Replace(op.place, e.loans, e.left)
  ELSE FoldLeft(LAMBDA acc, f : LET e == Evaluate(f.value, acc)
                                IN Replace(op.place \o f.path, e.loans, e.left),
                Replace(op.place, {}, contents), op.fields)

Contents(op, contents) ==
  CASE op.op = "store"   -> Store(op, contents)
    [] op.op = "destroy" -> Replace(op.place, {}, contents)
    [] OTHER             -> contents

ThroughBlock(b, contents) ==
  FoldLeft(LAMBDA states, op : Append(states, Contents(op, Last(states))), <<contents>>, Ops(b))

Before(b, i) == points[b][i]

\* Every predecessor that has an exit contributes to the entry.
Provenance ==
  /\ phase = "provenance" /\ work # <<>>
  /\ LET b == Head(work)
         states == ThroughBlock(b, UNION {Last(points[p]) : p \in {q \in From(b) : points[q] # <<>>}})
     IN /\ points' = [points EXCEPT ![b] = states]
        /\ work' = Tail(work) \o
             IF points[b] = <<>> \/ Last(points[b]) # Last(states)
             THEN fn.blocks[b].end.to ELSE <<>>
  /\ UNCHANGED <<fn, phase, parents, needed, guarded, reached, runVars>>

Reborrows(op) ==
  {v \in UNION {Range(w) : w \in {op.value} \cup {f.value : f \in Range(op.fields)}} : v.kind = "reborrow"}

\* The loans in the place a loan is taken from, at the point where it is.
Parents(l) ==
  LET p == fn.loans[l].at
  IN IF points[p[1]] = <<>> THEN {}
     ELSE ContentsAt(Before(p[1], p[2]), fn.loans[l].origin)
----------------------------------------------------------------------------
(* Storage and escape *)

Issued(b, i) == {l \in Loans : fn.loans[l].at = <<b, i>>}

\* The loan of a reference parameter for the caller's place.
ParameterReborrow(l) ==
  LET p == fn.loans[l].at
      op == Ops(p[1])[p[2]]
  IN op.op = "store" /\ op.place = fn.loans[l].origin /\ l \in {v.loan : v \in Reborrows(op)}

\* The loans a value would carry.
Carried(op, contents) ==
  Evaluate(FlattenSeq(<<op.value>> \o [k \in DOMAIN op.fields |-> op.fields[k].value]), contents).loans

SelfBorrow(b, i) ==
  LET op == Ops(b)[i]
  IN /\ op.op = "store"
     /\ \E l \in Carried(op, Before(b, i)) :
          /\ PlacesOverlap(op.place, fn.loans[l].origin)
          /\ ~(Head(op.place) \in References /\ fn.loans[l].origin = op.place
                                             /\ fn.loans[l].at = <<b, i>>)

Ancestors(ls) ==
  LET up[n \in 0..Cardinality(Loans)] ==
        IF n = 0 THEN ls ELSE up[n - 1] \cup UNION {parents[l] : l \in up[n - 1]}
  IN up[Cardinality(Loans)]

\* A returned reference leads, through the loans it was taken from, to a
\* local of this function.
Escapes(b, i) ==
  LET op == Ops(b)[i]
  IN /\ op.op = "return"
     /\ \E l \in Ancestors(Carried(op, Before(b, i))) :
          parents[l] = {} /\ Head(fn.loans[l].origin) \notin References

Misplaced == \E b \in Blocks : points[b] # <<>> /\
  \E i \in DOMAIN Ops(b) : SelfBorrow(b, i) \/ Escapes(b, i)
----------------------------------------------------------------------------
(* Requirements *)

Demand(op, contents) ==
  CASE op.op \in {"read", "move"} -> ContentsAt(contents, op.place)
    [] op.op = "return"           -> Carried(op, contents)
    [] OTHER                      -> {}

Ends(op) == op.op \in {"store", "return"}

NeededBefore(b, i, after) ==
  LET op == Ops(b)[i]
      asked == after \cup Demand(op, Before(b, i))
  IN Ancestors(IF Ends(op) THEN asked \ Issued(b, i) ELSE asked)

\* The states before each operation, the last after all.
NeededThrough(b, exit) ==
  FoldRight(LAMBDA i, states : <<NeededBefore(b, i, Head(states))>> \o states,
            [i \in DOMAIN Ops(b) |-> i], <<exit>>)

NeededAfter(b) == UNION {needed[s] : s \in To(b)}
Predecessors(b) == SetToSeq(From(b))

Requirements ==
  /\ phase = "requirements" /\ work # <<>>
  /\ LET b == Head(work)
         entry == Head(NeededThrough(b, NeededAfter(b)))
     IN IF points[b] = <<>> \/ entry = needed[b]
        THEN work' = Tail(work) /\ UNCHANGED needed
        ELSE /\ needed' = [needed EXCEPT ![b] = entry]
             /\ work' = Tail(work) \o Predecessors(b)
  /\ UNCHANGED <<fn, phase, points, parents, guarded, reached, runVars>>
----------------------------------------------------------------------------
(* Facts *)

Variant(f) == f[1][1] = "variant"
Compares(f) == f[1][1] \in {"equal", "less", "lessEqual"}
SamePlace(f, g) == Variant(f) /\ Variant(g) /\ f[1][2] = g[1][2]
Opposed(f, g) ==
  \/ f[1] = g[1] /\ f[2] # g[2]
  \/ SamePlace(f, g) /\ f[2] /\ g[2] /\ f[1] # g[1]
Trivial(f) == Compares(f) /\ f[1][2] = f[1][3]

\* The condition together with an edge's fact; {} when they contradict.
WithFact(when, f) ==
  IF Trivial(f) THEN (IF f[2] = (f[1][1] # "less") THEN {when} ELSE {})
  ELSE IF \E g \in when : Opposed(f, g) THEN {}
  ELSE IF \E g \in when : SamePlace(f, g) /\ g[2] /\ ~f[2] THEN {when}
  ELSE {when \cup {f}}

Forget(when, places) ==
  {f \in when : \A k \in 2..(IF Compares(f) THEN 3 ELSE 2) : \A p \in places : ~PlacesOverlap(f[1][k], p)}

CompatibleWith(left, right) == \A f \in left, g \in right : ~Opposed(f, g)

\* What all of the conditions say.
Common(conditions) == {f \in UNION conditions : \A when \in conditions : f \in when}
Widen(conditions) == IF Cardinality(conditions) > MaxAlternatives THEN {Common(conditions)} ELSE conditions

\* A condition that says less stands for those that say more.
MergePathConditions(known, incoming) ==
  LET all == known \cup incoming
  IN Widen({when \in all : ~\E other \in all : other # when /\ other \subseteq when})

EdgeFacts(end, next) ==
  CASE end.end = "value" -> {<<<<"bool", end.place>>, end.value>>}
    [] end.end = "test" /\ end.to[1] # end.to[2] -> {<<end.subject, next = end.to[1]>>}
    [] OTHER -> {}

Along(when, end, next) ==
  IF EdgeFacts(end, next) = {} THEN {when}
  ELSE WithFact(when, CHOOSE f \in EdgeFacts(end, next) : TRUE)

Changes == {"move", "write", "init", "reshape", "consume", "store", "destroy", "forget"}

\* The place that is written, and no other name of it.
ChangedPlaceOnly(op, contents) == IF op.op \in Changes THEN {op.place} ELSE {}

\* The place an operation changes and the origins of the loans it may hold.
ChangedPlaces(op, contents) ==
  IF op.op \notin Changes THEN {}
  ELSE {op.place} \cup {fn.loans[l].origin : l \in Ancestors(ContentsAt(contents, op.place))}

\* A call through a value may change every operand.
Apply(op, contents, when) ==
  IF op.op = "forgetAll" THEN {} ELSE Forget(when, ChangedPlaces(op, contents))
----------------------------------------------------------------------------
(* Guarded requirements; [when, use] with use the point of the use *)

WidenUses(uses) ==
  IF Cardinality(uses) > MaxAlternatives
  THEN {[(CHOOSE u \in uses : TRUE) EXCEPT !.when = Common({u.when : u \in uses})]}
  ELSE uses

GuardedBefore(b, i, after) ==
  LET op == Ops(b)[i]
      here == [when |-> {}, use |-> <<b, i>>]
      asked(l) == WidenUses(after[l] \cup IF l \in Demand(op, Before(b, i)) THEN {here} ELSE {})
      own == [l \in Loans |-> IF Ends(op) /\ l \in Issued(b, i) THEN {} ELSE asked(l)]
      all(l) == WidenUses(UNION {own[c] : c \in {d \in Loans : l \in Ancestors({d})}})
  IN [l \in Loans |-> {[u EXCEPT !.when = Apply(op, Before(b, i), @)] : u \in all(l)}]

GuardedThrough(b, exit) ==
  FoldRight(LAMBDA i, states : <<GuardedBefore(b, i, Head(states))>> \o states,
            [i \in DOMAIN Ops(b) |-> i], <<exit>>)

GuardedAfter(b) ==
  LET end == fn.blocks[b].end
      along(u, s) == {[u EXCEPT !.when = w] : w \in Along(u.when, end, s)}
  IN [l \in Loans |-> WidenUses(UNION {UNION {along(u, s) : u \in guarded[s][l]} : s \in To(b)})]

Guarded ==
  /\ phase = "guarded" /\ work # <<>>
  /\ LET b == Head(work)
         entry == Head(GuardedThrough(b, GuardedAfter(b)))
     IN IF points[b] = <<>> \/ entry = guarded[b]
        THEN work' = Tail(work) /\ UNCHANGED guarded
        ELSE /\ guarded' = [guarded EXCEPT ![b] = entry]
             /\ work' = Tail(work) \o Predecessors(b)
  /\ UNCHANGED <<fn, phase, points, parents, needed, reached, runVars>>
----------------------------------------------------------------------------
(* Path reachability *)

ReachThrough(b, entry) ==
  FoldLeft(LAMBDA states, i :
             Append(states, MergePathConditions({},
                      {Apply(Ops(b)[i], Before(b, i), when) : when \in Last(states)})),
           <<entry>>, [i \in DOMAIN Ops(b) |-> i])

Reach ==
  /\ phase = "reach" /\ work # <<>>
  /\ LET b == Head(work)
         exit == Last(ReachThrough(b, reached[b]))
         end == fn.blocks[b].end
         next == FoldLeft(LAMBDA acc, s :
                   LET in == UNION {Along(when, end, s) : when \in exit}
                       new == IF s \in DOMAIN acc.reached
                              THEN MergePathConditions(acc.reached[s], in) ELSE in
                   IN IF s \in DOMAIN acc.reached /\ new = acc.reached[s] THEN acc
                      ELSE [reached |-> [x \in DOMAIN acc.reached \cup {s} |->
                                           IF x = s THEN new ELSE acc.reached[x]],
                            work |-> Append(acc.work, s)],
                   [reached |-> reached, work |-> Tail(work)], end.to)
     IN reached' = next.reached /\ work' = next.work
  /\ UNCHANGED <<fn, phase, points, parents, needed, guarded, runVars>>
----------------------------------------------------------------------------
(* Conflicts *)

Kind(op) ==
  CASE op.op = "reshape" -> "reshape"
    [] op.op \in {"consume", "move", "destroy"} -> "consume"
    [] op.op = "store" -> "replace"
    [] OTHER -> "none"

Invalidates(place, kind, l) ==
  LET loan == fn.loans[l]
  IN /\ PlacesOverlap(place, loan.origin)
     /\ \/ kind \in {"consume", "replace"}
        \/ loan.below
        \/ \E i \in DOMAIN loan.origin : IsIndex(loan.origin[i])

Aliases(b, i) ==
  LET op == Ops(b)[i]
  IN IF Kind(op) = "reshape" THEN ChangedPlaces(op, Before(b, i)) ELSE {op.place}

\* The places through which the operation may invalidate the loan, the one it
\* names first.
Through(b, i, l) ==
  LET op == Ops(b)[i]
      hit == {p \in Aliases(b, i) : Invalidates(p, Kind(op), l)}
  IN IF op.place \in hit THEN {op.place} ELSE hit

Suspects(b, i) ==
  IF Kind(Ops(b)[i]) = "none" THEN {}
  ELSE {l \in NeededThrough(b, NeededAfter(b))[i + 1] : Through(b, i, l) # {}}

Candidate == \E b \in Blocks : points[b] # <<>> /\ \E i \in DOMAIN Ops(b) : Suspects(b, i) # {}

\* The loans that may have been issued on entry to a block.
IssuedEntry(b) ==
  LET issuing(q) == {l \in Loans : fn.loans[l].at[1] = q}
      into[n \in 0..Cardinality(Blocks)] ==
        IF n = 0 THEN [q \in Blocks |-> {}]
        ELSE [q \in Blocks |->
                UNION {into[n - 1][p] \cup issuing(p) : p \in {x \in From(q) : points[x] # <<>>}}]
  IN into[Cardinality(Blocks)][b]

ProvesUnequal(when, left, right) ==
  left # right /\ \E f \in when :
    /\ Compares(f) /\ {f[1][2], f[1][3]} = {left, right}
    /\ f[2] = (f[1][1] = "less")

Operand(projection) ==
  <<IF projection \in DOMAIN IndexOf THEN IndexOf[projection] ELSE projection>>

PlacesProvenDisjoint(left, right, reaching, required) ==
  \E i \in 2..Len(left) \cap 2..Len(right) :
    /\ IsIndex(left[i]) /\ IsIndex(right[i])
    /\ \/ ProvesUnequal(reaching, Operand(left[i]), Operand(right[i]))
       \/ ProvesUnequal(required, Operand(left[i]), Operand(right[i]))

Feasible(b, i, l, place) ==
  LET uses == GuardedThrough(b, GuardedAfter(b))[i + 1][l]
  IN \/ uses = {}
     \/ \E u \in uses, reaching \in ReachThrough(b, reached[b])[i] :
          LET required == Forget(u.when, {place})
          IN /\ CompatibleWith(reaching, required)
             /\ ~PlacesProvenDisjoint(place, fn.loans[l].origin, reaching, required)

\* The loans an operation may take from under a later use.
Threatened(b, i) == {l \in Suspects(b, i) :
  LET p == fn.loans[l].at
  IN /\ l \in IssuedEntry(b) \/ (p[1] = b /\ p[2] < i)
     /\ p # <<b, i>>
     /\ ~(Kind(Ops(b)[i]) = "replace" /\ ParameterReborrow(l))}

\* The place decided on is the first that invalidates the loan, in an order
\* that the hash sets behind the aliases leave open.
Verdicts ==
  LET cases == {c \in UNION {{b} \X (DOMAIN Ops(b)) \X Loans : b \in {q \in Blocks : points[q] # <<>>}} :
                  c[3] \in Threatened(c[1], c[2])}
      outcomes(c) == {Feasible(c[1], c[2], c[3], p) : p \in Through(c[1], c[2], c[3])}
  IN (IF \E c \in cases : TRUE \in outcomes(c) THEN {"rejected"} ELSE {}) \cup
     (IF \A c \in cases : FALSE \in outcomes(c) THEN {"accepted"} ELSE {})
----------------------------------------------------------------------------
(* The passes in their order *)

Backwards == Reverse([b \in Blocks |-> b])

Continue(next, blocks) == phase' = next /\ work' = blocks

FindParents ==
  /\ phase = "provenance" /\ work = <<>>
  /\ parents' = [l \in Loans |-> Parents(l)]
  /\ Continue("storage", <<>>)
  /\ UNCHANGED <<fn, points, needed, guarded, reached, runVars>>

CheckStorage ==
  /\ phase = "storage"
  /\ IF Misplaced THEN Continue("rejected", <<>>) ELSE Continue("requirements", Backwards)
  /\ UNCHANGED <<fn, points, parents, needed, guarded, reached, runVars>>

\* Facts can only remove conflicts, so they are not looked for without one.
FindCandidate ==
  /\ phase = "requirements" /\ work = <<>>
  /\ IF Candidate THEN Continue("guarded", Backwards) ELSE Continue("accepted", <<>>)
  /\ UNCHANGED <<fn, points, parents, needed, guarded, reached, runVars>>

StartReach ==
  /\ phase = "guarded" /\ work = <<>>
  /\ Continue("reach", <<1>>)
  /\ UNCHANGED <<fn, points, parents, needed, guarded, reached, runVars>>

FindConflict ==
  /\ phase = "reach" /\ work = <<>>
  /\ \E verdict \in Verdicts : Continue(verdict, <<>>)
  /\ UNCHANGED <<fn, points, parents, needed, guarded, reached, runVars>>
----------------------------------------------------------------------------
(* The run of an accepted function *)

\* The place with its indexes evaluated, and the storage it denotes: what the
\* references on the way lead to.
Located(place) ==
  [i \in DOMAIN place |-> IF place[i] \in DOMAIN IndexOf THEN values[IndexOf[place[i]]] ELSE place[i]]

Denoted(place) ==
  LET p == Located(place)
      via == {r \in held : IsPrefix(r.at, p)}
  IN IF via = {} THEN {p} ELSE {r.to \o SubSeq(p, Len(r.at) + 1, Len(p)) : r \in via}

Break(refs, Lost(_)) == {IF Lost(r.to) THEN [r EXCEPT !.ok = FALSE] ELSE r : r \in refs}
Sound(place) == \A r \in held : PlacesOverlap(r.at, Located(place)) => r.ok

\* The references a value carries to a place; a loan on what may lie below
\* its origin is on the origin or on one of its elements.
Taken(v, place) ==
  CASE v.kind = "reborrow" ->
         {[at |-> place, to |-> t, ok |-> Sound(fn.loans[v.loan].origin)] :
            t \in UNION {{d} \cup IF fn.loans[v.loan].below THEN {Append(d, e) : e \in Range(Elements)} ELSE {}
                         : d \in Denoted(fn.loans[v.loan].origin)}}
    [] v.kind \in {"place", "move"} ->
         {[r EXCEPT !.at = place \o SubSeq(@, Len(v.place) + 1, Len(@))] :
            r \in {s \in held : IsPrefix(Located(v.place), s.at)}}
    [] OTHER -> {}

\* A reborrow takes one of the references it may be, a move all there are.
Chosen(value, place) ==
  {refs \in SUBSET UNION {Taken(value[k], place) : k \in DOMAIN value} :
     \A k \in DOMAIN value :
       IF value[k].kind = "reborrow" THEN Cardinality(refs \cap Taken(value[k], place)) = 1
       ELSE Taken(value[k], place) \subseteq refs}
Emptied(value) == {r \in held : \A k \in DOMAIN value :
                     ~(value[k].kind = "move" /\ IsPrefix(Located(value[k].place), r.at))}

Stored(op) ==
  LET place == Located(op.place)
      into == IF \E r \in held : r.at = place THEN {place} ELSE Denoted(op.place)
      after(news, lefts) ==
        Break({r \in lefts : ~IsPrefix(place, r.at)}, LAMBDA t : \E p \in into : IsPrefix(p, t)) \cup news
  IN IF op.through THEN {held}
     ELSE IF op.fields = <<>>
     THEN {after(n, Emptied(op.value)) : n \in Chosen(op.value, place)}
     ELSE {after(UNION {Taken(op.fields[k].value[1], place \o op.fields[k].path) : k \in DOMAIN op.fields},
                 Emptied(FlattenSeq([k \in DOMAIN op.fields |-> op.fields[k].value])))}

\* A write, and a call that may write, leave any value in a scalar.
AnyValues == {v \in [DOMAIN Scalars -> UNION {Scalars[x] : x \in DOMAIN Scalars}] :
          \A x \in DOMAIN Scalars : v[x] \in Scalars[x]}
Written(targets) == {v \in AnyValues : \A x \in DOMAIN Scalars : <<x>> \in targets \/ v[x] = values[x]}

\* The function is called with any values.
Call ==
  /\ phase = "accepted" /\ values = <<>>
  /\ values' \in AnyValues
  /\ UNCHANGED <<analysisVars, at, held>>

Running == phase = "accepted" /\ values # <<>>

Execute ==
  /\ Running /\ at[2] <= Len(Ops(at[1]))
  /\ at' = <<at[1], at[2] + 1>>
  /\ LET op == Ops(at[1])[at[2]]
     IN CASE op.op = "store" -> held' \in Stored(op) /\ UNCHANGED values
          [] op.op \in {"move", "consume"} ->
               /\ held' = Break(held, LAMBDA t : PlacesOverlap(Located(op.place), t))
               /\ UNCHANGED values
          [] op.op = "destroy" ->
               /\ held' = Break({r \in held : ~IsPrefix(op.place, r.at)}, LAMBDA t : IsPrefix(op.place, t))
               /\ UNCHANGED values
          [] op.op = "reshape" ->
               /\ held' = Break(held, LAMBDA t : \E d \in Denoted(op.place) :
                            IsPrefix(d, t) /\ \E i \in Len(d) + 1..Len(t) : IsIndex(t[i]))
               /\ UNCHANGED values
          [] op.op \in {"write", "init", "forget"} ->
               values' \in Written(Denoted(op.place)) /\ UNCHANGED held
          [] op.op = "forgetAll" -> values' \in AnyValues /\ UNCHANGED held
          [] OTHER -> UNCHANGED <<held, values>>
  /\ UNCHANGED analysisVars

Value(operand) == IF Head(operand) \in DOMAIN Scalars THEN values[Head(operand)] ELSE Head(operand)
Rank(operand) == CHOOSE k \in DOMAIN Elements : Elements[k] = Value(operand)
Holds(subject) ==
  CASE subject[1] = "bool"    -> values[Head(subject[2])] = "true"
    [] subject[1] = "variant" -> values[Head(subject[2])] = subject[3]
    [] subject[1] = "equal"   -> Value(subject[2]) = Value(subject[3])
    [] subject[1] = "less"    -> Rank(subject[2]) < Rank(subject[3])
    [] subject[1] = "lessEqual" -> Rank(subject[2]) <= Rank(subject[3])

Branch ==
  /\ Running /\ at[2] > Len(Ops(at[1]))
  /\ LET end == fn.blocks[at[1]].end
     IN /\ \E next \in Range(end.to) :
             /\ end.end = "test" => next = end.to[IF Holds(end.subject) THEN 1 ELSE 2]
             /\ at' = <<next, 1>>
        /\ values' = IF end.end = "value"
                     THEN [values EXCEPT ![Head(end.place)] = IF end.value THEN "true" ELSE "false"]
                     ELSE values
  /\ UNCHANGED <<analysisVars, held>>
----------------------------------------------------------------------------
RegionInit ==
  /\ fn \in LoanFunctions
  /\ phase = "provenance" /\ work = <<1>>
  /\ points = [b \in Blocks |-> <<>>]
  /\ parents = [l \in Loans |-> {}]
  /\ needed = [b \in Blocks |-> {}]
  /\ guarded = [b \in Blocks |-> [l \in Loans |-> {}]]
  /\ reached = [b \in {1} |-> {{}}]
  /\ at = <<1, 1>>
  /\ held = {[at |-> <<p>>, to |-> <<"caller", p>>, ok |-> TRUE] : p \in References}
  /\ values = <<>>

Analyse == Provenance \/ FindParents \/ CheckStorage \/ Requirements \/ FindCandidate
           \/ Guarded \/ StartReach \/ Reach \/ FindConflict
RegionNext == Analyse \/ Call \/ Execute \/ Branch
----------------------------------------------------------------------------
(* Properties *)

\* Types; a block has points only when it was reached, and every loan in them
\* was issued by the function.
RegionTypeOK ==
  /\ phase \in {"provenance", "storage", "requirements", "guarded", "reach", "accepted", "rejected"}
  /\ work \in Seq(Blocks)
  /\ \A b \in Blocks : points[b] # <<>> =>
       /\ Len(points[b]) = Len(Ops(b)) + 1
       /\ \A i \in DOMAIN points[b] : \A c \in points[b][i] : c[2] \in Loans
  /\ needed \in [Blocks -> SUBSET Loans]

\* An accepted function never uses a reference whose storage was reshaped,
\* consumed or replaced since it was taken, and what it returns refers to
\* valid storage of its caller (find_conflict, validate_storage_and_escape).
BorrowsValid ==
  Running /\ at[2] <= Len(Ops(at[1])) =>
    LET op == Ops(at[1])[at[2]]
    IN /\ op.op \in {"read", "move"} => Sound(op.place)
       /\ op.op = "return" =>
            \A k \in DOMAIN op.value : \A r \in Taken(op.value[k], <<"result">>) :
              r.ok /\ Head(r.to) = "caller"

LoansSound == RegionTypeOK /\ BorrowsValid
=============================================================================
