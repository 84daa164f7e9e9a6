-------------------------- MODULE BytecodeOptimizer --------------------------
(***************************************************************************)
(* The clean-up of bytecode after registers have been assigned,            *)
(* compiler/src/vm/optimizer: control flow, copies, dead writes and the    *)
(* colouring of registers.  There are no closures here to specialize, and  *)
(* constants are their values, so nothing to deduplicate.                  *)
(***************************************************************************)
EXTENDS SlotCode

\* Operations that cannot expose a slot or produce a reference to one.
Plain == {"const", "move", "not", "same", "drop", "jump", "branch", "return"}

RECURSIVE PinnedFrom(_, _)
PinnedFrom(code, pins) ==
    LET next == pins \cup UNION {Defs(code[i]) \cup Uses(code[i]): i \in
                    {j \in At(code, {"move"}): (Defs(code[j]) \cup Uses(code[j])) \cap pins # {}}}
    IN IF next = pins THEN pins ELSE PinnedFrom(code, next)

\* Registers whose identity may be seen: parameters, operands and results of
\* the other operations, and what moves connect to them.
Pinned(f) ==
    PinnedFrom(f.code, 1..f.params \cup UNION {Defs(f.code[i]) \cup Uses(f.code[i]):
                                                 i \in {j \in DOMAIN f.code: f.code[j].op \notin Plain}})

\* The code without some instructions; a jump to one goes to the next kept.
Retain(f, kept) ==
    [f EXCEPT !.code = Assemble([i \in DOMAIN @ |-> IF i \in kept THEN <<@[i]>> ELSE <<>>])]
-----------------------------------------------------------------------------
(* Control flow *)

RECURSIVE Follow(_, _, _)
Follow(code, at, seen) ==
    IF code[at].op = "jump" /\ at \notin seen THEN Follow(code, code[at].at, seen \cup {at}) ELSE at

RedirectJumpChains(f) ==
    [f EXCEPT !.code = [i \in DOMAIN @ |->
        IF @[i].op \in {"jump", "branch"} THEN [@[i] EXCEPT !.at = Follow(f.code, @, {})] ELSE @[i]]]

RECURSIVE ReachedIn(_, _)
ReachedIn(code, seen) ==
    LET next == seen \cup UNION {Successors(code, i): i \in seen}
    IN IF next = seen THEN seen ELSE ReachedIn(code, next)

Idle(code, pinned, i) ==
    \/ code[i].op = "move" /\ code[i].to = code[i].of /\ code[i].to[1] \notin pinned
    \/ code[i].op = "jump" /\ code[i].at = i + 1

WithoutIdle(f, pinned) == Retain(f, {i \in DOMAIN f.code: ~Idle(f.code, pinned, i)})
RetainReachable(f) == Retain(f, ReachedIn(f.code, {1}))

SimplifyControlFlow(f) ==
    RedirectJumpChains(WithoutIdle(RetainReachable(RedirectJumpChains(f)), Pinned(f)))
-----------------------------------------------------------------------------
(* Copies: a partial function from registers to the register they copy *)

RECURSIVE ResolveCopy(_, _)
ResolveCopy(copies, r) == IF r \in DOMAIN copies THEN ResolveCopy(copies, copies[r]) ELSE r

\* An assignment to r ends the copy in r and the copies of r.
Kill(copies, r) == [d \in {e \in DOMAIN copies: e # r /\ copies[e] # r} |-> copies[d]]

\* Operations on storage, releases among them, invalidate every copy.
TransferCopies(ins, copies, pinned) ==
    LET held == IF ins.op \in Plain \ {"drop"} THEN copies ELSE <<>>
        rest == IF ins.to = <<>> THEN held ELSE Kill(held, ins.to[1])
        from == ResolveCopy(rest, ins.of[1])
        to == ins.to[1]
    IN IF ins.op = "move" /\ to # from /\ {to, from} \cap pinned = {}
       THEN [d \in DOMAIN rest \cup {to} |-> IF d = to THEN from ELSE rest[d]]
       ELSE rest

Intersect(maps) ==
    LET first == CHOOSE m \in maps: TRUE
    IN [d \in {e \in DOMAIN first: \A m \in maps: e \in DOMAIN m /\ m[e] = first[e]} |-> first[d]]

\* The copies on entry to each instruction, by rounds that start from none.
RECURSIVE AvailableCopies(_, _, _)
AvailableCopies(f, pinned, flow) ==
    LET Predecessors(i) == {p \in DOMAIN f.code: i \in Successors(f.code, p)}
        Visit(acc, i) ==
            LET in == IF i = 1 \/ Predecessors(i) = {} THEN <<>>
                      ELSE Intersect({acc[p].out: p \in Predecessors(i)})
            IN [acc EXCEPT ![i] = [in |-> in, out |-> TransferCopies(f.code[i], in, pinned)]]
        next == FoldLeft(Visit, flow, [i \in DOMAIN f.code |-> i])
    IN IF next = flow THEN flow ELSE AvailableCopies(f, pinned, next)

Rewritten == {"move", "not", "same", "branch", "call", "return"}

PropagateCopies(f) ==
    LET flow == AvailableCopies(f, Pinned(f), [i \in DOMAIN f.code |-> [in |-> <<>>, out |-> <<>>]])
    IN [f EXCEPT !.code = [i \in DOMAIN @ |->
          IF @[i].op \in Rewritten
          THEN [@[i] EXCEPT !.of = [j \in DOMAIN @ |-> ResolveCopy(flow[i].in, @[j])]]
          ELSE @[i]]]
-----------------------------------------------------------------------------
(* Registers *)

RECURSIVE EliminateDeadWrites(_)
EliminateDeadWrites(f) ==
    LET live == Liveness(f.code, {}, {})
        pinned == Pinned(f)
        kept == {i \in DOMAIN f.code:
                   \/ f.code[i].op \notin {"const", "move"}
                   \/ f.code[i].to[1] \in LiveOut(f.code, live, i) \cup pinned}
    IN IF kept = DOMAIN f.code THEN f ELSE EliminateDeadWrites(Retain(f, kept))

\* The sets of registers that must all differ.
Cliques(f) ==
    LET live == Liveness(f.code, {}, {})
        used == 1..f.params \cup Registers(f.code)
    IN {1..f.params}
         \cup UNION {{live[i], Uses(f.code[i])} : i \in DOMAIN f.code}
         \cup UNION {{{d, r}: d \in Defs(f.code[i]), r \in LiveOut(f.code, live, i)}:
                       i \in DOMAIN f.code}
         \cup {{p, r}: p \in Pinned(f), r \in used}

\* Parameters keep their numbers, pinned registers follow; the others, those
\* with most neighbours first, take the least number no neighbour has.
Placed(params, pinned) ==
    LET tail == Ascending(pinned \ 1..params)
    IN [r \in 1..params \cup pinned |->
          IF r <= params THEN r ELSE params + CHOOSE i \in DOMAIN tail: tail[i] = r]

Colouring(f, cliques, placed) ==
    LET Neighbours(r) == UNION {c \in cliques: r \in c} \ {r}
        others == FlattenSeq([n \in 1..f.slots |->
                    Ascending({r \in Registers(f.code) \ DOMAIN placed:
                                 Cardinality(Neighbours(r)) = f.slots - n})])
        Give(mapping, r) ==
            LET taken == {mapping[n]: n \in Neighbours(r) \cap DOMAIN mapping}
            IN [x \in DOMAIN mapping \cup {r} |->
                  IF x # r THEN mapping[x] ELSE Min((1..Cardinality(DOMAIN mapping) + 1) \ taken)]
    IN FoldLeft(Give, placed, others)

Renamed(f, mapping) ==
    LET Names(rs) == [i \in DOMAIN rs |-> mapping[rs[i]]]
    IN [f EXCEPT !.code = [i \in DOMAIN @ |-> [@[i] EXCEPT !.to = Names(@), !.of = Names(@)]],
                 !.slots = Cardinality(Range(mapping))]

Compact(f) == Renamed(f, Colouring(f, Cliques(f), Placed(f.params, Pinned(f))))
-----------------------------------------------------------------------------
\* finish_backend.  Control flow is simplified again where a pass has changed
\* something, and registers are coloured again if that did.
Resimplified(simple, written) == IF written = simple THEN simple ELSE SimplifyControlFlow(written)
Recoloured(coloured, last) == IF last = coloured THEN coloured ELSE Compact(last)
Coloured(tidy, coloured) ==
    IF coloured = tidy THEN tidy ELSE Recoloured(coloured, SimplifyControlFlow(coloured))

CleanUp(simple) == Resimplified(simple, EliminateDeadWrites(PropagateCopies(simple)))
Colour(tidy) == Coloured(tidy, Compact(tidy))
FinishBackend(f) == Colour(CleanUp(SimplifyControlFlow(f)))
==============================================================================
