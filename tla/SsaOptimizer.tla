---------------------------- MODULE SsaOptimizer ----------------------------
(***************************************************************************)
(* The optimizer's passes over shared SSA: propagation of constants with   *)
(* the removal of branches, blocks, releases and values that are not       *)
(* needed (compiler/src/codegen/optimizer/graph.rs), and the reuse of      *)
(* dominating expressions (cse.rs).  Inlining is not modelled: a function  *)
(* is optimized by itself.                                                 *)
(***************************************************************************)
EXTENDS SharedSsa

Unknown == -1

\* The argument lists a block is entered with.
Incoming(g, b) ==
    (IF b = 1 THEN {g.entry} ELSE {})
        \cup UNION {{g.blocks[p].end.args[t]: t \in {u \in DOMAIN g.blocks[p].end.to:
                                                         g.blocks[p].end.to[u] = b}}:
                      p \in DOMAIN g.blocks}

\* The pairs of values that one name stands for in turn: moves and parameters.
Aliases(g) ==
    {<<op.to[1], op.of[1]>>: op \in {o \in OpsOf(g): o.op = "move"}}
        \cup UNION {UNION {{<<g.blocks[b].params[i], args[i]>>: i \in DOMAIN args}:
                             args \in Incoming(g, b)}: b \in DOMAIN g.blocks}

\* The homes that references may reach from those given.
RECURSIVE Exposing(_, _)
Exposing(pairs, homes) ==
    LET next == homes \cup UNION {pair \in pairs: pair \cap homes # {}}
    IN IF next = homes THEN homes \ {None} ELSE Exposing(pairs, next)

\* exposed_homes_with: parameters, results of operations that are not scalar,
\* origins of references, and whatever shares a name with one of them.
ExposedHomes(g, more) ==
    Exposing({{Home(g, pair[1]), Home(g, pair[2])} \ {None}: pair \in Aliases(g)},
             {Home(g, v): v \in 1..g.inputs \cup more
                  \cup UNION {Defs(op): op \in {o \in OpsOf(g): o.op \notin ScalarOps}}
                  \cup UNION {Uses(op): op \in {o \in OpsOf(g): o.op = "ref"}}})
-----------------------------------------------------------------------------
(* Simplification *)

Evaluate(op, known) ==
    CASE op.op = "const" -> op.k
      [] op.op = "move" -> known[op.of[1]]
      [] op.op = "not" -> IF known[op.of[1]] \in {0, 1} THEN 1 - known[op.of[1]] ELSE Unknown
      [] op.op = "same" ->
           LET left == known[op.of[1]]
               right == known[op.of[2]]
           IN IF Unknown \in {left, right} \/ TypeOf(left) # TypeOf(right) THEN Unknown
              ELSE IF left = right THEN 1 ELSE 0
      [] OTHER -> Unknown

\* The values known to be a constant: results of operations on such, and
\* parameters that are given the same constant on every edge.
RECURSIVE Constants(_, _, _)
Constants(g, exposed, known) ==
    LET Learn(acc, v, k) ==
            IF k # Unknown /\ Home(g, v) \notin exposed /\ Type(g, v) = TypeOf(k)
            THEN [acc EXCEPT ![v] = k] ELSE acc
        Given(acc, b, i) ==
            LET ks == {acc[args[i]]: args \in Incoming(g, b)}
            IN IF Cardinality(ks) = 1 THEN CHOOSE k \in ks: TRUE ELSE Unknown
        InBlock(acc, b) ==
            FoldLeft(LAMBDA a, op: IF op.to = <<>> THEN a ELSE Learn(a, op.to[1], Evaluate(op, a)),
                     FoldLeft(LAMBDA a, i: IF Home(g, g.blocks[b].params[i]) \in exposed THEN a
                                           ELSE [a EXCEPT ![g.blocks[b].params[i]] =
                                                   IF @ = Unknown THEN Given(a, b, i) ELSE @],
                              acc, [i \in DOMAIN g.blocks[b].params |-> i]),
                     g.blocks[b].ops)
        next == FoldLeft(InBlock, known, [b \in DOMAIN g.blocks |-> b])
    IN IF next = known THEN known ELSE Constants(g, exposed, next)

Folded(g, known) ==
    [g EXCEPT !.blocks = [b \in DOMAIN @ |->
       LET end == @[b].end
       IN [@[b] EXCEPT
             !.ops = [i \in DOMAIN @ |->
                        IF @[i].op \in {"not", "same"} /\ known[@[i].to[1]] # Unknown
                        THEN Op("const", @[i].to, <<>>, known[@[i].to[1]]) ELSE @[i]],
             !.end = IF end.op = "branch" /\ known[end.of[1]] \in {0, 1}
                     THEN LET taken == IF known[end.of[1]] = 1 THEN 1 ELSE 2
                          IN End("jump", <<>>, <<end.to[taken]>>, <<end.args[taken]>>)
                     ELSE end]]]

\* The blocks reached from those seen without passing through one of avoided.
RECURSIVE Reached(_, _, _)
Reached(g, avoided, seen) ==
    LET next == seen \cup (UNION {Range(g.blocks[b].end.to): b \in seen} \ avoided)
    IN IF next = seen THEN seen ELSE Reached(g, avoided, next)

WithoutUnreachable(g) ==
    LET kept == Ascending(Reached(g, {}, {1}))
        Renumber(b) == CHOOSE i \in DOMAIN kept: kept[i] = b
    IN [g EXCEPT !.blocks = [i \in DOMAIN kept |->
          [@[kept[i]] EXCEPT !.end.to = [t \in DOMAIN @ |-> Renumber(@[t])]]]]

Without(g, Gone(_)) ==
    [g EXCEPT !.blocks = [b \in DOMAIN @ |->
        [@[b] EXCEPT !.ops = SelectSeq(@, LAMBDA op: ~Gone(op))]]]

Unneeded(g, exposed, v) == Type(g, v) \in Scalars /\ Home(g, v) \notin exposed

\* The release of a scalar nothing refers to has no effect.
WithoutReleases(g, exposed) ==
    Without(g, LAMBDA op: op.op = "drop" /\ Unneeded(g, exposed, op.of[1]))

Used(g) ==
    Range(g.entry) \cup {w[2]: w \in g.writes} \cup UNION {Uses(op): op \in OpsOf(g)}
        \cup UNION {Range(g.blocks[b].end.of) \cup UNION {Range(g.blocks[b].end.args[t]):
                      t \in DOMAIN g.blocks[b].end.to}: b \in DOMAIN g.blocks}

RECURSIVE WithoutDeadValues(_, _)
WithoutDeadValues(g, exposed) ==
    LET used == Used(g)
        next == Without(g, LAMBDA op: /\ op.op \in {"const", "move"}
                                      /\ op.to[1] \notin used /\ Unneeded(g, exposed, op.to[1]))
    IN IF next = g THEN g ELSE WithoutDeadValues(next, exposed)

Defined(g) ==
    1..g.inputs \cup Range(g.seeds) \cup UNION {Range(g.blocks[b].params): b \in DOMAIN g.blocks}
        \cup UNION {Defs(op): op \in OpsOf(g)}

\* compact_values: renumbering apart, the bindings of removed values are
\* forgotten.
CompactValues(g) == [g EXCEPT !.writes = {w \in @: {w[1], w[2]} \subseteq Defined(g)}]

\* simplify; the graph is the same if it found nothing to do.
Simplify(g) ==
    LET exposed == ExposedHomes(g, {})
        known == Constants(g, exposed, [v \in DOMAIN g.table |-> Unknown])
        pruned == WithoutUnreachable(Folded(g, known))
        next == WithoutDeadValues(WithoutReleases(pruned, exposed), exposed)
    IN IF next = g THEN g ELSE CompactValues(next)
-----------------------------------------------------------------------------
(* Reuse of dominating expressions *)

Dominators(g, b) == {d \in Reached(g, {}, {1}): d = b \/ d = 1 \/ b \notin Reached(g, {d}, {1})}

\* The operations whose result may be reused, if the types agree.
Candidate(g, op) ==
    /\ op.op \in {"const", "not", "same"}
    /\ CASE op.op = "const" -> Type(g, op.to[1]) = TypeOf(op.k)
         [] op.op = "not" -> Type(g, op.of[1]) = "bool" /\ Type(g, op.to[1]) = "bool"
         [] op.op = "same" -> /\ Type(g, op.of[1]) = Type(g, op.of[2])
                              /\ Type(g, op.of[1]) \in Scalars /\ Type(g, op.to[1]) = "bool"

Resolved(aliases, v) == IF v \in DOMAIN aliases THEN aliases[v] ELSE v

\* Values that meet an operation on storage, and homes such operations expose,
\* take no part.
SafeToReuse(g) ==
    LET operands == UNION {Uses(op): op \in {o \in OpsOf(g): o.op \notin ScalarOps \cup {"drop"}}}
        exposed == ExposedHomes(g, operands)
    IN {v \in DOMAIN g.table: v \notin operands /\ Home(g, v) \notin exposed}

\* Blocks in order of depth; an expression is replaced by an equal one that
\* dominates it, and releases of either are removed.  The value reused must
\* not share its slot with later writes, so it loses its home.
ReuseExpressions(g) ==
    LET safe == SafeToReuse(g)
        dom == FoldLeft(LAMBDA s, b: Append(s, Dominators(g, b)), <<>>, [b \in DOMAIN g.blocks |-> b])
        order == FlattenSeq([n \in DOMAIN g.blocks |->
                    Ascending({b \in Reached(g, {}, {1}): Cardinality(dom[b]) = n})])
        Visit(acc, site) ==
            LET op == g.blocks[site[1]].ops[site[2]]
                key == <<op.op, op.k, [i \in DOMAIN op.of |-> Resolved(acc.aliases, op.of[i])]>>
                before == SelectSeq(acc.available,
                                    LAMBDA a: a.key = key /\ a.block \in dom[site[1]])
            IN IF ~Candidate(g, op) \/ ~(Defs(op) \cup Uses(op) \subseteq safe) THEN acc
               ELSE IF before = <<>>
               THEN [acc EXCEPT !.available =
                       Append(@, [key |-> key, block |-> site[1], value |-> op.to[1]])]
               ELSE [acc EXCEPT !.aliases = [v \in DOMAIN @ \cup {op.to[1]} |->
                                               IF v = op.to[1] THEN before[1].value ELSE @[v]]]
        sites == FlattenSeq([i \in DOMAIN order |->
                    [j \in DOMAIN g.blocks[order[i]].ops |-> <<order[i], j>>]])
        aliases == FoldLeft(Visit, [available |-> <<>>, aliases |-> <<>>], sites).aliases
        retained == Range(aliases)
        Renamed(vs) == [i \in DOMAIN vs |-> Resolved(aliases, vs[i])]
        kept == Without(g, LAMBDA op: \/ op.op = "drop" /\ op.of[1] \in DOMAIN aliases \cup retained
                                      \/ Defs(op) \cap DOMAIN aliases # {})
    IN IF DOMAIN aliases = {} THEN g
       ELSE CompactValues([kept EXCEPT
              !.blocks = [b \in DOMAIN @ |-> [@[b] EXCEPT
                 !.ops = [i \in DOMAIN @ |-> [@[i] EXCEPT !.of = Renamed(@)]],
                 !.end.of = Renamed(@),
                 !.end.args = [t \in DOMAIN @ |-> Renamed(@[t])]]],
              !.writes = {<<w[1], Resolved(aliases, w[2])>>: w \in {x \in @: x[1] \notin DOMAIN aliases}},
              !.loose = @ \cup retained])
=============================================================================
