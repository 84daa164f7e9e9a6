----------------------------- MODULE SharedSsa ------------------------------
(***************************************************************************)
(* The shared SSA form between construction and the backends: sealing slot *)
(* code into blocks with parameters (compiler/src/codegen/sealing.rs) and  *)
(* the optimizer's passes over it (codegen/optimizer.rs, optimizer/).      *)
(*                                                                         *)
(* A graph has blocks [params, ops, end]; an operation is an instruction   *)
(* over values, end is [op, of, to, args] with the arguments for each      *)
(* successor.  Value v was allocated for slot table[v]; that slot is its   *)
(* storage home unless v is in loose.  writes holds the pairs of a value   *)
(* and the value its slot was bound to before, which it may be assigned    *)
(* through.  The entry is block 1, its arguments are entry; values         *)
(* 1..inputs are the parameters, seeds are bound to nothing on entry.      *)
(***************************************************************************)
EXTENDS SlotCode

CONSTANT Owning         \* the call sites whose result has a deinit

None == 0
Scalars == {"unit", "bool"}
TypeOf(k) == IF k = 2 THEN "unit" ELSE "bool"
Home(g, v) == IF v \in g.loose THEN None ELSE g.table[v]
Type(g, v) == g.hints[g.table[v]]
ScalarOps == {"const", "move", "not", "same"}

Op(op, to, of, k) == Ins(op, to, of, k, 0)
End(op, of, to, args) == [op |-> op, of |-> of, to |-> to, args |-> args]
OpsOf(g) == UNION {Range(g.blocks[b].ops): b \in DOMAIN g.blocks}
-----------------------------------------------------------------------------
(* Sealing *)

\* register_type_hints: the last instruction that says something of a slot.
TypeHints(f) ==
    LET Hint(hints, ins) ==
            CASE ins.op = "const" -> [hints EXCEPT ![ins.to[1]] = TypeOf(ins.k)]
              [] ins.op \in {"not", "same"} -> [hints EXCEPT ![ins.to[1]] = "bool"]
              [] ins.op = "move" -> [hints EXCEPT ![ins.to[1]] = hints[ins.of[1]]]
              [] ins.op = "call" ->
                   [hints EXCEPT ![ins.to[1]] = IF ins.k \in Owning THEN "opaque" ELSE "bool"]
              [] ins.op = "branch" -> [hints EXCEPT ![ins.of[1]] = "bool"]
              [] ins.op = "return" -> [hints EXCEPT ![ins.of[1]] = f.result]
              [] OTHER -> hints
    IN FoldLeft(Hint, [r \in 1..f.slots |-> IF r <= f.params THEN "bool" ELSE "opaque"], f.code)

BlockLeaders(code) ==
    {1} \cup {code[i].at: i \in At(code, {"jump", "branch"})}
        \cup ({i + 1: i \in At(code, {"jump", "branch", "return"})} \cap DOMAIN code)

\* The slots that moves may have given a binding of these.
RECURSIVE MovedInto(_, _)
MovedInto(code, homes) ==
    LET next == homes \cup UNION {Defs(code[i]): i \in
                    {j \in At(code, {"move"}): Uses(code[j]) \cap homes # {}}}
    IN IF next = homes THEN homes ELSE MovedInto(code, next)

ReferenceHomes(code) ==
    MovedInto(code, UNION {Defs(code[i]): i \in At(code, {"ref", "take"})})

\* A value for slot r; an empty one carries no owner and has no home.
Allocate(acc, r) == [acc EXCEPT !.table = Append(@, r), !.state[r] = Len(acc.table) + 1]
AllocateEmpty(acc, r) ==
    LET v == Len(acc.table) + 1
    IN [Allocate(acc, r) EXCEPT !.loose = @ \cup {v}, !.seeds = Append(@, v)]
Unbound(acc, r, liveAfter) ==
    IF r \in liveAfter THEN AllocateEmpty(acc, r) ELSE [acc EXCEPT !.state[r] = None]

\* One instruction that is not a terminator.
SealInstruction(acc, ins, liveAfter) ==
    LET bound == [i \in DOMAIN ins.of |-> acc.state[ins.of[i]]]
        v == Len(acc.table) + 1
    IN CASE ins.op = "drop" ->
              LET r == ins.of[1]
                  released == IF acc.state[r] = None THEN acc
                              ELSE [acc EXCEPT !.ops = Append(@, Op("drop", <<>>, bound, 0))]
              IN Unbound(released, r, liveAfter)
         [] ins.op = "store" ->
              [Allocate(acc, ins.of[1]) EXCEPT
                 !.ops = @ \o <<Op("cow", <<v>>, <<bound[1]>>, 0),
                                Op("store", <<>>, <<v, bound[2]>>, ins.k)>>,
                 !.sealed = @ /\ None \notin Range(bound)]
         [] OTHER ->
              LET r == ins.to[1]
                  defined == [Allocate(acc, r) EXCEPT
                     !.ops = Append(@, Op(ins.op, <<v>>, bound, ins.k)),
                     !.writes = IF acc.state[r] = None THEN @ ELSE @ \cup {<<v, acc.state[r]>>},
                     !.sealed = @ /\ None \notin Range(bound)]
              IN IF ins.op = "take" THEN Unbound(defined, ins.of[1], liveAfter) ELSE defined

\* A block for each leader, with a parameter for each slot live at it.
Shape(f, leaders, live) ==
    LET slots == [b \in DOMAIN leaders |-> Ascending(live[leaders[b]])]
    IN [leaders |-> leaders, live |-> live, slots |-> slots,
        firsts |-> FoldLeft(LAMBDA s, p: Append(s, Last(s) + Len(p)), <<f.params>>, slots)]
Params(shape, b) == [i \in DOMAIN shape.slots[b] |-> shape.firsts[b] + i]
BlockAt(shape, i) == CHOOSE b \in DOMAIN shape.leaders: shape.leaders[b] = i
Bound(shape, b, r) == shape.firsts[b] + CHOOSE i \in DOMAIN shape.slots[b]: shape.slots[b][i] = r

StopOf(f, shape, b) == IF b = Len(shape.leaders) THEN Len(f.code) ELSE shape.leaders[b + 1] - 1
Ends(ins) == ins.op \in {"jump", "branch", "return"}

SealBody(f, shape, acc, b, stop) ==
    LET entered == [acc EXCEPT !.ops = <<>>, !.state =
            [r \in 1..f.slots |-> IF r \in Range(shape.slots[b]) THEN Bound(shape, b, r) ELSE None]]
        first == shape.leaders[b]
    IN FoldLeft(LAMBDA a, i: SealInstruction(a, f.code[i], LiveOut(f.code, shape.live, i)),
                entered, [i \in 1..stop - first + (IF Ends(f.code[stop]) THEN 0 ELSE 1) |-> first + i - 1])

SealEnd(shape, state, last, b, stop) ==
    LET targets == CASE last.op = "jump" -> <<BlockAt(shape, last.at)>>
                     [] last.op = "branch" -> <<BlockAt(shape, stop + 1), BlockAt(shape, last.at)>>
                     [] last.op = "return" -> <<>>
                     [] OTHER -> <<b + 1>>
        Arguments(t) == [i \in DOMAIN shape.slots[t] |-> state[shape.slots[t][i]]]
    IN End(IF Ends(last) THEN last.op ELSE "jump",
           IF Ends(last) THEN [i \in DOMAIN last.of |-> state[last.of[i]]] ELSE <<>>,
           targets, [t \in DOMAIN targets |-> Arguments(targets[t])])

AddBlock(body, params, end) ==
    [body EXCEPT
       !.blocks = Append(@, [params |-> params, ops |-> body.ops, end |-> end]),
       !.sealed = @ /\ None \notin Range(end.of) \cup UNION {Range(end.args[t]): t \in DOMAIN end.to}]

SealBlock(f, shape, acc, b) ==
    LET stop == StopOf(f, shape, b)
        Ended(body) == AddBlock(body, Params(shape, b), SealEnd(shape, body.state, f.code[stop], b, stop))
    IN Ended(SealBody(f, shape, acc, b, stop))

SealBlocks(f, shape, seeded) ==
    LET last == Last(shape.firsts)
        start == [table |-> [i \in 1..f.params |-> i] \o FlattenSeq(shape.slots) \o seeded,
                  loose |-> {}, seeds |-> [i \in DOMAIN seeded |-> last + i],
                  writes |-> {}, sealed |-> TRUE, blocks |-> <<>>, ops |-> <<>>, state |-> <<>>]
        Entry(r) == IF r <= f.params THEN r ELSE last + CHOOSE i \in DOMAIN seeded: seeded[i] = r
        Graph(done) ==
            [blocks |-> done.blocks, table |-> done.table, loose |-> done.loose, seeds |-> done.seeds,
             writes |-> done.writes, sealed |-> done.sealed, inputs |-> f.params,
             entry |-> [i \in DOMAIN shape.slots[1] |-> Entry(shape.slots[1][i])],
             hints |-> TypeHints(f)]
    IN Graph(FoldLeft(LAMBDA acc, b: SealBlock(f, shape, acc, b), start,
                      [b \in DOMAIN shape.leaders |-> b]))

\* seal_function.  The origins of references stay live to the end.
Seal(f) ==
    LET live == Liveness(f.code, ReferenceOrigins(f.code), ReferenceHomes(f.code))
        Sealed(shape) == SealBlocks(f, shape, SelectSeq(shape.slots[1], LAMBDA r: r > f.params))
    IN Sealed(Shape(f, Ascending(BlockLeaders(f.code)), live))
=============================================================================
