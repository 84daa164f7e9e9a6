----------------------------- MODULE VmBackend ------------------------------
(***************************************************************************)
(* From construction to bytecode: releases are inserted, the code sealed   *)
(* into SSA, optimized if asked for, given registers again                 *)
(* (compiler/src/codegen/vm/emission.rs), cleaned up as bytecode           *)
(* (compiler/src/vm/optimizer), and given the releases of the registers    *)
(* added on the way.  One action is one pass.  The result then runs beside *)
(* the code construction made.                                             *)
(***************************************************************************)
EXTENDS SsaOptimizer, BytecodeOptimizer

CONSTANTS
    Inputs,     \* functions, as construction makes them or with an SSA form
    Modes,      \* values of the option to optimize
    MaxSteps    \* steps a run may take from one call to the next

VARIABLES
    source,     \* the function as constructed
    optimize,   \* CompileOptions::optimize
    pass,       \* the pass to perform, or "run", "returned"
    rounds,     \* rounds of simplification performed
    code,       \* the function as slot code
    graph,      \* the function as SSA
    wanted,     \* the run of the function as constructed: [at, slots, steps]
    got,        \* the run of the bytecode
    calls       \* calls made so far

backendVars == <<source, optimize, pass, rounds, code, graph, wanted, got, calls>>
-----------------------------------------------------------------------------
(* Registers for values *)

\* Values keep their homes; others get registers past the last home.
RegisterOf(g) ==
    LET homed == {v \in Defined(g): v \notin g.loose}
        loose == Ascending(Defined(g) \cap g.loose)
        top == Max({0} \cup {g.table[v]: v \in homed})
    IN [v \in Defined(g) |-> IF v \in homed THEN g.table[v]
                             ELSE top + CHOOSE i \in DOMAIN loose: loose[i] = v]

\* A mutant: the copies are made one after the other, as they are listed.
EmitInOrder(copies, next) ==
    [moves |-> [i \in DOMAIN copies |-> MoveTo(copies[i][1], copies[i][2])], next |-> next]

\* emit_copies: a copy whose destination is nobody's source is made first; when
\* there is none, a destination is saved in a new register.
RECURSIVE EmitCopies(_, _)
EmitCopies(copies, next) ==
    LET free == {i \in DOMAIN copies: \A j \in DOMAIN copies: copies[j][2] # copies[i][1]}
    IN IF copies = <<>> THEN [moves |-> <<>>, next |-> next]
       ELSE IF free # {}
       THEN LET i == Min(free)
                rest == EmitCopies(RemoveAt(copies, i), next)
            IN [rest EXCEPT !.moves = <<MoveTo(copies[i][1], copies[i][2])>> \o @]
       ELSE LET saved == copies[1][1]
                rest == EmitCopies([i \in DOMAIN copies |->
                          IF copies[i][2] = saved THEN <<copies[i][1], next>> ELSE copies[i]],
                          next + 1)
            IN [rest EXCEPT !.moves = <<MoveTo(next, saved)>> \o @]

\* The copies an edge needs.
Copies(reg, params, args) ==
    SelectSeq([i \in DOMAIN params |-> <<reg[params[i]], reg[args[i]]>>], LAMBDA c: c[1] # c[2])

LowerInstruction(reg, op) ==
    CASE op.op = "drop" -> DropOf(reg[op.of[1]])
      [] op.op = "cow" -> MoveTo(reg[op.to[1]], reg[op.of[1]])
      [] OTHER -> Ins(op.op, [i \in DOMAIN op.to |-> reg[op.to[i]]],
                      [i \in DOMAIN op.of |-> reg[op.of[i]]], op.k, 0)

\* lower_function: group 1 is the entry, 2b block b and 2b + 1 its false edge.
Lower(f, g) ==
    LET reg == RegisterOf(g)
        Empties == SelectSeq(g.seeds, LAMBDA v: v \in g.loose)
        entering == EmitCopies(Copies(reg, g.blocks[1].params, g.entry), Max({0} \cup Range(reg)) + 1)
        prologue == [i \in DOMAIN Empties |-> Ins("const", <<reg[Empties[i]]>>, <<>>, 2, 0)]
                        \o entering.moves
        start == [groups |-> <<IF prologue = <<>> THEN <<>> ELSE Append(prologue, JumpTo(2))>>,
                  next |-> entering.next]
        Edge(b, t, next) ==
            LET end == g.blocks[b].end
                to == end.to[t]
                made == EmitCopies(Copies(reg, g.blocks[to].params, end.args[t]), next)
            IN [made EXCEPT !.moves = Append(@, JumpTo(2 * to))]
        Emit(acc, b) ==
            LET end == g.blocks[b].end
                body == [i \in DOMAIN g.blocks[b].ops |-> LowerInstruction(reg, g.blocks[b].ops[i])]
                of == [i \in DOMAIN end.of |-> reg[end.of[i]]]
                Branch(to) == Ins("branch", <<>>, of, 0, to)
            IN CASE end.op = "return" ->
                      [acc EXCEPT !.groups = @ \o <<Append(body, Ins("return", <<>>, of, 0, 0)), <<>>>>]
                 [] end.op = "jump" ->
                      LET edge == Edge(b, 1, acc.next)
                      IN [groups |-> acc.groups \o <<body \o edge.moves, <<>>>>, next |-> edge.next]
                 [] end.op = "branch" ->
                      LET yes == Edge(b, 1, acc.next)
                          no == Edge(b, 2, yes.next)
                      IN IF end.to[1] = b + 1 /\ Len(yes.moves) = 1 /\ Len(no.moves) = 1
                         THEN [acc EXCEPT !.groups =
                                 @ \o <<Append(body, Branch(2 * end.to[2])), <<>>>>]
                         ELSE [groups |-> acc.groups
                                 \o <<Append(body, Branch(2 * b + 1)) \o yes.moves, no.moves>>,
                               next |-> no.next]
        done == FoldLeft(Emit, start, [b \in DOMAIN g.blocks |-> b])
    IN [f EXCEPT !.code = Assemble(done.groups), !.slots = done.next - 1]
-----------------------------------------------------------------------------
(* Passes *)

NoGraph == [blocks |-> <<>>, sealed |-> TRUE]
\* What a slot holds: a bit, or 2 for unit, with the call that made it if it is
\* an owned value; or a reference to the slot to, which is -1 once that is lost.
Value(bit, owner) == [bit |-> bit, owner |-> owner, to |-> 0]
Ref(r) == [bit |-> 0, owner |-> 0, to |-> r]
Unit == Value(2, 0)

Begin(f) ==
    [at |-> 1, steps |-> 0,
     slots |-> [r \in 1..f.slots |-> IF r <= f.params THEN Value(f.given[r], 0) ELSE Unit]]

BackendInit ==
    /\ \E input \in Inputs:
          /\ source = input.function
          /\ code = input.function
          /\ graph = input.graph
          /\ pass = IF input.graph = NoGraph THEN "release" ELSE "lower"
    /\ optimize \in Modes
    /\ rounds = 0 /\ calls = 0
    /\ wanted = Begin(source) /\ got = Begin(source)

runVars == <<wanted, got, calls>>

ReleasePass ==
    /\ pass = "release"
    /\ code' = InsertDrops(code)
    /\ pass' = "seal"
    /\ UNCHANGED <<source, optimize, rounds, graph, runVars>>

SealPass ==
    /\ pass = "seal"
    /\ graph' = Seal(code)
    /\ pass' = IF optimize THEN "simplify" ELSE "lower"
    /\ UNCHANGED <<source, optimize, rounds, code, runVars>>

\* Branch pruning can expose another join: up to four rounds.
SimplifyPass ==
    /\ pass = "simplify"
    /\ graph' = Simplify(graph)
    /\ rounds' = rounds + 1
    /\ pass' = IF graph' = graph \/ rounds' = 4 THEN "reuse" ELSE "simplify"
    /\ UNCHANGED <<source, optimize, code, runVars>>

ReusePass ==
    /\ pass = "reuse"
    /\ LET reused == ReuseExpressions(graph)
       IN graph' = IF reused = graph THEN graph ELSE Simplify(reused)
    /\ pass' = "lower"
    /\ UNCHANGED <<source, optimize, rounds, code, runVars>>

LowerPass ==
    /\ pass = "lower"
    /\ code' = Lower(code, graph)
    /\ graph' = NoGraph
    /\ pass' = IF optimize THEN "finish" ELSE "finalize"
    /\ UNCHANGED <<source, optimize, rounds, runVars>>

FinishPass ==
    /\ pass = "finish"
    /\ code' = FinishBackend(code)
    /\ pass' = "finalize"
    /\ UNCHANGED <<source, optimize, rounds, graph, runVars>>

\* finalize_register_drops.
FinalizePass ==
    /\ pass = "finalize"
    /\ code' = InsertDrops(code)
    /\ got' = Begin(code')
    /\ pass' = "run"
    /\ UNCHANGED <<source, optimize, rounds, graph, wanted, calls>>
-----------------------------------------------------------------------------
(* Running *)

IsRef(value) == value.to > 0
Cell(slots, r) == IF IsRef(slots[r]) THEN slots[r].to ELSE r
Read(slots, r) == slots[Cell(slots, r)]

\* RegisterCell::write: an assignment goes through a reference.
Written(slots, r, value) == [slots EXCEPT ![Cell(slots, r)] = value]

\* RegisterCell::detach: the references to the slot are lost.
Detached(slots, r) ==
    [x \in DOMAIN slots |-> CASE x = r -> Unit
                             [] slots[x] = Ref(r) -> Ref(-1)
                             [] OTHER -> slots[x]]

Flip(value) == IF value.bit = 0 THEN 1 ELSE 0
Equal(a, b) == IF a.bit = b.bit THEN 1 ELSE 0

\* The slots after an instruction.
Effect(ins, slots) ==
    LET Operand(i) == Read(slots, ins.of[i])
        to == ins.to[1]
    IN CASE ins.op = "const" -> Written(slots, to, Value(ins.k, 0))
         [] ins.op = "move" ->
              IF IsRef(slots[to])
              THEN IF to = ins.of[1] THEN slots ELSE Written(slots, to, Operand(1))
              ELSE [slots EXCEPT ![to] = slots[ins.of[1]]]
         [] ins.op = "not" -> Written(slots, to, Value(Flip(Operand(1)), 0))
         [] ins.op = "same" -> Written(slots, to, Value(Equal(Operand(1), Operand(2)), 0))
         [] ins.op = "store" ->
              Written(slots, ins.of[1], Value(Equal(Operand(1), Operand(2)), Operand(1).owner))
         [] ins.op = "ref" -> Written(slots, to, Ref(ins.of[1]))
         [] ins.op = "take" ->
              Written([slots EXCEPT ![ins.of[1]] = Unit], to, slots[ins.of[1]])
         [] ins.op = "drop" -> Detached(slots, ins.of[1])
         [] OTHER -> slots

NextAt(ins, run) ==
    CASE ins.op = "jump" -> ins.at
      [] ins.op = "branch" /\ Read(run.slots, ins.of[1]).bit = 0 -> ins.at
      [] OTHER -> run.at + 1

Stepped(f, run) ==
    LET ins == f.code[run.at]
    IN [at |-> NextAt(ins, run), slots |-> Effect(ins, run.slots), steps |-> run.steps + 1]

\* What construction means by its code: a slot that is not read again is empty,
\* unless a reference may reach it.
Expired(run) ==
    LET live == Liveness(source.code, {}, {})[run.at] \cup ProtectedSlots(source)
    IN [run EXCEPT !.slots = [r \in DOMAIN @ |-> IF r \in live THEN @[r] ELSE Unit]]

Visible(f, run) == f.code[run.at].op \in {"call", "return"}

SourceStep ==
    /\ pass = "run"
    /\ ~Visible(source, wanted) /\ wanted.steps < MaxSteps
    /\ wanted' = Expired(Stepped(source, wanted))
    /\ UNCHANGED <<source, optimize, pass, rounds, code, graph, got, calls>>

BytecodeStep ==
    /\ pass = "run"
    /\ Visible(source, wanted)
    /\ ~Visible(code, got) /\ got.steps < MaxSteps
    /\ got' = Stepped(code, got)
    /\ UNCHANGED <<source, optimize, pass, rounds, code, graph, wanted, calls>>

\* Both are at a call: it gives both the same result.
Call ==
    /\ pass = "run" /\ calls < 3
    /\ Visible(source, wanted) /\ Visible(code, got)
    /\ source.code[wanted.at].op = "call" /\ code.code[got.at].op = "call"
    /\ calls' = calls + 1
    /\ \E bit \in {0, 1}:
          LET Answered(f, run) ==
                 LET ins == f.code[run.at]
                 IN [at |-> run.at + 1, steps |-> 0, slots |->
                       Written(run.slots, ins.to[1],
                               Value(bit, IF ins.k \in Owning THEN calls + 1 ELSE 0))]
          IN wanted' = Expired(Answered(source, wanted)) /\ got' = Answered(code, got)
    /\ UNCHANGED <<source, optimize, pass, rounds, code, graph>>

BackendNext ==
    \/ ReleasePass \/ SealPass \/ SimplifyPass \/ ReusePass \/ LowerPass \/ FinishPass
    \/ FinalizePass \/ SourceStep \/ BytecodeStep \/ Call
-----------------------------------------------------------------------------
Operands(f, run) ==
    LET ins == f.code[run.at]
    IN <<ins.op, ins.k, [i \in DOMAIN ins.of |-> Read(run.slots, ins.of[i])]>>

\* The owned values a run holds, each with the number of slots that hold it.
Owners(run) ==
    LET Holding(o) == {r \in DOMAIN run.slots: run.slots[r].owner = o}
    IN [o \in {run.slots[r].owner: r \in DOMAIN run.slots} \ {0} |-> Cardinality(Holding(o))]

\* Sealing finds a binding for every slot that is read, and the bytecode does
\* what the constructed code does: at each call and at the return it is at the
\* same place with the same operands, and the owned values it holds, and in how
\* many slots, are those that are still to be read or that a reference may
\* reach, so that no pass loses, doubles, delays or hastens a release.
BackendFaithful ==
    /\ graph.sealed
    /\ (pass = "run" /\ Visible(source, wanted)) =>
         /\ got.steps < MaxSteps
         /\ Visible(code, got) =>
              /\ Operands(code, got) = Operands(source, wanted)
              /\ Owners(got) = Owners(wanted)
=============================================================================
