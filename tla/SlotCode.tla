------------------------------ MODULE SlotCode ------------------------------
(***************************************************************************)
(* Code over numbered slots, which is both what construction hands to      *)
(* sealing and the executable bytecode: its liveness analysis              *)
(* (bytecode/src/codegen/storage/analysis.rs) and the insertion of         *)
(* releases (lifetimes.rs).                                                *)
(*                                                                         *)
(* An instruction is [op, to, of, k, at]: to the slots it defines, of the  *)
(* slots it uses, k its constant or call site, at its target.  The         *)
(* operations stand for their kinds:                                       *)
(*   const, move, not, same    scalar instructions; k = 2 is unit          *)
(*   call                      a call: its operands and result are seen    *)
(*   store                     StoreField of the first operand             *)
(*   ref, take, drop           MakeWholeReference, MoveOut, Drop           *)
(*   jump, branch, return      branch is JumpIfFalse                       *)
(* A function is [code, params, slots, result, given]: its parameters are  *)
(* 1..params, result is the type it returns and given what it is called    *)
(* with.                                                                   *)
(***************************************************************************)
EXTENDS Integers, Sequences, FiniteSets, SequencesExt, FiniteSetsExt

Ins(op, to, of, k, at) == [op |-> op, to |-> to, of |-> of, k |-> k, at |-> at]
DropOf(r) == Ins("drop", <<r>>, <<r>>, 0, 0)
MoveTo(r, s) == Ins("move", <<r>>, <<s>>, 0, 0)
JumpTo(i) == Ins("jump", <<>>, <<>>, 0, i)

Defs(ins) == Range(ins.to)
Uses(ins) == Range(ins.of)
Registers(code) == UNION {Defs(code[i]) \cup Uses(code[i]): i \in DOMAIN code}
At(code, ops) == {i \in DOMAIN code: code[i].op \in ops}
Ascending(S) == SelectSeq([i \in 1..Max({0} \cup S) |-> i], LAMBDA i: i \in S)

Successors(code, i) ==
    CASE code[i].op = "jump" -> {code[i].at}
      [] code[i].op = "return" -> {}
      [] code[i].op = "branch" -> {code[i].at, i + 1} \cap DOMAIN code
      [] OTHER -> {i + 1} \cap DOMAIN code
-----------------------------------------------------------------------------
(* Liveness *)

\* What an instruction reads: at a return also the slots that outlive it, and
\* of a slot that may hold a reference its binding, since an assignment then
\* goes through it.
Reads(ins, exits, homes) ==
    Uses(ins) \cup (IF ins.op = "return" THEN exits ELSE {})
              \cup (IF ins.op = "drop" THEN {} ELSE Defs(ins) \cap homes)

LiveOut(code, live, i) == UNION {live[s]: s \in Successors(code, i)}

\* The least solution, by rounds from the last instruction to the first.
RECURSIVE Solve(_, _, _, _)
Solve(code, exits, homes, live) ==
    LET Step(acc, i) ==
            [acc EXCEPT ![i] = Reads(code[i], exits, homes)
                                   \cup (LiveOut(code, acc, i) \ Defs(code[i]))]
        next == FoldLeft(Step, live, Reverse([i \in DOMAIN code |-> i]))
    IN IF next = live THEN live ELSE Solve(code, exits, homes, next)

\* live_in of each instruction.
Liveness(code, exits, homes) == Solve(code, exits, homes, [i \in DOMAIN code |-> {}])
-----------------------------------------------------------------------------
(* Insertion of releases *)

\* The code of groups of instructions whose targets are numbers of groups.
Assemble(groups) ==
    LET starts == FoldLeft(LAMBDA s, g: Append(s, Last(s) + Len(g)), <<1>>, groups)
        Placed(ins) ==
            IF ins.op \in {"jump", "branch"} THEN [ins EXCEPT !.at = starts[@]] ELSE ins
    IN FoldLeft(LAMBDA code, g: code \o [i \in DOMAIN g |-> Placed(g[i])], <<>>, groups)

ReferenceOrigins(code) == UNION {Uses(code[i]): i \in At(code, {"ref"})}

\* Slots whose identity matters, which are never released early: parameters
\* that are assigned, and the origins of references.
ProtectedSlots(f) ==
    {r \in 1..f.params: \E i \in DOMAIN f.code: r \in Defs(f.code[i])}
        \cup ReferenceOrigins(f.code)

DropsOf(S) == LET slots == Ascending(S) IN [i \in DOMAIN slots |-> DropOf(slots[i])]

\* The operands and results of instruction i that are dead after it.
DyingRegisters(f, live, i) ==
    (Uses(f.code[i]) \cup Defs(f.code[i])) \ (LiveOut(f.code, live, i) \cup ProtectedSlots(f))

\* The slots live at a branch and dead at its successor.
EdgeDrops(f, live, i, s) == live[i] \ (live[s] \cup ProtectedSlots(f))

\* Unused parameters are released on entry; other slots after the instruction
\* that used them last, and on the edges of a branch.  A false edge with
\* releases gets a block of its own at the end.
InsertDrops(f) ==
    LET n == Len(f.code)
        live == Liveness(f.code, {}, {})
        unused == (1..f.params) \ (live[1] \cup ProtectedSlots(f))
        cleanups == Ascending({i \in At(f.code, {"branch"}): EdgeDrops(f, live, i, f.code[i].at) # {}})
        Group(i) ==
            LET ins == f.code[i]
            IN CASE ins.op \in {"drop", "jump", "return"} -> <<ins>>
                 [] ins.op = "branch" ->
                      <<IF i \in Range(cleanups)
                        THEN [ins EXCEPT !.at = n + CHOOSE c \in DOMAIN cleanups: cleanups[c] = i]
                        ELSE ins>>
                      \o DropsOf(IF i < n THEN EdgeDrops(f, live, i, i + 1) ELSE {})
                 [] OTHER -> <<ins>> \o DropsOf(DyingRegisters(f, live, i))
        Cleanup(i) ==
            DropsOf(EdgeDrops(f, live, i, f.code[i].at)) \o <<JumpTo(f.code[i].at)>>
    IN [f EXCEPT !.code =
          Assemble([i \in 1..n |-> (IF i = 1 THEN DropsOf(unused) ELSE <<>>) \o Group(i)]
                   \o [c \in DOMAIN cleanups |-> Cleanup(cleanups[c])])]
=============================================================================
