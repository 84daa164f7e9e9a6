-------------------------- MODULE BackendPrograms ---------------------------
(***************************************************************************)
(* Inputs of the back end: functions with one parameter whose statements   *)
(* are chosen from small sets, around a loop or a branch.                  *)
(***************************************************************************)
EXTENDS SharedSsa

Const(r, k) == Ins("const", <<r>>, <<>>, k, 0)
Not(r, s) == Ins("not", <<r>>, <<s>>, 0, 0)
Same(r, s, t) == Ins("same", <<r>>, <<s, t>>, 0, 0)
Made(r) == Ins("call", <<r>>, <<>>, 2, 0)          \* an owned value
Asked(r, of) == Ins("call", <<r>>, of, 1, 0)
Reference(r, s) == Ins("ref", <<r>>, <<s>>, 0, 0)
Take(r, s) == Ins("take", <<r>>, <<s>>, 0, 0)
Store(r, s) == Ins("store", <<>>, <<r, s>>, 0, 0)
BranchTo(r, i) == Ins("branch", <<>>, <<r>>, 0, i)
Return(r) == Ins("return", <<>>, <<r>>, 0, 0)

Input(statements) ==
    [function |-> [code |-> statements, params |-> 1, slots |-> 5, result |-> "bool", given |-> <<1>>],
     graph |-> [blocks |-> <<>>, sealed |-> TRUE]]

\* The code as the language's rules see it: releases are not uses, and an
\* assignment to a reference uses it.
Seen(code) ==
    LET refs == UNION {Defs(code[i]): i \in At(code, {"ref"})}
    IN [i \in DOMAIN code |->
          CASE code[i].op = "drop" -> [code[i] EXCEPT !.to = <<>>, !.of = <<>>]
            [] code[i].op # "ref" /\ Defs(code[i]) \cap refs # {} ->
                 [code[i] EXCEPT !.to = <<>>, !.of = @ \o code[i].to]
            [] OTHER -> code[i]]

\* Slots are assigned before they are read, not read once moved or released,
\* and a reference lives within one turn of a loop.
Legal(code) ==
    LET seen == Seen(code)
        live == Liveness(seen, {}, {})
        held == Liveness(code, {}, {})
    IN /\ live[1] \subseteq {1}
       /\ \A i \in At(code, {"take", "drop"}): Uses(code[i]) \cap LiveOut(seen, live, i) = {}
       /\ \A i \in At(code, {"ref"}), j \in At(code, {"jump"}):
            code[j].at <= j => Defs(code[i]) \cap held[code[j].at] = {}

Legally(codes) == {Input(c): c \in {d \in codes: Legal(d)}}
-----------------------------------------------------------------------------
(* Scalars: constants, copies and equal expressions. *)

Scalar == {Const(2, 1), MoveTo(3, 2), MoveTo(2, 3), Not(2, 2), Not(3, 2), Same(3, 2, 3), Not(5, 2)}

ScalarLoops ==
    Legally({<<Const(2, 0), Const(3, 1), Asked(4, <<>>), BranchTo(4, 8), x, y, JumpTo(3), z,
               Return(2)>>:
               x \in Scalar, y \in Scalar, z \in {Not(2, 2), Same(2, 2, 3), MoveTo(2, 3)}})

ScalarBranches ==
    Legally({<<w, x, BranchTo(2, 6), y, JumpTo(7), Not(3, 2), z, Return(3)>>:
               w \in {Const(2, 1), Not(2, 1)}, x \in Scalar,
               y \in Scalar, z \in {Not(3, 3), Same(3, 2, 3)}})

\* The first branch leaves a value that is no constant.
ScalarJoins ==
    Legally({<<Const(2, 0), Asked(4, <<>>), BranchTo(4, 5), Const(2, 1), x, y, BranchTo(c, 9), z,
               w, Return(3)>>:
               x \in Scalar, y \in Scalar, c \in {2, 3}, z \in {Not(3, 2), Const(2, 0)},
               w \in {Same(3, 2, 3), Not(3, 3)}})
-----------------------------------------------------------------------------
(* Owned values: moved, released, kept over a loop. *)

Owned == {Take(3, 2), DropOf(2), Made(2), Asked(5, <<2>>), MoveTo(3, 2), DropOf(3)}

OwnedLoops ==
    Legally({<<Made(2), Asked(4, <<>>), BranchTo(4, 7), x, y, JumpTo(2), z, Return(4)>>:
               x \in Owned, y \in Owned, z \in Owned})

OwnedBranches ==
    Legally({<<Made(2), Asked(4, <<>>), BranchTo(4, 6), x, JumpTo(7), y, z, Asked(5, <<1>>), Return(4)>>:
               x \in Owned, y \in Owned, z \in Owned})
-----------------------------------------------------------------------------
(* References: assigned through, stored through, copied. *)

Referring == {Const(3, 1), Not(3, 3), Store(3, 1), Store(2, 3), MoveTo(2, 1), Asked(5, <<3>>),
              MoveTo(4, 3)}

ReferenceLines ==
    Legally({<<Const(2, 0), Reference(3, 2), x, y, z, w, Return(5)>>:
               x \in Referring \cup {Not(5, 1)}, y \in Referring,
               z \in {Not(5, 2), Not(4, 3)}, w \in {Same(5, 5, 3), Not(5, 4)}})

ReferenceLoops ==
    Legally({<<Const(2, 0), Asked(4, <<2>>), BranchTo(4, 8), Reference(3, 2), x, y, JumpTo(2),
               Not(5, 2), Return(5)>>: x \in Referring, y \in Referring})

ReferenceBranches ==
    Legally({<<Const(2, 0), Asked(4, <<>>), Reference(3, 2), BranchTo(4, 7), x, JumpTo(8), y,
               Asked(5, <<2, 3>>), Return(2)>>: x \in Referring, y \in Referring})
-----------------------------------------------------------------------------
(* SSA whose back edge permutes or duplicates three slots, which sealing never *)
(* makes but lower_function accepts, with the code it comes from.              *)

Permuting(from) ==
    [function |->
       [code |-> <<Asked(4, <<1, 2, 3>>), BranchTo(4, 10), MoveTo(5, 1), MoveTo(6, 2), MoveTo(7, 3)>>
                   \o [i \in 1..3 |-> MoveTo(i, 4 + from[i])] \o <<JumpTo(1), Return(1)>>,
        params |-> 3, slots |-> 7, result |-> "bool", given |-> <<3, 4, 5>>],
     graph |->
       [blocks |-> <<[params |-> <<4, 5, 6>>, ops |-> <<Op("call", <<7>>, <<4, 5, 6>>, 1)>>,
                      end |-> End("branch", <<7>>, <<1, 2>>,
                                  <<[i \in 1..3 |-> 3 + from[i]], <<4>>>>)],
                     [params |-> <<8>>, ops |-> <<>>, end |-> End("return", <<8>>, <<>>, <<>>)]>>,
        table |-> <<1, 2, 3, 1, 2, 3, 4, 1>>, loose |-> {}, seeds |-> <<>>, writes |-> {},
        sealed |-> TRUE, inputs |-> 3, entry |-> <<1, 2, 3>>,
        hints |-> [r \in 1..7 |-> "bool"]]]

Permuted == {Permuting(from): from \in [1..3 -> 1..3]}

BackendInputs ==
    ScalarLoops \cup ScalarBranches \cup ScalarJoins \cup OwnedLoops \cup OwnedBranches
        \cup ReferenceLines \cup ReferenceLoops \cup ReferenceBranches \cup Permuted
=============================================================================
