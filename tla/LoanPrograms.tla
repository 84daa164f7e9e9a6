---------------------------- MODULE LoanPrograms ----------------------------
(***************************************************************************)
(* Inputs of the loan checker.  v is a list, r and s refer into it, w to   *)
(* all of it, x is a record that holds a reference, p a parameter of       *)
(* reference type, c refers to b, which is a Boolean or an enum of two     *)
(* variants, and i and j are indexes.  A phrase is what one statement      *)
(* lowers to.                                                              *)
(***************************************************************************)
EXTENDS Integers, Sequences

Op(op, place) == [op |-> op, place |-> place, value |-> <<>>, fields |-> <<>>, through |-> FALSE]
Store(place, value) == [Op("store", place) EXCEPT !.value = <<value>>]
Ref(l) == [kind |-> "reborrow", loan |-> l]
Loan(origin, below, k) == [origin |-> origin, below |-> below, at |-> <<1, k>>]

\* let x = ref ...
Bind(x, l) == <<Store(<<x>>, Ref(l)), Op("init", <<x>>)>>
First == <<"v", "0">>

\* The borrows a function starts with, and the place it uses later.
Borrow(ops, loans, user) == [ops |-> ops, loans |-> loans, user |-> user]
One(origin, below) == Borrow(Bind("r", 1), <<Loan(origin, below, 1)>>, <<"r">>)
Borrows ==
  {One(<<"v">>, FALSE), One(First, FALSE), One(<<"v", "[i]">>, FALSE), One(<<"v">>, TRUE)} \cup
  {Borrow(Bind("r", 1) \o Bind("s", 2), <<Loan(First, FALSE, 1), Loan(<<"r">>, FALSE, 3)>>, <<"s">>),
   Borrow(Bind("w", 1) \o Bind("r", 2), <<Loan(<<"v">>, FALSE, 1), Loan(First, FALSE, 3)>>, <<"r">>),
   Borrow(Bind("c", 1) \o Bind("r", 2), <<Loan(<<"b">>, FALSE, 1), Loan(First, FALSE, 3)>>, <<"r">>),
   Borrow(<<[Op("store", <<"x">>) EXCEPT !.fields = <<[path |-> <<"f">>, value |-> <<Ref(1)>>]>>],
            Op("init", <<"x">>)>>, <<Loan(First, FALSE, 1)>>, <<"x", "f">>)}

Use(s) == <<Op("read", s.user)>>
Assign(place) == <<Store(place, [kind |-> "empty"]), Op("write", place)>>
Let(x) == <<Store(<<x>>, [kind |-> "empty"]), Op("init", <<x>>)>>
Push(place) == <<Op("forget", place), Op("reshape", place)>>
Move(from, to) == <<Op("move", from), Store(to, [kind |-> "move", place |-> from]), Op("init", to)>>
Mutate(x) == <<Op("forget", <<x>>)>>
CallValue == <<Op("forgetAll", <<>>)>>

Goto(to) == [end |-> "goto", to |-> <<to>>]
Either(a, b) == [end |-> "branch", to |-> <<a, b>>]
Test(subject, a, b) == [end |-> "test", to |-> <<a, b>>, subject |-> subject]
IsTrue(a, b) == Test(<<"bool", <<"b">>>>, a, b)
Is(variant, a, b) == Test(<<"variant", <<"b">>, variant>>, a, b)
Compare(kind, a, b) == Test(<<kind, <<"i">>, <<"j">>>>, a, b)
Save(value, to) == [end |-> "value", to |-> <<to>>, place |-> <<"b">>, value |-> value]
Return == [end |-> "return", to |-> <<>>]
Block(ops, end) == [ops |-> ops, end |-> end]

Changes(s) ==
  {Push(<<"v">>), Assign(First), Assign(<<"v", "1">>), Assign(<<"v", "[j]">>), Assign(<<"v">>),
   <<Op("consume", <<"v">>)>>, Move(<<"v">>, <<"u">>), Move(s.user, <<"t">>), <<>>} \cup
  (IF Head(s.ops).place = <<"w">> THEN {Push(<<"w">>)} ELSE {})
Between(s) ==
  {<<>>, Let("b"), Mutate("b"), CallValue, Use(s)} \cup
  (IF Head(s.ops).place = <<"c">> THEN {Mutate("c")} ELSE {})
\* The indexes are compared where the borrow has one.
Compared(s, a, b) == IF s.loans[1].origin = <<"v", "[i]">> THEN {Compare("equal", a, b)} ELSE {}

\* A change in one arm of a condition, the use in one of another.  Each arm of
\* the first may also save in b which one it was.
Diamond(s, first, change, saved, between, second) ==
  LET arm(ops, value) == IF saved THEN Block(ops \o Let("b"), Save(value, 4)) ELSE Block(ops, Goto(4))
  IN [loans |-> s.loans,
      blocks |-> <<Block(s.ops, first), arm(change, TRUE), arm(<<>>, FALSE), Block(between, second),
                   Block(<<>>, Return), Block(Use(s), Return)>>]
Diamonds ==
  UNION {{Diamond(s, first, change, saved, between, IsTrue(5, 6)) :
            first \in {Either(2, 3), IsTrue(2, 3)} \cup Compared(s, 3, 2),
            change \in Changes(s), saved \in BOOLEAN, between \in Between(s)} : s \in Borrows} \cup
  UNION {{Diamond(s, first, change, FALSE, between, second) :
            first \in {Is("true", 2, 3), Compare("less", 2, 3)}, change \in Changes(s),
            between \in {<<>>, Mutate("b")}, second \in {Is("true", 5, 6), Is("false", 6, 5)}} :
           s \in Borrows}

\* The borrow before a loop or in its scope, a change and a use in it.
Scope(s) == [k \in 1..Len(s.loans) |-> Op("destroy", s.ops[2 * (Len(s.loans) - k) + 1].place)]
Loop(s, inside, test, one, two) ==
  [loans |-> IF inside THEN [l \in DOMAIN s.loans |-> [s.loans[l] EXCEPT !.at[1] = 3]] ELSE s.loans,
   blocks |-> <<Block(IF inside THEN <<>> ELSE s.ops, Goto(2)), Block(<<>>, test),
                Block((IF inside THEN s.ops ELSE <<>>) \o one \o two
                        \o (IF inside THEN Scope(s) ELSE <<>>), Goto(2)), Block(<<>>, Return)>>]
Loops ==
  UNION {{Loop(s, inside, test, one, two) :
            inside \in BOOLEAN,
            test \in {Either(3, 4)} \cup Compared(s, 4, 3),
            one, two \in Changes(s) \cup {Use(s)}} : s \in Borrows}

\* What a function returns: a reference into its parameter or into a local.
Returns(place, change) ==
  [loans |-> <<Loan(<<"p">>, FALSE, 1), Loan(First, FALSE, 3), Loan(<<"p", "0">>, FALSE, 5)>>,
   blocks |-> <<Block(Bind("p", 1) \o Bind("r", 2) \o Bind("s", 3) \o change, Either(2, 3)),
                Block(Move(<<"s">>, <<"r">>), Goto(3)),
                Block(<<[Op("return", <<>>) EXCEPT !.value = <<[kind |-> "place", place |-> place]>>]>>,
                      Return)>>]
Returning ==
  {Returns(place, change) : place \in {<<"r">>, <<"s">>, <<"p">>},
     change \in {<<>>, Assign(<<"p", "0">>), Push(<<"p">>), Push(<<"v">>)}}

\* A reference is assigned through before the list grows:
\*   let r = ref v[0]
\*   r = 5
\*   v.push(20)
\*   r
WrittenThrough ==
  {[loans |-> <<Loan(First, FALSE, 1)>>,
    blocks |-> <<Block(Bind("r", 1) \o <<[Store(<<"r">>, [kind |-> "empty"]) EXCEPT !.through = TRUE],
                                         Op("init", <<"r">>)>> \o Push(<<"v">>) \o <<Op("read", <<"r">>)>>,
                       Return)>>]}
=============================================================================
