---------------------------- MODULE MovePrograms ----------------------------
(***************************************************************************)
(* Inputs of the move checker: functions of three blocks.  The first       *)
(* initializes the local and performs a phrase, the others a phrase each,  *)
(* and a block has up to two successors, itself and the entry included.  A *)
(* phrase is what one construct of the language lowers to.                 *)
(***************************************************************************)
EXTENDS Sequences

Op(op, place) == [op |-> op, place |-> place]

RecordPlaces == {<<"r">>, <<"r", "f">>, <<"r", "g">>, <<"r", "f", "h">>}
Construct == {<<Op("init", <<"r">>)>>, <<Op("init", <<"r">>), Op("defer", <<"r", "f">>)>>}
RecordPhrases == Construct \cup
    {<<Op(u, p)>>: u \in {"read", "move"}, p \in {<<"r">>, <<"r", "f", "h">>}} \cup
    {<<Op("destroy", <<"r">>)>>, <<Op("write", <<"r", "f">>)>>, <<Op("move", <<"r", "f">>)>>,
     <<Op("write", <<"r", "f", "h">>)>>, <<Op("read", <<"r", "g">>)>>}
RecordDeinits == {<<"r", "f">>}

ListPlaces == {<<"a">>, <<"a", "0">>, <<"a", "1">>, <<"a", "i">>}
Create == {<<Op("init", <<"a">>)>>}
ListPhrases == Create \cup
    {<<Op("read", p)>>: p \in {<<"a">>, <<"a", "1">>, <<"a", "i">>}} \cup
    {<<Op("move", p)>>: p \in {<<"a">>, <<"a", "0">>, <<"a", "i">>}}

\* A record Box with one field, declared with the parameter of the record,
\* that holds a value with deinit.
BoxPlaces == {<<"b">>, <<"b", "value">>, <<"b", "value", "handle">>}
Wrap == {<<Op("init", <<"b">>)>>}
BoxPhrases == Wrap \cup
    {<<Op(u, p)>>: u \in {"read", "move"}, p \in BoxPlaces} \cup
    {<<Op("destroy", <<"b">>)>>, <<Op("write", <<"b", "value">>)>>}
Generic == {<<"b", "value">>}

NoMoves == <<[ops |-> <<>>, to |-> <<>>]>>
FunctionsOf(creations, phrases, starts, edges) ==
    [ops: {creation \o first: creation \in creations, first \in phrases}, to: starts]
        \X [ops: phrases, to: edges]
        \X [ops: phrases, to: {<<>>, <<1, 2>>}]

RecordFunctions == FunctionsOf(Construct, RecordPhrases, {<<3, 2>>}, {<<>>, <<3>>, <<1, 2>>})
ListFunctions == FunctionsOf(Create, ListPhrases, {<<2>>, <<3, 2>>}, {<<>>, <<3>>, <<2, 3>>, <<1, 2>>})
BoxFunctions == FunctionsOf(Wrap, BoxPhrases, {<<3, 2>>}, {<<>>, <<3>>, <<1, 2>>})
=============================================================================
