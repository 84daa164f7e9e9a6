----------------------------- MODULE MCCompiler -----------------------------
(***************************************************************************)
(* The compiler's analyses, each over every function, or sequence of edits *)
(* of a package, that a few phrases and edges make.  They share no state,  *)
(* so a behaviour exercises one part and leaves the others as they began.  *)
(*   records, lists     the move checker                                   *)
(*   boxes              the same where it does not find the type of a      *)
(*                      field that has a deinit                            *)
(*   loops, branches    the completion analysis; replaced: functions it    *)
(*                      should refuse                                      *)
(*   conditions, turns  the loan checker; written: a function it should    *)
(*                      refuse                                             *)
(*   edits, declared    the effects of three functions; recovery: with     *)
(*                      errors in a recursive pair                         *)
(*   backend            the passes from constructed code to bytecode       *)
(***************************************************************************)
EXTENDS MoveCheck, MovePrograms, CompletionPrograms, EffectPrograms

CONSTANT Parts

VARIABLES part,
  flow, seen, states, decision, place, holds, sent, done, escaped,
  loaned, pass, blocks, points, parents, needed, guarded, reached, step, refs, values,
  body, edits, contracts, bodies, phase, stubs, published, next, failed, seeds, rows, deps,
  cached, processed, queue,
  source, optimize, stage, rounds, code, graph, wanted, got, calls

completionVars == <<flow, seen, states, decision, place, holds, sent, done, escaped>>
loanVars == <<loaned, pass, blocks, points, parents, needed, guarded, reached, step, refs, values>>
effectVars == <<body, edits, contracts, bodies, phase, stubs, published, next, failed, seeds, rows,
                deps, cached, processed, queue>>
backendVars == <<source, optimize, stage, rounds, code, graph, wanted, got, calls>>
compilerVars == <<part, moveVars, completionVars, loanVars, effectVars, backendVars>>

\* What the move checker is given.
MoveFunctions == RecordFunctions \cup ListFunctions \cup BoxFunctions \cup {NoMoves}
MovePlaces == RecordPlaces \cup ListPlaces \cup BoxPlaces
MoveDeinits == RecordDeinits \cup Generic
ASSUME MoveAssumption

Nothing == {<<[ops |-> <<>>, to |-> <<>>, end |-> "return"]>>}
Completion(CompletionFunctions, PathLimit) == INSTANCE RemoteCompletion WITH
  Functions <- CompletionFunctions,
  mir <- flow, work <- states, verdict <- decision, at <- place,
  Parameters <- <<>>, DirectFuture <- FALSE, MaxRequests <- 9

Borrowing == INSTANCE LoanPrograms
Loans(LoanFunctions, MaxAlternatives) == INSTANCE Regions WITH
  fn <- loaned, phase <- pass, work <- blocks, at <- step, held <- refs,
  IndexOf <- [x \in {"[i]", "[j]"} |-> IF x = "[i]" THEN "i" ELSE "j"], Elements <- <<"0", "1">>,
  Scalars <- [x \in {"b", "i", "j"} |-> IF x = "b" THEN {"true", "false"} ELSE {"0", "1"}],
  References <- {"p"}
Unborrowed == {[loans |-> <<>>, blocks |-> <<[ops |-> <<>>, end |-> Borrowing!Return]>>]}

Effects(Bodies, Start, Explicit, MaxEdits) == INSTANCE EffectInference WITH
  entries <- bodies, Order <- <<"f", "g", "k">>

Building == INSTANCE BackendPrograms WITH Owning <- {2}
Backend(Inputs, Modes) == INSTANCE VmBackend WITH pass <- stage, Owning <- {2}, MaxSteps <- 60
Empty == {Building!Input(<<Building!Return(1)>>)}
-----------------------------------------------------------------------------
CompilerInit ==
  /\ part \in Parts
  /\ CASE part = "records" -> mir \in RecordFunctions
       [] part = "lists" -> mir \in ListFunctions
       [] part = "boxes" -> mir \in BoxFunctions
       [] OTHER -> mir = NoMoves
  /\ MoveInit
  /\ CASE part = "loops" -> Completion(LoopFunctions, 2)!CompletionInit
       [] part = "branches" -> Completion(BranchFunctions, 256)!CompletionInit
       [] part = "replaced" -> Completion(ReplacedFunctions, 256)!CompletionInit
       [] OTHER -> Completion(Nothing, 1)!CompletionInit
  /\ CASE part = "conditions" -> Loans(Borrowing!Diamonds \cup Borrowing!Returning, 16)!RegionInit
       [] part = "turns" -> Loans(Borrowing!Loops, 1)!RegionInit
       [] part = "written" -> Loans(Borrowing!WrittenThrough, 16)!RegionInit
       [] OTHER -> Loans(Unborrowed, 16)!RegionInit
  /\ CASE part = "edits" -> Effects(Sound, AnyStart, <<>>, 2)!EffectInit
       [] part = "declared" -> Effects(DeclaredTexts, DeclaredStart, ExplicitG, 2)!EffectInit
       [] OTHER -> Effects(CycleTexts, CycleStart, <<>>, 5)!EffectInit
  /\ IF part = "backend" THEN Backend(Building!BackendInputs, BOOLEAN)!BackendInit
     ELSE Backend(Empty, {FALSE})!BackendInit

CompilerNext ==
  /\ UNCHANGED part
  /\ \/ /\ part \in {"records", "lists", "boxes"} /\ MoveNext
        /\ UNCHANGED <<completionVars, loanVars, effectVars, backendVars>>
     \/ /\ \/ part = "loops" /\ Completion(LoopFunctions, 2)!CompletionNext
           \/ part \in {"branches", "replaced"} /\ Completion(Nothing, 256)!CompletionNext
        /\ UNCHANGED <<moveVars, loanVars, effectVars, backendVars>>
     \/ /\ \/ part \in {"conditions", "written"} /\ Loans({}, 16)!RegionNext
           \/ part = "turns" /\ Loans({}, 1)!RegionNext
        /\ UNCHANGED <<moveVars, completionVars, effectVars, backendVars>>
     \/ /\ \/ part = "edits" /\ Effects(Sound, AnyStart, <<>>, 2)!EffectNext
           \/ part = "declared" /\ Effects(DeclaredTexts, DeclaredStart, ExplicitG, 2)!EffectNext
           \/ part = "recovery" /\ Effects(CycleTexts, CycleStart, <<>>, 5)!EffectNext
        /\ UNCHANGED <<moveVars, completionVars, loanVars, backendVars>>
     \/ /\ part = "backend" /\ Backend({}, {})!BackendNext
        /\ UNCHANGED <<moveVars, completionVars, loanVars, effectVars>>

CompilerSpec == CompilerInit /\ [][CompilerNext]_compilerVars
-----------------------------------------------------------------------------
\* Requests complete before their remote is dropped: RemoteCompletion!OwnerOutlivesRequests.
OwnerOutlivesRequests == Completion(Nothing, 256)!OwnerOutlivesRequests

\* The same within the limit on paths: RemoteCompletion!CompletionSound.
CompletionSound ==
  /\ part = "loops" => Completion(Nothing, 2)!CompletionSound
  /\ part = "branches" => Completion(Nothing, 256)!CompletionSound

\* Accepted functions use only references that are valid: Regions!LoansSound.
LoansSound == Loans({}, 16)!LoansSound

\* The same where a reference is assigned through: Regions!BorrowsValid.
BorrowsValid == Loans({}, 16)!BorrowsValid

\* A finished check has the rows of a check from nothing: EffectInference!EffectsSound.
EffectsSound ==
  /\ part = "edits" => Effects(Sound, AnyStart, <<>>, 2)!EffectsSound
  /\ part = "declared" => Effects(DeclaredTexts, DeclaredStart, ExplicitG, 2)!EffectsSound

\* The same after errors in the package: EffectInference!EffectsExact.
EffectsExact == part = "recovery" => Effects(CycleTexts, CycleStart, <<>>, 5)!EffectsExact

\* The bytecode does what the constructed code does: VmBackend!BackendFaithful.
BackendFaithful == part = "backend" => Backend({}, {})!BackendFaithful
=============================================================================
