----------------------------- MODULE ToolsProofs -----------------------------
(***************************************************************************)
(* The editor's servers.  For every program, every depth of its stack and  *)
(* every sequence of requests, a breakpoint stops the program exactly when *)
(* its line is visited.  For every set of documents and every interleaving *)
(* of the language server's threads, diagnostics match the editor's texts, *)
(* renames are computed from them, and no answer rests on what the editor  *)
(* had closed or declared changed.                                         *)
(***************************************************************************)
EXTENDS LanguageServer, Debugger, FiniteSetTheorems, SequenceTheorems, WellFoundedInduction,
        TLAPS

(***************************************************************************)
(* A set of numbers has a least one: what induction rests on.              *)
(***************************************************************************)
LEMMA LeastNumber ==
  ASSUME NEW S \in SUBSET Nat, S # {}
  PROVE  \E x \in S : \A y \in S : x <= y
<1> DEFINE R == OpToRel(<, Nat)
<1>1. IsWellFoundedOn(R, Nat)
  BY NatLessThanWellFounded
<1>2. \A x, y \in Nat : y < x => <<y, x>> \in R
  BY DEF OpToRel
<1> HIDE DEF R
<1>3. PICK x \in S : \A y \in S : ~(<<y, x>> \in R)
  BY <1>1, WFMin
<1>4. \A y \in S : ~(y < x)
  BY <1>2, <1>3, Zenon
<1> QED
  BY <1>4
-----------------------------------------------------------------------------
(***************************************************************************)
(* The inductive invariant of the debugger.  Both memories of the session  *)
(* are compared with what the frames themselves know of their visits.      *)
(***************************************************************************)
Frame == [function : DOMAIN Layout, instruction : Nat \ {0}, seen : Nat, from : Nat, at : Nat]
Position == [function : DOMAIN Layout, instruction : Nat, depth : Nat, line : Nat]

\* A place that was visited.
OnItsLine(p) == p.instruction > 0 /\ p.line = Layout[p.function][p.instruction]

\* Shapes that DebuggerTypeOK leaves open.
DebuggerShaped ==
  /\ stack \in Seq(Frame) /\ Len(stack) \in 1..MaxDepth
  /\ \A d \in 1..Len(stack) : stack[d].function \notin Hidden =>
       stack[d].instruction \in DOMAIN Layout[stack[d].function]
  /\ previous \in Position /\ (previous.depth > 0 => OnItsLine(previous))
  /\ \A d \in DOMAIN breakpointPrevious :
       breakpointPrevious[d] \in Position /\ breakpointPrevious[d].instruction > 0

\* What is remembered for depth d is where the frame there last began to be on
\* its line, at some instruction between where the visit began and where it is;
\* `previous` is exactly where the frame was last seen, if it is about that depth.
Known(frame, d, prev, places) ==
  frame.seen > 0 =>
    /\ d \in DOMAIN places
    /\ places[d].function = frame.function /\ places[d].depth = d
    /\ places[d].line = frame.seen
    /\ frame.from <= places[d].instruction /\ places[d].instruction <= frame.at
    /\ prev.depth = d => /\ prev.function = frame.function /\ prev.line = frame.seen
                         /\ prev.instruction = frame.at

Remembered == \A d \in 1..Len(stack) : Known(stack[d], d, previous, breakpointPrevious)

\* A frame with source that was never seen has come no further than its first
\* line, and executes nothing there before it is seen.
JustEntered ==
  \A d \in 1..Len(stack) :
    stack[d].seen = 0 /\ stack[d].function \notin Hidden =>
      /\ Opening(stack[d].function, stack[d].instruction)
      /\ d = Len(stack) /\ session \in {"executing", "stopped"} =>
           Layout[stack[d].function][stack[d].instruction] = 0

DebuggerInv == BreakpointExact /\ DebuggerShaped /\ Remembered /\ JustEntered
-----------------------------------------------------------------------------
(***************************************************************************)
(* A breakpoint is accepted on one line with code, or on none.             *)
(***************************************************************************)
LEMMA AcceptedIsLine ==
  ASSUME DebuggerAssumption, NEW line
  PROVE  Accepted(line) \subseteq Lines /\ Cardinality(Accepted(line)) <= 1
<1> DEFINE after == {l \in Lines : l >= line /\ line > 0}
<1>1. Lines \subseteq Nat
  BY DEF Lines, DebuggerAssumption, Range
<1>2. CASE after = {}
  BY <1>2, FS_EmptySet DEF Accepted
<1>3. CASE after # {}
  <2>1. Accepted(line) = {Min(after)}
    BY <1>3 DEF Accepted
  <2>2. \E x \in after : \A y \in after : x <= y
    <3>1. after \in SUBSET Nat
      BY <1>1
    <3> HIDE DEF after
    <3> QED
      BY <1>3, <3>1, LeastNumber
  <2>3. Min(after) \in after
    BY <2>2 DEF Min
  <2>4. Cardinality(Accepted(line)) = 1
    BY <2>1, FS_Singleton
  <2> QED
    BY <2>1, <2>3, <2>4
<1> QED
  BY <1>2, <1>3

(***************************************************************************)
(* The program has not begun, and nothing is remembered.                   *)
(***************************************************************************)
LEMMA DebuggerInitInv ==
  ASSUME DebuggerAssumption
  PROVE  DebuggerInit => DebuggerInv
<1> SUFFICES ASSUME DebuggerInit PROVE DebuggerInv
  OBVIOUS
<1>1. Entered(Main) \in Frame
  BY DEF Entered, Frame, DebuggerAssumption
<1>2. stack \in Seq(Frame) /\ Len(stack) = 1 /\ stack[1] = Entered(Main)
  BY <1>1 DEF DebuggerInit
<1>3. DebuggerTypeOK /\ ~missed
  BY FS_EmptySet DEF DebuggerInit, DebuggerTypeOK, DebuggerAssumption
<1>4. DebuggerShaped
  <2>1. 1 \in DOMAIN Layout[Main]
    BY DEF DebuggerAssumption
  <2> QED
    BY <1>2, <2>1 DEF DebuggerInit, DebuggerShaped, Entered, Nowhere, Position, DebuggerAssumption
<1>5. Remembered /\ JustEntered
  BY <1>2 DEF DebuggerInit, Remembered, Known, JustEntered, Entered, Opening
<1> QED
  BY <1>3, <1>4, <1>5 DEF DebuggerInv, BreakpointExact

(***************************************************************************)
(* Requests change what the client set, never what is remembered.          *)
(***************************************************************************)
LEMMA HandleInv ==
  ASSUME DebuggerAssumption, DebuggerInv, NEW r, NEW stopped,
         Handle(r, stopped),
         session' \in {session, "ended"} \/ (session = "stopped" /\ session' = "executing"),
         session' = "stopped" => ~(stopped /\ r.command \in Resuming),
         UNCHANGED <<stack, previous, breakpointPrevious, missed>>
  PROVE  DebuggerInv'
<1>1. points' \subseteq Lines /\ Cardinality(points') <= 1
  BY AcceptedIsLine DEF Handle, DebuggerInv, BreakpointExact, DebuggerTypeOK
<1>2. DebuggerTypeOK' /\ ~missed'
  BY <1>1 DEF Handle, DebuggerInv, BreakpointExact, DebuggerTypeOK, Depth, DebuggerAssumption
<1>3. DebuggerShaped'
  BY DEF DebuggerInv, DebuggerShaped
<1>4. Remembered' /\ JustEntered'
  BY DEF DebuggerInv, Remembered, JustEntered
<1> QED
  BY <1>2, <1>3, <1>4 DEF DebuggerInv, BreakpointExact

(***************************************************************************)
(* At a line of a frame both memories know of, a visit that must be seen   *)
(* is new to both; going on with the visit is not new to the second; and   *)
(* what is not new to the first is going on.  What is remembered of an     *)
(* earlier frame at that depth lies no earlier than the first line, so a   *)
(* frame that was never seen is new there, too.                            *)
(***************************************************************************)
LEMMA VisitsAgree ==
  ASSUME NEW frame \in Frame, NEW d \in Nat \ {0}, NEW line \in Nat, line > 0,
         NEW prev \in Position, NEW places, Known(frame, d, prev, places),
         frame.seen = 0 => Opening(frame.function, frame.instruction),
         prev.depth > 0 => OnItsLine(prev),
         d \in DOMAIN places => places[d] \in Position /\ OnItsLine(places[d])
  PROVE  /\ frame.seen # line \/ frame.instruction <= frame.from =>
              /\ Changed(prev, frame.function, frame.instruction, d, line)
              /\ d \in DOMAIN places =>
                   Changed(places[d], frame.function, frame.instruction, d, line)
         /\ ~(frame.seen # line \/ frame.instruction <= frame.at) =>
              /\ d \in DOMAIN places
              /\ ~Changed(places[d], frame.function, frame.instruction, d, line)
         /\ ~Changed(prev, frame.function, frame.instruction, d, line) =>
              frame.seen = line /\ frame.at < frame.instruction
<1>1. CASE frame.seen = 0
  <2>1. ASSUME NEW p \in Position, OnItsLine(p), p.function = frame.function, p.line = line
        PROVE  frame.instruction <= p.instruction
    BY <1>1, <2>1 DEF OnItsLine, Opening, Frame, Position
  <2>2. \A p \in Position : OnItsLine(p) =>
          Changed(p, frame.function, frame.instruction, d, line)
    BY <2>1 DEF Changed
  <2>3. prev.depth = 0 => Changed(prev, frame.function, frame.instruction, d, line)
    BY DEF Changed
  <2>4. prev.depth # 0 => prev.depth > 0
    BY DEF Position
  <2> QED
    BY <1>1, <2>2, <2>3, <2>4
<1>2. CASE frame.seen > 0
  <2>1. /\ d \in DOMAIN places /\ places[d] \in Position
        /\ places[d].function = frame.function /\ places[d].depth = d
        /\ places[d].line = frame.seen
        /\ frame.from <= places[d].instruction /\ places[d].instruction <= frame.at
    BY <1>2 DEF Known
  <2>2. prev.depth = d => /\ prev.function = frame.function /\ prev.line = frame.seen
                          /\ prev.instruction = frame.at
    BY <1>2 DEF Known
  <2> QED
    BY <2>1, <2>2 DEF Changed, Frame, Position
<1> QED
  BY <1>1, <1>2 DEF Frame

(***************************************************************************)
(* should_stop.  A visit of a line is new to both memories, and what is    *)
(* new to both is a visit: they agree with the frame on where it was.      *)
(***************************************************************************)
LEMMA ShouldStopInv ==
  ASSUME DebuggerAssumption, DebuggerInv, ShouldStop
  PROVE  DebuggerInv'
<1> DEFINE top == stack[Len(stack)]
           line == LineOf(top)
           here == [function |-> top.function, instruction |-> top.instruction,
                    depth |-> Len(stack), line |-> line]
           changed == line > 0 /\ Changed(previous, top.function, top.instruction, Len(stack), line)
           kept == Retained(Len(stack))
           known == Len(stack) \in kept
           same == ~Changed(breakpointPrevious[Len(stack)], top.function, top.instruction,
                            Len(stack), line)
           arrives == top.seen # line \/ top.instruction <= top.from
           jumps == top.seen # line \/ top.instruction <= top.at
           visited == changed /\ (known => ~same)
           hit == visited /\ line \in points
           stop == changed /\ (hit \/ Stepped(Len(stack)) \/ pause)
           seen == IF line = 0 THEN top
                   ELSE [top EXCEPT !.seen = line, !.at = top.instruction,
                                    !.from = IF arrives THEN top.instruction ELSE top.from]
<1>1. stack \in Seq(Frame) /\ Len(stack) \in 1..MaxDepth /\ top \in Frame
  BY DEF DebuggerInv, DebuggerShaped
<1>2. line \in Nat /\ (line > 0 => /\ top.function \notin Hidden
                                   /\ line = Layout[top.function][top.instruction])
  <2>1. top.function \in DOMAIN Layout /\ Layout[top.function] \in Seq(Nat)
    BY <1>1 DEF DebuggerAssumption, Frame
  <2>2. top.function \notin Hidden => top.instruction \in DOMAIN Layout[top.function]
    BY <1>1 DEF DebuggerInv, DebuggerShaped
  <2>3. top.function \notin Hidden => Layout[top.function][top.instruction] \in Nat
    BY <2>1, <2>2
  <2> QED
    BY <2>3 DEF LineOf
<1>3. Top = top /\ Depth = Len(stack)
  BY <1>1 DEF Top, Depth, Last
<1>4. /\ previous' = IF line > 0 THEN here ELSE previous
      /\ breakpointPrevious' = IF changed
           THEN [d \in kept \cup {Len(stack)} |->
                   IF d = Len(stack) THEN here ELSE breakpointPrevious[d]]
           ELSE breakpointPrevious
  BY <1>3, Zenon DEF ShouldStop
<1>5. missed' = (missed \/ (line \in points /\ arrives /\ ~stop) \/ (hit /\ ~jumps))
  BY <1>3, Zenon DEF ShouldStop
<1>6. stack' = [stack EXCEPT ![Len(stack)] = seen]
  BY <1>3, Zenon DEF ShouldStop
<1>7. /\ session' = IF stop THEN "stopped" ELSE "executing"
      /\ frames' = IF stop THEN Len(stack) ELSE frames
      /\ points' = points /\ session = "asking"
  BY <1>3, Zenon DEF ShouldStop
<1>8. Known(top, Len(stack), previous, breakpointPrevious)
  BY <1>1 DEF DebuggerInv, Remembered
<1>9. top.seen = 0 /\ line > 0 => Opening(top.function, top.instruction)
  BY <1>1, <1>2 DEF DebuggerInv, JustEntered
<1>10. Len(stack) \in DOMAIN breakpointPrevious =>
         /\ breakpointPrevious[Len(stack)] \in Position
         /\ OnItsLine(breakpointPrevious[Len(stack)])
  BY DEF DebuggerInv, DebuggerShaped, BreakpointExact, DebuggerTypeOK, OnItsLine
<1>11. previous \in Position /\ (previous.depth > 0 => OnItsLine(previous))
  BY DEF DebuggerInv, DebuggerShaped
<1>12. known <=> Len(stack) \in DOMAIN breakpointPrevious
  BY <1>1 DEF Retained
<1>13. top.function \notin Hidden => top.instruction \in DOMAIN Layout[top.function]
  BY <1>1 DEF DebuggerInv, DebuggerShaped
<1>14. line > 0 => /\ arrives => changed /\ (known => ~same)
                   /\ ~jumps => known /\ same
                   /\ ~changed => top.seen = line /\ top.at < top.instruction
  <2> HIDE DEF top, line
  <2> QED
    BY <1>1, <1>2, <1>8, <1>9, <1>10, <1>11, <1>12, VisitsAgree
<1>15. line \in points => line > 0
  <2>1. points \subseteq Lines
    BY DEF DebuggerInv, BreakpointExact, DebuggerTypeOK
  <2>2. 0 \notin Lines
    BY Zenon DEF Lines
  <2> HIDE DEF line
  <2> QED
    BY <1>2, <2>1, <2>2
<1>16. ~missed'
  BY <1>5, <1>14, <1>15 DEF DebuggerInv, BreakpointExact
<1>17. seen \in Frame /\ seen.function = top.function /\ seen.instruction = top.instruction
  BY <1>1, <1>2 DEF Frame
<1>18. /\ stack' \in Seq(Frame) /\ Len(stack') = Len(stack) /\ stack'[Len(stack)] = seen
       /\ \A d \in 1..Len(stack) : d # Len(stack) => stack'[d] = stack[d]
  <2> HIDE DEF seen
  <2> QED
    BY <1>1, <1>6, <1>17, ExceptSeq
<1>19. /\ here \in Position /\ here.instruction > 0 /\ here.depth = Len(stack)
       /\ line > 0 => OnItsLine(here)
  BY <1>1, <1>2 DEF Frame, Position, OnItsLine
<1>20. \A d \in DOMAIN breakpointPrevious' :
         \/ d = Len(stack) /\ changed /\ breakpointPrevious'[d] = here
         \/ d \in DOMAIN breakpointPrevious /\ breakpointPrevious'[d] = breakpointPrevious[d]
  BY <1>1, <1>4 DEF Retained
<1>21. DebuggerTypeOK'
  <2>1. DOMAIN breakpointPrevious' \subseteq 1..MaxDepth
    BY <1>1, <1>20 DEF DebuggerInv, BreakpointExact, DebuggerTypeOK
  <2>2. \A d \in DOMAIN breakpointPrevious' :
          breakpointPrevious'[d].line =
            Layout[breakpointPrevious'[d].function][breakpointPrevious'[d].instruction]
    BY <1>2, <1>20 DEF DebuggerInv, BreakpointExact, DebuggerTypeOK
  <2> QED
    BY <1>1, <1>7, <1>18, <2>1, <2>2 DEF DebuggerInv, BreakpointExact, DebuggerTypeOK, Depth
<1>22. DebuggerShaped'
  <2>1. previous' \in Position /\ (previous'.depth > 0 => OnItsLine(previous'))
    BY <1>4, <1>11, <1>19
  <2>2. \A d \in DOMAIN breakpointPrevious' :
          breakpointPrevious'[d] \in Position /\ breakpointPrevious'[d].instruction > 0
    BY <1>19, <1>20 DEF DebuggerInv, DebuggerShaped
  <2>3. \A d \in 1..Len(stack') : stack'[d].function \notin Hidden =>
          stack'[d].instruction \in DOMAIN Layout[stack'[d].function]
    BY <1>1, <1>13, <1>17, <1>18 DEF DebuggerInv, DebuggerShaped
  <2> QED
    BY <1>1, <1>18, <2>1, <2>2, <2>3 DEF DebuggerShaped
<1>23. Remembered'
  <2> SUFFICES ASSUME NEW d \in 1..Len(stack)
               PROVE  Known(stack'[d], d, previous', breakpointPrevious')
    BY <1>18 DEF Remembered
  <2>1. CASE d # Len(stack)
    <3>1. Known(stack[d], d, previous, breakpointPrevious)
      BY DEF DebuggerInv, Remembered
    <3>2. previous'.depth = d => previous' = previous
      BY <1>4, <1>19, <2>1
    <3>3. d \in DOMAIN breakpointPrevious =>
            d \in DOMAIN breakpointPrevious' /\ breakpointPrevious'[d] = breakpointPrevious[d]
      BY <1>1, <1>4, <2>1 DEF Retained
    <3> QED
      BY <1>18, <2>1, <3>1, <3>2, <3>3 DEF Known
  <2>2. CASE d = Len(stack) /\ line = 0
    BY <1>2, <1>4, <1>8, <1>18, <2>2
  <2>3. CASE d = Len(stack) /\ changed
    <3>1. /\ d \in DOMAIN breakpointPrevious' /\ breakpointPrevious'[d] = here
          /\ previous' = here
      BY <1>4, <2>3
    <3>2. seen.seen = line /\ seen.at = top.instruction /\ seen.from <= top.instruction
      BY <1>1, <1>2, <2>3 DEF Frame
    <3>3. /\ here.function = seen.function /\ here.depth = d /\ here.line = seen.seen
          /\ here.instruction = seen.at /\ seen.from <= here.instruction
          /\ here.instruction <= seen.at
      BY <1>1, <1>17, <2>3, <3>2 DEF Frame
    <3> HIDE DEF seen, here
    <3> QED
      BY <1>18, <2>3, <3>1, <3>3 DEF Known
  <2>4. CASE d = Len(stack) /\ line > 0 /\ ~changed
    <3>1. top.seen = line /\ top.at < top.instruction
      BY <1>14, <2>4
    <3>2. /\ d \in DOMAIN breakpointPrevious /\ breakpointPrevious[d] \in Position
          /\ breakpointPrevious[d].function = top.function /\ breakpointPrevious[d].depth = d
          /\ breakpointPrevious[d].line = line
          /\ top.from <= breakpointPrevious[d].instruction
          /\ breakpointPrevious[d].instruction <= top.at
      BY <1>8, <1>10, <2>4, <3>1 DEF Known
    <3>3. breakpointPrevious' = breakpointPrevious /\ previous' = here
      BY <1>4, <2>4
    <3>0. /\ top.at \in Nat /\ top.instruction \in Nat /\ top.from \in Nat
          /\ breakpointPrevious[d].instruction \in Nat
      BY <1>1, <3>2 DEF Frame, Position
    <3>4. ~arrives
      BY <3>0, <3>1, <3>2
    <3>5. seen.seen = line /\ seen.at = top.instruction /\ seen.from = top.from
      BY <1>1, <1>2, <2>4, <3>4 DEF Frame
    <3>6. breakpointPrevious[d].instruction <= seen.at
      BY <3>0, <3>1, <3>2, <3>5
    <3>7. /\ here.function = seen.function /\ here.line = seen.seen
          /\ here.instruction = seen.at
      BY <1>17, <3>5
    <3> HIDE DEF seen, here
    <3> QED
      BY <1>17, <1>18, <2>4, <3>2, <3>3, <3>5, <3>6, <3>7 DEF Known
  <2> QED
    BY <1>2, <2>1, <2>2, <2>3, <2>4
<1>24. JustEntered'
  <2> SUFFICES ASSUME NEW d \in 1..Len(stack), stack'[d].seen = 0,
                      stack'[d].function \notin Hidden
               PROVE  /\ Opening(stack'[d].function, stack'[d].instruction)
                      /\ d = Len(stack) =>
                           Layout[stack'[d].function][stack'[d].instruction] = 0
    BY <1>18 DEF JustEntered
  <2>1. CASE d # Len(stack)
    BY <1>18, <2>1 DEF DebuggerInv, JustEntered
  <2>2. CASE d = Len(stack)
    <3>1. line = 0 /\ seen = top
      BY <1>1, <1>2, <1>18, <2>2 DEF Frame
    <3>2. stack'[d] = top /\ Opening(top.function, top.instruction)
      BY <1>1, <1>18, <2>2, <3>1 DEF DebuggerInv, JustEntered
    <3>3. top.function \notin Hidden => line = Layout[top.function][top.instruction]
      BY DEF LineOf
    <3> QED
      BY <3>1, <3>2, <3>3
  <2> QED
    BY <2>1, <2>2
<1> QED
  BY <1>16, <1>21, <1>22, <1>23, <1>24 DEF DebuggerInv, BreakpointExact

(***************************************************************************)
(* The instruction: a frame moves, a call adds one that was never seen, a  *)
(* return leaves the others as they were.                                  *)
(***************************************************************************)
LEMMA ExecuteInv ==
  ASSUME DebuggerAssumption, DebuggerInv, Execute
  PROVE  DebuggerInv'
<1> DEFINE n == Len(stack)
           Continues(d) ==
             /\ d = n /\ session' = "asking"
             /\ stack'[d].instruction \in Targets(stack[n].function, stack[n].instruction)
<1>1. stack \in Seq(Frame) /\ n \in 1..MaxDepth /\ stack[n] \in Frame
  BY DEF DebuggerInv, DebuggerShaped
<1>2. Top = stack[n] /\ Depth = n
  BY <1>1 DEF Top, Depth, Last
<1>3. stack[n].function \in DOMAIN Layout /\ Layout[stack[n].function] \in Seq(Nat)
  BY <1>1 DEF DebuggerAssumption, Frame
<1>4. DebuggerTypeOK' /\ ~missed'
  BY DEF Execute, sessionVars, DebuggerInv, BreakpointExact, DebuggerTypeOK
<1>5. ASSUME stack' \in Seq(Frame), Len(stack') \in 1..MaxDepth,
             \A d \in 1..Len(stack') :
               \/ /\ d \in 1..n /\ stack'[d].function = stack[d].function
                  /\ stack'[d].seen = stack[d].seen /\ stack'[d].from = stack[d].from
                  /\ stack'[d].at = stack[d].at
                  /\ \/ /\ stack'[d].instruction = stack[d].instruction
                        /\ d = Len(stack') => session' \notin {"executing", "stopped"}
                     \/ Continues(d)
               \/ /\ d = Len(stack') /\ stack'[d].seen = 0 /\ stack'[d].instruction = 1
                  /\ session' = "asking"
      PROVE  DebuggerInv'
  <2>1. UNCHANGED <<previous, breakpointPrevious>>
    BY DEF Execute
  <2>2. \A f \in DOMAIN Layout : 1 \in DOMAIN Layout[f]
    BY DEF DebuggerAssumption
  <2>0. \A d \in 1..Len(stack') : Continues(d) =>
          /\ stack'[d].instruction \in DOMAIN Layout[stack[n].function]
          /\ Opening(stack[n].function, stack[n].instruction) /\
             Layout[stack[n].function][stack[n].instruction] = 0 =>
               Opening(stack[n].function, stack'[d].instruction)
    BY DEF Targets
  <2>3. \A d \in 1..Len(stack') : stack'[d] \in Frame
    BY <1>5
  <2>4. DebuggerShaped'
    <3>1. \A d \in 1..Len(stack') : stack'[d].function \notin Hidden =>
            stack'[d].instruction \in DOMAIN Layout[stack'[d].function]
      BY <1>5, <2>0, <2>2, <2>3 DEF Frame, DebuggerInv, DebuggerShaped
    <3> QED
      BY <1>5, <2>1, <3>1 DEF DebuggerInv, DebuggerShaped
  <2>5. Remembered'
    BY <1>5, <2>1 DEF DebuggerInv, Remembered, Known
  <2>6. JustEntered'
    <3>1. session = "executing"
      BY DEF Execute
    <3> SUFFICES ASSUME NEW d \in 1..Len(stack'), stack'[d].seen = 0,
                        stack'[d].function \notin Hidden
                 PROVE  /\ Opening(stack'[d].function, stack'[d].instruction)
                        /\ d = Len(stack') => session' \notin {"executing", "stopped"}
      BY DEF JustEntered
    <3>2. CASE /\ d \in 1..n /\ stack'[d].function = stack[d].function
               /\ stack'[d].seen = stack[d].seen
               /\ stack'[d].instruction = stack[d].instruction
               /\ d = Len(stack') => session' \notin {"executing", "stopped"}
      BY <3>2 DEF DebuggerInv, JustEntered
    <3>3. CASE /\ d \in 1..n /\ stack'[d].function = stack[d].function
               /\ stack'[d].seen = stack[d].seen /\ Continues(d)
      <4>1. /\ Opening(stack[n].function, stack[n].instruction)
            /\ Layout[stack[n].function][stack[n].instruction] = 0
        BY <3>1, <3>3 DEF DebuggerInv, JustEntered
      <4> QED
        BY <2>0, <3>3, <4>1
    <3>4. CASE stack'[d].instruction = 1 /\ session' = "asking"
      BY <3>4 DEF Opening
    <3> HIDE DEF Continues
    <3> QED
      BY <1>5, <3>2, <3>3, <3>4
  <2> QED
    BY <1>4, <2>4, <2>5, <2>6 DEF DebuggerInv, BreakpointExact
<1>6. CASE /\ \E i \in Targets(Top.function, Top.instruction) :
                stack' = [stack EXCEPT ![Depth].instruction = i]
           /\ session' = "asking"
  <2>1. PICK i \in Targets(stack[n].function, stack[n].instruction) :
          stack' = [stack EXCEPT ![n] = [stack[n] EXCEPT !.instruction = i]]
    BY <1>2, <1>6
  <2>2. i \in Nat \ {0}
    BY <1>3 DEF Targets
  <2>. DEFINE moved == [stack[n] EXCEPT !.instruction = i]
  <2>4. /\ moved \in Frame /\ moved.instruction = i /\ moved.function = stack[n].function
        /\ moved.seen = stack[n].seen /\ moved.from = stack[n].from /\ moved.at = stack[n].at
    BY <1>1, <2>2 DEF Frame
  <2>3. stack' \in Seq(Frame) /\ Len(stack') = n
        /\ \A d \in 1..n : stack'[d] = IF d = n THEN moved ELSE stack[d]
    BY <1>1, <2>1, <2>4, ExceptSeq
  <2> HIDE DEF moved
  <2> QED
    BY <1>1, <1>5, <1>6, <2>3, <2>4
<1>7. CASE /\ Depth < MaxDepth /\ Top.instruction < Len(Layout[Top.function])
           /\ \E f \in DOMAIN Layout :
                stack' = Append([stack EXCEPT ![Depth].instruction = @ + 1], Entered(f))
           /\ session' = "asking"
  <2> DEFINE caller == [stack[n] EXCEPT !.instruction = stack[n].instruction + 1]
             left == [stack EXCEPT ![n] = caller]
  <2>1. PICK f \in DOMAIN Layout : stack' = Append(left, Entered(f))
    BY <1>2, <1>7
  <2>2. /\ caller \in Frame
        /\ caller.instruction \in Targets(stack[n].function, stack[n].instruction)
        /\ caller.function = stack[n].function /\ caller.seen = stack[n].seen
        /\ caller.from = stack[n].from /\ caller.at = stack[n].at
    <3>1. /\ stack[n].instruction \in Nat \ {0}
          /\ stack[n].instruction < Len(Layout[stack[n].function])
      BY <1>1, <1>2, <1>7 DEF Frame
    <3>2. stack[n].instruction + 1 \in 1..Len(Layout[stack[n].function])
      BY <1>3, <3>1
    <3>3. PICK frame \in Frame, i \in Nat \ {0} :
            frame = stack[n] /\ i = stack[n].instruction + 1
      BY <1>1, <3>1
    <3>4. /\ [frame EXCEPT !.instruction = i] \in Frame
          /\ [frame EXCEPT !.instruction = i].instruction = i
          /\ [frame EXCEPT !.instruction = i].function = frame.function
          /\ [frame EXCEPT !.instruction = i].seen = frame.seen
          /\ [frame EXCEPT !.instruction = i].from = frame.from
          /\ [frame EXCEPT !.instruction = i].at = frame.at
      BY DEF Frame
    <3>5. stack[n].instruction + 1 \in Targets(stack[n].function, stack[n].instruction)
      <4>1. ASSUME NEW k \in 1..(stack[n].instruction + 1) - 1
            PROVE  k = stack[n].instruction \/ k \in 1..stack[n].instruction - 1
        BY <3>1
      <4>2. Opening(stack[n].function, stack[n].instruction)
            /\ Layout[stack[n].function][stack[n].instruction] = 0
              => Opening(stack[n].function, stack[n].instruction + 1)
        BY <4>1, Zenon DEF Opening
      <4> QED
        BY <1>3, <3>2, <4>2 DEF Targets
    <3> QED
      BY <3>3, <3>4, <3>5
  <2>3. Entered(f) \in Frame /\ Entered(f).seen = 0 /\ Entered(f).instruction = 1
    BY DEF Entered, Frame
  <2> HIDE DEF caller
  <2>4. left \in Seq(Frame) /\ Len(left) = n
        /\ \A d \in 1..n : left[d] = IF d = n THEN caller ELSE stack[d]
    BY <1>1, <2>2, ExceptSeq
  <2> HIDE DEF left
  <2>5. /\ stack' \in Seq(Frame) /\ Len(stack') = n + 1
        /\ \A d \in 1..n : stack'[d] = left[d]
        /\ stack'[n + 1] = Entered(f)
    BY <2>1, <2>3, <2>4, AppendProperties
  <2>6. ASSUME NEW d \in 1..Len(stack')
        PROVE  \/ /\ d \in 1..n /\ stack'[d].function = stack[d].function
                  /\ stack'[d].seen = stack[d].seen /\ stack'[d].from = stack[d].from
                  /\ stack'[d].at = stack[d].at
                  /\ \/ /\ stack'[d].instruction = stack[d].instruction
                        /\ d = Len(stack') => session' \notin {"executing", "stopped"}
                     \/ Continues(d)
               \/ /\ d = Len(stack') /\ stack'[d].seen = 0 /\ stack'[d].instruction = 1
                  /\ session' = "asking"
    <3>1. CASE d = n + 1
      BY <1>1, <1>7, <2>3, <2>5, <3>1
    <3>2. CASE d \in 1..n
      BY <1>1, <1>7, <2>2, <2>4, <2>5, <3>2
    <3> QED
      BY <1>1, <2>5, <3>1, <3>2
  <2>7. Len(stack') \in 1..MaxDepth
    BY <1>1, <1>2, <1>7, <2>5 DEF DebuggerAssumption
  <2> QED
    BY <1>5, <2>5, <2>6, <2>7
<1>8. CASE /\ stack' = IF Depth = 1 THEN stack ELSE Front(stack)
           /\ session' = IF Depth = 1 THEN "ended" ELSE "asking"
  <2>1. CASE Depth = 1
    BY <1>1, <1>5, <1>8, <2>1
  <2>2. CASE Depth # 1
    <3>1. stack' = SubSeq(stack, 1, n - 1)
      BY <1>2, <1>8, <2>2 DEF Front
    <3>2. /\ stack' \in Seq(Frame) /\ Len(stack') = n - 1
          /\ \A d \in 1..(n - 1) : stack'[d] = stack[d]
      BY <1>1, <1>2, <2>2, <3>1, SubSeqProperties
    <3>3. Len(stack') \in 1..MaxDepth
      BY <1>1, <1>2, <2>2, <3>2 DEF DebuggerAssumption
    <3>4. \A d \in 1..Len(stack') : d \in 1..n /\ stack'[d] = stack[d]
      BY <1>1, <3>2
    <3>5. session' = "asking"
      BY <1>8, <2>2
    <3> HIDE DEF Continues, n
    <3> QED
      BY <1>5, <3>2, <3>3, <3>4, <3>5
  <2> QED
    BY <2>1, <2>2
<1> QED
  BY <1>6, <1>7, <1>8 DEF Execute

(***************************************************************************)
(* The rest leaves the program alone.                                      *)
(***************************************************************************)
LEMMA DebuggerStep ==
  ASSUME DebuggerAssumption, DebuggerInv, [DebuggerNext]_debugVars
  PROVE  DebuggerInv'
<1>1. ASSUME UNCHANGED <<stack, previous, breakpointPrevious, missed, points, frames>>,
             session' \in {session, "ended"} \/ (session = "starting" /\ session' = "asking")
      PROVE  DebuggerInv'
  BY <1>1 DEF DebuggerInv, BreakpointExact, DebuggerTypeOK, DebuggerShaped, Remembered, JustEntered,
              Depth
<1>2. CASE Start
  <2>1. CASE UNCHANGED sessionVars /\ session' \in {"ended", "asking"}
    BY <1>1, <1>2, <2>1 DEF Start, sessionVars
  <2>2. CASE Handle(Head(queue), FALSE) /\ UNCHANGED session
    BY <1>2, <2>2, HandleInv DEF Start
  <2> QED
    BY <1>2, <2>1, <2>2 DEF Start
<1>3. CASE Drain
  BY <1>3, HandleInv DEF Drain
<1>4. CASE Ends
  BY <1>1, <1>4 DEF Ends, sessionVars
<1>5. CASE ShouldStop
  BY <1>5, ShouldStopInv
<1>6. CASE Answer
  BY <1>6, HandleInv DEF Answer, Resumes
<1>7. CASE ClientGone
  BY <1>1, <1>7 DEF ClientGone, sessionVars
<1>8. CASE Execute
  BY <1>8, ExecuteInv
<1>9. CASE Disconnect
  BY <1>1, <1>9 DEF Disconnect, sessionVars
<1>10. ASSUME NEW r \in Possible, Send(r)
       PROVE  DebuggerInv'
  BY <1>1, <1>10 DEF Send, sessionVars
<1>11. CASE UNCHANGED debugVars
  BY <1>1, <1>11 DEF debugVars
<1> QED
  BY <1>2, <1>3, <1>4, <1>5, <1>6, <1>7, <1>8, <1>9, <1>10, <1>11 DEF DebuggerNext, Machine

(***************************************************************************)
(* The inductive invariant holds throughout a session.                     *)
(***************************************************************************)
THEOREM DebuggerCorrect ==
  ASSUME DebuggerAssumption
  PROVE  DebuggerSpec => []DebuggerInv
<1>1. DebuggerInit => DebuggerInv
  BY DebuggerInitInv
<1>2. DebuggerInv /\ [DebuggerNext]_debugVars => DebuggerInv'
  BY DebuggerStep
<1> QED
  BY <1>1, <1>2, PTL DEF DebuggerSpec

(***************************************************************************)
(* A breakpoint stops the program each time its line is visited and never  *)
(* while the frame goes on with the visit (Session::should_stop), for      *)
(* every program and whatever the client asks meanwhile.                   *)
(***************************************************************************)
THEOREM DebuggerBreakpointExact ==
  ASSUME DebuggerAssumption
  PROVE  DebuggerSpec => []BreakpointExact
<1>1. DebuggerInv => BreakpointExact
  BY DEF DebuggerInv
<1> QED
  BY <1>1, DebuggerCorrect, PTL
-----------------------------------------------------------------------------
(***************************************************************************)
(* The inductive invariant of the language server.  First the shapes of    *)
(* its messages and of its state.                                          *)
(***************************************************************************)
Change == [kind : {"open", "close", "watch"}, doc : Docs, generation : 1..MaxGeneration]
Diagnose == [kind : {"diagnostics"}, tag : 0..MaxGeneration, texts : [Docs -> 0..MaxGeneration]]
Query == [kind : {"request"}, request : Requests]
Halt == [kind : {"stop"}]

SentRequest ==
  [generation : 0..MaxGeneration, doc : Docs, kind : Kinds, texts : [Docs -> 0..MaxGeneration],
   closed : [Docs -> 0..MaxGeneration], watched : [Docs -> -MaxWrites..0]]
RefusedRequest == [generation : 0..MaxGeneration, kind : {"refused"}]
Response ==
  [kind : {"null", "cancelled", "modified", "invalid"}] \cup [kind : {"ok"}, from : Compilation]

Map == UNION {[keys -> Compilation] : keys \in SUBSET Docs}
Cache == [entries : Map, good : Map, errors : SUBSET Docs, recent : Seq(Docs)]

MainShaped ==
  /\ phase \in {"running", "shutdown", "stopped"}
  /\ generation \in 0..(MaxGeneration + 1) /\ due \in BOOLEAN
  /\ phase # "stopped" => generation <= MaxGeneration
  /\ versions \in [Docs -> 0..MaxGeneration] /\ disk \in [Docs -> -MaxWrites..0]
  /\ cancelled \subseteq Requests
  /\ touched \in [closed : [Docs -> 0..MaxGeneration], watched : [Docs -> -MaxWrites..0]]
  /\ sent \in [Requests -> {Unsent} \cup SentRequest \cup RefusedRequest]

QueuesShaped ==
  /\ toQuery \in Seq(Change \cup Query \cup Halt)
  /\ toCheck \in Seq(Change \cup Diagnose \cup Halt)

CheckShaped ==
  /\ checker \in [at : {"idle", "early", "compile", "publish", "done"},
                  tag : -1..MaxGeneration, todo : SUBSET Docs]
  /\ cOpen \in [Docs -> 0..MaxGeneration]
  /\ cCache \in Cache /\ Len(cCache.recent) <= RecentLimit
  /\ deferred = <<>> \/ (\E m \in Diagnose : deferred = <<m>>)
  /\ shownFor \in -1..MaxGeneration
  /\ mailbox \in [id : Int \X Int, entries : Map, good : Map]

QueryShaped ==
  /\ query.at \in {"idle", "answering", "done"}
  /\ query.at = "answering" => query.request \in Requests /\ sent[query.request] \in SentRequest
  /\ qOpen \in [Docs -> 0..MaxGeneration]
  /\ qCache \in Cache /\ Len(qCache.recent) <= RecentLimit
  /\ floor \in 0..MaxGeneration
  /\ answers \in [Requests -> Seq(Response)]
  /\ \A r \in Requests : sent[r] = Unsent => answers[r] = <<>>
  /\ \A i \in 1..Len(toQuery) :
       toQuery[i] \in Query => sent[toQuery[i].request] \in SentRequest

(***************************************************************************)
(* What is queued.  Changes arrive in the order of their generations; what *)
(* a thread knows of a document becomes, when the channel has been read,     *)
(* what the editor knows.                                                  *)
(***************************************************************************)
Sets(m, d) == m.kind \in {"open", "close"} /\ m.doc = d
Drops(m, d) == m.kind \in {"close", "watch"} /\ m.doc = d
TextSet(m) == IF m.kind = "open" THEN m.generation ELSE 0

Ordered(channel, last) ==
  /\ \A i \in 1..Len(channel) : channel[i] \in Change => channel[i].generation <= last
  /\ \A i, j \in 1..Len(channel) :
       i < j /\ channel[i] \in Change /\ channel[j] \in Change =>
         channel[i].generation < channel[j].generation

Follows(channel, texts, known) ==
  \A d \in Docs :
    /\ (\A i \in 1..Len(channel) : ~Sets(channel[i], d)) => texts[d] = known[d]
    /\ \A i \in 1..Len(channel) :
         Sets(channel[i], d) /\ (\A j \in 1..Len(channel) : j > i => ~Sets(channel[j], d)) =>
           known[d] = TextSet(channel[i])

\* Every change in the channel is newer than the tag.
Newer(channel, tag) ==
  \A i \in 1..Len(channel) : channel[i] \in Change => channel[i].generation > tag

\* Diagnostics were asked for before the changes behind them.
Dated(channel, last) ==
  \A i \in 1..Len(channel) : channel[i] \in Diagnose =>
    /\ channel[i].tag <= last
    /\ \A j \in 1..Len(channel) : j > i /\ channel[j] \in Change =>
         channel[j].generation > channel[i].tag

Tagged ==
  /\ Dated(toCheck, generation)
  /\ deferred # <<>> => deferred[1].tag <= generation /\ Newer(toCheck, deferred[1].tag)
  /\ checker.tag <= generation /\ shownFor <= generation
  /\ checker.at \notin {"idle", "done"} => Newer(toCheck, checker.tag)

Queued ==
  /\ Ordered(toQuery, generation) /\ Follows(toQuery, qOpen, versions)
  /\ Ordered(toCheck, generation) /\ Follows(toCheck, cOpen, versions)

(***************************************************************************)
(* The checking thread.  Its compilations saw the texts it has; the        *)
(* diagnostics it collects are those of the documents it has done.         *)
(***************************************************************************)
SawTexts(c, texts) ==
  \A u \in DOMAIN c.source : IF texts[u] > 0 THEN c.source[u] = texts[u] ELSE c.source[u] <= 0

CheckerFresh ==
  \A k \in DOMAIN cCache.entries :
    /\ Holds(cCache.entries[k], k) /\ cOpen[cCache.entries[k].root] > 0
    /\ SawTexts(cCache.entries[k], cOpen)

Collected ==
  /\ checker.at \in {"idle", "early", "done"} => next = <<>>
  /\ checker.at = "early" => checker.todo = Opened(cOpen)
  /\ checker.at \in {"compile", "publish"} =>
       /\ \A d \in Docs : cOpen[d] > 0 /\ d \notin checker.todo => d \in DOMAIN next
       /\ checker.todo \subseteq Opened(cOpen)
       /\ \A u \in DOMAIN next : /\ cOpen[u] > 0 => next[u] = cOpen[u]
                                 /\ \E d \in Opened(cOpen) : u \in Uses[d]
  /\ checker.at = "publish" => checker.todo = {}

Displayed ==
  shownFor = generation =>
    \A d \in Docs :
      /\ versions[d] > 0 => shown[d] = versions[d]
      /\ (\A u \in Opened(versions) : d \notin Uses[u]) => shown[d] = None

(***************************************************************************)
(* The query thread.  The compilations of one snapshot agree on what they  *)
(* saw of a document, unless that was on disk.                             *)
(***************************************************************************)
Agreed(map) ==
  /\ \A k \in DOMAIN map : Holds(map[k], k)
  /\ \A j, k \in DOMAIN map : \A u \in DOMAIN map[j].source \cap DOMAIN map[k].source :
       map[j].source[u] > 0 => map[k].source[u] = map[j].source[u]

SawOpen(c, texts) == \A u \in DOMAIN c.source : texts[u] > 0 => c.source[u] = texts[u]

QueryFresh ==
  /\ Agreed(mailbox.entries)
  /\ \A k \in DOMAIN qCache.entries : SawOpen(qCache.entries[k], qOpen)

\* Requests were sent before the changes behind them.
SentBefore(channel, requests) ==
  \A i \in 1..Len(channel) : channel[i] \in Query =>
    \A j \in 1..Len(channel) : j > i /\ channel[j] \in Change =>
      channel[j].generation > requests[channel[i].request].generation

Asking ==
  /\ SentBefore(toQuery, sent)
  /\ query.at = "answering" => Newer(toQuery, sent[query.request].generation)
  /\ \A r \in Requests : sent[r] \in SentRequest =>
       /\ sent[r].generation <= generation
       /\ sent[r].generation = generation =>
            sent[r].texts = versions /\ sent[r].closed = touched.closed
                                     /\ sent[r].watched = touched.watched

(***************************************************************************)
(* Compilations that rest on a closed buffer or on an outdated file are    *)
(* kept only while the message that drops them is on its way.              *)
(***************************************************************************)
Outdated(c, u, last) ==
  IF c.source[u] > 0 THEN c.source[u] <= last.closed[u] ELSE c.source[u] > last.watched[u]

Dropping(channel, u) == \E i \in 1..Len(channel) : Drops(channel[i], u)

Retiring(map, channel, last) ==
  \A k \in DOMAIN map : \A u \in DOMAIN map[k].source :
    Outdated(map[k], u, last) => Dropping(channel, u)

\* In a snapshot with this tag, they are also too old to be adopted.
RetiringAfter(map, tag, raised, channel, last) ==
  \A k \in DOMAIN map : \A u \in DOMAIN map[k].source : Outdated(map[k], u, last) =>
    \/ raised > tag
    \/ \E i \in 1..Len(channel) : Drops(channel[i], u) /\ channel[i].generation > tag

\* What the checking thread has still to drop, the query thread has or will.
Linked(behind, ahead, raised) ==
  \A i \in 1..Len(behind) : behind[i] \in Change /\ behind[i].kind # "open" =>
    \/ behind[i].generation <= raised
    \/ \E j \in 1..Len(ahead) : ahead[j] = behind[i]

Retired ==
  /\ Retiring(cCache.entries, toCheck, touched) /\ Retiring(cCache.good, toCheck, touched)
  /\ Retiring(qCache.entries, toQuery, touched) /\ Retiring(qCache.good, toQuery, touched)
  /\ RetiringAfter(mailbox.entries, mailbox.id[1], floor, toQuery, touched)
  /\ RetiringAfter(mailbox.good, mailbox.id[1], floor, toQuery, touched)

Raised ==
  /\ \A d \in Docs : /\ versions[d] > 0 => versions[d] > touched.closed[d]
                     /\ touched.closed[d] <= generation /\ disk[d] <= touched.watched[d]
  /\ mailbox.id[1] <= generation /\ floor <= generation
  /\ \A i \in 1..Len(toQuery) : toQuery[i] \in Change => floor <= toQuery[i].generation
  /\ Linked(toCheck, toQuery, floor)

ServerShaped == MainShaped /\ QueuesShaped /\ CheckShaped /\ QueryShaped
-----------------------------------------------------------------------------
(***************************************************************************)
(* The operations of the cache.  All but Insert only let go of             *)
(* compilations.                                                           *)
(***************************************************************************)
SubMap(n, m) == n \in Map /\ DOMAIN n \subseteq DOMAIN m /\ \A k \in DOMAIN n : n[k] = m[k]

LEMMA MapProperties ==
  ASSUME NEW m \in Map
  PROVE  /\ DOMAIN m \subseteq Docs /\ m = [k \in DOMAIN m |-> m[k]]
         /\ \A k \in DOMAIN m : m[k] \in Compilation
         /\ SubMap(m, m)
BY DEF Map, SubMap

LEMMA RestrictMap ==
  ASSUME NEW m \in Map, NEW keys \in SUBSET DOMAIN m
  PROVE  SubMap(Restrict(m, keys), m) /\ DOMAIN Restrict(m, keys) = keys
<1>1. keys \in SUBSET Docs /\ \A k \in keys : m[k] \in Compilation
  BY MapProperties
<1>2. Restrict(m, keys) \in [keys -> Compilation]
  BY <1>1 DEF Restrict
<1>3. Restrict(m, keys) \in Map
  BY <1>1, <1>2 DEF Map
<1> QED
  BY <1>3 DEF SubMap, Restrict

LEMMA SubMapTransitive ==
  ASSUME NEW l, NEW m, NEW n, SubMap(n, m), SubMap(m, l)
  PROVE  SubMap(n, l)
BY DEF SubMap

LEMMA WithoutMap ==
  ASSUME NEW m \in Map, NEW u
  PROVE  /\ SubMap(Without(m, u), m)
         /\ \A k \in DOMAIN Without(m, u) : k # u /\ ~Holds(Without(m, u)[k], u)
<1> DEFINE keys == {k \in DOMAIN m : k # u /\ ~Holds(m[k], u)}
<1>1. Without(m, u) = Restrict(m, keys)
  BY DEF Without, Retain
<1>2. SubMap(Restrict(m, keys), m) /\ DOMAIN Restrict(m, keys) = keys
  BY RestrictMap
<1> QED
  BY <1>1, <1>2 DEF SubMap

LEMMA CompilationProperties ==
  ASSUME ServerAssumption, NEW c \in Compilation
  PROVE  /\ c.root \in Docs /\ c.source \in [Uses[c.root] -> Text]
         /\ Uses[c.root] \subseteq Docs /\ DOMAIN c.source = Uses[c.root]
BY DEF Compilation, ServerAssumption

LEMMA CacheFields ==
  ASSUME NEW cache \in Cache
  PROVE  /\ cache.entries \in Map /\ cache.good \in Map
         /\ cache.errors \subseteq Docs /\ cache.recent \in Seq(Docs)
BY DEF Cache

LEMMA InvalidateCache ==
  ASSUME NEW cache \in Cache, NEW u
  PROVE  /\ Invalidate(cache, u) \in Cache
         /\ Invalidate(cache, u).entries = Without(cache.entries, u)
         /\ Invalidate(cache, u).good = cache.good
         /\ Invalidate(cache, u).recent = cache.recent
<1>1. Without(cache.entries, u) \in Map
  BY CacheFields, WithoutMap DEF SubMap
<1> QED
  BY <1>1 DEF Invalidate, Cache

LEMMA PruneCache ==
  ASSUME NEW cache \in Cache, NEW open
  PROVE  /\ Prune(cache, open) \in Cache
         /\ SubMap(Prune(cache, open).entries, cache.entries)
         /\ SubMap(Prune(cache, open).good, cache.good)
         /\ Prune(cache, open).recent = cache.recent
<1> DEFINE active == open \cup ToSet(cache.recent)
           Kept(map) == Restrict(map, {k \in DOMAIN map : k \in active})
<1>1. Prune(cache, open) = [cache EXCEPT !.entries = Kept(cache.entries),
                                         !.good = Kept(cache.good),
                                         !.errors = cache.errors \cap active]
  BY Zenon DEF Prune, Retain
<1>2. \A map \in Map : SubMap(Kept(map), map)
  BY RestrictMap
<1>3. SubMap(Kept(cache.entries), cache.entries) /\ SubMap(Kept(cache.good), cache.good)
  BY <1>2, CacheFields
<1> HIDE DEF Kept, active
<1>4. Kept(cache.entries) \in Map /\ Kept(cache.good) \in Map
  BY <1>3 DEF SubMap
<1> QED
  BY <1>1, <1>3, <1>4 DEF Cache

LEMMA RemoveFirstShorter ==
  ASSUME NEW s \in Seq(Docs), NEW u
  PROVE  /\ RemoveFirst(s, u) \in Seq(Docs)
         /\ Len(RemoveFirst(s, u)) <= Len(s)
<1> DEFINE I == {i \in 1..Len(s) : s[i] = u}
<1>1. CASE I = {}
  BY <1>1 DEF RemoveFirst
<1>2. CASE I # {}
  <2>1. RemoveFirst(s, u) = RemoveAt(s, Min(I))
    BY <1>2 DEF RemoveFirst, SelectInSeq
  <2>0. I \in SUBSET Nat
    OBVIOUS
  <2>2. PICK x \in I : \A y \in I : x <= y
    BY <1>2, <2>0, LeastNumber
  <2>3. Min(I) \in I
    BY <2>2 DEF Min
  <2> DEFINE i == Min(I)
  <2>4. i \in 1..Len(s)
    BY <2>3
  <2> HIDE DEF i
  <2>5. /\ SubSeq(s, 1, i - 1) \in Seq(Docs) /\ Len(SubSeq(s, 1, i - 1)) = i - 1
        /\ SubSeq(s, i + 1, Len(s)) \in Seq(Docs)
        /\ Len(SubSeq(s, i + 1, Len(s))) = Len(s) - i
    BY <2>4, SubSeqProperties
  <2>6. RemoveFirst(s, u) = SubSeq(s, 1, i - 1) \o SubSeq(s, i + 1, Len(s))
    BY <2>1 DEF RemoveAt, i
  <2> DEFINE front == SubSeq(s, 1, i - 1)
             back == SubSeq(s, i + 1, Len(s))
  <2>7. /\ front \in Seq(Docs) /\ back \in Seq(Docs)
        /\ Len(front) = i - 1 /\ Len(back) = Len(s) - i
    BY <2>5
  <2>9. RemoveFirst(s, u) = front \o back
    BY <2>6
  <2> HIDE DEF front, back
  <2>10. front \o back \in Seq(Docs) /\ Len(front \o back) = Len(front) + Len(back)
    BY <2>7, ConcatProperties
  <2> QED
    BY <2>4, <2>7, <2>9, <2>10
<1> QED
  BY <1>1, <1>2

LEMMA TouchCache ==
  ASSUME ServerAssumption, NEW cache \in Cache, NEW u \in Docs
  PROVE  /\ Touch(cache, u) \in Cache
         /\ Touch(cache, u).entries = cache.entries
         /\ Touch(cache, u).good = cache.good
         /\ Touch(cache, u).errors = cache.errors
         /\ Len(cache.recent) <= RecentLimit => Len(Touch(cache, u).recent) <= RecentLimit
<1> DEFINE rest == RemoveFirst(cache.recent, u)
           moved == Append(rest, u)
           recent == IF Len(moved) > RecentLimit THEN Tail(moved) ELSE moved
<1>1. rest \in Seq(Docs) /\ Len(rest) <= Len(cache.recent)
  BY RemoveFirstShorter, CacheFields
<1>2. RecentLimit \in Nat
  BY DEF ServerAssumption, RecentLimitAssumption
<1> HIDE DEF rest
<1>3. moved \in Seq(Docs) /\ Len(moved) = Len(rest) + 1
  BY <1>1
<1> HIDE DEF moved
<1>4. recent \in Seq(Docs)
  BY <1>1, <1>2, <1>3
<1>5. Len(cache.recent) <= RecentLimit => Len(recent) <= RecentLimit
  BY <1>1, <1>2, <1>3, CacheFields
<1>6. Touch(cache, u) = [cache EXCEPT !.recent = recent]
  BY Zenon DEF Touch, recent, moved, rest
<1> HIDE DEF recent
<1> QED
  BY <1>4, <1>5, <1>6 DEF Cache

LEMMA CloseUriCache ==
  ASSUME NEW cache \in Cache, NEW u, NEW open
  PROVE  /\ CloseUri(cache, u, open) \in Cache
         /\ SubMap(CloseUri(cache, u, open).entries, Without(cache.entries, u))
         /\ SubMap(CloseUri(cache, u, open).good, Without(cache.good, u))
         /\ Len(CloseUri(cache, u, open).recent) <= Len(cache.recent)
<1> DEFINE inner == [Invalidate(cache, u) EXCEPT !.recent = RemoveFirst(cache.recent, u),
                                                 !.good = Without(cache.good, u)]
<1>1. /\ RemoveFirst(cache.recent, u) \in Seq(Docs)
      /\ Len(RemoveFirst(cache.recent, u)) <= Len(cache.recent)
  BY RemoveFirstShorter, CacheFields
<1>2. Without(cache.good, u) \in Map
  BY CacheFields, WithoutMap DEF SubMap
<1>3. /\ inner \in Cache /\ inner.entries = Without(cache.entries, u)
      /\ inner.good = Without(cache.good, u) /\ inner.recent = RemoveFirst(cache.recent, u)
  BY <1>1, <1>2, InvalidateCache DEF Cache
<1>4. CloseUri(cache, u, open) = Prune(inner, open)
  <2>1. Invalidate(cache, u).recent = cache.recent /\ Invalidate(cache, u).good = cache.good
    BY InvalidateCache
  <2> QED
    BY <2>1, Zenon DEF CloseUri
<1> HIDE DEF inner
<1> QED
  BY <1>1, <1>3, <1>4, PruneCache

LEMMA InvalidateWatchedCache ==
  ASSUME NEW cache \in Cache, NEW u
  PROVE  /\ InvalidateWatched(cache, u) \in Cache
         /\ SubMap(InvalidateWatched(cache, u).entries, cache.entries)
         /\ SubMap(InvalidateWatched(cache, u).good, cache.good)
         /\ InvalidateWatched(cache, u).recent = cache.recent
         /\ \A k \in DOMAIN InvalidateWatched(cache, u).entries :
              ~Holds(InvalidateWatched(cache, u).entries[k], u)
         /\ \A k \in DOMAIN InvalidateWatched(cache, u).good :
              ~Holds(InvalidateWatched(cache, u).good[k], u)
<1> DEFINE held == Range(cache.entries) \cup Range(cache.good)
           roots == {c.root : c \in {c \in held : Holds(c, u)}}
           Unaffected(map) == Restrict(map, {k \in DOMAIN map : map[k].root \notin roots})
           entries == Unaffected(cache.entries)
           good == Unaffected(cache.good)
<1>1. InvalidateWatched(cache, u) = [cache EXCEPT !.entries = entries, !.good = good,
                                                  !.errors = {}]
  BY Zenon DEF InvalidateWatched, Retain
<1>2. \A map \in Map : /\ SubMap(Unaffected(map), map)
                       /\ DOMAIN Unaffected(map) = {k \in DOMAIN map : map[k].root \notin roots}
  BY RestrictMap
<1>3. SubMap(entries, cache.entries) /\ SubMap(good, cache.good)
  BY <1>2, CacheFields
<1>4. \A k \in DOMAIN cache.entries : Holds(cache.entries[k], u) => cache.entries[k].root \in roots
  BY DEF Range
<1>5. \A k \in DOMAIN cache.good : Holds(cache.good[k], u) => cache.good[k].root \in roots
  BY DEF Range
<1>6. \A k \in DOMAIN entries : ~Holds(entries[k], u)
  BY <1>2, <1>3, <1>4, CacheFields DEF SubMap
<1>7. \A k \in DOMAIN good : ~Holds(good[k], u)
  BY <1>2, <1>3, <1>5, CacheFields DEF SubMap
<1>8. entries \in Map /\ good \in Map
  BY <1>3 DEF SubMap
<1> HIDE DEF entries, good
<1> QED
  BY <1>1, <1>3, <1>6, <1>7, <1>8 DEF Cache

Inserted(new, cache, c) ==
  /\ new \in Cache /\ new.recent = cache.recent
  /\ \A k \in DOMAIN new.entries :
       \/ new.entries[k] = c /\ Holds(c, k)
       \/ k \in DOMAIN cache.entries /\ new.entries[k] = cache.entries[k]
  /\ \A k \in DOMAIN new.good :
       new.good[k] = c \/ (k \in DOMAIN cache.good /\ new.good[k] = cache.good[k])

LEMMA InsertCache ==
  ASSUME ServerAssumption, NEW cache \in Cache, NEW c \in Compilation,
         NEW open
  PROVE  Inserted(Prune(Insert(cache, c.root, c), open), cache, c)
<1> DEFINE keys == {c.root} \cup DOMAIN c.source
           Put(map) == [k \in DOMAIN map \cup keys |-> IF k \in keys THEN c ELSE map[k]]
           inner == [cache EXCEPT !.entries = Put(cache.entries), !.good = Put(cache.good),
                                  !.errors = cache.errors \ keys]
<1>1. Insert(cache, c.root, c) = inner
  BY Zenon DEF Insert
<1>2. keys \subseteq Docs /\ \A k \in keys : Holds(c, k)
  BY CompilationProperties DEF ServerAssumption, Holds
<1>3. \A map \in Map : Put(map) \in Map
  <2> SUFFICES ASSUME NEW map \in Map PROVE Put(map) \in Map
    OBVIOUS
  <2>1. DOMAIN map \cup keys \in SUBSET Docs
    BY <1>2, MapProperties
  <2>2. Put(map) \in [DOMAIN map \cup keys -> Compilation]
    BY MapProperties
  <2> QED
    BY <2>1, <2>2 DEF Map
<1>4. Put(cache.entries) \in Map /\ Put(cache.good) \in Map
  BY <1>3, CacheFields
<1>5. \A map : \A k \in DOMAIN Put(map) : \/ Put(map)[k] = c /\ Holds(c, k)
                                          \/ k \in DOMAIN map /\ Put(map)[k] = map[k]
  BY <1>2
<1> HIDE DEF Put, keys
<1>6. /\ inner \in Cache /\ inner.entries = Put(cache.entries) /\ inner.good = Put(cache.good)
      /\ inner.recent = cache.recent
  BY <1>4 DEF Cache
<1> HIDE DEF inner
<1>7. /\ Prune(inner, open) \in Cache /\ Prune(inner, open).recent = inner.recent
      /\ SubMap(Prune(inner, open).entries, inner.entries)
      /\ SubMap(Prune(inner, open).good, inner.good)
  BY <1>6, PruneCache
<1>8. \A k \in DOMAIN Prune(inner, open).entries :
              \/ Prune(inner, open).entries[k] = c /\ Holds(c, k)
              \/ k \in DOMAIN cache.entries /\ Prune(inner, open).entries[k] = cache.entries[k]
  BY <1>5, <1>6, <1>7 DEF SubMap
<1>9. \A k \in DOMAIN Prune(inner, open).good :
              \/ Prune(inner, open).good[k] = c
              \/ k \in DOMAIN cache.good /\ Prune(inner, open).good[k] = cache.good[k]
  BY <1>5, <1>6, <1>7 DEF SubMap
<1> QED
  BY <1>1, <1>6, <1>7, <1>8, <1>9, Zenon DEF Inserted

LEMMA InsertErrorCache ==
  ASSUME NEW cache \in Cache, NEW u \in Docs
  PROVE  /\ InsertError(cache, u) \in Cache
         /\ InsertError(cache, u).entries = cache.entries
         /\ InsertError(cache, u).good = cache.good
         /\ InsertError(cache, u).recent = cache.recent
BY DEF InsertError, Cache
-----------------------------------------------------------------------------
(***************************************************************************)
(* A snapshot is installed document by document; each visit lets go of     *)
(* every compilation that saw another text of the document.                *)
(***************************************************************************)
LEMMA AgreedSubMap ==
  ASSUME NEW m, NEW n, Agreed(m), SubMap(n, m)
  PROVE  Agreed(n)
BY DEF Agreed, SubMap, Holds

LEMMA ReconcileCache ==
  ASSUME NEW held \in Cache, Agreed(held.entries), NEW d, NEW texts, texts[d] > 0
  PROVE  /\ Reconcile(held, d, texts) \in Cache
         /\ SubMap(Reconcile(held, d, texts).entries, held.entries)
         /\ Reconcile(held, d, texts).good = held.good
         /\ Reconcile(held, d, texts).recent = held.recent
         /\ \A k \in DOMAIN Reconcile(held, d, texts).entries :
              Holds(Reconcile(held, d, texts).entries[k], d) =>
                Reconcile(held, d, texts).entries[k].source[d] = texts[d]
<1> DEFINE stale == \E c \in Lookup(held.entries, d) : Holds(c, d) => c.source[d] # texts[d]
<1>1. held.entries \in Map
  BY CacheFields
<1>2. CASE stale
  <2>1. Reconcile(held, d, texts) = Invalidate(held, d)
    BY <1>2 DEF Reconcile
  <2>2. /\ SubMap(Without(held.entries, d), held.entries)
        /\ \A k \in DOMAIN Without(held.entries, d) : ~Holds(Without(held.entries, d)[k], d)
    BY <1>1, WithoutMap
  <2> QED
    BY <2>1, <2>2, InvalidateCache
<1>3. CASE ~stale
  <2>1. Reconcile(held, d, texts) = held
    BY <1>3 DEF Reconcile
  <2>2. SubMap(held.entries, held.entries)
    BY <1>1, MapProperties
  <2>3. ASSUME NEW k \in DOMAIN held.entries, Holds(held.entries[k], d)
        PROVE  held.entries[k].source[d] = texts[d]
    <3>1. CASE d \in DOMAIN held.entries
      <4>1. held.entries[d] \in Lookup(held.entries, d)
        BY <3>1 DEF Lookup
      <4>2. Holds(held.entries[d], d) /\ held.entries[d].source[d] = texts[d]
        BY <1>3, <4>1
      <4>3. d \in DOMAIN held.entries[d].source \cap DOMAIN held.entries[k].source
        BY <2>3, <4>2 DEF Holds
      <4>4. held.entries[d].source[d] > 0
        BY <4>2
      <4> QED
        BY <2>3, <3>1, <4>2, <4>3, <4>4 DEF Agreed
    <3>2. CASE d \notin DOMAIN held.entries
      <4>1. held.entries[k] \in Lookup(held.entries, d)
        BY <2>3, <3>2 DEF Lookup, Range
      <4> QED
        BY <1>3, <2>3, <4>1
    <3> QED
      BY <3>1, <3>2
  <2> QED
    BY <2>1, <2>2, <2>3
<1> QED
  BY <1>2, <1>3

\* The cache after each visit, in their order.
Visits(after, adopted, texts, order) ==
  /\ DOMAIN after = 0..Len(order) /\ after[0] = adopted
  /\ \A i \in 1..Len(order) : after[i] = Reconcile(after[i - 1], order[i], texts)
  /\ Reconciled(adopted, texts, order) = after[Len(order)]

\* The visits are well defined.
LEMMA ReconciledUnfolds ==
  ASSUME NEW adopted, NEW texts, NEW order, Len(order) \in Nat
  PROVE  \E after : Visits(after, adopted, texts, order)
<1> DEFINE Step(f, i) == IF i = 0 THEN adopted ELSE Reconcile(f[i - 1], order[i], texts)
           Is(f, n) == f = [i \in 0..n |-> Step(f, i)]
           Missing == {n \in Nat : ~\E f : Is(f, n)}
<1>1. \A n \in Nat : \E f : Is(f, n)
  <2> SUFFICES ASSUME Missing # {} PROVE FALSE
    OBVIOUS
  <2>1. PICK n \in Missing : \A m \in Missing : n <= m
    BY LeastNumber
  <2>2. CASE n = 0
    <3> DEFINE g == [i \in 0..0 |-> adopted]
    <3>1. g = [i \in 0..0 |-> Step(g, i)]
      OBVIOUS
    <3> QED
      BY <2>1, <2>2, <3>1
  <2>3. CASE n # 0
    <3>0. n \in Nat /\ n - 1 \in Nat /\ ~(n <= n - 1)
      BY <2>3
    <3>1. n - 1 \in Nat /\ n - 1 \notin Missing
      BY <2>1, <3>0, Zenon
    <3>2. PICK f : Is(f, n - 1)
      BY <3>1
    <3> DEFINE g == [i \in 0..n |-> IF i = n THEN Reconcile(f[n - 1], order[n], texts) ELSE f[i]]
    <3>3. ASSUME NEW i \in 0..n PROVE g[i] = Step(g, i)
      <4>1. CASE i = n
        BY <2>3, <3>1, <4>1
      <4>2. CASE i # n
        <5>1. i \in 0..(n - 1)
          BY <4>2, <2>1
        <5>2. f[i] = Step(f, i)
          BY <3>2, <5>1
        <5>3. i # 0 => g[i - 1] = f[i - 1]
          BY <5>1, <2>1
        <5> QED
          BY <4>2, <5>2, <5>3
      <4> QED
        BY <4>1, <4>2
    <3> HIDE DEF Step
    <3>4. Is(g, n)
      BY <3>3
    <3> QED
      BY <2>1, <3>4
  <2> QED
    BY <2>2, <2>3
<1> DEFINE after == CHOOSE f : Is(f, Len(order))
<1>2. Reconciled(adopted, texts, order) = after[Len(order)]
  BY Zenon DEF Reconciled
<1>3. Is(after, Len(order))
  BY <1>1
<1> HIDE DEF after
<1>4. DOMAIN after = 0..Len(order) /\ \A i \in 0..Len(order) : after[i] = Step(after, i)
  BY <1>3
<1>5. /\ after[0] = adopted
      /\ \A i \in 1..Len(order) : after[i] = Reconcile(after[i - 1], order[i], texts)
  BY <1>4
<1> QED
  BY <1>2, <1>4, <1>5 DEF Visits

LEMMA ReconciledCache ==
  ASSUME NEW adopted \in Cache, Agreed(adopted.entries), NEW texts, NEW order,
         Len(order) \in Nat, \A i \in 1..Len(order) : texts[order[i]] > 0
  PROVE  /\ Reconciled(adopted, texts, order) \in Cache
         /\ SubMap(Reconciled(adopted, texts, order).entries, adopted.entries)
         /\ Reconciled(adopted, texts, order).good = adopted.good
         /\ Reconciled(adopted, texts, order).recent = adopted.recent
         /\ \A k \in DOMAIN Reconciled(adopted, texts, order).entries :
              \A i \in 1..Len(order) :
                Holds(Reconciled(adopted, texts, order).entries[k], order[i]) =>
                  Reconciled(adopted, texts, order).entries[k].source[order[i]] = texts[order[i]]
<1>0. PICK after : Visits(after, adopted, texts, order)
  BY ReconciledUnfolds
<1>1. /\ after[0] = adopted /\ Reconciled(adopted, texts, order) = after[Len(order)]
      /\ \A i \in 1..Len(order) : after[i] = Reconcile(after[i - 1], order[i], texts)
  BY <1>0 DEF Visits
<1> DEFINE Saw(c, d) == Holds(c, d) => c.source[d] = texts[d]
           Good(n) == /\ after[n] \in Cache /\ SubMap(after[n].entries, adopted.entries)
                      /\ after[n].good = adopted.good /\ after[n].recent = adopted.recent
                      /\ \A k \in DOMAIN after[n].entries : \A i \in 1..n :
                           Saw(after[n].entries[k], order[i])
           Bad == {n \in 0..Len(order) : ~Good(n)}
<1>2. Good(0)
  BY <1>1, CacheFields, MapProperties
<1>3. ASSUME NEW n \in 1..Len(order), Good(n - 1) PROVE Good(n)
  <2> DEFINE before == after[n - 1]
  <2>1. before \in Cache /\ SubMap(before.entries, adopted.entries)
    BY <1>3
  <2>2. Agreed(before.entries)
    BY <2>1, AgreedSubMap
  <2>3. after[n] = Reconcile(before, order[n], texts) /\ texts[order[n]] > 0
    BY <1>1
  <2>4. /\ after[n] \in Cache /\ SubMap(after[n].entries, before.entries)
        /\ after[n].good = before.good /\ after[n].recent = before.recent
        /\ \A k \in DOMAIN after[n].entries : Saw(after[n].entries[k], order[n])
    BY <2>1, <2>2, <2>3, ReconcileCache
  <2>5. SubMap(after[n].entries, adopted.entries)
    BY <2>1, <2>4, SubMapTransitive
  <2>6. ASSUME NEW k \in DOMAIN after[n].entries, NEW i \in 1..n
        PROVE  Saw(after[n].entries[k], order[i])
    <3> HIDE DEF Saw
    <3>1. CASE i = n
      BY <2>4, <3>1
    <3>2. CASE i # n
      <4>1. i \in 1..(n - 1)
        BY <3>2
      <4>2. k \in DOMAIN before.entries /\ after[n].entries[k] = before.entries[k]
        BY <2>4 DEF SubMap
      <4> QED
        BY <1>3, <4>1, <4>2
    <3> QED
      BY <3>1, <3>2
  <2>7. after[n].good = adopted.good /\ after[n].recent = adopted.recent
    BY <1>3, <2>4
  <2> QED
    BY <2>4, <2>5, <2>6, <2>7
<1> HIDE DEF Good
<1>4. Bad = {}
  <2> SUFFICES ASSUME Bad # {} PROVE FALSE
    OBVIOUS
  <2>0. Bad \in SUBSET Nat
    OBVIOUS
  <2>1. PICK n \in Bad : \A m \in Bad : n <= m
    BY <2>0, LeastNumber
  <2>2. n \in 1..Len(order) /\ n - 1 \in 0..Len(order)
    BY <1>2, <2>1
  <2>3. n - 1 \notin Bad
    BY <2>1, <2>2
  <2> QED
    BY <1>3, <2>1, <2>2, <2>3
<1>5. Good(Len(order))
  BY <1>4
<1> QED
  BY <1>1, <1>5 DEF Good

LEMMA InstallCache ==
  ASSUME ServerAssumption, NEW cache \in Cache, NEW snapshot,
         snapshot.entries \in Map, snapshot.good \in Map, Agreed(snapshot.entries),
         NEW texts \in [Docs -> 0..MaxGeneration], NEW order \in SetToSeqs(Opened(texts))
  PROVE  LET new == Install(cache, snapshot, texts, order) IN
         /\ new \in Cache /\ new.recent = cache.recent
         /\ SubMap(new.entries, snapshot.entries) /\ SubMap(new.good, snapshot.good)
         /\ \A k \in DOMAIN new.entries : SawOpen(new.entries[k], texts)
<1> DEFINE open == Opened(texts)
           n == Cardinality(open)
<1>1. IsFiniteSet(open) /\ n \in Nat
  <2>1. open \subseteq Docs
    BY DEF Opened
  <2> QED
    BY <2>1, FS_Subset, FS_CardinalityType DEF ServerAssumption
<1>2. order \in [1..n -> open] /\ \A i, j \in 1..n : i # j => order[i] # order[j]
  BY DEF SetToSeqs
<1>3. order \in Seq(open) /\ Len(order) = n
  BY <1>1, <1>2
<1>4. \A d \in open : \E i \in 1..n : order[i] = d
  <2>1. order \in Injection(1..n, open)
    BY <1>2 DEF Injection, IsInjective
  <2>2. Cardinality(1..n) = n
    BY <1>1, FS_Interval
  <2>3. order \in Surjection(1..n, open)
    BY <1>1, <2>1, <2>2, FS_Injection
  <2> QED
    BY <2>3 DEF Surjection
<1> DEFINE adopted == [cache EXCEPT !.entries = snapshot.entries, !.good = snapshot.good]
           final == Reconciled(adopted, texts, order)
           new == Prune(final, ToSet(order))
<1>5. /\ adopted \in Cache /\ adopted.entries = snapshot.entries
      /\ adopted.good = snapshot.good /\ adopted.recent = cache.recent
  BY DEF Cache
<1>6. \A i \in 1..Len(order) : texts[order[i]] > 0
  BY <1>2, <1>3 DEF Opened
<1>7. Install(cache, snapshot, texts, order) = new
  BY Zenon DEF Install
<1> HIDE DEF adopted
<1>8. /\ final \in Cache /\ SubMap(final.entries, adopted.entries)
      /\ final.good = adopted.good /\ final.recent = adopted.recent
      /\ \A k \in DOMAIN final.entries : \A i \in 1..Len(order) :
           Holds(final.entries[k], order[i]) => final.entries[k].source[order[i]] = texts[order[i]]
  <2>1. adopted \in Cache /\ Agreed(adopted.entries) /\ Len(order) \in Nat
    BY <1>1, <1>3, <1>5
  <2> QED
    BY <1>6, <2>1, ReconciledCache, SMTT(30)
<1> HIDE DEF final
<1>9. /\ new \in Cache /\ SubMap(new.entries, final.entries)
      /\ SubMap(new.good, final.good) /\ new.recent = final.recent
  BY <1>8, PruneCache
<1> HIDE DEF new
<1>10. SubMap(new.entries, snapshot.entries) /\ SubMap(new.good, snapshot.good)
  BY <1>5, <1>8, <1>9, SubMapTransitive
<1>11. ASSUME NEW k \in DOMAIN new.entries PROVE SawOpen(new.entries[k], texts)
  <2>1. k \in DOMAIN final.entries /\ new.entries[k] = final.entries[k]
    BY <1>9 DEF SubMap
  <2> DEFINE c == new.entries[k]
  <2>2. c \in Compilation
    BY <1>9, CacheFields, MapProperties
  <2>3. DOMAIN c.source \subseteq Docs
    BY <2>2, CompilationProperties
  <2> HIDE DEF c
  <2>4. ASSUME NEW u \in DOMAIN c.source, texts[u] > 0 PROVE c.source[u] = texts[u]
    <3>1. u \in open
      BY <2>3, <2>4 DEF Opened
    <3>2. PICK i \in 1..n : order[i] = u
      BY <1>4, <3>1
    <3>3. Holds(c, u)
      BY DEF Holds
    <3>4. c = final.entries[k]
      BY <2>1 DEF c
    <3> QED
      BY <1>3, <1>8, <2>1, <3>2, <3>3, <3>4
  <2>5. SawOpen(c, texts)
    BY <2>4 DEF SawOpen
  <2> QED
    BY <2>5 DEF c
<1> QED
  BY <1>5, <1>7, <1>8, <1>9, <1>10, <1>11
-----------------------------------------------------------------------------
(***************************************************************************)
(* The channels: a message is added at the end and taken at the front.     *)
(***************************************************************************)
LEMMA MessageKinds ==
  /\ \A m \in Change \cup Query \cup Halt :
       /\ m \in Change <=> m.kind \in {"open", "close", "watch"}
       /\ m \in Query <=> m.kind = "request"
  /\ \A m \in Change \cup Diagnose \cup Halt :
       /\ m \in Change <=> m.kind \in {"open", "close", "watch"}
       /\ m \in Diagnose <=> m.kind = "diagnostics"
BY DEF Change, Query, Halt, Diagnose

LEMMA AppendMessage ==
  ASSUME NEW M, NEW channel \in Seq(M), NEW m \in M
  PROVE  /\ Append(channel, m) \in Seq(M) /\ Len(channel) \in Nat
         /\ Len(Append(channel, m)) = Len(channel) + 1
         /\ \A i \in 1..Len(channel) : Append(channel, m)[i] = channel[i]
         /\ Append(channel, m)[Len(channel) + 1] = m
         /\ \A i \in 1..(Len(channel) + 1) : i \in 1..Len(channel) \/ i = Len(channel) + 1
BY AppendProperties

LEMMA TakeMessage ==
  ASSUME NEW M, NEW channel \in Seq(M), channel # <<>>
  PROVE  /\ Tail(channel) \in Seq(M) /\ Head(channel) = channel[1] /\ Head(channel) \in M
         /\ Len(channel) \in Nat /\ 1 \in 1..Len(channel)
         /\ Len(Tail(channel)) = Len(channel) - 1
         /\ \A i \in 1..Len(Tail(channel)) :
              i + 1 \in 1..Len(channel) /\ Tail(channel)[i] = channel[i + 1]
         /\ \A i \in 1..Len(channel) :
              i = 1 \/ (i - 1 \in 1..Len(Tail(channel)) /\ Tail(channel)[i - 1] = channel[i])
<1>1. /\ Tail(channel) \in Seq(M) /\ Head(channel) = channel[1] /\ Head(channel) \in M
      /\ Len(channel) \in Nat /\ Len(channel) >= 1
      /\ Len(Tail(channel)) = Len(channel) - 1
      /\ \A i \in 1..Len(Tail(channel)) : Tail(channel)[i] = channel[i + 1]
  BY HeadTailProperties, EmptySeq, LenProperties
<1> QED
  BY <1>1

LEMMA OrderedAppend ==
  ASSUME NEW M, NEW channel \in Seq(M), NEW m \in M, NEW last \in Int, NEW later \in Int,
         Ordered(channel, last), last <= later,
         m \in Change => m.generation > last /\ m.generation <= later,
         \A i \in 1..Len(channel) : channel[i] \in Change => channel[i].generation \in Int
  PROVE  Ordered(Append(channel, m), later)
<1> DEFINE new == Append(channel, m)
<1>1. /\ Len(channel) \in Nat /\ Len(new) = Len(channel) + 1
      /\ \A i \in 1..Len(channel) : new[i] = channel[i]
      /\ new[Len(channel) + 1] = m
      /\ \A i \in 1..(Len(channel) + 1) : i \in 1..Len(channel) \/ i = Len(channel) + 1
  BY AppendMessage
<1> HIDE DEF new
<1>2. \A i \in 1..Len(new) : new[i] \in Change => new[i].generation <= later
  BY <1>1 DEF Ordered, Change
<1>3. ASSUME NEW i \in 1..Len(new), NEW j \in 1..Len(new), i < j, new[i] \in Change,
             new[j] \in Change
      PROVE  new[i].generation < new[j].generation
  <2>1. i \in 1..Len(channel) /\ new[i] = channel[i]
    BY <1>1, <1>3
  <2>2. CASE j \in 1..Len(channel)
    BY <1>1, <1>3, <2>1, <2>2 DEF Ordered
  <2>3. CASE j = Len(channel) + 1
    <3>1. channel[i].generation <= last /\ channel[i].generation \in Int
      BY <1>3, <2>1 DEF Ordered
    <3>2. m.generation > last /\ m.generation \in Int /\ new[j] = m
      BY <1>1, <1>3, <2>3 DEF Change
    <3> QED
      BY <2>1, <3>1, <3>2
  <2> QED
    BY <1>1, <2>2, <2>3
<1> QED
  BY <1>2, <1>3 DEF Ordered, new

LEMMA OrderedTail ==
  ASSUME NEW M, NEW channel \in Seq(M), channel # <<>>, NEW last, Ordered(channel, last)
  PROVE  Ordered(Tail(channel), last)
<1> DEFINE new == Tail(channel)
<1>1. \A i \in 1..Len(new) : i + 1 \in 1..Len(channel) /\ new[i] = channel[i + 1]
  BY TakeMessage
<1>2. \A i, j \in 1..Len(new) : i < j => i + 1 < j + 1
  OBVIOUS
<1> HIDE DEF new
<1>3. Ordered(new, last)
  BY <1>1, <1>2 DEF Ordered
<1> QED
  BY <1>3 DEF new

LEMMA FollowsAppend ==
  ASSUME NEW M, NEW channel \in Seq(M), NEW m \in M, NEW texts, NEW known, NEW after,
         Follows(channel, texts, known),
         \A d \in Docs : after[d] = IF Sets(m, d) THEN TextSet(m) ELSE known[d]
  PROVE  Follows(Append(channel, m), texts, after)
<1> DEFINE new == Append(channel, m)
           n == Len(channel)
<1>1. /\ n \in Nat /\ Len(new) = n + 1 /\ n + 1 \in 1..(n + 1)
      /\ \A i \in 1..n : new[i] = channel[i] /\ i \in 1..(n + 1) /\ n + 1 > i
      /\ new[n + 1] = m
      /\ \A i \in 1..(n + 1) : i \in 1..n \/ i = n + 1
  BY AppendMessage
<1> HIDE DEF new, n
<1> SUFFICES ASSUME NEW d \in Docs
             PROVE  /\ (\A i \in 1..Len(new) : ~Sets(new[i], d)) => texts[d] = after[d]
                    /\ \A i \in 1..Len(new) :
                         Sets(new[i], d) /\ (\A j \in 1..Len(new) : j > i => ~Sets(new[j], d)) =>
                           after[d] = TextSet(new[i])
  BY Zenon DEF Follows, new
<1>2. /\ (\A i \in 1..n : ~Sets(channel[i], d)) => texts[d] = known[d]
      /\ \A i \in 1..n :
           Sets(channel[i], d) /\ (\A j \in 1..n : j > i => ~Sets(channel[j], d)) =>
             known[d] = TextSet(channel[i])
  BY Zenon DEF Follows, n
<1>3. CASE Sets(m, d)
  BY <1>1, <1>3
<1>4. CASE ~Sets(m, d)
  <2>1. after[d] = known[d]
    BY <1>4
  <2>2. (\A i \in 1..Len(new) : ~Sets(new[i], d)) => texts[d] = after[d]
    BY <1>1, <1>2, <2>1
  <2>3. ASSUME NEW i \in 1..Len(new), Sets(new[i], d),
               \A j \in 1..Len(new) : j > i => ~Sets(new[j], d)
        PROVE  after[d] = TextSet(new[i])
    <3>1. i \in 1..n /\ Sets(channel[i], d) /\ new[i] = channel[i]
      BY <1>1, <1>4, <2>3
    <3>2. \A j \in 1..n : j > i => ~Sets(channel[j], d)
      BY <1>1, <2>3
    <3> QED
      BY <1>2, <2>1, <3>1, <3>2
  <2> QED
    BY <2>2, <2>3
<1> QED
  BY <1>3, <1>4

LEMMA FollowsTail ==
  ASSUME NEW M, NEW channel \in Seq(M), channel # <<>>, NEW texts, NEW known, NEW after,
         Follows(channel, texts, known),
         \A d \in Docs : after[d] = IF Sets(Head(channel), d) THEN TextSet(Head(channel))
                                                              ELSE texts[d]
  PROVE  Follows(Tail(channel), after, known)
<1> DEFINE new == Tail(channel)
<1>1. /\ Head(channel) = channel[1] /\ 1 \in 1..Len(channel)
      /\ \A i \in 1..Len(new) : i + 1 \in 1..Len(channel) /\ new[i] = channel[i + 1]
      /\ \A i \in 1..Len(channel) : i = 1 \/ (i - 1 \in 1..Len(new) /\ new[i - 1] = channel[i])
  BY TakeMessage
<1> HIDE DEF new
<1> SUFFICES ASSUME NEW d \in Docs
             PROVE  /\ (\A i \in 1..Len(new) : ~Sets(new[i], d)) => after[d] = known[d]
                    /\ \A i \in 1..Len(new) :
                         Sets(new[i], d) /\ (\A j \in 1..Len(new) : j > i => ~Sets(new[j], d)) =>
                           known[d] = TextSet(new[i])
  BY Zenon DEF Follows, new
<1>2. /\ (\A i \in 1..Len(channel) : ~Sets(channel[i], d)) => texts[d] = known[d]
      /\ \A i \in 1..Len(channel) :
           Sets(channel[i], d) /\ (\A j \in 1..Len(channel) : j > i => ~Sets(channel[j], d)) =>
             known[d] = TextSet(channel[i])
  BY Zenon DEF Follows
<1>3. ASSUME \A i \in 1..Len(new) : ~Sets(new[i], d) PROVE after[d] = known[d]
  <2>1. \A i \in 1..Len(channel) : i # 1 => ~Sets(channel[i], d)
    BY <1>1, <1>3
  <2>2. CASE Sets(channel[1], d)
    BY <1>1, <1>2, <2>1, <2>2
  <2>3. CASE ~Sets(channel[1], d)
    BY <1>1, <1>2, <2>1, <2>3
  <2> QED
    BY <2>2, <2>3
<1>4. ASSUME NEW i \in 1..Len(new), Sets(new[i], d),
             \A j \in 1..Len(new) : j > i => ~Sets(new[j], d)
      PROVE  known[d] = TextSet(new[i])
  <2>1. i + 1 \in 1..Len(channel) /\ Sets(channel[i + 1], d) /\ new[i] = channel[i + 1]
    BY <1>1, <1>4
  <2>2. ASSUME NEW j \in 1..Len(channel), j > i + 1 PROVE ~Sets(channel[j], d)
    <3>1. j # 1 /\ j - 1 > i
      BY <2>2
    <3> QED
      BY <1>1, <1>4, <3>1
  <2> QED
    BY <1>2, <2>1, <2>2
<1> QED
  BY <1>3, <1>4

LEMMA NewerChannel ==
  ASSUME NEW M, NEW channel \in Seq(M), NEW tag, Newer(channel, tag)
  PROVE  /\ channel # <<>> => Newer(Tail(channel), tag)
         /\ \A m \in M : (m \in Change => m.generation > tag) => Newer(Append(channel, m), tag)
<1>1. ASSUME channel # <<>> PROVE Newer(Tail(channel), tag)
  BY <1>1, TakeMessage DEF Newer
<1>2. ASSUME NEW m \in M, m \in Change => m.generation > tag
      PROVE  Newer(Append(channel, m), tag)
  BY <1>2, AppendMessage DEF Newer
<1> QED
  BY <1>1, <1>2

(***************************************************************************)
(* A thread that knows of no newer change has the editor's texts.          *)
(***************************************************************************)
LEMMA UpToDate ==
  ASSUME NEW M, NEW channel \in Seq(M), NEW last \in Int, Ordered(channel, last),
         Newer(channel, last), NEW texts, NEW known, Follows(channel, texts, known),
         \A m \in M : m.kind \in {"open", "close", "watch"} => m \in Change
  PROVE  /\ \A d \in Docs : texts[d] = known[d]
         /\ \A d : ~Dropping(channel, d)
<1>1. \A i \in 1..Len(channel) : channel[i] \in M
  BY ElementOfSeq
<1>2. \A i \in 1..Len(channel) : channel[i] \notin Change
  BY DEF Ordered, Newer, Change
<1>3. \A i \in 1..Len(channel) : channel[i].kind \notin {"open", "close", "watch"}
  BY <1>1, <1>2
<1> QED
  BY <1>3 DEF Follows, Dropping, Sets, Drops

(***************************************************************************)
(* What applying a change does to the cache and the texts of a thread.     *)
(***************************************************************************)
LEMMA AppliedCache ==
  ASSUME ServerAssumption, NEW cache \in Cache, NEW texts \in [Docs -> 0..MaxGeneration],
         NEW m \in Change
  PROVE  LET new == Applied(cache, texts, m).cache
             after == Applied(cache, texts, m).texts IN
         /\ new \in Cache /\ SubMap(new.entries, cache.entries) /\ SubMap(new.good, cache.good)
         /\ Len(new.recent) <= Len(cache.recent)
         /\ after \in [Docs -> 0..MaxGeneration]
         /\ \A d \in Docs : after[d] = IF Sets(m, d) THEN TextSet(m) ELSE texts[d]
         /\ \A k \in DOMAIN new.entries : \A u \in DOMAIN new.entries[k].source :
              ~Sets(m, u) /\ ~Drops(m, u)
         /\ \A k \in DOMAIN new.good : \A u \in DOMAIN new.good[k].source : ~Drops(m, u)
<1> DEFINE new == Applied(cache, texts, m).cache
           after == Applied(cache, texts, m).texts
<1>1. /\ m.kind \in {"open", "close", "watch"} /\ m.doc \in Docs
      /\ m.generation \in 1..MaxGeneration
      /\ MaxGeneration \in Nat
  BY DEF Change, ServerAssumption
<1>2. /\ cache.entries \in Map /\ cache.good \in Map /\ cache.recent \in Seq(Docs)
      /\ SubMap(cache.entries, cache.entries) /\ SubMap(cache.good, cache.good)
      /\ Len(cache.recent) \in Nat
  BY CacheFields, MapProperties, LenProperties
<1>3. CASE m.kind = "open"
  <2>1. new = Invalidate(cache, m.doc) /\ after = [texts EXCEPT ![m.doc] = m.generation]
    BY <1>3 DEF Applied
  <2>2. \A u : Sets(m, u) => u = m.doc
    BY DEF Sets
  <2>3. \A u : ~Drops(m, u)
    BY <1>3 DEF Drops
  <2>4. /\ SubMap(Without(cache.entries, m.doc), cache.entries)
        /\ \A k \in DOMAIN Without(cache.entries, m.doc) :
             ~Holds(Without(cache.entries, m.doc)[k], m.doc)
    BY <1>2, WithoutMap
  <2>5. /\ new \in Cache /\ new.entries = Without(cache.entries, m.doc)
        /\ new.good = cache.good /\ new.recent = cache.recent
    BY <2>1, InvalidateCache
  <2>6. after \in [Docs -> 0..MaxGeneration]
        /\ \A d \in Docs : after[d] = IF Sets(m, d) THEN TextSet(m) ELSE texts[d]
    BY <1>1, <1>3, <2>1 DEF Sets, TextSet
  <2> HIDE DEF new, after
  <2>7. \A k \in DOMAIN new.entries : \A u \in DOMAIN new.entries[k].source : ~Sets(m, u)
    BY <2>2, <2>4, <2>5 DEF Holds
  <2>8. SubMap(new.entries, cache.entries) /\ SubMap(new.good, cache.good)
        /\ Len(new.recent) <= Len(cache.recent)
    BY <1>2, <2>4, <2>5
  <2> QED
    BY <2>3, <2>5, <2>6, <2>7, <2>8, Zenon DEF new, after
<1>4. CASE m.kind = "close"
  <2> DEFINE open == Opened(texts) \ {m.doc}
  <2>1. new = CloseUri(cache, m.doc, open) /\ after = [texts EXCEPT ![m.doc] = 0]
    BY <1>4 DEF Applied
  <2>2. \A u : Sets(m, u) \/ Drops(m, u) => u = m.doc
    BY DEF Sets, Drops
  <2>3. /\ SubMap(Without(cache.entries, m.doc), cache.entries)
        /\ \A k \in DOMAIN Without(cache.entries, m.doc) :
             ~Holds(Without(cache.entries, m.doc)[k], m.doc)
        /\ SubMap(Without(cache.good, m.doc), cache.good)
        /\ \A k \in DOMAIN Without(cache.good, m.doc) : ~Holds(Without(cache.good, m.doc)[k], m.doc)
    BY <1>2, WithoutMap
  <2> HIDE DEF open
  <2>4. /\ new \in Cache /\ SubMap(new.entries, Without(cache.entries, m.doc))
        /\ SubMap(new.good, Without(cache.good, m.doc)) /\ Len(new.recent) <= Len(cache.recent)
    BY <2>1, CloseUriCache
  <2>5. after \in [Docs -> 0..MaxGeneration]
        /\ \A d \in Docs : after[d] = IF Sets(m, d) THEN TextSet(m) ELSE texts[d]
    BY <1>1, <1>4, <2>1 DEF Sets, TextSet
  <2> HIDE DEF new, after
  <2>6. \A k \in DOMAIN new.entries : ~Holds(new.entries[k], m.doc)
    BY <2>3, <2>4 DEF SubMap
  <2>7. \A k \in DOMAIN new.good : ~Holds(new.good[k], m.doc)
    BY <2>3, <2>4 DEF SubMap
  <2>8. SubMap(new.entries, cache.entries) /\ SubMap(new.good, cache.good)
    BY <2>3, <2>4, SubMapTransitive
  <2>9. \A k \in DOMAIN new.entries : \A u \in DOMAIN new.entries[k].source :
              ~Sets(m, u) /\ ~Drops(m, u)
    BY <2>2, <2>6 DEF Holds
  <2>10. \A k \in DOMAIN new.good : \A u \in DOMAIN new.good[k].source : ~Drops(m, u)
    BY <2>2, <2>7 DEF Holds
  <2> QED
    BY <2>4, <2>5, <2>8, <2>9, <2>10, Zenon DEF new, after
<1>5. CASE m.kind = "watch"
  <2>1. new = InvalidateWatched(cache, m.doc) /\ after = texts
    BY <1>5 DEF Applied
  <2>2. \A u : ~Sets(m, u) /\ (Drops(m, u) => u = m.doc)
    BY <1>5 DEF Sets, Drops
  <2>3. /\ new \in Cache /\ SubMap(new.entries, cache.entries) /\ SubMap(new.good, cache.good)
        /\ new.recent = cache.recent
        /\ \A k \in DOMAIN new.entries : ~Holds(new.entries[k], m.doc)
        /\ \A k \in DOMAIN new.good : ~Holds(new.good[k], m.doc)
    BY <2>1, InvalidateWatchedCache
  <2>4. after \in [Docs -> 0..MaxGeneration]
        /\ \A d \in Docs : after[d] = IF Sets(m, d) THEN TextSet(m) ELSE texts[d]
    BY <2>1, <2>2
  <2> HIDE DEF new, after
  <2>5. \A k \in DOMAIN new.entries : \A u \in DOMAIN new.entries[k].source :
              ~Sets(m, u) /\ ~Drops(m, u)
    BY <2>2, <2>3 DEF Holds
  <2>6. \A k \in DOMAIN new.good : \A u \in DOMAIN new.good[k].source : ~Drops(m, u)
    BY <2>2, <2>3 DEF Holds
  <2>7. Len(new.recent) <= Len(cache.recent)
    BY <1>2, <2>3
  <2> QED
    BY <2>3, <2>4, <2>5, <2>6, <2>7, Zenon DEF new, after
<1> QED
  BY <1>1, <1>3, <1>4, <1>5
-----------------------------------------------------------------------------
(***************************************************************************)
(* Which thread changes what.                                              *)
(***************************************************************************)
LEMMA ThreadsLeave ==
  /\ MainStep => UNCHANGED <<checkVars, query, qOpen, qCache, floor, installed>>
  /\ CheckStep => UNCHANGED <<mainVars, toQuery, cancelled, queryVars>>
  /\ QueryStep => UNCHANGED <<mainVars, toCheck, checkVars>>
<1>1. MainStep => UNCHANGED <<checkVars, query, qOpen, qCache, floor, installed>>
  BY DEF MainStep, OpenDoc, CloseDoc, WatchDoc, WriteFile, Request, Refuse, Cancel, Debounced,
         Shutdown, Stop, Notify, checkVars, queryVars, mainVars
<1>2. CheckStep => UNCHANGED <<mainVars, toQuery, cancelled, queryVars>>
  BY DEF CheckStep, CheckChange, DeferDiagnostics, CheckDiagnostics, CheckStop, GiveUp,
         PublishEarly, CompileFor, CompileCancelled, PublishFinal, SendDiagnostics, restOfCheck
<1>3. QueryStep => UNCHANGED <<mainVars, toCheck, checkVars>>
  BY DEF QueryStep, QueryChange, QueryRequest, QueryStop, FinishAnswer, restOfQuery
<1> QED
  BY <1>1, <1>2, <1>3

\* A notification, as a message.
Notified(m) ==
  /\ m \in Change /\ m.generation = generation + 1 /\ generation' = generation + 1
  /\ phase = "running" /\ phase' = phase /\ due' = TRUE /\ generation < MaxGeneration
  /\ toQuery' = Append(toQuery, m) /\ toCheck' = Append(toCheck, m)
  /\ versions' \in [Docs -> 0..MaxGeneration]
  /\ \A d \in Docs : versions'[d] = IF Sets(m, d) THEN TextSet(m) ELSE versions[d]
  /\ touched' \in [closed : [Docs -> 0..MaxGeneration], watched : [Docs -> -MaxWrites..0]]
  /\ \A d \in Docs :
       /\ touched'.closed[d] = IF m.kind = "close" /\ m.doc = d THEN generation + 1
                                                               ELSE touched.closed[d]
       /\ touched'.watched[d] = IF m.kind = "watch" /\ m.doc = d THEN disk[d]
                                                                ELSE touched.watched[d]
  /\ disk' = disk /\ sent' = sent /\ cancelled' = cancelled
  /\ UNCHANGED <<checkVars, queryVars>>

LEMMA Notifications ==
  ASSUME ServerAssumption, MainShaped,
         (\E d \in Edited : OpenDoc(d) \/ CloseDoc(d)) \/ (\E d \in Watched : WatchDoc(d))
  PROVE  \E m : Notified(m)
<1>1. /\ generation \in 0..(MaxGeneration + 1) /\ MaxGeneration \in Nat /\ MaxWrites \in Nat
      /\ versions \in [Docs -> 0..MaxGeneration] /\ disk \in [Docs -> -MaxWrites..0]
      /\ touched \in [closed : [Docs -> 0..MaxGeneration], watched : [Docs -> -MaxWrites..0]]
      /\ Edited \subseteq Docs /\ Watched \subseteq Docs
  BY DEF MainShaped, ServerAssumption
<1> DEFINE Message(kind, d) == [kind |-> kind, doc |-> d, generation |-> generation + 1]
<1>2. ASSUME NEW d \in Docs, NEW kind \in {"open", "close", "watch"},
             Notify([kind |-> kind, doc |-> d, generation |-> 0])
      PROVE  /\ Message(kind, d) \in Change
             /\ generation' = generation + 1 /\ phase = "running" /\ phase' = phase
             /\ due' = TRUE /\ generation < MaxGeneration
             /\ toQuery' = Append(toQuery, Message(kind, d))
             /\ toCheck' = Append(toCheck, Message(kind, d))
             /\ disk' = disk /\ sent' = sent /\ cancelled' = cancelled
             /\ UNCHANGED <<checkVars, queryVars>>
  <2>1. generation' = generation + 1 /\ generation < MaxGeneration
    BY <1>2 DEF Notify
  <2>2. [[kind |-> kind, doc |-> d, generation |-> 0] EXCEPT !.generation = generation']
          = Message(kind, d)
    BY <2>1
  <2>3. Message(kind, d) \in Change
    BY <1>1, <2>1 DEF Change
  <2>4. toQuery' = Append(toQuery, Message(kind, d)) /\ toCheck' = Append(toCheck, Message(kind, d))
    BY <1>2, <2>2 DEF Notify
  <2> QED
    BY <1>2, <2>1, <2>3, <2>4 DEF Notify
<1>3. ASSUME NEW d \in Edited, OpenDoc(d) PROVE \E m : Notified(m)
  <2> DEFINE m == Message("open", d)
  <2>1. Notify([kind |-> "open", doc |-> d, generation |-> 0])
    BY <1>3 DEF OpenDoc
  <2>2. versions' = [versions EXCEPT ![d] = generation + 1] /\ touched' = touched
    BY <1>1, <1>2, <1>3, <2>1 DEF OpenDoc
  <2>3. m.kind = "open" /\ m.doc = d /\ m.generation = generation + 1
    OBVIOUS
  <2>4. generation < MaxGeneration
    BY <1>1, <1>2, <2>1
  <2>5. versions' \in [Docs -> 0..MaxGeneration]
    BY <1>1, <2>2, <2>4
  <2>6. \A u \in Docs : versions'[u] = IF Sets(m, u) THEN TextSet(m) ELSE versions[u]
    BY <1>1, <2>2, <2>3 DEF Sets, TextSet
  <2>7. m \in Change /\ toQuery' = Append(toQuery, m) /\ toCheck' = Append(toCheck, m)
    BY <1>1, <1>2, <2>1
  <2>8. \A u \in Docs :
       /\ touched'.closed[u] = IF m.kind = "close" /\ m.doc = u THEN generation + 1
                                                               ELSE touched.closed[u]
       /\ touched'.watched[u] = IF m.kind = "watch" /\ m.doc = u THEN disk[u]
                                                                ELSE touched.watched[u]
    BY <2>2, <2>3
  <2> HIDE DEF m
  <2>9. Notified(m)
    BY <1>1, <1>2, <2>1, <2>2, <2>3, <2>4, <2>5, <2>6, <2>7, <2>8 DEF Notified
  <2> QED
    BY <2>9
<1>4. ASSUME NEW d \in Edited, CloseDoc(d) PROVE \E m : Notified(m)
  <2> DEFINE m == Message("close", d)
  <2>1. Notify([kind |-> "close", doc |-> d, generation |-> 0])
    BY <1>4 DEF CloseDoc
  <2>4. generation < MaxGeneration /\ generation' = generation + 1
    BY <1>1, <1>2, <2>1
  <2>2. versions' = [versions EXCEPT ![d] = 0]
        /\ touched' = [touched EXCEPT !.closed[d] = generation + 1]
    BY <1>4, <2>4 DEF CloseDoc
  <2>3. m.kind = "close" /\ m.doc = d /\ m.generation = generation + 1
    OBVIOUS
  <2>5. versions' \in [Docs -> 0..MaxGeneration]
    BY <1>1, <2>2, <2>4
  <2>6. \A u \in Docs : versions'[u] = IF Sets(m, u) THEN TextSet(m) ELSE versions[u]
    BY <1>1, <2>2, <2>3 DEF Sets, TextSet
  <2>7. m \in Change /\ toQuery' = Append(toQuery, m) /\ toCheck' = Append(toCheck, m)
    BY <1>1, <1>2, <2>1
  <2>8. touched'.closed = [touched.closed EXCEPT ![d] = generation + 1]
        /\ touched'.watched = touched.watched
        /\ touched' \in [closed : [Docs -> 0..MaxGeneration], watched : [Docs -> -MaxWrites..0]]
    BY <1>1, <2>2, <2>4
  <2>9. \A u \in Docs :
       /\ touched'.closed[u] = IF m.kind = "close" /\ m.doc = u THEN generation + 1
                                                               ELSE touched.closed[u]
       /\ touched'.watched[u] = IF m.kind = "watch" /\ m.doc = u THEN disk[u]
                                                                ELSE touched.watched[u]
    BY <1>1, <2>8, <2>3
  <2> HIDE DEF m
  <2>10. Notified(m)
    BY <1>1, <1>2, <2>1, <2>3, <2>4, <2>5, <2>6, <2>7, <2>8, <2>9 DEF Notified
  <2> QED
    BY <2>10
<1>5. ASSUME NEW d \in Watched, WatchDoc(d) PROVE \E m : Notified(m)
  <2> DEFINE m == Message("watch", d)
  <2>1. Notify([kind |-> "watch", doc |-> d, generation |-> 0])
    BY <1>5 DEF WatchDoc
  <2>4. generation < MaxGeneration /\ generation' = generation + 1
    BY <1>1, <1>2, <2>1
  <2>2. versions' = versions /\ touched' = [touched EXCEPT !.watched[d] = disk[d]]
    BY <1>5 DEF WatchDoc
  <2>3. m.kind = "watch" /\ m.doc = d /\ m.generation = generation + 1
    OBVIOUS
  <2>6. \A u \in Docs : versions'[u] = IF Sets(m, u) THEN TextSet(m) ELSE versions[u]
    BY <1>1, <2>2, <2>3 DEF Sets, TextSet
  <2>7. m \in Change /\ toQuery' = Append(toQuery, m) /\ toCheck' = Append(toCheck, m)
    BY <1>1, <1>2, <2>1
  <2>8. touched'.watched = [touched.watched EXCEPT ![d] = disk[d]]
        /\ touched'.closed = touched.closed
        /\ touched' \in [closed : [Docs -> 0..MaxGeneration], watched : [Docs -> -MaxWrites..0]]
    BY <1>1, <2>2, <2>4
  <2>9. \A u \in Docs :
       /\ touched'.closed[u] = IF m.kind = "close" /\ m.doc = u THEN generation + 1
                                                               ELSE touched.closed[u]
       /\ touched'.watched[u] = IF m.kind = "watch" /\ m.doc = u THEN disk[u]
                                                                ELSE touched.watched[u]
    BY <1>1, <2>8, <2>3
  <2> HIDE DEF m
  <2>10. Notified(m)
    BY <1>1, <1>2, <2>1, <2>2, <2>3, <2>4, <2>6, <2>7, <2>8, <2>9 DEF Notified
  <2> QED
    BY <2>10
<1> QED
  BY <1>3, <1>4, <1>5

\* The other steps of the main thread.
LEMMA MainCases ==
  ASSUME ServerAssumption, MainShaped, MainStep
  PROVE  \/ \E m : Notified(m)
         \/ \E d \in Watched : WriteFile(d)
         \/ \E r \in Requests, d \in Asked, kind \in Kinds : Request(r, d, kind)
         \/ \E r \in Requests : Refuse(r) \/ Cancel(r)
         \/ Debounced \/ Shutdown \/ Stop
BY Notifications, Zenon DEF MainStep

(***************************************************************************)
(* The shapes are kept.                                                    *)
(***************************************************************************)
LEMMA MainShapedStep ==
  ASSUME ServerAssumption, ServerShaped, [ServerNext]_serverVars
  PROVE  MainShaped'
<1> USE DEF MainShaped
<1>1. MainShaped /\ MaxGeneration \in Nat /\ MaxWrites \in Nat /\ Asked \subseteq Docs
      /\ Watched \subseteq Docs
  BY DEF ServerShaped, ServerAssumption
<1>2. ASSUME NEW m, Notified(m) PROVE MainShaped'
  BY <1>1, <1>2 DEF Notified
<1>3. ASSUME NEW d \in Watched, WriteFile(d) PROVE MainShaped'
  BY <1>1, <1>3 DEF WriteFile
<1>4. ASSUME NEW r \in Requests, NEW d \in Asked, NEW kind \in Kinds, Request(r, d, kind)
      PROVE  MainShaped'
  <2> DEFINE new == [generation |-> generation, doc |-> d, kind |-> kind, texts |-> versions,
                     closed |-> touched.closed, watched |-> touched.watched]
  <2>1. new \in SentRequest
    BY <1>1, <1>4 DEF Request, SentRequest
  <2>2. /\ sent' = [sent EXCEPT ![r] = new]
        /\ UNCHANGED <<phase, generation, versions, due, disk, touched, cancelled>>
    BY <1>4, Zenon DEF Request
  <2> HIDE DEF new
  <2>3. sent' \in [Requests -> {Unsent} \cup SentRequest \cup RefusedRequest]
    BY <1>1, <2>1, <2>2
  <2> QED
    BY <1>1, <2>2, <2>3
<1>5. ASSUME NEW r \in Requests, Refuse(r) PROVE MainShaped'
  <2>1. [generation |-> generation, kind |-> "refused"] \in RefusedRequest
    BY <1>1, <1>5 DEF Refuse, RefusedRequest
  <2>2. sent' \in [Requests -> {Unsent} \cup SentRequest \cup RefusedRequest]
    BY <1>1, <1>5, <2>1 DEF Refuse
  <2> QED
    BY <1>1, <1>5, <2>2 DEF Refuse
<1>6. ASSUME NEW r \in Requests, Cancel(r) PROVE MainShaped'
  BY <1>1, <1>6 DEF Cancel, mainVars
<1>7. CASE Debounced
  BY <1>1, <1>7 DEF Debounced
<1>8. CASE Shutdown
  BY <1>1, <1>8 DEF Shutdown
<1>9. CASE Stop
  BY <1>1, <1>9 DEF Stop
<1>10. CASE CheckStep
  BY <1>1, <1>10, ThreadsLeave DEF mainVars
<1>11. CASE QueryStep
  <2>1. cancelled' \subseteq cancelled
    BY <1>11 DEF QueryStep, QueryChange, QueryRequest, QueryStop, FinishAnswer, restOfQuery
  <2>2. UNCHANGED mainVars
    BY <1>11, ThreadsLeave
  <2> QED
    BY <1>1, <2>1, <2>2 DEF mainVars
<1>12. CASE UNCHANGED serverVars
  BY <1>1, <1>12 DEF serverVars, mainVars
<1>13. CASE MainStep
  BY <1>1, <1>2, <1>3, <1>4, <1>5, <1>6, <1>7, <1>8, <1>9, <1>13, MainCases
<1> QED
  BY <1>10, <1>11, <1>12, <1>13 DEF ServerNext, Finished

LEMMA QueuesShapedStep ==
  ASSUME ServerAssumption, ServerShaped, [ServerNext]_serverVars
  PROVE  QueuesShaped'
<1> DEFINE Q == Change \cup Query \cup Halt
           C == Change \cup Diagnose \cup Halt
<1> SUFFICES toQuery' \in Seq(Q) /\ toCheck' \in Seq(C)
  BY DEF QueuesShaped
<1>1. toQuery \in Seq(Q) /\ toCheck \in Seq(C) /\ MainShaped
  BY DEF ServerShaped, QueuesShaped
<1> HIDE DEF Q, C
<1>2. Change \subseteq Q \cap C /\ Query \subseteq Q /\ Diagnose \subseteq C
      /\ [kind |-> "stop"] \in Q \cap C
  BY DEF Q, C, Halt
<1>3. toQuery # <<>> => Tail(toQuery) \in Seq(Q)
  BY <1>1
<1>4. toCheck # <<>> => Tail(toCheck) \in Seq(C)
  BY <1>1
<1>5. ASSUME NEW m, Notified(m) PROVE toQuery' \in Seq(Q) /\ toCheck' \in Seq(C)
  BY <1>1, <1>2, <1>5, AppendMessage DEF Notified
<1>6. ASSUME NEW d \in Watched, WriteFile(d) PROVE UNCHANGED <<toQuery, toCheck>>
  BY <1>6 DEF WriteFile
<1>7. ASSUME NEW r \in Requests, NEW d \in Asked, NEW kind \in Kinds, Request(r, d, kind)
      PROVE  toQuery' \in Seq(Q) /\ toCheck' = toCheck
  <2>1. [kind |-> "request", request |-> r] \in Q
    BY <1>2 DEF Query
  <2> QED
    BY <1>1, <1>7, <2>1, AppendMessage DEF Request
<1>8. ASSUME NEW r \in Requests, Refuse(r) \/ Cancel(r) PROVE UNCHANGED <<toQuery, toCheck>>
  BY <1>8 DEF Refuse, Cancel
<1>9. ASSUME Debounced PROVE toQuery' = toQuery /\ toCheck' \in Seq(C)
  <2>1. [kind |-> "diagnostics", tag |-> generation, texts |-> versions] \in C
    BY <1>1, <1>2, <1>9 DEF Debounced, Diagnose, MainShaped, ServerAssumption
  <2> QED
    BY <1>1, <1>9, <2>1, AppendMessage DEF Debounced
<1>10. ASSUME Shutdown PROVE UNCHANGED <<toQuery, toCheck>>
  BY <1>10 DEF Shutdown
<1>11. ASSUME Stop PROVE toQuery' \in Seq(Q) /\ toCheck' \in Seq(C)
  BY <1>1, <1>2, <1>11, AppendMessage DEF Stop
<1>12. ASSUME CheckStep PROVE toQuery' = toQuery /\ toCheck' \in Seq(C)
  <2>1. toQuery' = toQuery
    BY <1>12, ThreadsLeave
  <2>2. \/ toCheck' = toCheck \/ toCheck' = <<>>
        \/ toCheck # <<>> /\ toCheck' = Tail(toCheck)
    <3>1. CheckChange \/ CheckDiagnostics \/ CheckStop =>
            \/ toCheck' = toCheck \/ toCheck' = <<>>
            \/ toCheck # <<>> /\ toCheck' = Tail(toCheck)
      BY DEF CheckChange, CheckDiagnostics, CheckStop
    <3>2. DeferDiagnostics => toCheck # <<>> /\ toCheck' = Tail(toCheck)
      BY DEF DeferDiagnostics
    <3>3. (\E d \in Docs : CompileFor(d)) => toCheck' = toCheck
      BY Zenon DEF CompileFor
    <3>4. GiveUp \/ PublishEarly \/ CompileCancelled \/ PublishFinal \/ SendDiagnostics =>
            toCheck' = toCheck
      BY DEF GiveUp, PublishEarly, CompileCancelled, PublishFinal, SendDiagnostics
    <3> QED
      BY <1>12, <3>1, <3>2, <3>3, <3>4 DEF CheckStep
  <2>3. toCheck' \in Seq(C)
    BY <1>1, <1>4, <2>2, EmptySeq
  <2> QED
    BY <2>1, <2>3
<1>13. ASSUME QueryStep PROVE toQuery' \in Seq(Q) /\ toCheck' = toCheck
  <2>1. toCheck' = toCheck
    BY <1>13, ThreadsLeave
  <2>2. toQuery' \in Seq(Q)
    BY <1>1, <1>3, <1>13 DEF QueryStep, QueryChange, QueryRequest, QueryStop, FinishAnswer
  <2> QED
    BY <2>1, <2>2
<1>14. CASE UNCHANGED serverVars
  BY <1>1, <1>14 DEF serverVars
<1>15. CASE MainStep
  BY <1>1, <1>5, <1>6, <1>7, <1>8, <1>9, <1>10, <1>11, <1>15, MainCases
<1> QED
  BY <1>1, <1>12, <1>13, <1>14, <1>15 DEF ServerNext, Finished

(***************************************************************************)
(* One compilation, from the cache or new.                                 *)
(***************************************************************************)
LEMMA CompiledIsCompilation ==
  ASSUME ServerAssumption, MainShaped, CheckShaped, NEW d \in Docs
  PROVE  /\ Compiled(d) \in Compilation /\ Compiled(d).root = d
         /\ DOMAIN Compiled(d).source = Uses[d]
         /\ \A u \in Uses[d] : u \in Docs /\ Compiled(d).source[u] = Seen(u)
<1>1. /\ Uses[d] \subseteq Docs /\ MaxGeneration \in Nat /\ MaxWrites \in Nat
      /\ cOpen \in [Docs -> 0..MaxGeneration] /\ disk \in [Docs -> -MaxWrites..0]
  BY DEF ServerAssumption, MainShaped, CheckShaped
<1>2. \A u \in Uses[d] : Seen(u) \in Text
  BY <1>1 DEF Seen, Text
<1>3. [u \in Uses[d] |-> Seen(u)] \in [Uses[d] -> Text]
  BY <1>2
<1>4. Compiled(d) \in [root : {d}, source : [Uses[d] -> Text]]
  BY <1>3 DEF Compiled
<1>5. Compiled(d) \in Compilation
  BY <1>4 DEF Compilation
<1> QED
  BY <1>1, <1>5 DEF Compiled

LEMMA CompileForEffect ==
  ASSUME ServerAssumption, MainShaped, CheckShaped, NEW d \in Docs, CompileFor(d)
  PROVE  /\ checker.at = "compile" /\ d \in checker.todo /\ generation = checker.tag
         /\ checker' = [checker EXCEPT !.todo = @ \ {d}]
         /\ UNCHANGED <<toCheck, cOpen, deferred, shown, shownFor, mailbox>>
         /\ cCache' \in Cache /\ Len(cCache'.recent) <= RecentLimit
         /\ \A k \in DOMAIN cCache'.entries :
              \/ cCache'.entries[k] = Compiled(d) /\ Holds(Compiled(d), k)
              \/ k \in DOMAIN cCache.entries /\ cCache'.entries[k] = cCache.entries[k]
         /\ \A k \in DOMAIN cCache'.good :
              \/ cCache'.good[k] = Compiled(d)
              \/ k \in DOMAIN cCache.good /\ cCache'.good[k] = cCache.good[k]
         /\ \/ next' = Failed(d) \/ next' = Found(Compiled(d))
            \/ d \in DOMAIN cCache.entries /\ next' = Found(cCache.entries[d])
<1> DEFINE cache == Touch(cCache, d)
           open == Opened(cOpen)
           inserted == Prune(Insert(cache, d, Compiled(d)), open)
           failed == Prune(InsertError(cache, d), open)
           Caches(new) ==
             /\ new \in Cache /\ Len(new.recent) <= RecentLimit
             /\ \A k \in DOMAIN new.entries :
                  \/ new.entries[k] = Compiled(d) /\ Holds(Compiled(d), k)
                  \/ k \in DOMAIN cCache.entries /\ new.entries[k] = cCache.entries[k]
             /\ \A k \in DOMAIN new.good :
                  \/ new.good[k] = Compiled(d)
                  \/ k \in DOMAIN cCache.good /\ new.good[k] = cCache.good[k]
<1>1. cCache \in Cache /\ Len(cCache.recent) <= RecentLimit
  BY DEF CheckShaped
<1>2. /\ cache \in Cache /\ cache.entries = cCache.entries /\ cache.good = cCache.good
      /\ Len(cache.recent) <= RecentLimit
  BY <1>1, TouchCache
<1>3. Compiled(d) \in Compilation /\ Compiled(d).root = d
  BY CompiledIsCompilation
<1>4. /\ checker.at = "compile" /\ d \in checker.todo /\ generation = checker.tag
      /\ checker' = [checker EXCEPT !.todo = @ \ {d}]
      /\ UNCHANGED <<toCheck, cOpen, deferred, shown, shownFor, mailbox>>
      /\ \/ d \in DOMAIN cache.entries /\ cCache' = cache /\ next' = Found(cache.entries[d])
         \/ cCache' = cache /\ next' = Failed(d)
         \/ cCache' = inserted /\ next' = Found(Compiled(d))
         \/ cCache' = failed /\ next' = Failed(d)
  BY Zenon DEF CompileFor
<1> HIDE DEF cache, open
<1>5. Caches(cache)
  BY <1>2
<1>6. Caches(inserted)
  <2> DEFINE c == Compiled(d)
  <2> HIDE DEF c
  <2>1. c \in Compilation /\ c.root = d
    BY <1>3 DEF c
  <2>2. Inserted(Prune(Insert(cache, c.root, c), open), cache, c)
    BY <1>2, <2>1, InsertCache
  <2>3. Inserted(inserted, cache, c)
    BY <2>1, <2>2 DEF c
  <2> HIDE DEF inserted
  <2> QED
    BY <1>2, <2>3 DEF c, Inserted
<1>7. Caches(failed)
  <2> DEFINE inner == InsertError(cache, d)
  <2>1. /\ inner \in Cache /\ inner.entries = cache.entries /\ inner.good = cache.good
        /\ inner.recent = cache.recent
    BY <1>2, InsertErrorCache
  <2> HIDE DEF inner
  <2> DEFINE new == Prune(inner, open)
  <2>2. /\ new \in Cache /\ new.recent = inner.recent /\ SubMap(new.entries, inner.entries)
        /\ SubMap(new.good, inner.good)
    BY <2>1, PruneCache
  <2> HIDE DEF new
  <2>3. Caches(new)
    BY <1>2, <2>1, <2>2 DEF SubMap
  <2> QED
    BY <2>3 DEF new, inner
<1> HIDE DEF inserted, failed
<1>8. Caches(cCache')
  <2> HIDE DEF Caches
  <2> QED
    BY <1>4, <1>5, <1>6, <1>7
<1> QED
  BY <1>2, <1>4, <1>8

LEMMA CheckShapedStep ==
  ASSUME ServerAssumption, ServerShaped, [ServerNext]_serverVars
  PROVE  CheckShaped'
<1>1. /\ MainShaped /\ QueuesShaped /\ CheckShaped /\ MaxGeneration \in Nat
  BY DEF ServerShaped, ServerAssumption
<1> DEFINE C == Change \cup Diagnose \cup Halt
<1>2. toCheck \in Seq(C)
  BY <1>1 DEF QueuesShaped
<1>3. toCheck # <<>> => Head(toCheck) \in C /\ Head(toCheck) = toCheck[1]
  BY <1>2, TakeMessage
<1>4. /\ toCheck # <<>> /\ Head(toCheck).kind \in {"open", "close", "watch"} =>
           Head(toCheck) \in Change
      /\ toCheck # <<>> /\ Head(toCheck).kind = "diagnostics" => Head(toCheck) \in Diagnose
  BY <1>3, MessageKinds
<1>5. deferred # <<>> => deferred[1] \in Diagnose
  BY <1>1 DEF CheckShaped
<1>6. ASSUME NEW m \in Diagnose
      PROVE  Begin(m) \in [at : {"idle", "early", "compile", "publish", "done"},
                           tag : -1..MaxGeneration, todo : SUBSET Docs]
  BY <1>1 DEF Begin, CheckShaped, Diagnose, Opened
<1>7. CASE CheckChange
  <2>1. Head(toCheck) \in Change
    BY <1>4, <1>7 DEF CheckChange
  <2>2. cCache \in Cache /\ cOpen \in [Docs -> 0..MaxGeneration]
    BY <1>1 DEF CheckShaped
  <2> DEFINE m == Head(toCheck)
  <2>3. /\ cCache' = Applied(cCache, cOpen, m).cache /\ cOpen' = Applied(cCache, cOpen, m).texts
        /\ UNCHANGED <<checker, deferred, shownFor, mailbox>>
    BY <1>7, Zenon DEF CheckChange
  <2> HIDE DEF m
  <2>4. /\ cCache' \in Cache /\ Len(cCache'.recent) <= Len(cCache.recent)
        /\ cOpen' \in [Docs -> 0..MaxGeneration]
    BY <2>1, <2>2, <2>3, AppliedCache DEF m
  <2>5. Len(cCache.recent) \in Nat /\ Len(cCache'.recent) \in Nat
    BY <2>2, <2>4, CacheFields, LenProperties
  <2>6. Len(cCache'.recent) <= RecentLimit
    BY <1>1, <2>4, <2>5 DEF CheckShaped, ServerAssumption, RecentLimitAssumption
  <2> QED
    BY <1>1, <2>3, <2>4, <2>6 DEF CheckShaped
<1>8. CASE DeferDiagnostics
  <2>1. Head(toCheck) \in Diagnose
    BY <1>4, <1>8 DEF DeferDiagnostics
  <2>2. deferred' = <<Head(toCheck)>> \/ deferred' = deferred
    BY <1>8 DEF DeferDiagnostics
  <2>3. UNCHANGED <<checker, cOpen, cCache, shownFor, mailbox>>
    BY <1>8 DEF DeferDiagnostics
  <2> QED
    BY <1>1, <2>1, <2>2, <2>3 DEF CheckShaped
<1>9. CASE CheckDiagnostics
  <2>1. PICK m \in Diagnose : checker' = Begin(m)
    BY <1>4, <1>5, <1>9, <1>2 DEF CheckDiagnostics
  <2>2. deferred' = <<>> \/ deferred' = deferred
    BY <1>9 DEF CheckDiagnostics
  <2>3. UNCHANGED <<cOpen, cCache, shownFor, mailbox>>
    BY <1>9 DEF CheckDiagnostics
  <2>4. Begin(m) \in [at : {"idle", "early", "compile", "publish", "done"},
                           tag : -1..MaxGeneration, todo : SUBSET Docs]
    BY <1>6
  <2> QED
    BY <1>1, <2>1, <2>2, <2>3, <2>4 DEF CheckShaped
<1>10. CASE CheckStop \/ GiveUp \/ CompileCancelled \/ SendDiagnostics
  <2>1. /\ UNCHANGED <<cOpen, cCache, deferred, mailbox>>
        /\ checker' = [checker EXCEPT !.at = "idle"] \/ checker' = [checker EXCEPT !.at = "done"]
        /\ shownFor' = shownFor \/ shownFor' = checker.tag
    BY <1>10 DEF CheckStop, GiveUp, CompileCancelled, SendDiagnostics
  <2> QED
    BY <1>1, <2>1 DEF CheckShaped
<1>11. CASE PublishEarly \/ PublishFinal
  <2>1. /\ UNCHANGED <<cOpen, cCache, deferred, shownFor>>
        /\ mailbox'.id[1] = checker.tag
        /\ mailbox' = [id |-> mailbox'.id, entries |-> cCache.entries, good |-> cCache.good]
        /\ \E step \in Int : mailbox'.id = <<checker.tag, step>>
    BY <1>11 DEF PublishEarly, PublishFinal, PublishSnapshot
  <2>2. \E at \in {"compile", "idle", "publish"} : checker' = [checker EXCEPT !.at = at]
    BY <1>11 DEF PublishEarly, PublishFinal
  <2>3. mailbox'.id \in Int \X Int
    BY <1>1, <2>1 DEF CheckShaped
  <2>4. cCache.entries \in Map /\ cCache.good \in Map
    BY <1>1, CacheFields DEF CheckShaped
  <2>5. mailbox' \in [id : Int \X Int, entries : Map, good : Map]
    BY <2>1, <2>3, <2>4
  <2>6. checker' \in [at : {"idle", "early", "compile", "publish", "done"},
                           tag : -1..MaxGeneration, todo : SUBSET Docs]
    BY <1>1, <2>2 DEF CheckShaped
  <2> QED
    BY <1>1, <2>1, <2>5, <2>6 DEF CheckShaped
<1>12. ASSUME NEW d \in Docs, CompileFor(d) PROVE CheckShaped'
  <2>1. /\ checker' = [checker EXCEPT !.todo = @ \ {d}]
        /\ UNCHANGED <<toCheck, cOpen, deferred, shown, shownFor, mailbox>>
        /\ cCache' \in Cache /\ Len(cCache'.recent) <= RecentLimit
    BY <1>1, <1>12, CompileForEffect
  <2> QED
    BY <1>1, <2>1 DEF CheckShaped
<1>13. CASE MainStep \/ QueryStep \/ UNCHANGED serverVars
  <2>1. UNCHANGED checkVars
    BY <1>13, ThreadsLeave DEF serverVars
  <2> QED
    BY <1>1, <2>1 DEF CheckShaped, checkVars
<1> QED
  BY <1>7, <1>8, <1>9, <1>10, <1>11, <1>12, <1>13 DEF ServerNext, Finished, CheckStep

(***************************************************************************)
(* What a request does to the cache of the query thread.                   *)
(***************************************************************************)
Adopted ==
  /\ mailbox.id[1] >= floor
  /\ SubMap(qCache'.entries, mailbox.entries) /\ SubMap(qCache'.good, mailbox.good)
  /\ \A k \in DOMAIN qCache'.entries : SawOpen(qCache'.entries[k], qOpen)

LEMMA AdoptEffect ==
  ASSUME ServerAssumption, CheckShaped, QueryShaped, Agreed(mailbox.entries), Adopt
  PROVE  /\ qCache' \in Cache /\ Len(qCache'.recent) <= RecentLimit
         /\ \/ Adopted
            \/ qCache' = qCache
<1>1. /\ qCache \in Cache /\ Len(qCache.recent) <= RecentLimit
      /\ qOpen \in [Docs -> 0..MaxGeneration] /\ mailbox.entries \in Map /\ mailbox.good \in Map
  BY DEF QueryShaped, CheckShaped
<1>2. CASE UNCHANGED <<qCache, installed>>
  BY <1>1, <1>2
<1>3. CASE mailbox.id[1] >= floor /\ \E order \in SetToSeqs(Opened(qOpen)) :
                                        qCache' = Install(qCache, mailbox, qOpen, order)
  <2>1. PICK order \in SetToSeqs(Opened(qOpen)) : qCache' = Install(qCache, mailbox, qOpen, order)
    BY <1>3
  <2> DEFINE new == Install(qCache, mailbox, qOpen, order)
  <2>2. /\ new \in Cache /\ new.recent = qCache.recent
        /\ SubMap(new.entries, mailbox.entries) /\ SubMap(new.good, mailbox.good)
        /\ \A k \in DOMAIN new.entries : SawOpen(new.entries[k], qOpen)
    BY <1>1, InstallCache, Zenon
  <2>3. qCache' = new
    BY <2>1
  <2> HIDE DEF new
  <2> QED
    BY <1>1, <1>3, <2>2, <2>3 DEF Adopted
<1> QED
  BY <1>2, <1>3, Zenon DEF Adopt

LEMMA QueryShapedStep ==
  ASSUME ServerAssumption, ServerShaped, QueryFresh, [ServerNext]_serverVars
  PROVE  QueryShaped'
<1>1. /\ MainShaped /\ QueuesShaped /\ CheckShaped /\ QueryShaped /\ MaxGeneration \in Nat
      /\ Agreed(mailbox.entries)
  BY DEF ServerShaped, ServerAssumption, QueryFresh
<1> DEFINE Q == Change \cup Query \cup Halt
           Asks(s, channel) ==
             \A i \in 1..Len(channel) :
               channel[i] \in Query => s[channel[i].request] \in SentRequest
<1>2. toQuery \in Seq(Q) /\ Asks(sent, toQuery)
  BY <1>1 DEF QueuesShaped, QueryShaped
<1>3. toQuery # <<>> => Head(toQuery) \in Q /\ Head(toQuery) = toQuery[1] /\ 1 \in 1..Len(toQuery)
                        /\ Asks(sent, Tail(toQuery))
  BY <1>2, TakeMessage
<1>4. /\ toQuery # <<>> /\ Head(toQuery).kind \in {"open", "close", "watch"} =>
           Head(toQuery) \in Change
      /\ toQuery # <<>> /\ Head(toQuery).kind = "request" => Head(toQuery) \in Query
  BY <1>3, MessageKinds
<1>5. \A m : m \in Q /\ (m \in Query => sent[m.request] \in SentRequest) =>
         Asks(sent, Append(toQuery, m))
  BY <1>2, AppendMessage
<1>6. Unsent \notin SentRequest /\ Unsent \notin RefusedRequest
  BY DEF Unsent, SentRequest, RefusedRequest, NoTag
<1>7. ASSUME NEW m, Notified(m) PROVE Asks(sent', toQuery') /\ UNCHANGED <<sent, answers>>
  <2>1. m \in Q /\ m \notin Query
    BY <1>7 DEF Notified, Change, Query
  <2> QED
    BY <1>5, <1>7, <2>1 DEF Notified, queryVars
<1>8. ASSUME NEW r \in Requests, NEW d \in Asked, NEW kind \in Kinds, Request(r, d, kind)
      PROVE  /\ Asks(sent', toQuery') /\ UNCHANGED answers /\ sent'[r] \in SentRequest
             /\ sent' = [sent EXCEPT ![r] = sent'[r]] /\ sent[r] = Unsent
  <2> DEFINE new == [generation |-> generation, doc |-> d, kind |-> kind, texts |-> versions,
                     closed |-> touched.closed, watched |-> touched.watched]
             m == [kind |-> "request", request |-> r]
  <2>1. new \in SentRequest
    BY <1>1, <1>8 DEF Request, SentRequest, MainShaped, ServerAssumption
  <2>2. /\ sent' = [sent EXCEPT ![r] = new] /\ sent[r] = Unsent
        /\ toQuery' = Append(toQuery, m) /\ UNCHANGED answers
    BY <1>8, Zenon DEF Request, queryVars
  <2> HIDE DEF new
  <2>3. DOMAIN sent = Requests
    BY <1>1 DEF MainShaped
  <2>4. Asks(sent', toQuery)
    BY <1>2, <1>6, <2>1, <2>2, <2>3 DEF Query
  <2>5. m \in Q /\ m.request = r
    BY DEF Query
  <2> HIDE DEF m
  <2>6. sent'[m.request] \in SentRequest
    BY <2>1, <2>2, <2>3, <2>5
  <2>7. Asks(sent', Append(toQuery, m))
    <3>1. /\ Len(Append(toQuery, m)) = Len(toQuery) + 1
          /\ \A i \in 1..Len(toQuery) : Append(toQuery, m)[i] = toQuery[i]
          /\ Append(toQuery, m)[Len(toQuery) + 1] = m
          /\ \A i \in 1..(Len(toQuery) + 1) : i \in 1..Len(toQuery) \/ i = Len(toQuery) + 1
      BY <1>2, <2>5, AppendMessage
    <3> HIDE DEF Q
    <3> QED
      BY <3>1, <2>4, <2>6
  <2> QED
    BY <2>1, <2>2, <2>3, <2>7
<1>9. ASSUME NEW r \in Requests, Refuse(r)
      PROVE  /\ Asks(sent', toQuery') /\ answers' \in [Requests -> Seq(Response)]
             /\ \A q \in Requests : sent'[q] = Unsent => answers'[q] = <<>>
             /\ \A q \in Requests : sent[q] \in SentRequest => sent'[q] = sent[q]
  <2> DEFINE new == [generation |-> generation, kind |-> "refused"]
             answer == [kind |-> "invalid"]
  <2>1. new # Unsent /\ answer \in Response
    BY DEF Unsent, Response
  <2>2. /\ sent' = [sent EXCEPT ![r] = new] /\ sent[r] = Unsent /\ toQuery' = toQuery
        /\ answers' = [answers EXCEPT ![r] = Append(@, answer)]
    BY <1>9, Zenon DEF Refuse
  <2> HIDE DEF new, answer
  <2>3. DOMAIN sent = Requests /\ answers \in [Requests -> Seq(Response)]
        /\ \A q \in Requests : sent[q] = Unsent => answers[q] = <<>>
    BY <1>1 DEF MainShaped, QueryShaped
  <2>4. Append(answers[r], answer) \in Seq(Response)
    BY <2>1, <2>3, AppendProperties
  <2>5. answers' \in [Requests -> Seq(Response)]
    BY <2>2, <2>3, <2>4
  <2>6. \A q \in Requests : sent'[q] = Unsent => answers'[q] = <<>>
    BY <2>1, <2>2, <2>3
  <2>7. \A q \in Requests : sent[q] \in SentRequest => sent'[q] = sent[q]
    BY <1>6, <2>2, <2>3
  <2>8. \A i \in 1..Len(toQuery) : toQuery[i] \in Query => toQuery[i].request \in Requests
    BY DEF Query
  <2> QED
    BY <1>2, <2>2, <2>5, <2>6, <2>7, <2>8
<1>10. ASSUME NEW r \in Requests, NEW response \in Response, Respond(r, response),
              sent[r] \in SentRequest, sent' = sent
       PROVE  /\ answers' \in [Requests -> Seq(Response)] /\ query'.at = "idle"
              /\ \A q \in Requests : sent'[q] = Unsent => answers'[q] = <<>>
  <2>1. answers \in [Requests -> Seq(Response)]
        /\ \A q \in Requests : sent[q] = Unsent => answers[q] = <<>>
    BY <1>1 DEF QueryShaped
  <2>2. Append(answers[r], response) \in Seq(Response)
    BY <1>10, <2>1, AppendProperties
  <2> QED
    BY <1>6, <1>10, <2>1, <2>2 DEF Respond
<1> DEFINE Kept == /\ Asks(sent', toQuery') /\ answers' \in [Requests -> Seq(Response)]
                   /\ \A q \in Requests : sent'[q] = Unsent => answers'[q] = <<>>
                   /\ \A q \in Requests : sent[q] \in SentRequest => sent'[q] = sent[q]
<1>11. CASE MainStep
  <2>1. UNCHANGED <<query, qOpen, qCache, floor>>
    BY <1>11, ThreadsLeave
  <2>2. /\ answers \in [Requests -> Seq(Response)] /\ DOMAIN sent = Requests
        /\ \A q \in Requests : sent[q] = Unsent => answers[q] = <<>>
    BY <1>1 DEF QueryShaped, MainShaped
  <2>3. ASSUME NEW m, Notified(m) PROVE Kept
    <3>1. Asks(sent', toQuery') /\ UNCHANGED <<sent, answers>>
      BY <1>7, <2>3
    <3> HIDE DEF Asks
    <3> QED
      BY <2>2, <3>1
  <2>4. ASSUME NEW r \in Requests, NEW d \in Asked, NEW kind \in Kinds, Request(r, d, kind)
        PROVE  Kept
    <3>1. /\ Asks(sent', toQuery') /\ UNCHANGED answers /\ sent'[r] \in SentRequest
          /\ sent' = [sent EXCEPT ![r] = sent'[r]] /\ sent[r] = Unsent
      BY <1>8, <2>4
    <3> HIDE DEF Asks
    <3> QED
      BY <1>6, <2>2, <3>1
  <2>5. ASSUME NEW r \in Requests, Refuse(r) PROVE Kept
    <3> HIDE DEF Asks
    <3> QED
      BY <1>9, <2>5
  <2>6. ASSUME UNCHANGED <<toQuery, sent, answers>> \/ Stop PROVE Kept
    <3>1. CASE UNCHANGED <<toQuery, sent, answers>>
      BY <1>2, <2>2, <3>1
    <3>2. CASE Stop
      <4>1. [kind |-> "stop"] \in Q /\ [kind |-> "stop"] \notin Query
        BY DEF Halt, Query
      <4>2. Asks(sent, Append(toQuery, [kind |-> "stop"]))
        BY <1>5, <4>1
      <4>3. UNCHANGED <<sent, answers>> /\ toQuery' = Append(toQuery, [kind |-> "stop"])
        BY <3>2 DEF Stop, queryVars
      <4> QED
        BY <2>2, <4>2, <4>3
    <3> QED
      BY <2>6, <3>1, <3>2
  <2>7. (\E d \in Watched : WriteFile(d)) \/ (\E r \in Requests : Cancel(r)) \/ Debounced
        \/ Shutdown => UNCHANGED <<toQuery, sent, answers>>
    BY DEF WriteFile, Cancel, Debounced, Shutdown, mainVars, queryVars
  <2> HIDE DEF Kept
  <2>8. Kept
    BY <1>1, <1>11, <2>3, <2>4, <2>5, <2>6, <2>7, MainCases
  <2> QED
    BY <1>1, <2>1, <2>8 DEF Kept, QueryShaped
<1>12. CASE CheckStep \/ UNCHANGED serverVars
  <2>1. UNCHANGED <<sent, toQuery, queryVars>>
    BY <1>12, ThreadsLeave DEF serverVars, mainVars
  <2> QED
    BY <1>1, <2>1 DEF QueryShaped, queryVars
<1>13. CASE QueryChange
  <2> DEFINE m == Head(toQuery)
  <2>1. m \in Change /\ toQuery # <<>>
    BY <1>4, <1>13 DEF QueryChange
  <2>2. qCache \in Cache /\ qOpen \in [Docs -> 0..MaxGeneration]
    BY <1>1 DEF QueryShaped
  <2>3. /\ qCache' = Applied(qCache, qOpen, m).cache /\ qOpen' = Applied(qCache, qOpen, m).texts
        /\ floor' = RaisedFloor(m) /\ toQuery' = Tail(toQuery)
        /\ UNCHANGED <<query, sent, answers>>
    BY <1>13 DEF QueryChange, restOfQuery, mainVars
  <2>4. floor' \in 0..MaxGeneration
    BY <1>1, <2>1, <2>3 DEF RaisedFloor, QueryShaped, Change
  <2> HIDE DEF m
  <2>5. /\ qCache' \in Cache /\ Len(qCache'.recent) <= Len(qCache.recent)
        /\ qOpen' \in [Docs -> 0..MaxGeneration]
    BY <2>1, <2>2, <2>3, AppliedCache
  <2>6. Len(qCache.recent) \in Nat /\ Len(qCache'.recent) \in Nat
    BY <2>2, <2>5, CacheFields, LenProperties
  <2>7. Len(qCache'.recent) <= RecentLimit
    BY <1>1, <2>5, <2>6 DEF QueryShaped, ServerAssumption, RecentLimitAssumption
  <2>8. Asks(sent', toQuery')
    BY <1>3, <2>1, <2>3
  <2> QED
    BY <1>1, <2>3, <2>4, <2>5, <2>7, <2>8 DEF QueryShaped
<1>14. CASE QueryStop
  <2>1. /\ toQuery # <<>> /\ toQuery' = Tail(toQuery) /\ query' = [query EXCEPT !.at = "done"]
        /\ UNCHANGED <<qOpen, qCache, floor, sent, answers>>
    BY <1>14 DEF QueryStop, restOfQuery, mainVars
  <2>2. Asks(sent', toQuery')
    BY <1>3, <2>1
  <2>3. query'.at \in {"idle", "answering", "done"} /\ query'.at # "answering"
    BY <1>1, <1>14, <2>1 DEF QueryStop, QueryShaped
  <2> QED
    BY <1>1, <2>1, <2>2, <2>3 DEF QueryShaped
<1>15. CASE QueryRequest
  <2> DEFINE r == Head(toQuery).request
  <2>1. Head(toQuery) \in Query /\ toQuery # <<>>
    BY <1>4, <1>15 DEF QueryRequest
  <2>2. r \in Requests /\ sent[r] \in SentRequest
    BY <1>2, <1>3, <2>1 DEF Query
  <2>3. /\ toQuery' = Tail(toQuery) /\ UNCHANGED <<sent, qOpen, floor>> /\ Adopt
        /\ \/ Respond(r, [kind |-> "cancelled"]) \/ Respond(r, [kind |-> "modified"])
           \/ query' = [at |-> "answering", request |-> r] /\ UNCHANGED answers
    BY <1>15 DEF QueryRequest, mainVars
  <2>4. Asks(sent', toQuery')
    BY <1>3, <2>1, <2>3
  <2>5. qCache' \in Cache /\ Len(qCache'.recent) <= RecentLimit
    BY <1>1, <2>3, AdoptEffect
  <2>6. /\ answers' \in [Requests -> Seq(Response)] /\ query'.at \in {"idle", "answering", "done"}
        /\ query'.at = "answering" =>
             query'.request \in Requests /\ sent'[query'.request] \in SentRequest
        /\ \A q \in Requests : sent'[q] = Unsent => answers'[q] = <<>>
    <3>1. [kind |-> "cancelled"] \in Response /\ [kind |-> "modified"] \in Response
      BY DEF Response
    <3> HIDE DEF r
    <3>2. CASE Respond(r, [kind |-> "cancelled"]) \/ Respond(r, [kind |-> "modified"])
      BY <1>10, <2>2, <2>3, <3>1, <3>2
    <3>3. CASE query' = [at |-> "answering", request |-> r] /\ UNCHANGED answers
      BY <1>1, <2>2, <2>3, <3>3 DEF QueryShaped
    <3> QED
      BY <2>3, <3>2, <3>3
  <2> QED
    BY <1>1, <2>3, <2>4, <2>5, <2>6 DEF QueryShaped
<1>16. CASE FinishAnswer
  <2> DEFINE r == query.request
             d == sent[r].doc
             kind == sent[r].kind
  <2>1. query.at = "answering" /\ r \in Requests /\ sent[r] \in SentRequest /\ d \in Docs
    BY <1>1, <1>16 DEF FinishAnswer, QueryShaped, SentRequest
  <2>2. /\ qCache' = Touch(qCache, d) /\ UNCHANGED <<sent, toQuery, qOpen, floor>>
        /\ \/ Respond(r, [kind |-> "cancelled"]) \/ Respond(r, [kind |-> "modified"])
           \/ \E a \in Answers(d, kind) : Respond(r, a)
    BY <1>16 DEF FinishAnswer, mainVars
  <2> HIDE DEF d, kind
  <2>3. qCache \in Cache /\ Len(qCache.recent) <= RecentLimit
    BY <1>1 DEF QueryShaped
  <2>4. qCache' \in Cache /\ Len(qCache'.recent) <= RecentLimit
    BY <2>1, <2>2, <2>3, TouchCache
  <2>5. Answers(d, kind) \subseteq Response
    <3>1. Range(qCache.entries) \subseteq Compilation /\ Range(qCache.good) \subseteq Compilation
      BY <2>3, CacheFields, MapProperties DEF Range
    <3>2. /\ Lookup(qCache.entries, d) \subseteq Range(qCache.entries)
          /\ Lookup(qCache.good, d) \subseteq Range(qCache.good)
      BY DEF Lookup, Range
    <3> QED
      BY <3>1, <3>2 DEF Answers, Response
  <2>6. [kind |-> "cancelled"] \in Response /\ [kind |-> "modified"] \in Response
    BY DEF Response
  <2>7. PICK response \in Response : Respond(r, response)
    BY <2>2, <2>5, <2>6
  <2> HIDE DEF r
  <2>8. /\ answers' \in [Requests -> Seq(Response)] /\ query'.at = "idle"
        /\ \A q \in Requests : sent'[q] = Unsent => answers'[q] = <<>>
    BY <1>10, <2>1, <2>2, <2>7
  <2> QED
    BY <1>1, <2>2, <2>4, <2>8 DEF QueryShaped
<1> QED
  BY <1>11, <1>12, <1>13, <1>14, <1>15, <1>16 DEF ServerNext, Finished, QueryStep
-----------------------------------------------------------------------------
(***************************************************************************)
(* What the steps of each thread do to the channels.                       *)
(***************************************************************************)
LEMMA MainSends ==
  ASSUME ServerAssumption, MainShaped, MainStep
  PROVE  \/ \E m : Notified(m)
         \/ /\ UNCHANGED <<versions, touched>> /\ disk' \in [Docs -> -MaxWrites..0]
            /\ \A d \in Docs : disk'[d] <= disk[d]
            /\ generation' = generation \/ generation' = generation + 1
            /\ \/ toQuery' = toQuery
               \/ \E m \in Query \cup Halt : toQuery' = Append(toQuery, m)
            /\ \/ toCheck' = toCheck
               \/ \E m \in Halt : toCheck' = Append(toCheck, m)
               \/ \E m \in Diagnose : m.tag = generation /\ toCheck' = Append(toCheck, m)
<1> DEFINE Rest ==
            /\ UNCHANGED <<versions, touched>> /\ disk' \in [Docs -> -MaxWrites..0]
            /\ \A d \in Docs : disk'[d] <= disk[d]
            /\ generation' = generation \/ generation' = generation + 1
            /\ \/ toQuery' = toQuery
               \/ \E m \in Query \cup Halt : toQuery' = Append(toQuery, m)
            /\ \/ toCheck' = toCheck
               \/ \E m \in Halt : toCheck' = Append(toCheck, m)
               \/ \E m \in Diagnose : m.tag = generation /\ toCheck' = Append(toCheck, m)
<1>1. /\ disk \in [Docs -> -MaxWrites..0] /\ MaxWrites \in Nat /\ MaxGeneration \in Nat
      /\ generation \in 0..(MaxGeneration + 1) /\ versions \in [Docs -> 0..MaxGeneration]
      /\ phase # "stopped" => generation <= MaxGeneration
      /\ Watched \subseteq Docs
  BY DEF MainShaped, ServerAssumption
<1>2. \A d \in Docs : disk[d] <= disk[d]
  BY <1>1
<1>3. ASSUME NEW d \in Watched, WriteFile(d) PROVE Rest
  <2>1. /\ disk' = [disk EXCEPT ![d] = @ - 1] /\ disk[d] > -MaxWrites
        /\ UNCHANGED <<versions, touched, generation, toQuery, toCheck>>
    BY <1>3 DEF WriteFile
  <2>2. d \in Docs /\ disk[d] - 1 \in -MaxWrites..0 /\ disk[d] - 1 <= disk[d]
    BY <1>1, <2>1
  <2>3. disk' \in [Docs -> -MaxWrites..0] /\ \A u \in Docs : disk'[u] <= disk[u]
    BY <1>1, <1>2, <2>1, <2>2
  <2> QED
    BY <2>1, <2>3
<1>4. ASSUME NEW r \in Requests, NEW d \in Asked, NEW kind \in Kinds, Request(r, d, kind)
      PROVE  Rest
  <2>1. [kind |-> "request", request |-> r] \in Query
    BY DEF Query
  <2> QED
    BY <1>1, <1>2, <1>4, <2>1 DEF Request
<1>5. ASSUME (\E r \in Requests : Refuse(r) \/ Cancel(r)) \/ Shutdown PROVE Rest
  BY <1>1, <1>2, <1>5 DEF Refuse, Cancel, Shutdown, mainVars
<1>6. ASSUME Debounced PROVE Rest
  <2> DEFINE m == [kind |-> "diagnostics", tag |-> generation, texts |-> versions]
  <2>1. m \in Diagnose /\ m.tag = generation
    BY <1>1, <1>6 DEF Debounced, Diagnose
  <2>2. /\ UNCHANGED <<versions, touched, generation, toQuery, disk>>
        /\ toCheck' = Append(toCheck, m)
    BY <1>6 DEF Debounced
  <2> HIDE DEF m
  <2> QED
    BY <1>1, <1>2, <2>1, <2>2
<1>7. ASSUME Stop PROVE Rest
  <2>1. [kind |-> "stop"] \in Halt
    BY DEF Halt
  <2> QED
    BY <1>1, <1>2, <1>7, <2>1 DEF Stop
<1> HIDE DEF Rest
<1>8. (\E m : Notified(m)) \/ Rest
  BY <1>3, <1>4, <1>5, <1>6, <1>7, MainCases
<1> QED
  BY <1>8 DEF Rest

LEMMA TakeOnly ==
  ASSUME NEW M, NEW channel \in Seq(M), Len(channel) = 1
  PROVE  channel # <<>> /\ Tail(channel) = <<>>
<1>1. channel # <<>>
  OBVIOUS
<1>2. Tail(channel) \in Seq(M) /\ Len(Tail(channel)) = 0
  BY <1>1, TakeMessage
<1> QED
  BY <1>1, <1>2, EmptySeq

LEMMA CheckTakes ==
  ASSUME ServerShaped, CheckStep
  PROVE  \/ CheckChange /\ toCheck # <<>> /\ Head(toCheck) \in Change
         \/ /\ toCheck # <<>> /\ Head(toCheck) \notin Change
            /\ toCheck' = Tail(toCheck) /\ UNCHANGED cOpen
         \/ UNCHANGED <<toCheck, cOpen>>
<1> DEFINE C == Change \cup Diagnose \cup Halt
<1>1. toCheck \in Seq(C)
  BY DEF ServerShaped, QueuesShaped
<1>2. toCheck # <<>> => Head(toCheck) \in C
  BY <1>1
<1>3. toCheck # <<>> =>
        (Head(toCheck) \in Change <=> Head(toCheck).kind \in {"open", "close", "watch"})
  BY <1>2, MessageKinds
<1>4. Len(toCheck) = 1 => toCheck # <<>> /\ Tail(toCheck) = <<>>
  BY <1>1, TakeOnly
<1>5. CheckChange => toCheck # <<>> /\ Head(toCheck) \in Change
  BY <1>3 DEF CheckChange
<1>6. DeferDiagnostics => /\ toCheck # <<>> /\ Head(toCheck) \notin Change
                          /\ toCheck' = Tail(toCheck) /\ UNCHANGED cOpen
  BY <1>3 DEF DeferDiagnostics
<1>7. CheckStop => /\ toCheck # <<>> /\ Head(toCheck) \notin Change
                   /\ toCheck' = Tail(toCheck) /\ UNCHANGED cOpen
  BY <1>3 DEF CheckStop
<1>8. CheckDiagnostics =>
        \/ /\ toCheck # <<>> /\ Head(toCheck) \notin Change
           /\ toCheck' = Tail(toCheck) /\ UNCHANGED cOpen
        \/ UNCHANGED <<toCheck, cOpen>>
  BY <1>3, <1>4 DEF CheckDiagnostics
<1>9. GiveUp \/ PublishEarly \/ CompileCancelled \/ PublishFinal \/ SendDiagnostics =>
        UNCHANGED <<toCheck, cOpen>>
  BY DEF GiveUp, PublishEarly, CompileCancelled, PublishFinal, SendDiagnostics
<1>10. (\E d \in Docs : CompileFor(d)) => UNCHANGED <<toCheck, cOpen>>
  BY Zenon DEF CompileFor
<1> QED
  BY <1>5, <1>6, <1>7, <1>8, <1>9, <1>10 DEF CheckStep

LEMMA QueryTakes ==
  ASSUME ServerShaped, QueryStep
  PROVE  \/ QueryChange /\ toQuery # <<>> /\ Head(toQuery) \in Change
         \/ /\ QueryStop \/ QueryRequest
            /\ toQuery # <<>> /\ Head(toQuery) \notin Change
            /\ toQuery' = Tail(toQuery) /\ UNCHANGED <<qOpen, floor>>
         \/ FinishAnswer /\ UNCHANGED <<toQuery, qOpen, floor>>
<1> DEFINE Q == Change \cup Query \cup Halt
<1>1. toQuery # <<>> => Head(toQuery) \in Q
  BY DEF ServerShaped, QueuesShaped
<1>2. toQuery # <<>> =>
        (Head(toQuery) \in Change <=> Head(toQuery).kind \in {"open", "close", "watch"})
  BY <1>1, MessageKinds
<1>3. QueryChange => toQuery # <<>> /\ Head(toQuery) \in Change
  BY <1>2 DEF QueryChange
<1>4. QueryStop \/ QueryRequest => /\ toQuery # <<>> /\ Head(toQuery) \notin Change
                                   /\ toQuery' = Tail(toQuery) /\ UNCHANGED <<qOpen, floor>>
  BY <1>2 DEF QueryStop, QueryRequest
<1>5. FinishAnswer => UNCHANGED <<toQuery, qOpen, floor>>
  BY DEF FinishAnswer
<1> QED
  BY <1>3, <1>4, <1>5 DEF QueryStep

LEMMA QueuedStep ==
  ASSUME ServerAssumption, ServerShaped, Queued, [ServerNext]_serverVars
  PROVE  Queued'
<1> DEFINE Q == Change \cup Query \cup Halt
           C == Change \cup Diagnose \cup Halt
<1>1. /\ toQuery \in Seq(Q) /\ toCheck \in Seq(C) /\ MainShaped
      /\ Ordered(toQuery, generation) /\ Follows(toQuery, qOpen, versions)
      /\ Ordered(toCheck, generation) /\ Follows(toCheck, cOpen, versions)
  BY DEF ServerShaped, QueuesShaped, Queued
<1>2. generation \in Int /\ generation <= generation + 1 /\ generation <= generation
  BY <1>1 DEF MainShaped
<1>3. \A i \in 1..Len(toQuery) : toQuery[i] \in Change => toQuery[i].generation \in Int
  BY DEF Change
<1>4. \A i \in 1..Len(toCheck) : toCheck[i] \in Change => toCheck[i].generation \in Int
  BY DEF Change
<1>5. \A m \in Q \cup C : m \notin Change => \A d : ~Sets(m, d)
  BY DEF Q, C, Sets, Query, Diagnose, Halt
<1>6. /\ Query \cup Halt \subseteq Q /\ Diagnose \cup Halt \subseteq C
      /\ Change \subseteq Q /\ Change \subseteq C
      /\ \A m \in Query \cup Halt \cup Diagnose : m \notin Change
  BY DEF Q, C, Change, Query, Diagnose, Halt
<1> HIDE DEF Q, C
<1>7. ASSUME NEW m, Notified(m) PROVE Queued'
  <2>1. /\ m \in Change /\ generation' = generation + 1 /\ m.generation = generation + 1
        /\ toQuery' = Append(toQuery, m) /\ toCheck' = Append(toCheck, m)
        /\ \A d \in Docs : versions'[d] = IF Sets(m, d) THEN TextSet(m) ELSE versions[d]
    BY <1>7 DEF Notified
  <2>2. UNCHANGED <<qOpen, cOpen>>
    BY <1>7 DEF Notified, checkVars, queryVars
  <2>5. m \in Q /\ m \in C /\ m.generation > generation /\ m.generation <= generation + 1
        /\ generation + 1 \in Int
    BY <1>2, <1>6, <2>1
  <2>6. Ordered(Append(toQuery, m), generation + 1)
    BY <1>1, <1>2, <1>3, <2>5, OrderedAppend
  <2>7. Ordered(Append(toCheck, m), generation + 1)
    BY <1>1, <1>2, <1>4, <2>5, OrderedAppend
  <2>3. Ordered(toQuery', generation') /\ Ordered(toCheck', generation')
    BY <2>1, <2>6, <2>7
  <2>4. Follows(toQuery', qOpen, versions') /\ Follows(toCheck', cOpen, versions')
    BY <1>1, <1>6, <2>1, FollowsAppend
  <2> QED
    BY <2>2, <2>3, <2>4 DEF Queued
<1>8. ASSUME NEW last \in Int, generation <= last
      PROVE  /\ Ordered(toQuery, last) /\ Ordered(toCheck, last)
             /\ \A m \in Query \cup Halt : Ordered(Append(toQuery, m), last)
             /\ \A m \in Diagnose \cup Halt : Ordered(Append(toCheck, m), last)
  <2>1. \A m \in Change : m.generation <= generation => m.generation <= last
    BY <1>2, <1>8 DEF Change
  <2>2. Ordered(toQuery, last)
    BY <1>1, <2>1 DEF Ordered
  <2>3. Ordered(toCheck, last)
    BY <1>1, <2>1 DEF Ordered
  <2> QED
    BY <1>1, <1>2, <1>3, <1>4, <1>6, <1>8, <2>2, <2>3, OrderedAppend
<1>9. /\ \A m \in Query \cup Halt : Follows(Append(toQuery, m), qOpen, versions)
      /\ \A m \in Diagnose \cup Halt : Follows(Append(toCheck, m), cOpen, versions)
  BY <1>1, <1>5, <1>6, FollowsAppend
<1>10. CASE MainStep
  <2>1. UNCHANGED <<qOpen, cOpen>>
    BY <1>10, ThreadsLeave DEF checkVars
  <2>2. CASE \E m : Notified(m)
    BY <1>7, <2>2
  <2>3. CASE /\ UNCHANGED versions
             /\ generation' = generation \/ generation' = generation + 1
             /\ toQuery' = toQuery \/ \E m \in Query \cup Halt : toQuery' = Append(toQuery, m)
             /\ toCheck' = toCheck \/ \E m \in Diagnose \cup Halt : toCheck' = Append(toCheck, m)
    <3>1. generation' \in Int /\ generation <= generation'
      BY <1>2, <2>3
    <3>2. Ordered(toQuery', generation') /\ Ordered(toCheck', generation')
      BY <1>8, <2>3, <3>1
    <3>3. Follows(toQuery', qOpen, versions) /\ Follows(toCheck', cOpen, versions)
      BY <1>1, <1>9, <2>3
    <3> QED
      BY <2>1, <2>3, <3>2, <3>3 DEF Queued
  <2> QED
    BY <1>1, <1>10, <2>2, <2>3, MainSends
<1>11. CASE CheckStep
  <2>1. UNCHANGED <<toQuery, qOpen, versions, generation>>
    BY <1>11, ThreadsLeave DEF queryVars, mainVars
  <2>2. Ordered(toCheck', generation) /\ Follows(toCheck', cOpen', versions)
    <3>1. CASE CheckChange /\ toCheck # <<>> /\ Head(toCheck) \in Change
      <4> DEFINE m == Head(toCheck)
      <4>1. /\ cOpen' = Applied(cCache, cOpen, m).texts /\ toCheck' = Tail(toCheck)
        BY <3>1, Zenon DEF CheckChange
      <4>2. cCache \in Cache /\ cOpen \in [Docs -> 0..MaxGeneration]
        BY DEF ServerShaped, CheckShaped
      <4>3. \A d \in Docs : cOpen'[d] = IF Sets(m, d) THEN TextSet(m) ELSE cOpen[d]
        BY <3>1, <4>1, <4>2, AppliedCache
      <4> QED
        BY <1>1, <3>1, <4>1, <4>3, OrderedTail, FollowsTail
    <3>2. CASE /\ toCheck # <<>> /\ Head(toCheck) \notin Change
               /\ toCheck' = Tail(toCheck) /\ UNCHANGED cOpen
      <4>1. \A d : ~Sets(Head(toCheck), d)
        BY <1>1, <1>5, <3>2, TakeMessage
      <4> QED
        BY <1>1, <3>2, <4>1, OrderedTail, FollowsTail
    <3>3. CASE UNCHANGED <<toCheck, cOpen>>
      BY <1>1, <3>3
    <3> QED
      BY <1>11, <3>1, <3>2, <3>3, CheckTakes
  <2> QED
    BY <1>1, <2>1, <2>2 DEF Queued
<1>12. CASE QueryStep
  <2>1. UNCHANGED <<toCheck, cOpen, versions, generation>>
    BY <1>12, ThreadsLeave DEF checkVars, mainVars
  <2>2. Ordered(toQuery', generation) /\ Follows(toQuery', qOpen', versions)
    <3>1. CASE QueryChange /\ toQuery # <<>> /\ Head(toQuery) \in Change
      <4> DEFINE m == Head(toQuery)
      <4>1. /\ qOpen' = Applied(qCache, qOpen, m).texts /\ toQuery' = Tail(toQuery)
        BY <3>1, Zenon DEF QueryChange
      <4>2. qCache \in Cache /\ qOpen \in [Docs -> 0..MaxGeneration]
        BY DEF ServerShaped, QueryShaped
      <4>3. \A d \in Docs : qOpen'[d] = IF Sets(m, d) THEN TextSet(m) ELSE qOpen[d]
        BY <3>1, <4>1, <4>2, AppliedCache
      <4> QED
        BY <1>1, <3>1, <4>1, <4>3, OrderedTail, FollowsTail
    <3>2. CASE /\ toQuery # <<>> /\ Head(toQuery) \notin Change
               /\ toQuery' = Tail(toQuery) /\ UNCHANGED qOpen
      <4>1. \A d : ~Sets(Head(toQuery), d)
        BY <1>1, <1>5, <3>2, TakeMessage
      <4> QED
        BY <1>1, <3>2, <4>1, OrderedTail, FollowsTail
    <3>3. CASE UNCHANGED <<toQuery, qOpen>>
      BY <1>1, <3>3
    <3> QED
      BY <1>12, <3>1, <3>2, <3>3, QueryTakes
  <2> QED
    BY <1>1, <2>1, <2>2 DEF Queued
<1>13. CASE UNCHANGED serverVars
  BY <1>1, <1>13 DEF serverVars, mainVars, checkVars, queryVars, Queued
<1> QED
  BY <1>10, <1>11, <1>12, <1>13 DEF ServerNext, Finished

(***************************************************************************)
(* Diagnostics and the run of the checking thread are never newer than the *)
(* changes that are still queued.                                          *)
(***************************************************************************)
LEMMA DatedAppend ==
  ASSUME NEW M, NEW channel \in Seq(M), NEW m \in M, NEW last \in Int, NEW later \in Int,
         Dated(channel, last), last <= later,
         \A i \in 1..Len(channel) : channel[i] \in Diagnose => channel[i].tag \in Int,
         m \in Change => m.generation > last /\ m.generation \in Int,
         m \in Diagnose => m.tag <= later
  PROVE  Dated(Append(channel, m), later)
<1> DEFINE new == Append(channel, m)
           n == Len(channel)
<1>1. /\ n \in Nat /\ Len(new) = n + 1 /\ \A i \in 1..n : new[i] = channel[i]
      /\ new[n + 1] = m /\ \A i \in 1..(n + 1) : i \in 1..n \/ i = n + 1
  BY AppendMessage
<1> HIDE DEF new
<1>2. ASSUME NEW i \in 1..Len(new), new[i] \in Diagnose
      PROVE  /\ new[i].tag <= later
             /\ \A j \in 1..Len(new) : j > i /\ new[j] \in Change => new[j].generation > new[i].tag
  <2>1. CASE i = n + 1
    <3>1. \A j \in 1..Len(new) : ~(j > i)
      BY <1>1, <2>1
    <3> QED
      BY <1>1, <1>2, <2>1, <3>1
  <2>2. CASE i \in 1..n
    <3>1. channel[i] \in Diagnose /\ new[i] = channel[i] /\ new[i].tag <= last /\ new[i].tag \in Int
      BY <1>1, <1>2, <2>2 DEF Dated
    <3>2. \A j \in 1..n : j > i /\ new[j] \in Change => new[j].generation > new[i].tag
      BY <1>1, <2>2, <3>1 DEF Dated
    <3>3. m \in Change => m.generation > new[i].tag
      BY <3>1
    <3> QED
      BY <1>1, <3>1, <3>2, <3>3
  <2> QED
    BY <1>1, <2>1, <2>2
<1> QED
  BY <1>2 DEF Dated, new

LEMMA DatedTail ==
  ASSUME NEW M, NEW channel \in Seq(M), channel # <<>>, NEW last, Dated(channel, last)
  PROVE  /\ Dated(Tail(channel), last)
         /\ Head(channel) \in Diagnose =>
              Head(channel).tag <= last /\ Newer(Tail(channel), Head(channel).tag)
<1> DEFINE new == Tail(channel)
<1>1. /\ Head(channel) = channel[1] /\ 1 \in 1..Len(channel)
      /\ \A i \in 1..Len(new) : i + 1 \in 1..Len(channel) /\ new[i] = channel[i + 1]
  BY TakeMessage
<1>2. \A i, j \in 1..Len(new) : (j > i => j + 1 > i + 1) /\ i + 1 > 1
  OBVIOUS
<1> HIDE DEF new
<1>3. Dated(new, last)
  BY <1>1, <1>2 DEF Dated
<1>4. Head(channel) \in Diagnose => Head(channel).tag <= last /\ Newer(new, Head(channel).tag)
  BY <1>1, <1>2 DEF Dated, Newer
<1> QED
  BY <1>3, <1>4 DEF new

LEMMA TaggedStep ==
  ASSUME ServerAssumption, ServerShaped, Tagged, [ServerNext]_serverVars
  PROVE  Tagged'
<1> DEFINE C == Change \cup Diagnose \cup Halt
<1>1. /\ toCheck \in Seq(C) /\ MainShaped /\ CheckShaped /\ Dated(toCheck, generation)
  BY DEF ServerShaped, QueuesShaped, Tagged
<1>2. /\ generation \in Int /\ generation <= generation + 1 /\ generation <= generation
      /\ \A i \in 1..Len(toCheck) : toCheck[i] \in Diagnose => toCheck[i].tag \in Int
      /\ checker.tag \in Int /\ shownFor \in Int /\ MaxGeneration \in Nat
      /\ deferred # <<>> => deferred[1] \in Diagnose /\ deferred[1].tag \in Int
  BY <1>1 DEF MainShaped, CheckShaped, Diagnose, ServerAssumption
<1>3. /\ Diagnose \cup Halt \subseteq C /\ Change \subseteq C
      /\ \A m \in Halt \cup Diagnose : m \notin Change
      /\ \A m \in Halt \cup Change : m \notin Diagnose
  BY DEF Change, Diagnose, Halt
<1>4. \A m \in C : /\ m \in Diagnose <=> m.kind = "diagnostics"
                   /\ m \in Change <=> m.kind \in {"open", "close", "watch"}
  BY MessageKinds
<1>5. toCheck # <<>> => Head(toCheck) \in C
  BY <1>1
<1> HIDE DEF C
<1>6. CASE MainStep
  <2>1. UNCHANGED <<deferred, checker, shownFor>>
    BY <1>6, ThreadsLeave DEF checkVars
  <2>2. /\ generation' \in Int /\ generation <= generation' /\ Dated(toCheck', generation')
        /\ \A tag \in Int : tag <= generation /\ Newer(toCheck, tag) => Newer(toCheck', tag)
    <3>1. CASE \E m : Notified(m)
      <4>1. PICK m : Notified(m)
        BY <3>1
      <4>2. /\ m \in Change /\ m \in C /\ m.generation = generation + 1
            /\ generation' = generation + 1
            /\ toCheck' = Append(toCheck, m) /\ m \notin Diagnose
        BY <1>3, <4>1 DEF Notified
      <4>3. m.generation > generation /\ m.generation \in Int
        BY <1>2, <4>2
      <4>4. Dated(toCheck', generation + 1)
        BY <1>1, <1>2, <4>2, <4>3, DatedAppend
      <4>5. ASSUME NEW tag \in Int, tag <= generation, Newer(toCheck, tag)
            PROVE  Newer(toCheck', tag)
        <5>1. m.generation > tag
          BY <1>2, <4>2, <4>5
        <5> QED
          BY <1>1, <4>2, <4>5, <5>1, NewerChannel
      <4> QED
        BY <1>2, <4>2, <4>4, <4>5
    <3>2. CASE /\ generation' = generation \/ generation' = generation + 1
               /\ \/ toCheck' = toCheck
                  \/ \E m \in Halt : toCheck' = Append(toCheck, m)
                  \/ \E m \in Diagnose : m.tag = generation /\ toCheck' = Append(toCheck, m)
      <4>1. generation' \in Int /\ generation <= generation'
        BY <1>2, <3>2
      <4>2. Dated(toCheck, generation')
        BY <1>1, <1>2, <4>1 DEF Dated
      <4>3. \A m \in Halt : Dated(Append(toCheck, m), generation')
        BY <1>1, <1>2, <1>3, <4>1, DatedAppend
      <4>4. \A m \in Diagnose : m.tag = generation => Dated(Append(toCheck, m), generation')
        BY <1>1, <1>2, <1>3, <4>1, DatedAppend
      <4>5. ASSUME NEW tag \in Int, Newer(toCheck, tag) PROVE Newer(toCheck', tag)
        BY <1>1, <1>3, <3>2, <4>5, NewerChannel
      <4> QED
        BY <3>2, <4>1, <4>2, <4>3, <4>4, <4>5
    <3> QED
      BY <1>1, <1>6, <3>1, <3>2, MainSends
  <2>3. \A tag \in Int : tag <= generation => tag <= generation'
    BY <1>2, <2>2
  <2> QED
    BY <1>2, <2>1, <2>2, <2>3 DEF Tagged
<1>7. CASE CheckChange \/ CheckStop
  <2>1. /\ toCheck # <<>> /\ toCheck' = Tail(toCheck) /\ checker.at = "idle"
        /\ UNCHANGED <<deferred, shownFor, generation>>
        /\ checker' = checker \/ checker' = [checker EXCEPT !.at = "done"]
    BY <1>7 DEF CheckChange, CheckStop, restOfCheck, mainVars
  <2>2. Dated(toCheck', generation)
    BY <1>1, <2>1, DatedTail
  <2>3. \A tag \in Int : Newer(toCheck, tag) => Newer(toCheck', tag)
    BY <1>1, <2>1, NewerChannel
  <2>4. checker'.tag = checker.tag /\ checker'.at \in {"idle", "done"}
    BY <1>1, <2>1 DEF CheckShaped
  <2> QED
    BY <1>2, <2>1, <2>2, <2>3, <2>4 DEF Tagged
<1>8. CASE DeferDiagnostics
  <2>1. /\ toCheck # <<>> /\ toCheck' = Tail(toCheck) /\ checker.at = "idle"
        /\ UNCHANGED <<checker, shownFor, generation>> /\ Head(toCheck) \in Diagnose
        /\ deferred' = <<Head(toCheck)>> \/ deferred' = deferred
    BY <1>4, <1>5, <1>8 DEF DeferDiagnostics, restOfCheck, mainVars
  <2>2. Dated(toCheck', generation) /\ Head(toCheck).tag <= generation
        /\ Newer(toCheck', Head(toCheck).tag)
    BY <1>1, <2>1, DatedTail
  <2>3. \A tag \in Int : Newer(toCheck, tag) => Newer(toCheck', tag)
    BY <1>1, <2>1, NewerChannel
  <2>4. deferred' # <<>> => deferred'[1].tag <= generation /\ Newer(toCheck', deferred'[1].tag)
    BY <1>2, <2>1, <2>2, <2>3 DEF Tagged
  <2> QED
    BY <1>2, <2>1, <2>2, <2>4 DEF Tagged
<1>9. CASE CheckDiagnostics
  <2>1. checker.at = "idle" /\ UNCHANGED <<generation, shownFor>>
    BY <1>9 DEF CheckDiagnostics, restOfCheck, mainVars
  <2>2. \A tag : Newer(<<>>, tag)
    BY DEF Newer
  <2>3. Dated(<<>>, generation)
    BY DEF Dated
  <2>4. \E m \in Diagnose : checker' = Begin(m) /\ m.tag <= generation /\ Newer(toCheck', m.tag)
    <3>1. CASE /\ Len(toCheck) = 1 /\ Head(toCheck).kind = "diagnostics"
               /\ checker' = Begin(Head(toCheck)) /\ toCheck' = <<>> /\ UNCHANGED deferred
      <4>1. toCheck # <<>>
        BY <1>1, <3>1, TakeOnly
      <4>2. Head(toCheck) \in Diagnose
        BY <1>4, <1>5, <3>1, <4>1
      <4>3. Head(toCheck).tag <= generation
        BY <1>1, <4>1, <4>2, DatedTail
      <4> QED
        BY <2>2, <2>3, <3>1, <4>2, <4>3
    <3>2. CASE /\ toCheck = <<>> /\ deferred # <<>> /\ checker' = Begin(deferred[1])
               /\ deferred' = <<>> /\ UNCHANGED toCheck
      BY <1>1, <1>2, <2>2, <3>2 DEF Tagged
    <3> QED
      BY <1>9, <3>1, <3>2 DEF CheckDiagnostics
  <2>5. /\ Dated(toCheck', generation)
        /\ deferred' # <<>> => deferred'[1].tag <= generation /\ Newer(toCheck', deferred'[1].tag)
    BY <1>1, <1>9, <2>2, <2>3 DEF CheckDiagnostics, Tagged
  <2> DEFINE Started(m) == checker' = Begin(m) /\ m.tag <= generation /\ Newer(toCheck', m.tag)
  <2>8. PICK m \in Diagnose : Started(m)
    BY <2>4, Zenon
  <2>6. checker' = checker \/ (checker'.tag = m.tag /\ checker'.at = "early")
    BY <2>8 DEF Begin
  <2>7. /\ checker'.tag <= generation
        /\ checker'.at \notin {"idle", "done"} => Newer(toCheck', checker'.tag)
    BY <2>1, <2>6, <2>8 DEF Tagged
  <2> QED
    BY <2>1, <2>5, <2>7 DEF Tagged
<1>10. CASE GiveUp \/ PublishEarly \/ CompileCancelled \/ PublishFinal \/ SendDiagnostics
            \/ \E d \in Docs : CompileFor(d)
  <2>1. /\ UNCHANGED <<toCheck, deferred, generation>> /\ checker.at \notin {"idle", "done"}
        /\ shownFor' = shownFor \/ shownFor' = checker.tag
        /\ checker'.tag = checker.tag
    <3>1. CASE GiveUp \/ PublishEarly \/ CompileCancelled \/ PublishFinal \/ SendDiagnostics
      BY <1>1, <3>1 DEF GiveUp, PublishEarly, CompileCancelled, PublishFinal, SendDiagnostics,
                        restOfCheck, mainVars, CheckShaped
    <3>2. ASSUME NEW d \in Docs, CompileFor(d) PROVE <2>1
      <4>1. /\ checker.at = "compile" /\ checker' = [checker EXCEPT !.todo = @ \ {d}]
            /\ UNCHANGED <<toCheck, deferred, shownFor>>
        BY <1>1, <3>2, CompileForEffect
      <4>2. generation' = generation
        BY <3>2, Zenon DEF CompileFor, restOfCheck, mainVars
      <4> QED
        BY <1>1, <4>1, <4>2 DEF CheckShaped
    <3> QED
      BY <1>10, <3>1, <3>2
  <2> QED
    BY <1>1, <1>2, <2>1 DEF Tagged
<1>11. CASE QueryStep \/ UNCHANGED serverVars
  <2>1. UNCHANGED <<toCheck, generation, deferred, checker, shownFor>>
    BY <1>11, ThreadsLeave DEF serverVars, mainVars, checkVars
  <2> QED
    BY <2>1 DEF Tagged
<1> QED
  BY <1>6, <1>7, <1>8, <1>9, <1>10, <1>11 DEF ServerNext, Finished, CheckStep
-----------------------------------------------------------------------------
(***************************************************************************)
(* While the generation of a run holds, its thread has the editor's texts. *)
(***************************************************************************)
LEMMA CheckerUpToDate ==
  ASSUME ServerShaped, Queued, Tagged, checker.at \notin {"idle", "done"},
         generation = checker.tag
  PROVE  (\A d \in Docs : cOpen[d] = versions[d]) /\ (\A d : ~Dropping(toCheck, d))
<1> DEFINE C == Change \cup Diagnose \cup Halt
<1>1. toCheck \in Seq(C) /\ generation \in Int
  BY DEF ServerShaped, QueuesShaped, MainShaped
<1>2. /\ Ordered(toCheck, generation) /\ Newer(toCheck, generation)
      /\ Follows(toCheck, cOpen, versions)
  BY DEF Queued, Tagged
<1>3. \A m \in C : m.kind \in {"open", "close", "watch"} => m \in Change
  BY MessageKinds
<1> HIDE DEF C
<1> QED
  BY <1>1, <1>2, <1>3, UpToDate

LEMMA CheckerFreshStep ==
  ASSUME ServerAssumption, ServerShaped, CheckerFresh, Collected, [ServerNext]_serverVars
  PROVE  CheckerFresh'
<1>1. /\ MainShaped /\ CheckShaped /\ cCache \in Cache /\ cCache.entries \in Map
      /\ cOpen \in [Docs -> 0..MaxGeneration] /\ MaxGeneration \in Nat
  BY CacheFields DEF ServerShaped, CheckShaped, ServerAssumption
<1>2. CASE CheckChange /\ toCheck # <<>> /\ Head(toCheck) \in Change
  <2> DEFINE m == Head(toCheck)
  <2>1. cCache' = Applied(cCache, cOpen, m).cache /\ cOpen' = Applied(cCache, cOpen, m).texts
    BY <1>2, Zenon DEF CheckChange
  <2>2. m \in Change
    BY <1>2
  <2> HIDE DEF m
  <2>3. /\ SubMap(cCache'.entries, cCache.entries)
        /\ \A d \in Docs : cOpen'[d] = IF Sets(m, d) THEN TextSet(m) ELSE cOpen[d]
        /\ \A k \in DOMAIN cCache'.entries : \A u \in DOMAIN cCache'.entries[k].source : ~Sets(m, u)
    BY <1>1, <2>1, <2>2, AppliedCache
  <2>4. ASSUME NEW k \in DOMAIN cCache'.entries
        PROVE  /\ Holds(cCache'.entries[k], k) /\ cOpen'[cCache'.entries[k].root] > 0
               /\ SawTexts(cCache'.entries[k], cOpen')
    <3> DEFINE c == cCache'.entries[k]
    <3>1. k \in DOMAIN cCache.entries /\ c = cCache.entries[k]
      BY <2>3 DEF SubMap
    <3>2. c \in Compilation
      BY <1>1, <3>1, MapProperties
    <3>3. c.root \in DOMAIN c.source /\ DOMAIN c.source \subseteq Docs
      BY <3>2, CompilationProperties DEF ServerAssumption
    <3>4. \A u \in DOMAIN c.source : cOpen'[u] = cOpen[u]
      BY <2>3, <3>3
    <3>5. Holds(c, k) /\ cOpen[c.root] > 0 /\ SawTexts(c, cOpen)
      BY <3>1 DEF CheckerFresh
    <3> HIDE DEF c
    <3>6. cOpen'[c.root] > 0 /\ SawTexts(c, cOpen')
      BY <3>3, <3>4, <3>5 DEF SawTexts
    <3> QED
      BY <3>5, <3>6 DEF c
  <2> QED
    BY <2>4 DEF CheckerFresh
<1>3. ASSUME NEW d \in Docs, CompileFor(d) PROVE CheckerFresh'
  <2> DEFINE new == Compiled(d)
  <2>1. /\ checker.at = "compile" /\ d \in checker.todo /\ cOpen' = cOpen
        /\ \A k \in DOMAIN cCache'.entries :
              \/ cCache'.entries[k] = new /\ Holds(new, k)
              \/ k \in DOMAIN cCache.entries /\ cCache'.entries[k] = cCache.entries[k]
    BY <1>1, <1>3, CompileForEffect
  <2>2. /\ new.root = d /\ DOMAIN new.source = Uses[d]
        /\ \A u \in Uses[d] : u \in Docs /\ new.source[u] = Seen(u)
    BY <1>1, CompiledIsCompilation
  <2>3. cOpen[d] > 0
    BY <2>1 DEF Collected, Opened
  <2>4. \A u \in Docs : IF cOpen[u] > 0 THEN Seen(u) = cOpen[u] ELSE Seen(u) <= 0
    BY <1>1 DEF Seen, MainShaped, ServerAssumption
  <2> HIDE DEF new
  <2>5. SawTexts(new, cOpen)
    BY <2>2, <2>4 DEF SawTexts
  <2> QED
    BY <2>1, <2>2, <2>3, <2>5 DEF CheckerFresh
<1>4. CASE UNCHANGED <<cCache, cOpen>>
  BY <1>4 DEF CheckerFresh
<1>5. CheckChange => toCheck # <<>> /\ Head(toCheck) \in Change
  <2>1. toCheck # <<>> => Head(toCheck) \in Change \cup Diagnose \cup Halt
    BY DEF ServerShaped, QueuesShaped
  <2> QED
    BY <2>1, MessageKinds DEF CheckChange
<1>6. DeferDiagnostics \/ CheckDiagnostics \/ CheckStop \/ GiveUp \/ PublishEarly
        \/ CompileCancelled \/ PublishFinal \/ SendDiagnostics => UNCHANGED <<cCache, cOpen>>
  BY DEF DeferDiagnostics, CheckDiagnostics, CheckStop, GiveUp, PublishEarly, CompileCancelled,
         PublishFinal, SendDiagnostics
<1>7. MainStep \/ QueryStep \/ UNCHANGED serverVars => UNCHANGED <<cCache, cOpen>>
  BY ThreadsLeave DEF serverVars, checkVars
<1> QED
  BY <1>2, <1>3, <1>4, <1>5, <1>6, <1>7 DEF ServerNext, Finished, CheckStep

LEMMA CollectedStep ==
  ASSUME ServerAssumption, ServerShaped, CheckerFresh, Collected, [ServerNext]_serverVars
  PROVE  Collected'
<1>1. /\ MainShaped /\ CheckShaped /\ cCache.entries \in Map
      /\ cOpen \in [Docs -> 0..MaxGeneration] /\ MaxGeneration \in Nat
      /\ checker \in [at : {"idle", "early", "compile", "publish", "done"},
                      tag : -1..MaxGeneration, todo : SUBSET Docs]
  BY CacheFields DEF ServerShaped, CheckShaped, ServerAssumption
<1>2. CASE CheckChange
  BY <1>2 DEF CheckChange, Collected
<1>3. CASE CheckDiagnostics
  <2>1. checker.at = "idle" /\ UNCHANGED <<cOpen, next>>
    BY <1>3 DEF CheckDiagnostics
  <2>2. checker' = checker \/ (checker'.at = "early" /\ checker'.todo = Opened(cOpen))
    BY <1>3 DEF CheckDiagnostics, Begin
  <2>3. Opened(cOpen)' = Opened(cOpen)
    BY <2>1 DEF Opened
  <2> QED
    BY <2>1, <2>2, <2>3 DEF Collected
<1>4. CASE DeferDiagnostics
  BY <1>4 DEF DeferDiagnostics, Collected, Opened
<1>5. CASE CheckStop \/ GiveUp
  <2>1. /\ checker.at \in {"idle", "early"} /\ UNCHANGED <<next, cOpen>>
        /\ checker' = [checker EXCEPT !.at = "idle"] \/ checker' = [checker EXCEPT !.at = "done"]
    BY <1>5 DEF CheckStop, GiveUp
  <2>2. checker'.at \in {"idle", "done"}
    BY <1>1, <2>1
  <2> QED
    BY <2>1, <2>2 DEF Collected
<1>6. CASE CompileCancelled \/ SendDiagnostics
  <2>1. checker' = [checker EXCEPT !.at = "idle"] /\ next' = <<>> /\ UNCHANGED cOpen
    BY <1>6 DEF CompileCancelled, SendDiagnostics
  <2>2. checker'.at = "idle"
    BY <1>1, <2>1
  <2> QED
    BY <2>1, <2>2 DEF Collected
<1>7. CASE PublishEarly
  <2>1. /\ checker.at = "early" /\ UNCHANGED <<next, cOpen>>
        /\ checker' = [checker EXCEPT !.at = "compile"] \/ checker' = [checker EXCEPT !.at = "idle"]
    BY <1>7 DEF PublishEarly
  <2>2. checker'.at \in {"compile", "idle"} /\ checker'.todo = checker.todo
    BY <1>1, <2>1
  <2>3. next = <<>> /\ checker.todo = Opened(cOpen) /\ DOMAIN next = {}
    BY <2>1 DEF Collected
  <2>4. \A d \in Docs : ~(cOpen[d] > 0 /\ d \notin checker.todo)
    BY <2>3 DEF Opened
  <2>5. Opened(cOpen)' = Opened(cOpen)
    BY <2>1 DEF Opened
  <2> QED
    BY <2>1, <2>2, <2>3, <2>4, <2>5 DEF Collected
<1>8. CASE PublishFinal
  <2>1. /\ checker.at = "compile" /\ checker.todo = {} /\ UNCHANGED <<next, cOpen>>
        /\ checker' = [checker EXCEPT !.at = "publish"]
    BY <1>8 DEF PublishFinal
  <2>2. checker'.at = "publish" /\ checker'.todo = {}
    BY <1>1, <2>1
  <2>3. Opened(cOpen)' = Opened(cOpen)
    BY <2>1 DEF Opened
  <2> QED
    BY <2>1, <2>2, <2>3 DEF Collected
<1>9. ASSUME NEW d \in Docs, CompileFor(d) PROVE Collected'
  <2>1. /\ checker.at = "compile" /\ d \in checker.todo /\ cOpen' = cOpen
        /\ checker' = [checker EXCEPT !.todo = @ \ {d}]
        /\ \/ next' = Failed(d) \/ next' = Found(Compiled(d))
           \/ d \in DOMAIN cCache.entries /\ next' = Found(cCache.entries[d])
    BY <1>1, <1>9, CompileForEffect
  <2>2. checker'.at = "compile" /\ checker'.todo = checker.todo \ {d}
    BY <1>1, <2>1
  <2>3. /\ \A u \in Docs : cOpen[u] > 0 /\ u \notin checker.todo => u \in DOMAIN next
        /\ checker.todo \subseteq Opened(cOpen)
        /\ \A u \in DOMAIN next : /\ cOpen[u] > 0 => next[u] = cOpen[u]
                                  /\ \E o \in Opened(cOpen) : u \in Uses[o]
    BY <2>1 DEF Collected
  <2>4. Opened(cOpen)' = Opened(cOpen) /\ d \in Opened(cOpen) /\ cOpen[d] > 0 /\ d \in Uses[d]
    BY <2>1, <2>3 DEF Opened, ServerAssumption
  <2> DEFINE Right(n) == /\ DOMAIN next \cup {d} \subseteq DOMAIN n
                         /\ \A u \in DOMAIN n : /\ cOpen[u] > 0 => n[u] = cOpen[u]
                                                /\ \E o \in Opened(cOpen) : u \in Uses[o]
  <2>5. Right(Failed(d))
    BY <2>3, <2>4 DEF Failed
  <2>6. ASSUME NEW c, d \in DOMAIN c.source, SawTexts(c, cOpen),
               \E o \in Opened(cOpen) : DOMAIN c.source = Uses[o]
        PROVE  Right(Found(c))
    BY <2>3, <2>6 DEF Found, Holds, SawTexts
  <2>7. Right(Found(Compiled(d)))
    <3> DEFINE new == Compiled(d)
    <3>1. /\ DOMAIN new.source = Uses[d]
          /\ \A u \in Uses[d] : u \in Docs /\ new.source[u] = Seen(u)
      BY <1>1, CompiledIsCompilation
    <3>2. \A u \in Docs : IF cOpen[u] > 0 THEN Seen(u) = cOpen[u] ELSE Seen(u) <= 0
      BY <1>1 DEF Seen, MainShaped, ServerAssumption
    <3> HIDE DEF new
    <3>3. SawTexts(new, cOpen)
      BY <3>1, <3>2 DEF SawTexts
    <3> HIDE DEF Right
    <3>4. Right(Found(new))
      BY <2>4, <2>6, <3>1, <3>3
    <3> QED
      BY <3>4 DEF new
  <2>8. ASSUME d \in DOMAIN cCache.entries PROVE Right(Found(cCache.entries[d]))
    <3> DEFINE c == cCache.entries[d]
    <3>1. Holds(c, d) /\ cOpen[c.root] > 0 /\ SawTexts(c, cOpen)
      BY <2>8 DEF CheckerFresh
    <3>2. c \in Compilation
      BY <1>1, <2>8, MapProperties
    <3> HIDE DEF c
    <3>3. c.root \in Docs /\ DOMAIN c.source = Uses[c.root]
      BY <3>2, CompilationProperties
    <3>4. c.root \in Opened(cOpen)
      BY <3>1, <3>3 DEF Opened
    <3>5. d \in DOMAIN c.source
      BY <3>1 DEF Holds
    <3> HIDE DEF Right
    <3>6. Right(Found(c))
      BY <2>6, <3>1, <3>3, <3>4, <3>5
    <3> QED
      BY <3>6 DEF c
  <2> HIDE DEF Right
  <2>9. Right(next')
    BY <2>1, <2>5, <2>7, <2>8
  <2>10. \A u \in Docs : cOpen[u] > 0 /\ u \notin checker'.todo => u \in DOMAIN next'
    BY <2>2, <2>3, <2>9 DEF Right
  <2>11. \A u \in DOMAIN next' : /\ cOpen[u] > 0 => next'[u] = cOpen[u]
                                 /\ \E o \in Opened(cOpen) : u \in Uses[o]
    BY <2>9 DEF Right
  <2>12. checker'.todo \subseteq Opened(cOpen)
    BY <2>2, <2>3
  <2> QED
    BY <2>1, <2>2, <2>4, <2>10, <2>11, <2>12 DEF Collected
<1>10. CASE MainStep \/ QueryStep \/ UNCHANGED serverVars
  <2>1. UNCHANGED <<next, cOpen, checker>>
    BY <1>10, ThreadsLeave DEF serverVars, checkVars
  <2> QED
    BY <2>1 DEF Collected, Opened
<1> QED
  BY <1>2, <1>3, <1>4, <1>5, <1>6, <1>7, <1>8, <1>9, <1>10 DEF ServerNext, Finished, CheckStep

LEMMA DisplayedStep ==
  ASSUME ServerAssumption, ServerShaped, Queued, Tagged, Collected, Displayed,
         [ServerNext]_serverVars
  PROVE  Displayed'
<1>1. MainShaped /\ CheckShaped /\ generation \in Int /\ shownFor \in Int /\ shownFor <= generation
  BY DEF ServerShaped, MainShaped, CheckShaped, Tagged
<1>2. CASE SendDiagnostics
  <2>1. /\ checker.at = "publish" /\ shownFor' = checker.tag
        /\ shown' = [d \in Docs |-> IF d \in DOMAIN next THEN next[d] ELSE None]
        /\ UNCHANGED <<generation, versions>>
    BY <1>2 DEF SendDiagnostics, ShowAll, restOfCheck, mainVars
  <2>2. ASSUME generation = checker.tag
        PROVE  \A d \in Docs :
                 /\ versions[d] > 0 => shown'[d] = versions[d]
                 /\ (\A u \in Opened(versions) : d \notin Uses[u]) => shown'[d] = None
    <3>1. \A d \in Docs : cOpen[d] = versions[d]
      BY <2>1, <2>2, CheckerUpToDate
    <3>2. Opened(cOpen) = Opened(versions)
      BY <3>1 DEF Opened
    <3>3. /\ \A d \in Docs : cOpen[d] > 0 => d \in DOMAIN next
          /\ \A u \in DOMAIN next : /\ cOpen[u] > 0 => next[u] = cOpen[u]
                                    /\ \E o \in Opened(cOpen) : u \in Uses[o]
      BY <2>1 DEF Collected
    <3> QED
      BY <2>1, <3>1, <3>2, <3>3
  <2>3. Opened(versions)' = Opened(versions)
    BY <2>1 DEF Opened
  <2> QED
    BY <2>1, <2>2, <2>3 DEF Displayed
<1>3. CASE UNCHANGED <<generation, versions, shown, shownFor>>
  BY <1>3 DEF Displayed, Opened
<1>4. CASE MainStep
  <2>1. UNCHANGED <<shown, shownFor>>
    BY <1>4, ThreadsLeave DEF checkVars
  <2>2. generation' = generation + 1 \/ UNCHANGED <<generation, versions>>
    BY <1>1, <1>4, MainSends DEF Notified
  <2>3. CASE generation' = generation + 1
    BY <1>1, <2>1, <2>3 DEF Displayed
  <2> QED
    BY <1>3, <2>1, <2>2, <2>3
<1>5. QueryStep \/ UNCHANGED serverVars => UNCHANGED <<generation, versions, shown, shownFor>>
  BY ThreadsLeave DEF serverVars, checkVars, mainVars
<1>6. CheckStep => SendDiagnostics \/ UNCHANGED <<shown, shownFor>>
  <2>1. CheckChange \/ DeferDiagnostics \/ CheckDiagnostics \/ CheckStop \/ GiveUp \/ PublishEarly
          \/ CompileCancelled \/ PublishFinal => UNCHANGED <<shown, shownFor>>
    BY DEF CheckChange, DeferDiagnostics, CheckDiagnostics, CheckStop, GiveUp, PublishEarly,
           CompileCancelled, PublishFinal
  <2>2. (\E d \in Docs : CompileFor(d)) => UNCHANGED <<shown, shownFor>>
    BY Zenon DEF CompileFor
  <2> QED
    BY <2>1, <2>2 DEF CheckStep
<1>7. CheckStep => UNCHANGED <<generation, versions>>
  BY ThreadsLeave DEF mainVars
<1> QED
  BY <1>2, <1>3, <1>4, <1>5, <1>6, <1>7 DEF ServerNext, Finished
-----------------------------------------------------------------------------
(***************************************************************************)
(* The compilations of the query thread.                                   *)
(***************************************************************************)
LEMMA CheckerAgrees ==
  ASSUME ServerAssumption, CheckShaped, CheckerFresh
  PROVE  Agreed(cCache.entries)
<1>1. \A k \in DOMAIN cCache.entries : Holds(cCache.entries[k], k)
  BY DEF CheckerFresh
<1>2. ASSUME NEW j \in DOMAIN cCache.entries, NEW k \in DOMAIN cCache.entries,
             NEW u \in DOMAIN cCache.entries[j].source \cap DOMAIN cCache.entries[k].source,
             cCache.entries[j].source[u] > 0
      PROVE  cCache.entries[k].source[u] = cCache.entries[j].source[u]
  <2>1. SawTexts(cCache.entries[j], cOpen) /\ SawTexts(cCache.entries[k], cOpen)
    BY DEF CheckerFresh
  <2>2. cCache.entries[j].source[u] \in Int
    <3>1. cCache.entries[j] \in Compilation
      BY CacheFields, MapProperties DEF CheckShaped
    <3>2. cCache.entries[j].source \in [Uses[cCache.entries[j].root] -> Text]
      BY <3>1, CompilationProperties
    <3> QED
      BY <3>2 DEF Text, ServerAssumption
  <2>3. cOpen[u] > 0
    BY <1>2, <2>1, <2>2 DEF SawTexts
  <2> QED
    BY <2>1, <2>3 DEF SawTexts
<1> QED
  BY <1>1, <1>2 DEF Agreed

LEMMA PublishEffect ==
  ASSUME CheckShaped, CheckStep
  PROVE  \/ mailbox' = mailbox
         \/ /\ checker.at \notin {"idle", "done"} /\ mailbox'.id[1] = checker.tag
            /\ mailbox'.entries = cCache.entries /\ mailbox'.good = cCache.good
            /\ UNCHANGED <<toCheck, cCache>>
<1>1. PublishEarly \/ PublishFinal =>
            /\ checker.at \notin {"idle", "done"} /\ mailbox'.id[1] = checker.tag
            /\ mailbox'.entries = cCache.entries /\ mailbox'.good = cCache.good
            /\ UNCHANGED <<toCheck, cCache>>
  BY DEF PublishEarly, PublishFinal, PublishSnapshot
<1>2. CheckChange \/ DeferDiagnostics \/ CheckDiagnostics \/ CheckStop \/ GiveUp
          \/ CompileCancelled \/ SendDiagnostics => mailbox' = mailbox
  BY DEF CheckChange, DeferDiagnostics, CheckDiagnostics, CheckStop, GiveUp, CompileCancelled,
         SendDiagnostics
<1>3. (\E d \in Docs : CompileFor(d)) => mailbox' = mailbox
  BY Zenon DEF CompileFor
<1> QED
  BY <1>1, <1>2, <1>3 DEF CheckStep

\* The cache of the query thread after one of its steps.
LEMMA QueryCacheEffect ==
  ASSUME ServerAssumption, ServerShaped, QueryFresh, QueryStep
  PROVE  \/ /\ QueryChange /\ toQuery # <<>> /\ Head(toQuery) \in Change
            /\ qCache' = Applied(qCache, qOpen, Head(toQuery)).cache
            /\ qOpen' = Applied(qCache, qOpen, Head(toQuery)).texts
            /\ toQuery' = Tail(toQuery) /\ floor' = RaisedFloor(Head(toQuery))
         \/ /\ UNCHANGED <<qOpen, floor>>
            /\ \/ toQuery' = toQuery
               \/ toQuery # <<>> /\ Head(toQuery) \notin Change /\ toQuery' = Tail(toQuery)
            /\ \/ Adopted
               \/ qCache'.entries = qCache.entries /\ qCache'.good = qCache.good
<1>1. CheckShaped /\ QueryShaped /\ Agreed(mailbox.entries)
  BY DEF ServerShaped, QueryFresh
<1>2. CASE QueryChange /\ toQuery # <<>> /\ Head(toQuery) \in Change
  BY <1>2, Zenon DEF QueryChange
<1>3. CASE /\ QueryStop \/ QueryRequest
           /\ toQuery # <<>> /\ Head(toQuery) \notin Change
           /\ toQuery' = Tail(toQuery) /\ UNCHANGED <<qOpen, floor>>
  <2>1. QueryStop => qCache' = qCache
    BY DEF QueryStop
  <2>2. QueryRequest => Adopt
    BY DEF QueryRequest
  <2>3. Adopt => Adopted \/ qCache' = qCache
    BY <1>1, AdoptEffect
  <2> QED
    BY <1>3, <2>1, <2>2, <2>3
<1>4. CASE FinishAnswer /\ UNCHANGED <<toQuery, qOpen, floor>>
  <2> DEFINE d == sent[query.request].doc
  <2>1. qCache' = Touch(qCache, d)
    BY <1>4 DEF FinishAnswer
  <2>2. d \in Docs /\ qCache \in Cache
    BY <1>1, <1>4 DEF FinishAnswer, QueryShaped, SentRequest
  <2> HIDE DEF d
  <2>3. qCache'.entries = qCache.entries /\ qCache'.good = qCache.good
    BY <2>1, <2>2, TouchCache
  <2> QED
    BY <1>4, <2>3
<1> QED
  BY <1>2, <1>3, <1>4, QueryTakes

LEMMA QueryFreshStep ==
  ASSUME ServerAssumption, ServerShaped, CheckerFresh, QueryFresh, [ServerNext]_serverVars
  PROVE  QueryFresh'
<1>1. /\ CheckShaped /\ QueryShaped /\ Agreed(mailbox.entries) /\ MaxGeneration \in Nat
      /\ \A k \in DOMAIN qCache.entries : SawOpen(qCache.entries[k], qOpen)
      /\ qOpen \in [Docs -> 0..MaxGeneration] /\ qCache \in Cache /\ qCache.entries \in Map
  BY CacheFields DEF ServerShaped, QueryFresh, QueryShaped, ServerAssumption
<1>2. CASE MainStep \/ UNCHANGED serverVars
  <2>1. UNCHANGED <<mailbox, qOpen, qCache>>
    BY <1>2, ThreadsLeave DEF serverVars, checkVars, queryVars
  <2> QED
    BY <1>1, <2>1 DEF QueryFresh
<1>3. CASE CheckStep
  <2>1. UNCHANGED <<qOpen, qCache>>
    BY <1>3, ThreadsLeave DEF queryVars
  <2>2. mailbox' = mailbox \/ mailbox'.entries = cCache.entries
    BY <1>1, <1>3, PublishEffect
  <2>3. Agreed(mailbox'.entries)
    BY <1>1, <2>2, CheckerAgrees
  <2> QED
    BY <1>1, <2>1, <2>3 DEF QueryFresh
<1>4. CASE QueryStep
  <2>1. mailbox' = mailbox
    BY <1>4, ThreadsLeave DEF checkVars
  <2>2. \A k \in DOMAIN qCache'.entries : SawOpen(qCache'.entries[k], qOpen')
    <3>1. CASE /\ toQuery # <<>> /\ Head(toQuery) \in Change
               /\ qCache' = Applied(qCache, qOpen, Head(toQuery)).cache
               /\ qOpen' = Applied(qCache, qOpen, Head(toQuery)).texts
      <4> DEFINE m == Head(toQuery)
      <4>1. /\ SubMap(qCache'.entries, qCache.entries)
            /\ \A d \in Docs : qOpen'[d] = IF Sets(m, d) THEN TextSet(m) ELSE qOpen[d]
            /\ \A k \in DOMAIN qCache'.entries :
                 \A u \in DOMAIN qCache'.entries[k].source : ~Sets(m, u)
        BY <1>1, <3>1, AppliedCache
      <4> HIDE DEF m
      <4>2. ASSUME NEW k \in DOMAIN qCache'.entries PROVE SawOpen(qCache'.entries[k], qOpen')
        <5> DEFINE c == qCache'.entries[k]
        <5>1. k \in DOMAIN qCache.entries /\ c = qCache.entries[k]
          BY <4>1 DEF SubMap
        <5>2. c \in Compilation
          BY <1>1, <5>1, MapProperties
        <5>3. DOMAIN c.source \subseteq Docs
          BY <5>2, CompilationProperties
        <5>4. \A u \in DOMAIN c.source : qOpen'[u] = qOpen[u]
          BY <4>1, <5>3
        <5>5. SawOpen(c, qOpen)
          BY <1>1, <5>1
        <5> HIDE DEF c
        <5>6. SawOpen(c, qOpen')
          BY <5>4, <5>5 DEF SawOpen
        <5> QED
          BY <5>6 DEF c
      <4> QED
        BY <4>2
    <3>2. CASE UNCHANGED qOpen /\ Adopted
      BY <3>2 DEF Adopted
    <3>3. CASE UNCHANGED qOpen /\ qCache'.entries = qCache.entries
      BY <1>1, <3>3
    <3> QED
      BY <1>4, <3>1, <3>2, <3>3, QueryCacheEffect
  <2> QED
    BY <1>1, <2>1, <2>2 DEF QueryFresh
<1> QED
  BY <1>2, <1>3, <1>4 DEF ServerNext, Finished

(***************************************************************************)
(* Requests and the changes behind them.                                   *)
(***************************************************************************)
LEMMA SentBeforeTail ==
  ASSUME NEW M, NEW channel \in Seq(M), channel # <<>>, NEW requests,
         SentBefore(channel, requests)
  PROVE  /\ SentBefore(Tail(channel), requests)
         /\ Head(channel) \in Query =>
              Newer(Tail(channel), requests[Head(channel).request].generation)
<1> DEFINE new == Tail(channel)
<1>1. /\ Head(channel) = channel[1] /\ 1 \in 1..Len(channel)
      /\ \A i \in 1..Len(new) : i + 1 \in 1..Len(channel) /\ new[i] = channel[i + 1]
  BY TakeMessage
<1>2. \A i, j \in 1..Len(new) : (j > i => j + 1 > i + 1) /\ i + 1 > 1
  OBVIOUS
<1> HIDE DEF new
<1>3. SentBefore(new, requests)
  BY <1>1, <1>2 DEF SentBefore
<1>4. Head(channel) \in Query => Newer(new, requests[Head(channel).request].generation)
  BY <1>1, <1>2 DEF SentBefore, Newer
<1> QED
  BY <1>3, <1>4 DEF new

LEMMA SentBeforeAppend ==
  ASSUME NEW M, NEW channel \in Seq(M), NEW m \in M, NEW requests, SentBefore(channel, requests),
         m \in Change => m \notin Query /\
           \A i \in 1..Len(channel) : channel[i] \in Query =>
             m.generation > requests[channel[i].request].generation
  PROVE  SentBefore(Append(channel, m), requests)
<1> DEFINE new == Append(channel, m)
           n == Len(channel)
<1>1. /\ n \in Nat /\ Len(new) = n + 1 /\ \A i \in 1..n : new[i] = channel[i]
      /\ new[n + 1] = m /\ \A i \in 1..(n + 1) : i \in 1..n \/ i = n + 1
  BY AppendMessage
<1> HIDE DEF new
<1>2. ASSUME NEW i \in 1..Len(new), new[i] \in Query,
             NEW j \in 1..Len(new), j > i, new[j] \in Change
      PROVE  new[j].generation > requests[new[i].request].generation
  <2>1. i \in 1..n
    BY <1>1, <1>2
  <2>2. CASE j \in 1..n
    BY <1>1, <1>2, <2>1, <2>2 DEF SentBefore
  <2>3. CASE j = n + 1
    BY <1>1, <1>2, <2>1, <2>3
  <2> QED
    BY <1>1, <2>2, <2>3
<1> QED
  BY <1>2 DEF SentBefore, new

LEMMA AskingStep ==
  ASSUME ServerAssumption, ServerShaped, Asking, [ServerNext]_serverVars
  PROVE  Asking'
<1> DEFINE Q == Change \cup Query \cup Halt
           AsSent(s, g, v, t) ==
             \A r \in Requests : s[r] \in SentRequest =>
               /\ s[r].generation <= g
               /\ s[r].generation = g =>
                    s[r].texts = v /\ s[r].closed = t.closed /\ s[r].watched = t.watched
<1>1. /\ toQuery \in Seq(Q) /\ MainShaped /\ QueryShaped /\ SentBefore(toQuery, sent)
      /\ AsSent(sent, generation, versions, touched) /\ generation \in Int
      /\ query.at = "answering" => Newer(toQuery, sent[query.request].generation)
      /\ \A i \in 1..Len(toQuery) : toQuery[i] \in Query =>
           toQuery[i].request \in Requests /\ sent[toQuery[i].request] \in SentRequest
      /\ query.at = "answering" => query.request \in Requests /\ sent[query.request] \in SentRequest
      /\ \A r \in Requests : sent[r] \in SentRequest => sent[r].generation \in Int
      /\ DOMAIN sent = Requests
  <2>1. MainShaped /\ QueryShaped /\ QueuesShaped
    BY DEF ServerShaped
  <2>2. toQuery \in Seq(Q) /\ generation \in Int /\ DOMAIN sent = Requests
    BY <2>1 DEF MainShaped, QueuesShaped
  <2>3. \A i \in 1..Len(toQuery) : toQuery[i] \in Query =>
           toQuery[i].request \in Requests /\ sent[toQuery[i].request] \in SentRequest
    BY <2>1 DEF QueryShaped, Query
  <2>4. query.at = "answering" => query.request \in Requests /\ sent[query.request] \in SentRequest
    BY <2>1 DEF QueryShaped
  <2>5. \A s \in SentRequest : s.generation \in Int
    BY DEF SentRequest
  <2>6. /\ SentBefore(toQuery, sent) /\ AsSent(sent, generation, versions, touched)
        /\ query.at = "answering" => Newer(toQuery, sent[query.request].generation)
    BY DEF Asking
  <2> QED
    BY <2>1, <2>2, <2>3, <2>4, <2>5, <2>6
<1>2. /\ Query \cup Halt \subseteq Q /\ Change \subseteq Q
      /\ \A m \in Query \cup Halt : m \notin Change
      /\ \A m \in Change : m \notin Query
  BY DEF Change, Query, Halt
<1>3. Unsent \notin SentRequest /\ \A s \in SentRequest : s # Unsent
  BY DEF Unsent, SentRequest, NoTag
<1> HIDE DEF Q
<1>4. ASSUME NEW m, Notified(m) PROVE Asking'
  <2>1. /\ m \in Change /\ m \in Q /\ m \notin Query /\ m.generation = generation + 1
        /\ generation' = generation + 1 /\ toQuery' = Append(toQuery, m)
        /\ UNCHANGED <<sent, query>>
    BY <1>2, <1>4 DEF Notified, queryVars
  <2>2. \A r \in Requests : sent[r] \in SentRequest => m.generation > sent[r].generation
    BY <1>1, <2>1
  <2>3. SentBefore(toQuery', sent)
    BY <1>1, <2>1, <2>2, SentBeforeAppend
  <2>4. query.at = "answering" => Newer(toQuery', sent[query.request].generation)
    BY <1>1, <2>1, <2>2, NewerChannel
  <2>5. AsSent(sent, generation + 1, versions', touched')
    BY <1>1
  <2> QED
    BY <2>1, <2>3, <2>4, <2>5 DEF Asking
<1>5. ASSUME NEW m \in Query \cup Halt PROVE
         /\ SentBefore(Append(toQuery, m), sent)
         /\ \A tag : Newer(toQuery, tag) => Newer(Append(toQuery, m), tag)
  BY <1>1, <1>2, <1>5, SentBeforeAppend, NewerChannel
<1>6. ASSUME NEW r \in Requests, NEW d \in Asked, NEW kind \in Kinds, Request(r, d, kind)
      PROVE  Asking'
  <2> DEFINE new == [generation |-> generation, doc |-> d, kind |-> kind, texts |-> versions,
                     closed |-> touched.closed, watched |-> touched.watched]
             m == [kind |-> "request", request |-> r]
  <2>1. /\ sent' = [sent EXCEPT ![r] = new] /\ sent[r] = Unsent
        /\ toQuery' = Append(toQuery, m) /\ UNCHANGED <<generation, versions, touched, query>>
    BY <1>6, Zenon DEF Request, queryVars
  <2>2. /\ m \in Query /\ new.generation = generation /\ new.texts = versions
        /\ new.closed = touched.closed /\ new.watched = touched.watched
    BY DEF Query
  <2> HIDE DEF new, m
  <2>3. \A q \in Requests : sent[q] \in SentRequest => sent'[q] = sent[q]
    BY <1>1, <1>3, <2>1
  <2>4. SentBefore(toQuery, sent')
    BY <1>1, <2>3 DEF SentBefore
  <2>5. SentBefore(toQuery', sent')
    BY <1>1, <1>2, <2>1, <2>2, <2>4, SentBeforeAppend
  <2>6. query.at = "answering" => Newer(toQuery', sent'[query.request].generation)
    BY <1>1, <1>5, <2>1, <2>2, <2>3
  <2>7. AsSent(sent', generation, versions, touched)
    BY <1>1, <2>1, <2>2
  <2> QED
    BY <2>1, <2>5, <2>6, <2>7 DEF Asking
<1>7. ASSUME NEW r \in Requests, Refuse(r) PROVE Asking'
  <2> DEFINE new == [generation |-> generation, kind |-> "refused"]
  <2>1. /\ sent' = [sent EXCEPT ![r] = new] /\ sent[r] = Unsent
        /\ UNCHANGED <<toQuery, generation, versions, touched, query>>
    BY <1>7, Zenon DEF Refuse
  <2>2. new \notin SentRequest
    BY DEF SentRequest
  <2> HIDE DEF new
  <2>3. \A q \in Requests : sent[q] \in SentRequest => sent'[q] = sent[q]
    BY <1>1, <1>3, <2>1
  <2>4. SentBefore(toQuery, sent')
    BY <1>1, <2>3 DEF SentBefore
  <2>5. AsSent(sent', generation, versions, touched)
    BY <1>1, <2>1, <2>2
  <2>6. query.at = "answering" => Newer(toQuery', sent'[query.request].generation)
    BY <1>1, <2>1, <2>3
  <2> QED
    BY <2>1, <2>4, <2>5, <2>6 DEF Asking
<1>8. ASSUME Stop PROVE Asking'
  <2>1. [kind |-> "stop"] \in Halt
    BY DEF Halt
  <2>2. /\ toQuery' = Append(toQuery, [kind |-> "stop"]) /\ generation' = generation + 1
        /\ UNCHANGED <<sent, query, versions, touched>>
    BY <1>8 DEF Stop, queryVars
  <2>3. AsSent(sent, generation + 1, versions, touched)
    BY <1>1
  <2> QED
    BY <1>1, <1>5, <2>1, <2>2, <2>3 DEF Asking
<1>9. ASSUME (\E d \in Watched : WriteFile(d)) \/ (\E r \in Requests : Cancel(r)) \/ Debounced
             \/ Shutdown \/ CheckStep \/ UNCHANGED serverVars
      PROVE  Asking'
  <2>1. UNCHANGED <<toQuery, sent, query, generation, versions, touched>>
    BY <1>9, ThreadsLeave DEF WriteFile, Cancel, Debounced, Shutdown, mainVars, queryVars,
                              serverVars
  <2> QED
    BY <2>1 DEF Asking
<1>10. CASE MainStep
  BY <1>1, <1>4, <1>6, <1>7, <1>8, <1>9, <1>10, MainCases
<1>11. CASE QueryStep
  <2>1. UNCHANGED <<sent, generation, versions, touched>>
    BY <1>11, ThreadsLeave DEF mainVars
  <2>2. toQuery # <<>> =>
          /\ SentBefore(Tail(toQuery), sent)
          /\ Head(toQuery) \in Query => Newer(Tail(toQuery), sent[Head(toQuery).request].generation)
    BY <1>1, SentBeforeTail
  <2>3. toQuery # <<>> => Head(toQuery) \in Q
    BY <1>1
  <2>4. toQuery # <<>> => (Head(toQuery) \in Query <=> Head(toQuery).kind = "request")
    BY <2>3, MessageKinds DEF Q
  <2>5. CASE QueryChange \/ QueryStop
    <3>1. toQuery # <<>> /\ toQuery' = Tail(toQuery) /\ query.at = "idle"
      BY <2>5 DEF QueryChange, QueryStop
    <3>2. query'.at # "answering"
      <4>1. QueryChange => query' = query
        BY DEF QueryChange
      <4>2. QueryStop => query'.at # "answering"
        BY DEF QueryStop
      <4> QED
        BY <2>5, <3>1, <4>1, <4>2
    <3> QED
      BY <1>1, <2>1, <2>2, <3>1, <3>2 DEF Asking
  <2>6. CASE QueryRequest
    <3>1. /\ toQuery # <<>> /\ toQuery' = Tail(toQuery) /\ Head(toQuery) \in Query
          /\ query'.at = "idle" \/ query' = [at |-> "answering", request |-> Head(toQuery).request]
      BY <2>4, <2>6 DEF QueryRequest, Respond
    <3> QED
      BY <1>1, <2>1, <2>2, <3>1 DEF Asking
  <2>7. CASE FinishAnswer
    <3>1. toQuery' = toQuery /\ query'.at = "idle"
      BY <2>7 DEF FinishAnswer, Respond
    <3> QED
      BY <1>1, <2>1, <3>1 DEF Asking
  <2> QED
    BY <1>11, <2>5, <2>6, <2>7 DEF QueryStep
<1> QED
  BY <1>9, <1>10, <1>11 DEF ServerNext, Finished
-----------------------------------------------------------------------------
(***************************************************************************)
(* The publication floor, and what the two threads have still to drop.     *)
(***************************************************************************)
LEMMA LinkedAppend ==
  ASSUME NEW M, NEW N, NEW behind \in Seq(M), NEW ahead \in Seq(N), NEW raised,
         Linked(behind, ahead, raised)
  PROVE  /\ \A m \in M : m \notin Change => Linked(Append(behind, m), ahead, raised)
         /\ \A m \in N : Linked(behind, Append(ahead, m), raised)
         /\ \A m \in M \cap N : Linked(Append(behind, m), Append(ahead, m), raised)
<1>1. ASSUME NEW m \in N PROVE Linked(behind, Append(ahead, m), raised)
  <2> DEFINE new == Append(ahead, m)
  <2>1. /\ Len(ahead) \in Nat /\ Len(new) = Len(ahead) + 1
        /\ \A j \in 1..Len(ahead) : j \in 1..Len(new) /\ new[j] = ahead[j]
    BY AppendMessage
  <2> HIDE DEF new
  <2>2. Linked(behind, new, raised)
    BY <2>1 DEF Linked
  <2> QED
    BY <2>2 DEF new
<1>2. ASSUME NEW m \in M, NEW to, NEW n \in Nat, n = Len(to), Linked(behind, to, raised),
             m \in Change => \E j \in 1..Len(to) : to[j] = m
      PROVE  Linked(Append(behind, m), to, raised)
  <2> DEFINE new == Append(behind, m)
  <2>1. /\ Len(behind) \in Nat /\ Len(new) = Len(behind) + 1
        /\ \A i \in 1..Len(behind) : new[i] = behind[i]
        /\ new[Len(behind) + 1] = m
        /\ \A i \in 1..Len(new) : i \in 1..Len(behind) \/ i = Len(behind) + 1
    BY AppendMessage
  <2> HIDE DEF new
  <2>2. Linked(new, to, raised)
    BY <1>2, <2>1 DEF Linked
  <2> QED
    BY <2>2 DEF new
<1>3. Len(ahead) \in Nat
  OBVIOUS
<1>4. ASSUME NEW m \in M, m \notin Change PROVE Linked(Append(behind, m), ahead, raised)
  BY <1>2, <1>3, <1>4
<1>5. ASSUME NEW m \in M \cap N PROVE Linked(Append(behind, m), Append(ahead, m), raised)
  <2> DEFINE to == Append(ahead, m)
  <2>1. Len(to) \in Nat /\ Len(to) \in 1..Len(to) /\ to[Len(to)] = m
    BY AppendProperties, <1>3
  <2>2. Linked(behind, to, raised)
    BY <1>1
  <2> HIDE DEF to
  <2>3. Linked(Append(behind, m), to, raised)
    BY <1>2, <2>1, <2>2
  <2> QED
    BY <2>3 DEF to
<1> QED
  BY <1>1, <1>4, <1>5

LEMMA LinkedTail ==
  ASSUME NEW M, NEW behind \in Seq(M), behind # <<>>, NEW ahead, NEW raised,
         Linked(behind, ahead, raised)
  PROVE  Linked(Tail(behind), ahead, raised)
<1> DEFINE new == Tail(behind)
<1>1. \A i \in 1..Len(new) : i + 1 \in 1..Len(behind) /\ new[i] = behind[i + 1]
  BY TakeMessage
<1> HIDE DEF new
<1>2. Linked(new, ahead, raised)
  BY <1>1 DEF Linked
<1> QED
  BY <1>2 DEF new

\* The query thread takes a message that the other has still to take.
LEMMA LinkedTaken ==
  ASSUME NEW N, NEW behind, NEW ahead \in Seq(N), ahead # <<>>, NEW raised \in Int,
         NEW after \in Int, raised <= after, Linked(behind, ahead, raised),
         Head(ahead) \in Change /\ Head(ahead).kind # "open" => Head(ahead).generation <= after
  PROVE  Linked(behind, Tail(ahead), after)
<1> DEFINE new == Tail(ahead)
<1>1. /\ Head(ahead) = ahead[1]
      /\ \A j \in 1..Len(ahead) : j = 1 \/ (j - 1 \in 1..Len(new) /\ new[j - 1] = ahead[j])
  BY TakeMessage
<1> HIDE DEF new
<1>2. ASSUME NEW i \in 1..Len(behind), behind[i] \in Change, behind[i].kind # "open"
      PROVE  behind[i].generation <= after \/ \E j \in 1..Len(new) : new[j] = behind[i]
  <2>1. CASE behind[i].generation <= raised
    <3>1. behind[i].generation \in Int
      BY <1>2 DEF Change
    <3> QED
      BY <2>1, <3>1
  <2>2. CASE \E j \in 1..Len(ahead) : ahead[j] = behind[i]
    BY <1>1, <1>2, <2>2
  <2> QED
    BY <1>2, <2>1, <2>2 DEF Linked
<1>3. Linked(behind, new, after)
  BY <1>2 DEF Linked
<1> QED
  BY <1>3 DEF new

LEMMA RaisedStep ==
  ASSUME ServerAssumption, ServerShaped, Queued, Tagged, QueryFresh, Raised,
         [ServerNext]_serverVars
  PROVE  Raised'
<1> DEFINE Q == Change \cup Query \cup Halt
           C == Change \cup Diagnose \cup Halt
           Consistent(v, t, w, g) ==
             \A d \in Docs : /\ v[d] > 0 => v[d] > t.closed[d]
                             /\ t.closed[d] <= g /\ w[d] <= t.watched[d]
           Pending(channel, low) ==
             \A i \in 1..Len(channel) : channel[i] \in Change => low <= channel[i].generation
<1>1. /\ toQuery \in Seq(Q) /\ toCheck \in Seq(C) /\ MainShaped /\ CheckShaped /\ QueryShaped
      /\ Ordered(toQuery, generation)
  BY DEF ServerShaped, QueuesShaped, Queued
<1>2. /\ generation \in Int /\ floor \in Int /\ mailbox.id[1] \in Int
      /\ versions \in [Docs -> Int] /\ disk \in [Docs -> Int]
      /\ touched.closed \in [Docs -> Int] /\ touched.watched \in [Docs -> Int]
      /\ floor \in 0..MaxGeneration /\ MaxGeneration \in Nat
  <2>1. generation \in Int /\ floor \in Int /\ mailbox.id[1] \in Int
    BY <1>1 DEF MainShaped, CheckShaped, QueryShaped
  <2>2. MaxGeneration \in Nat /\ MaxWrites \in Nat
    BY DEF ServerAssumption
  <2>3. /\ versions \in [Docs -> Int] /\ disk \in [Docs -> Int]
        /\ touched.closed \in [Docs -> Int] /\ touched.watched \in [Docs -> Int]
    BY <1>1, <2>2 DEF MainShaped
  <2> QED
    BY <1>1, <2>1, <2>2, <2>3 DEF QueryShaped
<1>3. /\ Consistent(versions, touched, disk, generation) /\ mailbox.id[1] <= generation
      /\ floor <= generation /\ Pending(toQuery, floor) /\ Linked(toCheck, toQuery, floor)
  BY DEF Raised
<1>4. /\ Query \cup Halt \subseteq Q /\ Diagnose \cup Halt \subseteq C
      /\ Change \subseteq Q /\ Change \subseteq C
      /\ \A m \in Query \cup Halt \cup Diagnose : m \notin Change
  BY DEF Change, Query, Diagnose, Halt
<1> HIDE DEF Q, C
<1>5. \A m \in Change : m.generation \in Int
  BY DEF Change
<1>6. ASSUME NEW m \in Q, m \in Change => floor <= m.generation
      PROVE  Pending(Append(toQuery, m), floor)
  BY <1>1, <1>3, <1>6, AppendMessage
<1>7. CASE MainStep
  <2>1. UNCHANGED <<mailbox, floor>>
    BY <1>7, ThreadsLeave DEF checkVars
  <2>2. CASE \E m : Notified(m)
    <3>1. PICK m : Notified(m)
      BY <2>2
    <3>2. /\ m \in Change /\ m.generation = generation + 1 /\ generation' = generation + 1
          /\ toQuery' = Append(toQuery, m) /\ toCheck' = Append(toCheck, m) /\ disk' = disk
          /\ \A d \in Docs : versions'[d] = IF Sets(m, d) THEN TextSet(m) ELSE versions[d]
          /\ \A d \in Docs :
               /\ touched'.closed[d] = IF m.kind = "close" /\ m.doc = d THEN generation + 1
                                                                       ELSE touched.closed[d]
               /\ touched'.watched[d] = IF m.kind = "watch" /\ m.doc = d THEN disk[d]
                                                                        ELSE touched.watched[d]
      BY <3>1 DEF Notified
    <3>3. Consistent(versions', touched', disk, generation + 1)
      <4> SUFFICES ASSUME NEW d \in Docs
                   PROVE  /\ versions'[d] > 0 => versions'[d] > touched'.closed[d]
                          /\ touched'.closed[d] <= generation + 1
                          /\ disk[d] <= touched'.watched[d]
        OBVIOUS
      <4>1. /\ versions[d] \in Int /\ touched.closed[d] \in Int /\ touched.watched[d] \in Int
            /\ disk[d] \in Int /\ disk[d] <= touched.watched[d] /\ touched.closed[d] <= generation
            /\ versions[d] > 0 => versions[d] > touched.closed[d]
        BY <1>2, <1>3
      <4>2. CASE m.kind = "open" /\ m.doc = d
        BY <1>2, <3>2, <4>1, <4>2 DEF Sets, TextSet
      <4>3. CASE m.kind = "close" /\ m.doc = d
        BY <1>2, <3>2, <4>1, <4>3 DEF Sets, TextSet
      <4>4. CASE ~(m.kind \in {"open", "close"} /\ m.doc = d)
        BY <1>2, <3>2, <4>1, <4>4 DEF Sets
      <4> QED
        BY <4>2, <4>3, <4>4
    <3>4. mailbox.id[1] <= generation + 1 /\ floor <= generation + 1
      BY <1>2, <1>3
    <3>5. Pending(toQuery', floor)
      BY <1>4, <1>6, <3>2, <3>4
    <3>6. Linked(toCheck', toQuery', floor)
      BY <1>1, <1>3, <1>4, <3>2, LinkedAppend
    <3> QED
      BY <2>1, <3>2, <3>3, <3>4, <3>5, <3>6 DEF Raised
  <2>3. CASE /\ UNCHANGED <<versions, touched>> /\ disk' \in [Docs -> -MaxWrites..0]
             /\ \A d \in Docs : disk'[d] <= disk[d]
             /\ generation' = generation \/ generation' = generation + 1
             /\ \/ toQuery' = toQuery
                \/ \E m \in Query \cup Halt : toQuery' = Append(toQuery, m)
             /\ \/ toCheck' = toCheck
                \/ \E m \in Halt : toCheck' = Append(toCheck, m)
                \/ \E m \in Diagnose : m.tag = generation /\ toCheck' = Append(toCheck, m)
    <3>0. \A d \in Docs : disk'[d] \in Int
      <4>1. MaxWrites \in Nat
        BY DEF ServerAssumption
      <4> QED
        BY <2>3, <4>1
    <3>1. Consistent(versions', touched', disk', generation')
      BY <1>2, <1>3, <2>3, <3>0
    <3>2. mailbox.id[1] <= generation' /\ floor <= generation'
      BY <1>2, <1>3, <2>3
    <3>3. Pending(toQuery', floor)
      BY <1>3, <1>4, <1>6, <2>3
    <3>4. \A m \in Q : Linked(toCheck, Append(toQuery, m), floor)
      BY <1>1, <1>3, LinkedAppend
    <3>5. toQuery' \in Seq(Q) /\ Linked(toCheck, toQuery', floor)
      <4>1. \A m \in Q : Append(toQuery, m) \in Seq(Q)
        BY <1>1
      <4> QED
        BY <1>1, <1>3, <1>4, <2>3, <3>4, <4>1, Zenon
    <3>7. \A m \in C : m \notin Change => Linked(Append(toCheck, m), toQuery', floor)
      BY <1>1, <3>5, LinkedAppend
    <3>8. Linked(toCheck', toQuery', floor)
      BY <1>4, <2>3, <3>5, <3>7
    <3>6. Linked(toCheck', toQuery', floor')
      BY <2>1, <3>8
    <3> QED
      BY <2>1, <3>1, <3>2, <3>3, <3>6 DEF Raised
  <2> QED
    BY <1>1, <1>7, <2>2, <2>3, MainSends
<1>8. CASE CheckStep
  <2>1. UNCHANGED <<versions, touched, disk, generation, toQuery, floor>>
    BY <1>8, ThreadsLeave DEF mainVars, queryVars
  <2>2. mailbox'.id[1] <= generation
    BY <1>1, <1>3, <1>8, PublishEffect DEF Tagged
  <2>3. toCheck # <<>> => Linked(Tail(toCheck), toQuery, floor)
    BY <1>1, <1>3, LinkedTail
  <2>4. CheckChange => toCheck' = Tail(toCheck)
    BY DEF CheckChange
  <2>5. Linked(toCheck', toQuery, floor)
    BY <1>3, <1>8, <2>3, <2>4, CheckTakes
  <2> QED
    BY <1>3, <2>1, <2>2, <2>5 DEF Raised
<1>9. CASE QueryStep
  <2>1. UNCHANGED <<versions, touched, disk, generation, toCheck, mailbox>>
    BY <1>9, ThreadsLeave DEF mainVars, checkVars
  <2>2. floor' <= generation /\ Pending(toQuery', floor') /\ Linked(toCheck, toQuery', floor')
    <3>1. CASE /\ toQuery # <<>> /\ Head(toQuery) \in Change
               /\ toQuery' = Tail(toQuery) /\ floor' = RaisedFloor(Head(toQuery))
      <4> DEFINE m == Head(toQuery)
      <4>1. /\ m = toQuery[1] /\ 1 \in 1..Len(toQuery)
            /\ \A i \in 1..Len(toQuery') :
                 i + 1 \in 1..Len(toQuery) /\ toQuery'[i] = toQuery[i + 1] /\ 1 < i + 1
        BY <1>1, <3>1, TakeMessage
      <4>2. /\ m \in Change /\ m.generation \in Int /\ floor <= m.generation
            /\ m.generation <= generation
        BY <1>1, <1>3, <1>5, <3>1, <4>1 DEF Ordered
      <4>3. /\ floor' \in Int /\ floor <= floor' /\ floor' <= m.generation /\ floor' <= generation
            /\ m.kind # "open" => m.generation <= floor'
        BY <1>2, <3>1, <4>2 DEF RaisedFloor, Change
      <4>4. \A i \in 1..Len(toQuery') : toQuery'[i] \in Change =>
              m.generation < toQuery'[i].generation
        BY <1>1, <4>1, <4>2 DEF Ordered
      <4>5. Pending(toQuery', floor')
        <5> SUFFICES ASSUME NEW i \in 1..Len(toQuery'), toQuery'[i] \in Change
                     PROVE  floor' <= toQuery'[i].generation
          OBVIOUS
        <5> QED
          BY <1>5, <4>2, <4>3, <4>4
      <4>6. Linked(toCheck, toQuery', floor')
        BY <1>1, <1>2, <1>3, <3>1, <4>3, LinkedTaken
      <4> QED
        BY <4>3, <4>5, <4>6
    <3>2. CASE /\ floor' = floor
               /\ \/ toQuery' = toQuery
                  \/ toQuery # <<>> /\ Head(toQuery) \notin Change /\ toQuery' = Tail(toQuery)
      <4>1. CASE toQuery' = toQuery
        BY <1>3, <3>2, <4>1
      <4>2. CASE toQuery # <<>> /\ Head(toQuery) \notin Change /\ toQuery' = Tail(toQuery)
        <5>1. \A i \in 1..Len(toQuery') : i + 1 \in 1..Len(toQuery) /\ toQuery'[i] = toQuery[i + 1]
          BY <1>1, <4>2, TakeMessage
        <5>2. Pending(toQuery', floor)
          BY <1>3, <5>1
        <5>3. floor <= floor
          BY <1>2
        <5>4. Linked(toCheck, toQuery', floor)
          BY <1>1, <1>2, <1>3, <4>2, <5>3, LinkedTaken
        <5> QED
          BY <1>3, <3>2, <5>2, <5>4
      <4> QED
        BY <3>2, <4>1, <4>2
    <3> QED
      BY <1>9, <3>1, <3>2, QueryCacheEffect
  <2> QED
    BY <1>3, <2>1, <2>2 DEF Raised
<1>10. CASE UNCHANGED serverVars
  BY <1>3, <1>10 DEF serverVars, mainVars, checkVars, queryVars, Raised
<1> QED
  BY <1>7, <1>8, <1>9, <1>10 DEF ServerNext, Finished

(***************************************************************************)
(* Compilations that are out of date.                                      *)
(***************************************************************************)
LEMMA SourceInDocs ==
  ASSUME ServerAssumption, NEW map \in Map, NEW k \in DOMAIN map
  PROVE  DOMAIN map[k].source \subseteq Docs
BY MapProperties, CompilationProperties

LEMMA RetiringSub ==
  ASSUME NEW map, NEW new, SubMap(new, map), NEW channel, NEW last
  PROVE  /\ Retiring(map, channel, last) => Retiring(new, channel, last)
         /\ \A tag, raised : RetiringAfter(map, tag, raised, channel, last) =>
                               RetiringAfter(new, tag, raised, channel, last)
BY DEF SubMap, Retiring, RetiringAfter

\* Whatever a notification makes outdated it also drops.
LEMMA RetiringAppend ==
  ASSUME ServerAssumption, NEW map \in Map, NEW M, NEW channel \in Seq(M), NEW m \in M,
         NEW last, NEW after,
         \A u \in Docs : ~Drops(m, u) => /\ after.closed[u] = last.closed[u]
                                         /\ after.watched[u] = last.watched[u]
  PROVE  /\ Retiring(map, channel, last) => Retiring(map, Append(channel, m), after)
         /\ \A tag, raised :
              RetiringAfter(map, tag, raised, channel, last)
                /\ (m.kind \in {"close", "watch"} => m.generation > tag) =>
                  RetiringAfter(map, tag, raised, Append(channel, m), after)
<1> DEFINE new == Append(channel, m)
<1>1. /\ Len(new) \in 1..Len(new) /\ new[Len(new)] = m
      /\ \A i \in 1..Len(channel) : i \in 1..Len(new) /\ new[i] = channel[i]
  BY AppendMessage
<1> HIDE DEF new
<1>2. ASSUME NEW k \in DOMAIN map, NEW u \in DOMAIN map[k].source, Outdated(map[k], u, after)
      PROVE  Drops(m, u) \/ Outdated(map[k], u, last)
  BY <1>2, SourceInDocs DEF Outdated
<1>3. ASSUME Retiring(map, channel, last) PROVE Retiring(map, new, after)
  BY <1>1, <1>2, <1>3 DEF Retiring, Dropping
<1>4. ASSUME NEW tag, NEW raised, RetiringAfter(map, tag, raised, channel, last),
             m.kind \in {"close", "watch"} => m.generation > tag
      PROVE  RetiringAfter(map, tag, raised, new, after)
  <2>1. ASSUME NEW u, Drops(m, u)
        PROVE  \E i \in 1..Len(new) : Drops(new[i], u) /\ new[i].generation > tag
    BY <1>1, <1>4, <2>1 DEF Drops
  <2>2. ASSUME NEW u, \E i \in 1..Len(channel) : Drops(channel[i], u) /\ channel[i].generation > tag
        PROVE  \E i \in 1..Len(new) : Drops(new[i], u) /\ new[i].generation > tag
    BY <1>1, <2>2
  <2> QED
    BY <1>2, <1>4, <2>1, <2>2 DEF RetiringAfter
<1> QED
  BY <1>3, <1>4 DEF new

LEMMA RetiringTail ==
  ASSUME NEW map, NEW new, SubMap(new, map), NEW M, NEW channel \in Seq(M), channel # <<>>,
         NEW last, Retiring(map, channel, last),
         \A k \in DOMAIN new : \A u \in DOMAIN new[k].source : ~Drops(Head(channel), u)
  PROVE  Retiring(new, Tail(channel), last)
<1> DEFINE rest == Tail(channel)
<1>1. /\ Head(channel) = channel[1]
      /\ \A i \in 1..Len(channel) : i = 1 \/ (i - 1 \in 1..Len(rest) /\ rest[i - 1] = channel[i])
  BY TakeMessage
<1> HIDE DEF rest
<1>2. ASSUME NEW u, Dropping(channel, u), ~Drops(Head(channel), u) PROVE Dropping(rest, u)
  BY <1>1, <1>2 DEF Dropping
<1>3. Retiring(new, rest, last)
  BY <1>2 DEF Retiring, SubMap
<1> QED
  BY <1>3 DEF rest

LEMMA RetiringAfterTail ==
  ASSUME NEW map, NEW M, NEW channel \in Seq(M), channel # <<>>, NEW last, NEW tag \in Int,
         NEW raised \in Int, NEW after \in Int, raised <= after,
         RetiringAfter(map, tag, raised, channel, last),
         Head(channel).kind \in {"close", "watch"} =>
           Head(channel).generation \in Int /\ Head(channel).generation <= after
  PROVE  RetiringAfter(map, tag, after, Tail(channel), last)
<1> DEFINE rest == Tail(channel)
<1>1. /\ Head(channel) = channel[1]
      /\ \A i \in 1..Len(channel) : i = 1 \/ (i - 1 \in 1..Len(rest) /\ rest[i - 1] = channel[i])
  BY TakeMessage
<1> HIDE DEF rest
<1>2. ASSUME NEW u, \E i \in 1..Len(channel) : Drops(channel[i], u) /\ channel[i].generation > tag
      PROVE  after > tag \/ \E i \in 1..Len(rest) : Drops(rest[i], u) /\ rest[i].generation > tag
  <2>1. PICK i \in 1..Len(channel) : Drops(channel[i], u) /\ channel[i].generation > tag
    BY <1>2
  <2>2. CASE i = 1
    BY <1>1, <2>1, <2>2 DEF Drops
  <2>3. CASE i # 1
    BY <1>1, <2>1, <2>3
  <2> QED
    BY <2>2, <2>3
<1>3. raised > tag => after > tag
  OBVIOUS
<1>4. RetiringAfter(map, tag, after, rest, last)
  BY <1>2, <1>3 DEF RetiringAfter
<1> QED
  BY <1>4 DEF rest

\* A snapshot of the checking thread's cache.
LEMMA RetiringPublished ==
  ASSUME NEW map, NEW M, NEW behind \in Seq(M), NEW ahead, NEW last, NEW tag \in Int,
         NEW raised \in Int, Retiring(map, behind, last), Newer(behind, tag),
         Linked(behind, ahead, raised),
         \A m \in M : m.kind \in {"close", "watch"} => m \in Change
  PROVE  RetiringAfter(map, tag, raised, ahead, last)
<1>1. ASSUME NEW u, Dropping(behind, u)
      PROVE  \/ raised > tag
             \/ \E i \in 1..Len(ahead) : Drops(ahead[i], u) /\ ahead[i].generation > tag
  <2>1. PICK i \in 1..Len(behind) : Drops(behind[i], u)
    BY <1>1 DEF Dropping
  <2>2. behind[i] \in M
    BY ElementOfSeq
  <2>3. behind[i] \in Change /\ behind[i].kind # "open"
    BY <2>1, <2>2 DEF Drops
  <2>4. behind[i].generation > tag /\ behind[i].generation \in Int
    BY <2>3 DEF Newer, Change
  <2>5. CASE behind[i].generation <= raised
    BY <2>4, <2>5
  <2>6. CASE \E j \in 1..Len(ahead) : ahead[j] = behind[i]
    BY <2>1, <2>4, <2>6
  <2> QED
    BY <2>3, <2>5, <2>6 DEF Linked
<1> QED
  BY <1>1 DEF Retiring, RetiringAfter

LEMMA RetiringAdopted ==
  ASSUME NEW map, NEW channel, NEW last, NEW tag \in Int, NEW raised \in Int, tag >= raised,
         RetiringAfter(map, tag, raised, channel, last)
  PROVE  Retiring(map, channel, last)
<1>1. ~(raised > tag)
  OBVIOUS
<1> QED
  BY <1>1 DEF RetiringAfter, Retiring, Dropping

LEMMA CompiledCurrent ==
  ASSUME ServerAssumption, ServerShaped, Queued, Tagged, Raised, NEW d \in Docs, CompileFor(d),
         NEW u \in Uses[d]
  PROVE  ~Outdated(Compiled(d), u, touched)
<1>1. /\ MainShaped /\ CheckShaped /\ u \in Docs /\ MaxGeneration \in Nat /\ MaxWrites \in Nat
      /\ cOpen \in [Docs -> 0..MaxGeneration] /\ disk \in [Docs -> -MaxWrites..0]
  BY DEF ServerShaped, CheckShaped, MainShaped, ServerAssumption
<1>2. checker.at = "compile" /\ generation = checker.tag
  BY <1>1, CompileForEffect
<1>3. cOpen[u] = versions[u]
  BY <1>1, <1>2, CheckerUpToDate
<1>4. Compiled(d).source[u] = IF cOpen[u] > 0 THEN versions[u] ELSE disk[u]
  BY <1>1, <1>3, CompiledIsCompilation DEF Seen
<1>5. /\ versions[u] > 0 => versions[u] > touched.closed[u]
      /\ disk[u] <= touched.watched[u]
  BY <1>1 DEF Raised
<1>6. /\ versions[u] \in Int /\ touched.closed[u] \in Int /\ touched.watched[u] \in Int
      /\ disk[u] \in Int /\ disk[u] <= 0
  BY <1>1 DEF MainShaped
<1> QED
  BY <1>3, <1>4, <1>5, <1>6 DEF Outdated

LEMMA RetiredStep ==
  ASSUME ServerAssumption, ServerShaped, Queued, Tagged, QueryFresh, Raised, Retired,
         [ServerNext]_serverVars
  PROVE  Retired'
<1> DEFINE Q == Change \cup Query \cup Halt
           C == Change \cup Diagnose \cup Halt
           Checking(channel, last) ==
             Retiring(cCache.entries, channel, last) /\ Retiring(cCache.good, channel, last)
           Querying(channel, last) ==
             Retiring(qCache.entries, channel, last) /\ Retiring(qCache.good, channel, last)
           Mailed(raised, channel, last) ==
             /\ RetiringAfter(mailbox.entries, mailbox.id[1], raised, channel, last)
             /\ RetiringAfter(mailbox.good, mailbox.id[1], raised, channel, last)
<1>1. /\ toQuery \in Seq(Q) /\ toCheck \in Seq(C) /\ MainShaped /\ CheckShaped /\ QueryShaped
      /\ cCache \in Cache /\ cCache.entries \in Map /\ cCache.good \in Map
      /\ qCache \in Cache /\ qCache.entries \in Map /\ qCache.good \in Map
      /\ mailbox.entries \in Map /\ mailbox.good \in Map /\ mailbox.id[1] \in Int
      /\ cOpen \in [Docs -> 0..MaxGeneration] /\ qOpen \in [Docs -> 0..MaxGeneration]
  <2>1. CheckShaped /\ QueryShaped /\ MainShaped /\ QueuesShaped
    BY DEF ServerShaped
  <2>2. cCache \in Cache /\ qCache \in Cache
    BY <2>1 DEF CheckShaped, QueryShaped
  <2> QED
    BY <2>1, <2>2, CacheFields DEF CheckShaped, QueryShaped, QueuesShaped
<1>2. generation \in Int /\ floor \in Int /\ MaxGeneration \in Nat
      /\ mailbox.id[1] <= generation /\ floor <= generation
  BY <1>1 DEF MainShaped, QueryShaped, ServerAssumption, Raised
<1>3. Checking(toCheck, touched) /\ Querying(toQuery, touched) /\ Mailed(floor, toQuery, touched)
  BY DEF Retired
<1>4. /\ Query \cup Halt \subseteq Q /\ Diagnose \cup Halt \subseteq C
      /\ Change \subseteq Q /\ Change \subseteq C
      /\ \A m \in Query \cup Halt \cup Diagnose : m.kind \notin {"close", "watch"}
      /\ \A m \in Q \cup C : m.kind \in {"close", "watch"} => m \in Change
  BY MessageKinds DEF Change, Query, Diagnose, Halt
<1> HIDE DEF Q, C
<1>5. \A m \in Change : m.generation \in Int
  BY DEF Change
<1>6. \A m \in Query \cup Halt \cup Diagnose : \A u : ~Drops(m, u)
  BY <1>4 DEF Drops
<1>7. ASSUME NEW m \in Q, NEW last,
             \A u \in Docs : ~Drops(m, u) => /\ last.closed[u] = touched.closed[u]
                                             /\ last.watched[u] = touched.watched[u],
             m.kind \in {"close", "watch"} => m.generation > mailbox.id[1]
      PROVE  Querying(Append(toQuery, m), last) /\ Mailed(floor, Append(toQuery, m), last)
  BY <1>1, <1>3, <1>7, RetiringAppend
<1>8. ASSUME NEW m \in C, NEW last,
             \A u \in Docs : ~Drops(m, u) => /\ last.closed[u] = touched.closed[u]
                                             /\ last.watched[u] = touched.watched[u]
      PROVE  Checking(Append(toCheck, m), last)
  BY <1>1, <1>3, <1>8, RetiringAppend
<1>9. CASE MainStep
  <2>1. UNCHANGED <<cCache, qCache, mailbox, floor>>
    BY <1>9, ThreadsLeave DEF checkVars
  <2>2. /\ Checking(toCheck', touched') /\ Querying(toQuery', touched')
        /\ Mailed(floor, toQuery', touched')
    <3>1. ASSUME NEW m, Notified(m) PROVE <2>2
      <4>1. /\ m \in Change /\ m.generation = generation + 1
            /\ toQuery' = Append(toQuery, m) /\ toCheck' = Append(toCheck, m)
            /\ \A u \in Docs :
                 /\ touched'.closed[u] = IF m.kind = "close" /\ m.doc = u THEN generation + 1
                                                                         ELSE touched.closed[u]
                 /\ touched'.watched[u] = IF m.kind = "watch" /\ m.doc = u THEN disk[u]
                                                                          ELSE touched.watched[u]
        BY <3>1 DEF Notified
      <4>2. \A u \in Docs : ~Drops(m, u) => /\ touched'.closed[u] = touched.closed[u]
                                            /\ touched'.watched[u] = touched.watched[u]
        BY <4>1 DEF Drops
      <4>3. m \in Q /\ m \in C /\ m.generation > mailbox.id[1]
        BY <1>1, <1>2, <1>4, <4>1
      <4> HIDE DEF Checking, Querying, Mailed
      <4> QED
        BY <1>7, <1>8, <4>1, <4>2, <4>3
    <3>2. CASE /\ UNCHANGED touched
               /\ \/ toQuery' = toQuery
                  \/ \E m \in Query \cup Halt : toQuery' = Append(toQuery, m)
               /\ \/ toCheck' = toCheck
                  \/ \E m \in Halt : toCheck' = Append(toCheck, m)
                  \/ \E m \in Diagnose : m.tag = generation /\ toCheck' = Append(toCheck, m)
      <4> HIDE DEF Checking, Querying, Mailed
      <4>1. \A m \in Query \cup Halt : /\ Querying(Append(toQuery, m), touched)
                                       /\ Mailed(floor, Append(toQuery, m), touched)
        BY <1>4, <1>7
      <4>2. \A m \in Diagnose \cup Halt : Checking(Append(toCheck, m), touched)
        BY <1>4, <1>8
      <4> QED
        BY <1>3, <3>2, <4>1, <4>2
    <3> HIDE DEF Checking, Querying, Mailed
    <3> QED
      BY <1>1, <1>9, <3>1, <3>2, MainSends
  <2> QED
    BY <2>1, <2>2 DEF Retired
<1>10. CASE CheckStep
  <2>1. UNCHANGED <<touched, toQuery, floor, qCache>>
    BY <1>10, ThreadsLeave DEF mainVars, queryVars
  <2>2. Mailed(floor, toQuery, touched)'
    <3>1. CASE mailbox' = mailbox
      BY <1>3, <2>1, <3>1
    <3>2. CASE /\ checker.at \notin {"idle", "done"} /\ mailbox'.id[1] = checker.tag
               /\ mailbox'.entries = cCache.entries /\ mailbox'.good = cCache.good
      <4>1. Newer(toCheck, checker.tag) /\ checker.tag \in Int
        BY <1>1, <3>2 DEF Tagged, CheckShaped
      <4>2. Linked(toCheck, toQuery, floor)
        BY DEF Raised
      <4>3. /\ RetiringAfter(cCache.entries, checker.tag, floor, toQuery, touched)
            /\ RetiringAfter(cCache.good, checker.tag, floor, toQuery, touched)
        BY <1>1, <1>2, <1>3, <1>4, <4>1, <4>2, RetiringPublished
      <4> QED
        BY <2>1, <3>2, <4>3
    <3> QED
      BY <1>1, <1>10, <3>1, <3>2, PublishEffect
  <2>3. Checking(toCheck, touched)'
    <3>1. CASE CheckChange /\ toCheck # <<>> /\ Head(toCheck) \in Change
      <4> DEFINE m == Head(toCheck)
      <4>1. cCache' = Applied(cCache, cOpen, m).cache /\ toCheck' = Tail(toCheck)
        BY <3>1, Zenon DEF CheckChange
      <4>2. /\ SubMap(cCache'.entries, cCache.entries) /\ SubMap(cCache'.good, cCache.good)
            /\ \A k \in DOMAIN cCache'.entries :
                 \A u \in DOMAIN cCache'.entries[k].source : ~Drops(m, u)
            /\ \A k \in DOMAIN cCache'.good : \A u \in DOMAIN cCache'.good[k].source : ~Drops(m, u)
        BY <1>1, <3>1, <4>1, AppliedCache
      <4>3. Retiring(cCache'.entries, Tail(toCheck), touched)
        BY <1>1, <1>3, <3>1, <4>2, RetiringTail
      <4>4. Retiring(cCache'.good, Tail(toCheck), touched)
        BY <1>1, <1>3, <3>1, <4>2, RetiringTail
      <4> QED
        BY <2>1, <4>1, <4>3, <4>4
    <3>2. ASSUME NEW d \in Docs, CompileFor(d) PROVE Checking(toCheck, touched)'
      <4> DEFINE new == Compiled(d)
      <4>1. /\ toCheck' = toCheck
            /\ \A k \in DOMAIN cCache'.entries :
                 \/ cCache'.entries[k] = new
                 \/ k \in DOMAIN cCache.entries /\ cCache'.entries[k] = cCache.entries[k]
            /\ \A k \in DOMAIN cCache'.good :
                 \/ cCache'.good[k] = new
                 \/ k \in DOMAIN cCache.good /\ cCache'.good[k] = cCache.good[k]
        BY <1>1, <3>2, CompileForEffect
      <4>2. \A u \in DOMAIN new.source : ~Outdated(new, u, touched)
        BY <1>1, <3>2, CompiledCurrent, CompiledIsCompilation
      <4> HIDE DEF new
      <4>3. Retiring(cCache'.entries, toCheck, touched)
        BY <1>3, <4>1, <4>2 DEF Retiring
      <4>4. Retiring(cCache'.good, toCheck, touched)
        BY <1>3, <4>1, <4>2 DEF Retiring
      <4> QED
        BY <2>1, <4>1, <4>3, <4>4
    <3>3. CASE ~CheckChange /\ ~(\E d \in Docs : CompileFor(d))
      <4>1. cCache' = cCache
        BY <1>10, <3>3 DEF CheckStep, DeferDiagnostics, CheckDiagnostics, CheckStop, GiveUp,
                           PublishEarly, CompileCancelled, PublishFinal, SendDiagnostics
      <4>2. /\ SubMap(cCache.entries, cCache.entries) /\ SubMap(cCache.good, cCache.good)
        BY <1>1, MapProperties
      <4>3. \/ toCheck' = toCheck
            \/ toCheck # <<>> /\ Head(toCheck) \notin Change /\ toCheck' = Tail(toCheck)
        BY <1>10, <3>3, CheckTakes
      <4>4. CASE toCheck' = toCheck
        BY <1>3, <2>1, <4>1, <4>4
      <4>5. CASE toCheck # <<>> /\ Head(toCheck) \notin Change /\ toCheck' = Tail(toCheck)
        <5>1. \A u : ~Drops(Head(toCheck), u)
          BY <1>1, <1>4, <4>5, TakeMessage DEF Drops
        <5>2. /\ Retiring(cCache.entries, Tail(toCheck), touched)
              /\ Retiring(cCache.good, Tail(toCheck), touched)
          BY <1>1, <1>3, <4>2, <4>5, <5>1, RetiringTail
        <5> QED
          BY <2>1, <4>1, <4>5, <5>2
      <4> QED
        BY <4>3, <4>4, <4>5
    <3>4. CheckChange => CheckChange /\ toCheck # <<>> /\ Head(toCheck) \in Change
      <4>1. toCheck # <<>> => Head(toCheck) \in C
        BY <1>1
      <4> QED
        BY <4>1, MessageKinds DEF CheckChange, C
    <3> QED
      BY <3>1, <3>2, <3>3, <3>4
  <2> QED
    BY <1>3, <2>1, <2>2, <2>3 DEF Retired
<1>11. CASE QueryStep
  <2>1. UNCHANGED <<touched, toCheck, cCache, mailbox>>
    BY <1>11, ThreadsLeave DEF mainVars, checkVars
  <2>2. Querying(toQuery, touched)' /\ Mailed(floor, toQuery, touched)'
    <3>1. CASE /\ toQuery # <<>> /\ Head(toQuery) \in Change
               /\ qCache' = Applied(qCache, qOpen, Head(toQuery)).cache
               /\ toQuery' = Tail(toQuery) /\ floor' = RaisedFloor(Head(toQuery))
      <4> DEFINE m == Head(toQuery)
      <4>1. /\ SubMap(qCache'.entries, qCache.entries) /\ SubMap(qCache'.good, qCache.good)
            /\ \A k \in DOMAIN qCache'.entries :
                 \A u \in DOMAIN qCache'.entries[k].source : ~Drops(m, u)
            /\ \A k \in DOMAIN qCache'.good : \A u \in DOMAIN qCache'.good[k].source : ~Drops(m, u)
        BY <1>1, <3>1, AppliedCache
      <4>2. Retiring(qCache'.entries, Tail(toQuery), touched)
        BY <1>1, <1>3, <3>1, <4>1, RetiringTail
      <4>3. Retiring(qCache'.good, Tail(toQuery), touched)
        BY <1>1, <1>3, <3>1, <4>1, RetiringTail
      <4>4. m = toQuery[1] /\ 1 \in 1..Len(toQuery)
        BY <1>1, <3>1, TakeMessage
      <4>5. m.generation \in Int /\ floor <= m.generation
        BY <1>5, <3>1, <4>4 DEF Raised
      <4>6. /\ floor' \in Int /\ floor <= floor'
            /\ m.kind \in {"close", "watch"} => m.generation \in Int /\ m.generation <= floor'
        BY <1>2, <3>1, <4>5 DEF RaisedFloor
      <4>7. /\ RetiringAfter(mailbox.entries, mailbox.id[1], floor', Tail(toQuery), touched)
            /\ RetiringAfter(mailbox.good, mailbox.id[1], floor', Tail(toQuery), touched)
        BY <1>1, <1>2, <1>3, <3>1, <4>6, RetiringAfterTail
      <4> QED
        BY <2>1, <3>1, <4>2, <4>3, <4>7
    <3>2. CASE /\ floor' = floor
               /\ \/ toQuery' = toQuery
                  \/ toQuery # <<>> /\ Head(toQuery) \notin Change /\ toQuery' = Tail(toQuery)
               /\ \/ Adopted
                  \/ qCache'.entries = qCache.entries /\ qCache'.good = qCache.good
      <4>1. \E e \in Map, g \in Map :
              /\ SubMap(qCache'.entries, e) /\ SubMap(qCache'.good, g)
              /\ Retiring(e, toQuery, touched) /\ Retiring(g, toQuery, touched)
        <5>1. CASE Adopted
          <6>1. mailbox.id[1] >= floor
            BY <5>1 DEF Adopted
          <6>2. /\ Retiring(mailbox.entries, toQuery, touched)
                /\ Retiring(mailbox.good, toQuery, touched)
            BY <1>1, <1>2, <1>3, <6>1, RetiringAdopted
          <6> QED
            BY <1>1, <5>1, <6>2 DEF Adopted
        <5>2. CASE qCache'.entries = qCache.entries /\ qCache'.good = qCache.good
          BY <1>1, <1>3, <5>2, MapProperties
        <5> QED
          BY <3>2, <5>1, <5>2
      <4>2. Retiring(qCache'.entries, toQuery, touched) /\ Retiring(qCache'.good, toQuery, touched)
        BY <4>1, RetiringSub
      <4>3. CASE toQuery' = toQuery
        BY <1>3, <2>1, <3>2, <4>2, <4>3
      <4>4. CASE toQuery # <<>> /\ Head(toQuery) \notin Change /\ toQuery' = Tail(toQuery)
        <5>1. Head(toQuery).kind \notin {"close", "watch"} /\ \A u : ~Drops(Head(toQuery), u)
          BY <1>1, <1>4, <4>4, TakeMessage DEF Drops
        <5>2. SubMap(qCache'.entries, qCache'.entries) /\ SubMap(qCache'.good, qCache'.good)
          BY <4>1 DEF SubMap
        <5>3. Retiring(qCache'.entries, Tail(toQuery), touched)
          BY <1>1, <4>2, <4>4, <5>1, <5>2, RetiringTail
        <5>4. Retiring(qCache'.good, Tail(toQuery), touched)
          BY <1>1, <4>2, <4>4, <5>1, <5>2, RetiringTail
        <5>5. floor <= floor
          BY <1>2
        <5>6. /\ RetiringAfter(mailbox.entries, mailbox.id[1], floor, Tail(toQuery), touched)
              /\ RetiringAfter(mailbox.good, mailbox.id[1], floor, Tail(toQuery), touched)
          BY <1>1, <1>2, <1>3, <4>4, <5>1, <5>5, RetiringAfterTail
        <5> QED
          BY <2>1, <3>2, <4>4, <5>3, <5>4, <5>6
      <4> QED
        BY <3>2, <4>3, <4>4
    <3> QED
      BY <1>11, <3>1, <3>2, QueryCacheEffect
  <2> QED
    BY <1>3, <2>1, <2>2 DEF Retired
<1>12. CASE UNCHANGED serverVars
  BY <1>3, <1>12 DEF serverVars, mainVars, checkVars, queryVars, Retired
<1> QED
  BY <1>9, <1>10, <1>11, <1>12 DEF ServerNext, Finished

(***************************************************************************)
(* A request is answered once by its first response.                       *)
(***************************************************************************)
LEMMA FirstResponse ==
  ASSUME NEW S, NEW s \in Seq(S), NEW a
  PROVE  /\ s = <<>> => Append(s, a)[1] = a
         /\ s # <<>> => Append(s, a)[1] = s[1]
<1>1. s \in Seq(S \cup {a}) /\ a \in S \cup {a}
  OBVIOUS
<1>2. /\ Append(s, a)[Len(s) + 1] = a
      /\ \A i \in 1..Len(s) : Append(s, a)[i] = s[i]
  BY <1>1, AppendProperties
<1>3. (s = <<>> <=> Len(s) = 0) /\ Len(s) \in Nat
  BY EmptySeq, LenProperties
<1> QED
  BY <1>2, <1>3

\* A request that has been answered stays so; a new answer is computed by
\* FinishAnswer for a request that is still current.
LEMMA AnsweredStep ==
  ASSUME ServerAssumption, ServerShaped, [ServerNext]_serverVars, NEW r \in Requests,
         Answered(r)'
  PROVE  \/ Answered(r) /\ sent'[r] = sent[r] /\ answers'[r][1] = answers[r][1]
         \/ /\ query.at = "answering" /\ r = query.request /\ Current(r) /\ sent' = sent
            /\ answers'[r][1] \in Answers(sent[r].doc, sent[r].kind)
            /\ answers'[r][1].kind = "ok"
<1>1. /\ answers \in [Requests -> Seq(Response)] /\ (sent[r] = Unsent => answers[r] = <<>>)
      /\ sent \in [Requests -> {Unsent} \cup SentRequest \cup RefusedRequest]
      /\ query.at = "answering" => query.request \in Requests
      /\ answers'[r] # <<>> /\ answers'[r][1].kind = "ok"
  BY DEF ServerShaped, QueryShaped, MainShaped, Answered
<1>2. CASE answers'[r] = answers[r]
  <2>1. answers[r] # <<>> /\ sent[r] # Unsent /\ Answered(r)
    BY <1>1, <1>2 DEF Answered
  <2>2. sent'[r] = sent[r]
    <3>1. CASE MainStep
      <4>1. \A q \in Requests, d \in Asked, kind \in Kinds :
              Request(q, d, kind) => sent'[r] = sent[r]
        BY <1>1, <2>1 DEF Request
      <4>2. \A q \in Requests : Refuse(q) \/ Cancel(q) => sent'[r] = sent[r]
        BY <1>1, <2>1 DEF Refuse, Cancel, mainVars
      <4>3. (\E m : Notified(m)) \/ (\E d \in Watched : WriteFile(d)) \/ Debounced \/ Shutdown
              \/ Stop => sent' = sent
        BY DEF Notified, WriteFile, Debounced, Shutdown, Stop
      <4>4. MainShaped
        BY DEF ServerShaped
      <4> QED
        BY <3>1, <4>1, <4>2, <4>3, <4>4, MainCases
    <3>2. CASE CheckStep \/ QueryStep \/ UNCHANGED serverVars
      BY <3>2, ThreadsLeave DEF mainVars, serverVars
    <3> QED
      BY <3>1, <3>2 DEF ServerNext, Finished
  <2> QED
    BY <1>2, <2>1, <2>2
<1>3. CASE answers'[r] # answers[r]
  <2>1. ASSUME NEW q \in Requests, NEW a, answers' = [answers EXCEPT ![q] = Append(@, a)]
        PROVE  \/ r = q /\ answers'[r][1] = a /\ answers[r] = <<>>
               \/ r = q /\ answers[r] # <<>> /\ answers'[r][1] = answers[r][1]
    <3>1. r = q /\ answers'[r] = Append(answers[r], a)
      BY <1>1, <1>3, <2>1
    <3> DEFINE s == answers[r]
    <3>2. s \in Seq(Response)
      BY <1>1
    <3> HIDE DEF s
    <3>3. /\ s = <<>> => Append(s, a)[1] = a
          /\ s # <<>> => Append(s, a)[1] = s[1]
      BY <3>2, FirstResponse
    <3> QED
      BY <3>1, <3>3 DEF s
  <2>2. CASE MainStep
    <3>1. PICK q \in Requests : Refuse(q)
      <4>1. MainShaped
        BY DEF ServerShaped
      <4>2. ~((\E m : Notified(m)) \/ (\E d \in Watched : WriteFile(d))
               \/ (\E q \in Requests, d \in Asked, kind \in Kinds : Request(q, d, kind))
               \/ (\E q \in Requests : Cancel(q)) \/ Debounced \/ Shutdown \/ Stop)
        BY <1>3 DEF Notified, WriteFile, Request, Cancel, Debounced, Shutdown, Stop, queryVars
      <4> QED
        BY <2>2, <4>1, <4>2, MainCases
    <3>2. sent[q] = Unsent /\ answers' = [answers EXCEPT ![q] = Append(@, [kind |-> "invalid"])]
      BY <3>1 DEF Refuse
    <3>3. answers[r] = <<>> /\ answers'[r][1] = [kind |-> "invalid"]
      BY <1>1, <2>1, <3>2
    <3> QED
      BY <1>1, <3>3
  <2>3. CASE QueryStep
    <3>1. sent' = sent
      BY <2>3, ThreadsLeave DEF mainVars
    <3>2. ASSUME NEW q \in Requests, NEW a, answers' = [answers EXCEPT ![q] = Append(@, a)],
                 a.kind # "ok"
          PROVE  Answered(r) /\ sent'[r] = sent[r] /\ answers'[r][1] = answers[r][1]
      BY <1>1, <2>1, <3>1, <3>2 DEF Answered
    <3>3. CASE QueryRequest
      <4>1. Head(toQuery).request \in Requests
        <5>1. toQuery # <<>> /\ Head(toQuery).kind = "request"
          BY <3>3 DEF QueryRequest
        <5>2. Head(toQuery) \in Query
          BY <5>1, MessageKinds DEF ServerShaped, QueuesShaped
        <5> QED
          BY <5>2 DEF Query
      <4>2. \E a : /\ answers' = [answers EXCEPT ![Head(toQuery).request] = Append(@, a)]
                   /\ a.kind # "ok"
        <5>1. answers' # answers
          BY <1>3
        <5>2. \E a \in {[kind |-> "cancelled"], [kind |-> "modified"]} :
                answers' = [answers EXCEPT ![Head(toQuery).request] = Append(@, a)]
          BY <3>3, <5>1, Zenon DEF QueryRequest, Respond
        <5>3. \A a \in {[kind |-> "cancelled"], [kind |-> "modified"]} : a.kind # "ok"
          OBVIOUS
        <5> QED
          BY <5>2, <5>3, Zenon
      <4> QED
        BY <3>2, <4>1, <4>2
    <3>4. CASE FinishAnswer
      <4> DEFINE q == query.request
      <4>1. query.at = "answering" /\ q \in Requests
        BY <1>1, <3>4 DEF FinishAnswer
      <4>2. \/ \E a : answers' = [answers EXCEPT ![q] = Append(@, a)] /\ a.kind # "ok"
            \/ /\ Current(q)
               /\ \E a \in Answers(sent[q].doc, sent[q].kind) :
                    answers' = [answers EXCEPT ![q] = Append(@, a)]
        BY <3>4 DEF FinishAnswer, Respond
      <4>3. CASE \E a : answers' = [answers EXCEPT ![q] = Append(@, a)] /\ a.kind # "ok"
        BY <3>2, <4>1, <4>3
      <4>4. CASE /\ Current(q)
                 /\ \E a \in Answers(sent[q].doc, sent[q].kind) :
                      answers' = [answers EXCEPT ![q] = Append(@, a)]
        <5>1. PICK a \in Answers(sent[q].doc, sent[q].kind) :
                     answers' = [answers EXCEPT ![q] = Append(@, a)]
          BY <4>4
        <5> HIDE DEF q
        <5>2. \/ r = q /\ answers'[r][1] = a /\ answers[r] = <<>>
              \/ r = q /\ answers[r] # <<>> /\ answers'[r][1] = answers[r][1]
          BY <2>1, <4>1, <5>1
        <5>3. CASE r = q /\ answers'[r][1] = a
          BY <1>1, <3>1, <4>1, <4>4, <5>1, <5>3 DEF q
        <5>4. CASE answers[r] # <<>> /\ answers'[r][1] = answers[r][1]
          BY <1>1, <3>1, <5>4 DEF Answered
        <5> QED
          BY <5>2, <5>3, <5>4
      <4> QED
        BY <4>2, <4>3, <4>4
    <3> QED
      BY <1>3, <2>3, <3>3, <3>4 DEF QueryStep, QueryChange, QueryStop, restOfQuery
  <2>4. ~CheckStep /\ ~UNCHANGED serverVars
    BY <1>3, ThreadsLeave DEF queryVars, serverVars
  <2> QED
    BY <2>2, <2>3, <2>4 DEF ServerNext, Finished
<1> QED
  BY <1>2, <1>3

(***************************************************************************)
(* What an answer of a current request rests on.                           *)
(***************************************************************************)
LEMMA AnswerSound ==
  ASSUME ServerAssumption, ServerShaped, Queued, QueryFresh, Asking, Retired,
         query.at = "answering", NEW r, r = query.request, Current(r),
         NEW a \in Answers(sent[r].doc, sent[r].kind), a.kind = "ok"
  PROVE  /\ sent[r].kind = "rename" =>
              \A u \in DOMAIN a.from.source :
                sent[r].texts[u] > 0 => a.from.source[u] = sent[r].texts[u]
         /\ \A u \in DOMAIN a.from.source :
              IF a.from.source[u] > 0 THEN a.from.source[u] > sent[r].closed[u]
                                      ELSE a.from.source[u] <= sent[r].watched[u]
<1> DEFINE Q == Change \cup Query \cup Halt
           c == a.from
<1>1. /\ toQuery \in Seq(Q) /\ MainShaped /\ r \in Requests /\ sent[r] \in SentRequest
      /\ generation \in Int /\ qCache \in Cache
      /\ Ordered(toQuery, generation) /\ Follows(toQuery, qOpen, versions)
  BY DEF ServerShaped, QueuesShaped, MainShaped, QueryShaped, Queued
<1>2. generation = sent[r].generation
  BY DEF Current, WorkIsCurrent
<1>3. /\ sent[r].texts = versions /\ sent[r].closed = touched.closed
      /\ sent[r].watched = touched.watched /\ Newer(toQuery, generation)
  BY <1>1, <1>2 DEF Asking
<1>4. \A m \in Q : m.kind \in {"open", "close", "watch"} => m \in Change
  BY MessageKinds
<1> HIDE DEF Q
<1>5. (\A d \in Docs : qOpen[d] = versions[d]) /\ \A d : ~Dropping(toQuery, d)
  BY <1>1, <1>3, <1>4, UpToDate
<1>6. \E kind \in {"entries", "good"} : /\ sent[r].kind = "rename" => kind = "entries"
                                       /\ c \in Range(qCache[kind])
  <2> DEFINE d == sent[r].doc
             fresh == Lookup(qCache.entries, d)
             used  == IF fresh = {} /\ sent[r].kind = "hover" THEN Lookup(qCache.good, d) ELSE fresh
  <2>1. Answers(d, sent[r].kind) =
          IF used = {} THEN {[kind |-> "null"]} ELSE {[kind |-> "ok", from |-> e] : e \in used}
    BY Zenon DEF Answers
  <2>2. \A map : Lookup(map, d) \subseteq Range(map)
    BY DEF Lookup, Range
  <2>3. fresh \subseteq Range(qCache.entries) /\ Lookup(qCache.good, d) \subseteq Range(qCache.good)
    BY <2>2
  <2>4. used = fresh \/ (sent[r].kind = "hover" /\ used = Lookup(qCache.good, d))
    OBVIOUS
  <2> HIDE DEF used, fresh
  <2>5. c \in used
    BY <2>1
  <2> QED
    BY <2>3, <2>4, <2>5
<1>7. ASSUME NEW map \in Map, c \in Range(map)
      PROVE  c \in Compilation /\ \E k \in DOMAIN map : c = map[k]
  BY <1>7, MapProperties DEF Range
<1>8. qCache.entries \in Map /\ qCache.good \in Map
  BY <1>1, CacheFields
<1>9. c \in Compilation
  BY <1>6, <1>7, <1>8
<1>10. /\ DOMAIN c.source \subseteq Docs /\ DOMAIN c.source = Uses[c.root]
       /\ c.source \in [Uses[c.root] -> Text]
  BY <1>9, CompilationProperties
<1>11. ASSUME NEW u \in DOMAIN c.source
       PROVE  ~Outdated(c, u, touched)
  <2>1. /\ Retiring(qCache.entries, toQuery, touched) /\ Retiring(qCache.good, toQuery, touched)
    BY DEF Retired
  <2>2. PICK kind \in {"entries", "good"} : c \in Range(qCache[kind])
    BY <1>6
  <2>3. qCache[kind] \in Map /\ Retiring(qCache[kind], toQuery, touched)
    BY <1>8, <2>1
  <2>4. PICK k \in DOMAIN qCache[kind] : c = qCache[kind][k]
    BY <1>7, <2>2, <2>3
  <2> QED
    BY <1>5, <1>11, <2>3, <2>4 DEF Retiring
<1>12. ASSUME NEW u \in DOMAIN c.source
       PROVE  IF c.source[u] > 0 THEN c.source[u] > sent[r].closed[u]
                                 ELSE c.source[u] <= sent[r].watched[u]
  <2>1. c.source[u] \in Int
    <3>1. MaxGeneration \in Nat /\ MaxWrites \in Nat
      BY DEF ServerAssumption
    <3>2. c.source[u] \in Text
      BY <1>10
    <3> QED
      BY <3>1, <3>2 DEF Text
  <2>2. touched.closed[u] \in Int /\ touched.watched[u] \in Int
    <3>1. u \in Docs /\ MaxGeneration \in Nat /\ MaxWrites \in Nat
      BY <1>10 DEF ServerAssumption
    <3> QED
      BY <1>1, <3>1 DEF MainShaped
  <2>3. IF c.source[u] > 0 THEN ~(c.source[u] <= touched.closed[u])
                           ELSE ~(c.source[u] > touched.watched[u])
    BY <1>11 DEF Outdated
  <2> QED
    BY <1>3, <2>1, <2>2, <2>3
<1>13. ASSUME sent[r].kind = "rename", NEW u \in DOMAIN c.source, sent[r].texts[u] > 0
       PROVE  c.source[u] = sent[r].texts[u]
  <2>1. c \in Range(qCache.entries)
    BY <1>6, <1>13
  <2>2. PICK k \in DOMAIN qCache.entries : c = qCache.entries[k]
    BY <1>7, <1>8, <2>1
  <2>3. SawOpen(c, qOpen)
    BY <2>2 DEF QueryFresh
  <2>4. u \in Docs /\ qOpen[u] = sent[r].texts[u]
    BY <1>3, <1>5, <1>10
  <2> QED
    BY <1>13, <2>3, <2>4 DEF SawOpen
<1> QED
  BY <1>12, <1>13
-----------------------------------------------------------------------------
(***************************************************************************)
(* The invariant.                                                          *)
(***************************************************************************)
ServerInv ==
  /\ ServerShaped
  /\ Queued /\ Tagged
  /\ CheckerFresh /\ Collected /\ Displayed
  /\ QueryFresh /\ Asking
  /\ Raised /\ Retired
  /\ EditsCurrentText /\ NothingResurrected

LEMMA ServerInitInv ==
  ASSUME ServerAssumption, ServerInit
  PROVE  ServerInv
<1> USE DEF ServerInit
<1>1. MaxGeneration \in Nat /\ MaxWrites \in Nat /\ RecentLimit \in Nat
  BY DEF ServerAssumption, RecentLimitAssumption
<1>2. \A S : <<>> \in Seq(S) /\ Len(<<>>) = 0 /\ 1..Len(<<>>) = {}
  BY EmptySeq
<1>3. <<>> \in Map /\ DOMAIN <<>> = {}
  <2>1. <<>> = [k \in {} |-> <<>>] /\ DOMAIN <<>> = {}
    BY <1>2
  <2>2. <<>> \in [{} -> Compilation]
    BY <2>1
  <2> QED
    BY <2>1, <2>2 DEF Map
<1>4. /\ EmptyCache \in Cache /\ EmptyCache.entries = <<>> /\ EmptyCache.good = <<>>
      /\ Len(EmptyCache.recent) <= RecentLimit
  BY <1>1, <1>2, <1>3 DEF EmptyCache, Cache
<1>5. MainShaped
  BY <1>1 DEF MainShaped, Unsent
<1>6. QueuesShaped
  BY <1>2 DEF QueuesShaped
<1>7. mailbox.id[1] = -1 /\ mailbox.entries = <<>> /\ mailbox.good = <<>>
      /\ mailbox \in [id : Int \X Int, entries : Map, good : Map]
  BY <1>3 DEF NoSnapshot
<1>8. CheckShaped
  BY <1>1, <1>4, <1>7 DEF CheckShaped, NoTag
<1>9. QueryShaped
  BY <1>1, <1>2, <1>4 DEF QueryShaped
<1>10. Queued
  BY <1>2 DEF Queued, Ordered, Follows, Sets
<1>11. Tagged
  BY <1>1, <1>2 DEF Tagged, Dated, NoTag
<1>12. CheckerFresh
  BY <1>3, <1>4 DEF CheckerFresh
<1>13. Collected
  BY DEF Collected
<1>14. Displayed
  BY DEF Displayed, NoTag
<1>15. QueryFresh
  BY <1>3, <1>4, <1>7 DEF QueryFresh, Agreed
<1>16. Asking
  BY <1>2 DEF Asking, SentBefore, SentRequest, Unsent, NoTag
<1>17. Raised
  BY <1>1, <1>2, <1>7 DEF Raised, Linked
<1>18. Retired
  BY <1>3, <1>4, <1>7 DEF Retired, Retiring, RetiringAfter
<1>19. \A r \in Requests : ~Answered(r)
  BY DEF Answered
<1>20. EditsCurrentText /\ NothingResurrected
  BY <1>19 DEF EditsCurrentText, NothingResurrected
<1> QED
  BY <1>5, <1>6, <1>8, <1>9, <1>10, <1>11, <1>12, <1>13, <1>14, <1>15, <1>16, <1>17, <1>18,
     <1>20 DEF ServerInv, ServerShaped

LEMMA AnswersStep ==
  ASSUME ServerAssumption, ServerInv, [ServerNext]_serverVars
  PROVE  EditsCurrentText' /\ NothingResurrected'
<1>1. /\ ServerShaped /\ Queued /\ QueryFresh /\ Asking /\ Retired
      /\ EditsCurrentText /\ NothingResurrected
  BY DEF ServerInv
<1>2. ASSUME NEW r \in Requests, Answered(r)'
      PROVE  /\ sent'[r].kind = "rename" =>
                  \A u \in DOMAIN answers'[r][1].from.source :
                    sent'[r].texts[u] > 0 => answers'[r][1].from.source[u] = sent'[r].texts[u]
             /\ \A u \in DOMAIN answers'[r][1].from.source :
                  IF answers'[r][1].from.source[u] > 0
                  THEN answers'[r][1].from.source[u] > sent'[r].closed[u]
                  ELSE answers'[r][1].from.source[u] <= sent'[r].watched[u]
  <2>1. CASE Answered(r) /\ sent'[r] = sent[r] /\ answers'[r][1] = answers[r][1]
    BY <1>1, <2>1 DEF EditsCurrentText, NothingResurrected
  <2>2. CASE /\ query.at = "answering" /\ r = query.request /\ Current(r) /\ sent' = sent
             /\ answers'[r][1] \in Answers(sent[r].doc, sent[r].kind)
             /\ answers'[r][1].kind = "ok"
    <3> DEFINE a == answers'[r][1]
    <3>1. a \in Answers(sent[r].doc, sent[r].kind) /\ a.kind = "ok"
      BY <2>2
    <3> HIDE DEF a
    <3>2. /\ sent[r].kind = "rename" =>
               \A u \in DOMAIN a.from.source :
                 sent[r].texts[u] > 0 => a.from.source[u] = sent[r].texts[u]
          /\ \A u \in DOMAIN a.from.source :
               IF a.from.source[u] > 0 THEN a.from.source[u] > sent[r].closed[u]
                                       ELSE a.from.source[u] <= sent[r].watched[u]
      BY <1>1, <2>2, <3>1, AnswerSound
    <3> QED
      BY <2>2, <3>2 DEF a
  <2> QED
    BY <1>1, <1>2, <2>1, <2>2, AnsweredStep
<1> QED
  BY <1>2 DEF EditsCurrentText, NothingResurrected

LEMMA ServerStep ==
  ASSUME ServerAssumption, ServerInv, [ServerNext]_serverVars
  PROVE  ServerInv'
<1>1. /\ ServerShaped /\ Queued /\ Tagged /\ CheckerFresh /\ Collected /\ Displayed
      /\ QueryFresh /\ Asking /\ Raised /\ Retired
  BY DEF ServerInv
<1>2. ServerShaped'
  <2>1. MainShaped' /\ QueuesShaped' /\ CheckShaped'
    BY <1>1, MainShapedStep, QueuesShapedStep, CheckShapedStep
  <2>2. QueryShaped'
    BY <1>1, QueryShapedStep
  <2> QED
    BY <2>1, <2>2 DEF ServerShaped
<1>3. Queued' /\ Tagged'
  BY <1>1, QueuedStep, TaggedStep
<1>4. CheckerFresh' /\ Collected'
  BY <1>1, CheckerFreshStep, CollectedStep
<1>5. Displayed'
  BY <1>1, DisplayedStep
<1>6. QueryFresh' /\ Asking'
  BY <1>1, QueryFreshStep, AskingStep
<1>7. Raised' /\ Retired'
  BY <1>1, RaisedStep, RetiredStep
<1>8. EditsCurrentText' /\ NothingResurrected'
  BY AnswersStep
<1> QED
  BY <1>2, <1>3, <1>4, <1>5, <1>6, <1>7, <1>8 DEF ServerInv

(***************************************************************************)
(* However notifications, compilations, publications and requests          *)
(* interleave in the three threads of lsp.rs, the state keeps its shape,   *)
(* both channels stay in step with the editor, and what the caches and the *)
(* mailbox hold is current or about to be dropped.                         *)
(***************************************************************************)
THEOREM ServerCorrect ==
  ASSUME ServerAssumption
  PROVE  ServerSpec => []ServerInv
<1>1. ServerInit => ServerInv
  BY ServerInitInv
<1>2. ServerInv /\ [ServerNext]_serverVars => ServerInv'
  BY ServerStep
<1> QED
  BY <1>1, <1>2, PTL DEF ServerSpec

(***************************************************************************)
(* When the diagnostics of the current generation have been sent, the      *)
(* editor shows those of its current texts and no others                   *)
(* (workspace.rs publish_diagnostics), for any number of documents.        *)
(***************************************************************************)
THEOREM ServerDiagnosticsMatch ==
  ASSUME ServerAssumption
  PROVE  ServerSpec => []DiagnosticsMatch
<1>1. ServerInv => DiagnosticsMatch
  <2>1. ASSUME ServerInv PROVE ServerTypeOK
    <3>1. MainShaped /\ CheckShaped /\ QueryShaped
      BY <2>1 DEF ServerInv, ServerShaped
    <3>2. /\ cCache.entries \in Map /\ cCache.good \in Map
          /\ qCache.entries \in Map /\ qCache.good \in Map
      BY <3>1, CacheFields DEF CheckShaped, QueryShaped
    <3>3. \A map \in Map : Range(map) \subseteq Compilation
      BY MapProperties DEF Range
    <3> QED
      BY <3>1, <3>2, <3>3 DEF ServerTypeOK, MainShaped, CheckShaped, QueryShaped
  <2>2. ASSUME ServerInv PROVE ShownMatches
    BY <2>2 DEF ServerInv, Displayed, ShownMatches
  <2> QED
    BY <2>1, <2>2 DEF DiagnosticsMatch
<1> QED
  BY <1>1, ServerCorrect, PTL

(***************************************************************************)
(* A rename is computed from the texts the editor had when it asked, for   *)
(* any snapshot and any order in which install visits the open documents   *)
(* (lsp.rs, compilation.rs install).                                       *)
(***************************************************************************)
THEOREM ServerEditsCurrentText ==
  ASSUME ServerAssumption
  PROVE  ServerSpec => []EditsCurrentText
<1>1. ServerInv => EditsCurrentText
  BY DEF ServerInv
<1> QED
  BY <1>1, ServerCorrect, PTL

(***************************************************************************)
(* No answer rests on a closed buffer or on an outdated file: the          *)
(* publication floor of the query thread (lsp.rs query_worker) keeps every *)
(* snapshot out that a change it has applied would have dropped.           *)
(***************************************************************************)
THEOREM ServerNothingResurrected ==
  ASSUME ServerAssumption
  PROVE  ServerSpec => []NothingResurrected
<1>1. ServerInv => NothingResurrected
  BY DEF ServerInv
<1> QED
  BY <1>1, ServerCorrect, PTL
=============================================================================
