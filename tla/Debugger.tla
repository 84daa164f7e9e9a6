------------------------------ MODULE Debugger ------------------------------
(***************************************************************************)
(* The source debugger: the machine asks the session before every          *)
(* instruction whether to stop (Observer::should_stop), and while it is    *)
(* stopped the session answers the client's requests (Observer::stopped).  *)
(* Requests arrive through a channel that a reader thread fills at any     *)
(* time.  The program is its layout, the line of each instruction of each  *)
(* function, 0 where there is none.  A function begins with instructions   *)
(* of no line, the constant for its result or more, and is on its first    *)
(* line before it is on any other; for the rest execution goes on, jumps,  *)
(* calls and returns as it likes.                                          *)
(***************************************************************************)
EXTENDS Naturals, Sequences, SequencesExt, FiniteSets, FiniteSetsExt

CONSTANTS Layout,      \* function -> the line of each instruction
          Main,        \* the entry function
          Hidden,      \* functions the session has no source for
          MaxDepth, MaxQueue, MaxStops, Commands

DebuggerAssumption ==
  /\ MaxDepth \in Nat \ {0} /\ Layout \in [DOMAIN Layout -> Seq(Nat)]
  /\ Main \in DOMAIN Layout /\ Hidden \subseteq DOMAIN Layout \ {Main}
  /\ \A f \in DOMAIN Layout : Layout[f] # <<>>

VARIABLES session,   \* starting, asking, executing, stopped or ended
          stack,     \* the machine's frames; `seen` is the latest line visited, entered
                     \* at instruction `from` and last seen at `at`
          queue,     \* requests read and not yet handled
          online,    \* the client is connected
          launched, configured, terminated,
          points,    \* lines with a breakpoint
          mode,      \* Continue, In, Over or Out with a depth
          previous, breakpointPrevious,
          pause,
          frames,    \* how many frames the client may ask about
          stops,
          missed     \* a breakpoint was passed, or reported without a visit

debugVars == <<session, stack, queue, online, launched, configured, terminated, points, mode,
               previous, breakpointPrevious, pause, frames, stops, missed>>
sessionVars == <<launched, configured, terminated, points, mode, pause, frames>>

Lines == (UNION {Range(Layout[f]) : f \in DOMAIN Layout \ Hidden}) \ {0}
Nowhere == [function |-> Main, instruction |-> 0, depth |-> 0, line |-> 0]
Entered(f) == [function |-> f, instruction |-> 1, seen |-> 0, from |-> 0, at |-> 0]
Top == Last(stack)
Depth == Len(stack)
LineOf(frame) == IF frame.function \in Hidden THEN 0 ELSE Layout[frame.function][frame.instruction]

----------------------------------------------------------------------------
(* What a careless edit would make of the definitions below.               *)
ChangedPlace(old, function, instruction, depth, line) ==     \* loops on a line look still
  old.function # function \/ old.depth # depth \/ old.line # line
EndsTerminated ==                                            \* a lost client is not noticed
  /\ session = "asking" /\ queue = <<>> /\ terminated
  /\ session' = "ended"
  /\ UNCHANGED <<stack, queue, online, sessionVars, previous, breakpointPrevious, stops, missed>>

----------------------------------------------------------------------------
(* setBreakpoints: the first line with code at or after the one requested *)
Accepted(line) == LET after == {l \in Lines : l >= line /\ line > 0}
                  IN IF after = {} THEN {} ELSE {Min(after)}

(* the mode a step command selects *)
ModeFor(r) ==
  [kind |-> CASE r.command = "next" -> "over" [] r.command = "stepOut" -> "out"
              [] r.command = "stepIn" -> "in" [] OTHER -> "continue",
   depth |-> frames]

Resuming == {"continue", "next", "stepIn", "stepOut"}

(* Session::handle; "frame" stands for scopes, variables and evaluate, which     *)
(* change nothing                                                               *)
Handle(r, stopped) ==
  /\ launched' = (launched \/ r.command = "launch")
  /\ configured' = (configured \/ r.command = "configurationDone")
  /\ terminated' = (terminated \/ r.command = "disconnect")
  /\ points' = IF r.command = "setBreakpoints" THEN Accepted(r.line) ELSE points
  /\ pause' = (pause \/ r.command = "pause")
  /\ mode' = IF stopped /\ r.command \in Resuming THEN ModeFor(r)
             ELSE IF r.command = "launch" /\ ~launched /\ r.line = 1   \* stopOnEntry
                  THEN [kind |-> "in", depth |-> 0] ELSE mode
  /\ frames' = IF stopped /\ r.command \in Resuming THEN 0 ELSE frames

Resumes(r) == r.command \in Resuming \cup {"disconnect"}

----------------------------------------------------------------------------
(* the reader thread *)
Send(r) ==
  /\ online /\ session # "ended" /\ Len(queue) < MaxQueue
  /\ queue' = Append(queue, r)
  /\ UNCHANGED <<session, stack, online, sessionVars, previous, breakpointPrevious, stops, missed>>

Disconnect ==
  /\ online /\ online' = FALSE
  /\ UNCHANGED <<session, stack, queue, sessionVars, previous, breakpointPrevious, stops, missed>>

(* run: requests before the program starts *)
Start ==
  /\ session = "starting"
  /\ \/ /\ terminated \/ (queue = <<>> /\ ~online /\ ~(launched /\ configured))
        /\ session' = "ended"
        /\ UNCHANGED <<queue, sessionVars>>
     \/ /\ ~terminated /\ launched /\ configured
        /\ session' = "asking"
        /\ UNCHANGED <<queue, sessionVars>>
     \/ /\ ~terminated /\ ~(launched /\ configured) /\ queue # <<>>
        /\ Handle(Head(queue), FALSE) /\ queue' = Tail(queue)
        /\ UNCHANGED session
  /\ UNCHANGED <<stack, online, previous, breakpointPrevious, stops, missed>>

----------------------------------------------------------------------------
(* should_stop: requests that arrived are handled first *)
Drain ==
  /\ session = "asking" /\ queue # <<>>
  /\ Handle(Head(queue), FALSE) /\ queue' = Tail(queue)
  /\ UNCHANGED <<session, stack, online, previous, breakpointPrevious, stops, missed>>

Ends ==
  /\ session = "asking" /\ queue = <<>> /\ (terminated \/ ~online)
  /\ session' = "ended"
  /\ UNCHANGED <<stack, queue, online, sessionVars, previous, breakpointPrevious, stops, missed>>

(* the same line of the same frame, further on, is no new position *)
Changed(old, function, instruction, depth, line) ==
  old.function # function \/ old.depth # depth \/ old.line # line
  \/ instruction <= old.instruction

(* breakpoint_previous forgets the frames that returned *)
Retained(depth) == {d \in DOMAIN breakpointPrevious : d <= depth}

Stepped(depth) ==
  CASE mode.kind = "in" -> TRUE
    [] mode.kind = "over" -> depth <= mode.depth
    [] mode.kind = "out" -> depth < mode.depth
    [] OTHER -> FALSE

ShouldStop ==
  LET line    == LineOf(Top)
      here    == [function |-> Top.function, instruction |-> Top.instruction,
                  depth |-> Depth, line |-> line]
      changed == line > 0 /\ Changed(previous, here.function, here.instruction, Depth, line)
      kept    == Retained(Depth)
      visited == /\ changed
                 /\ Depth \in kept => Changed(breakpointPrevious[Depth], here.function,
                                              here.instruction, Depth, line)
      hit     == visited /\ line \in points
      stop    == changed /\ (hit \/ Stepped(Depth) \/ pause)
      (* a visit of a line, told from the frame itself; a jump back into the middle *)
      (* of the line may count as one, a jump to where the visit began must         *)
      jumps   == Top.seen # line \/ Top.instruction <= Top.at
      arrives == Top.seen # line \/ Top.instruction <= Top.from
      seen    == IF line = 0 THEN Top
                 ELSE [Top EXCEPT !.seen = line, !.at = Top.instruction,
                                  !.from = IF arrives THEN Top.instruction ELSE @]
  IN
  /\ session = "asking" /\ queue = <<>> /\ ~terminated /\ online
  /\ stop => stops < MaxStops
  /\ previous' = IF line > 0 THEN here ELSE previous
  /\ breakpointPrevious' = IF changed THEN [d \in kept \cup {Depth} |->
                                              IF d = Depth THEN here ELSE breakpointPrevious[d]]
                           ELSE breakpointPrevious
  /\ missed' = (missed \/ (line \in points /\ arrives /\ ~stop) \/ (hit /\ ~jumps))
  /\ stack' = [stack EXCEPT ![Depth] = seen]
  /\ session' = IF stop THEN "stopped" ELSE "executing"
  /\ pause' = (pause /\ ~stop)
  /\ stops' = IF stop THEN stops + 1 ELSE stops
  (* Observer::stopped *)
  /\ frames' = IF stop THEN Depth ELSE frames
  /\ UNCHANGED <<queue, online, launched, configured, terminated, points, mode>>

Answer ==
  /\ session = "stopped" /\ queue # <<>>
  /\ Handle(Head(queue), TRUE) /\ queue' = Tail(queue)
  /\ session' = IF Head(queue).command = "disconnect" THEN "ended"
                ELSE IF Resumes(Head(queue)) THEN "executing" ELSE session
  /\ UNCHANGED <<stack, online, previous, breakpointPrevious, stops, missed>>

ClientGone ==
  /\ session = "stopped" /\ queue = <<>> /\ ~online
  /\ session' = "ended"
  /\ UNCHANGED <<stack, queue, online, sessionVars, previous, breakpointPrevious, stops, missed>>

----------------------------------------------------------------------------
(* no instruction of the function before this one has a line *)
Opening(f, i) == \A k \in 1..i - 1 : Layout[f][k] = 0

(* where an instruction may go: not past the first line before it was reached *)
Targets(f, i) ==
  {j \in DOMAIN Layout[f] : Opening(f, i) /\ Layout[f][i] = 0 => Opening(f, j)}

(* the instruction itself; a call leaves the caller at the next one *)
Execute ==
  /\ session = "executing"
  /\ \/ /\ \E i \in Targets(Top.function, Top.instruction) :
             stack' = [stack EXCEPT ![Depth].instruction = i]
        /\ session' = "asking"
     \/ /\ Depth < MaxDepth /\ Top.instruction < Len(Layout[Top.function])
        /\ \E f \in DOMAIN Layout :
             stack' = Append([stack EXCEPT ![Depth].instruction = @ + 1], Entered(f))
        /\ session' = "asking"
     \/ /\ stack' = IF Depth = 1 THEN stack ELSE Front(stack)
        /\ session' = IF Depth = 1 THEN "ended" ELSE "asking"
  /\ UNCHANGED <<queue, online, sessionVars, previous, breakpointPrevious, stops, missed>>

----------------------------------------------------------------------------
DebuggerInit ==
  /\ session = "starting" /\ stack = <<Entered(Main)>> /\ queue = <<>> /\ online = TRUE
  /\ launched = FALSE /\ configured = FALSE /\ terminated = FALSE
  /\ points = {} /\ mode = [kind |-> "continue", depth |-> 0]
  /\ previous = Nowhere /\ breakpointPrevious = <<>> /\ pause = FALSE
  /\ frames = 0 /\ stops = 0 /\ missed = FALSE

(* what a client may ask: about the stop, and any line *)
Possible ==
  {[command |-> c, line |-> 0] : c \in Commands \ {"setBreakpoints"}}
  \cup {[command |-> c, line |-> l] : c \in Commands \cap {"setBreakpoints"}, l \in Lines}
  \cup {[command |-> c, line |-> 1] : c \in Commands \cap {"launch"}}

Machine == Start \/ Drain \/ Ends \/ ShouldStop \/ Answer \/ ClientGone \/ Execute
DebuggerNext == Machine \/ Disconnect \/ \E r \in Possible : Send(r)

DebuggerSpec == DebuggerInit /\ [][DebuggerNext]_debugVars /\ WF_debugVars(Machine)

----------------------------------------------------------------------------
(* Shape of the state: what the session remembers of breakpoints is about  *)
(* frames that exist or have just returned, each at a line it has.         *)
DebuggerTypeOK ==
  /\ session \in {"starting", "asking", "executing", "stopped", "ended"}
  /\ points \subseteq Lines /\ Cardinality(points) <= 1
  /\ DOMAIN breakpointPrevious \subseteq 1..MaxDepth
  /\ \A d \in DOMAIN breakpointPrevious :
       LET p == breakpointPrevious[d] IN p.line = Layout[p.function][p.instruction]
  /\ frames \in 0..MaxDepth /\ (session = "stopped" => frames = Depth)

(* A breakpoint stops the program each time its line is reached, by the    *)
(* next statement, a jump back to where the line began or a new call,      *)
(* through any calls and returns, recursion and functions without source   *)
(* included, and never again while the frame goes forward on the line;     *)
(* what the session remembers stays in shape meanwhile.                    *)
BreakpointExact == DebuggerTypeOK /\ ~missed

(* When the client disappears the program ends, stopped or running.        *)
DisconnectEnds == ~online ~> session = "ended"
=============================================================================
