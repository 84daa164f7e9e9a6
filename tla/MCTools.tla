------------------------------ MODULE MCTools -------------------------------
(***************************************************************************)
(* The editor's servers.  They share no state, so a behaviour exercises    *)
(* one part and leaves the other as it began.  Document `main` uses `lib`; *)
(* the debugged program has main, a function that may recurse, and a       *)
(* library function without source that calls back.                        *)
(*   edits    both documents edited, renames, compilations that fail       *)
(*   files    `lib` written on disk behind the editor                      *)
(*   session  a breakpoint, steps, stacks of three frames and questions    *)
(*            about them                                                   *)
(***************************************************************************)
EXTENDS LanguageServer, Debugger

CONSTANT Parts

VARIABLE part

toolVars == <<part, serverVars, debugVars>>

MCUses == [main |-> {"main", "lib"}, lib |-> {"lib"}]
MCLayout == [main |-> <<0, 1>>, f |-> <<0, 2, 3, 2>>, lib |-> <<0, 0>>]

ASSUME ServerAssumption /\ DebuggerAssumption

\* What the editor and the compiler do in each part.
ServerPart ==
  CASE part = "edits" ->
         /\ disk' = disk /\ \A i \in DOMAIN toQuery' : toQuery'[i].kind # "watch"
         /\ \A r \in Requests : sent'[r] # Unsent => sent'[r].kind = "rename"
    [] part = "files" ->
         /\ generation' <= 2 /\ versions'["lib"] = 0 /\ cCache'.errors = {}
         /\ \A i \in DOMAIN toQuery' : toQuery'[i].kind = "watch" => toQuery'[i].doc = "lib"
         /\ \A r \in Requests : sent'[r] # Unsent => sent'[r].kind = "hover"

ToolsInit == part \in Parts /\ ServerInit /\ DebuggerInit

ToolsNext ==
  /\ UNCHANGED part
  /\ \/ /\ part \in {"edits", "files"} /\ ServerNext /\ ServerPart
        /\ UNCHANGED debugVars
     \/ /\ part = "session" /\ DebuggerNext
        /\ UNCHANGED serverVars

ToolsSpec == ToolsInit /\ [][ToolsNext]_toolVars
=============================================================================
