----------------------------- MODULE MCProgress -----------------------------
(***************************************************************************)
(* What must happen eventually, under each component's own fairness.  The  *)
(* components share no state here, so a behaviour exercises one part and   *)
(* leaves the others as they began.                                        *)
(*   remote     a VM remote: two callers, one request                      *)
(*   actor      a native actor: two callers, one request                   *)
(*   messages   a native actor: one caller, two requests                   *)
(*   gate       a shared value: its owner and two viewers                  *)
(*   callbacks  one token, one C thread                                    *)
(*   output     one child                                                  *)
(*   waits      two threads waiting for sockets                            *)
(*   server     a document and its library, one request, shutdown          *)
(*   debugger   a session whose client disappears                          *)
(***************************************************************************)
EXTENDS Integers, Sequences, FiniteSets

CONSTANT Parts

VARIABLES part,
  terminal, next, pending, id, called, reserved, cancels, cancelWith, published,
  pc, senders, owners, idle, inbox, current, caller, taken, cancelled, discarded, faulted, late,
  readers, writer, value, gate, write, copy, outcome, runs,
  queued, listed, held, closed, bytes, events, error, place, owner, batch, active, sent,
  accepted, delivered, lost, mark,
  tokens, entries, at, token, result, child, killed, heirs, written, pipe, reader, kept, captured,
  nextHandle, listeners, connections, op, opened, bound, input, io, output,
  phase, generation, versions, due, disk, asked, touched, toQuery, toCheck, dropped,
  checker, cOpen, cCache, deferred, collected, shown, shownFor, mailbox,
  query, qOpen, qCache, floor, installed, answers,
  session, stack, queue, online, launched, configured, terminated, points, mode, previous,
  breakpointPrevious, pause, frames, stops, missed,
  actorTerminal, actorNext, actorPending, actorId, actorCalled, actorReserved, actorCancels,
  actorCancelWith, actorPublished, actorPc, after, holders, carried, actorClosed, actorIdle,
  actorInbox, actorCurrent, actorCaller, future, word, frees, arguments, actorCancelled

remoteVars == <<terminal, next, pending, id, called, reserved, cancels, cancelWith, published,
                pc, senders, owners, idle, inbox, current, caller, taken, cancelled, discarded,
                faulted, late>>
gateVars == <<readers, writer, value, gate, write, copy, outcome, runs>>
callbackVars == <<queued, listed, held, closed, bytes, events, error, place, owner, batch, active,
                  sent, accepted, delivered, lost, mark>>
processVars == <<tokens, entries, at, token, result, child, killed, heirs, written, pipe, reader,
                 kept, captured>>
networkVars == <<nextHandle, listeners, connections, op, opened, bound, input, io, output>>
serverVars == <<phase, generation, versions, due, disk, asked, touched, toQuery, toCheck, dropped,
                checker, cOpen, cCache, deferred, collected, shown, shownFor, mailbox,
                query, qOpen, qCache, floor, installed, answers>>
debugVars == <<session, stack, queue, online, launched, configured, terminated, points, mode,
               previous, breakpointPrevious, pause, frames, stops, missed>>
actorVars == <<actorTerminal, actorNext, actorPending, actorId, actorCalled, actorReserved,
               actorCancels, actorCancelWith, actorPublished, actorPc, after, holders, carried,
               actorClosed, actorIdle, actorInbox, actorCurrent, actorCaller, future, word,
               frees, arguments, actorCancelled>>
progressVars == <<part, remoteVars, gateVars, callbackVars, processVars, networkVars, serverVars,
                  debugVars, actorVars>>

Remote == INSTANCE VmRemote WITH Callers <- {"c1", "c2"}, Worker <- "w",
  Threads <- {"c1", "c2", "w"}, Requests <- {"r"}
Actor == INSTANCE NativeRemote WITH Callers <- {"c1", "c2"}, Worker <- "w",
  Threads <- {"c1", "c2", "w"}, Requests <- {"r1", "r2"},
  terminal <- actorTerminal, next <- actorNext, pending <- actorPending, id <- actorId,
  called <- actorCalled, reserved <- actorReserved, cancels <- actorCancels,
  cancelWith <- actorCancelWith, published <- actorPublished, pc <- actorPc,
  closed <- actorClosed, idle <- actorIdle, inbox <- actorInbox, current <- actorCurrent,
  caller <- actorCaller, cancelled <- actorCancelled
Gate == INSTANCE SharedAccess WITH pc <- gate, Owner <- "o", Viewers <- {"v1", "v2"}, MaxRuns <- 1
Callback == INSTANCE Callbacks WITH
  CThreads <- {"c"}, Capacity <- 1, ByteLimit <- 1, MaxEvents <- 3
Process == INSTANCE ProcessTable WITH next <- tokens,
  Owners <- {"o"}, MaxToken <- 1, Limit <- 1, MaxWritten <- 2
Network == INSTANCE NetworkHandles WITH Threads <- {"t1", "t2"},
  Kinds <- {"connect", "wait", "close"}, Descriptors <- {"f"},
  MaxHandle <- 3, Timeout <- 1, MaxSockets <- 2, MaxInput <- 1, MaxOutput <- 0, Chunks <- 1
Server == INSTANCE LanguageServer WITH next <- collected, sent <- asked, cancelled <- dropped,
  Docs <- {"main", "lib"}, Uses <- [main |-> {"main", "lib"}, lib |-> {"lib"}],
  Edited <- {"main"}, Watched <- {}, Asked <- {"main"}, Kinds <- {"hover"}, Fallible <- {},
  MayEnd <- TRUE, RecentLimit <- 1, Requests <- {"r"}, MaxGeneration <- 1, MaxWrites <- 0
Debug == INSTANCE Debugger WITH
  Layout <- [main |-> <<0, 1>>, f |-> <<0, 2>>], Main <- "main", Hidden <- {},
  MaxDepth <- 2, MaxQueue <- 1, MaxStops <- 2,
  Commands <- {"launch", "configurationDone", "next", "pause", "disconnect"}

\* What the actor's callers do in each part.  They make the requests, which
\* are alike, in order.
ActorPart ==
  /\ "r2" \in actorCalled' => "r1" \in actorCalled'
  /\ CASE part = "actor" -> actorCalled' \subseteq {"r1"}
       [] part = "messages" -> holders' \cup actorCancelled' \subseteq {"c1"}

ProgressInit ==
  /\ part \in Parts
  /\ Remote!VmInit /\ owners = {"c1"}     \* the callers are alike
  /\ Actor!NativeInit /\ holders = {"c1"}
  /\ Gate!SharedInit
  /\ Callback!CallbackInit /\ (queued => part = "callbacks")
  /\ Process!ProcessInit /\ Network!NetworkInit /\ Server!ServerInit /\ Debug!DebuggerInit

ProgressNext ==
  /\ UNCHANGED part
  /\ \/ /\ part = "remote" /\ Remote!VmNext
        /\ UNCHANGED <<gateVars, callbackVars, processVars, networkVars, serverVars, debugVars,
                       actorVars>>
     \/ /\ part = "gate" /\ Gate!SharedNext
        /\ UNCHANGED <<remoteVars, callbackVars, processVars, networkVars, serverVars, debugVars,
                       actorVars>>
     \/ /\ part = "callbacks" /\ Callback!CallbackNext
        /\ UNCHANGED <<remoteVars, gateVars, processVars, networkVars, serverVars, debugVars,
                       actorVars>>
     \/ /\ part = "output" /\ Process!ProcessNext
        /\ UNCHANGED <<remoteVars, gateVars, callbackVars, networkVars, serverVars, debugVars,
                       actorVars>>
     \/ /\ part = "waits" /\ Network!NetworkNext
        /\ UNCHANGED <<remoteVars, gateVars, callbackVars, processVars, serverVars, debugVars,
                       actorVars>>
     \/ /\ part = "server" /\ Server!ServerNext
        /\ UNCHANGED <<remoteVars, gateVars, callbackVars, processVars, networkVars, debugVars,
                       actorVars>>
     \/ /\ part = "debugger" /\ Debug!DebuggerNext
        /\ UNCHANGED <<remoteVars, gateVars, callbackVars, processVars, networkVars, serverVars,
                       actorVars>>
     \/ /\ part \in {"actor", "messages"} /\ Actor!NativeNext /\ ActorPart
        /\ UNCHANGED <<remoteVars, gateVars, callbackVars, processVars, networkVars, serverVars,
                       debugVars>>

\* The fairness of each component's own specification.  Naming the part changes
\* nothing, the components of the other parts do not move, and lets TLC pass
\* over their actions.
RemoteFairness ==
  /\ WF_remoteVars(part = "remote" /\ Remote!WorkerNext)
  /\ \A c \in {"c1", "c2"} : WF_remoteVars(part = "remote" /\ Remote!CallerProceeds(c))
ActorFairness ==
  LET Acts == part \in {"actor", "messages"} IN
  /\ WF_actorVars(Acts /\ (Actor!WorkerNext \/ Actor!Releases("w")))
  /\ \A c \in {"c1", "c2"} :
       WF_actorVars(Acts /\ (Actor!CallerProceeds(c) \/ Actor!Releases(c)))
GateFairness ==
  /\ \A t \in {"o", "v1", "v2"} : /\ WF_gateVars(part = "gate" /\ Gate!Acquire(t))
                                  /\ WF_gateVars(part = "gate" /\ Gate!Snapshot(t))
                                  /\ WF_gateVars(part = "gate" /\ Gate!Release(t))
  /\ \A v \in {"v1", "v2"} : WF_gateVars(part = "gate" /\ Gate!PublishReply(v))
CallbackFairness == WF_callbackVars(part = "callbacks" /\ Callback!OwnerProceeds)
ProcessFairness ==
  /\ WF_processVars(part = "output" /\ Process!Starts("o"))
  /\ WF_processVars(part = "output" /\ Process!Awaits("o"))
  /\ WF_processVars(part = "output" /\ Process!Frees("o"))
  /\ WF_processVars(part = "output" /\ Process!KilledExits("o"))
  /\ \A s \in {"stdout", "stderr"} : WF_processVars(part = "output" /\ Process!Captures("o", s))
NetworkFairness ==
  \A t \in {"t1", "t2"} : /\ WF_networkVars(part = "waits" /\ Network!Waits(t))
                          /\ WF_networkVars(part = "waits" /\ Network!TimePasses(t))
ServerFairness ==
  /\ WF_serverVars(part = "server" /\ Server!CheckStep)
  /\ WF_serverVars(part = "server" /\ Server!QueryStep)
  /\ WF_serverVars(part = "server" /\ Server!Debounced)

ProgressSpec ==
  /\ ProgressInit /\ [][ProgressNext]_progressVars
  /\ RemoteFairness /\ ActorFairness /\ GateFairness /\ CallbackFairness /\ ProcessFairness
  /\ NetworkFairness /\ ServerFairness /\ WF_debugVars(part = "debugger" /\ Debug!Machine)
-----------------------------------------------------------------------------
\* A remote without handles ends and answers everything; dropping a handle
\* returns (VmRemote).
ShutdownCompletes == Remote!OwnerGoneResolves /\ Remote!DropReturns

\* A native actor ends once its last handle is gone: NativeRemote!Teardown.
Teardown == Actor!Teardown

\* Nobody waits for a shared value for ever: SharedAccess!GateOpens.
GateOpens == Gate!GateOpens

\* Calls into the host return: poll and release of a callback, await and
\* release of a child, waits for a socket.
HostCallsReturn ==
  Callback!OwnerReturns /\ Process!AwaitEnds /\ Process!ReleaseEnds /\ Network!WaitEnds

\* Every request to the language server is answered once, and diagnostics
\* catch up with the edits (LanguageServer).
ServerAnswers == (part = "server") => Server!EveryRequestAnswered /\ Server!DiagnosticsCatchUp

\* A program whose client disappears ends: Debugger!DisconnectEnds.
DisconnectEnds == Debug!DisconnectEnds
=============================================================================
