--------------------------- MODULE LanguageServer ---------------------------
(***************************************************************************)
(* The language server (src/lsp.rs): the thread that reads the editor's    *)
(* messages, the checking thread that publishes snapshots and diagnostics, *)
(* and the query thread that answers requests from snapshots.  They share  *)
(* two channels, the generation counter, the snapshot mailbox and the set  *)
(* of cancelled requests.                                                  *)
(*                                                                         *)
(* The text of an open document is the generation of the notification that *)
(* set it, which is also its version; the text of a file on disk is 0 or   *)
(* less and decreases with every write.                                    *)
(***************************************************************************)
EXTENDS CompilationCache

CONSTANTS Uses,          \* Uses[d]: the documents of d's package, d included
          Requests,
          Edited,        \* documents the editor opens, changes and closes
          Watched,       \* files that are written behind the editor's back
          Asked, Kinds,  \* documents that requests are about, hover or rename
          Fallible,      \* documents whose compilation may fail
          MayEnd,        \* whether the editor cancels requests and shuts down
          MaxGeneration, \* bound on the editor's notifications
          MaxWrites      \* bound on writes to disk

ServerAssumption ==
  /\ RecentLimitAssumption
  /\ Uses \in [Docs -> SUBSET Docs] /\ \A d \in Docs : d \in Uses[d]
  /\ Kinds \subseteq {"hover", "rename"} /\ Edited \cup Watched \cup Asked \cup Fallible \subseteq Docs
  /\ IsFiniteSet(Docs) /\ MayEnd \in BOOLEAN /\ MaxGeneration \in Nat /\ MaxWrites \in Nat

VARIABLES
  phase,         \* main thread: running, shutdown (requested), stopped
  generation,    \* the shared counter
  versions,      \* document_versions: 0 when closed
  due,           \* the diagnostic deadline is set
  disk,          \* text of each file
  toQuery, toCheck, \* channels
  cancelled,     \* ids of cancelled requests
  sent,          \* what the editor knew when it sent a request
  answers,       \* responses to each request, in order
  checker,       \* checking thread: where it is and its tag
  cOpen, cCache, \* its documents and cache
  deferred,      \* the diagnostics message it has put off, if any
  next,          \* diagnostics collected in this run
  shown,         \* diagnostics the editor displays; -MaxWrites - 1 for none
  shownFor,      \* generation of the last complete set of diagnostics
  mailbox,       \* the latest publication
  query,         \* query thread: where it is and its request
  qOpen, qCache, floor, installed, \* its documents, cache, publication_floor
  touched        \* history: last close and last watched text of each document

mainVars == <<phase, generation, versions, due, disk, sent, touched>>
checkVars == <<checker, cOpen, cCache, deferred, next, shown, shownFor, mailbox>>
queryVars == <<query, qOpen, qCache, floor, installed, answers>>
serverVars == <<mainVars, toQuery, toCheck, cancelled, checkVars, queryVars>>

None == -MaxWrites - 1
Text == -MaxWrites..MaxGeneration
NoTag == -1
NoSnapshot == [id |-> <<-1, 0>>, entries |-> <<>>, good |-> <<>>]
Opened(texts) == {d \in Docs : texts[d] > 0}

Compilation == UNION {[root : {u}, source : [Uses[u] -> Text]] : u \in Docs}
Unsent == [generation |-> NoTag]

ServerTypeOK ==
  /\ phase \in {"running", "shutdown", "stopped"}
  /\ generation \in 0..(MaxGeneration + 1) /\ due \in BOOLEAN
  /\ versions \in [Docs -> 0..MaxGeneration] /\ disk \in [Docs -> -MaxWrites..0]
  /\ cancelled \subseteq Requests
  /\ checker.at \in {"idle", "early", "compile", "publish", "done"}
  /\ query.at \in {"idle", "answering", "done"}
  /\ Range(cCache.entries) \cup Range(qCache.entries) \subseteq Compilation
  /\ Range(cCache.good) \cup Range(qCache.good) \subseteq Compilation
  /\ Len(cCache.recent) <= RecentLimit /\ Len(qCache.recent) <= RecentLimit
  /\ floor \in 0..MaxGeneration

ServerInit ==
  /\ phase = "running" /\ generation = 0 /\ due = TRUE
  /\ versions = [d \in Docs |-> 0] /\ disk = [d \in Docs |-> 0]
  /\ toQuery = <<>> /\ toCheck = <<>> /\ cancelled = {}
  /\ sent = [r \in Requests |-> Unsent] /\ answers = [r \in Requests |-> <<>>]
  /\ checker = [at |-> "idle", tag |-> NoTag, todo |-> {}]
  /\ cOpen = [d \in Docs |-> 0] /\ qOpen = [d \in Docs |-> 0]
  /\ cCache = EmptyCache /\ qCache = EmptyCache
  /\ deferred = <<>> /\ next = <<>>
  /\ shown = [d \in Docs |-> None] /\ shownFor = NoTag
  /\ mailbox = NoSnapshot
  /\ query = [at |-> "idle", request |-> None]
  /\ floor = 0 /\ installed = NoSnapshot.id
  /\ touched = [closed |-> [d \in Docs |-> 0], watched |-> [d \in Docs |-> 0]]
-----------------------------------------------------------------------------
(***************************************************************************)
(* Mutants: plausible mistakes, no part of the specification.              *)
(***************************************************************************)
FloorOnClose(m) ==          \* a file that changed on disk does not raise it
  IF m.kind = "close" THEN m.generation ELSE floor

StopDropsRequests ==        \* the query thread sees Stop before its queue
  /\ MayEnd /\ phase \in {"running", "shutdown"}
  /\ phase' = "stopped" /\ generation' = generation + 1
  /\ toQuery' = <<[kind |-> "stop"]>>
  /\ toCheck' = Append(toCheck, [kind |-> "stop"])
  /\ UNCHANGED <<versions, due, disk, sent, touched, cancelled, checkVars, queryVars>>

KeepOrphans == shown' = [d \in Docs |-> IF d \in DOMAIN next THEN next[d] ELSE shown[d]]
-----------------------------------------------------------------------------
(***************************************************************************)
(* The main thread.  A notification advances the generation first, then    *)
(* reaches both channels; the deadline is what is left of the debounce.    *)
(***************************************************************************)
Notify(message) ==
  /\ phase = "running" /\ generation < MaxGeneration
  /\ generation' = generation + 1
  /\ due' = TRUE
  /\ LET m == [message EXCEPT !.generation = generation']
     IN  toQuery' = Append(toQuery, m) /\ toCheck' = Append(toCheck, m)
  /\ UNCHANGED <<phase, disk, sent, cancelled, checkVars, queryVars>>

\* didOpen, and didChange with a full text.
OpenDoc(d) ==
  /\ Notify([kind |-> "open", doc |-> d, generation |-> 0])
  /\ versions' = [versions EXCEPT ![d] = generation']
  /\ UNCHANGED touched

CloseDoc(d) ==
  /\ versions[d] > 0
  /\ Notify([kind |-> "close", doc |-> d, generation |-> 0])
  /\ versions' = [versions EXCEPT ![d] = 0]
  /\ touched' = [touched EXCEPT !.closed[d] = generation']

\* didChangeWatchedFiles: the file may have been written long before.
WatchDoc(d) ==
  /\ Notify([kind |-> "watch", doc |-> d, generation |-> 0])
  /\ touched' = [touched EXCEPT !.watched[d] = disk[d]]
  /\ UNCHANGED versions

WriteFile(d) ==
  /\ disk[d] > -MaxWrites
  /\ disk' = [disk EXCEPT ![d] = @ - 1]
  /\ UNCHANGED <<phase, generation, versions, due, sent, touched, toQuery, toCheck,
                 cancelled, checkVars, queryVars>>

\* A request about d, tagged with the generation and the version of d.
Request(r, d, kind) ==
  /\ phase = "running" /\ sent[r] = Unsent
  /\ sent' = [sent EXCEPT ![r] =
       [generation |-> generation, doc |-> d, kind |-> kind, texts |-> versions,
        closed |-> touched.closed, watched |-> touched.watched]]
  /\ toQuery' = Append(toQuery, [kind |-> "request", request |-> r])
  /\ UNCHANGED <<phase, generation, versions, due, disk, touched, toCheck, cancelled,
                 checkVars, queryVars>>

\* After shutdown has been requested the main thread answers by itself.
Refuse(r) ==
  /\ phase = "shutdown" /\ sent[r] = Unsent
  /\ sent' = [sent EXCEPT ![r] = [generation |-> generation, kind |-> "refused"]]
  /\ answers' = [answers EXCEPT ![r] = Append(@, [kind |-> "invalid"])]
  /\ UNCHANGED <<phase, generation, versions, due, disk, touched, toQuery, toCheck,
                 cancelled, checkVars, query, qOpen, qCache, floor, installed>>

Cancel(r) ==
  /\ MayEnd /\ phase = "running" /\ sent[r] # Unsent
  /\ cancelled' = cancelled \cup {r}
  /\ UNCHANGED <<mainVars, toQuery, toCheck, checkVars, queryVars>>

\* The debounce has passed without a notification.
Debounced ==
  /\ phase # "stopped" /\ due
  /\ due' = FALSE
  /\ toCheck' = Append(toCheck, [kind |-> "diagnostics", tag |-> generation,
                                 texts |-> versions])
  /\ UNCHANGED <<phase, generation, versions, disk, sent, touched, toQuery, cancelled,
                 checkVars, queryVars>>

Shutdown ==
  /\ MayEnd /\ phase = "running"
  /\ phase' = "shutdown" /\ due' = FALSE
  /\ UNCHANGED <<generation, versions, disk, sent, touched, toQuery, toCheck, cancelled,
                 checkVars, queryVars>>

\* exit, or the connection is gone: stop both threads.
Stop ==
  /\ MayEnd /\ phase \in {"running", "shutdown"}
  /\ phase' = "stopped"
  /\ generation' = generation + 1
  /\ toQuery' = Append(toQuery, [kind |-> "stop"])
  /\ toCheck' = Append(toCheck, [kind |-> "stop"])
  /\ UNCHANGED <<versions, due, disk, sent, touched, cancelled, checkVars, queryVars>>
-----------------------------------------------------------------------------
\* A tag is current when the generation and the versions it names still hold.
WorkIsCurrent(texts, tag, known) ==
  /\ generation = tag
  /\ \A d \in Docs : known[d] > 0 => texts[d] = known[d]

\* apply_workspace_change, on either thread.
Applied(cache, texts, m) ==
  CASE m.kind = "open"  -> [cache |-> Invalidate(cache, m.doc),
                            texts |-> [texts EXCEPT ![m.doc] = m.generation]]
    [] m.kind = "close" -> [cache |-> CloseUri(cache, m.doc, Opened(texts) \ {m.doc}),
                            texts |-> [texts EXCEPT ![m.doc] = 0]]
    [] m.kind = "watch" -> [cache |-> InvalidateWatched(cache, m.doc), texts |-> texts]

(***************************************************************************)
(* The checking thread.  Diagnostics wait behind everything else that is   *)
(* queued; they are given up as soon as the generation moves on.           *)
(***************************************************************************)
restOfCheck == <<mainVars, toQuery, cancelled, queryVars>>

CheckChange ==
  /\ checker.at = "idle" /\ toCheck # <<>>
  /\ Head(toCheck).kind \in {"open", "close", "watch"}
  /\ LET applied == Applied(cCache, cOpen, Head(toCheck))
     IN  cCache' = applied.cache /\ cOpen' = applied.texts
  /\ toCheck' = Tail(toCheck)
  /\ UNCHANGED <<restOfCheck, checker, deferred, next, shown, shownFor, mailbox>>

Begin(m) ==
  IF WorkIsCurrent(cOpen, m.tag, m.texts)
  THEN [at |-> "early", tag |-> m.tag, todo |-> Opened(cOpen)] ELSE checker

DeferDiagnostics ==
  /\ checker.at = "idle" /\ Len(toCheck) > 1 /\ Head(toCheck).kind = "diagnostics"
  /\ deferred' = IF deferred = <<>> \/ deferred[1].tag <= Head(toCheck).tag
                 THEN <<Head(toCheck)>> ELSE deferred
  /\ toCheck' = Tail(toCheck)
  /\ UNCHANGED <<restOfCheck, checker, cOpen, cCache, next, shown, shownFor, mailbox>>

CheckDiagnostics ==
  /\ checker.at = "idle"
  /\ \/ /\ Len(toCheck) = 1 /\ Head(toCheck).kind = "diagnostics"
        /\ checker' = Begin(Head(toCheck))
        /\ toCheck' = <<>> /\ UNCHANGED deferred
     \/ /\ toCheck = <<>> /\ deferred # <<>>
        /\ checker' = Begin(deferred[1])
        /\ deferred' = <<>> /\ UNCHANGED toCheck
  /\ UNCHANGED <<restOfCheck, cOpen, cCache, next, shown, shownFor, mailbox>>

CheckStop ==
  /\ checker.at = "idle" /\ toCheck # <<>> /\ Head(toCheck).kind = "stop"
  /\ checker' = [checker EXCEPT !.at = "done"]
  /\ toCheck' = Tail(toCheck)
  /\ UNCHANGED <<restOfCheck, cOpen, cCache, deferred, next, shown, shownFor, mailbox>>

PublishSnapshot(step) ==
  mailbox' = [id |-> <<checker.tag, step>>, entries |-> cCache.entries,
              good |-> cCache.good]

(***************************************************************************)
(* While the symbol index is refreshed the run may be given up; it may     *)
(* also have looked at the generation just before that moved on, and then  *)
(* publishes, under the old generation, and stops at its next look.        *)
(***************************************************************************)
GiveUp ==
  /\ checker.at = "early" /\ generation # checker.tag
  /\ checker' = [checker EXCEPT !.at = "idle"]
  /\ UNCHANGED <<restOfCheck, toCheck, cOpen, cCache, deferred, next, shown, shownFor,
                 mailbox>>

PublishEarly ==
  /\ checker.at = "early"
  /\ PublishSnapshot(1)
  /\ checker' = [checker EXCEPT !.at = IF generation = checker.tag THEN "compile"
                                                                  ELSE "idle"]
  /\ UNCHANGED <<restOfCheck, toCheck, cOpen, cCache, deferred, next, shown, shownFor>>

Seen(d) == IF cOpen[d] > 0 THEN cOpen[d] ELSE disk[d]
Compiled(d) == [root |-> d, source |-> [u \in Uses[d] |-> Seen(u)]]
Found(c) == [u \in DOMAIN next \cup DOMAIN c.source |->
               IF Holds(c, u) THEN c.source[u] ELSE next[u]]
Failed(d) == [u \in DOMAIN next \cup {d} |-> IF u = d THEN cOpen[d] ELSE next[u]]

\* compile_for one open document, from the cache where it can.
CompileFor(d) ==
  LET cache == Touch(cCache, d) IN
  /\ checker.at = "compile" /\ d \in checker.todo /\ generation = checker.tag
  /\ \/ /\ d \in DOMAIN cache.entries
        /\ cCache' = cache /\ next' = Found(cache.entries[d])
     \/ /\ d \notin DOMAIN cache.entries /\ d \in cache.errors
        /\ cCache' = cache /\ next' = Failed(d)
     \/ /\ d \notin DOMAIN cache.entries /\ d \notin cache.errors
        /\ \/ /\ cCache' = Prune(Insert(cache, d, Compiled(d)), Opened(cOpen))
              /\ next' = Found(Compiled(d))
           \/ /\ d \in Fallible
              /\ cCache' = Prune(InsertError(cache, d), Opened(cOpen))
              /\ next' = Failed(d)
  /\ checker' = [checker EXCEPT !.todo = @ \ {d}]
  /\ UNCHANGED <<restOfCheck, toCheck, cOpen, deferred, shown, shownFor, mailbox>>

\* Cancelled before or inside a compilation, which then leaves no entry.
CompileCancelled ==
  /\ checker.at = "compile" /\ generation # checker.tag
  /\ checker' = [checker EXCEPT !.at = "idle"]
  /\ next' = <<>>
  /\ UNCHANGED <<restOfCheck, toCheck, cOpen, cCache, deferred, shown, shownFor, mailbox>>

\* The last look at the generation follows the last compilation; it may have
\* moved on since.
PublishFinal ==
  /\ checker.at = "compile" /\ checker.todo = {}
  /\ PublishSnapshot(2)
  /\ checker' = [checker EXCEPT !.at = "publish"]
  /\ UNCHANGED <<restOfCheck, toCheck, cOpen, cCache, deferred, next, shown, shownFor>>

ShowAll == shown' = [d \in Docs |-> IF d \in DOMAIN next THEN next[d] ELSE None]

\* Diagnostics of the run, and empty ones where there were some before.
SendDiagnostics ==
  /\ checker.at = "publish"
  /\ ShowAll
  /\ shownFor' = checker.tag
  /\ checker' = [checker EXCEPT !.at = "idle"]
  /\ next' = <<>>
  /\ UNCHANGED <<restOfCheck, toCheck, cOpen, cCache, deferred, mailbox>>
-----------------------------------------------------------------------------
(***************************************************************************)
(* The query thread.                                                       *)
(***************************************************************************)
restOfQuery == <<mainVars, toCheck, cancelled, checkVars, answers>>

RaisedFloor(m) == IF m.kind \in {"close", "watch"} THEN m.generation ELSE floor

QueryChange ==
  /\ query.at = "idle" /\ toQuery # <<>>
  /\ LET m == Head(toQuery) IN
     /\ m.kind \in {"open", "close", "watch"}
     /\ floor' = RaisedFloor(m)
     /\ qCache' = Applied(qCache, qOpen, m).cache
     /\ qOpen' = Applied(qCache, qOpen, m).texts
  /\ toQuery' = Tail(toQuery)
  /\ UNCHANGED <<restOfQuery, query, installed>>

Adopt ==
  IF mailbox # NoSnapshot /\ mailbox.id[1] >= floor /\ mailbox.id # installed
  THEN /\ \E order \in SetToSeqs(Opened(qOpen)) :
            qCache' = Install(qCache, mailbox, qOpen, order)
       /\ installed' = mailbox.id
  ELSE UNCHANGED <<qCache, installed>>

QueryStop ==
  /\ query.at = "idle" /\ toQuery # <<>> /\ Head(toQuery).kind = "stop"
  /\ query' = [query EXCEPT !.at = "done"]
  /\ toQuery' = Tail(toQuery)
  /\ UNCHANGED <<restOfQuery, qOpen, qCache, floor, installed>>

\* request_work_tag names the version of the request's own document only.
Named(s) == [d \in Docs |-> IF d = s.doc THEN s.texts[d] ELSE 0]
Current(r) == WorkIsCurrent(qOpen, sent[r].generation, Named(sent[r]))

Respond(r, response) ==
  /\ answers' = [answers EXCEPT ![r] = Append(@, response)]
  /\ query' = [at |-> "idle", request |-> None]

(***************************************************************************)
(* A request first adopts what the mailbox holds.  A cancelled or outdated *)
(* one is then answered without being computed.                            *)
(***************************************************************************)
QueryRequest ==
  /\ query.at = "idle" /\ toQuery # <<>> /\ Head(toQuery).kind = "request"
  /\ LET r == Head(toQuery).request IN
     /\ Adopt
     /\ cancelled' = cancelled \ {r}
     /\ \/ r \in cancelled /\ Respond(r, [kind |-> "cancelled"])
        \/ r \notin cancelled /\ ~Current(r) /\ Respond(r, [kind |-> "modified"])
        \/ /\ r \notin cancelled /\ Current(r)
           /\ query' = [at |-> "answering", request |-> r] /\ UNCHANGED answers
  /\ toQuery' = Tail(toQuery)
  /\ UNCHANGED <<mainVars, toCheck, checkVars, qOpen, floor>>

(***************************************************************************)
(* What a request is computed from: hover and the other reading requests   *)
(* fall back to the last good compilation, a rename does not.              *)
(***************************************************************************)
Answers(d, kind) ==
  LET fresh == Lookup(qCache.entries, d)
      used  == IF fresh = {} /\ kind = "hover" THEN Lookup(qCache.good, d) ELSE fresh
  IN  IF used = {} THEN {[kind |-> "null"]} ELSE {[kind |-> "ok", from |-> c] : c \in used}

\* The handler has returned; what it was asked may have changed meanwhile.
FinishAnswer ==
  /\ query.at = "answering"
  /\ LET r == query.request IN
     /\ cancelled' = cancelled \ {r}
     /\ qCache' = Touch(qCache, sent[r].doc)
     /\ \/ r \in cancelled /\ Respond(r, [kind |-> "cancelled"])
        \/ r \notin cancelled /\ ~Current(r) /\ Respond(r, [kind |-> "modified"])
        \/ /\ r \notin cancelled /\ Current(r)
           /\ \E a \in Answers(sent[r].doc, sent[r].kind) : Respond(r, a)
  /\ UNCHANGED <<mainVars, toQuery, toCheck, checkVars, qOpen, floor, installed>>
-----------------------------------------------------------------------------
MainStep ==
  \/ \E d \in Edited : OpenDoc(d) \/ CloseDoc(d)
  \/ \E d \in Watched : WatchDoc(d) \/ WriteFile(d)
  \/ \E r \in Requests, d \in Asked, kind \in Kinds : Request(r, d, kind)
  \/ \E r \in Requests : Refuse(r) \/ Cancel(r)
  \/ Debounced \/ Shutdown \/ Stop

CheckStep ==
  \/ CheckChange \/ DeferDiagnostics \/ CheckDiagnostics \/ CheckStop
  \/ GiveUp \/ PublishEarly \/ (\E d \in Docs : CompileFor(d)) \/ CompileCancelled
  \/ PublishFinal \/ SendDiagnostics

QueryStep ==
  QueryChange \/ QueryRequest \/ QueryStop \/ FinishAnswer

Stopped == phase = "stopped" /\ checker.at = "done" /\ query.at = "done"
Finished == Stopped /\ UNCHANGED serverVars

ServerNext == MainStep \/ CheckStep \/ QueryStep \/ Finished

\* Threads run; the debounce passes unless the editor keeps typing.
ServerSpec ==
  /\ ServerInit /\ [][ServerNext]_serverVars
  /\ WF_serverVars(CheckStep) /\ WF_serverVars(QueryStep) /\ WF_serverVars(Debounced)
-----------------------------------------------------------------------------
Answered(r) == answers[r] # <<>> /\ answers[r][1].kind = "ok"

(***************************************************************************)
(* An edit (a rename) is computed from exactly the texts the editor had    *)
(* when it asked, in every open document the compilation contains,         *)
(* whichever snapshot the checking thread had published by then            *)
(* (lsp.rs 111-150, compilation.rs install).                               *)
(***************************************************************************)
EditsCurrentText ==
  \A r \in Requests : Answered(r) /\ sent[r].kind = "rename" =>
    LET c == answers[r][1].from
    IN  \A d \in DOMAIN c.source : sent[r].texts[d] > 0 => c.source[d] = sent[r].texts[d]

(***************************************************************************)
(* No answer, fallbacks included, rests on a buffer that had been closed   *)
(* or on a file older than the last change the editor had announced:       *)
(* "Do not resurrect closed overlays or invalidated dependencies"          *)
(* (lsp.rs:102).                                                           *)
(***************************************************************************)
NothingResurrected ==
  \A r \in Requests : Answered(r) =>
    LET c == answers[r][1].from
    IN  \A d \in DOMAIN c.source :
          IF c.source[d] > 0 THEN c.source[d] > sent[r].closed[d]
                             ELSE c.source[d] <= sent[r].watched[d]

(***************************************************************************)
(* Once the diagnostics of the current generation have been sent, the      *)
(* editor shows those of the current texts and nothing else: every open    *)
(* document has its own, a document no open one uses has none              *)
(* (workspace.rs publish_diagnostics).                                     *)
(***************************************************************************)
ShownMatches ==
  checker.at = "idle" /\ shownFor = generation =>
    \A d \in Docs :
      /\ versions[d] > 0 => shown[d] = versions[d]
      /\ (\A u \in Opened(versions) : d \notin Uses[u]) => shown[d] = None

(***************************************************************************)
(* Diagnostics match the texts, in a state of the right shape.             *)
(***************************************************************************)
DiagnosticsMatch == ServerTypeOK /\ ShownMatches

(***************************************************************************)
(* Every request is answered in the end, exactly once, whatever is         *)
(* cancelled or changed meanwhile and also when the server is stopped with *)
(* requests in its queue.                                                  *)
(***************************************************************************)
EveryRequestAnswered ==
  \A r \in Requests : (sent[r] # Unsent) ~> [](Len(answers[r]) = 1)

(***************************************************************************)
(* Diagnostics catch up: again and again the editor shows those of the     *)
(* current generation, unless the session ends.  In particular they are    *)
(* not lost behind a change that interrupts their computation.             *)
(***************************************************************************)
DiagnosticsCatchUp == []<>(shownFor = generation \/ phase # "running")
=============================================================================
