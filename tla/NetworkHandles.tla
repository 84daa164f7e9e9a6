--------------------------- MODULE NetworkHandles ---------------------------
(***************************************************************************)
(* The sockets of SystemHost (host/src/lib.rs and readiness.rs): a table   *)
(* of handles under one lock, sockets kept alive by the operations that    *)
(* use them, a lock per connection for reading and writing, and waits made *)
(* of short polls that notice a close.                                     *)
(*                                                                         *)
(* A socket is a number that is never used again; its descriptor is one of *)
(* few that the operating system reuses as soon as the socket is closed.   *)
(* An operation holds the sockets it has an Arc of, or owns, until it ends.*)
(***************************************************************************)
EXTENDS Integers, Sequences, FiniteSets, Functions

CONSTANTS Threads,
          Kinds,        \* operations the threads perform
          Descriptors,  \* what the operating system can give out
          MaxHandle,    \* i64::MAX, which next_handle never gives out
          Timeout,      \* of a wait, in units of time
          MaxSockets,   \* bound on the sockets ever opened
          MaxInput,     \* bound on what peers send to a socket
          Chunks,       \* chunks of one write_all
          MaxOutput     \* bound on what is written to a socket

NetworkAssumption ==
  /\ {Timeout, MaxSockets, MaxInput, MaxOutput} \subseteq Nat
  /\ {MaxHandle, Chunks} \subseteq Nat \ {0}
  /\ Kinds \subseteq {"listen", "connect", "accept", "wait", "read", "write", "close"}

VARIABLES
  nextHandle,   \* NetworkHost.next_handle
  listeners,    \* handle -> socket
  connections,
  op,           \* what each thread is doing
  opened,       \* sockets opened so far
  bound,        \* descriptor -> socket, for the open ones
  input,        \* data, or connection requests, waiting in a socket
  io,           \* the thread, if any, that holds a connection's io lock
  output        \* chunks written to a socket, as the peer sees them

handleVars == <<nextHandle, listeners, connections>>
peerVars == <<input, io, output>>
networkVars == <<handleVars, op, opened, bound, peerVars>>

Idle == [at |-> "idle", holds |-> {}]
Sockets == 1..MaxSockets
Handles == DOMAIN listeners \cup DOMAIN connections
Socket(h) == IF h \in DOMAIN listeners THEN listeners[h] ELSE connections[h]
Waiting == {"poll", "recheck", "again"}

\* Sockets some Arc, or some operation, keeps open.
Alive == Range(listeners) \cup Range(connections) \cup UNION {op[t].holds : t \in Threads}

NetworkTypeOK ==
  /\ nextHandle \in 1..MaxHandle /\ Handles \subseteq 1..(nextHandle - 1)
  /\ DOMAIN listeners \cap DOMAIN connections = {} /\ Alive \subseteq 1..opened
  /\ opened \in 0..MaxSockets /\ DOMAIN bound \subseteq Descriptors
  /\ \A s \in Sockets : input[s] \in 0..MaxInput /\ io[s] \subseteq Threads

NetworkInit ==
  /\ nextHandle = 1 /\ listeners = <<>> /\ connections = <<>>
  /\ op = [t \in Threads |-> Idle]
  /\ opened = 0 /\ bound = <<>>
  /\ input = [s \in Sockets |-> 0] /\ output = [s \in Sockets |-> <<>>]
  /\ io = [s \in Sockets |-> {}]

Step(t, record) == op' = [op EXCEPT ![t] = record]

\* Dropping the last Arc of a socket closes it and frees its descriptor.
DropDead == bound' = Restrict(bound, {d \in DOMAIN bound : bound[d] \in Alive'})

\* The operation t begins: it holds the socket of an open handle.  A handle
\* that is not open is an error, which changes nothing.
Begins(t, kind, h) == op[t] = Idle /\ kind \in Kinds /\ h \in Handles
DescriptorOf(s) == CHOOSE d \in DOMAIN bound : bound[d] = s
-----------------------------------------------------------------------------
(***************************************************************************)
(* Mutants: plausible mistakes, no part of the specification.              *)
(***************************************************************************)
PollBorrowed(t, h) ==       \* the wait keeps the descriptor and no Arc
  [at |-> "poll", holds |-> {}, handle |-> h, socket |-> Socket(h),
   fd |-> DescriptorOf(Socket(h)), left |-> Timeout]

LockUnchecked(t) ==         \* reads and writes without the io lock
  /\ op[t].at = "lock"
  /\ Step(t, [op[t] EXCEPT !.at = op[t].kind])
  /\ UNCHANGED <<handleVars, opened, bound, peerVars>>

-----------------------------------------------------------------------------
(***************************************************************************)
(* listen, connect and accept: the call of the operating system is made    *)
(* without the table's lock, the handle is given under it.                 *)
(***************************************************************************)
Obtain(t, kind, held) ==
  /\ opened < MaxSockets /\ opened' = opened + 1
  /\ \E d \in Descriptors \ DOMAIN bound :
       bound' = [e \in DOMAIN bound \cup {d} |-> IF e = d THEN opened' ELSE bound[e]]
  /\ Step(t, [at |-> "insert", holds |-> held \cup {opened'}, kind |-> kind, socket |-> opened'])
  /\ UNCHANGED <<handleVars, io, output>>

OpenSocket(t) ==
  /\ op[t] = Idle
  /\ \E kind \in Kinds \cap {"listen", "connect"} : Obtain(t, kind, {})
  /\ UNCHANGED input

AcceptBegins(t, h) ==
  /\ Begins(t, "accept", h) /\ h \in DOMAIN listeners
  /\ Step(t, [at |-> "accept", holds |-> {Socket(h)}, socket |-> Socket(h)])
  /\ UNCHANGED <<handleVars, opened, bound, peerVars>>

\* A listener that is closed meanwhile still accepts through the Arc.
Accept(t) ==
  /\ op[t].at = "accept" /\ input[op[t].socket] > 0
  /\ input' = [input EXCEPT ![op[t].socket] = @ - 1]
  /\ Obtain(t, "connect", op[t].holds)

\* next_handle: the identity that could not be followed is not given out.
NextFree == nextHandle
Exhausted == nextHandle = MaxHandle
Advance == nextHandle' = nextHandle + 1

InsertSocket(t) ==
  /\ op[t].at = "insert" /\ Step(t, Idle)
  /\ IF Exhausted THEN UNCHANGED handleVars
     ELSE /\ Advance
          /\ LET With(table) == [h \in DOMAIN table \cup {NextFree} |->
                                  IF h = NextFree THEN op[t].socket ELSE table[h]]
             IN  IF op[t].kind = "listen"
                 THEN listeners' = With(listeners) /\ UNCHANGED connections
                 ELSE connections' = With(connections) /\ UNCHANGED listeners
  /\ DropDead /\ UNCHANGED <<opened, peerVars>>

\* close_listener and close_connection.
CloseHandle(t, h) ==
  /\ Begins(t, "close", h)
  /\ listeners' = Restrict(listeners, DOMAIN listeners \ {h})
  /\ connections' = Restrict(connections, DOMAIN connections \ {h})
  /\ UNCHANGED <<nextHandle, op, opened, peerVars>> /\ DropDead
-----------------------------------------------------------------------------
(***************************************************************************)
(* wait_socket.  The Arc lasts for one poll; the handle is looked up again *)
(* before the next one.                                                    *)
(***************************************************************************)
PollOf(t, h) ==
  [at |-> "poll", holds |-> {Socket(h)}, handle |-> h, socket |-> Socket(h),
   fd |-> DescriptorOf(Socket(h)), left |-> Timeout]

WaitBegins(t, h) ==
  /\ Begins(t, "wait", h) /\ Step(t, PollOf(t, h))
  /\ UNCHANGED <<handleVars, opened, bound, peerVars>>

\* poll returns because of input, the end of its slice, or a signal; it may
\* also fail.
PollSocket(t) ==
  /\ op[t].at = "poll"
  /\ \/ \E ready \in BOOLEAN :
          /\ ready <=> op[t].fd \in DOMAIN bound /\ input[bound[op[t].fd]] > 0
          /\ Step(t, [at |-> "recheck", holds |-> {}, handle |-> op[t].handle, ready |-> ready,
                      socket |-> op[t].socket, left |-> op[t].left,
                      polled |-> IF op[t].fd \in DOMAIN bound THEN bound[op[t].fd] ELSE 0])
     \/ Step(t, Idle)
  /\ UNCHANGED <<handleVars, opened, peerVars>> /\ DropDead

\* The handle is tested before what the poll has said is used.
Recheck(t) ==
  /\ op[t].at = "recheck"
  /\ Step(t, IF op[t].handle \notin Handles \/ op[t].ready \/ op[t].left = 0 THEN Idle
             ELSE [op[t] EXCEPT !.at = "again"])
  /\ UNCHANGED <<handleVars, opened, bound, peerVars>>

PollAgain(t) ==
  /\ op[t].at = "again"
  /\ Step(t, IF op[t].handle \notin Handles THEN Idle
             ELSE [PollOf(t, op[t].handle) EXCEPT !.left = op[t].left])
  /\ UNCHANGED <<handleVars, opened, bound, peerVars>>

TimePasses(t) ==
  /\ op[t].at \in Waiting /\ op[t].left > 0
  /\ Step(t, [op[t] EXCEPT !.left = @ - 1])
  /\ UNCHANGED <<handleVars, opened, bound, peerVars>>
-----------------------------------------------------------------------------
(***************************************************************************)
(* read_bytes and write_bytes hold the connection's io lock for the whole  *)
(* call.  Either may fail or time out, a write after some of its chunks.   *)
(***************************************************************************)
TransferBegins(t, h) ==
  /\ \E kind \in {"read", "write"} :
       /\ Begins(t, kind, h) /\ h \in DOMAIN connections
       /\ Step(t, [at |-> "lock", kind |-> kind, holds |-> {Socket(h)}, socket |-> Socket(h),
                   chunk |-> 0])
  /\ UNCHANGED <<handleVars, opened, bound, peerVars>>

Lock(t) ==
  /\ op[t].at = "lock" /\ io[op[t].socket] = {}
  /\ io' = [io EXCEPT ![op[t].socket] = {t}]
  /\ Step(t, [op[t] EXCEPT !.at = op[t].kind])
  /\ UNCHANGED <<handleVars, opened, bound, input, output>>

TransferEnds(t) ==
  /\ Step(t, Idle) /\ io' = [io EXCEPT ![op[t].socket] = {}]
  /\ UNCHANGED <<handleVars, opened>> /\ DropDead

Read(t) ==
  /\ op[t].at = "read"
  /\ \/ input[op[t].socket] > 0 /\ input' = [input EXCEPT ![op[t].socket] = @ - 1]
     \/ UNCHANGED input
  /\ TransferEnds(t) /\ UNCHANGED output

WriteChunk(t) ==
  /\ op[t].at = "write" /\ op[t].chunk < Chunks
  /\ Len(output[op[t].socket]) < MaxOutput
  /\ output' = [output EXCEPT ![op[t].socket] = Append(@, <<t, op[t].chunk>>)]
  /\ Step(t, [op[t] EXCEPT !.chunk = @ + 1])
  /\ UNCHANGED <<handleVars, opened, bound, input, io>>

WriteEnds(t) ==
  /\ op[t].at = "write" /\ TransferEnds(t) /\ UNCHANGED <<input, output>>
-----------------------------------------------------------------------------
\* Peers send data to a connection and connection requests to a listener.
PeerSends(s) ==
  /\ s \in Range(bound) /\ input[s] < MaxInput
  /\ input' = [input EXCEPT ![s] = @ + 1]
  /\ UNCHANGED <<handleVars, op, opened, bound, io, output>>

NetworkNext ==
  \/ \E t \in Threads :
       \/ OpenSocket(t) \/ Accept(t) \/ InsertSocket(t)
       \/ PollSocket(t) \/ Recheck(t) \/ PollAgain(t) \/ TimePasses(t)
       \/ Lock(t) \/ Read(t) \/ WriteChunk(t) \/ WriteEnds(t)
       \/ \E h \in 1..MaxHandle :
            AcceptBegins(t, h) \/ CloseHandle(t, h) \/ WaitBegins(t, h) \/ TransferBegins(t, h)
  \/ \E s \in Sockets : PeerSends(s)

NetworkSpec == NetworkInit /\ [][NetworkNext]_networkVars

\* Time passes and a thread inside wait_socket runs: each poll is bounded.
Waits(t) == PollSocket(t) \/ Recheck(t) \/ PollAgain(t)
NetworkFairness ==
  \A t \in Threads : WF_networkVars(Waits(t)) /\ WF_networkVars(TimePasses(t))

NetworkFairSpec == NetworkSpec /\ NetworkFairness
-----------------------------------------------------------------------------
\* A wait always polls the socket of its handle, although the handle may be
\* closed and its descriptor given to another socket while it polls.
PollsItsOwn == \A t \in Threads : op[t].at = "recheck" => op[t].polled = op[t].socket

\* A handle that is still open stands for the socket it stood for when an
\* operation looked it up: a late operation never reaches a newer socket.
SameSocket ==
  \A t \in Threads : op[t].at \in Waiting /\ op[t].handle \in Handles =>
    Socket(op[t].handle) = op[t].socket

\* A wait is about one socket from its lookup to its answer; handles stop at
\* the limit instead of wrapping.
WaitKeepsSocket == NetworkTypeOK /\ PollsItsOwn /\ SameSocket

\* The bytes of one write reach the peer together: no other thread's write
\* comes between its chunks.
WritesWhole ==
  \A s \in Sockets : \A i \in DOMAIN output[s] : output[s][i][2] > 0 =>
    i > 1 /\ output[s][i - 1] = <<output[s][i][1], output[s][i][2] - 1>>

\* A wait ends by its timeout, whatever peers and other threads do.
WaitEnds == \A t \in Threads : op[t].at \in Waiting ~> op[t] = Idle
=============================================================================
