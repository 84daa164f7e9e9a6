----------------------------- MODULE Callbacks -----------------------------
(***************************************************************************)
(* One callback token that C code holds (host/src/callbacks.rs).  C        *)
(* threads reach it through `invoke` and the table of signals; the thread  *)
(* that registered it, the owner, runs the handler: for a direct callback  *)
(* inside the foreign call, for a queued one when it polls.                *)
(*                                                                         *)
(* An event is its number and its length in bytes; what it says is left    *)
(* out.  The code's limits are Capacity = 4096 and ByteLimit = 16 MiB.     *)
(***************************************************************************)
EXTENDS Integers, Sequences, Functions

CONSTANTS CThreads,      \* threads of the foreign library
          Capacity,      \* events a queue may hold
          ByteLimit,     \* bytes a queue may hold, and a packet may have
          MaxEvents      \* bound on the packets C sends in a behaviour

CallbackAssumption == {Capacity, ByteLimit, MaxEvents} \subseteq Nat

VARIABLES queued,        \* Signal.queued: how the callback is delivered
          listed,        \* the token is in SIGNALS
          held,          \* the token is in the owner's HANDLERS
          closed, bytes, events, error, \* Pending, under its mutex
          place,         \* where each C thread is in `invoke`
          owner,         \* where the owner is: idle, poll, handler, closing...
          batch,         \* the snapshot that poll still has to deliver
          active,        \* Entry.active
          sent,          \* packets C has sent so far
          accepted, delivered, lost, \* histories of the queue
          mark           \* Len(accepted) when poll took its snapshot

callbackVars == <<queued, listed, held, closed, bytes, events, error, place, owner,
                  batch, active, sent, accepted, delivered, lost, mark>>

Packet == [number : 1..MaxEvents, length : 0..ByteLimit]

\* The bytes of the packets in a queue.
Total(s) ==
  LET sum[i \in 0..Len(s)] == IF i = 0 THEN 0 ELSE sum[i - 1] + s[i].length
  IN  sum[Len(s)]


CallbackTypeOK ==
  /\ queued \in BOOLEAN /\ listed \in BOOLEAN /\ held \in BOOLEAN
  /\ closed \in BOOLEAN /\ error \in BOOLEAN /\ active \in BOOLEAN
  /\ bytes \in 0..ByteLimit
  /\ events \in Seq(Packet) /\ batch \in Seq(Packet)
  /\ accepted \in Seq(Packet) /\ delivered \in Seq(Packet)
  /\ lost \subseteq Packet
  /\ place \in [CThreads -> {"out", "cloned", "open"}]
  /\ owner \in {"idle", "poll", "handler", "closed", "unlisted", "released"}
  /\ sent \in 0..MaxEvents /\ mark \in 0..MaxEvents

CallbackInit ==
  /\ queued \in BOOLEAN
  /\ listed = TRUE /\ held = TRUE /\ closed = FALSE /\ error = FALSE
  /\ bytes = 0 /\ events = <<>> /\ batch = <<>>
  /\ place = [t \in CThreads |-> "out"] /\ owner = "idle" /\ active = FALSE
  /\ sent = 0 /\ accepted = <<>> /\ delivered = <<>> /\ lost = {} /\ mark = 0

queueVars == <<bytes, events, accepted>>

Reaches(t, step) == place' = [place EXCEPT ![t] = step]
-----------------------------------------------------------------------------
(***************************************************************************)
(* Mutants: plausible mistakes, each of which breaks a property below.     *)
(* They are no part of the specification.                                  *)
(***************************************************************************)
EnqueueUnchecked(t, p) ==       \* relies on the earlier look at `closed`
  /\ queued /\ place[t] = "open"
  /\ Reaches(t, "out")
  /\ Len(events) < Capacity /\ p.length <= ByteLimit - bytes
  /\ bytes' = bytes + p.length
  /\ events' = Append(events, p)
  /\ accepted' = Append(accepted, p)
  /\ UNCHANGED <<queued, listed, held, closed, error, owner, batch, active, delivered,
                 lost, mark>>

-----------------------------------------------------------------------------
(***************************************************************************)
(* invoke: the signal is cloned out of the table; a wrong signature leaves *)
(* an error, whether or not the signal is closed; a closed signal fails.   *)
(***************************************************************************)
Lookup(t) ==
  /\ place[t] = "out"
  /\ listed
  /\ Reaches(t, "cloned")
  /\ UNCHANGED <<queued, listed, held, closed, queueVars, error, owner, batch, active,
                 sent, delivered, lost, mark>>

Mismatch(t) ==
  /\ place[t] = "cloned"
  /\ Reaches(t, "out")
  /\ error' = TRUE
  /\ UNCHANGED <<queued, listed, held, closed, queueVars, owner, batch, active, sent,
                 delivered, lost, mark>>

LookClosed(t) ==
  /\ place[t] = "cloned"
  /\ Reaches(t, IF closed THEN "out" ELSE "open")
  /\ UNCHANGED <<queued, listed, held, closed, queueVars, error, owner, batch, active,
                 sent, delivered, lost, mark>>

(***************************************************************************)
(* A probe of the token returns; a result outside its C type, an invalid   *)
(* packet, and a direct callback on a foreign thread only leave an error.  *)
(***************************************************************************)
Probe(t) ==
  /\ place[t] = "open"
  /\ Reaches(t, "out")
  /\ UNCHANGED <<queued, listed, held, closed, queueVars, error, owner, batch, active,
                 sent, delivered, lost, mark>>

Reject(t) ==
  /\ place[t] = "open"
  /\ Reaches(t, "out")
  /\ error' = TRUE
  /\ UNCHANGED <<queued, listed, held, closed, queueVars, owner, batch, active, sent,
                 delivered, lost, mark>>

(***************************************************************************)
(* invoke of a queued callback: under the mutex the signal may have been   *)
(* closed since; a full queue is an error the owner will see; otherwise    *)
(* the packet is copied in.                                                *)
(***************************************************************************)
Overfull(p) == Len(events) >= Capacity \/ p.length > ByteLimit - bytes

Enqueue(t, p) ==
  /\ queued /\ place[t] = "open"
  /\ Reaches(t, "out")
  /\ \/ /\ closed
        /\ UNCHANGED <<queueVars, error>>
     \/ /\ ~closed /\ Overfull(p)
        /\ error' = TRUE
        /\ UNCHANGED queueVars
     \/ /\ ~closed /\ ~Overfull(p)
        /\ bytes' = bytes + p.length
        /\ events' = Append(events, p)
        /\ accepted' = Append(accepted, p)
        /\ UNCHANGED error
  /\ UNCHANGED <<queued, listed, held, closed, owner, batch, active, delivered, lost, mark>>

CSends(t) ==
  /\ sent < MaxEvents
  /\ sent' = sent + 1
  /\ \E l \in 0..ByteLimit : Enqueue(t, [number |-> sent + 1, length |-> l])

(***************************************************************************)
(* A direct callback on the owner's own thread, inside a foreign call: the *)
(* handler runs, unless it is running already.                             *)
(***************************************************************************)
InvokeDirect ==
  /\ ~queued /\ owner \in {"idle", "handler"} /\ listed
  /\ \/ /\ active
        /\ error' = TRUE
        /\ UNCHANGED <<owner, active>>
     \/ /\ ~active
        /\ owner' = "handler" /\ active' = TRUE
        /\ UNCHANGED error
  /\ UNCHANGED <<queued, listed, held, closed, queueVars, place, batch, sent, delivered,
                 lost, mark>>

(***************************************************************************)
(* poll: a stored error is reported first and leaves the queue alone;      *)
(* otherwise everything queued becomes the snapshot to deliver.            *)
(***************************************************************************)
PollQueue ==
  /\ owner = "idle" /\ held
  /\ \/ /\ error
        /\ error' = FALSE
        /\ UNCHANGED <<bytes, events, batch, owner, mark>>
     \/ /\ ~error
        /\ batch' = events
        /\ events' = <<>> /\ bytes' = 0
        /\ owner' = "poll"
        /\ mark' = Len(accepted)
        /\ UNCHANGED error
  /\ UNCHANGED <<queued, listed, held, closed, place, active, sent, accepted, delivered, lost>>

Deliver ==
  /\ owner = "poll"
  /\ \/ /\ batch = <<>>
        /\ owner' = "idle"
        /\ UNCHANGED <<batch, delivered, active>>
     \/ /\ batch # <<>>
        /\ batch' = Tail(batch)
        /\ delivered' = Append(delivered, Head(batch))
        /\ owner' = "handler" /\ active' = TRUE
  /\ UNCHANGED <<queued, listed, held, closed, queueVars, error, place, sent, lost, mark>>

(***************************************************************************)
(* A poll from inside the handler drains the queue too, and every call of  *)
(* it is refused as recursive: those events are lost, with an error.       *)
(***************************************************************************)
NestedPoll ==
  /\ owner = "handler" /\ queued /\ ~error
  /\ lost' = lost \cup Range(events)
  /\ events' = <<>> /\ bytes' = 0
  /\ UNCHANGED <<queued, listed, held, closed, error, place, owner, batch, active, sent,
                 accepted, delivered, mark>>

TakeError ==
  /\ owner \in {"idle", "handler"} /\ held /\ error
  /\ error' = FALSE
  /\ UNCHANGED <<queued, listed, held, closed, queueVars, place, owner, batch, active, sent,
                 delivered, lost, mark>>

(***************************************************************************)
(* The handler returns, fails or panics; a direct one that failed leaves   *)
(* its error for the owner, a polled one's is collected by poll.           *)
(***************************************************************************)
HandlerEnds ==
  /\ owner = "handler"
  /\ active' = FALSE
  /\ owner' = IF queued THEN "poll" ELSE "idle"
  /\ error' \in IF queued THEN {error} ELSE {error, TRUE}
  /\ UNCHANGED <<queued, listed, held, closed, queueVars, place, batch, sent, delivered,
                 lost, mark>>

(***************************************************************************)
(* release: refused while the handler runs; then the signal is closed, the *)
(* token is taken off both tables, one after the other.                    *)
(***************************************************************************)
Close ==
  /\ owner \in {"idle", "handler"} /\ held /\ ~active
  /\ closed' = TRUE /\ events' = <<>> /\ bytes' = 0
  /\ owner' = "closed"
  /\ UNCHANGED <<queued, listed, held, error, place, batch, active, sent, accepted,
                 delivered, lost, mark>>

Unlist ==
  /\ owner = "closed"
  /\ listed' = FALSE
  /\ owner' = "unlisted"
  /\ UNCHANGED <<queued, held, closed, queueVars, error, place, batch, active, sent,
                 delivered, lost, mark>>

Forget ==
  /\ owner = "unlisted"
  /\ held' = FALSE
  /\ owner' = "released"
  /\ UNCHANGED <<queued, listed, closed, queueVars, error, place, batch, active, sent,
                 delivered, lost, mark>>

Rest == owner = "released" /\ (\A t \in CThreads : place[t] = "out") /\ UNCHANGED callbackVars

OwnerSteps == \/ InvokeDirect \/ PollQueue \/ Deliver \/ NestedPoll \/ TakeError
              \/ HandlerEnds \/ Close \/ Unlist \/ Forget
CallbackNext == \/ OwnerSteps
                \/ \E t \in CThreads : \/ Lookup(t) \/ Mismatch(t) \/ LookClosed(t)
                                      \/ Probe(t) \/ Reject(t) \/ CSends(t)
                \/ Rest

(***************************************************************************)
(* Handlers end and the owner goes on with what it is inside of; neither   *)
(* the owner nor C need begin anything.                                    *)
(***************************************************************************)
OwnerProceeds == Deliver \/ HandlerEnds \/ Unlist \/ Forget
CallbackFairness == WF_callbackVars(OwnerProceeds)

CallbackSpec == CallbackInit /\ [][CallbackNext]_callbackVars /\ CallbackFairness
-----------------------------------------------------------------------------
(***************************************************************************)
(* The queue stays inside its limits and its byte count is the bytes it    *)
(* holds, so the subtraction in the check never wraps.                     *)
(***************************************************************************)
QueueBounded == Len(events) <= Capacity /\ bytes = Total(events) /\ bytes <= ByteLimit

(***************************************************************************)
(* A C thread that found the signal before it was closed adds nothing      *)
(* afterwards, and no handler runs on a closed callback.                   *)
(***************************************************************************)
ClosedIsFinal == closed => events = <<>> /\ batch = <<>> /\ ~active

(***************************************************************************)
(* While the callback is open, each accepted event is delivered once, in   *)
(* the order of acceptance, unless a nested poll refused it: what was      *)
(* delivered, what poll holds and what is queued are together all that was *)
(* accepted and not lost, by rising numbers.                               *)
(***************************************************************************)
Ascending(s) == \A i, j \in 1..Len(s) : i < j => s[i].number < s[j].number

InOrder ==
  ~closed => LET kept == delivered \o batch \o events
             IN  /\ Ascending(accepted) /\ Ascending(kept)
                 /\ Range(kept) = Range(accepted) \ lost

(***************************************************************************)
(* A poll delivers only what was pending when it began, so producers       *)
(* cannot hold the owner inside it.                                        *)
(***************************************************************************)
SnapshotOnly ==
  owner \in {"poll", "handler"} /\ queued =>
    Range(batch \o delivered) \subseteq Range(SubSeq(accepted, 1, mark))

(***************************************************************************)
(* What a library may rely on of a callback it registered, as a whole.     *)
(***************************************************************************)
CallbackDelivery == CallbackTypeOK /\ QueueBounded /\ ClosedIsFinal /\ InOrder /\ SnapshotOnly

(***************************************************************************)
(* The owner comes out of poll, and out of release.                        *)
(***************************************************************************)
OwnerReturns == (owner \in {"poll", "handler", "closed", "unlisted"})
                  ~> (owner \in {"idle", "released"})
=============================================================================
