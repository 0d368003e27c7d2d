----------------------------- MODULE RunEvents -----------------------------
(***************************************************************************)
(* The durable events of one Run on their way to a client's timeline: the  *)
(* stores that number them in their transactions, the notifications that   *)
(* follow a commit, the hub's bounded subscription with its replay and its *)
(* live tail, the SSE connection, and the client that reduces what arrives *)
(* and reconnects from the last sequence it applied. A step is what runs   *)
(* between two awaits.                                                     *)
(***************************************************************************)
EXTENDS Integers, Sequences, SequencesExt

CONSTANTS
    PageSize,       \* REPLAY_PAGE_SIZE
    MaxPending,     \* queuePolicy.maxPendingItems
    MaxSeen,        \* limits.maxSeenEvents of the timeline
    MaxAttempts,    \* RECONNECT_DELAYS_MS.length
    WireSize,       \* bound: events the connection buffers
    MaxEvents,      \* bound: durable events of the Run
    MaxInFlight,    \* bound: events committed while a notification is due
    MaxTransients,  \* bound: transient events
    MaxBreaks       \* bound: lost connections and daemon crashes

ASSUME SizesAssumption ==
    {PageSize, MaxPending, MaxSeen, MaxAttempts, WireSize} \subseteq Nat \ {0}
ASSUME BoundsAssumption ==
    {MaxEvents, MaxInFlight, MaxTransients, MaxBreaks} \subseteq Nat

\* The timeline remembers at least the events a late notification may repeat.
ASSUME SeenAssumption == MaxInFlight \in 1 .. MaxSeen

VARIABLES
    \* SQLite.
    last,           \* event_sequences.last_sequence
    silent,         \* events whose writer never notifies
    \* The writers, in memory.
    due,            \* committed events to be notified, in the order of their commits
    transients,     \* transient events emitted so far, for MaxTransients
    \* The client's subscription in the hub.
    stream,         \* where watchEvents is
    closed,         \* SubscriptionState.closed
    queue,          \* BoundedSubscriberQueue.values
    mark,           \* highWatermark
    cursor,         \* cursor
    page,           \* events of the replay page, or drained, still to be yielded
    wire,           \* yielded events the client has not read
    \* The client.
    link,           \* transportState, with the scheduler's phase
    attempt,        \* ReconnectScheduler.attempt
    applied,        \* the sequences its timeline applied, oldest first
    breaks          \* so far, for MaxBreaks

writers == <<last, silent, due, transients>>
hub     == <<stream, closed, queue, mark, cursor, page>>
client  == <<link, attempt, applied>>
vars == <<last, silent, due, transients, stream, closed, queue, mark, cursor, page, wire,
          link, attempt, applied, breaks>>

\* A durable event is its sequence; of the transients only their class matters.
Coalescible == 0
Ordered     == -1
Events      == -1 .. MaxEvents
Durable(e)  == e > 0

Newest(s) == IF s = <<>> THEN 0 ELSE s[Len(s)]

\* timeline.lastDurableSequence and timeline.seenEvents.
Position == Newest(applied)
Seen     == {applied[i] : i \in {j \in DOMAIN applied : j > Len(applied) - MaxSeen}}

Init ==
    /\ last = 0 /\ silent = {} /\ due = <<>> /\ transients = 0
    /\ stream = "none" /\ closed = FALSE /\ queue = <<>> /\ mark = 0 /\ cursor = 0 /\ page = <<>>
    /\ wire = <<>>
    /\ link = "attaching" /\ attempt = 0 /\ applied = <<>>
    /\ breaks = 0
-----------------------------------------------------------------------------
(***************************************************************************)
(* The writers. A transaction numbers its event; the writer is told of the *)
(* commit some awaits later and only then notifies the hub. The writers of *)
(* approval resolutions and of accepted inputs drop the committed event,   *)
(* and so does one that fails to reload what it committed.                 *)
(***************************************************************************)
Commit ==
    /\ last < MaxEvents
    /\ due # <<>> => last + 1 - Head(due) < MaxInFlight
    /\ last' = last + 1
    /\ \/ due' = Append(due, last + 1) /\ UNCHANGED silent
       \/ silent' = silent \cup {last + 1} /\ UNCHANGED due
    /\ UNCHANGED <<transients, hub, wire, client, breaks>>

\* Mutated forms follow: each is a bug that breaks the property PROJECT.json
\* names for it, and none is used.
\* There is no bound on what a subscriber may leave unread.
EnqueueUnbounded(e) ==
    /\ queue' = IF stream = "none" \/ closed THEN queue ELSE Append(queue, e)
    /\ UNCHANGED closed

\* A full queue drops the event and keeps the subscription.
EnqueueDrops(e) ==
    /\ queue' = IF stream = "none" \/ closed \/ Len(queue) >= MaxPending THEN queue
                ELSE Append(queue, e)
    /\ UNCHANGED closed

\* A coalescible event replaces its pending predecessor where that stands; a
\* full queue closes the subscription with all that is pending.
Enqueue(e) ==
    IF stream = "none" \/ closed \/ (e = Coalescible /\ Contains(queue, e))
      THEN UNCHANGED <<queue, closed>>
    ELSE IF Len(queue) >= MaxPending
      THEN queue' = <<>> /\ closed' = TRUE
      ELSE queue' = Append(queue, e) /\ UNCHANGED closed

notifyCommitted ==
    /\ due # <<>>
    /\ Enqueue(Head(due))
    /\ due' = Tail(due)
    /\ UNCHANGED <<last, silent, transients, stream, mark, cursor, page, wire, client, breaks>>

emitTransient ==
    /\ transients < MaxTransients
    /\ transients' = transients + 1
    /\ \E e \in {Coalescible, Ordered} : Enqueue(e)
    /\ UNCHANGED <<last, silent, due, stream, mark, cursor, page, wire, client, breaks>>
-----------------------------------------------------------------------------
(***************************************************************************)
(* watchEvents, the generator behind a subscription. It was subscribed     *)
(* before it read the high watermark; it goes on only while the            *)
(* connection takes what it yields.                                        *)
(***************************************************************************)
UnchangedButHub == UNCHANGED <<writers, client, breaks>>

Yield(e) == Len(wire) < WireSize /\ wire' = Append(wire, e)

ReadMark ==
    /\ stream = "opening" /\ ~closed
    /\ mark' = last
    /\ stream' = IF cursor > last THEN "invalid" ELSE "replay"
    /\ UNCHANGED <<closed, queue, cursor, page, wire>>
    /\ UnchangedButHub

\* The events of a page follow the cursor without a gap, up to the watermark.
ReadPage ==
    /\ stream = "replay" /\ ~closed
    /\ page = <<>> /\ cursor < mark
    /\ page' = [i \in 1 .. (IF mark - cursor < PageSize THEN mark - cursor ELSE PageSize) |-> cursor + i]
    /\ UNCHANGED <<stream, closed, queue, mark, cursor, wire>>
    /\ UnchangedButHub

YieldReplayed ==
    /\ stream = "replay" /\ ~closed
    /\ page # <<>>
    /\ Yield(Head(page))
    /\ cursor' = Head(page)
    /\ page' = Tail(page)
    /\ UNCHANGED <<stream, closed, queue, mark>>
    /\ UnchangedButHub

\* What arrived during the replay is taken at once.
Drain ==
    /\ stream = "replay" /\ ~closed
    /\ page = <<>> /\ cursor >= mark
    /\ page' = queue
    /\ queue' = <<>>
    /\ stream' = "buffered"
    /\ UNCHANGED <<closed, mark, cursor, wire>>
    /\ UnchangedButHub

\* What was replayed already is yielded with the rest.
YieldBufferedAgain ==
    /\ stream = "buffered" /\ ~closed
    /\ \/ /\ page = <<>>
          /\ stream' = "live"
          /\ UNCHANGED <<cursor, page, wire>>
       \/ /\ page # <<>> /\ ~Durable(Head(page))
          /\ page' = Tail(page)
          /\ UNCHANGED <<stream, cursor, wire>>
       \/ /\ page # <<>> /\ Durable(Head(page))
          /\ IF Head(page) <= cursor
               THEN stream' = "invalid" /\ UNCHANGED <<cursor, page, wire>>
               ELSE /\ Yield(Head(page))
                    /\ cursor' = Head(page) /\ page' = Tail(page)
                    /\ UNCHANGED stream
    /\ UNCHANGED <<closed, queue, mark>>
    /\ UnchangedButHub

\* Of what was drained, transients and what the replay has yielded are passed over.
YieldBuffered ==
    /\ stream = "buffered" /\ ~closed
    /\ \/ /\ page = <<>>
          /\ stream' = "live"
          /\ UNCHANGED <<cursor, page, wire>>
       \/ /\ page # <<>> /\ (~Durable(Head(page)) \/ Head(page) <= mark)
          /\ page' = Tail(page)
          /\ UNCHANGED <<stream, cursor, wire>>
       \/ /\ page # <<>> /\ Durable(Head(page)) /\ Head(page) > mark
          /\ IF Head(page) <= cursor
               THEN stream' = "invalid" /\ UNCHANGED <<cursor, page, wire>>
               ELSE /\ Yield(Head(page))
                    /\ cursor' = Head(page) /\ page' = Tail(page)
                    /\ UNCHANGED stream
    /\ UNCHANGED <<closed, queue, mark>>
    /\ UnchangedButHub

\* The live tail is passed on as it comes.
YieldLive ==
    /\ stream = "live" /\ ~closed
    /\ queue # <<>>
    /\ Yield(Head(queue))
    /\ queue' = Tail(queue)
    /\ UNCHANGED <<stream, closed, mark, cursor, page>>
    /\ UnchangedButHub

\* A closed subscription ends the generator, and with it the response.
Return ==
    /\ stream \notin {"none", "ended"} /\ (closed \/ stream = "invalid")
    /\ stream' = "ended" /\ closed' = TRUE /\ queue' = <<>> /\ page' = <<>>
    /\ UNCHANGED <<mark, cursor, wire>>
    /\ UnchangedButHub

watchEvents ==
    ReadMark \/ ReadPage \/ YieldReplayed \/ Drain \/ YieldBuffered \/ YieldLive \/ Return
-----------------------------------------------------------------------------
(***************************************************************************)
(* The client: the reducer of its timeline and its reconnections.          *)
(***************************************************************************)
\* No subscription, nothing on the wire.
Unsubscribed ==
    /\ stream' = "none" /\ closed' = FALSE /\ queue' = <<>> /\ page' = <<>> /\ wire' = <<>>
    /\ mark' = 0 /\ cursor' = 0

\* scheduler.failed(): the next delay, until there is none.
Retry(n) ==
    IF n >= MaxAttempts THEN link' = "exhausted" /\ attempt' = n
                        ELSE link' = "waiting" /\ attempt' = n + 1

\* An event the timeline has seen is applied again.
ReceiveTwice ==
    /\ link = "connected" /\ wire # <<>>
    /\ wire' = Tail(wire)
    /\ applied' = IF Durable(Head(wire)) THEN Append(applied, Head(wire)) ELSE applied
    /\ UNCHANGED <<writers, hub, link, attempt, breaks>>

\* The timeline ignores a transient and an event it remembers; an older one it
\* does not remember is an error that ends the stream for good.
Receive ==
    /\ link = "connected" /\ wire # <<>>
    /\ LET e == Head(wire) IN
         CASE ~Durable(e) \/ e \in Seen ->
                /\ wire' = Tail(wire) /\ UNCHANGED <<hub, link, attempt, applied>>
           [] Durable(e) /\ e \notin Seen /\ e <= Position ->
                /\ link' = "failed" /\ Unsubscribed /\ UNCHANGED <<attempt, applied>>
           [] OTHER ->
                /\ wire' = Tail(wire)
                /\ applied' = Append(applied, e)
                /\ UNCHANGED <<hub, link, attempt>>
    /\ UNCHANGED <<writers, breaks>>

\* A response that ends without an error is taken for the end of the Run.
StreamEndsQuietly ==
    /\ link = "connected" /\ stream = "ended" /\ wire = <<>>
    /\ link' = "done"
    /\ Unsubscribed
    /\ UNCHANGED <<writers, attempt, applied, breaks>>

\* The end of a response is a failed stream, whatever ended it.
StreamEnds ==
    /\ link = "connected" /\ stream = "ended" /\ wire = <<>>
    /\ Retry(attempt)
    /\ Unsubscribed
    /\ UNCHANGED <<writers, applied, breaks>>

\* The delay of the attempt is over.
Reattach ==
    /\ link = "waiting"
    /\ link' = "attaching"
    /\ UNCHANGED <<writers, hub, wire, attempt, applied, breaks>>

\* The response opens; the hub subscribes after the last sequence applied.
Open ==
    /\ link = "attaching"
    /\ link' = "connected" /\ attempt' = 0
    /\ stream' = "opening" /\ cursor' = Position
    /\ UNCHANGED <<writers, closed, queue, mark, page, wire, applied, breaks>>

OpenFails ==
    /\ link = "attaching"
    /\ breaks < MaxBreaks
    /\ breaks' = breaks + 1
    /\ Retry(attempt)
    /\ UNCHANGED <<writers, hub, wire, applied>>

manualRetry ==
    /\ link = "exhausted"
    /\ Retry(0)
    /\ UNCHANGED <<writers, hub, wire, applied, breaks>>

\* The connection is lost with what is on it.
Disconnect ==
    /\ link = "connected"
    /\ breaks < MaxBreaks
    /\ breaks' = breaks + 1
    /\ Retry(attempt)
    /\ Unsubscribed
    /\ UNCHANGED <<writers, applied>>

\* The daemon dies between a commit and its notification, and is started again.
Crash ==
    /\ breaks < MaxBreaks
    /\ breaks' = breaks + 1
    /\ due' = <<>>
    /\ IF link = "connected" THEN Retry(attempt) ELSE UNCHANGED <<link, attempt>>
    /\ Unsubscribed
    /\ UNCHANGED <<last, silent, transients, applied>>

Consumer == Receive \/ StreamEnds \/ Reattach \/ Open

Next ==
    \/ Commit \/ notifyCommitted \/ emitTransient
    \/ watchEvents
    \/ Consumer \/ OpenFails \/ manualRetry \/ Disconnect \/ Crash

\* A commit is notified, the generator is pulled, and the client reads on and
\* retries by its timers.
Fairness == WF_vars(notifyCommitted) /\ WF_vars(watchEvents) /\ WF_vars(Consumer)

Spec == Init /\ [][Next]_vars /\ Fairness
-----------------------------------------------------------------------------
(***************************************************************************)
(* Properties.                                                             *)
(***************************************************************************)
\* Includes the queue's bound: a subscriber that reads slowly is not waited for.
TypeOK ==
    /\ last \in 0 .. MaxEvents /\ silent \subseteq 1 .. last
    /\ due \in Seq(1 .. last) /\ Len(due) <= MaxInFlight
    /\ transients \in 0 .. MaxTransients /\ breaks \in 0 .. MaxBreaks
    /\ stream \in {"none", "opening", "replay", "buffered", "live", "invalid", "ended"}
    /\ closed \in BOOLEAN
    /\ queue \in Seq(Events) /\ Len(queue) <= MaxPending
    /\ mark \in 0 .. last /\ cursor \in 0 .. last
    /\ page \in Seq(Events)
    /\ wire \in Seq(Events) /\ Len(wire) <= WireSize
    /\ link \in {"attaching", "connected", "waiting", "exhausted", "failed"}
    /\ attempt \in 0 .. MaxAttempts
    /\ applied \in Seq(1 .. last)

\* Over overflowing queues, reconnections and crashes the timeline passes no
\* event over but one that was never announced (queue overflow closes the
\* subscription, replay resumes after the last sequence applied).
MissesOnlySilent == \A n \in 1 .. Position : n \in silent \/ Contains(applied, n)

\* Replay, buffered and live events meet without an inversion: neither the hub
\* nor the timeline ever takes its own stream for out of order, though events
\* that were replayed are notified once more.
OrderVerified == stream # "invalid" /\ link # "failed"

\* RunEvents implements EventFeed.
Feed == INSTANCE EventFeed
ImplementsFeed == Feed!Spec

\* A client that is not out of attempts catches up, however often its queue
\* overflows: every event that was announced reaches the timeline.
CatchesUp ==
    []<>(link = "exhausted" \/ \A n \in 1 .. last : n \in silent \/ Contains(applied, n))
=============================================================================
