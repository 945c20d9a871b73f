---------------------------- MODULE EventStream ----------------------------
(***************************************************************************)
(* The read side of the event log (core/events): GET /v1/events/stream,    *)
(* a live tail that catches up from Last-Event-ID when a client connects   *)
(* again, and GET /v1/events, a walk over pages.  Both read the log that   *)
(* the emitter writes while they run.                                      *)
(*                                                                         *)
(* An event id is a UUIDv7: its millisecond, then random bits.  Ids are    *)
(* numbers here, Tails of them to a millisecond.  The stream is modelled   *)
(* without its filters.                                                    *)
(***************************************************************************)
EXTENDS Naturals, Sequences, FiniteSets

CONSTANTS MaxEvents,   \* events emitted in one behaviour
          Tails,       \* ids in one millisecond
          Capacity,    \* of a subscription (256)
          PageSize,    \* _REPLAY_PAGE_SIZE (1000)
          MaxLimit,    \* MAX_LIMIT of a page of the history (1000)
          Limits,      \* limits that clients ask for
          MaxBreaks    \* connections the network breaks

ASSUME StreamAssumption ==
  /\ MaxEvents \in Nat /\ MaxBreaks \in Nat
  /\ Tails \in Nat \ {0} /\ Capacity \in Nat \ {0}
  /\ PageSize \in Nat \ {0} /\ MaxLimit \in Nat \ {0}
  /\ Limits \subseteq Nat /\ Limits # {}

Ids == 0 .. (MaxEvents + 2) * Tails
NoId == MaxEvents * Tails + 3 * Tails
Millisecond(i) == i \div Tails

VARIABLES
  log,       \* events in sessions/*.jsonl
  now,       \* millisecond of the newest event
  (* The stream's connection. *)
  conn,      \* "closed", "replaying" or "live"
  queue,     \* its subscription's asyncio.Queue
  subscribed,\* the bus still delivers to it
  page,      \* events of the replay page not yet yielded
  full,      \* the page had PageSize events
  cursor,    \* id of the last event of the page
  dedup,     \* dedup_until
  (* The streaming client. *)
  last,      \* its Last-Event-ID, or NoId
  received,  \* ids it was sent, over all its connections
  since,     \* Last-Event-ID of its first connection, or its first event
  breaks,
  (* The client of the history. *)
  walk       \* [on, after, seen, at]: pages so far, and the log when it began

connVars == <<conn, queue, subscribed, page, full, cursor, dedup>>
clientVars == <<last, received, since, breaks>>
vars == <<log, now, connVars, clientVars, walk>>

(* The subscription's end: the sentinel the bus pushes on overflow.        *)
CLOSE == NoId

(* JsonlEventLogQuery.query: ids after a cursor, sorted, limited.          *)
Query(after, limit) ==
  LET matching == {i \in log : after = NoId \/ i > after}
      Nth(k)   == CHOOSE i \in matching : Cardinality({j \in matching : j < i}) = k - 1
      count    == Cardinality(matching)
  IN [k \in 1 .. (IF count < limit THEN count ELSE limit) |-> Nth(k)]

-----------------------------------------------------------------------------
(* The writer.                                                             *)

(* new_event_id: in the current millisecond or a later one, random within. *)
FreshIds == {i \in Ids \ log : Millisecond(i) \in {now, now + 1}}

(* Wrong variant of Publish: a full queue loses the event silently.        *)
PublishDrops(e) ==
  IF ~subscribed \/ Len(queue) >= Capacity
  THEN UNCHANGED <<queue, subscribed>>
  ELSE queue' = Append(queue, e) /\ UNCHANGED subscribed

(* InMemoryEventBus.publish to the stream's subscription.                  *)
Publish(e) ==
  IF ~subscribed
  THEN UNCHANGED <<queue, subscribed>>
  ELSE IF Len(queue) >= Capacity
       THEN queue' = Append(queue, CLOSE) /\ subscribed' = FALSE
       ELSE queue' = Append(queue, e) /\ UNCHANGED subscribed

(* EventEmitter.emit: append, then publish, with nothing in between.       *)
Emit ==
  /\ Cardinality(log) <= MaxEvents
  /\ \E i \in FreshIds :
       /\ log' = log \cup {i}
       /\ now' = Millisecond(i)
       /\ Publish(i)
  /\ UNCHANGED <<conn, page, full, cursor, dedup, clientVars, walk>>

-----------------------------------------------------------------------------
(* The stream.                                                             *)

(* A page of the replay; PageSize events mean that there may be more.      *)
ReadPage(after) ==
  /\ page' = Query(after, PageSize)
  /\ full' = (Len(page') = PageSize)
  /\ cursor' = IF page' = <<>> THEN after ELSE page'[Len(page')]

(* execute: subscribe, then read the first page, or tail at once when      *)
(* there is no Last-Event-ID.                                              *)
Connect ==
  /\ conn = "closed"
  /\ queue' = <<>> /\ subscribed' = TRUE
  /\ dedup' = last
  /\ IF last = NoId
     THEN conn' = "live" /\ page' = <<>> /\ full' = FALSE /\ cursor' = NoId
     ELSE conn' = "replaying" /\ ReadPage(last)
  /\ UNCHANGED <<log, now, last, received, since, breaks, walk>>

(* A frame reaches the client, which remembers its id.                     *)
Deliver(e) ==
  /\ received' = Append(received, e)
  /\ last' = e
  /\ since' = IF since = NoId THEN e ELSE since

(* Wrong variant of ReplayYield: the boundary stays where it was.          *)
ReplayYieldKeepsBoundary ==
  /\ conn = "replaying" /\ page # <<>>
  /\ Deliver(Head(page))
  /\ page' = Tail(page)
  /\ UNCHANGED <<log, now, conn, queue, subscribed, full, cursor, dedup, breaks,
                 walk>>

ReplayYield ==
  /\ conn = "replaying" /\ page # <<>>
  /\ Deliver(Head(page))
  /\ dedup' = Head(page)
  /\ page' = Tail(page)
  /\ UNCHANGED <<log, now, conn, queue, subscribed, full, cursor, breaks, walk>>

(* After a full page another is read; a short one ends the replay.         *)
ReplayNext ==
  /\ conn = "replaying" /\ page = <<>>
  /\ IF full
     THEN ReadPage(cursor) /\ UNCHANGED conn
     ELSE conn' = "live" /\ UNCHANGED <<page, full, cursor>>
  /\ UNCHANGED <<log, now, queue, subscribed, dedup, clientVars, walk>>

Skipped(e) == dedup # NoId /\ e <= dedup

(* The live tail: one event from the subscription, or its sentinel.        *)
Live ==
  /\ conn = "live" /\ queue # <<>>
  /\ LET e == Head(queue)
     IN IF e = CLOSE
        THEN conn' = "closed" /\ UNCHANGED <<last, received, since>>
        ELSE /\ UNCHANGED conn
             /\ IF Skipped(e) THEN UNCHANGED <<last, received, since>> ELSE Deliver(e)
  /\ queue' = Tail(queue)
  /\ UNCHANGED <<log, now, subscribed, page, full, cursor, dedup, breaks, walk>>

(* Wrong variant of Heartbeat: the wait takes the event with it.           *)
HeartbeatCancels ==
  /\ conn = "live"
  /\ queue' = IF queue = <<>> THEN queue ELSE Tail(queue)
  /\ UNCHANGED <<log, now, conn, subscribed, page, full, cursor, dedup, clientVars, walk>>

(* _with_heartbeat: an interval has passed without a frame; a comment is   *)
(* sent, and the fetch that was waited for goes on.                        *)
Heartbeat == conn = "live" /\ UNCHANGED vars

(* The connection breaks; a frame that was yielded and not received is the *)
(* same, for the client, as one that was not yet yielded.                  *)
Disconnect ==
  /\ conn # "closed"
  /\ breaks < MaxBreaks /\ breaks' = breaks + 1
  /\ conn' = "closed" /\ subscribed' = FALSE /\ queue' = <<>>
  /\ UNCHANGED <<log, now, page, full, cursor, dedup, last, received, since,
                 walk>>

-----------------------------------------------------------------------------
(* GET /v1/events and mad_query_events: one event more than the limit is   *)
(* read to see if there are more.                                          *)

Clamped(limit) == IF limit < 1 THEN 1 ELSE IF limit > MaxLimit THEN MaxLimit ELSE limit

(* Wrong variant of NextCursor: the cursor is the extra event.             *)
NextCursorExtra(events, limit) == IF Len(events) > limit THEN events[limit + 1] ELSE NoId

NextCursor(events, limit) == IF Len(events) > limit THEN events[limit] ELSE NoId

GetPage(limit) ==
  /\ walk.on
  /\ LET events == Query(walk.after, limit + 1)
         shown  == SubSeq(events, 1, IF Len(events) > limit THEN limit ELSE Len(events))
     IN walk' = [on    |-> NextCursor(events, limit) # NoId,
                 after |-> NextCursor(events, limit),
                 seen  |-> walk.seen \o shown,
                 at    |-> IF walk.seen = <<>> THEN log ELSE walk.at]
  /\ UNCHANGED <<log, now, connVars, clientVars>>

(* The route refuses a limit that the tool clamps.                         *)
ListEvents(limit) == limit \in 1 .. MaxLimit /\ GetPage(limit)
QueryEvents(limit) == GetPage(Clamped(limit))

-----------------------------------------------------------------------------
(* The client starts without an id, or after the one event there is.       *)
Init ==
  /\ log = {0}
  /\ now = 0
  /\ conn = "closed" /\ queue = <<>> /\ subscribed = FALSE
  /\ page = <<>> /\ full = FALSE /\ cursor = NoId /\ dedup = NoId
  /\ last \in {NoId, 0}
  /\ received = <<>>
  /\ since = last
  /\ breaks = 0
  /\ walk = [on |-> TRUE, after |-> NoId, seen |-> <<>>, at |-> {}]

StreamStep == Connect \/ ReplayYield \/ ReplayNext \/ Live

Next ==
  \/ Emit \/ StreamStep \/ Heartbeat \/ Disconnect
  \/ \E limit \in Limits : ListEvents(limit) \/ QueryEvents(limit)

Spec == Init /\ [][Next]_vars

(* A client that is cut off connects again, and the server's generator and *)
(* the client's reads go on.                                               *)
FairSpec == Spec /\ WF_vars(StreamStep)

-----------------------------------------------------------------------------
Received == {received[k] : k \in 1 .. Len(received)}

(* Events the client was owed before one of a later millisecond reached it.*)
PassedOver ==
  {i \in log \ Received :
     /\ since # NoId /\ Millisecond(i) > Millisecond(since)
     /\ \E r \in Received : Millisecond(i) < Millisecond(r)}

(* Whatever breaks or overflows, an event is passed over only when another *)
(* one of its own millisecond was delivered, and delivered again only when *)
(* another one of its millisecond was delivered in between; in particular  *)
(* there is no gap and no duplicate when no two events share a millisecond.*)
FlawsShareAMillisecond ==
  /\ \A i \in PassedOver : \E r \in Received : Millisecond(r) = Millisecond(i)
  /\ \A j, k \in 1 .. Len(received) : j < k /\ received[j] = received[k] =>
       \E m \in j + 1 .. k - 1 : Millisecond(received[m]) = Millisecond(received[j])

(* Over all connections of a client, time never goes back.                 *)
StreamFollowsTime ==
  \A j, k \in 1 .. Len(received) : j < k =>
    Millisecond(received[j]) <= Millisecond(received[k])

(* A walk over the pages shows no event twice and, once it ends, has shown *)
(* every event that was in the log when it began.                          *)
WalkIsExact ==
  /\ \A j, k \in 1 .. Len(walk.seen) : j < k => walk.seen[j] < walk.seen[k]
  /\ ~walk.on => walk.at \subseteq {walk.seen[k] : k \in 1 .. Len(walk.seen)}

(* An event logged once the client has an id to resume from reaches it, or *)
(* another one of its millisecond does.                                    *)
EveryEventArrives ==
  \A i \in Ids :
    since # NoId /\ since < i /\ i \in log
      ~> \E r \in Received : Millisecond(r) = Millisecond(i)
=============================================================================
