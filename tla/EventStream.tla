------------------------------ MODULE EventStream ------------------------------
(***************************************************************************)
(* Realtime delivery from the Redis stream to one browser:                 *)
(* api/v1/events.py (SSEBroadcaster and realtime_event_generator) and      *)
(* front-end/src/services/realtimeService.ts.                              *)
(*                                                                         *)
(* Entries of the stream are numbered 1, 2, ... in the order of their ids. *)
(* One background task reads the stream and fans out to the queue of each  *)
(* connection; a connection that names a Last-Event-ID replays the stream  *)
(* first. The browser does not show events: it refetches what an event     *)
(* makes stale, so the question is whether a change can stay unnoticed.    *)
(***************************************************************************)
EXTENDS Integers, Sequences, SequencesExt

CONSTANTS
  MaxEvents,    \* bound: entries ever added to the stream
  StreamLimit,  \* REALTIME_STREAM_MAXLEN
  QueueLimit,   \* maxsize of a subscriber's queue
  ReplayBatch,  \* MAX_REPLAY_BATCH_SIZE
  ReadBatch,    \* COUNT of the broadcaster's XREAD
  RingLimit,    \* MAX_DEDUPE_SIZE of the browser
  MaxStreamFaults     \* bound: failures, disconnections and restarts

StreamAssumption ==
  /\ {MaxEvents, MaxStreamFaults} \subseteq Nat
  /\ {StreamLimit, QueueLimit, ReplayBatch, ReadBatch, RingLimit} \subseteq Nat \ {0}

NoId == -1     \* the browser has no Last-Event-ID
Resync == 0    \* a SYSTEM_RESYNC_REQUIRED item, whose id is 0-0

VARIABLES
  first, top,  \* the oldest and the newest entry of the stream
  head,        \* _last_stream_id of the broadcaster, NoId while it is stopped
  conn,        \* "none", "check", "replay", "send" or "live": where the generator is
  queue,       \* the connection's queue of entries and Resync
  subscribed,  \* the queue is among the broadcaster's _subscribers
  from,        \* clean_last_id of the generator
  sending,     \* replay_entries it has not sent yet
  replayed,    \* last_replayed_id, 0 when nothing was replayed
  lastId,      \* the browser's Last-Event-ID
  ring,        \* seenEventIdQueue
  due, dueAll, \* debounced invalidations: of these events, of everything
  fresh,       \* events whose effect the browser's cached queries show
  missed,      \* history: events lost for one of the causes named below
  streamFaults

stream == <<first, top>>
server == <<head, conn, queue, subscribed, from, sending, replayed>>
browser == <<lastId, ring, due, dueAll, fresh>>
streamVars == <<stream, server, browser, missed, streamFaults>>

Events == 1 .. MaxEvents
Entries == first .. top

StreamTypeOK ==
  /\ top \in 0 .. MaxEvents /\ first \in 1 .. top + 1
  /\ head \in NoId .. top
  /\ conn \in {"none", "check", "replay", "send", "live"}
  /\ queue \in Seq(0 .. top) /\ Len(queue) <= QueueLimit
  /\ subscribed \in BOOLEAN /\ dueAll \in BOOLEAN
  /\ from \in NoId .. top /\ lastId \in NoId .. top /\ replayed \in 0 .. top
  /\ ring \in Seq(0 .. top) /\ Len(ring) <= RingLimit
  /\ {sending, due, fresh, missed} \subseteq SUBSET (1 .. top)
  /\ streamFaults \in 0 .. MaxStreamFaults

StreamInit ==
  /\ first = 1 /\ top = 0
  /\ head = NoId /\ conn = "none" /\ queue = <<>> /\ subscribed = FALSE
  /\ from = NoId /\ sending = {} /\ replayed = 0
  /\ lastId = NoId /\ ring = <<>> /\ due = {} /\ dueAll = FALSE /\ fresh = {}
  /\ missed = {} /\ streamFaults = 0

Run(lo, hi) == [k \in 1 .. hi - lo + 1 |-> lo + k - 1]

StreamFault == streamFaults < MaxStreamFaults /\ streamFaults' = streamFaults + 1

(* Events the browser neither shows nor is about to refetch. *)
Stale == IF dueAll THEN {} ELSE (1 .. top) \ (fresh \cup due)

-----------------------------------------------------------------------------
(* XADD with MAXLEN by the outbox worker or the fast path. *)
Publish ==
  /\ top < MaxEvents
  /\ top' = top + 1
  /\ first' = Max({first, top + 2 - StreamLimit})
  /\ UNCHANGED <<server, browser, missed, streamFaults>>

(* SSEBroadcaster.start reads the head of the stream; without Redis it      *)
(* begins at 0-0.                                                           *)
StartHead(h) ==
  IF head # NoId THEN h = head /\ UNCHANGED streamFaults
  ELSE \/ h = top /\ UNCHANGED streamFaults
       \/ h = 0 /\ StreamFault

(* The EventSource connects. The queue is attached before anything is      *)
(* replayed; without a Last-Event-ID nothing is.                           *)
Subscribe ==
  /\ conn = "none"
  /\ StartHead(head')
  /\ queue' = <<>> /\ subscribed' = TRUE /\ replayed' = 0
  /\ from' = lastId /\ UNCHANGED sending
  /\ IF lastId = NoId
       THEN conn' = "live" /\ missed' = missed \cup (Stale \cap (1 .. head'))
       ELSE conn' = "check" /\ UNCHANGED missed
  /\ UNCHANGED <<stream, browser>>

(* recordSeenEventId: a bounded list of ids. *)
Remember(id) == ring' = Append(IF Len(ring) < RingLimit THEN ring ELSE Tail(ring), id)

(* handleIncomingEvent for a resync, whose chunk carries id. *)
ReceiveResync(id) ==
  /\ lastId' = id /\ Remember(Resync)
  /\ dueAll' = TRUE
  /\ UNCHANGED <<due, fresh>>

(* handleIncomingEvent for an entry: one of the ring is ignored, though    *)
(* the EventSource has noted its id.                                       *)
Receive(e) ==
  /\ lastId' = e
  /\ IF e \in Range(ring) THEN UNCHANGED <<ring, due>>
                           ELSE Remember(e) /\ due' = due \cup {e}
  /\ UNCHANGED <<dueAll, fresh>>

(* The first XRANGE of the replay: a client older than the oldest entry is *)
(* told to resynchronise, and continues from that entry.                   *)
CheckOldest ==
  /\ conn = "check" /\ conn' = "replay"
  /\ IF Entries # {} /\ from < first
       THEN from' = first /\ ReceiveResync(first)
       ELSE UNCHANGED <<from, browser>>
  /\ UNCHANGED <<stream, head, queue, subscribed, sending, replayed, missed, streamFaults>>

(* The second XRANGE: at most ReplayBatch entries, of which the client's   *)
(* own is not sent. What is trimmed before it is lost: if the queue has    *)
(* it, the live loop skips it.                                             *)
ReplayEntries ==
  LET lo == Max({from, first}) IN (lo .. Min({top, lo + ReplayBatch - 1})) \ {from}

Replay ==
  /\ conn = "replay" /\ conn' = "send"
  /\ sending' = ReplayEntries
  /\ missed' = IF Resync \in Range(queue) THEN missed
               ELSE missed \cup (Stale \cap (from + 1 .. first - 1))
  /\ UNCHANGED <<stream, head, queue, subscribed, from, replayed, browser, streamFaults>>

(* Entries after the one the client named that were fanned out and that    *)
(* nothing in the queue brings.                                            *)
Unqueued == IF Resync \in Range(queue) THEN {} ELSE (from + 1 .. head) \ Range(queue)

GoLive == conn' = "live" /\ missed' = missed \cup (Stale \cap Unqueued)

(* One yield of the replay loop, or its end. *)
Send ==
  /\ conn = "send"
  /\ IF sending = {}
       THEN GoLive /\ UNCHANGED <<sending, replayed, browser>>
       ELSE /\ replayed' = Min(sending) /\ Receive(replayed')
            /\ sending' = sending \ {replayed'}
            /\ UNCHANGED <<conn, missed>>
  /\ UNCHANGED <<stream, head, queue, subscribed, from, streamFaults>>

(* An exception in either XRANGE is logged and the generator goes live.    *)
ReplayFails ==
  /\ conn \in {"check", "replay"}
  /\ StreamFault
  /\ GoLive
  /\ UNCHANGED <<stream, head, queue, subscribed, from, sending, replayed, browser>>

(* Mutant of Offer: a full queue just ends the subscription.               *)
OfferSilently(entries) ==
  IF Len(queue \o entries) <= QueueLimit
    THEN queue' = queue \o entries /\ UNCHANGED subscribed
    ELSE queue' = SubSeq(queue \o entries, 1, QueueLimit) /\ subscribed' = FALSE

(* broadcast of entries one after the other: the first that finds the      *)
(* queue full replaces its oldest item by a Resync at the end, and the     *)
(* queue is no longer a subscriber.                                        *)
Offer(entries) ==
  IF Len(queue \o entries) <= QueueLimit
    THEN queue' = queue \o entries /\ UNCHANGED subscribed
    ELSE /\ queue' = Append(Tail(SubSeq(queue \o entries, 1, QueueLimit)), Resync)
         /\ subscribed' = FALSE

(* One XREAD of the broadcaster and the loop over its result.              *)
Broadcast ==
  LET lo == Max({head + 1, first})
      hi == Min({top, lo + ReadBatch - 1})
  IN /\ head # NoId /\ head < top
     /\ head' = hi
     /\ IF subscribed
          THEN /\ Offer(Run(lo, hi))
               /\ missed' = missed \cup (Stale \cap (head + 1 .. first - 1))
          ELSE UNCHANGED <<queue, subscribed, missed>>
     /\ UNCHANGED <<stream, conn, from, sending, replayed, browser, streamFaults>>

(* The end of a connection, whatever ended it: the queue is discarded.     *)
Hangup == conn' = "none" /\ queue' = <<>> /\ subscribed' = FALSE /\ sending' = {}

(* What a connection broken before its Resync was read loses: the queue    *)
(* dropped older items, and the browser resumes behind them.               *)
Unsaid == IF Resync \in Range(queue) THEN {e \in Stale : e <= lastId} ELSE {}

(* Mutant of Deliver: the live loop does not compare with the replay.      *)
DeliverAgain ==
  /\ conn = "live" /\ queue # <<>>
  /\ IF Head(queue) = Resync
       THEN Hangup /\ ReceiveResync(0)
       ELSE queue' = Tail(queue) /\ Receive(Head(queue)) /\ UNCHANGED <<conn, subscribed, sending>>
  /\ UNCHANGED <<stream, head, from, replayed, missed, streamFaults>>

(* Mutant of Deliver: the connection goes on after a Resync.               *)
DeliverOn ==
  /\ conn = "live" /\ queue # <<>>
  /\ queue' = Tail(queue)
  /\ IF Head(queue) = Resync THEN ReceiveResync(0)
     ELSE IF Head(queue) <= replayed THEN UNCHANGED browser
     ELSE Receive(Head(queue))
  /\ UNCHANGED <<stream, head, conn, subscribed, from, sending, replayed, missed, streamFaults>>

(* The live loop takes one item: a Resync ends the connection, an entry    *)
(* that was replayed is skipped.                                           *)
Deliver ==
  /\ conn = "live" /\ queue # <<>>
  /\ IF Head(queue) = Resync
       THEN Hangup /\ ReceiveResync(0)
       ELSE /\ queue' = Tail(queue)
            /\ UNCHANGED <<conn, subscribed, sending>>
            /\ IF Head(queue) <= replayed THEN UNCHANGED browser
                                         ELSE Receive(Head(queue))
  /\ UNCHANGED <<stream, head, from, replayed, missed, streamFaults>>

(* The connection breaks; the EventSource keeps its Last-Event-ID.         *)
Disconnect ==
  /\ conn # "none" /\ StreamFault
  /\ Hangup
  /\ missed' = missed \cup Unsaid
  /\ UNCHANGED <<stream, head, from, replayed, browser>>

(* The browser goes offline: disconnect(false) closes the EventSource, so  *)
(* its Last-Event-ID is gone, and clears the pending invalidations.        *)
Offline ==
  /\ StreamFault
  /\ Hangup
  /\ lastId' = NoId /\ due' = {} /\ dueAll' = FALSE
  /\ missed' = missed \cup ((IF dueAll THEN 1 .. top ELSE due) \ fresh)
  /\ UNCHANGED <<stream, head, from, replayed, ring, fresh>>

(* The API process restarts: every connection ends, the broadcaster starts *)
(* again with the next one.                                                *)
Restart ==
  /\ head # NoId /\ StreamFault
  /\ head' = NoId /\ Hangup
  /\ missed' = missed \cup Unsaid
  /\ UNCHANGED <<stream, from, replayed, browser>>

(* The debounce timer fires and the invalidated queries are fetched again. *)
Refetch ==
  /\ dueAll \/ due # {}
  /\ fresh' = IF dueAll THEN 1 .. top ELSE fresh \cup due
  /\ due' = {} /\ dueAll' = FALSE
  /\ UNCHANGED <<stream, server, lastId, ring, missed, streamFaults>>

Delivery == Subscribe \/ CheckOldest \/ Replay \/ Send \/ Broadcast \/ Deliver \/ Refetch
Failure == ReplayFails \/ Disconnect \/ Offline \/ Restart
StreamNext == Publish \/ Delivery \/ Failure

(* The broadcaster's loop, the generator, the EventSource's reconnection   *)
(* and the browser's timers all keep running.                              *)
StreamFairness ==
  /\ WF_streamVars(Subscribe) /\ WF_streamVars(CheckOldest)
  /\ WF_streamVars(Replay) /\ WF_streamVars(Send)
  /\ WF_streamVars(Broadcast) /\ WF_streamVars(Deliver) /\ WF_streamVars(Refetch)

StreamSpec == StreamInit /\ [][StreamNext]_streamVars /\ StreamFairness

-----------------------------------------------------------------------------
(* An entry the machinery will still bring to the browser's notice. *)
Coming(e) ==
  \/ conn = "none" /\ (lastId = NoId \/ e > lastId)
  \/ conn \in {"check", "replay", "send"} /\ e > from
  \/ conn # "none" /\ (Resync \in Range(queue) \/ (subscribed /\ e > head))
  \/ e \in Range(queue) /\ e > replayed

(* No change stays unnoticed: it is shown, its refetch is scheduled, it is *)
(* on its way, or it was lost for a recorded cause (a connection without   *)
(* Last-Event-ID, a replay cut at its batch limit or failed, an entry      *)
(* trimmed before the replay or the broadcaster read it, a browser gone    *)
(* offline, a connection broken between an overflow and its Resync).       *)
(* Overflowing queues, lost connections and restarts alone lose nothing.   *)
NoSilentGap == \A e \in Stale \ missed : Coming(e)

(* The browser's Last-Event-ID never moves back to an older entry: neither *)
(* replay against live items nor reconnections reorder a connection. It is *)
(* reset by a resync or by going offline; and a connection whose replay    *)
(* sent nothing has no last_replayed_id, so that a broadcaster that is     *)
(* behind the browser sends entries before the one the browser named.      *)
OnlyForward ==
  [][\/ lastId' >= lastId \/ lastId' \in {NoId, Resync}
     \/ replayed = 0 /\ lastId' < from]_streamVars

(* Once publishing and failures stop, the browser shows every change that  *)
(* was not lost for a recorded cause.                                      *)
EventuallyCurrent == <>[](1 .. top \subseteq fresh \cup missed)

=============================================================================
