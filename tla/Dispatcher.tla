----------------------------- MODULE Dispatcher ------------------------------
(***************************************************************************)
(* The orchestration dispatcher (orchestration/dispatcher.py, run by       *)
(* workers/run_dispatcher.py): one process, as docker-compose deploys it,  *)
(* that reads the orchestration stream through a consumer group, runs the  *)
(* trigger of each event in ONE database session per batch, and then       *)
(* acknowledges, retries (a new stream entry with the attempt incremented, *)
(* published after the old one is acknowledged) or dead-letters it.        *)
(* Unlike the workers of StreamConsumer it resumes XAUTOCLAIM at a cursor. *)
(*                                                                         *)
(* An entry is its index in the stream.  The idle time of pending entries  *)
(* and the failures of Redis, of PostgreSQL and of the process are the     *)
(* environment's.                                                          *)
(***************************************************************************)
EXTENDS Naturals, Sequences, FiniteSets

CONSTANTS
    Events,               \* orchestration events producers may publish
    Count,                \* entries per batch
    MaxAttempts,          \* event.max_attempts
    MaxDeliveryAttempts,  \* STREAM_MAX_DELIVERY_ATTEMPTS
    Page,                 \* entries one XPENDING reply covers, max(2 * Count, 50)
    MaxFaults,            \* bound on crashes and failed calls
    DeliveryBound         \* bound on deliveries of one entry

\* malformed: does not parse; invalid: its aggregate does not exist, a
\* permanent failure; breaking: a statement fails in PostgreSQL each time,
\* which also aborts the transaction of the session it ran in.
Kinds == {"healthy", "malformed", "invalid", "breaking"}

ASSUME LimitsAssumption ==
    /\ Count \in Nat \ {0}
    /\ MaxAttempts \in Nat \ {0}
    /\ MaxDeliveryAttempts \in Nat \ {0}
    /\ Page \in Nat /\ Page >= 2 * Count
    /\ MaxFaults \in Nat
    /\ DeliveryBound \in Nat

VARIABLES
    stream,      \* entries [event, kind, attempt], never trimmed here
    last,        \* last-delivered-id of the group
    pending,     \* its pending entries list
    deliveries,  \* the delivery counter of each pending entry
    idle,        \* pending entries idle for STREAM_CLAIM_IDLE_MS
    dead,        \* events in the dead-letter stream
    effected,    \* events whose trigger has committed
    dropped,     \* history: events whose retry was never published
    pc,          \* where the dispatcher is in its batch
    cursor,      \* _claim_cursor
    expired,     \* claimed entries over the delivery limit
    batch,       \* entries still to process
    broken,      \* the session's transaction is aborted
    faults       \* faults so far, bounded by MaxFaults

group == <<last, pending, deliveries, idle>>
local == <<pc, cursor, expired, batch, broken>>
vars == <<stream, group, dead, effected, dropped, local, faults>>

Entries == 1..Len(stream)
EventOf(m) == stream[m].event
KindOf(m) == stream[m].kind

Init ==
    /\ stream = <<>>
    /\ last = 0
    /\ pending = {}
    /\ deliveries = <<>>
    /\ idle = {}
    /\ dead = {}
    /\ effected = {}
    /\ dropped = {}
    /\ pc = "recover"
    /\ cursor = 0
    /\ expired = {}
    /\ batch = {}
    /\ broken = FALSE
    /\ faults = 0

\* The first k entries of S in stream order.
First(S, k) == {m \in S : Cardinality({n \in S : n < m}) < k}

IsLeast(m, S) == m \in S /\ \A n \in S : m <= n

Fault == faults < MaxFaults /\ faults' = faults + 1

Xadd(entry) ==
    /\ stream' = Append(stream, entry)
    /\ deliveries' = Append(deliveries, 0)

Ack(m) ==
    /\ pending' = pending \ {m}
    /\ idle' = idle \ {m}
    /\ UNCHANGED <<last, deliveries>>

HandOut(S) ==
    /\ pending' = pending \cup S
    /\ deliveries' = [m \in Entries |-> IF m \in S THEN deliveries[m] + 1 ELSE deliveries[m]]
    /\ idle' = idle \ S

\* process_batch raises or the process dies: what it had read is forgotten,
\* the session is closed, unacknowledged entries stay pending.
AbandonBatch ==
    /\ pc' = "recover"
    /\ expired' = {}
    /\ batch' = {}
    /\ broken' = FALSE

------------------------------------------------------------------------------
(* The environment.                                                        *)

\* The outbox appends the event of a committed domain change.
Produce(e, kind) ==
    /\ \A m \in Entries : EventOf(m) # e
    /\ Xadd([event |-> e, kind |-> kind, attempt |-> 1])
    /\ UNCHANGED <<last, pending, idle, dead, effected, dropped, local, faults>>

BecomeIdle(m) ==
    /\ m \in pending \ idle
    /\ deliveries[m] < DeliveryBound
    /\ idle' = idle \cup {m}
    /\ UNCHANGED <<stream, last, pending, deliveries, dead, effected, dropped, local, faults>>

------------------------------------------------------------------------------
(* read_events                                                             *)

Claimable == First({m \in idle : cursor <= m}, Count)

\* Mutant of NextCursor: the cursor never returns to the start.
NextCursorOnward ==
    IF Claimable = {} THEN cursor
    ELSE CHOOSE m \in Claimable : \A n \in Claimable : n <= m

\* Where the next XAUTOCLAIM resumes: after the last entry claimed, or at the
\* start of the pending list once this call has scanned to its end.
NextCursor ==
    LET beyond == {m \in pending : \A n \in Claimable : n < m}
    IN  IF Cardinality(Claimable) < Count \/ beyond = {}
        THEN 0
        ELSE CHOOSE m \in beyond : IsLeast(m, beyond)

\* XAUTOCLAIM, then XPENDING for the counters: nobody else changes the group
\* between the two.  An entry beyond the page counts as delivered once.
Recover ==
    /\ pc = "recover"
    /\ HandOut(Claimable)
    /\ cursor' = NextCursor
    /\ expired' = {m \in Claimable \cap First(pending, Page) :
                     deliveries[m] + 1 > MaxDeliveryAttempts}
    /\ batch' = Claimable \ expired'
    /\ pc' = IF expired' = {} THEN "read" ELSE "expire"
    /\ UNCHANGED <<stream, last, dead, effected, dropped, broken, faults>>

\* Either call raises: nothing that was claimed is kept for this batch.
RecoverFails ==
    /\ pc = "recover"
    /\ Fault
    /\ \/ UNCHANGED <<pending, deliveries, idle, cursor>>
       \/ HandOut(Claimable) /\ cursor' \in {cursor, NextCursor}
    /\ pc' = "read"
    /\ UNCHANGED <<stream, last, dead, effected, dropped, expired, batch, broken>>

\* An entry over the limit is copied to the dead-letter stream ...
Expire(m) ==
    /\ pc = "expire"
    /\ IsLeast(m, expired)
    /\ dead' = dead \cup {EventOf(m)}
    /\ pc' = "ackexpired"
    /\ UNCHANGED <<stream, group, effected, dropped, cursor, expired, batch, broken, faults>>

\* ... and then acknowledged.
AckExpired(m) ==
    /\ pc = "ackexpired"
    /\ IsLeast(m, expired)
    /\ Ack(m)
    /\ expired' = expired \ {m}
    /\ pc' = IF expired' = {} THEN "read" ELSE "expire"
    /\ UNCHANGED <<stream, dead, effected, dropped, cursor, batch, broken, faults>>

\* A call of the loop raises, and the handler around it skips to the read:
\* entries claimed after this one are not looked at in this batch.
ExpireFails(m) ==
    /\ pc \in {"expire", "ackexpired"}
    /\ IsLeast(m, expired)
    /\ Fault
    /\ \/ pc = "expire" /\ dead' = dead \cup {EventOf(m)} /\ UNCHANGED group
       \/ pc = "ackexpired" /\ Ack(m) /\ UNCHANGED dead
       \/ UNCHANGED <<dead, group>>
    /\ batch' = {n \in batch : n < m}
    /\ expired' = {}
    /\ pc' = "read"
    /\ UNCHANGED <<stream, effected, dropped, cursor, broken>>

New == {m \in Entries : last < m /\ m <= last + Count - Cardinality(batch)}

DeliverNew ==
    /\ HandOut(New)
    /\ last' = last + Cardinality(New)

\* XREADGROUP for what is left of the batch; process_batch opens a session.
Read ==
    /\ pc = "read"
    /\ DeliverNew
    /\ batch' = batch \cup New
    /\ pc' = "work"
    /\ UNCHANGED <<stream, dead, effected, dropped, cursor, expired, broken, faults>>

ReadFails ==
    /\ pc = "read"
    /\ Cardinality(batch) < Count
    /\ Fault
    /\ DeliverNew \/ UNCHANGED group
    /\ AbandonBatch
    /\ UNCHANGED <<stream, dead, effected, dropped, cursor>>

------------------------------------------------------------------------------
(* process_batch                                                           *)

\* Mutant of AckMalformed: whatever was read is acknowledged when parsed.
AckParsed(m) ==
    /\ pc = "work"
    /\ IsLeast(m, batch)
    /\ Ack(m)
    /\ batch' = batch \ {m}
    /\ UNCHANGED <<stream, dead, effected, dropped, pc, cursor, expired, broken, faults>>

\* Entries that do not parse are acknowledged before any is processed.
AckMalformed(m) ==
    /\ pc = "work"
    /\ IsLeast(m, {n \in batch : KindOf(n) = "malformed"})
    /\ Ack(m)
    /\ batch' = batch \ {m}
    /\ UNCHANGED <<stream, dead, effected, dropped, pc, cursor, expired, broken, faults>>

Current(m) ==
    /\ IsLeast(m, batch)
    /\ \A n \in batch : KindOf(n) # "malformed"

Succeed(m) ==
    /\ pc = "work"
    /\ Current(m)
    /\ ~broken
    /\ KindOf(m) = "healthy"
    /\ effected' = effected \cup {EventOf(m)}
    /\ pc' = "ack"
    /\ UNCHANGED <<stream, group, dead, dropped, cursor, expired, batch, broken, faults>>

\* Mutant of AfterTransient: the last attempt is not made.
AfterTransientEarly(m) == IF stream[m].attempt + 1 < MaxAttempts THEN "ackretry" ELSE "bury"

\* A transient failure is retried while attempts remain.
AfterTransient(m) == IF stream[m].attempt < MaxAttempts THEN "ackretry" ELSE "bury"

\* Every statement in a session whose transaction is aborted fails as well,
\* and process_event never rolls back.
FailsInSession(m) ==
    /\ pc = "work"
    /\ Current(m)
    /\ broken \/ KindOf(m) = "breaking"
    /\ broken' = TRUE
    /\ pc' = AfterTransient(m)
    /\ UNCHANGED <<stream, group, dead, effected, dropped, cursor, expired, batch, faults>>

\* A passing failure of the network or the database, which may come after
\* the commit was applied.
FailsOnce(m) ==
    /\ pc = "work"
    /\ Current(m)
    /\ Fault
    /\ \/ effected' = effected
       \/ /\ ~broken /\ KindOf(m) = "healthy"
          /\ effected' = effected \cup {EventOf(m)}
    /\ broken' \in {broken, TRUE}
    /\ pc' = AfterTransient(m)
    /\ UNCHANGED <<stream, group, dead, dropped, cursor, expired, batch>>

\* The event names no report, or a handler raises a ValueError: never retried.
FailsPermanently(m) ==
    /\ pc = "work"
    /\ Current(m)
    /\ ~broken
    /\ KindOf(m) = "invalid"
    /\ pc' = "bury"
    /\ UNCHANGED <<stream, group, dead, effected, dropped, cursor, expired, batch, broken, faults>>

AckDone(m) ==
    /\ pc = "ack"
    /\ Current(m)
    /\ Ack(m)
    /\ batch' = batch \ {m}
    /\ pc' = "work"
    /\ UNCHANGED <<stream, dead, effected, dropped, cursor, expired, broken, faults>>

\* Mutant of AckRetry: the retry is published while the entry is still pending.
RetryUnacknowledged(m) ==
    /\ pc = "ackretry"
    /\ Current(m)
    /\ pc' = "republish"
    /\ UNCHANGED <<stream, group, dead, effected, dropped, cursor, expired, batch, broken, faults>>

\* The entry to be retried is acknowledged first; the new one exists only in
\* memory until it is published.
AckRetry(m) ==
    /\ pc = "ackretry"
    /\ Current(m)
    /\ Ack(m)
    /\ pc' = "republish"
    /\ UNCHANGED <<stream, dead, effected, dropped, cursor, expired, batch, broken, faults>>

Republish(m) ==
    /\ pc = "republish"
    /\ Current(m)
    /\ Xadd([stream[m] EXCEPT !.attempt = @ + 1])
    /\ batch' = batch \ {m}
    /\ pc' = "work"
    /\ UNCHANGED <<last, pending, idle, dead, effected, dropped, cursor, expired, broken, faults>>

\* Mutant of Bury: the dead-letter record is not written.
BuryUnrecorded(m) ==
    /\ pc = "bury"
    /\ Current(m)
    /\ pc' = "ack"
    /\ UNCHANGED <<stream, group, dead, effected, dropped, cursor, expired, batch, broken, faults>>

\* route_to_dead_letter; the acknowledgement follows.
Bury(m) ==
    /\ pc = "bury"
    /\ Current(m)
    /\ dead' = dead \cup {EventOf(m)}
    /\ pc' = "ack"
    /\ UNCHANGED <<stream, group, effected, dropped, cursor, expired, batch, broken, faults>>

\* A Redis call of the loop raises, applied or not: process_batch gives up.
CallFails(m) ==
    /\ pc \in {"work", "ack", "ackretry", "republish", "bury"}
    /\ IsLeast(m, IF pc = "work" THEN {n \in batch : KindOf(n) = "malformed"} ELSE batch)
    /\ Fault
    /\ \/ /\ pc = "republish"
          /\ Xadd([stream[m] EXCEPT !.attempt = @ + 1])
          /\ UNCHANGED <<last, pending, idle, dead, dropped>>
       \/ /\ pc = "bury"
          /\ dead' = dead \cup {EventOf(m)}
          /\ UNCHANGED <<stream, group, dropped>>
       \/ /\ pc \in {"work", "ack"}
          /\ Ack(m)
          /\ UNCHANGED <<stream, dead, dropped>>
       \/ /\ pc = "ackretry"
          /\ Ack(m)
          /\ dropped' = dropped \cup {EventOf(m)}
          /\ UNCHANGED <<stream, dead>>
       \/ /\ dropped' = IF pc = "republish" THEN dropped \cup {EventOf(m)} ELSE dropped
          /\ UNCHANGED <<stream, group, dead>>
    /\ AbandonBatch
    /\ UNCHANGED <<effected, cursor>>

FinishBatch ==
    /\ pc = "work"
    /\ batch = {}
    /\ AbandonBatch
    /\ UNCHANGED <<stream, group, dead, effected, dropped, cursor, faults>>

\* The process dies and is restarted with a cursor at the start.
Crash ==
    /\ pc # "recover" \/ cursor # 0
    /\ Fault
    /\ AbandonBatch
    /\ cursor' = 0
    /\ dropped' = IF pc = "republish"
                  THEN dropped \cup {EventOf(m) : m \in First(batch, 1)}
                  ELSE dropped
    /\ UNCHANGED <<stream, group, dead, effected>>

------------------------------------------------------------------------------
Step ==
    \/ Recover \/ Read \/ FinishBatch
    \/ \E m \in Entries :
         \/ Expire(m) \/ AckExpired(m) \/ AckMalformed(m)
         \/ Succeed(m) \/ FailsInSession(m) \/ FailsPermanently(m)
         \/ AckDone(m) \/ AckRetry(m) \/ Republish(m) \/ Bury(m)

Fail ==
    \/ RecoverFails \/ ReadFails \/ Crash
    \/ \E m \in Entries : ExpireFails(m) \/ FailsOnce(m) \/ CallFails(m)

Next ==
    \/ \E e \in Events, kind \in Kinds : Produce(e, kind)
    \/ \E m \in Entries : BecomeIdle(m)
    \/ Step
    \/ Fail

Spec == Init /\ [][Next]_vars

\* The polling loop runs for ever and time passes; faults are not fair.
Fairness ==
    /\ WF_vars(Step)
    /\ \A m \in 1..(Cardinality(Events) * MaxAttempts) : WF_vars(BecomeIdle(m))

------------------------------------------------------------------------------
(* Properties.                                                             *)

\* Every variable has its type; no entry is past its last attempt.
TypeOK ==
    /\ stream \in Seq([event : Events, kind : Kinds, attempt : 1..MaxAttempts])
    /\ last \in 0..Len(stream)
    /\ pending \subseteq 1..last
    /\ deliveries \in [Entries -> Nat]
    /\ idle \subseteq pending
    /\ dead \subseteq Events
    /\ effected \subseteq Events
    /\ dropped \subseteq Events
    /\ pc \in {"recover", "expire", "ackexpired", "read", "work", "ack", "ackretry",
              "republish", "bury"}
    /\ cursor \in 0..Len(stream)
    /\ expired \subseteq Entries
    /\ batch \subseteq Entries
    /\ broken \in BOOLEAN
    /\ faults \in 0..MaxFaults

IsOfKind(e, kind) == \E m \in Entries : EventOf(m) = e /\ KindOf(m) = kind

InMemory(e) == pc = "republish" /\ \E m \in batch : IsLeast(m, batch) /\ EventOf(m) = e

\* What becomes of an event once it is in the stream: an entry of it is still
\* to be read or acknowledged, its retry is about to be published, or it has
\* taken effect, is dead-lettered, or never parsed.
Accounted(e) ==
    \/ \E m \in Entries : EventOf(m) = e /\ (last < m \/ m \in pending)
    \/ InMemory(e)
    \/ e \in effected \cup dead
    \/ IsOfKind(e, "malformed")

\* At-least-once consumption of the orchestration stream, as the module's
\* docstring claims it: no crash or failed call loses an event.
NoEventLost == \A m \in Entries : Accounted(EventOf(m))

\* The only place an event can be lost is between acknowledging an entry and
\* publishing its retry: no other crash, lost reply or failed call loses one.
OnlyRetryLoses == \A m \in Entries : Accounted(EventOf(m)) \/ EventOf(m) \in dropped

\* A redelivery never forks the chain of retries: each attempt of an event is
\* published at most once, so it runs through at most MaxAttempts entries.
NoForkedRetry == \A m, n \in Entries : stream[m] = stream[n] => m = n

\* An event is dead-lettered only when some entry of it was at its last
\* attempt or beyond the delivery limit, or when it can never succeed.
DeadLetterJustified ==
    \A e \in dead :
        \/ IsOfKind(e, "invalid")
        \/ \E m \in Entries : /\ EventOf(m) = e
                             /\ \/ stream[m].attempt = MaxAttempts
                                \/ deliveries[m] > MaxDeliveryAttempts

\* Every event of the stream eventually takes effect, is dead-lettered, is
\* dropped as malformed, or was lost in the retry window.
EventuallySettled ==
    \A e \in Events :
        (\E m \in Entries : EventOf(m) = e)
            ~> \/ e \in effected \cup dead \cup dropped
               \/ IsOfKind(e, "malformed") /\ ~\E m \in Entries :
                      EventOf(m) = e /\ (last < m \/ m \in pending)
==============================================================================
