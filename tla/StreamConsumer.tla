--------------------------- MODULE StreamConsumer ----------------------------
(***************************************************************************)
(* A Redis consumer group and its workers: the recovery read of            *)
(* services/stream_service.py and the batch loop of the ingestion,         *)
(* observation and evidence workers, which are the same code on three      *)
(* streams.  Each step is one Redis command or one database transaction,   *)
(* so workers interleave between them, and a command may fail before or    *)
(* after Redis applied it.                                                 *)
(*                                                                         *)
(* Messages are numbered by stream id.                                     *)
(***************************************************************************)
EXTENDS Naturals, Sequences, FiniteSets

CONSTANTS
    NumMsgs,              \* entries the stream will ever have
    Kinds,                \* the kinds of entries that appear in it
    Workers,              \* consumers of the group
    Count,                \* entries per batch
    MaxDeliveryAttempts,  \* STREAM_MAX_DELIVERY_ATTEMPTS
    Page,                 \* entries one XPENDING reply covers, max(2 * Count, 50)
    MaxFaults,            \* bound on crashes and failed calls
    DeliveryBound         \* bound on deliveries of one entry

Msgs == 1..NumMsgs

\* malformed: does not deserialize; poison: the handler raises each time;
\* breaking: it does so inside PostgreSQL, which aborts the transaction.
ASSUME KindsAssumption == Kinds \subseteq {"healthy", "malformed", "poison", "breaking"}
ASSUME NumMsgsAssumption == NumMsgs \in Nat
ASSUME LimitsAssumption ==
    /\ Count \in Nat \ {0}
    /\ MaxDeliveryAttempts \in Nat \ {0}
    /\ Page \in Nat /\ Page >= 2 * Count
    /\ MaxFaults \in Nat
    /\ DeliveryBound \in Nat

VARIABLES
    stream,        \* the kind of each entry added so far
    lastDelivered, \* last-delivered-id of the group
    pending,       \* pending entries list of the group
    deliveries,    \* delivery counter of each entry
    idle,          \* pending entries idle for STREAM_CLAIM_IDLE_MS
    dlq,           \* entries copied to the dead-letter stream
    persisted,     \* messages whose transaction has committed
    starts,        \* history: times the handler was given each message
    pc,            \* where each worker is in its batch
    claimed,       \* entries it reclaimed and has not looked at yet
    expired,       \* reclaimed entries over the delivery limit, still to dead-letter
    batch,         \* entries it will parse and process
    broken,        \* the transaction of its session is aborted
    faults         \* faults so far, bounded by MaxFaults

group == <<lastDelivered, pending, deliveries, idle>>
worker == <<pc, claimed, expired, batch, broken>>
vars == <<stream, group, dlq, persisted, starts, worker, faults>>

Entries == 1..Len(stream)
OfKind(k) == {m \in Entries : stream[m] = k}
Malformed == OfKind("malformed")
Breaking == OfKind("breaking")
Poison == OfKind("poison") \cup Breaking

Init ==
    /\ stream = <<>>
    /\ lastDelivered = 0
    /\ pending = {}
    /\ deliveries = [m \in Msgs |-> 0]
    /\ idle = {}
    /\ dlq = {}
    /\ persisted = {}
    /\ starts = [m \in Msgs |-> 0]
    /\ pc = [w \in Workers |-> "claim"]
    /\ claimed = [w \in Workers |-> {}]
    /\ expired = [w \in Workers |-> {}]
    /\ batch = [w \in Workers |-> {}]
    /\ broken = [w \in Workers |-> FALSE]
    /\ faults = 0

\* The first k entries of S in stream order.
First(S, k) == {m \in S : Cardinality({n \in S : n < m}) < k}

IsLeast(m, S) == m \in S /\ \A n \in S : m <= n

Fault == faults < MaxFaults /\ faults' = faults + 1

------------------------------------------------------------------------------
(* The stream and the group, as Redis keeps them.                          *)

\* An adapter or the outbox appends an entry.
Arrive ==
    /\ Len(stream) < NumMsgs
    /\ \E kind \in Kinds : stream' = Append(stream, kind)
    /\ UNCHANGED <<group, dlq, persisted, starts, worker, faults>>

\* An entry has been pending for the claim threshold, whether its consumer
\* is dead or only slow.
BecomeIdle(m) ==
    /\ m \in pending \ idle
    /\ deliveries[m] < DeliveryBound
    /\ idle' = idle \cup {m}
    /\ UNCHANGED <<stream, lastDelivered, pending, deliveries, dlq, persisted, starts,
                   worker, faults>>

\* XREADGROUP and XAUTOCLAIM both hand S out once more and reset its idle time.
HandOut(S) ==
    /\ pending' = pending \cup S
    /\ deliveries' = [m \in Msgs |-> IF m \in S THEN deliveries[m] + 1 ELSE deliveries[m]]
    /\ idle' = idle \ S

Ack(m) ==
    /\ pending' = pending \ {m}
    /\ idle' = idle \ {m}
    /\ UNCHANGED <<lastDelivered, deliveries>>

------------------------------------------------------------------------------
(* _read_stream_with_recovery                                              *)

\* XAUTOCLAIM from 0-0.
Claim(w) ==
    /\ pc[w] = "claim"
    /\ LET S == First(idle, Count)
       IN /\ HandOut(S)
          /\ claimed' = [claimed EXCEPT ![w] = S]
          /\ pc' = [pc EXCEPT ![w] = IF S = {} THEN "read" ELSE "inspect"]
    /\ UNCHANGED <<stream, lastDelivered, dlq, persisted, starts, expired, batch, broken, faults>>

\* The call raises; Redis may have reassigned the entries all the same.
ClaimFails(w) ==
    /\ pc[w] = "claim"
    /\ Fault
    /\ \/ HandOut(First(idle, Count))
       \/ UNCHANGED <<pending, deliveries, idle>>
    /\ pc' = [pc EXCEPT ![w] = "read"]
    /\ UNCHANGED <<stream, lastDelivered, dlq, persisted, starts, claimed, expired, batch, broken>>

\* Mutant of Inspect: one delivery early.
InspectEarly(w) ==
    /\ pc[w] = "inspect"
    /\ LET over == {m \in claimed[w] \cap First(pending, Page) :
                      deliveries[m] >= MaxDeliveryAttempts}
       IN /\ expired' = [expired EXCEPT ![w] = over]
          /\ batch' = [batch EXCEPT ![w] = claimed[w] \ over]
          /\ pc' = [pc EXCEPT ![w] = IF over = {} THEN "read" ELSE "expire"]
    /\ claimed' = [claimed EXCEPT ![w] = {}]
    /\ UNCHANGED <<stream, group, dlq, persisted, starts, broken, faults>>

\* XPENDING: one page of counters, which parts the claimed entries into those
\* over the limit and those that join the batch.  An entry beyond the page, or
\* acknowledged since by another worker, expired as delivered once.
Inspect(w) ==
    /\ pc[w] = "inspect"
    /\ LET over == {m \in claimed[w] \cap First(pending, Page) :
                      deliveries[m] > MaxDeliveryAttempts}
       IN /\ expired' = [expired EXCEPT ![w] = over]
          /\ batch' = [batch EXCEPT ![w] = claimed[w] \ over]
          /\ pc' = [pc EXCEPT ![w] = IF over = {} THEN "read" ELSE "expire"]
    /\ claimed' = [claimed EXCEPT ![w] = {}]
    /\ UNCHANGED <<stream, group, dlq, persisted, starts, broken, faults>>

\* An entry over the limit is copied to the dead-letter stream ...
Expire(w, m) ==
    /\ pc[w] = "expire"
    /\ IsLeast(m, expired[w])
    /\ dlq' = dlq \cup {m}
    /\ pc' = [pc EXCEPT ![w] = "ackexpired"]
    /\ UNCHANGED <<stream, group, persisted, starts, claimed, expired, batch, broken, faults>>

\* Mutant of AckExpired: the copied entry is not acknowledged.
AckExpiredForgotten(w, m) ==
    /\ pc[w] = "ackexpired"
    /\ IsLeast(m, expired[w])
    /\ expired' = [expired EXCEPT ![w] = @ \ {m}]
    /\ pc' = [pc EXCEPT ![w] = IF expired'[w] = {} THEN "read" ELSE "expire"]
    /\ UNCHANGED <<stream, group, dlq, persisted, starts, claimed, batch, broken, faults>>

\* ... and only then acknowledged.
AckExpired(w, m) ==
    /\ pc[w] = "ackexpired"
    /\ IsLeast(m, expired[w])
    /\ Ack(m)
    /\ expired' = [expired EXCEPT ![w] = @ \ {m}]
    /\ pc' = [pc EXCEPT ![w] = IF expired'[w] = {} THEN "read" ELSE "expire"]
    /\ UNCHANGED <<stream, dlq, persisted, starts, claimed, batch, broken, faults>>

\* XPENDING raises: the claimed entries are dropped from this round, though
\* their counters went up.
InspectFails(w) ==
    /\ pc[w] = "inspect"
    /\ Fault
    /\ claimed' = [claimed EXCEPT ![w] = {}]
    /\ pc' = [pc EXCEPT ![w] = "read"]
    /\ UNCHANGED <<stream, group, dlq, persisted, starts, expired, batch, broken>>

\* A call of the loop raises, and the handler around it skips to the read:
\* entries after this one are dropped from this round.
ExpireFails(w, m) ==
    /\ pc[w] \in {"expire", "ackexpired"}
    /\ IsLeast(m, expired[w])
    /\ Fault
    /\ \/ pc[w] = "expire" /\ dlq' = dlq \cup {m} /\ UNCHANGED group
       \/ pc[w] = "ackexpired" /\ Ack(m) /\ UNCHANGED dlq
       \/ UNCHANGED <<dlq, group>>
    /\ batch' = [batch EXCEPT ![w] = {n \in @ : n < m}]
    /\ expired' = [expired EXCEPT ![w] = {}]
    /\ pc' = [pc EXCEPT ![w] = "read"]
    /\ UNCHANGED <<stream, persisted, starts, claimed, broken>>

Room(w) == Count - Cardinality(batch[w])

New(w) == {m \in Entries : lastDelivered < m /\ m <= lastDelivered + Room(w)}

DeliverNew(w) ==
    /\ HandOut(New(w))
    /\ lastDelivered' = lastDelivered + Cardinality(New(w))

\* XREADGROUP ">" for what is left of the batch.
Read(w) ==
    /\ pc[w] = "read"
    /\ DeliverNew(w)
    /\ batch' = [batch EXCEPT ![w] = @ \cup New(w)]
    /\ pc' = [pc EXCEPT ![w] = "work"]
    /\ UNCHANGED <<stream, dlq, persisted, starts, claimed, expired, broken, faults>>

EndBatch(w) ==
    /\ pc' = [pc EXCEPT ![w] = "claim"]
    /\ claimed' = [claimed EXCEPT ![w] = {}]
    /\ expired' = [expired EXCEPT ![w] = {}]
    /\ batch' = [batch EXCEPT ![w] = {}]
    /\ broken' = [broken EXCEPT ![w] = FALSE]

\* This call is not guarded: its exception ends the whole batch.
ReadFails(w) ==
    /\ pc[w] = "read"
    /\ Room(w) > 0
    /\ Fault
    /\ \/ DeliverNew(w)
       \/ UNCHANGED group
    /\ EndBatch(w)
    /\ UNCHANGED <<stream, dlq, persisted, starts>>

------------------------------------------------------------------------------
(* read_events and process_batch                                           *)

\* Mutant of AckMalformed: whatever was read is acknowledged when parsed.
AckParsed(w, m) ==
    /\ pc[w] = "work"
    /\ IsLeast(m, batch[w])
    /\ Ack(m)
    /\ batch' = [batch EXCEPT ![w] = @ \ {m}]
    /\ UNCHANGED <<stream, dlq, persisted, starts, pc, claimed, expired, broken, faults>>

\* Unparseable entries are acknowledged before anything is processed.
AckMalformed(w, m) ==
    /\ pc[w] = "work"
    /\ IsLeast(m, batch[w] \cap Malformed)
    /\ Ack(m)
    /\ batch' = [batch EXCEPT ![w] = @ \ {m}]
    /\ UNCHANGED <<stream, dlq, persisted, starts, pc, claimed, expired, broken, faults>>

\* An exception here leaves read_events and ends the batch.
AckMalformedFails(w, m) ==
    /\ pc[w] = "work"
    /\ IsLeast(m, batch[w] \cap Malformed)
    /\ Fault
    /\ Ack(m) \/ UNCHANGED group
    /\ EndBatch(w)
    /\ UNCHANGED <<stream, dlq, persisted, starts>>

Ready(w, m) ==
    /\ pc[w] = "work"
    /\ batch[w] \cap Malformed = {}
    /\ IsLeast(m, batch[w])

\* The handler commits; the acknowledgement comes next.
Process(w, m) ==
    /\ Ready(w, m)
    /\ m \notin Poison /\ ~broken[w]
    /\ starts' = [starts EXCEPT ![m] = @ + 1]
    /\ persisted' = persisted \cup {m}
    /\ pc' = [pc EXCEPT ![w] = "ack"]
    /\ UNCHANGED <<stream, group, dlq, claimed, expired, batch, broken, faults>>

\* Mutant of ProcessFails: the entry is acknowledged all the same.
ProcessFailsAcked(w, m) ==
    /\ Ready(w, m)
    /\ m \in Poison
    /\ starts' = [starts EXCEPT ![m] = @ + 1]
    /\ Ack(m)
    /\ batch' = [batch EXCEPT ![w] = @ \ {m}]
    /\ UNCHANGED <<stream, dlq, persisted, pc, claimed, expired, broken, faults>>

\* The handler raises, before its commit or (a later query or publish) after
\* it.  The entry stays pending and the loop goes on with the next one.  The
\* batch shares one session that nobody rolls back: once PostgreSQL has
\* aborted its transaction, every later handler of the batch raises as well.
ProcessFails(w, m) ==
    /\ Ready(w, m)
    /\ \/ /\ m \in Poison \/ broken[w]
          /\ persisted' = persisted
          /\ broken' = [broken EXCEPT ![w] = @ \/ m \in Breaking]
          /\ UNCHANGED faults
       \/ /\ m \notin Poison /\ ~broken[w]
          /\ Fault
          /\ persisted' \in {persisted, persisted \cup {m}}
          /\ \E b \in BOOLEAN : broken' = [broken EXCEPT ![w] = b]
    /\ starts' = [starts EXCEPT ![m] = @ + 1]
    /\ batch' = [batch EXCEPT ![w] = @ \ {m}]
    /\ UNCHANGED <<stream, group, dlq, pc, claimed, expired>>

AckProcessed(w, m) ==
    /\ pc[w] = "ack"
    /\ IsLeast(m, batch[w])
    /\ \/ Ack(m) /\ UNCHANGED faults
       \/ UNCHANGED group /\ Fault
    /\ batch' = [batch EXCEPT ![w] = @ \ {m}]
    /\ pc' = [pc EXCEPT ![w] = "work"]
    /\ UNCHANGED <<stream, dlq, persisted, starts, claimed, expired, broken>>

FinishBatch(w) ==
    /\ pc[w] = "work"
    /\ batch[w] = {}
    /\ EndBatch(w)
    /\ UNCHANGED <<stream, group, dlq, persisted, starts, faults>>

\* The process dies; everything it remembered is gone.
Crash(w) ==
    /\ pc[w] # "claim"
    /\ Fault
    /\ EndBatch(w)
    /\ UNCHANGED <<stream, group, dlq, persisted, starts>>

------------------------------------------------------------------------------
Recover(w) ==
    \/ Claim(w) \/ Inspect(w) \/ Read(w)
    \/ \E m \in Msgs : Expire(w, m) \/ AckExpired(w, m)

Handle(w) ==
    \/ FinishBatch(w)
    \/ \E m \in Msgs : AckMalformed(w, m) \/ Process(w, m) \/ AckProcessed(w, m)
                       \/ ProcessFails(w, m)

Fail(w) ==
    \/ ClaimFails(w) \/ InspectFails(w) \/ ReadFails(w) \/ Crash(w)
    \/ \E m \in Msgs : AckMalformedFails(w, m) \/ ExpireFails(w, m)

Next ==
    \/ Arrive
    \/ \E m \in Msgs : BecomeIdle(m)
    \/ \E w \in Workers : Recover(w) \/ Handle(w) \/ Fail(w)

Spec == Init /\ [][Next]_vars

\* The loops run for ever and time passes; adapters and faults are not fair.
Fairness ==
    /\ \A w \in Workers : WF_vars(Recover(w) \/ Handle(w))
    /\ \A m \in Msgs : WF_vars(BecomeIdle(m))

FairSpec == Spec /\ Fairness

------------------------------------------------------------------------------
(* Properties.                                                             *)

\* Every variable has its type: only delivered entries are pending or in the
\* hands of a worker, and only pending ones are idle.
TypeOK ==
    /\ stream \in Seq(Kinds) /\ Len(stream) <= NumMsgs
    /\ lastDelivered \in 0..Len(stream)
    /\ pending \subseteq 1..lastDelivered
    /\ deliveries \in [Msgs -> Nat]
    /\ idle \subseteq pending
    /\ dlq \subseteq Entries
    /\ persisted \subseteq Entries
    /\ starts \in [Msgs -> Nat]
    /\ pc \in [Workers -> {"claim", "inspect", "expire", "ackexpired", "read", "work", "ack"}]
    /\ {claimed, expired, batch} \subseteq [Workers -> SUBSET Msgs]
    /\ \A w \in Workers : claimed[w] \cup expired[w] \cup batch[w] \subseteq 1..lastDelivered
    /\ broken \in [Workers -> BOOLEAN]
    /\ faults \in 0..MaxFaults

\* At-least-once: an entry the group has handed out is still pending, or its
\* effect is durable, or it is in the dead-letter stream, or it could not be
\* parsed.  No crash, lost reply, failed command or slow consumer loses one.
NothingLost ==
    \A m \in 1..lastDelivered :
        m \in pending \/ m \in persisted \/ m \in dlq \/ m \in Malformed

\* Only entries that really were delivered more often than the limit reach the
\* dead-letter stream.
DeadLetterExhausted == \A m \in dlq : deliveries[m] > MaxDeliveryAttempts

\* Every entry of the stream is eventually read and acknowledged, once faults
\* stop: with NothingLost, it takes effect, is dead-lettered or is dropped as
\* unparseable, and the pending list drains.
EventuallySettled ==
    \A m \in Msgs : (m \in Entries) ~> (m <= lastDelivered /\ m \notin pending)

Delivery == INSTANCE AtLeastOnce WITH
    Events      <- Msgs,
    accepted    <- Entries,
    outstanding <- {m \in Entries : m > lastDelivered \/ m \in pending},
    delivered   <- persisted,
    abandoned   <- dlq \cup {m \in Malformed : m <= lastDelivered /\ m \notin pending}

\* The consumer group implements AtLeastOnce: it holds what is not yet read or
\* still pending, and acknowledges only what took effect or was given up on.
DeliverySpec == Delivery!Spec
==============================================================================
