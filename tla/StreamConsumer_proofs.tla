------------------------ MODULE StreamConsumer_proofs ------------------------
(***************************************************************************)
(* Proofs about a consumer group and its workers: its type invariant, that *)
(* no entry is lost, that only exhausted entries are dead-lettered, and    *)
(* that the group implements AtLeastOnce.                                  *)
(*                                                                         *)
(* Workers interleave between commands and forget everything in a crash,   *)
(* so what protects an entry must be known at the command that gives it    *)
(* up, the XACK.  The invariant says it for each place an XACK is sent     *)
(* from: after a commit the least entry of the batch is durable, after the *)
(* copy the least expired entry is in the dead-letter stream.  Both only   *)
(* grow, so no other worker can invalidate them meanwhile.                 *)
(***************************************************************************)
EXTENDS StreamConsumer, FiniteSetTheorems, TLAPS

\* What Redis and the database hold.
SharedTypes ==
  /\ stream \in Seq(Kinds) /\ Len(stream) <= NumMsgs
  /\ lastDelivered \in 0..Len(stream)
  /\ pending \subseteq 1..lastDelivered
  /\ deliveries \in [Msgs -> Nat]
  /\ idle \subseteq pending
  /\ dlq \subseteq Entries
  /\ persisted \subseteq Entries

SharedInv == SharedTypes /\ NothingLost /\ DeadLetterExhausted

\* What the workers remember.
WorkerTypes ==
  /\ pc \in [Workers -> {"claim", "inspect", "expire", "ackexpired", "read", "work", "ack"}]
  /\ claimed \in [Workers -> SUBSET Msgs]
  /\ expired \in [Workers -> SUBSET Msgs]
  /\ batch \in [Workers -> SUBSET Msgs]

WorkerInv(w) ==
  /\ claimed[w] \subseteq 1..lastDelivered
  /\ expired[w] \subseteq 1..lastDelivered
  /\ batch[w] \subseteq 1..lastDelivered
  /\ \A m \in expired[w] : deliveries[m] > MaxDeliveryAttempts
  /\ pc[w] = "ack" => \E m \in persisted : IsLeast(m, batch[w])
  /\ pc[w] = "ackexpired" => \E m \in dlq : IsLeast(m, expired[w])

Counters ==
  /\ starts \in [Msgs -> Nat]
  /\ broken \in [Workers -> BOOLEAN]
  /\ faults \in 0..MaxFaults

IInv == SharedInv /\ WorkerTypes /\ \A w \in Workers : WorkerInv(w)

-----------------------------------------------------------------------------
\* Sets of messages have one least element.
LEMMA LeastUnique ==
  ASSUME NEW S \in SUBSET Nat, NEW m, IsLeast(m, S), NEW n, IsLeast(n, S)
  PROVE  m = n
BY DEF IsLeast

\* XREADGROUP delivers the entries that follow, without a gap.
LEMMA NoGap ==
  ASSUME NEW L \in Nat, NEW last \in 0..L, NEW room \in Int,
         NEW N \in SUBSET (1..L),
         \A m \in 1..L : m \in N <=> last < m /\ m <= last + room
  PROVE  \E hi \in last..L : /\ hi = last + Cardinality(N)
                             /\ \A m \in N : last < m /\ m <= hi
                             /\ \A m \in 1..hi : m <= last \/ m \in N
<1>1. CASE room <= 0
  <2>1. N = {}
    BY <1>1
  <2>2. Cardinality(N) = 0
    BY <2>1, FS_EmptySet
  <2>3. last \in last..L /\ last = last + 0
    OBVIOUS
  <2> QED
    BY <2>1, <2>2, <2>3
<1>2. CASE room > 0
  <2>1. PICK hi \in Nat : hi = IF last + room <= L THEN last + room ELSE L
    BY <1>2
  <2>2. last <= hi /\ hi <= L
    BY <1>2, <2>1
  <2>3. N = (last + 1)..hi
    <3>1. ASSUME NEW m \in N PROVE m \in (last + 1)..hi
      BY <1>2, <2>1, <2>2
    <3>2. ASSUME NEW m \in (last + 1)..hi PROVE m \in N
      <4>1. m \in 1..L /\ last < m /\ m <= last + room
        BY <1>2, <2>1, <2>2
      <4> QED
        BY <4>1
    <3> QED
      BY <3>1, <3>2
  <2>4. Cardinality((last + 1)..hi) = IF last + 1 > hi THEN 0 ELSE hi - (last + 1) + 1
    BY FS_Interval
  <2>5. Cardinality(N) = hi - last
    BY <2>2, <2>3, <2>4
  <2>6. hi = last + (hi - last) /\ hi \in last..L
    BY <2>2
  <2>7. /\ \A m \in N : last < m /\ m <= hi
        /\ \A m \in 1..hi : m <= last \/ m \in N
    BY <2>2, <2>3
  <2> QED
    BY <2>5, <2>6, <2>7
<1> QED
  BY <1>1, <1>2

-----------------------------------------------------------------------------
\* What a step does to Redis and the database: one command, one commit, or
\* nothing.
Arrival ==
  /\ Len(stream) < NumMsgs
  /\ \E kind \in Kinds : stream' = Append(stream, kind)
  /\ UNCHANGED <<group, dlq, persisted>>
Reassignment ==
  /\ lastDelivered' = lastDelivered /\ pending' = pending /\ idle' \subseteq pending
  /\ deliveries' \in [Msgs -> Nat] /\ \A m \in Msgs : deliveries'[m] >= deliveries[m]
  /\ UNCHANGED <<stream, dlq, persisted>>
NewDelivery == (\E w \in Workers : DeliverNew(w)) /\ UNCHANGED <<stream, dlq, persisted>>
Settled == persisted \cup dlq \cup Malformed
Acknowledgement ==
  /\ \E m \in Settled : m \in 1..lastDelivered /\ Ack(m)
  /\ UNCHANGED <<stream, dlq, persisted>>
DeadLetter ==
  /\ \E m \in Entries : deliveries[m] > MaxDeliveryAttempts /\ dlq' = dlq \cup {m}
  /\ UNCHANGED <<stream, group, persisted>>
Durable ==
  /\ \E m \in Entries : persisted' = persisted \cup {m}
  /\ UNCHANGED <<stream, group, dlq>>

Effect ==
  \/ Arrival \/ Reassignment \/ NewDelivery \/ Acknowledgement \/ DeadLetter \/ Durable
  \/ UNCHANGED <<stream, group, dlq, persisted>>

\* What only grows.
Grows ==
  /\ lastDelivered <= lastDelivered'
  /\ \A m \in Msgs : deliveries[m] <= deliveries'[m]
  /\ dlq \subseteq dlq' /\ persisted \subseteq persisted'

LEMMA ArrivalShared ==
  ASSUME SharedInv, Arrival
  PROVE  SharedInv' /\ Grows
<1>1. PICK kind \in Kinds : stream' = Append(stream, kind)
  BY DEF Arrival
<1>2. /\ UNCHANGED <<lastDelivered, pending, deliveries, idle, dlq, persisted>>
      /\ Len(stream) < NumMsgs
  BY DEF Arrival, group
<1>3. /\ stream' \in Seq(Kinds) /\ Len(stream') = Len(stream) + 1 /\ Len(stream) \in Nat
      /\ \A m \in 1..Len(stream) : stream'[m] = stream[m]
  BY <1>1 DEF SharedInv, SharedTypes
<1>4. SharedTypes'
  BY <1>2, <1>3, NumMsgsAssumption DEF SharedInv, SharedTypes, Entries
<1>5. Malformed \subseteq Malformed'
  BY <1>3 DEF Malformed, OfKind, Entries
<1>6. NothingLost' /\ DeadLetterExhausted'
  BY <1>2, <1>5 DEF SharedInv, NothingLost, DeadLetterExhausted
<1>7. Grows
  BY <1>2 DEF Grows, SharedInv, SharedTypes
<1> QED
  BY <1>4, <1>6, <1>7 DEF SharedInv

LEMMA ReassignmentShared ==
  ASSUME SharedInv, Reassignment
  PROVE  SharedInv' /\ Grows
<1>1. SharedTypes'
  BY DEF Reassignment, SharedInv, SharedTypes, Entries
<1>2. NothingLost'
  BY DEF Reassignment, SharedInv, NothingLost, Malformed, OfKind, Entries
<1>3. DeadLetterExhausted'
  <2>1. dlq \subseteq Msgs
    BY NumMsgsAssumption DEF SharedInv, SharedTypes, Entries, Msgs
  <2>2. \A m \in Msgs : deliveries[m] \in Nat /\ deliveries'[m] \in Nat
    BY DEF SharedInv, SharedTypes, Reassignment
  <2> QED
    BY <2>1, <2>2, LimitsAssumption DEF Reassignment, SharedInv, DeadLetterExhausted
<1>4. Grows
  BY DEF Reassignment, Grows, SharedInv, SharedTypes
<1> QED
  BY <1>1, <1>2, <1>3, <1>4 DEF SharedInv

\* What DeliverNew does, in terms of NoGap.
LEMMA DeliverNewFacts ==
  ASSUME SharedTypes, WorkerTypes, NEW w \in Workers, DeliverNew(w)
  PROVE  /\ lastDelivered' \in lastDelivered..Len(stream)
         /\ New(w) \subseteq 1..lastDelivered'
         /\ \A m \in New(w) : m > lastDelivered
         /\ \A m \in 1..lastDelivered' : m <= lastDelivered \/ m \in New(w)
         /\ pending' = pending \cup New(w) /\ idle' = idle \ New(w)
         /\ deliveries' \in [Msgs -> Nat]
         /\ \A m \in Msgs : deliveries'[m] >= deliveries[m]
<1>1. Room(w) \in Int
  <2>1. IsFiniteSet(batch[w])
    <3>1. batch[w] \subseteq 1..NumMsgs
      BY DEF WorkerTypes, Msgs
    <3>2. IsFiniteSet(1..NumMsgs)
      BY FS_Interval, NumMsgsAssumption
    <3> QED
      BY <3>1, <3>2, FS_Subset
  <2>2. Cardinality(batch[w]) \in Nat
    BY <2>1, FS_CardinalityType
  <2> QED
    BY <2>2, LimitsAssumption DEF Room
<1>2. New(w) = {m \in 1..Len(stream) : lastDelivered < m /\ m <= lastDelivered + Room(w)}
  BY DEF New, Entries
<1>3. PICK hi \in lastDelivered..Len(stream) :
        /\ hi = lastDelivered + Cardinality(New(w))
        /\ \A m \in New(w) : lastDelivered < m /\ m <= hi
        /\ \A m \in 1..hi : m <= lastDelivered \/ m \in New(w)
  <2>1. Len(stream) \in Nat /\ lastDelivered \in 0..Len(stream)
    BY DEF SharedTypes
  <2> QED
    BY <1>1, <1>2, <2>1, NoGap, New(w) \in SUBSET (1..Len(stream))
<1>4. lastDelivered' = hi /\ New(w) \subseteq 1..hi
  <2>1. New(w) \subseteq 1..Len(stream)
    BY <1>2
  <2> QED
    BY <1>3, <2>1 DEF DeliverNew
<1>5. /\ deliveries' \in [Msgs -> Nat]
      /\ \A m \in Msgs : deliveries'[m] >= deliveries[m]
  BY DEF DeliverNew, HandOut, SharedTypes
<1>6. lastDelivered' \in lastDelivered..Len(stream)
  BY <1>3, <1>4
<1> QED
  BY <1>3, <1>4, <1>5, <1>6 DEF DeliverNew, HandOut

LEMMA NewDeliveryShared ==
  ASSUME SharedInv, WorkerTypes, NewDelivery
  PROVE  SharedInv' /\ Grows
<1>1. PICK w \in Workers : DeliverNew(w)
  BY DEF NewDelivery
<1>2. UNCHANGED <<stream, dlq, persisted>>
  BY DEF NewDelivery
<1>3. /\ lastDelivered' \in lastDelivered..Len(stream)
      /\ New(w) \subseteq 1..lastDelivered'
      /\ \A m \in 1..lastDelivered' : m <= lastDelivered \/ m \in New(w)
      /\ pending' = pending \cup New(w) /\ idle' = idle \ New(w)
      /\ deliveries' \in [Msgs -> Nat]
      /\ \A m \in Msgs : deliveries'[m] >= deliveries[m]
  BY <1>1, DeliverNewFacts DEF SharedInv
<1>4. SharedTypes'
  <2>1. lastDelivered' \in 0..Len(stream') /\ stream' \in Seq(Kinds) /\ Len(stream') <= NumMsgs
    BY <1>2, <1>3 DEF SharedInv, SharedTypes
  <2>2. 1..lastDelivered \subseteq 1..lastDelivered'
    BY <1>3 DEF SharedInv, SharedTypes
  <2>3. pending' \subseteq 1..lastDelivered' /\ idle' \subseteq pending'
    BY <1>3, <2>2 DEF SharedInv, SharedTypes
  <2>4. dlq' \subseteq Entries' /\ persisted' \subseteq Entries'
    BY <1>2 DEF SharedInv, SharedTypes, Entries
  <2> QED
    BY <1>3, <2>1, <2>3, <2>4 DEF SharedTypes
<1>5. NothingLost'
  <2>1. Malformed' = Malformed
    BY <1>2 DEF Malformed, OfKind, Entries
  <2> QED
    BY <1>2, <1>3, <2>1 DEF SharedInv, SharedTypes, NothingLost
<1>6. DeadLetterExhausted'
  <2>1. dlq \subseteq Msgs
    BY NumMsgsAssumption DEF SharedInv, SharedTypes, Entries, Msgs
  <2>2. \A m \in Msgs : deliveries[m] \in Nat /\ deliveries'[m] \in Nat
    BY <1>3 DEF SharedInv, SharedTypes
  <2> QED
    BY <1>2, <1>3, <2>1, <2>2, LimitsAssumption DEF SharedInv, DeadLetterExhausted
<1>7. Grows
  BY <1>2, <1>3 DEF Grows, SharedInv, SharedTypes
<1> QED
  BY <1>4, <1>5, <1>6, <1>7 DEF SharedInv

LEMMA SettlingShared ==
  ASSUME SharedInv, Acknowledgement \/ DeadLetter \/ Durable
                    \/ UNCHANGED <<stream, group, dlq, persisted>>
  PROVE  SharedInv' /\ Grows
<1>1. UNCHANGED <<stream, lastDelivered, deliveries>>
  BY DEF Acknowledgement, DeadLetter, Durable, Ack, group
<1>2. Malformed' = Malformed
  BY <1>1 DEF Malformed, OfKind, Entries
<1>3. CASE Acknowledgement
  <2>1. PICK m \in Settled : m \in 1..lastDelivered /\ Ack(m)
    BY <1>3 DEF Acknowledgement
  <2>2. /\ pending' = pending \ {m} /\ idle' = idle \ {m}
        /\ UNCHANGED <<dlq, persisted>>
    BY <1>3, <2>1 DEF Ack, Acknowledgement
  <2>3. SharedTypes'
    BY <1>1, <2>2 DEF SharedInv, SharedTypes, Entries
  <2>5. DeadLetterExhausted' /\ Grows
    BY <1>1, <2>2 DEF SharedInv, SharedTypes, DeadLetterExhausted, Grows
  <2>4. NothingLost'
    BY <1>1, <1>2, <2>1, <2>2 DEF SharedInv, NothingLost, Settled
  <2> QED
    BY <2>3, <2>4, <2>5 DEF SharedInv
<1>4. CASE DeadLetter
  <2>1. SharedTypes' /\ DeadLetterExhausted' /\ Grows
    BY <1>1, <1>4 DEF DeadLetter, group, SharedInv, SharedTypes, DeadLetterExhausted, Entries, Grows
  <2>2. NothingLost'
    BY <1>1, <1>2, <1>4 DEF DeadLetter, group, SharedInv, NothingLost
  <2> QED
    BY <2>1, <2>2 DEF SharedInv
<1>5. CASE Durable
  <2>1. SharedTypes' /\ DeadLetterExhausted' /\ Grows
    BY <1>1, <1>5 DEF Durable, group, SharedInv, SharedTypes, DeadLetterExhausted, Entries, Grows
  <2>2. NothingLost'
    BY <1>1, <1>2, <1>5 DEF Durable, group, SharedInv, NothingLost
  <2> QED
    BY <2>1, <2>2 DEF SharedInv
<1>6. CASE UNCHANGED <<stream, group, dlq, persisted>>
  BY <1>2, <1>6 DEF group, SharedInv, SharedTypes, NothingLost, DeadLetterExhausted, Entries, Grows
<1> QED
  BY <1>3, <1>4, <1>5, <1>6

LEMMA EffectShared ==
  ASSUME SharedInv, WorkerTypes, Effect
  PROVE  SharedInv' /\ Grows
BY ArrivalShared, ReassignmentShared, NewDeliveryShared, SettlingShared DEF Effect

-----------------------------------------------------------------------------
\* A worker that does nothing keeps what it knows.
LEMMA WorkerStable ==
  ASSUME SharedInv, SharedInv', Grows, NEW u \in Workers, WorkerInv(u),
         UNCHANGED <<pc[u], claimed[u], expired[u], batch[u]>>
  PROVE  WorkerInv(u)'
<1>1. 1..lastDelivered \subseteq 1..lastDelivered' /\ 1..lastDelivered \subseteq Msgs
  BY NumMsgsAssumption DEF Grows, SharedInv, SharedTypes, Msgs
<1>2. \A m \in Msgs : deliveries[m] \in Nat /\ deliveries'[m] \in Nat
  BY DEF SharedInv, SharedTypes
<1>3. \A m \in expired'[u] : deliveries'[m] > MaxDeliveryAttempts
  BY <1>1, <1>2, LimitsAssumption DEF WorkerInv, Grows
<1> QED
  BY <1>1, <1>3 DEF WorkerInv, Grows, IsLeast

\* One worker's step: its own memory changes, and it knows what it must.
LEMMA OneWorker ==
  ASSUME IInv, Effect, NEW w \in Workers, WorkerTypes',
         \A u \in Workers \ {w} : UNCHANGED <<pc[u], claimed[u], expired[u], batch[u]>>,
         SharedInv' /\ Grows => WorkerInv(w)'
  PROVE  IInv'
<1>1. SharedInv' /\ Grows
  BY EffectShared DEF IInv
<1>2. ASSUME NEW u \in Workers \ {w}
      PROVE  WorkerInv(u)'
  BY <1>1, WorkerStable DEF IInv
<1> QED
  BY <1>1, <1>2 DEF IInv

\* The memory of a worker with new values, and the others'.
Remembers(w, p, c, e, b) ==
  /\ pc' = [pc EXCEPT ![w] = p] /\ claimed' = [claimed EXCEPT ![w] = c]
  /\ expired' = [expired EXCEPT ![w] = e] /\ batch' = [batch EXCEPT ![w] = b]

Phases == {"claim", "inspect", "expire", "ackexpired", "read", "work", "ack"}

LEMMA Remembering ==
  ASSUME IInv, Effect, NEW w \in Workers,
         NEW p \in Phases, NEW c \in SUBSET (1..lastDelivered),
         NEW e \in SUBSET (1..lastDelivered), NEW b \in SUBSET (1..lastDelivered'),
         Remembers(w, p, c, e, b),
         \A m \in e : deliveries[m] > MaxDeliveryAttempts,
         p = "ack" => \E m \in persisted' : IsLeast(m, b),
         p = "ackexpired" => \E m \in dlq' : IsLeast(m, e)
  PROVE  IInv'
<1>1. SharedInv' /\ Grows
  BY EffectShared DEF IInv
<1>2. 1..lastDelivered \subseteq 1..lastDelivered' /\ 1..lastDelivered' \subseteq Msgs
  BY <1>1, NumMsgsAssumption DEF Grows, IInv, SharedInv, SharedTypes, Msgs
<1>3. WorkerTypes'
  BY <1>2 DEF Remembers, IInv, WorkerTypes, Phases
<1>4. \A u \in Workers \ {w} : UNCHANGED <<pc[u], claimed[u], expired[u], batch[u]>>
  BY DEF Remembers, IInv, WorkerTypes
<1>5. pc'[w] = p /\ claimed'[w] = c /\ expired'[w] = e /\ batch'[w] = b
  BY DEF Remembers, IInv, WorkerTypes
<1>6. \A m \in e : deliveries'[m] > MaxDeliveryAttempts
  <2>1. \A m \in Msgs : deliveries[m] \in Nat /\ deliveries'[m] \in Nat
    BY <1>1 DEF IInv, SharedInv, SharedTypes
  <2> QED
    BY <1>1, <1>2, <2>1, LimitsAssumption DEF Grows
<1>7. WorkerInv(w)'
  BY <1>2, <1>5, <1>6 DEF WorkerInv, IsLeast
<1> QED
  BY <1>3, <1>4, <1>7, OneWorker

\* No worker is involved.
LEMMA NobodyRemembers ==
  ASSUME IInv, Effect, UNCHANGED <<pc, claimed, expired, batch>>
  PROVE  IInv'
<1>1. SharedInv' /\ Grows
  BY EffectShared DEF IInv
<1>2. \A u \in Workers : WorkerInv(u)'
  BY <1>1, WorkerStable DEF IInv
<1> QED
  BY <1>1, <1>2 DEF IInv, WorkerTypes

-----------------------------------------------------------------------------
\* What the invariant says of one worker.
LEMMA Knows ==
  ASSUME IInv, NEW w \in Workers
  PROVE  /\ claimed[w] \in SUBSET (1..lastDelivered) /\ expired[w] \in SUBSET (1..lastDelivered)
         /\ batch[w] \in SUBSET (1..lastDelivered)
         /\ \A m \in expired[w] : deliveries[m] > MaxDeliveryAttempts
         /\ 1..lastDelivered \subseteq 1..lastDelivered
         /\ 1..lastDelivered \subseteq Entries /\ 1..lastDelivered \subseteq Msgs
         /\ 1..lastDelivered \subseteq Nat
         /\ claimed = [claimed EXCEPT ![w] = claimed[w]]
         /\ expired = [expired EXCEPT ![w] = expired[w]]
         /\ batch = [batch EXCEPT ![w] = batch[w]]
         /\ pc = [pc EXCEPT ![w] = pc[w]]
<1>1. /\ claimed = [claimed EXCEPT ![w] = claimed[w]]
      /\ expired = [expired EXCEPT ![w] = expired[w]]
      /\ batch = [batch EXCEPT ![w] = batch[w]]
      /\ pc = [pc EXCEPT ![w] = pc[w]]
  BY DEF IInv, WorkerTypes
<1>2. 1..lastDelivered \subseteq Entries /\ 1..lastDelivered \subseteq Msgs
  BY NumMsgsAssumption DEF IInv, SharedInv, SharedTypes, Entries, Msgs
<1>3. WorkerInv(w)
  BY DEF IInv
<1> QED
  BY <1>1, <1>2, <1>3 DEF WorkerInv

\* Handing out what is pending loses and delivers nothing.
LEMMA HandOutOld ==
  ASSUME IInv, NEW S \in SUBSET idle, HandOut(S), UNCHANGED <<stream, lastDelivered, dlq, persisted>>
  PROVE  Reassignment
<1>1. pending' = pending /\ idle' \subseteq pending
  BY DEF HandOut, IInv, SharedInv, SharedTypes
<1>2. /\ deliveries' \in [Msgs -> Nat]
      /\ \A m \in Msgs : deliveries'[m] >= deliveries[m]
  BY DEF HandOut, IInv, SharedInv, SharedTypes
<1> QED
  BY <1>1, <1>2 DEF Reassignment

LEMMA FirstSubset == \A S, k : First(S, k) \subseteq S
BY DEF First

LEMMA ClaimInv ==
  ASSUME IInv, NEW w \in Workers, Claim(w) \/ ClaimFails(w)
  PROVE  IInv'
<1> DEFINE S == First(idle, Count)
<1>1. S \in SUBSET idle /\ S \in SUBSET (1..lastDelivered)
  BY FirstSubset DEF IInv, SharedInv, SharedTypes
<1>2. CASE Claim(w)
  <2>1. Reassignment
    BY <1>1, <1>2, HandOutOld DEF Claim
  <2>2. PICK p \in {"read", "inspect"} : pc' = [pc EXCEPT ![w] = p]
    BY <1>2 DEF Claim
  <2>3. Remembers(w, p, S, expired[w], batch[w])
    BY <1>2, <2>2, Knows DEF Claim, Remembers
  <2>4. batch[w] \in SUBSET (1..lastDelivered')
    BY <2>1, Knows DEF Reassignment
  <2>5. p \in Phases /\ p # "ack" /\ p # "ackexpired"
    BY DEF Phases
  <2> QED
    BY <1>1, <2>1, <2>3, <2>4, <2>5, Knows, Remembering DEF Effect
<1>3. CASE ClaimFails(w)
  <2>1. Reassignment
    <3>1. CASE HandOut(S)
      BY <1>1, <1>3, <3>1, HandOutOld DEF ClaimFails
    <3>2. CASE UNCHANGED <<pending, deliveries, idle>>
      BY <1>3, <3>2 DEF ClaimFails, Reassignment, IInv, SharedInv, SharedTypes
    <3> QED
      BY <1>3, <3>1, <3>2 DEF ClaimFails
  <2>2. Remembers(w, "read", claimed[w], expired[w], batch[w])
    BY <1>3, Knows DEF ClaimFails, Remembers
  <2>3. batch[w] \in SUBSET (1..lastDelivered')
    BY <2>1, Knows DEF Reassignment
  <2>4. "read" \in Phases
    BY DEF Phases
  <2> QED
    BY <2>1, <2>2, <2>3, <2>4, Knows, Remembering DEF Effect
<1> QED
  BY <1>2, <1>3

LEMMA ClaimEffect ==
  ASSUME IInv, NEW w \in Workers, Claim(w) \/ ClaimFails(w)
  PROVE  Effect
<1> DEFINE S == First(idle, Count)
<1>1. S \in SUBSET idle
  BY FirstSubset
<1>2. CASE HandOut(S)
  BY <1>1, <1>2, HandOutOld DEF Claim, ClaimFails, Effect
<1>3. CASE UNCHANGED <<pending, deliveries, idle>>
  BY <1>3 DEF Claim, ClaimFails, Effect, group
<1> QED
  BY <1>2, <1>3 DEF Claim, ClaimFails

LEMMA InspectInv ==
  ASSUME IInv, NEW w \in Workers, Inspect(w) \/ InspectFails(w)
  PROVE  IInv'
<1>1. UNCHANGED <<stream, group, dlq, persisted>>
  BY DEF Inspect, InspectFails
<1>2. batch[w] \in SUBSET (1..lastDelivered') /\ claimed[w] \in SUBSET (1..lastDelivered')
  BY <1>1, Knows DEF group
<1>3. CASE Inspect(w)
  <2> DEFINE over == {m \in claimed[w] \cap First(pending, Page) :
                        deliveries[m] > MaxDeliveryAttempts}
  <2>1. PICK p \in {"read", "expire"} : pc' = [pc EXCEPT ![w] = p]
    BY <1>3 DEF Inspect
  <2>2. Remembers(w, p, {}, over, claimed[w] \ over)
    BY <1>3, <2>1 DEF Inspect, Remembers
  <2>3. /\ over \in SUBSET (1..lastDelivered) /\ claimed[w] \ over \in SUBSET (1..lastDelivered')
        /\ \A m \in over : deliveries[m] > MaxDeliveryAttempts
    BY <1>2, Knows
  <2>4. p \in Phases /\ p # "ack" /\ p # "ackexpired"
    BY DEF Phases
  <2>5. {} \in SUBSET (1..lastDelivered)
    OBVIOUS
  <2> HIDE DEF over
  <2> QED
    BY <1>1, <2>2, <2>3, <2>4, <2>5, Remembering DEF Effect
<1>4. CASE InspectFails(w)
  <2>1. Remembers(w, "read", {}, expired[w], batch[w])
    BY <1>4, Knows DEF InspectFails, Remembers
  <2>2. "read" \in Phases /\ {} \in SUBSET (1..lastDelivered)
    BY DEF Phases
  <2> QED
    BY <1>1, <1>2, <2>1, <2>2, Knows, Remembering DEF Effect
<1> QED
  BY <1>3, <1>4

\* The entry a worker acknowledges after copying it is in the stream of the dead.
LEMMA CopiedFirst ==
  ASSUME IInv, NEW w \in Workers, pc[w] = "ackexpired", NEW m \in Msgs, IsLeast(m, expired[w])
  PROVE  m \in dlq
<1>1. PICK n \in dlq : IsLeast(n, expired[w])
  BY DEF IInv, WorkerInv
<1>2. expired[w] \in SUBSET Nat
  BY Knows
<1> QED
  BY <1>1, <1>2, LeastUnique

LEMMA DurableFirst ==
  ASSUME IInv, NEW w \in Workers, pc[w] = "ack", NEW m \in Msgs, IsLeast(m, batch[w])
  PROVE  m \in persisted
<1>1. PICK n \in persisted : IsLeast(n, batch[w])
  BY DEF IInv, WorkerInv
<1>2. batch[w] \in SUBSET Nat
  BY Knows
<1> QED
  BY <1>1, <1>2, LeastUnique

LEMMA ExpireInv ==
  ASSUME IInv, NEW w \in Workers, NEW m \in Msgs, Expire(w, m)
  PROVE  IInv'
<1>1. m \in expired[w] /\ m \in Entries /\ deliveries[m] > MaxDeliveryAttempts
  BY Knows DEF Expire, IsLeast
<1>2. DeadLetter
  BY <1>1 DEF Expire, DeadLetter
<1>3. Remembers(w, "ackexpired", claimed[w], expired[w], batch[w])
  BY Knows DEF Expire, Remembers
<1>4. batch[w] \in SUBSET (1..lastDelivered')
  BY Knows DEF Expire, group
<1>5. m \in dlq' /\ IsLeast(m, expired[w]) /\ "ackexpired" \in Phases
  BY DEF Expire, Phases
<1> QED
  BY <1>2, <1>3, <1>4, <1>5, Knows, Remembering DEF Effect

LEMMA AckExpiredInv ==
  ASSUME IInv, NEW w \in Workers, NEW m \in Msgs, AckExpired(w, m)
  PROVE  IInv'
<1>1. m \in dlq /\ m \in 1..lastDelivered
  BY Knows, CopiedFirst DEF AckExpired, IsLeast
<1>2. Acknowledgement
  BY <1>1 DEF AckExpired, Acknowledgement, Settled
<1>3. PICK p \in {"read", "expire"} : pc' = [pc EXCEPT ![w] = p]
  BY DEF AckExpired
<1>4. Remembers(w, p, claimed[w], expired[w] \ {m}, batch[w])
  BY <1>3, Knows DEF AckExpired, Remembers
<1>5. batch[w] \in SUBSET (1..lastDelivered') /\ expired[w] \ {m} \in SUBSET (1..lastDelivered)
  BY Knows DEF AckExpired, Ack
<1>6. p \in Phases /\ p # "ack" /\ p # "ackexpired"
  BY DEF Phases
<1>7. \A n \in expired[w] \ {m} : deliveries[n] > MaxDeliveryAttempts
  BY Knows
<1> QED
  BY <1>2, <1>4, <1>5, <1>6, <1>7, Knows, Remembering DEF Effect

LEMMA ExpireFailsInv ==
  ASSUME IInv, NEW w \in Workers, NEW m \in Msgs, ExpireFails(w, m)
  PROVE  IInv'
<1>1. m \in expired[w] /\ m \in Entries /\ m \in 1..lastDelivered
      /\ deliveries[m] > MaxDeliveryAttempts
  BY Knows DEF ExpireFails, IsLeast
<1>2. Effect
  <2>1. CASE pc[w] = "expire" /\ dlq' = dlq \cup {m} /\ UNCHANGED group
    BY <1>1, <2>1 DEF ExpireFails, Effect, DeadLetter
  <2>2. CASE pc[w] = "ackexpired" /\ Ack(m) /\ UNCHANGED dlq
    <3>1. m \in Settled
      BY <2>2, CopiedFirst DEF ExpireFails, Settled
    <3> QED
      BY <1>1, <2>2, <3>1 DEF ExpireFails, Effect, Acknowledgement
  <2>3. CASE UNCHANGED <<dlq, group>>
    BY <2>3 DEF ExpireFails, Effect
  <2> QED
    BY <2>1, <2>2, <2>3 DEF ExpireFails
<1> DEFINE rest == {n \in batch[w] : n < m}
<1>3. Remembers(w, "read", claimed[w], {}, rest)
  BY Knows DEF ExpireFails, Remembers
<1>4. lastDelivered' = lastDelivered
  BY DEF ExpireFails, group, Ack
<1>5. rest \in SUBSET (1..lastDelivered') /\ {} \in SUBSET (1..lastDelivered)
  BY <1>4, Knows
<1>6. "read" \in Phases
  BY DEF Phases
<1> HIDE DEF rest
<1> QED
  BY <1>2, <1>3, <1>5, <1>6, Knows, Remembering

LEMMA ReadInv ==
  ASSUME IInv, NEW w \in Workers, Read(w)
  PROVE  IInv'
<1>1. NewDelivery
  BY DEF Read, NewDelivery
<1>2. New(w) \subseteq 1..lastDelivered' /\ lastDelivered' \in lastDelivered..Len(stream)
  BY DeliverNewFacts DEF Read, IInv, SharedInv
<1>3. Remembers(w, "work", claimed[w], expired[w], batch[w] \cup New(w))
  BY Knows DEF Read, Remembers
<1>4. batch[w] \cup New(w) \in SUBSET (1..lastDelivered')
  BY <1>2, Knows DEF IInv, SharedInv, SharedTypes
<1>5. "work" \in Phases
  BY DEF Phases
<1> QED
  BY <1>1, <1>3, <1>4, <1>5, Knows, Remembering DEF Effect

\* A worker that gives its batch up knows nothing, whatever its last command did.
LEMMA EndBatchInv ==
  ASSUME IInv, Effect, NEW w \in Workers, EndBatch(w)
  PROVE  IInv'
<1>1. Remembers(w, "claim", {}, {}, {})
  BY DEF EndBatch, Remembers
<1>2. "claim" \in Phases /\ {} \in SUBSET (1..lastDelivered) /\ {} \in SUBSET (1..lastDelivered')
  BY DEF Phases
<1> QED
  BY <1>1, <1>2, Remembering

LEMMA EndingsInv ==
  ASSUME IInv, NEW w \in Workers, ReadFails(w) \/ FinishBatch(w) \/ Crash(w)
  PROVE  IInv'
<1>1. Effect
  BY DEF ReadFails, FinishBatch, Crash, Effect, NewDelivery
<1> QED
  BY <1>1, EndBatchInv DEF ReadFails, FinishBatch, Crash

LEMMA MalformedInv ==
  ASSUME IInv, NEW w \in Workers, NEW m \in Msgs, AckMalformed(w, m) \/ AckMalformedFails(w, m)
  PROVE  IInv'
<1>1. m \in batch[w] /\ m \in Settled /\ m \in 1..lastDelivered
  BY Knows DEF AckMalformed, AckMalformedFails, IsLeast, Settled
<1>2. CASE AckMalformed(w, m)
  <2>1. Acknowledgement
    BY <1>1, <1>2 DEF AckMalformed, Acknowledgement
  <2>2. Remembers(w, "work", claimed[w], expired[w], batch[w] \ {m})
    BY <1>2, Knows DEF AckMalformed, Remembers
  <2>3. batch[w] \ {m} \in SUBSET (1..lastDelivered')
    BY <1>2, Knows DEF AckMalformed, Ack
  <2>4. "work" \in Phases
    BY DEF Phases
  <2> QED
    BY <2>1, <2>2, <2>3, <2>4, Knows, Remembering DEF Effect
<1>3. CASE AckMalformedFails(w, m)
  <2>1. Effect
    BY <1>1, <1>3 DEF AckMalformedFails, Acknowledgement, Effect
  <2> QED
    BY <1>3, <2>1, EndBatchInv DEF AckMalformedFails
<1> QED
  BY <1>2, <1>3

LEMMA ProcessInv ==
  ASSUME IInv, NEW w \in Workers, NEW m \in Msgs, Process(w, m)
  PROVE  IInv'
<1>1. IsLeast(m, batch[w]) /\ m \in Entries
  BY Knows DEF Process, Ready, IsLeast
<1>2. Durable
  BY <1>1 DEF Process, Durable
<1>3. Remembers(w, "ack", claimed[w], expired[w], batch[w])
  BY Knows DEF Process, Remembers
<1>4. batch[w] \in SUBSET (1..lastDelivered') /\ m \in persisted' /\ "ack" \in Phases
  BY Knows DEF Process, group, Phases
<1> QED
  BY <1>1, <1>2, <1>3, <1>4, Knows, Remembering DEF Effect

LEMMA ProcessFailsInv ==
  ASSUME IInv, NEW w \in Workers, NEW m \in Msgs, ProcessFails(w, m)
  PROVE  IInv'
<1>1. m \in Entries
  BY Knows DEF ProcessFails, Ready, IsLeast
<1>2. Effect
  BY <1>1 DEF ProcessFails, Effect, Durable
<1>3. Remembers(w, "work", claimed[w], expired[w], batch[w] \ {m})
  BY Knows DEF ProcessFails, Ready, Remembers
<1>4. batch[w] \ {m} \in SUBSET (1..lastDelivered') /\ "work" \in Phases
  BY Knows DEF ProcessFails, group, Phases
<1> QED
  BY <1>2, <1>3, <1>4, Knows, Remembering

LEMMA AckProcessedInv ==
  ASSUME IInv, NEW w \in Workers, NEW m \in Msgs, AckProcessed(w, m)
  PROVE  IInv'
<1>1. m \in Settled /\ m \in 1..lastDelivered
  BY Knows, DurableFirst DEF AckProcessed, IsLeast, Settled
<1>2. Effect
  BY <1>1 DEF AckProcessed, Effect, Acknowledgement
<1>3. Remembers(w, "work", claimed[w], expired[w], batch[w] \ {m})
  BY Knows DEF AckProcessed, Remembers
<1>4. lastDelivered' = lastDelivered
  BY DEF AckProcessed, Ack, group
<1>5. batch[w] \ {m} \in SUBSET (1..lastDelivered') /\ "work" \in Phases
  BY <1>4, Knows DEF Phases
<1> QED
  BY <1>2, <1>3, <1>5, Knows, Remembering

\* The steps about one entry: what is acknowledged is settled.
LEMMA EntryEffect ==
  ASSUME IInv, NEW w \in Workers, NEW m \in Msgs,
         \/ Expire(w, m) \/ AckExpired(w, m) \/ ExpireFails(w, m) \/ AckMalformed(w, m)
         \/ AckMalformedFails(w, m) \/ Process(w, m) \/ ProcessFails(w, m) \/ AckProcessed(w, m)
  PROVE  Effect
<1>1. /\ \/ m \in expired[w] /\ deliveries[m] > MaxDeliveryAttempts
         \/ m \in batch[w]
      /\ m \in 1..lastDelivered /\ m \in Entries
  BY Knows DEF Expire, AckExpired, ExpireFails, AckMalformed, AckMalformedFails, Process,
               ProcessFails, AckProcessed, Ready, IsLeast
<1>2. CASE AckExpired(w, m)
  BY <1>1, <1>2, CopiedFirst DEF AckExpired, Settled, Acknowledgement, Effect
<1>3. CASE AckProcessed(w, m)
  BY <1>1, <1>3, DurableFirst DEF AckProcessed, Settled, Acknowledgement, Effect
<1>4. CASE AckMalformed(w, m) \/ AckMalformedFails(w, m)
  <2>1. m \in Settled
    BY <1>4 DEF AckMalformed, AckMalformedFails, IsLeast, Settled
  <2> QED
    BY <1>1, <1>4, <2>1 DEF AckMalformed, AckMalformedFails, Acknowledgement, Effect
<1>5. CASE Process(w, m) \/ ProcessFails(w, m)
  BY <1>1, <1>5 DEF Process, ProcessFails, Durable, Effect
<1>6. CASE Expire(w, m) \/ ExpireFails(w, m)
  <2>1. m \in expired[w] /\ deliveries[m] > MaxDeliveryAttempts
    BY <1>6, Knows DEF Expire, ExpireFails, IsLeast
  <2>2. CASE pc[w] = "expire" /\ dlq' = dlq \cup {m} /\ UNCHANGED group
    BY <1>1, <1>6, <2>1, <2>2 DEF Expire, ExpireFails, DeadLetter, Effect
  <2>3. CASE pc[w] = "ackexpired" /\ Ack(m) /\ UNCHANGED dlq
    <3>1. m \in Settled
      BY <1>6, <2>3, CopiedFirst DEF Expire, ExpireFails, Settled
    <3> QED
      BY <1>1, <1>6, <2>3, <3>1 DEF Expire, ExpireFails, Acknowledgement, Effect
  <2>4. CASE UNCHANGED <<dlq, group>>
    BY <1>6, <2>4 DEF Expire, ExpireFails, Effect
  <2> QED
    BY <1>6, <2>2, <2>3, <2>4 DEF Expire, ExpireFails
<1> QED
  BY <1>2, <1>3, <1>4, <1>5, <1>6

LEMMA NextInv == IInv /\ [Next]_vars => IInv'
<1> SUFFICES ASSUME IInv, [Next]_vars
             PROVE  IInv'
  OBVIOUS
<1>1. CASE Arrive
  BY <1>1, NobodyRemembers DEF Arrive, Effect, Arrival, worker
<1>2. ASSUME NEW m \in Msgs, BecomeIdle(m)
      PROVE  IInv'
  <2>1. Reassignment
    BY <1>2 DEF BecomeIdle, Reassignment, IInv, SharedInv, SharedTypes
  <2> QED
    BY <1>2, <2>1, NobodyRemembers DEF BecomeIdle, Effect, worker
<1>3. ASSUME NEW w \in Workers, Recover(w)
      PROVE  IInv'
  BY <1>3, ClaimInv, InspectInv, ReadInv, ExpireInv, AckExpiredInv DEF Recover
<1>4. ASSUME NEW w \in Workers, Handle(w)
      PROVE  IInv'
  BY <1>4, EndingsInv, MalformedInv, ProcessInv, AckProcessedInv, ProcessFailsInv DEF Handle
<1>5. ASSUME NEW w \in Workers, Fail(w)
      PROVE  IInv'
  BY <1>5, ClaimInv, InspectInv, EndingsInv, MalformedInv, ExpireFailsInv DEF Fail
<1>6. CASE UNCHANGED vars
  BY <1>6, NobodyRemembers DEF vars, worker, Effect
<1> QED
  BY <1>1, <1>2, <1>3, <1>4, <1>5, <1>6 DEF Next

LEMMA InitInv == Init => IInv
<1> SUFFICES ASSUME Init
             PROVE  IInv
  OBVIOUS
<1>1. SharedTypes
  BY NumMsgsAssumption DEF Init, SharedTypes, Entries
<1>2. NothingLost /\ DeadLetterExhausted
  BY DEF Init, NothingLost, DeadLetterExhausted
<1>3. WorkerTypes /\ \A w \in Workers : WorkerInv(w)
  BY DEF Init, WorkerTypes, WorkerInv
<1> QED
  BY <1>1, <1>2, <1>3 DEF IInv, SharedInv

LEMMA SpecInv == Spec => []IInv
  BY InitInv, NextInv, PTL DEF Spec

\* No entry the group has handed out is lost, for any number of workers and faults.
THEOREM NoEntryLost == Spec => []NothingLost
<1>1. IInv => NothingLost
  BY DEF IInv, SharedInv
<1> QED
  BY <1>1, SpecInv, PTL

\* Only entries that were delivered more often than the limit are dead-lettered.
THEOREM OnlyExhaustedBuried == Spec => []DeadLetterExhausted
<1>1. IInv => DeadLetterExhausted
  BY DEF IInv, SharedInv
<1> QED
  BY <1>1, SpecInv, PTL

-----------------------------------------------------------------------------
LEMMA CountersInv ==
  ASSUME IInv, Counters, [Next]_vars
  PROVE  Counters'
<1>1. starts' \in [Msgs -> Nat]
  <2>1. starts' = starts \/ \E m \in Msgs : starts' = [starts EXCEPT ![m] = @ + 1]
    <3>1. ASSUME NEW w \in Workers, Recover(w)
          PROVE  starts' = starts
      BY <3>1 DEF Recover, Claim, Inspect, Read, Expire, AckExpired
    <3>2. ASSUME NEW w \in Workers, Handle(w)
          PROVE  starts' = starts \/ \E m \in Msgs : starts' = [starts EXCEPT ![m] = @ + 1]
      BY <3>2 DEF Handle, FinishBatch, AckMalformed, Process, AckProcessed, ProcessFails
    <3>3. ASSUME NEW w \in Workers, Fail(w)
          PROVE  starts' = starts
      BY <3>3 DEF Fail, ClaimFails, InspectFails, ReadFails, Crash, AckMalformedFails, ExpireFails
    <3> QED
      BY <3>1, <3>2, <3>3 DEF Next, Arrive, BecomeIdle, vars
  <2> QED
    BY <2>1 DEF Counters
<1>2. faults' \in 0..MaxFaults
  <2>1. faults' = faults \/ Fault
    <3>1. ASSUME NEW w \in Workers, Recover(w)
          PROVE  faults' = faults
      BY <3>1 DEF Recover, Claim, Inspect, Read, Expire, AckExpired
    <3>2. ASSUME NEW w \in Workers, Handle(w)
          PROVE  faults' = faults \/ Fault
      BY <3>2 DEF Handle, FinishBatch, AckMalformed, Process, AckProcessed, ProcessFails
    <3>3. ASSUME NEW w \in Workers, Fail(w)
          PROVE  Fault
      BY <3>3 DEF Fail, ClaimFails, InspectFails, ReadFails, Crash, AckMalformedFails, ExpireFails
    <3> QED
      BY <3>1, <3>2, <3>3 DEF Next, Arrive, BecomeIdle, vars
  <2> QED
    BY <2>1, LimitsAssumption DEF Fault, Counters
<1>3. broken' \in [Workers -> BOOLEAN]
  <2>1. \/ broken' = broken
        \/ \E w \in Workers, b \in BOOLEAN : broken' = [broken EXCEPT ![w] = b]
    <3>1. ASSUME NEW w \in Workers, Recover(w)
          PROVE  broken' = broken
      BY <3>1 DEF Recover, Claim, Inspect, Read, Expire, AckExpired
    <3>2. ASSUME NEW w \in Workers, EndBatch(w)
          PROVE  broken' = [broken EXCEPT ![w] = FALSE]
      BY <3>2 DEF EndBatch
    <3>3. ASSUME NEW w \in Workers, NEW m \in Msgs, ProcessFails(w, m)
          PROVE  \E b \in BOOLEAN : broken' = [broken EXCEPT ![w] = b]
      BY <3>3 DEF ProcessFails
    <3>4. ASSUME NEW w \in Workers, Handle(w)
          PROVE  \/ broken' = broken
                 \/ \E b \in BOOLEAN : broken' = [broken EXCEPT ![w] = b]
      BY <3>2, <3>3, <3>4 DEF Handle, FinishBatch, AckMalformed, Process, AckProcessed
    <3>5. ASSUME NEW w \in Workers, Fail(w)
          PROVE  \/ broken' = broken
                 \/ broken' = [broken EXCEPT ![w] = FALSE]
      BY <3>2, <3>5 DEF Fail, ClaimFails, InspectFails, ReadFails, Crash, AckMalformedFails, ExpireFails
    <3>6. CASE Arrive \/ (\E m \in Msgs : BecomeIdle(m)) \/ UNCHANGED vars
      BY <3>6 DEF Arrive, BecomeIdle, vars, worker
    <3>7. CASE \E w \in Workers : Recover(w) \/ Handle(w) \/ Fail(w)
      BY <3>1, <3>4, <3>5, <3>7
    <3> QED
      BY <3>6, <3>7 DEF Next
  <2> QED
    BY <2>1 DEF Counters
<1> QED
  BY <1>1, <1>2, <1>3 DEF Counters

\* Every variable has its type; workers hold only what was delivered to someone.
THEOREM TypeCorrect == Spec => []TypeOK
<1>1. Init => Counters
  BY LimitsAssumption DEF Init, Counters
<1>2. IInv /\ Counters /\ [Next]_vars => Counters'
  BY CountersInv
<1>3. IInv /\ Counters => TypeOK
  <2> SUFFICES ASSUME IInv, Counters
               PROVE  TypeOK
    OBVIOUS
  <2>1. \A w \in Workers : claimed[w] \cup expired[w] \cup batch[w] \subseteq 1..lastDelivered
    BY Knows
  <2>2. {claimed, expired, batch} \subseteq [Workers -> SUBSET Msgs]
    BY DEF IInv, WorkerTypes
  <2> QED
    BY <2>1, <2>2 DEF IInv, SharedInv, SharedTypes, WorkerTypes, Counters, TypeOK
<1> QED
  BY <1>1, <1>2, <1>3, SpecInv, PTL DEF Spec

-----------------------------------------------------------------------------
\* The consumer group keeps the promise of one hop: every command, commit or
\* fault is an acceptance, a delivery, a settlement or nothing.
THEOREM ImplementsAtLeastOnce == Spec => DeliverySpec
<1> DEFINE outstanding == {m \in Entries : m > lastDelivered \/ m \in pending}
           dropped     == {m \in Malformed : m <= lastDelivered /\ m \notin pending}
           abandoned   == dlq \cup dropped
<1>1. Init => Delivery!Init
  BY DEF Init, Delivery!Init, Entries, Malformed, OfKind
<1>2. ASSUME IInv, [Next]_vars
      PROVE  Effect
  <2>1. CASE Arrive
    BY <2>1 DEF Arrive, Arrival, Effect
  <2>2. ASSUME NEW m \in Msgs, BecomeIdle(m)
        PROVE  Effect
    BY <1>2, <2>2 DEF BecomeIdle, Reassignment, Effect, IInv, SharedInv, SharedTypes
  <2>3. ASSUME NEW w \in Workers, Claim(w) \/ ClaimFails(w)
        PROVE  Effect
    BY <1>2, <2>3, ClaimEffect
  <2>4. ASSUME NEW w \in Workers, \/ Inspect(w) \/ InspectFails(w) \/ Read(w) \/ ReadFails(w)
                                  \/ FinishBatch(w) \/ Crash(w)
        PROVE  Effect
    BY <2>4 DEF Inspect, InspectFails, Read, ReadFails, FinishBatch, Crash, NewDelivery, Effect
  <2>5. ASSUME NEW w \in Workers, NEW m \in Msgs,
               \/ Expire(w, m) \/ AckExpired(w, m) \/ ExpireFails(w, m) \/ AckMalformed(w, m)
               \/ AckMalformedFails(w, m) \/ Process(w, m) \/ ProcessFails(w, m)
               \/ AckProcessed(w, m)
        PROVE  Effect
    BY <1>2, <2>5, EntryEffect
  <2>6. CASE UNCHANGED vars
    BY <2>6 DEF vars, Effect
  <2> QED
    BY <1>2, <2>1, <2>2, <2>3, <2>4, <2>5, <2>6 DEF Next, Recover, Handle, Fail
<1>3. ASSUME SharedInv, WorkerTypes, Arrival
      PROVE  Delivery!Next
  <2>1. PICK kind \in Kinds : stream' = Append(stream, kind)
    BY <1>3 DEF Arrival
  <2>2. PICK e \in Msgs : e = Len(stream) + 1
    BY <1>3, NumMsgsAssumption DEF Arrival, Msgs, SharedInv, SharedTypes
  <2>3. /\ Len(stream') = e /\ Len(stream) \in Nat
        /\ \A m \in 1..Len(stream) : stream'[m] = stream[m]
    BY <1>3, <2>1, <2>2 DEF SharedInv, SharedTypes
  <2>4. /\ UNCHANGED <<lastDelivered, pending, dlq, persisted>>
        /\ lastDelivered \in 0..Len(stream)
    BY <1>3 DEF Arrival, group, SharedInv, SharedTypes
  <2>5. Entries' = Entries \cup {e} /\ e \notin Entries
    BY <2>2, <2>3 DEF Entries
  <2>6. outstanding' = outstanding \cup {e}
    BY <2>2, <2>4, <2>5
  <2>7. dropped' = dropped
    BY <2>2, <2>3, <2>4, <2>5 DEF Malformed, OfKind, Entries
  <2> QED
    BY <2>4, <2>5, <2>6, <2>7 DEF Delivery!Next, Delivery!Accept
<1>4. ASSUME SharedInv, UNCHANGED <<stream, lastDelivered, pending, dlq, persisted>>
      PROVE  UNCHANGED Delivery!vars
  BY <1>4 DEF Delivery!vars, Entries, Malformed, OfKind
<1>5. ASSUME SharedInv, WorkerTypes, NewDelivery
      PROVE  UNCHANGED Delivery!vars
  <2>1. PICK w \in Workers : DeliverNew(w)
    BY <1>5 DEF NewDelivery
  <2>2. /\ lastDelivered' \in lastDelivered..Len(stream)
        /\ New(w) \subseteq 1..lastDelivered' /\ \A m \in New(w) : m > lastDelivered
        /\ \A m \in 1..lastDelivered' : m <= lastDelivered \/ m \in New(w)
        /\ pending' = pending \cup New(w)
    BY <1>5, <2>1, DeliverNewFacts DEF SharedInv
  <2>3. UNCHANGED <<stream, dlq, persisted, Entries, Malformed>>
    BY <1>5 DEF NewDelivery, Entries, Malformed, OfKind
  <2>4. lastDelivered \in Nat /\ Len(stream) \in Nat /\ Malformed \subseteq Entries
    BY <1>5 DEF SharedInv, SharedTypes, Malformed, OfKind
  <2>5. \A m \in Entries : m > lastDelivered' \/ m \in pending' <=> m > lastDelivered \/ m \in pending
    BY <2>2, <2>4 DEF Entries
  <2>6. outstanding' = outstanding
    BY <2>3, <2>5
  <2>7. \A m \in Entries : m <= lastDelivered' /\ m \notin pending' <=> m <= lastDelivered /\ m \notin pending
    BY <2>2, <2>4, <2>5 DEF Entries
  <2>8. dropped' = dropped
    BY <2>3, <2>4, <2>7
  <2> QED
    BY <2>3, <2>6, <2>8 DEF Delivery!vars
<1>6. ASSUME SharedInv, Acknowledgement
      PROVE  Delivery!Next
  <2>1. PICK m \in Settled : m \in 1..lastDelivered /\ Ack(m)
    BY <1>6 DEF Acknowledgement
  <2>2. /\ UNCHANGED <<stream, dlq, persisted, Entries, Malformed, lastDelivered>>
        /\ pending' = pending \ {m}
    BY <1>6, <2>1 DEF Acknowledgement, Ack, Entries, Malformed, OfKind
  <2>3. m \in Entries /\ m \in Msgs /\ m <= lastDelivered
    BY <1>6, <2>1, NumMsgsAssumption DEF SharedInv, SharedTypes, Entries, Msgs
  <2>4. outstanding' = outstanding \ {m}
    BY <1>6, <2>2, <2>3 DEF Entries, SharedInv, SharedTypes
  <2>5. abandoned' = abandoned \cup ({m} \cap Malformed)
    BY <2>2, <2>3
  <2>6. {m} \subseteq persisted \cup abandoned'
    BY <2>1, <2>2, <2>3, <2>5 DEF Settled
  <2>7. {m} \in SUBSET Msgs /\ {m} \cap Malformed \in SUBSET Msgs
        /\ {m} \cap Malformed \subseteq Entries
    BY <2>3
  <2>8. Delivery!Settle({m} \cap Malformed, {m})
    BY <2>2, <2>4, <2>5, <2>6, <2>7 DEF Delivery!Settle
  <2> QED
    BY <2>7, <2>8 DEF Delivery!Next
<1>7. ASSUME SharedInv, DeadLetter
      PROVE  Delivery!Next
  <2>1. PICK m \in Entries : dlq' = dlq \cup {m}
    BY <1>7 DEF DeadLetter
  <2>2. UNCHANGED <<Entries, outstanding, persisted, dropped>>
    BY <1>7 DEF DeadLetter, group, Entries, Malformed, OfKind
  <2>3. {m} \in SUBSET Msgs /\ {} \in SUBSET Msgs
    BY <1>7, <2>1, NumMsgsAssumption DEF SharedInv, SharedTypes, Entries, Msgs
  <2>4. Delivery!Settle({m}, {})
    BY <2>1, <2>2 DEF Delivery!Settle
  <2> QED
    BY <2>3, <2>4 DEF Delivery!Next
<1>8. ASSUME SharedInv, Durable
      PROVE  Delivery!Next
  <2>1. PICK m \in Entries : persisted' = persisted \cup {m}
    BY <1>8 DEF Durable
  <2>2. UNCHANGED <<Entries, outstanding, dlq, dropped>>
    BY <1>8 DEF Durable, group, Entries, Malformed, OfKind
  <2>3. m \in Msgs
    BY <1>8, <2>1, NumMsgsAssumption DEF SharedInv, SharedTypes, Entries, Msgs
  <2> QED
    BY <2>1, <2>2, <2>3 DEF Delivery!Next, Delivery!Deliver
<1>9. IInv /\ [Next]_vars => [Delivery!Next]_Delivery!vars
  BY <1>2, <1>3, <1>4, <1>5, <1>6, <1>7, <1>8 DEF Effect, Reassignment, group, IInv
<1> QED
  BY <1>1, <1>9, SpecInv, PTL DEF Spec, DeliverySpec, Delivery!Spec
=============================================================================
