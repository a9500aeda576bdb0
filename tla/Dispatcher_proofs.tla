--------------------------- MODULE Dispatcher_proofs ---------------------------
(***************************************************************************)
(* Proofs about the dispatcher: an event is lost only in the window of its *)
(* own retry, the chain of its retries does not fork, and whatever is in   *)
(* the dead-letter stream has a reason to be there.                        *)
(*                                                                         *)
(* The dispatcher gives an entry up with an XACK, so the invariant says    *)
(* for each place one is sent from what has become of the event: Progress. *)
(* A chain forks only when an entry that has a successor is processed      *)
(* again, so entries with a successor are neither pending nor in memory:   *)
(* Chain.                                                                  *)
(***************************************************************************)
EXTENDS Dispatcher, FiniteSetTheorems, WellFoundedInduction, TLAPS

Record == [event : Events, kind : Kinds, attempt : 1..MaxAttempts]

\* What Redis and the database hold.
SharedTypes ==
  /\ stream \in Seq(Record)
  /\ last \in 0..Len(stream)
  /\ pending \subseteq 1..last
  /\ deliveries \in [1..Len(stream) -> Nat]
  /\ idle \subseteq pending
  /\ dead \subseteq Events /\ effected \subseteq Events /\ dropped \subseteq Events

\* What the process remembers of what is pending.
Held ==
  /\ pc \in {"recover", "expire", "ackexpired", "read", "work", "ack", "ackretry",
             "republish", "bury"}
  /\ expired \subseteq pending
  /\ batch \subseteq 1..last
  /\ \A m \in batch : m \in pending \/ (pc = "republish" /\ IsLeast(m, batch))
  /\ batch \cap expired = {}
  /\ pc \notin {"expire", "ackexpired"} => expired = {}
  /\ pc = "recover" => batch = {}

\* What is known of the entry it is at.
ProgressAt(m) ==
  /\ pc = "ack" => EventOf(m) \in effected \cup dead
  /\ pc \in {"ackretry", "republish"} => stream[m].attempt < MaxAttempts
  /\ pc = "republish" => m \notin pending
  /\ pc = "bury" => KindOf(m) = "invalid" \/ stream[m].attempt = MaxAttempts

Progress ==
  /\ \A m \in batch : IsLeast(m, batch) => ProgressAt(m)
  /\ \A m \in expired : deliveries[m] > MaxDeliveryAttempts
  /\ pc = "ackexpired" => \A m \in expired : IsLeast(m, expired) => EventOf(m) \in dead

\* The entry n is the retry of m.
Succeeds(n, m) == EventOf(n) = EventOf(m) /\ stream[n].attempt = stream[m].attempt + 1

Chain ==
  /\ \A m, n \in Entries :
       EventOf(m) = EventOf(n) /\ stream[m].attempt = stream[n].attempt => m = n
  /\ \A m, n \in Entries : Succeeds(n, m) => m <= last /\ m \notin pending /\ m \notin batch
  /\ \A n \in Entries : stream[n].attempt > 1 => \E m \in Entries : Succeeds(n, m)

IInv == SharedTypes /\ Held /\ Progress /\ Chain /\ DeadLetterJustified /\ OnlyRetryLoses

------------------------------------------------------------------------------
(* Conditions under which a step keeps the last three parts.               *)

\* What was in the stream stays there, and counters only grow.
Longer ==
  /\ Len(stream) <= Len(stream')
  /\ \A m \in 1..Len(stream) : stream'[m] = stream[m] /\ deliveries'[m] >= deliveries[m]

\* An event is dead-lettered for a reason.
Reason(e) ==
  \/ IsOfKind(e, "invalid")
  \/ \E m \in Entries : /\ EventOf(m) = e
                       /\ \/ stream[m].attempt = MaxAttempts
                          \/ deliveries[m] > MaxDeliveryAttempts

LEMMA JustifiedKept ==
  ASSUME SharedTypes, SharedTypes', DeadLetterJustified, Longer,
         \A e \in dead' \ dead : Reason(e)
  PROVE  DeadLetterJustified'
<1>1. \A e \in dead' : Reason(e)
  BY DEF DeadLetterJustified, Reason
<1>2. Entries \subseteq Entries' /\ Entries = 1..Len(stream)
  BY DEF Longer, SharedTypes, Entries
<1>3. ASSUME NEW e, IsOfKind(e, "invalid")
      PROVE  IsOfKind(e, "invalid")'
  BY <1>2, <1>3 DEF IsOfKind, EventOf, KindOf, Longer
<1>4. ASSUME NEW e, NEW m \in Entries, EventOf(m) = e,
             stream[m].attempt = MaxAttempts \/ deliveries[m] > MaxDeliveryAttempts
      PROVE  \E n \in Entries' : /\ EventOf(n)' = e
                                 /\ \/ stream'[n].attempt = MaxAttempts
                                    \/ deliveries'[n] > MaxDeliveryAttempts
  <2>1. m \in Entries' /\ stream'[m] = stream[m] /\ deliveries'[m] >= deliveries[m]
    BY <1>2 DEF Longer
  <2>2. deliveries[m] \in Nat /\ deliveries'[m] \in Nat /\ MaxDeliveryAttempts \in Nat
    BY <1>2, <2>1, LimitsAssumption DEF SharedTypes, Entries
  <2>3. EventOf(m)' = e
    BY <1>4, <2>1 DEF EventOf
  <2> QED
    BY <1>4, <2>1, <2>2, <2>3
<1> QED
  BY <1>1, <1>3, <1>4 DEF Reason, DeadLetterJustified

\* Entries that have a successor stay out of reach.
LEMMA ChainKept ==
  ASSUME SharedTypes, Chain, stream' = stream, last' \in Nat, last <= last',
         \A m \in pending' \cup batch' : m \in pending \/ m \in batch \/ m > last
  PROVE  Chain'
<1>1. last \in Nat /\ Entries \subseteq Nat
  BY DEF SharedTypes, Entries
<1>2. Entries' = Entries /\ \A m, n : Succeeds(n, m)' <=> Succeeds(n, m)
  BY DEF Entries, Succeeds, EventOf
<1>3. ASSUME NEW m \in Entries, m <= last, m \notin pending, m \notin batch
      PROVE  m <= last' /\ m \notin pending' /\ m \notin batch'
  BY <1>1, <1>3
<1> QED
  BY <1>2, <1>3 DEF Chain, EventOf

\* What is left of an event: an entry to read or acknowledge, or a fate.
Left(m) == last < m \/ m \in pending
Fate(e) == e \in effected \cup dead \cup dropped \/ IsOfKind(e, "malformed")

LEMMA EventsKept ==
  ASSUME SharedTypes, OnlyRetryLoses, Longer,
         \A m \in Entries' \ Entries : Left(m)',
         \A m \in Entries : Left(m) => Left(m)' \/ InMemory(EventOf(m))' \/ Fate(EventOf(m))',
         dead \subseteq dead' /\ effected \subseteq effected' /\ dropped \subseteq dropped',
         \A e : InMemory(e) => InMemory(e)' \/ e \in dropped'
                               \/ \E n \in Entries' : EventOf(n)' = e /\ Left(n)'
  PROVE  OnlyRetryLoses'
<1>1. Entries \subseteq Entries' /\ Entries = 1..Len(stream)
  BY DEF Longer, SharedTypes, Entries
<1>2. \A m \in Entries : EventOf(m)' = EventOf(m) /\ KindOf(m)' = KindOf(m)
  BY <1>1 DEF Longer, EventOf, KindOf
<1>3. ASSUME NEW e, Fate(e)
      PROVE  Fate(e)'
  <2>1. IsOfKind(e, "malformed") => IsOfKind(e, "malformed")'
    BY <1>1, <1>2 DEF IsOfKind
  <2> QED
    BY <1>3, <2>1 DEF Fate
<1>4. ASSUME NEW m \in Entries'
      PROVE  Accounted(EventOf(m))' \/ EventOf(m)' \in dropped'
  <2>1. CASE m \notin Entries
    <3>1. Left(m)'
      BY <2>1
    <3> QED
      BY <3>1 DEF Accounted, Left
  <2>2. CASE m \in Entries
    <3>0. PICK e : e = EventOf(m)
      OBVIOUS
    <3>1. EventOf(m)' = e
      BY <1>2, <2>2, <3>0
    <3>2. Accounted(e) \/ e \in dropped
      BY <2>2, <3>0 DEF OnlyRetryLoses
    <3>3. CASE Fate(e)
      <4>1. Fate(e)'
        BY <1>3, <3>3
      <4> QED
        BY <3>1, <4>1 DEF Fate, Accounted
    <3>4. CASE InMemory(e)
      <4>1. InMemory(e)' \/ e \in dropped' \/ \E n \in Entries' : EventOf(n)' = e /\ Left(n)'
        BY <3>4
      <4> QED
        BY <3>1, <4>1 DEF Accounted, Left, InMemory
    <3>5. CASE \E n \in Entries : EventOf(n) = e /\ Left(n)
      <4>1. PICK n \in Entries : EventOf(n) = e /\ Left(n)
        BY <3>5
      <4>2. n \in Entries' /\ EventOf(n)' = e
        BY <1>1, <1>2, <4>1
      <4>3. Left(n)' \/ InMemory(e)' \/ Fate(e)'
        BY <1>2, <4>1, <4>2
      <4> QED
        BY <3>1, <4>2, <4>3 DEF Accounted, Left, Fate
    <3> QED
      BY <3>2, <3>3, <3>4, <3>5 DEF Accounted, Left, Fate
  <2> QED
    BY <2>1, <2>2
<1> QED
  BY <1>4 DEF OnlyRetryLoses

\* Every step that appends nothing: what it owes is its own part of the state.
LEMMA StepKept ==
  ASSUME IInv, SharedTypes', Held', Progress',
         stream' = stream, last <= last',
         \A m \in 1..Len(stream) : deliveries'[m] >= deliveries[m],
         \A m \in pending' \cup batch' : m \in pending \/ m \in batch \/ m > last,
         \A e \in dead' \ dead : Reason(e),
         \A m \in Entries : Left(m) => Left(m)' \/ InMemory(EventOf(m))' \/ Fate(EventOf(m))',
         dead \subseteq dead' /\ effected \subseteq effected' /\ dropped \subseteq dropped',
         \A e : InMemory(e) => InMemory(e)' \/ e \in dropped'
  PROVE  IInv'
<1>1. Longer
  BY DEF Longer, IInv, SharedTypes
<1>2. DeadLetterJustified'
  BY <1>1, JustifiedKept DEF IInv
<1>3. Chain'
  BY ChainKept DEF IInv, SharedTypes
<1>4. Entries' = Entries
  BY DEF Entries
<1>5. OnlyRetryLoses'
  BY <1>1, <1>4, EventsKept DEF IInv
<1> QED
  BY <1>2, <1>3, <1>5 DEF IInv

\* And hands nothing out.
LEMMA QuietKept ==
  ASSUME IInv, Held', Progress', UNCHANGED <<stream, last, deliveries>>,
         pending' \subseteq pending, idle' \subseteq pending', batch' \subseteq batch,
         dead \subseteq dead' /\ dead' \subseteq Events,
         effected \subseteq effected' /\ effected' \subseteq Events,
         dropped \subseteq dropped' /\ dropped' \subseteq Events,
         \A e \in dead' \ dead : Reason(e),
         \A m \in pending \ pending' : InMemory(EventOf(m))' \/ Fate(EventOf(m))',
         \A e : InMemory(e) => InMemory(e)' \/ e \in dropped'
  PROVE  IInv'
<1>1. SharedTypes'
  BY DEF IInv, SharedTypes
<1>2. last <= last' /\ \A m \in 1..Len(stream) : deliveries'[m] >= deliveries[m]
  BY DEF IInv, SharedTypes
<1>3. \A m \in Entries : Left(m) => Left(m)' \/ InMemory(EventOf(m))' \/ Fate(EventOf(m))'
  BY DEF Left
<1> QED
  BY <1>1, <1>2, <1>3, StepKept

------------------------------------------------------------------------------
\* Sets of entries have one least element.
LEMMA LeastUnique ==
  ASSUME NEW S \in SUBSET Nat, NEW m, IsLeast(m, S), NEW n, IsLeast(n, S)
  PROVE  m = n
BY DEF IsLeast

\* An entry that is pending or held is in the stream, and so is its event.
LEMMA InStream ==
  ASSUME IInv
  PROVE  /\ last \in Nat /\ Entries = 1..Len(stream) /\ Entries \subseteq Nat
         /\ pending \subseteq Entries /\ batch \subseteq Entries /\ expired \subseteq Entries
         /\ \A m \in Entries : EventOf(m) \in Events /\ stream[m].attempt \in 1..MaxAttempts
         /\ \A m \in Entries : KindOf(m) \in Kinds
<1>1. Entries = 1..Len(stream) /\ Len(stream) \in Nat /\ 1..last \subseteq Entries
  BY DEF IInv, SharedTypes, Entries
<1>2. \A m \in Entries : stream[m] \in Record
  BY <1>1 DEF IInv, SharedTypes
<1> QED
  BY <1>1, <1>2 DEF IInv, SharedTypes, Held, Record, EventOf, KindOf

\* An aborted batch forgets what it held; a retry in memory is lost.
LEMMA AbandonKept ==
  ASSUME IInv, AbandonBatch, UNCHANGED <<stream, last, deliveries, effected>>,
         pending' \subseteq pending, idle' \subseteq pending',
         dead \subseteq dead' /\ dead' \subseteq Events,
         dropped \subseteq dropped' /\ dropped' \subseteq Events,
         \A e \in dead' \ dead : Reason(e),
         \A m \in pending \ pending' : Fate(EventOf(m))',
         \A e : InMemory(e) => e \in dropped'
  PROVE  IInv'
<1>1. Held' /\ Progress' /\ batch' \subseteq batch
  BY DEF AbandonBatch, Held, Progress
<1> QED
  BY <1>1, QuietKept DEF IInv, SharedTypes

LEMMA FinishBatchKept ==
  ASSUME IInv, FinishBatch
  PROVE  IInv'
<1>1. \A e : ~InMemory(e)
  BY DEF FinishBatch, InMemory
<1> QED
  BY <1>1, AbandonKept DEF FinishBatch, group, IInv, SharedTypes

LEMMA CrashKept ==
  ASSUME IInv, Crash
  PROVE  IInv'
<1>1. UNCHANGED <<stream, group, dead, effected>> /\ AbandonBatch
  BY DEF Crash
<1>2. \A e : InMemory(e) => e \in dropped'
  <2>1. ASSUME NEW e, InMemory(e)
        PROVE  e \in dropped'
    <3>1. PICK m \in batch : pc = "republish" /\ IsLeast(m, batch) /\ EventOf(m) = e
      BY <2>1 DEF InMemory
    <3>2. {n \in batch : n < m} = {}
      BY <3>1, InStream DEF IsLeast
    <3>3. Cardinality({n \in batch : n < m}) = 0
      BY <3>2, FS_EmptySet
    <3>4. m \in First(batch, 1)
      BY <3>3 DEF First
    <3> QED
      BY <3>1, <3>4 DEF Crash
  <2> QED
    BY <2>1
<1>3. dropped \subseteq dropped' /\ dropped' \subseteq Events
  <2>1. First(batch, 1) \subseteq Entries
    BY InStream DEF First
  <2> QED
    BY <2>1, InStream DEF Crash, IInv, SharedTypes
<1> QED
  BY <1>1, <1>2, <1>3, AbandonKept DEF group, IInv, SharedTypes

\* Between two commands, with the batch as it was.
LEMMA BatchKept ==
  ASSUME IInv, UNCHANGED <<stream, group, expired, batch, dropped>>, pc = "work",
         pc' \in {"ack", "ackretry", "bury"},
         effected \subseteq effected', effected' \subseteq Events, dead' = dead,
         \A m \in batch : IsLeast(m, batch) => ProgressAt(m)'
  PROVE  IInv'
<1>1. Held' /\ Progress'
  BY DEF IInv, Held, Progress, group
<1>2. \A e : ~InMemory(e)
  BY DEF InMemory
<1> QED
  BY <1>1, <1>2, QuietKept DEF group, IInv, SharedTypes

LEMMA CurrentAlone ==
  ASSUME IInv, NEW m, IsLeast(m, batch)
  PROVE  /\ m \in batch /\ m \in Entries /\ m \in 1..last
         /\ \A n \in batch : IsLeast(n, batch) => n = m
<1>1. batch \in SUBSET Nat
  BY InStream
<1> QED
  BY <1>1, LeastUnique, InStream DEF IsLeast, IInv, Held

LEMMA ProcessKept ==
  ASSUME IInv, NEW m \in Entries,
         Succeed(m) \/ FailsInSession(m) \/ FailsOnce(m) \/ FailsPermanently(m)
  PROVE  IInv'
<1>1. /\ pc = "work" /\ IsLeast(m, batch)
      /\ UNCHANGED <<stream, group, dead, dropped, expired, batch>>
  BY DEF Succeed, FailsInSession, FailsOnce, FailsPermanently, Current
<1>2. effected \subseteq effected' /\ effected' \subseteq Events
  BY InStream DEF Succeed, FailsInSession, FailsOnce, FailsPermanently, IInv, SharedTypes
<1>3. EventOf(m)' = EventOf(m) /\ KindOf(m)' = KindOf(m)
  BY <1>1 DEF EventOf, KindOf
<1>4. CASE Succeed(m)
  <2>1. pc' = "ack" /\ EventOf(m) \in effected'
    BY <1>4 DEF Succeed
  <2>2. ProgressAt(m)'
    BY <1>3, <2>1 DEF ProgressAt
  <2> QED
    BY <1>1, <1>2, <2>1, <2>2, CurrentAlone, BatchKept
<1>5. CASE FailsPermanently(m)
  <2>1. pc' = "bury" /\ KindOf(m) = "invalid"
    BY <1>5 DEF FailsPermanently
  <2>2. ProgressAt(m)'
    BY <1>3, <2>1 DEF ProgressAt
  <2> QED
    BY <1>1, <1>2, <2>1, <2>2, CurrentAlone, BatchKept
<1>6. CASE FailsInSession(m) \/ FailsOnce(m)
  <2>1. pc' = IF stream[m].attempt < MaxAttempts THEN "ackretry" ELSE "bury"
    BY <1>6 DEF FailsInSession, FailsOnce, AfterTransient
  <2>2. stream[m].attempt \in 1..MaxAttempts /\ MaxAttempts \in Nat
    BY InStream, LimitsAssumption
  <2>3. ProgressAt(m)'
    BY <1>1, <2>1, <2>2 DEF ProgressAt
  <2> QED
    BY <1>1, <1>2, <2>1, <2>3, CurrentAlone, BatchKept
<1> QED
  BY <1>4, <1>5, <1>6

\* A step that changes neither the stream nor what is handed out.
LEMMA BecomeIdleKept ==
  ASSUME IInv, NEW m \in Entries, BecomeIdle(m)
  PROVE  IInv'
<1>1. UNCHANGED <<stream, last, pending, deliveries, dead, effected, dropped, pc, expired, batch>>
      /\ idle' \subseteq pending
  BY DEF BecomeIdle, local, IInv, SharedTypes
<1>2. Held' /\ Progress'
  BY <1>1 DEF IInv, Held, Progress, ProgressAt, EventOf, KindOf, IsLeast
<1>3. \A e : InMemory(e) => InMemory(e)'
  BY <1>1 DEF InMemory, EventOf
<1> QED
  BY <1>1, <1>2, <1>3, QuietKept DEF IInv, SharedTypes

LEMMA ExpireKept ==
  ASSUME IInv, NEW m \in Entries, Expire(m)
  PROVE  IInv'
<1>1. /\ UNCHANGED <<stream, last, pending, deliveries, idle, effected, dropped, expired, batch>>
      /\ pc = "expire" /\ pc' = "ackexpired" /\ IsLeast(m, expired) /\ dead' = dead \cup {EventOf(m)}
  BY DEF Expire, group
<1>2. Held'
  BY <1>1 DEF IInv, Held
<1>3. Progress'
  <2>1. \A n \in expired : IsLeast(n, expired) => n = m
    BY <1>1, InStream, LeastUnique, expired \in SUBSET Nat
  <2> QED
    BY <1>1, <2>1 DEF IInv, Progress, ProgressAt, EventOf
<1>4. Reason(EventOf(m))
  BY <1>1 DEF Reason, IInv, Progress, IsLeast
<1>5. dead' \subseteq Events /\ \A e \in dead' \ dead : Reason(e)
  BY <1>1, <1>4, InStream DEF IInv, SharedTypes
<1>6. \A e : ~InMemory(e)
  BY <1>1 DEF InMemory
<1> QED
  BY <1>1, <1>2, <1>3, <1>5, <1>6, QuietKept DEF IInv, SharedTypes

\* An entry that is acknowledged leaves the group.
LEMMA AckFacts ==
  ASSUME IInv, NEW m, Ack(m)
  PROVE  /\ UNCHANGED <<last, deliveries>> /\ pending' = pending \ {m}
         /\ pending' \subseteq pending /\ idle' \subseteq pending'
         /\ pending \ pending' \subseteq {m}
BY DEF Ack, IInv, SharedTypes

LEMMA AckExpiredKept ==
  ASSUME IInv, NEW m \in Entries, AckExpired(m)
  PROVE  IInv'
<1>1. /\ UNCHANGED <<stream, dead, effected, dropped, batch>>
      /\ pc = "ackexpired" /\ pc' = (IF expired' = {} THEN "read" ELSE "expire")
      /\ IsLeast(m, expired) /\ Ack(m) /\ expired' = expired \ {m}
  BY DEF AckExpired
<1>2. Held'
  BY <1>1, AckFacts DEF IInv, Held, IsLeast
<1>3. Progress'
  BY <1>1, AckFacts DEF IInv, Progress, ProgressAt
<1>4. Fate(EventOf(m))'
  BY <1>1 DEF IInv, Progress, Fate, EventOf, IsLeast
<1>5. \A e : ~InMemory(e)
  BY <1>1 DEF InMemory
<1> QED
  BY <1>1, <1>2, <1>3, <1>4, <1>5, AckFacts, QuietKept DEF IInv, SharedTypes

LEMMA ExpireFailsKept ==
  ASSUME IInv, NEW m \in Entries, ExpireFails(m)
  PROVE  IInv'
<1>1. /\ UNCHANGED <<stream, effected, dropped>> /\ batch' \subseteq batch /\ expired' = {}
      /\ pc' = "read" /\ pc \in {"expire", "ackexpired"} /\ IsLeast(m, expired)
  BY DEF ExpireFails
<1>2. \A e : ~InMemory(e)
  BY <1>1 DEF InMemory
<1>3. /\ UNCHANGED <<last, deliveries>> /\ pending' \subseteq pending /\ idle' \subseteq pending'
      /\ pending \ pending' \subseteq {m}
  BY AckFacts DEF ExpireFails, group, IInv, SharedTypes
<1>4. Held'
  BY <1>1, <1>3 DEF IInv, Held, IsLeast
<1>5. Progress'
  BY <1>1 DEF Progress, ProgressAt
<1>6. Reason(EventOf(m))
  BY <1>1 DEF Reason, IInv, Progress, IsLeast
<1>7. dead \subseteq dead' /\ dead' \subseteq Events /\ \A e \in dead' \ dead : Reason(e)
  BY <1>6, InStream DEF ExpireFails, IInv, SharedTypes
<1>8. pending' # pending => Fate(EventOf(m))'
  <2>1. pending' # pending => pc = "ackexpired"
    BY DEF ExpireFails, group
  <2>2. pc = "ackexpired" => EventOf(m) \in dead
    BY <1>1 DEF IInv, Progress, IsLeast
  <2> QED
    BY <1>1, <1>7, <2>1, <2>2 DEF Fate, EventOf
<1> QED
  BY <1>1, <1>2, <1>3, <1>4, <1>5, <1>7, <1>8, QuietKept DEF IInv, SharedTypes

LEMMA AckMalformedKept ==
  ASSUME IInv, NEW m \in Entries, AckMalformed(m)
  PROVE  IInv'
<1>1. /\ UNCHANGED <<stream, dead, effected, dropped, pc, expired>>
      /\ pc = "work" /\ Ack(m) /\ batch' = batch \ {m} /\ KindOf(m) = "malformed"
  BY DEF AckMalformed, IsLeast
<1>2. Held'
  BY <1>1, AckFacts DEF IInv, Held
<1>3. Progress'
  BY <1>1, AckFacts DEF IInv, Held, Progress, ProgressAt
<1>4. Fate(EventOf(m))'
  BY <1>1 DEF Fate, IsOfKind, Entries, EventOf, KindOf
<1>5. \A e : ~InMemory(e)
  BY <1>1 DEF InMemory
<1> QED
  BY <1>1, <1>2, <1>3, <1>4, <1>5, AckFacts, QuietKept DEF IInv, SharedTypes

LEMMA AckDoneKept ==
  ASSUME IInv, NEW m \in Entries, AckDone(m)
  PROVE  IInv'
<1>1. /\ UNCHANGED <<stream, dead, effected, dropped, expired>>
      /\ pc = "ack" /\ pc' = "work" /\ Ack(m) /\ batch' = batch \ {m} /\ IsLeast(m, batch)
  BY DEF AckDone, Current
<1>2. Held'
  BY <1>1, AckFacts DEF IInv, Held
<1>3. Progress'
  BY <1>1, AckFacts DEF IInv, Held, Progress, ProgressAt
<1>4. Fate(EventOf(m))'
  BY <1>1 DEF Fate, EventOf, IInv, Progress, ProgressAt, IsLeast
<1>5. \A e : ~InMemory(e)
  BY <1>1 DEF InMemory
<1> QED
  BY <1>1, <1>2, <1>3, <1>4, <1>5, AckFacts, QuietKept DEF IInv, SharedTypes

\* The retry is in memory when its entry is acknowledged.
LEMMA AckRetryKept ==
  ASSUME IInv, NEW m \in Entries, AckRetry(m)
  PROVE  IInv'
<1>1. /\ UNCHANGED <<stream, dead, effected, dropped, expired, batch>>
      /\ pc = "ackretry" /\ pc' = "republish" /\ Ack(m) /\ IsLeast(m, batch)
  BY DEF AckRetry, Current
<1>2. Held'
  BY <1>1, AckFacts DEF IInv, Held
<1>3. ProgressAt(m)'
  BY <1>1, AckFacts DEF ProgressAt, IInv, Progress, IsLeast
<1>4. Progress'
  BY <1>1, <1>3, AckFacts, CurrentAlone DEF IInv, Held, Progress
<1>5. InMemory(EventOf(m))'
  BY <1>1 DEF InMemory, EventOf, IsLeast
<1>6. \A e : ~InMemory(e)
  BY <1>1 DEF InMemory
<1> QED
  BY <1>1, <1>2, <1>4, <1>5, <1>6, AckFacts, QuietKept DEF IInv, SharedTypes

LEMMA BuryKept ==
  ASSUME IInv, NEW m \in Entries, Bury(m)
  PROVE  IInv'
<1>1. /\ UNCHANGED <<stream, last, pending, deliveries, idle, effected, dropped, expired, batch>>
      /\ pc = "bury" /\ pc' = "ack" /\ IsLeast(m, batch) /\ dead' = dead \cup {EventOf(m)}
  BY DEF Bury, Current, group
<1>2. Held'
  BY <1>1 DEF IInv, Held
<1>3. ProgressAt(m)'
  BY <1>1 DEF ProgressAt, EventOf
<1>4. Progress'
  BY <1>1, <1>3, CurrentAlone DEF IInv, Held, Progress
<1>5. Reason(EventOf(m))
  <2>1. KindOf(m) = "invalid" \/ stream[m].attempt = MaxAttempts
    BY <1>1 DEF IInv, Progress, ProgressAt, IsLeast
  <2> QED
    BY <2>1 DEF Reason, IsOfKind
<1>6. dead' \subseteq Events /\ \A e \in dead' \ dead : Reason(e)
  BY <1>1, <1>5, InStream DEF IInv, SharedTypes
<1>7. \A e : ~InMemory(e)
  BY <1>1 DEF InMemory
<1> QED
  BY <1>1, <1>2, <1>4, <1>6, <1>7, QuietKept DEF IInv, SharedTypes

------------------------------------------------------------------------------
\* Appending keeps what was there and adds one entry at the end.
LEMMA XaddFacts ==
  ASSUME SharedTypes, NEW entry \in Record, Xadd(entry)
  PROVE  /\ stream' \in Seq(Record) /\ Len(stream') = Len(stream) + 1 /\ Len(stream) \in Nat
         /\ \A m \in 1..Len(stream) : stream'[m] = stream[m]
         /\ stream'[Len(stream) + 1] = entry
         /\ deliveries' \in [1..Len(stream') -> Nat]
         /\ \A m \in 1..Len(stream) : deliveries'[m] = deliveries[m]
<1>1. /\ stream \in Seq(Record) /\ stream' = Append(stream, entry)
      /\ deliveries \in Seq(Nat) /\ Len(deliveries) = Len(stream) /\ deliveries' = Append(deliveries, 0)
  BY DEF SharedTypes, Xadd
<1>2. /\ deliveries' \in Seq(Nat) /\ Len(deliveries') = Len(stream) + 1
      /\ \A m \in 1..Len(stream) : deliveries'[m] = deliveries[m]
  BY <1>1
<1>3. /\ stream' \in Seq(Record) /\ Len(stream') = Len(stream) + 1 /\ Len(stream) \in Nat
      /\ \A m \in 1..Len(stream) : stream'[m] = stream[m]
      /\ stream'[Len(stream) + 1] = entry
  BY <1>1
<1> QED
  BY <1>2, <1>3

\* An entry that is appended is nobody's second successor.
LEMMA XaddKept ==
  ASSUME IInv, NEW entry \in Record, Xadd(entry),
         UNCHANGED <<last, pending, idle, dead, effected, dropped>>, Held', Progress',
         batch' \subseteq batch,
         \A n \in Entries : EventOf(n) = entry.event =>
           /\ stream[n].attempt # entry.attempt /\ stream[n].attempt # entry.attempt + 1
           /\ entry.attempt = stream[n].attempt + 1 => n <= last /\ n \notin pending /\ n \notin batch',
         entry.attempt > 1 => \E n \in Entries : /\ EventOf(n) = entry.event
                                                 /\ entry.attempt = stream[n].attempt + 1,
         \A e : InMemory(e) => InMemory(e)' \/ e = entry.event
  PROVE  IInv'
<1>0. PICK new \in Nat : new = Len(stream) + 1
  BY DEF IInv, SharedTypes
<1>1. /\ stream' \in Seq(Record) /\ Len(stream') = new /\ Len(stream) \in Nat
      /\ \A m \in 1..Len(stream) : stream'[m] = stream[m]
      /\ stream'[new] = entry
      /\ deliveries' \in [1..Len(stream') -> Nat]
      /\ \A m \in 1..Len(stream) : deliveries'[m] = deliveries[m]
  BY <1>0, XaddFacts DEF IInv
<1>2. SharedTypes'
  <2>1. last \in 0..new /\ pending \subseteq 1..last
    BY <1>0 DEF IInv, SharedTypes
  <2> QED
    BY <1>1, <2>1 DEF IInv, SharedTypes
<1>3. Longer
  <2>1. Len(stream) <= Len(stream')
    BY <1>0, <1>1
  <2>2. \A m \in 1..Len(stream) : deliveries[m] \in Nat
    BY DEF IInv, SharedTypes
  <2>3. \A m \in 1..Len(stream) : deliveries'[m] >= deliveries[m]
    BY <1>1, <2>2
  <2> QED
    BY <1>1, <2>1, <2>3 DEF Longer
<1>4. DeadLetterJustified'
  BY <1>2, <1>3, JustifiedKept DEF IInv
<1>5. Entries = 1..Len(stream) /\ Entries' = Entries \cup {new} /\ new \notin Entries /\ last < new
  BY <1>0, <1>1 DEF Entries, IInv, SharedTypes
<1>6. \A m \in Entries : EventOf(m)' = EventOf(m) /\ stream'[m] = stream[m]
  BY <1>1, <1>5 DEF EventOf
<1>7. EventOf(new)' = entry.event /\ stream'[new] = entry /\ entry.attempt \in Nat
  <2>1. entry.attempt \in 1..MaxAttempts
    BY DEF Record
  <2> QED
    BY <1>1, <2>1 DEF EventOf
<1>8. Chain'
  <2>1. ASSUME NEW m \in Entries', NEW n \in Entries', EventOf(m)' = EventOf(n)',
               stream'[m].attempt = stream'[n].attempt
        PROVE  m = n
    BY <1>5, <1>6, <1>7, <2>1 DEF IInv, Chain
  <2>2. ASSUME NEW m \in Entries', NEW n \in Entries', EventOf(n)' = EventOf(m)',
               stream'[n].attempt = stream'[m].attempt + 1
        PROVE  m <= last /\ m \notin pending /\ m \notin batch'
    <3>1. CASE m \in Entries /\ n \in Entries
      BY <1>6, <2>2, <3>1 DEF IInv, Chain, Succeeds
    <3>2. CASE m \in Entries /\ n = new
      BY <1>6, <1>7, <2>2, <3>2
    <3>3. CASE m = new /\ n \in Entries
      BY <1>6, <1>7, <2>2, <3>3
    <3>4. CASE m = new /\ n = new
      BY <1>7, <2>2, <3>4
    <3> QED
      BY <1>5, <3>1, <3>2, <3>3, <3>4
  <2>3. ASSUME NEW n \in Entries', stream'[n].attempt > 1
        PROVE  \E m \in Entries' : Succeeds(n, m)'
    <3>1. CASE n \in Entries
      <4>1. PICK m \in Entries : Succeeds(n, m)
        BY <1>6, <2>3, <3>1 DEF IInv, Chain
      <4> QED
        BY <1>5, <1>6, <3>1, <4>1 DEF Succeeds
    <3>2. CASE n = new
      <4>1. PICK m \in Entries : EventOf(m) = entry.event /\ entry.attempt = stream[m].attempt + 1
        BY <1>7, <2>3, <3>2
      <4> QED
        BY <1>5, <1>6, <1>7, <3>2, <4>1 DEF Succeeds
    <3> QED
      BY <1>5, <3>1, <3>2
  <2> QED
    BY <2>1, <2>2, <2>3 DEF Chain, Succeeds
<1>9. OnlyRetryLoses'
  <2>1. Left(new)'
    BY <1>5 DEF Left
  <2>2. \A m \in Entries : Left(m) => Left(m)'
    BY DEF Left
  <2>3. \A e : InMemory(e) => InMemory(e)' \/ \E n \in Entries' : EventOf(n)' = e /\ Left(n)'
    BY <1>5, <1>7, <2>1
  <2> QED
    BY <1>3, <1>5, <2>1, <2>2, <2>3, EventsKept DEF IInv
<1> QED
  BY <1>2, <1>4, <1>8, <1>9 DEF IInv

LEMMA ProduceKept ==
  ASSUME IInv, NEW e \in Events, NEW kind \in Kinds, Produce(e, kind)
  PROVE  IInv'
<1> DEFINE entry == [event |-> e, kind |-> kind, attempt |-> 1]
<1>1. /\ UNCHANGED <<last, pending, idle, dead, effected, dropped, pc, expired, batch>>
      /\ Xadd(entry) /\ \A m \in Entries : EventOf(m) # e
  BY DEF Produce, local
<1>2. entry \in Record /\ entry.attempt = 1 /\ entry.event = e
  BY LimitsAssumption DEF Record
<1>3. /\ \A m \in Entries : stream'[m] = stream[m] /\ deliveries'[m] = deliveries[m]
      /\ batch \subseteq Entries /\ expired \subseteq Entries
  BY <1>1, <1>2, XaddFacts, InStream DEF IInv
<1>4. \A m \in Entries : EventOf(m)' = EventOf(m) /\ KindOf(m)' = KindOf(m)
  BY <1>3 DEF EventOf, KindOf
<1>5. Held'
  BY <1>1 DEF IInv, Held, IsLeast
<1>6. Progress'
  BY <1>1, <1>3, <1>4 DEF IInv, Progress, ProgressAt, IsLeast
<1>7. \A f : InMemory(f) => InMemory(f)'
  BY <1>1, <1>3, <1>4 DEF InMemory, IsLeast
<1> HIDE DEF entry
<1> QED
  BY <1>1, <1>2, <1>5, <1>6, <1>7, XaddKept

\* The retry of the entry at hand, whether or not its reply arrives.
LEMMA RetryKept ==
  ASSUME IInv, NEW m \in Entries, pc = "republish", IsLeast(m, batch),
         Xadd([stream[m] EXCEPT !.attempt = @ + 1]),
         UNCHANGED <<last, pending, idle, dead, effected, dropped>>,
         batch' \subseteq batch \ {m}, expired' = {}, pc' = "work" \/ (pc' = "recover" /\ batch' = {})
  PROVE  IInv'
<1> DEFINE entry == [stream[m] EXCEPT !.attempt = @ + 1]
<1>1. stream[m] \in Record /\ m \in 1..Len(stream)
  BY DEF IInv, SharedTypes, Entries
<1>2. /\ stream[m].attempt < MaxAttempts /\ m \notin pending /\ m \in batch
      /\ stream[m].attempt \in 1..MaxAttempts /\ MaxAttempts \in Nat /\ m \in 1..last
  BY <1>1, LimitsAssumption, CurrentAlone DEF IInv, Progress, ProgressAt, Record, IsLeast
<1>3. entry \in Record /\ entry.event = EventOf(m) /\ entry.attempt = stream[m].attempt + 1
  BY <1>1, <1>2 DEF Record, EventOf
<1>4. Held' /\ Progress'
  BY DEF IInv, Held, Progress, ProgressAt, IsLeast
<1>5. ASSUME NEW n \in Entries, EventOf(n) = entry.event
      PROVE  /\ stream[n].attempt # entry.attempt /\ stream[n].attempt # entry.attempt + 1
             /\ entry.attempt = stream[n].attempt + 1 => n <= last /\ n \notin pending /\ n \notin batch'
  <2>1. stream[n].attempt # entry.attempt
    BY <1>2, <1>3, <1>5 DEF IInv, Chain, Succeeds
  <2>2. stream[n].attempt # entry.attempt + 1
    <3>1. SUFFICES ASSUME stream[n].attempt = entry.attempt + 1
                   PROVE  FALSE
      OBVIOUS
    <3>2. PICK p \in Entries : Succeeds(n, p)
      BY <1>2, <1>3, <3>1 DEF IInv, Chain
    <3>3. stream[p].attempt \in Nat
      BY InStream, LimitsAssumption
    <3>4. Succeeds(p, m)
      BY <1>2, <1>3, <1>5, <3>1, <3>2, <3>3 DEF Succeeds
    <3> QED
      BY <1>2, <3>4 DEF IInv, Chain
  <2>3. ASSUME entry.attempt = stream[n].attempt + 1
        PROVE  n = m
    <3>1. stream[n].attempt \in Nat
      BY InStream, LimitsAssumption
    <3>2. stream[n].attempt = stream[m].attempt
      BY <1>2, <1>3, <2>3, <3>1
    <3> QED
      BY <1>3, <1>5, <3>2 DEF IInv, Chain
  <2> QED
    BY <1>2, <2>1, <2>2, <2>3
<1>6. \A e : InMemory(e) => e = entry.event
  BY <1>3, CurrentAlone DEF InMemory
<1>7. Xadd(entry)
  OBVIOUS
<1> HIDE DEF entry
<1> QED
  BY <1>3, <1>4, <1>5, <1>6, <1>7, XaddKept

LEMMA RepublishKept ==
  ASSUME IInv, NEW m \in Entries, Republish(m)
  PROVE  IInv'
<1>1. expired' = {} /\ UNCHANGED effected
  BY DEF Republish, IInv, Held
<1>2. /\ pc = "republish" /\ IsLeast(m, batch) /\ pc' = "work" /\ batch' \subseteq batch \ {m}
      /\ UNCHANGED <<last, pending, idle, dead, effected, dropped>>
  BY DEF Republish, Current
<1>3. Xadd([stream[m] EXCEPT !.attempt = @ + 1])
  BY DEF Republish
<1> QED
  BY <1>1, <1>2, <1>3, RetryKept

LEMMA CallFailsKept ==
  ASSUME IInv, NEW m \in Entries, CallFails(m)
  PROVE  IInv'
<1>1. AbandonBatch /\ UNCHANGED effected
  BY DEF CallFails
<1>2. IsLeast(m, IF pc = "work" THEN {n \in batch : KindOf(n) = "malformed"} ELSE batch)
  BY DEF CallFails
<1>3. pc # "work" => IsLeast(m, batch)
  BY <1>2
<1>5. \A e : InMemory(e) => pc = "republish" /\ e = EventOf(m)
  BY <1>3, CurrentAlone DEF InMemory
<1>6. CASE /\ pc = "republish" /\ Xadd([stream[m] EXCEPT !.attempt = @ + 1])
           /\ UNCHANGED <<last, pending, idle, dead, dropped>>
  BY <1>1, <1>3, <1>6, RetryKept DEF AbandonBatch
<1>7. CASE pc = "bury" /\ dead' = dead \cup {EventOf(m)} /\ UNCHANGED <<stream, group, dropped>>
  <2>1. KindOf(m) = "invalid" \/ stream[m].attempt = MaxAttempts
    BY <1>3, <1>7 DEF IInv, Progress, ProgressAt, IsLeast
  <2>2. Reason(EventOf(m))
    BY <2>1 DEF Reason, IsOfKind
  <2>3. dead' \subseteq Events /\ \A e \in dead' \ dead : Reason(e)
    BY <1>7, <2>2, InStream DEF IInv, SharedTypes
  <2> QED
    BY <1>1, <1>5, <1>7, <2>3, AbandonKept DEF group, IInv, SharedTypes
<1>8. CASE pc \in {"work", "ack"} /\ Ack(m) /\ UNCHANGED <<stream, dead, dropped>>
  <2>1. CASE pc = "work"
    <3>1. KindOf(m) = "malformed"
      BY <1>2, <2>1 DEF IsLeast
    <3>2. Fate(EventOf(m))'
      BY <1>8, <3>1 DEF Fate, IsOfKind, Entries, EventOf, KindOf
    <3> QED
      BY <1>1, <1>5, <1>8, <3>2, <2>1, AckFacts, AbandonKept DEF IInv, SharedTypes
  <2>2. CASE pc = "ack"
    <3>1. EventOf(m) \in effected \cup dead
      BY <1>3, <2>2 DEF IInv, Progress, ProgressAt, IsLeast
    <3>2. Fate(EventOf(m))'
      BY <1>1, <1>8, <3>1 DEF Fate, EventOf
    <3> QED
      BY <1>1, <1>5, <1>8, <3>2, <2>2, AckFacts, AbandonKept DEF IInv, SharedTypes
  <2> QED
    BY <1>8, <2>1, <2>2
<1>9. CASE pc = "ackretry" /\ Ack(m) /\ dropped' = dropped \cup {EventOf(m)} /\ UNCHANGED <<stream, dead>>
  <2>1. Fate(EventOf(m))'
    BY <1>9 DEF Fate, EventOf
  <2>2. dropped' \subseteq Events
    BY <1>9, InStream DEF IInv, SharedTypes
  <2> QED
    BY <1>1, <1>5, <1>9, <2>1, <2>2, AckFacts, AbandonKept DEF IInv, SharedTypes
<1>10. CASE /\ dropped' = IF pc = "republish" THEN dropped \cup {EventOf(m)} ELSE dropped
            /\ UNCHANGED <<stream, group, dead>>
  <2>1. dropped \subseteq dropped' /\ dropped' \subseteq Events
    BY <1>10, InStream DEF IInv, SharedTypes
  <2> QED
    BY <1>1, <1>5, <1>10, <2>1, AbandonKept DEF group, IInv, SharedTypes
<1> QED
  BY <1>6, <1>7, <1>8, <1>9, <1>10 DEF CallFails

------------------------------------------------------------------------------
\* XREADGROUP delivers the entries that follow, without a gap.
LEMMA NoGap ==
  ASSUME NEW L \in Nat, NEW low \in 0..L, NEW room \in Int,
         NEW N \in SUBSET (1..L),
         \A m \in 1..L : m \in N <=> low < m /\ m <= low + room
  PROVE  \E hi \in low..L :
           /\ hi = low + Cardinality(N)
           /\ \A m \in N : low < m /\ m <= hi
           /\ \A m \in 1..hi : m <= low \/ m \in N
<1>1. CASE room <= 0
  <2>1. N = {}
    BY <1>1
  <2>2. Cardinality(N) = 0
    BY <2>1, FS_EmptySet
  <2>3. low \in low..L /\ low = low + 0
    OBVIOUS
  <2> QED
    BY <2>1, <2>2, <2>3
<1>2. CASE room > 0
  <2>1. PICK hi \in Nat : hi = IF low + room <= L THEN low + room ELSE L
    BY <1>2
  <2>2. low <= hi /\ hi <= L
    BY <1>2, <2>1
  <2>3. N = (low + 1)..hi
    <3>1. ASSUME NEW m \in N PROVE m \in (low + 1)..hi
      BY <1>2, <2>1, <2>2
    <3>2. ASSUME NEW m \in (low + 1)..hi PROVE m \in N
      <4>1. m \in 1..L /\ low < m /\ m <= low + room
        BY <1>2, <2>1, <2>2
      <4> QED
        BY <4>1
    <3> QED
      BY <3>1, <3>2
  <2>4. Cardinality((low + 1)..hi) = IF low + 1 > hi THEN 0 ELSE hi - (low + 1) + 1
    <3>1. low + 1 \in Int /\ hi \in Int
      BY <2>1
    <3> QED
      BY <3>1, FS_Interval
  <2>5. Cardinality(N) = hi - low
    BY <2>2, <2>3, <2>4
  <2>6. hi = low + (hi - low) /\ hi \in low..L
    BY <2>2
  <2>7. /\ \A m \in N : low < m /\ m <= hi
        /\ \A m \in 1..hi : m <= low \/ m \in N
    BY <2>2, <2>3
  <2> QED
    BY <2>5, <2>6, <2>7
<1> QED
  BY <1>1, <1>2

\* What is handed out is counted, and the counters only grow.
LEMMA HandOutFacts ==
  ASSUME SharedTypes, NEW S, HandOut(S)
  PROVE  /\ pending' = pending \cup S /\ idle' = idle \ S
         /\ deliveries' \in [1..Len(stream) -> Nat]
         /\ \A m \in 1..Len(stream) : deliveries'[m] >= deliveries[m]
         /\ \A m \in 1..Len(stream) : m \in S => deliveries'[m] = deliveries[m] + 1
BY DEF HandOut, SharedTypes, Entries

\* Entries are handed out once more, or delivered in their order.
LEMMA HandedKept ==
  ASSUME IInv, Held', Progress', stream' = stream, last' \in last..Len(stream),
         pending \subseteq pending', pending' \subseteq 1..last', idle' \subseteq pending',
         deliveries' \in [1..Len(stream) -> Nat],
         \A m \in 1..Len(stream) : deliveries'[m] >= deliveries[m],
         \A m \in pending' \cup batch' : m \in pending \/ m \in batch \/ m > last,
         \A m \in 1..last' : m <= last \/ m \in pending',
         UNCHANGED <<dead, effected, dropped>>, pc # "republish"
  PROVE  IInv'
<1>1. SharedTypes' /\ last <= last'
  BY DEF IInv, SharedTypes
<1>2. \A m \in Entries : Left(m) => Left(m)'
  BY DEF Left, Entries, IInv, SharedTypes
<1>3. \A e : ~InMemory(e)
  BY DEF InMemory
<1> QED
  BY <1>1, <1>2, <1>3, StepKept

LEMMA ClaimFacts ==
  ASSUME IInv, HandOut(Claimable), UNCHANGED <<stream, last>>
  PROVE  /\ Claimable \subseteq pending /\ pending' = pending /\ idle' \subseteq pending'
         /\ deliveries' \in [1..Len(stream) -> Nat]
         /\ \A m \in 1..Len(stream) : deliveries'[m] >= deliveries[m]
         /\ \A m \in Claimable : deliveries'[m] = deliveries[m] + 1
<1>1. Claimable \subseteq idle
  BY DEF Claimable, First
<1>2. Claimable \subseteq pending /\ Claimable \subseteq 1..Len(stream)
  BY <1>1 DEF IInv, SharedTypes
<1>3. /\ pending' = pending \cup Claimable /\ idle' = idle \ Claimable
      /\ deliveries' \in [1..Len(stream) -> Nat]
      /\ \A m \in 1..Len(stream) : deliveries'[m] >= deliveries[m]
      /\ \A m \in 1..Len(stream) : m \in Claimable => deliveries'[m] = deliveries[m] + 1
  BY HandOutFacts DEF IInv
<1> QED
  BY <1>2, <1>3 DEF IInv, SharedTypes

LEMMA RecoverKept ==
  ASSUME IInv, Recover
  PROVE  IInv'
<1>1. /\ UNCHANGED <<stream, last, dead, effected, dropped>>
      /\ pc = "recover" /\ HandOut(Claimable)
      /\ expired' = {m \in Claimable \cap First(pending, Page) : deliveries[m] + 1 > MaxDeliveryAttempts}
      /\ batch' = Claimable \ expired'
      /\ pc' = IF expired' = {} THEN "read" ELSE "expire"
  BY DEF Recover
<1>2. /\ Claimable \subseteq pending /\ pending' = pending /\ idle' \subseteq pending'
      /\ deliveries' \in [1..Len(stream) -> Nat]
      /\ \A m \in 1..Len(stream) : deliveries'[m] >= deliveries[m]
      /\ \A m \in Claimable : deliveries'[m] = deliveries[m] + 1
  BY <1>1, ClaimFacts
<1>3. Held'
  BY <1>1, <1>2 DEF Held, IInv, SharedTypes
<1>4. Progress'
  BY <1>1, <1>2 DEF Progress, ProgressAt
<1>5. last' \in last..Len(stream) /\ \A m \in 1..last' : m <= last \/ m \in pending'
  BY <1>1 DEF IInv, SharedTypes
<1>6. pending' \subseteq 1..last' /\ batch' \subseteq pending
  BY <1>1, <1>2 DEF IInv, SharedTypes
<1> QED
  BY <1>1, <1>2, <1>3, <1>4, <1>5, <1>6, HandedKept

LEMMA RecoverFailsKept ==
  ASSUME IInv, RecoverFails
  PROVE  IInv'
<1>1. /\ UNCHANGED <<stream, last, dead, effected, dropped, expired, batch>>
      /\ pc = "recover" /\ pc' = "read"
  BY DEF RecoverFails
<1>2. /\ pending' = pending /\ idle' \subseteq pending'
      /\ deliveries' \in [1..Len(stream) -> Nat]
      /\ \A m \in 1..Len(stream) : deliveries'[m] >= deliveries[m]
  <2>1. CASE UNCHANGED <<pending, deliveries, idle, cursor>>
    BY <2>1 DEF IInv, SharedTypes
  <2>2. CASE HandOut(Claimable)
    BY <1>1, <2>2, ClaimFacts
  <2> QED
    BY <2>1, <2>2 DEF RecoverFails
<1>3. Held' /\ Progress'
  BY <1>1, <1>2 DEF IInv, Held, Progress, ProgressAt
<1>4. /\ last' \in last..Len(stream) /\ \A m \in 1..last' : m <= last \/ m \in pending'
      /\ pending' \subseteq 1..last' /\ batch' = {}
  BY <1>1, <1>2 DEF IInv, SharedTypes, Held
<1> QED
  BY <1>1, <1>2, <1>3, <1>4, HandedKept

LEMMA DeliverNewFacts ==
  ASSUME IInv, DeliverNew, UNCHANGED stream
  PROVE  /\ last' \in last..Len(stream) /\ pending' = pending \cup New /\ idle' \subseteq pending'
         /\ pending' \subseteq 1..last'
         /\ \A m \in New : m > last /\ m \in 1..last'
         /\ \A m \in 1..last' : m <= last \/ m \in New
         /\ deliveries' \in [1..Len(stream) -> Nat]
         /\ \A m \in 1..Len(stream) : deliveries'[m] >= deliveries[m]
<1>1. Count - Cardinality(batch) \in Int
  <2>1. IsFiniteSet(batch)
    <3>1. Len(stream) \in Nat /\ batch \subseteq 1..Len(stream)
      BY InStream DEF IInv, SharedTypes
    <3>2. IsFiniteSet(1..Len(stream))
      BY <3>1, FS_Interval
    <3> QED
      BY <3>1, <3>2, FS_Subset
  <2>2. Cardinality(batch) \in Nat
    BY <2>1, FS_CardinalityType
  <2> QED
    BY <2>2, LimitsAssumption
<1>2. PICK room \in Int : room = Count - Cardinality(batch)
  BY <1>1
<1>3. New = {m \in 1..Len(stream) : last < m /\ m <= last + room}
  <2>1. last \in Nat /\ Count \in Nat
    BY LimitsAssumption DEF IInv, SharedTypes
  <2>2. last + Count - Cardinality(batch) = last + room
    BY <1>1, <1>2, <2>1
  <2> QED
    BY <2>2, InStream DEF New
<1>4. Len(stream) \in Nat /\ last \in 0..Len(stream) /\ New \in SUBSET (1..Len(stream))
      /\ \A m \in 1..Len(stream) : m \in New <=> last < m /\ m <= last + room
  BY <1>3 DEF IInv, SharedTypes
<1>5. PICK hi \in last..Len(stream) :
        /\ hi = last + Cardinality(New)
        /\ \A m \in New : last < m /\ m <= hi
        /\ \A m \in 1..hi : m <= last \/ m \in New
  BY <1>4, NoGap
<1>6. last' = hi /\ HandOut(New)
  BY <1>5 DEF DeliverNew
<1>7. /\ pending' = pending \cup New /\ idle' = idle \ New
      /\ deliveries' \in [1..Len(stream) -> Nat]
      /\ \A m \in 1..Len(stream) : deliveries'[m] >= deliveries[m]
  BY <1>6, HandOutFacts DEF IInv
<1>8. 1..last \subseteq 1..last' /\ New \subseteq 1..last'
  BY <1>4, <1>5, <1>6
<1> QED
  BY <1>5, <1>6, <1>7, <1>8 DEF IInv, SharedTypes

LEMMA ReadKept ==
  ASSUME IInv, Read
  PROVE  IInv'
<1>1. /\ UNCHANGED <<stream, dead, effected, dropped, expired>> /\ DeliverNew
      /\ pc = "read" /\ pc' = "work" /\ batch' = batch \cup New
  BY DEF Read
<1>2. Held'
  <2>1. batch' \subseteq 1..last' /\ expired = {} /\ batch' \subseteq pending'
    BY <1>1, DeliverNewFacts DEF IInv, Held, SharedTypes
  <2> QED
    BY <1>1, <2>1 DEF Held
<1>3. Progress'
  BY <1>1 DEF IInv, Held, Progress, ProgressAt
<1> QED
  BY <1>1, <1>2, <1>3, DeliverNewFacts, HandedKept

LEMMA ReadFailsKept ==
  ASSUME IInv, ReadFails
  PROVE  IInv'
<1>1. UNCHANGED <<stream, dead, effected, dropped>> /\ AbandonBatch /\ pc = "read"
  BY DEF ReadFails
<1>2. CASE DeliverNew
  <2>1. Held' /\ Progress'
    BY <1>1 DEF AbandonBatch, Held, Progress
  <2> QED
    BY <1>1, <1>2, <2>1, DeliverNewFacts, HandedKept DEF AbandonBatch
<1>3. CASE UNCHANGED group
  <2>1. \A e : ~InMemory(e)
    BY <1>1 DEF InMemory
  <2> QED
    BY <1>1, <1>3, <2>1, AbandonKept DEF group, IInv, SharedTypes
<1> QED
  BY <1>2, <1>3 DEF ReadFails

------------------------------------------------------------------------------
LEMMA InitInv == Init => IInv
<1> SUFFICES ASSUME Init
             PROVE  IInv
  OBVIOUS
<1>1. stream = <<>> /\ Entries = {} /\ Len(stream) = 0 /\ deliveries = <<>>
  BY DEF Init, Entries
<1>2. SharedTypes
  BY <1>1 DEF Init, SharedTypes
<1>3. Held /\ Progress
  BY DEF Init, Held, Progress
<1>4. Chain /\ DeadLetterJustified /\ OnlyRetryLoses
  BY <1>1 DEF Init, Chain, DeadLetterJustified, OnlyRetryLoses
<1> QED
  BY <1>2, <1>3, <1>4 DEF IInv

LEMMA NextInv == IInv /\ [Next]_vars => IInv'
<1> SUFFICES ASSUME IInv, [Next]_vars
             PROVE  IInv'
  OBVIOUS
<1>1. CASE \E e \in Events, kind \in Kinds : Produce(e, kind)
  BY <1>1, ProduceKept
<1>2. CASE \E m \in Entries : BecomeIdle(m)
  BY <1>2, BecomeIdleKept
<1>3. CASE Step
  <2>1. CASE Recover \/ Read \/ FinishBatch
    BY <2>1, RecoverKept, ReadKept, FinishBatchKept
  <2>2. ASSUME NEW m \in Entries,
               Expire(m) \/ AckExpired(m) \/ AckMalformed(m) \/ AckDone(m) \/ AckRetry(m)
                 \/ Republish(m) \/ Bury(m)
        PROVE  IInv'
    BY <2>2, ExpireKept, AckExpiredKept, AckMalformedKept, AckDoneKept, AckRetryKept,
       RepublishKept, BuryKept
  <2>3. ASSUME NEW m \in Entries, Succeed(m) \/ FailsInSession(m) \/ FailsPermanently(m)
        PROVE  IInv'
    BY <2>3, ProcessKept
  <2> QED
    BY <1>3, <2>1, <2>2, <2>3 DEF Step
<1>4. CASE Fail
  <2>1. CASE RecoverFails \/ ReadFails \/ Crash
    BY <2>1, RecoverFailsKept, ReadFailsKept, CrashKept
  <2>2. ASSUME NEW m \in Entries, ExpireFails(m) \/ FailsOnce(m) \/ CallFails(m)
        PROVE  IInv'
    BY <2>2, ExpireFailsKept, ProcessKept, CallFailsKept
  <2> QED
    BY <1>4, <2>1, <2>2 DEF Fail
<1>5. CASE UNCHANGED vars
  <2>1. /\ UNCHANGED <<stream, last, pending, deliveries, idle, dead, effected, dropped,
                       pc, expired, batch>>
    BY <1>5 DEF vars, group, local
  <2>2. Held' /\ Progress'
    BY <2>1 DEF IInv, Held, Progress, ProgressAt, EventOf, KindOf, IsLeast
  <2>3. \A e : InMemory(e) => InMemory(e)'
    BY <2>1 DEF InMemory, EventOf
  <2> QED
    BY <2>1, <2>2, <2>3, QuietKept DEF IInv, SharedTypes
<1> QED
  BY <1>1, <1>2, <1>3, <1>4, <1>5 DEF Next

LEMMA SpecInv == Spec => []IInv
  BY InitInv, NextInv, PTL DEF Spec

\* The only place an event can be lost is between acknowledging an entry and
\* publishing its retry, for any number of events, faults and attempts.
THEOREM RetryAloneLoses == Spec => []OnlyRetryLoses
  BY SpecInv, PTL DEF IInv

\* Each attempt of an event is published at most once.
THEOREM RetriesNeverFork == Spec => []NoForkedRetry
<1>1. IInv => NoForkedRetry
  BY DEF IInv, Chain, NoForkedRetry, EventOf
<1> QED
  BY <1>1, SpecInv, PTL

\* Whatever is in the dead-letter stream is exhausted or can never succeed.
THEOREM BuriedForAReason == Spec => []DeadLetterJustified
  BY SpecInv, PTL DEF IInv

------------------------------------------------------------------------------
\* What IInv leaves out: the cursor, the session and the count of faults.
Rest == cursor \in 0..Len(stream) /\ broken \in BOOLEAN /\ faults \in 0..MaxFaults

LEMMA LeastExists ==
  ASSUME NEW S \in SUBSET Nat, S # {}
  PROVE  \E m \in S : IsLeast(m, S)
<1>1. PICK x \in S : \A y \in S : ~(<<y, x>> \in OpToRel(<, Nat))
  BY NatLessThanWellFounded, WFMin, Zenon
<1>2. \A y \in S : ~(y < x)
  BY <1>1, Zenon DEF OpToRel
<1> QED
  BY <1>2 DEF IsLeast

\* A scan resumes at an entry of the pending list, or at its start.
LEMMA CursorInRange ==
  ASSUME SharedTypes
  PROVE  NextCursor \in {0} \cup pending
<1> DEFINE beyond == {m \in pending : \A n \in Claimable : n < m}
<1>1. beyond \in SUBSET Nat
  <2>1. last \in 0..Len(stream) /\ Len(stream) \in Nat /\ pending \subseteq 1..last
    BY DEF SharedTypes
  <2>2. last \in Nat
    BY <2>1
  <2>3. pending \subseteq Nat
    BY <2>1, <2>2
  <2> QED
    BY <2>3
<1>2. beyond # {} => (CHOOSE m \in beyond : IsLeast(m, beyond)) \in beyond
  BY <1>1, LeastExists
<1>3. NextCursor = IF Cardinality(Claimable) < Count \/ beyond = {}
                   THEN 0 ELSE CHOOSE m \in beyond : IsLeast(m, beyond)
  BY DEF NextCursor
<1> QED
  BY <1>2, <1>3

LEMMA RestKept ==
  ASSUME LimitsAssumption, IInv, IInv', Rest, [Next]_vars
  PROVE  Rest'
<1> USE DEF Rest
<1>1. /\ Len(stream) \in Nat /\ MaxFaults \in Nat /\ Len(stream') \in Nat
      /\ stream \in Seq(Record) /\ pending \subseteq 1..Len(stream)
  BY DEF IInv, SharedTypes, LimitsAssumption
<1>2. NextCursor \in 0..Len(stream)
  <2>1. NextCursor \in {0} \cup pending
    BY CursorInRange DEF IInv
  <2> QED
    BY <1>1, <2>1
<1>3. Fault => faults' \in 0..MaxFaults
  BY <1>1 DEF Fault
<1>4. \A entry : Xadd(entry) => Len(stream) <= Len(stream')
  BY <1>1 DEF Xadd
<1>5. AbandonBatch => broken' \in BOOLEAN
  BY DEF AbandonBatch
<1>6. ASSUME NEW e \in Events, NEW kind \in Kinds, Produce(e, kind)
      PROVE  Rest'
  BY <1>1, <1>4, <1>6 DEF Produce, local
<1>7. ASSUME NEW m \in Entries, BecomeIdle(m)
      PROVE  Rest'
  BY <1>7 DEF BecomeIdle, local
<1>8. CASE Recover
  BY <1>2, <1>8 DEF Recover
<1>9. CASE RecoverFails
  <2>1. cursor' \in {cursor, NextCursor} /\ UNCHANGED <<stream, broken>> /\ Fault
    BY <1>9 DEF RecoverFails
  <2> QED
    BY <1>2, <1>3, <2>1
<1>10. CASE Read
  BY <1>10 DEF Read
<1>11. CASE ReadFails
  BY <1>3, <1>5, <1>11 DEF ReadFails
<1>12. CASE FinishBatch
  BY <1>5, <1>12 DEF FinishBatch
<1>13. CASE Crash
  BY <1>1, <1>3, <1>5, <1>13 DEF Crash
<1>14. ASSUME NEW m \in Entries, \/ Expire(m) \/ AckExpired(m) \/ AckMalformed(m)
                                 \/ Succeed(m) \/ FailsPermanently(m)
                                 \/ AckDone(m) \/ AckRetry(m) \/ Bury(m)
       PROVE  Rest'
  BY <1>14 DEF Expire, AckExpired, AckMalformed, Succeed, FailsPermanently, AckDone, AckRetry, Bury
<1>15. ASSUME NEW m \in Entries, Republish(m)
       PROVE  Rest'
  <2>1. UNCHANGED <<cursor, broken, faults>> /\ Len(stream) <= Len(stream')
    BY <1>4, <1>15 DEF Republish
  <2> QED
    BY <1>1, <2>1
<1>16. ASSUME NEW m \in Entries, FailsInSession(m)
       PROVE  Rest'
  BY <1>16 DEF FailsInSession
<1>17. ASSUME NEW m \in Entries, FailsOnce(m)
       PROVE  Rest'
  <2>1. UNCHANGED <<stream, cursor>> /\ broken' \in {broken, TRUE} /\ Fault
    BY <1>17 DEF FailsOnce
  <2> QED
    BY <1>3, <2>1
<1>18. ASSUME NEW m \in Entries, ExpireFails(m)
       PROVE  Rest'
  BY <1>3, <1>18 DEF ExpireFails
<1>19. ASSUME NEW m \in Entries, CallFails(m)
       PROVE  Rest'
  <2>1. UNCHANGED stream \/ Len(stream) <= Len(stream')
    BY <1>4, <1>19 DEF CallFails
  <2>2. AbandonBatch /\ Fault /\ UNCHANGED cursor
    BY <1>19 DEF CallFails
  <2> QED
    BY <1>1, <1>3, <1>5, <2>1, <2>2
<1>20. CASE UNCHANGED vars
  BY <1>20 DEF vars, local
<1>21. CASE Step
  BY <1>8, <1>10, <1>12, <1>14, <1>15, <1>16, <1>21 DEF Step
<1>22. CASE Fail
  BY <1>9, <1>11, <1>13, <1>17, <1>18, <1>19, <1>22 DEF Fail
<1> QED
  BY <1>6, <1>7, <1>20, <1>21, <1>22 DEF Next

\* Every variable has its type: no entry is published past its last attempt,
\* and what the dispatcher holds in memory was delivered to it.
THEOREM TypeCorrect == Spec => []TypeOK
<1>1. Init => Rest
  <2>1. MaxFaults \in Nat /\ Len(<<>>) = 0
    BY LimitsAssumption
  <2>2. ASSUME Init  PROVE stream = <<>> /\ cursor = 0 /\ broken = FALSE /\ faults = 0
    BY <2>2 DEF Init
  <2>3. ASSUME Init  PROVE cursor \in 0..Len(stream) /\ faults \in 0..MaxFaults
    BY <2>1, <2>2, <2>3
  <2> QED
    BY <2>2, <2>3 DEF Rest
<1>2. IInv /\ IInv' /\ Rest /\ [Next]_vars => Rest'
  BY LimitsAssumption, RestKept
<1>3. IInv /\ Rest => TypeOK
  BY DEF IInv, SharedTypes, Held, Record, Rest, Entries, TypeOK
<1> QED
  BY <1>1, <1>2, <1>3, SpecInv, PTL DEF Spec
==============================================================================
