--------------------------- MODULE Services_proofs ---------------------------
(***************************************************************************)
(* Proofs about the three services the API stands on.                      *)
(*  - The event stream: what a browser was never told has a recorded       *)
(*    cause, and its ids go backwards only where the code lets them.       *)
(*  - The Redis pool: its books balance and every reply reaches the        *)
(*    command it answers.                                                  *)
(*  - The single-flight cache: one request at most computes and stores,    *)
(*    and the copy it is about to replace is never newer than what it has  *)
(*    computed.                                                            *)
(* Each is an inductive invariant of the component and one lemma for each  *)
(* of its actions.                                                         *)
(***************************************************************************)
EXTENDS EventStream, RedisPool, SingleFlight,
        FiniteSetTheorems, NaturalsInduction, SequenceTheorems, TLAPS

-----------------------------------------------------------------------------
Resyncs == Resync \in Range(queue)
Unseen == Stale \ missed

StreamShape ==
  /\ top \in Nat /\ first \in Nat \ {0} /\ (first <= top \/ (first = 1 /\ top = 0))
  /\ head \in NoId .. top /\ from \in NoId .. top /\ lastId \in NoId .. top
  /\ replayed \in 0 .. top
  /\ conn \in {"none", "check", "replay", "send", "live"}
  /\ queue \in Seq(Nat) /\ ring \in Seq(Nat)
  /\ subscribed \in BOOLEAN /\ dueAll \in BOOLEAN
  /\ sending \subseteq 1 .. top
  /\ fresh \subseteq 1 .. top /\ due \subseteq 1 .. top

\* The queue ascends, up to what the broadcaster has read, and may end with a Resync.
QueueInv ==
  /\ \A i, j \in 1 .. Len(queue) :
       i < j => queue[i] # Resync /\ (queue[j] = Resync \/ queue[i] < queue[j])
  /\ \A i \in 1 .. Len(queue) : queue[i] <= head

\* A connection is a subscriber until its queue has overflowed.
ConnInv ==
  /\ conn = "none" => queue = <<>> /\ subscribed = FALSE
  /\ conn # "none" => head # NoId /\ (subscribed \/ Resyncs)
  /\ subscribed => ~Resyncs

\* Where the browser is while its connection replays.
ReplayInv ==
  /\ conn \in {"check", "replay", "send"} => from # NoId
  /\ conn \in {"check", "replay"} => from = lastId /\ replayed = 0
  /\ conn = "send" => /\ lastId = IF replayed = 0 THEN from ELSE replayed
                      /\ from <= lastId /\ \A e \in sending : e > lastId

\* What the browser ignores because it is in the ring was noticed or recorded.
RingInv ==
  \A i \in 1 .. Len(ring) :
    \/ ring[i] = Resync
    \/ ring[i] \in 1 .. top /\ (dueAll \/ ring[i] \in fresh \cup due \cup missed)

\* What the browser has not noticed lies after what it resumes from.
AheadInv ==
  \A e \in Unseen :
    /\ conn \in {"none", "check", "replay"} \/ ~Resyncs => e > lastId
    /\ conn = "live" /\ ~Resyncs => e > replayed
    /\ conn = "send" => Resyncs \/ e \in sending \/ \A d \in sending : e > d

\* The live loop goes on where the replay, or the loop itself, has got to.
OrderInv ==
  conn = "live" =>
    \/ lastId = IF replayed = 0 THEN from ELSE replayed
    \/ lastId <= head /\ \A i \in 1 .. Len(queue) : queue[i] = Resync \/ queue[i] > lastId

StreamInv ==
  StreamShape /\ QueueInv /\ ConnInv /\ ReplayInv /\ RingInv /\ AheadInv /\ OrderInv /\ NoSilentGap

-----------------------------------------------------------------------------
LEMMA InRange ==
  ASSUME NEW S, NEW q \in Seq(S), NEW x
  PROVE  x \in Range(q) <=> \E i \in 1 .. Len(q) : q[i] = x
BY DEF Range

LEMMA NothingQueued == Range(<<>>) = {}
BY DEF Range

LEMMA MaxOfTwo == ASSUME NEW a \in Int, NEW b \in Int
                  PROVE  Max({a, b}) = IF a >= b THEN a ELSE b
<1>1. CASE a >= b
  <2>1. a \in {a, b} /\ \A y \in {a, b} : a >= y
    BY <1>1
  <2>2. \A x \in {a, b} : (\A y \in {a, b} : x >= y) => x = a
    BY <1>1
  <2> QED
    BY <1>1, <2>1, <2>2 DEF Max
<1>2. CASE b > a
  <2>1. b \in {a, b} /\ \A y \in {a, b} : b >= y
    BY <1>2
  <2>2. \A x \in {a, b} : (\A y \in {a, b} : x >= y) => x = b
    BY <1>2
  <2> QED
    BY <1>2, <2>1, <2>2 DEF Max
<1> QED
  BY <1>1, <1>2

LEMMA MinOfTwo == ASSUME NEW a \in Int, NEW b \in Int
                  PROVE  Min({a, b}) = IF a <= b THEN a ELSE b
<1>1. CASE a <= b
  <2>1. a \in {a, b} /\ \A y \in {a, b} : a <= y
    BY <1>1
  <2>2. \A x \in {a, b} : (\A y \in {a, b} : x <= y) => x = a
    BY <1>1
  <2> QED
    BY <1>1, <2>1, <2>2 DEF Min
<1>2. CASE b < a
  <2>1. b \in {a, b} /\ \A y \in {a, b} : b <= y
    BY <1>2
  <2>2. \A x \in {a, b} : (\A y \in {a, b} : x <= y) => x = b
    BY <1>2
  <2> QED
    BY <1>2, <2>1, <2>2 DEF Min
<1> QED
  BY <1>1, <1>2

LEMMA MinIsLeast ==
  ASSUME NEW S \in SUBSET Nat, S # {}
  PROVE  Min(S) \in S /\ \A y \in S : Min(S) <= y
<1>1. \E x \in S : \A y \in S : x <= y
  <2>1. PICK x \in S : \A y \in S : ~(<<y, x>> \in OpToRel(<, Nat))
    BY NatLessThanWellFounded, WFMin, Zenon
  <2>2. \A y \in S : ~(y < x)
    BY <2>1, Zenon DEF OpToRel
  <2>3. \A y \in S : x <= y
    BY <2>2
  <2> QED
    BY <2>3
<1> QED
  BY <1>1 DEF Min

\* The longest prefix that fits, less its first item, and a Resync.
LEMMA Overflow ==
  ASSUME NEW s \in Seq(Nat), NEW n \in Nat \ {0}, n <= Len(s)
  PROVE  LET r == Append(Tail(SubSeq(s, 1, n)), Resync) IN
         /\ r \in Seq(Nat) /\ Len(r) = n /\ r[n] = Resync
         /\ \A i \in 1 .. n - 1 : r[i] = s[i + 1]
<1> DEFINE p == SubSeq(s, 1, n)
<1>1. p \in Seq(Nat) /\ Len(p) = n /\ \A i \in 1 .. n : p[i] = s[i]
  BY SubSeqProperties
<1> HIDE DEF p
<1>2. p # <<>>
  BY <1>1
<1>3. Tail(p) \in Seq(Nat) /\ Len(Tail(p)) = n - 1 /\ \A i \in 1 .. n - 1 : Tail(p)[i] = p[i + 1]
  BY <1>1, <1>2, HeadTailProperties
<1> DEFINE t == Tail(p)
<1>4. t \in Seq(Nat) /\ Len(t) = n - 1 /\ \A i \in 1 .. n - 1 : t[i] = s[i + 1]
  BY <1>1, <1>3
<1> HIDE DEF t
<1>5. /\ Append(t, Resync) \in Seq(Nat) /\ Len(Append(t, Resync)) = n /\ Append(t, Resync)[n] = Resync
      /\ \A i \in 1 .. n - 1 : Append(t, Resync)[i] = t[i]
  BY <1>4 DEF Resync
<1> QED
  BY <1>4, <1>5 DEF t, p

LEMMA RunIsSeq ==
  ASSUME NEW lo \in Nat, NEW hi \in Nat, lo <= hi
  PROVE  /\ Run(lo, hi) \in Seq(Nat) /\ Len(Run(lo, hi)) = hi - lo + 1
         /\ \A i \in 1 .. hi - lo + 1 : Run(lo, hi)[i] = lo + i - 1
<1>1. \A k \in 1 .. hi - lo + 1 : lo + k - 1 \in Nat
  OBVIOUS
<1> QED
  BY <1>1 DEF Run

LEMMA Remembered ==
  ASSUME StreamShape, NEW id \in Nat, Remember(id)
  PROVE  /\ ring' \in Seq(Nat)
         /\ \A i \in 1 .. Len(ring') :
              ring'[i] = id \/ \E j \in 1 .. Len(ring) : ring'[i] = ring[j]
<1> DEFINE r == IF Len(ring) < RingLimit THEN ring ELSE Tail(ring)
<1>1. ring \in Seq(Nat)
  BY DEF StreamShape
<1>2. CASE ring = <<>>
  <2>1. Tail(ring) = <<>>
    BY <1>2
  <2>2. r = <<>>
    BY <1>2, <2>1
  <2>3. ring' = Append(<<>>, id)
    BY <2>2 DEF Remember
  <2> QED
    BY <2>3
<1>3. CASE ring # <<>>
  <2>1. Tail(ring) \in Seq(Nat) /\ Len(Tail(ring)) = Len(ring) - 1
        /\ \A i \in 1 .. Len(Tail(ring)) : Tail(ring)[i] = ring[i + 1]
    BY <1>1, <1>3, HeadTailProperties
  <2>2. r \in Seq(Nat) /\ \A i \in 1 .. Len(r) : \E j \in 1 .. Len(ring) : r[i] = ring[j]
    BY <1>1, <2>1
  <2> HIDE DEF r
  <2>3. /\ Append(r, id) \in Seq(Nat) /\ Len(Append(r, id)) = Len(r) + 1
        /\ \A i \in 1 .. Len(r) : Append(r, id)[i] = r[i]
        /\ Append(r, id)[Len(r) + 1] = id
    BY <2>2
  <2>4. ring' = Append(r, id)
    BY DEF Remember, r
  <2>5. \A i \in 1 .. Len(r) + 1 : i \in 1 .. Len(r) \/ i = Len(r) + 1
    BY <2>2
  <2> QED
    BY <2>2, <2>3, <2>4, <2>5
<1> QED
  BY <1>2, <1>3

LEMMA ReceiveKeeps ==
  ASSUME StreamShape, RingInv, NEW e \in 1 .. top, Receive(e), top' = top, missed \subseteq missed'
  PROVE  /\ ring' \in Seq(Nat) /\ due' \subseteq 1 .. top /\ UNCHANGED <<dueAll, fresh>>
         /\ lastId' = e /\ RingInv' /\ \A x \in Unseen' : x \in Unseen /\ x # e
<1> USE DEF Receive
<1>1. top \in Nat /\ ring \in Seq(Nat) /\ e \in Nat
  BY DEF StreamShape
<1>2. dueAll' = dueAll /\ fresh' = fresh /\ lastId' = e
  OBVIOUS
<1>3. CASE e \in Range(ring)
  <2>1. ring' = ring /\ due' = due
    BY <1>3
  <2>2. PICK j \in 1 .. Len(ring) : ring[j] = e
    BY <1>1, <1>3, InRange
  <2>3. RingInv'
    BY <1>2, <2>1 DEF RingInv
  <2>4. dueAll \/ e \in fresh \cup due \cup missed
    BY <2>2 DEF RingInv, Resync
  <2>5. \A x \in Unseen' : x \in Unseen /\ x # e
    BY <1>2, <2>1, <2>4 DEF Unseen, Stale
  <2> QED
    BY <1>1, <1>2, <2>1, <2>3, <2>5 DEF StreamShape
<1>4. CASE e \notin Range(ring)
  <2>1. Remember(e) /\ due' = due \cup {e}
    BY <1>4
  <2>2. /\ ring' \in Seq(Nat)
        /\ \A i \in 1 .. Len(ring') :
              ring'[i] = e \/ \E j \in 1 .. Len(ring) : ring'[i] = ring[j]
    BY <1>1, <2>1, Remembered
  <2>3. RingInv'
    BY <1>2, <2>1, <2>2 DEF RingInv
  <2>4. \A x \in Unseen' : x \in Unseen /\ x # e
    BY <1>2, <2>1 DEF Unseen, Stale
  <2> QED
    BY <1>2, <2>1, <2>2, <2>3, <2>4 DEF StreamShape
<1> QED
  BY <1>3, <1>4

LEMMA ResyncKeeps ==
  ASSUME StreamShape, RingInv, NEW id, ReceiveResync(id), top' = top
  PROVE  /\ ring' \in Seq(Nat) /\ UNCHANGED <<due, fresh>> /\ dueAll' = TRUE
         /\ lastId' = id /\ RingInv' /\ Unseen' = {}
<1>1. Remember(Resync) /\ dueAll' = TRUE
  BY DEF ReceiveResync
<1>2. ring' \in Seq(Nat)
  BY <1>1, Remembered DEF Resync
<1>3. \A i \in 1 .. Len(ring') :
        ring'[i] = Resync \/ \E j \in 1 .. Len(ring) : ring'[i] = ring[j]
  BY <1>1, Remembered DEF Resync
<1>4. RingInv'
  BY <1>1, <1>3 DEF RingInv
<1> QED
  BY <1>1, <1>2, <1>4 DEF ReceiveResync, Unseen, Stale

LEMMA BrowserKept ==
  ASSUME RingInv, UNCHANGED <<browser, top>>, missed \subseteq missed'
  PROVE  RingInv' /\ \A x \in Unseen' : x \in Unseen
<1>1. UNCHANGED <<lastId, ring, due, dueAll, fresh, top>>
  BY DEF browser
<1>2. RingInv'
  BY <1>1 DEF RingInv
<1> QED
  BY <1>1, <1>2 DEF Unseen, Stale

\* A connection that ended.
LEMMA Hungup ==
  ASSUME Hangup, UNCHANGED stream
  PROVE  /\ queue' \in Seq(Nat) /\ QueueInv' /\ ConnInv' /\ ReplayInv' /\ OrderInv'
         /\ sending' = {} /\ subscribed' = FALSE /\ conn' = "none" /\ ~Resyncs'
<1>1. queue' = <<>> /\ subscribed' = FALSE /\ sending' = {} /\ conn' = "none"
  BY DEF Hangup
<1>2. queue' \in Seq(Nat) /\ Len(queue') = 0
  BY <1>1
<1>3. QueueInv'
  BY <1>2 DEF QueueInv
<1>4. ~Resyncs'
  BY <1>1, NothingQueued DEF Resyncs
<1> QED
  BY <1>1, <1>2, <1>3, <1>4 DEF ConnInv, ReplayInv, OrderInv

-----------------------------------------------------------------------------
LEMMA PublishStep == ASSUME StreamAssumption, StreamInv, Publish PROVE StreamInv'
<1> USE DEF StreamInv
<1>1. UNCHANGED <<server, browser, missed, streamFaults>> /\ top' = top + 1 /\ top \in Nat
      /\ first' = Max({first, top + 2 - StreamLimit})
  BY DEF Publish, StreamShape
<1>2. UNCHANGED <<head, conn, queue, subscribed, from, sending, replayed>>
      /\ UNCHANGED <<lastId, ring, due, dueAll, fresh>> /\ missed' = missed
  BY <1>1 DEF server, browser
<1>3. first' \in Nat \ {0} /\ first' <= top'
  <2>1. StreamLimit \in Nat \ {0} /\ first \in Nat \ {0} /\ top + 2 - StreamLimit \in Int
    BY <1>1 DEF StreamAssumption, StreamShape
  <2>2. first' = IF first >= top + 2 - StreamLimit THEN first ELSE top + 2 - StreamLimit
    BY <1>1, <2>1, MaxOfTwo
  <2> QED
    BY <1>1, <2>1, <2>2 DEF StreamShape
<1>4. StreamShape'
  BY <1>1, <1>2, <1>3 DEF StreamShape, NoId
<1>5. Resyncs' = Resyncs
  BY <1>2 DEF Resyncs
<1>6. QueueInv' /\ ConnInv' /\ ReplayInv' /\ RingInv' /\ OrderInv'
  <2>1. 1 .. top \subseteq 1 .. top'
    BY <1>1
  <2> QED
    BY <1>2, <1>5, <2>1 DEF QueueInv, ConnInv, ReplayInv, RingInv, OrderInv
<1>7. \A e \in Unseen' : e \in Unseen \/ e = top + 1
  BY <1>1, <1>2 DEF Unseen, Stale
<1>8. lastId <= top /\ from <= top /\ replayed <= top /\ head <= top /\ \A d \in sending : d <= top
  BY <1>1 DEF StreamShape
<1>9. AheadInv'
  BY <1>1, <1>2, <1>5, <1>7, <1>8 DEF AheadInv, StreamShape, NoId
<1>10. NoSilentGap'
  <2> SUFFICES ASSUME NEW e \in Unseen'
               PROVE  Coming(e)'
    BY DEF NoSilentGap, Unseen
  <2>1. CASE e \in Unseen
    <3>1. Coming(e)
      BY <2>1 DEF NoSilentGap, Unseen
    <3> QED
      BY <1>2, <3>1 DEF Coming
  <2>2. CASE e = top + 1
    <3>1. e > lastId /\ e > from /\ e > head
      BY <1>1, <1>8, <2>2 DEF StreamShape, NoId
    <3>2. conn \in {"none", "check", "replay", "send", "live"}
      BY DEF StreamShape
    <3> QED
      BY <1>2, <3>1, <3>2 DEF Coming, ConnInv, Resyncs
  <2> QED
    BY <1>7, <2>1, <2>2
<1> QED
  BY <1>4, <1>6, <1>9, <1>10

LEMMA SubscribeStep == ASSUME StreamInv, Subscribe PROVE StreamInv'
<1> USE DEF StreamInv
<1>1. /\ UNCHANGED <<first, top, lastId, ring, due, dueAll, fresh, sending>>
      /\ queue' = <<>> /\ subscribed' = TRUE /\ replayed' = 0 /\ from' = lastId /\ conn = "none"
  BY DEF Subscribe, stream, browser
<1>2. head' \in NoId .. top /\ head' # NoId
  <2>1. head \in NoId .. top /\ top \in Nat
    BY DEF StreamShape
  <2>2. CASE head # NoId
    <3>1. head' = head
      BY <2>2 DEF Subscribe, StartHead
    <3> QED
      BY <2>1, <2>2, <3>1
  <2>3. CASE head = NoId
    <3>1. head' = top \/ head' = 0
      BY <2>3 DEF Subscribe, StartHead
    <3> QED
      BY <2>1, <3>1 DEF NoId
  <2> QED
    BY <2>2, <2>3
<1>3. missed \subseteq missed' /\ conn' \in {"live", "check"}
      /\ (lastId = NoId => conn' = "live" /\ missed' = missed \cup (Stale \cap (1 .. head')))
      /\ (lastId # NoId => conn' = "check")
  BY DEF Subscribe
<1>4. queue' \in Seq(Nat) /\ Len(queue') = 0 /\ ~Resyncs'
  BY <1>1, NothingQueued DEF Resyncs
<1>5. StreamShape'
  BY <1>1, <1>2, <1>3, <1>4 DEF StreamShape
<1>6. QueueInv' /\ ConnInv'
  BY <1>1, <1>2, <1>3, <1>4 DEF QueueInv, ConnInv
<1>7. ReplayInv' /\ OrderInv'
  BY <1>1, <1>3 DEF ReplayInv, OrderInv
<1>8. RingInv' /\ \A x \in Unseen' : x \in Unseen
  BY <1>1, <1>3, BrowserKept DEF browser
<1>9. \A e \in Unseen : e > lastId /\ e \in 1 .. top
  BY <1>1 DEF AheadInv, Unseen, Stale
<1>10. AheadInv'
  BY <1>1, <1>3, <1>8, <1>9 DEF AheadInv
<1>11. NoSilentGap'
  <2> SUFFICES ASSUME NEW e \in Unseen'
               PROVE  Coming(e)'
    BY DEF NoSilentGap, Unseen
  <2>1. CASE lastId = NoId
    <3>1. e \in Stale /\ e \notin 1 .. head' /\ e \in 1 .. top
      BY <1>1, <1>3, <2>1 DEF Unseen, Stale
    <3>2. e > head'
      BY <1>2, <3>1 DEF NoId
    <3> QED
      BY <1>1, <1>3, <2>1, <3>2 DEF Coming
  <2>2. CASE lastId # NoId
    BY <1>1, <1>3, <1>8, <1>9, <2>2 DEF Coming
  <2> QED
    BY <2>1, <2>2
<1> QED
  BY <1>5, <1>6, <1>7, <1>8, <1>10, <1>11

LEMMA CheckOldestStep == ASSUME StreamInv, CheckOldest PROVE StreamInv'
<1> USE DEF StreamInv
<1>1. /\ UNCHANGED <<first, top, head, queue, subscribed, sending, replayed, missed>>
      /\ conn = "check" /\ conn' = "replay" /\ from = lastId /\ replayed = 0
  BY DEF CheckOldest, stream, ReplayInv
<1>2. Resyncs' = Resyncs
  BY <1>1 DEF Resyncs
<1>3. QueueInv' /\ ConnInv' /\ OrderInv'
  BY <1>1, <1>2 DEF QueueInv, ConnInv, OrderInv
<1>4. CASE Entries # {} /\ from < first
  <2>1. from' = first /\ ReceiveResync(first)
    BY <1>4 DEF CheckOldest
  <2>2. /\ ring' \in Seq(Nat) /\ UNCHANGED <<due, fresh>> /\ dueAll' = TRUE
        /\ lastId' = first /\ RingInv' /\ Unseen' = {}
    BY <1>1, <2>1, ResyncKeeps
  <2>3. first \in NoId .. top
    BY <1>4 DEF StreamShape, Entries, NoId
  <2>4. StreamShape'
    BY <1>1, <2>1, <2>2, <2>3 DEF StreamShape
  <2>5. ReplayInv'
    BY <1>1, <2>1, <2>2 DEF ReplayInv, StreamShape, NoId
  <2>6. AheadInv'
    BY <2>2 DEF AheadInv
  <2>7. NoSilentGap'
    BY <2>2 DEF NoSilentGap, Unseen
  <2> QED
    BY <1>3, <2>2, <2>4, <2>5, <2>6, <2>7
<1>5. CASE ~(Entries # {} /\ from < first)
  <2>1. UNCHANGED <<from, lastId, ring, due, dueAll, fresh>>
    BY <1>5 DEF CheckOldest, browser
  <2>2. RingInv' /\ \A x \in Unseen' : x \in Unseen
    BY <1>1, <2>1, BrowserKept DEF browser
  <2>3. StreamShape'
    BY <1>1, <2>1 DEF StreamShape
  <2>4. ReplayInv'
    BY <1>1, <2>1 DEF ReplayInv
  <2>5. AheadInv'
    BY <1>1, <1>2, <2>1, <2>2 DEF AheadInv
  <2>6. NoSilentGap'
    <3> SUFFICES ASSUME NEW e \in Unseen'
                 PROVE  Coming(e)'
      BY DEF NoSilentGap, Unseen
    <3>1. Coming(e)
      BY <2>2 DEF NoSilentGap, Unseen
    <3> QED
      BY <1>1, <2>1, <3>1 DEF Coming
  <2> QED
    BY <1>3, <2>2, <2>3, <2>4, <2>5, <2>6
<1> QED
  BY <1>4, <1>5

LEMMA ReplayEntriesRange ==
  ASSUME StreamAssumption, StreamShape, from # NoId
  PROVE  /\ ReplayEntries \subseteq 1 .. top
         /\ \A d \in ReplayEntries : d > from
         /\ \A e \in from + 1 .. top :
              e < first \/ e \in ReplayEntries \/ \A d \in ReplayEntries : e > d
<1> DEFINE lo == Max({from, first})
           hi == Min({top, lo + ReplayBatch - 1})
<1>1. from \in Nat /\ from <= top /\ top \in Nat /\ first \in Nat \ {0}
      /\ ReplayBatch \in Nat \ {0}
  BY DEF StreamShape, NoId, StreamAssumption
<1>2. lo = IF from >= first THEN from ELSE first
  BY <1>1, MaxOfTwo
<1>3. hi = IF top <= lo + ReplayBatch - 1 THEN top ELSE lo + ReplayBatch - 1
  BY <1>1, <1>2, MinOfTwo
<1>4. ReplayEntries = (lo .. hi) \ {from}
  BY DEF ReplayEntries
<1> HIDE DEF lo, hi
<1> QED
  BY <1>1, <1>2, <1>3, <1>4

LEMMA ReplayStep == ASSUME StreamAssumption, StreamInv, Replay PROVE StreamInv'
<1> USE DEF StreamInv
<1>1. /\ UNCHANGED <<first, top, head, queue, subscribed, from, replayed>>
      /\ UNCHANGED <<lastId, ring, due, dueAll, fresh>>
      /\ conn = "replay" /\ conn' = "send" /\ from = lastId /\ replayed = 0
      /\ sending' = ReplayEntries /\ missed \subseteq missed'
  BY DEF Replay, stream, browser, ReplayInv
<1>2. Resyncs' = Resyncs /\ UNCHANGED <<browser, top>>
  BY <1>1 DEF Resyncs, browser
<1>3. \A x \in Unseen : x > lastId /\ x \in 1 .. top
  BY <1>1 DEF AheadInv, Unseen, Stale
<1>4. RingInv' /\ \A x \in Unseen' : x \in Unseen
  BY <1>1, <1>2, BrowserKept
<1>5. \A x \in Unseen' : Resyncs \/ ~(x < first)
  <2> SUFFICES ASSUME NEW x \in Unseen', ~Resyncs, x < first
               PROVE  FALSE
    OBVIOUS
  <2>1. x \in from + 1 .. first - 1
    BY <1>1, <1>3, <1>4 DEF StreamShape, NoId
  <2>2. missed' = missed \cup (Stale \cap (from + 1 .. first - 1))
    BY DEF Replay, Resyncs
  <2>3. x \in Stale
    BY <1>4 DEF Unseen
  <2> QED
    BY <2>1, <2>2, <2>3 DEF Unseen
<1>6. from # NoId
  BY <1>1 DEF ReplayInv
<1>7. /\ ReplayEntries \subseteq 1 .. top /\ \A d \in ReplayEntries : d > from
      /\ \A e \in from + 1 .. top :
            e < first \/ e \in ReplayEntries \/ \A d \in ReplayEntries : e > d
  BY <1>6, ReplayEntriesRange
<1>8. StreamShape'
  BY <1>1, <1>7 DEF StreamShape
<1>9. QueueInv' /\ ConnInv' /\ OrderInv'
  BY <1>1, <1>2 DEF QueueInv, ConnInv, OrderInv
<1>10. ReplayInv'
  BY <1>1, <1>7 DEF ReplayInv, StreamShape, NoId
<1>11. AheadInv'
  <2> SUFFICES ASSUME NEW e \in Unseen'
               PROVE  e > lastId /\ (Resyncs \/ e \in sending' \/ \A d \in sending' : e > d)
    BY <1>1, <1>2 DEF AheadInv
  <2>1. e \in from + 1 .. top
    BY <1>1, <1>3, <1>4 DEF StreamShape, NoId
  <2> QED
    BY <1>1, <1>3, <1>4, <1>5, <1>7, <2>1
<1>12. NoSilentGap'
  <2> SUFFICES ASSUME NEW e \in Unseen'
               PROVE  Coming(e)'
    BY DEF NoSilentGap, Unseen
  <2>1. e > from
    BY <1>1, <1>3, <1>4
  <2> QED
    BY <1>1, <2>1 DEF Coming
<1> QED
  BY <1>4, <1>8, <1>9, <1>10, <1>11, <1>12

\* Going live, after the replay or after its failure.
LEMMA GoLiveStep ==
  ASSUME StreamInv, GoLive, conn \in {"check", "replay", "send"}, conn = "send" => sending = {},
         UNCHANGED <<stream, head, queue, subscribed, from, sending, replayed, browser>>
  PROVE  StreamInv'
<1> USE DEF StreamInv
<1>1. /\ UNCHANGED <<first, top, head, queue, subscribed, from, sending, replayed>>
      /\ UNCHANGED <<lastId, ring, due, dueAll, fresh>>
      /\ conn' = "live" /\ missed \subseteq missed'
  BY DEF GoLive, stream, browser
<1>2. Resyncs' = Resyncs
  BY <1>1 DEF Resyncs
<1>3. RingInv' /\ \A x \in Unseen' : x \in Unseen
  BY <1>1, BrowserKept
<1>4. from \in Nat /\ from <= lastId /\ replayed <= lastId
  BY DEF ReplayInv, StreamShape, NoId
<1>5. \A x \in Unseen' : Resyncs \/ (x > from /\ x > lastId /\ x > replayed)
  BY <1>3, <1>4 DEF AheadInv, Unseen, Stale, StreamShape, NoId
<1>6. StreamShape'
  BY <1>1 DEF StreamShape
<1>7. QueueInv' /\ ConnInv' /\ ReplayInv'
  BY <1>1, <1>2 DEF QueueInv, ConnInv, ReplayInv
<1>8. OrderInv'
  BY <1>1 DEF OrderInv, ReplayInv
<1>9. AheadInv'
  BY <1>1, <1>2, <1>5 DEF AheadInv
<1>10. NoSilentGap'
  <2> SUFFICES ASSUME NEW e \in Unseen'
               PROVE  Coming(e)'
    BY DEF NoSilentGap, Unseen
  <2>1. CASE Resyncs
    BY <1>1, <2>1 DEF Coming, Resyncs
  <2>2. CASE ~Resyncs
    <3>1. e \in Nat /\ head \in Int /\ (subscribed)
      BY <1>3, <2>2 DEF Unseen, Stale, StreamShape, NoId, ConnInv
    <3>2. CASE e > head
      BY <1>1, <3>1, <3>2 DEF Coming
    <3>3. CASE e <= head
      <4>1. e \in from + 1 .. head
        BY <1>4, <1>5, <2>2, <3>1, <3>3
      <4>2. missed' = missed \cup (Stale \cap ((from + 1 .. head) \ Range(queue)))
        BY <2>2 DEF GoLive, Unqueued, Resyncs
      <4>3. e \in Stale
        BY <1>3 DEF Unseen
      <4>4. e \in Range(queue)
        BY <4>1, <4>2, <4>3 DEF Unseen
      <4> QED
        BY <1>1, <1>5, <2>2, <4>4 DEF Coming
    <3> QED
      BY <3>1, <3>2, <3>3
  <2> QED
    BY <2>1, <2>2
<1> QED
  BY <1>3, <1>6, <1>7, <1>8, <1>9, <1>10

LEMMA ReplayFailsStep == ASSUME StreamInv, ReplayFails PROVE StreamInv'
BY GoLiveStep DEF ReplayFails

LEMMA SendStep == ASSUME StreamInv, Send PROVE StreamInv'
<1> USE DEF StreamInv
<1>1. conn = "send" /\ UNCHANGED <<stream, head, queue, subscribed, from>>
  BY DEF Send
<1>2. CASE sending = {}
  BY <1>1, <1>2, GoLiveStep DEF Send
<1>3. CASE sending # {}
  <2>1. /\ UNCHANGED <<first, top, head, queue, subscribed, from, conn, missed>>
        /\ replayed' = Min(sending) /\ Receive(replayed') /\ sending' = sending \ {replayed'}
    BY <1>1, <1>3 DEF Send, stream
  <2>2. sending \in SUBSET Nat /\ sending \subseteq 1 .. top /\ top \in Nat
    BY DEF StreamShape
  <2>3. replayed' \in sending /\ \A d \in sending : replayed' <= d
    BY <1>3, <2>1, <2>2, MinIsLeast
  <2>4. /\ ring' \in Seq(Nat) /\ due' \subseteq 1 .. top /\ UNCHANGED <<dueAll, fresh>>
        /\ lastId' = replayed' /\ RingInv' /\ \A x \in Unseen' : x \in Unseen /\ x # replayed'
    <3> DEFINE h == replayed'
    <3>1. h \in 1 .. top /\ Receive(h) /\ top' = top /\ missed \subseteq missed'
      BY <2>1, <2>2, <2>3
    <3> HIDE DEF h
    <3>2. /\ ring' \in Seq(Nat) /\ due' \subseteq 1 .. top /\ UNCHANGED <<dueAll, fresh>>
          /\ lastId' = h /\ RingInv' /\ \A x \in Unseen' : x \in Unseen /\ x # h
      BY <3>1, ReceiveKeeps
    <3> QED
      BY <3>2 DEF h
  <2>5. Resyncs' = Resyncs
    BY <2>1 DEF Resyncs
  <2>6. StreamShape'
    <3> DEFINE h == replayed'
    <3>1. h \in 1 .. top /\ sending' \subseteq 1 .. top
      BY <2>1, <2>2, <2>3
    <3> HIDE DEF h
    <3>2. h \in 0 .. top /\ h \in NoId .. top
      BY <2>2, <3>1 DEF NoId
    <3>3. replayed' \in 0 .. top /\ lastId' \in NoId .. top
      BY <2>4, <3>2 DEF h
    <3> QED
      BY <2>1, <2>4, <3>1, <3>3 DEF StreamShape
  <2>7. QueueInv' /\ ConnInv' /\ OrderInv'
    BY <1>1, <2>1, <2>5 DEF QueueInv, ConnInv, OrderInv
  <2>8. from \in Nat /\ from <= lastId /\ lastId < replayed' /\ lastId \in Int
    BY <1>1, <2>3 DEF ReplayInv, StreamShape, NoId
  <2>9. ReplayInv'
    <3>1. replayed' \in Nat /\ replayed' # 0 /\ \A d \in sending' : d > replayed'
      BY <2>1, <2>2, <2>3
    <3>2. from <= replayed'
      BY <2>8, <3>1
    <3> QED
      BY <1>1, <2>1, <2>4, <2>8, <3>1, <3>2 DEF ReplayInv
  <2>10. \A e \in Unseen' : Resyncs \/ (e > replayed' /\ (e \in sending' \/ \A d \in sending' : e > d))
    <3> SUFFICES ASSUME NEW e \in Unseen', ~Resyncs
                 PROVE  e > replayed' /\ (e \in sending' \/ \A d \in sending' : e > d)
      OBVIOUS
    <3>1. e \in Unseen /\ e # replayed' /\ e \in Nat
      BY <2>4 DEF Unseen, Stale, StreamShape
    <3>2. e \in sending \/ \A d \in sending : e > d
      BY <1>1, <3>1 DEF AheadInv
    <3> QED
      BY <2>1, <2>2, <2>3, <3>1, <3>2
  <2>11. AheadInv'
    BY <1>1, <2>1, <2>4, <2>5, <2>10 DEF AheadInv
  <2>12. NoSilentGap'
    <3> SUFFICES ASSUME NEW e \in Unseen'
                 PROVE  Coming(e)'
      BY DEF NoSilentGap, Unseen
    <3>1. CASE Resyncs
      BY <1>1, <2>1, <3>1 DEF Coming, Resyncs
    <3>2. CASE ~Resyncs
      <4>1. e > replayed' /\ e \in Nat /\ replayed' \in Nat
        BY <2>2, <2>3, <2>4, <2>10, <3>2 DEF Unseen, Stale, StreamShape
      <4>2. e > from
        BY <2>8, <4>1
      <4> QED
        BY <1>1, <2>1, <4>2 DEF Coming
    <3> QED
      BY <3>1, <3>2
  <2> QED
    BY <2>4, <2>6, <2>7, <2>9, <2>11, <2>12
<1> QED
  BY <1>2, <1>3

-----------------------------------------------------------------------------
\* What one read of the broadcaster fans out.
LEMMA ReadBounds ==
  ASSUME StreamAssumption, StreamShape, head # NoId, head < top
  PROVE  LET lo == Max({head + 1, first})
             hi == Min({top, lo + ReadBatch - 1}) IN
         /\ lo \in Nat \ {0} /\ hi \in Nat /\ head < lo /\ first <= lo /\ lo <= hi /\ hi <= top
         /\ lo = head + 1 \/ lo = first
<1> DEFINE lo == Max({head + 1, first})
           hi == Min({top, lo + ReadBatch - 1})
<1>1. head \in Nat /\ top \in Nat /\ first \in Nat \ {0} /\ first <= top /\ ReadBatch \in Nat \ {0}
  BY DEF StreamShape, NoId, StreamAssumption
<1>2. lo = IF head + 1 >= first THEN head + 1 ELSE first
  BY <1>1, MaxOfTwo
<1> HIDE DEF lo
<1>3. hi = IF top <= lo + ReadBatch - 1 THEN top ELSE lo + ReadBatch - 1
  BY <1>1, <1>2, MinOfTwo
<1> HIDE DEF hi
<1>4. /\ lo \in Nat \ {0} /\ hi \in Nat /\ head < lo /\ first <= lo /\ lo <= hi /\ hi <= top
      /\ lo = head + 1 \/ lo = first
  BY <1>1, <1>2, <1>3
<1> QED
  BY <1>4 DEF lo, hi

LEMMA Joined ==
  ASSUME NEW q \in Seq(Nat), NEW r \in Seq(Nat)
  PROVE  /\ q \o r \in Seq(Nat) /\ Len(q \o r) = Len(q) + Len(r)
         /\ \A i \in 1 .. Len(q) : (q \o r)[i] = q[i]
         /\ \A i \in Len(q) + 1 .. Len(q \o r) :
              i - Len(q) \in 1 .. Len(r) /\ (q \o r)[i] = r[i - Len(q)]
OBVIOUS

\* A batch of the stream behind an ascending queue.
LEMMA Extended ==
  ASSUME StreamShape, QueueInv, ~Resyncs, NEW lo \in Nat, NEW hi \in Nat,
         0 < lo, head < lo, lo <= hi
  PROVE  LET s == queue \o Run(lo, hi) IN
         /\ s \in Seq(Nat) /\ Len(s) = Len(queue) + hi - lo + 1
         /\ \A i, j \in 1 .. Len(s) : i < j => s[i] < s[j]
         /\ \A i \in 1 .. Len(s) : s[i] # Resync /\ s[i] <= hi
         /\ \A i \in 1 .. Len(s) : (\E j \in 1 .. Len(queue) : s[i] = queue[j]) \/ s[i] >= lo
         /\ \A i \in 1 .. Len(queue) : s[i] = queue[i]
         /\ \A e \in lo .. hi : \E i \in 1 .. Len(s) : s[i] = e
<1> DEFINE r == Run(lo, hi)
           s == queue \o r
<1>1. r \in Seq(Nat) /\ Len(r) = hi - lo + 1 /\ \A i \in 1 .. hi - lo + 1 : r[i] = lo + i - 1
  BY RunIsSeq
<1> HIDE DEF r
<1>2. queue \in Seq(Nat) /\ Len(queue) \in Nat /\ \A i \in 1 .. Len(queue) : queue[i] \in Nat
  BY DEF StreamShape
<1>3. /\ s \in Seq(Nat) /\ Len(s) = Len(queue) + Len(r)
      /\ \A i \in 1 .. Len(queue) : s[i] = queue[i]
      /\ \A i \in Len(queue) + 1 .. Len(s) : i - Len(queue) \in 1 .. Len(r) /\ s[i] = r[i - Len(queue)]
  BY <1>1, <1>2, Joined
<1> HIDE DEF s
<1>4. \A i \in 1 .. Len(queue) : s[i] = queue[i]
  BY <1>3
<1>5. \A i \in Len(queue) + 1 .. Len(s) : s[i] = lo + (i - Len(queue)) - 1
  BY <1>1, <1>3
<1>6. \A i \in 1 .. Len(queue) : queue[i] # Resync /\ queue[i] <= head
  BY <1>2, InRange DEF Resyncs, QueueInv
<1>7. \A i, j \in 1 .. Len(queue) : i < j => queue[i] < queue[j]
  BY <1>6 DEF QueueInv
<1>8. head \in Int
  BY DEF StreamShape, NoId
<1>9. \A i \in 1 .. Len(s) : i \in 1 .. Len(queue) \/ i \in Len(queue) + 1 .. Len(s)
  BY <1>2, <1>3
<1>10. \A i, j \in 1 .. Len(s) : i < j => s[i] < s[j]
  <2> SUFFICES ASSUME NEW i \in 1 .. Len(s), NEW j \in 1 .. Len(s), i < j
               PROVE  s[i] < s[j]
    OBVIOUS
  <2>1. CASE i \in 1 .. Len(queue) /\ j \in 1 .. Len(queue)
    BY <1>4, <1>7, <2>1
  <2>2. CASE i \in 1 .. Len(queue) /\ j \in Len(queue) + 1 .. Len(s)
    <3>1. s[i] = queue[i] /\ queue[i] <= head /\ queue[i] \in Nat
      BY <1>2, <1>4, <1>6, <2>2
    <3>2. s[j] = lo + (j - Len(queue)) - 1 /\ j - Len(queue) >= 1
      BY <1>2, <1>3, <1>5, <2>2
    <3> QED
      BY <1>2, <1>8, <3>1, <3>2
  <2>3. CASE i \in Len(queue) + 1 .. Len(s) /\ j \in Len(queue) + 1 .. Len(s)
    BY <1>2, <1>5, <2>3
  <2>4. CASE i \in Len(queue) + 1 .. Len(s) /\ j \in 1 .. Len(queue)
    BY <1>2, <2>4
  <2> QED
    BY <1>9, <2>1, <2>2, <2>3, <2>4
<1>11. \A i \in 1 .. Len(s) : /\ s[i] # Resync /\ s[i] <= hi
                              /\ (\E j \in 1 .. Len(queue) : s[i] = queue[j]) \/ s[i] >= lo
  <2> SUFFICES ASSUME NEW i \in 1 .. Len(s)
               PROVE  /\ s[i] # Resync /\ s[i] <= hi
                      /\ (\E j \in 1 .. Len(queue) : s[i] = queue[j]) \/ s[i] >= lo
    OBVIOUS
  <2>1. CASE i \in 1 .. Len(queue)
    <3>1. s[i] = queue[i] /\ queue[i] <= head /\ queue[i] \in Nat /\ queue[i] # Resync
      BY <1>2, <1>4, <1>6, <2>1
    <3> QED
      BY <1>8, <2>1, <3>1
  <2>2. CASE i \in Len(queue) + 1 .. Len(s)
    <3>1. s[i] = lo + (i - Len(queue)) - 1 /\ i - Len(queue) >= 1 /\ i - Len(queue) <= hi - lo + 1
      BY <1>1, <1>2, <1>3, <1>5, <2>2
    <3> QED
      BY <1>2, <3>1 DEF Resync
  <2> QED
    BY <1>9, <2>1, <2>2
<1>12. \A e \in lo .. hi : \E i \in 1 .. Len(s) : s[i] = e
  <2> SUFFICES ASSUME NEW e \in lo .. hi
               PROVE  \E i \in 1 .. Len(s) : s[i] = e
    OBVIOUS
  <2> DEFINE k == Len(queue) + (e - lo + 1)
  <2>1. k \in Len(queue) + 1 .. Len(s) /\ k \in 1 .. Len(s) /\ k - Len(queue) = e - lo + 1
    BY <1>1, <1>2, <1>3
  <2> HIDE DEF k
  <2>2. s[k] = e
    BY <1>2, <1>5, <2>1
  <2> QED
    BY <2>1, <2>2
<1>13. Len(s) = Len(queue) + hi - lo + 1
  BY <1>1, <1>2, <1>3
<1>14. /\ s \in Seq(Nat) /\ Len(s) = Len(queue) + hi - lo + 1
       /\ \A i, j \in 1 .. Len(s) : i < j => s[i] < s[j]
       /\ \A i \in 1 .. Len(s) : s[i] # Resync /\ s[i] <= hi
       /\ \A i \in 1 .. Len(s) : (\E j \in 1 .. Len(queue) : s[i] = queue[j]) \/ s[i] >= lo
       /\ \A i \in 1 .. Len(queue) : s[i] = queue[i]
       /\ \A e \in lo .. hi : \E i \in 1 .. Len(s) : s[i] = e
  BY <1>3, <1>10, <1>11, <1>12, <1>13
<1> QED
  BY <1>14, Zenon DEF s, r

LEMMA BroadcastStep == ASSUME StreamAssumption, StreamInv, Broadcast PROVE StreamInv'
<1> USE DEF StreamInv
<1> DEFINE lo == Max({head + 1, first})
           hi == Min({top, lo + ReadBatch - 1})
           s == queue \o Run(lo, hi)
<1>1. /\ UNCHANGED <<first, top, conn, from, sending, replayed>>
      /\ UNCHANGED <<lastId, ring, due, dueAll, fresh>> /\ UNCHANGED <<browser, top>>
      /\ head # NoId /\ head < top /\ head' = hi
      /\ subscribed => Offer(Run(lo, hi)) /\ missed' = missed \cup (Stale \cap (head + 1 .. first - 1))
      /\ ~subscribed => UNCHANGED <<queue, subscribed, missed>>
  BY DEF Broadcast, stream, browser
<1>2. /\ lo \in Nat \ {0} /\ hi \in Nat /\ head < lo /\ first <= lo /\ lo <= hi /\ hi <= top
      /\ lo = head + 1 \/ lo = first
  BY <1>1, ReadBounds
<1> HIDE DEF lo, hi
<1>3. head \in Nat /\ top \in Nat /\ first \in Nat /\ head < head' /\ head' \in NoId .. top
  BY <1>1, <1>2 DEF StreamShape, NoId
<1>4. missed \subseteq missed'
  BY <1>1
<1>5. RingInv' /\ \A x \in Unseen' : x \in Unseen
  BY <1>1, <1>4, BrowserKept
<1>6. ReplayInv'
  BY <1>1 DEF ReplayInv
<1>7. CASE ~subscribed
  <2>1. UNCHANGED <<queue, subscribed, missed>> /\ Resyncs' = Resyncs
    BY <1>1, <1>7 DEF Resyncs
  <2>2. StreamShape'
    BY <1>1, <1>3, <2>1 DEF StreamShape
  <2>3. QueueInv' /\ ConnInv'
    <3>1. \A i \in 1 .. Len(queue) : queue[i] \in Nat /\ queue[i] <= head /\ queue[i] <= head'
      BY <1>3 DEF QueueInv, StreamShape
    <3> QED
      BY <1>1, <1>3, <2>1, <3>1 DEF QueueInv, ConnInv, NoId
  <2>4. OrderInv'
    BY <1>1, <1>3, <2>1 DEF OrderInv, StreamShape, NoId
  <2>5. AheadInv'
    BY <1>1, <1>5, <2>1 DEF AheadInv
  <2>6. NoSilentGap'
    <3> SUFFICES ASSUME NEW e \in Unseen'
                 PROVE  Coming(e)'
      BY DEF NoSilentGap, Unseen
    <3>1. Coming(e)
      BY <1>5 DEF NoSilentGap, Unseen
    <3> QED
      BY <1>1, <1>7, <2>1, <3>1 DEF Coming
  <2> QED
    BY <1>5, <1>6, <2>2, <2>3, <2>4, <2>5, <2>6
<1>8. CASE subscribed
  <2>1. ~Resyncs /\ conn # "none" /\ conn \in {"check", "replay", "send", "live"}
    BY <1>8 DEF ConnInv, StreamShape
  <2>2. /\ s \in Seq(Nat) /\ Len(s) = Len(queue) + hi - lo + 1
        /\ \A i, j \in 1 .. Len(s) : i < j => s[i] < s[j]
        /\ \A i \in 1 .. Len(s) : s[i] # Resync /\ s[i] <= hi
        /\ \A i \in 1 .. Len(s) : (\E j \in 1 .. Len(queue) : s[i] = queue[j]) \/ s[i] >= lo
        /\ \A i \in 1 .. Len(queue) : s[i] = queue[i]
        /\ \A e \in lo .. hi : \E i \in 1 .. Len(s) : s[i] = e
    <3>1. lo \in Nat /\ hi \in Nat /\ 0 < lo /\ head < lo /\ lo <= hi
      BY <1>2
    <3> QED
      BY <2>1, <3>1, Extended, Zenon
  <2>3. /\ Len(s) <= QueueLimit => queue' = s /\ subscribed' = subscribed
        /\ Len(s) > QueueLimit =>
             queue' = Append(Tail(SubSeq(s, 1, QueueLimit)), Resync) /\ subscribed' = FALSE
    <3>1. Len(s) \in Nat /\ QueueLimit \in Nat
      BY <2>2 DEF StreamAssumption
    <3>2. IF Len(s) <= QueueLimit
            THEN queue' = s /\ UNCHANGED subscribed
            ELSE queue' = Append(Tail(SubSeq(s, 1, QueueLimit)), Resync) /\ subscribed' = FALSE
      BY <1>1, <1>8 DEF Offer
    <3> HIDE DEF s
    <3>3. Len(s) > QueueLimit <=> ~(Len(s) <= QueueLimit)
      BY <3>1
    <3> QED
      BY <3>2, <3>3, Zenon
  <2> HIDE DEF s
  <2>4. \A x \in Unseen' : x \notin head + 1 .. first - 1
    BY <1>1, <1>5, <1>8 DEF Unseen
  <2>5. CASE Len(s) <= QueueLimit
    <3>1. queue' = s /\ subscribed' = subscribed
      BY <2>3, <2>5
    <3>2. ~Resyncs'
      BY <2>2, <3>1, InRange DEF Resyncs
    <3>3. StreamShape'
      BY <1>1, <1>3, <2>2, <3>1 DEF StreamShape
    <3>4. QueueInv'
      BY <1>1, <2>2, <3>1 DEF QueueInv
    <3>5. ConnInv'
      BY <1>1, <1>3, <1>8, <2>1, <3>1, <3>2 DEF ConnInv, NoId
    <3>6. AheadInv'
      BY <1>1, <1>5, <2>1, <3>2 DEF AheadInv
    <3>7. OrderInv'
      <4> SUFFICES ASSUME conn = "live"
                   PROVE  \/ lastId = IF replayed = 0 THEN from ELSE replayed
                          \/ lastId <= head' /\ \A i \in 1 .. Len(s) : s[i] > lastId
        BY <1>1, <3>1 DEF OrderInv
      <4>1. CASE lastId = IF replayed = 0 THEN from ELSE replayed
        BY <4>1
      <4>2. CASE lastId <= head /\ \A i \in 1 .. Len(queue) : queue[i] = Resync \/ queue[i] > lastId
        <5>1. lastId \in Int /\ lastId < lo /\ lastId <= head'
          BY <1>2, <1>3, <4>2 DEF StreamShape, NoId
        <5>2. \A j \in 1 .. Len(queue) : queue[j] # Resync /\ j \in 1 .. Len(s)
          BY <2>1, InRange, <1>2, <2>2 DEF Resyncs, StreamShape
        <5>3. \A i \in 1 .. Len(s) : s[i] \in Nat
          BY <2>2
        <5>4. \A i \in 1 .. Len(s) : s[i] > lastId
          <6> SUFFICES ASSUME NEW i \in 1 .. Len(s)
                       PROVE  s[i] > lastId
            OBVIOUS
          <6>1. CASE s[i] >= lo
            BY <1>2, <5>1, <5>3, <6>1
          <6>2. CASE \E j \in 1 .. Len(queue) : s[i] = queue[j]
            BY <4>2, <5>2, <6>2
          <6> QED
            BY <2>2, <6>1, <6>2
        <5> QED
          BY <5>1, <5>4
      <4> QED
        BY <4>1, <4>2 DEF OrderInv
    <3>8. NoSilentGap'
      <4> SUFFICES ASSUME NEW e \in Unseen'
                   PROVE  Coming(e)'
        BY DEF NoSilentGap, Unseen
      <4>1. Coming(e) /\ e \in Unseen /\ e \in Nat
        BY <1>1, <1>5 DEF NoSilentGap, Unseen, Stale, StreamShape
      <4>2. CASE conn \in {"check", "replay", "send"} /\ e > from
        BY <1>1, <4>2 DEF Coming
      <4>3. CASE e > head
        <5>1. CASE e > hi
          BY <1>1, <1>8, <2>1, <3>1, <5>1 DEF Coming
        <5>2. CASE e <= hi
          <6>1. e \in lo .. hi
            BY <1>2, <1>3, <2>4, <4>1, <4>3, <5>2
          <6>2. e \in Range(queue')
            BY <2>2, <3>1, <6>1, InRange
          <6>3. conn \in {"check", "replay", "send"} => e > from
            BY <2>1, <4>1 DEF AheadInv, ReplayInv, StreamShape, NoId
          <6>4. conn = "live" => e > replayed
            BY <2>1, <4>1 DEF AheadInv
          <6> QED
            BY <1>1, <2>1, <6>2, <6>3, <6>4 DEF Coming
        <5> QED
          BY <1>2, <4>1, <5>1, <5>2
      <4>4. CASE e \in Range(queue) /\ e > replayed
        <5>1. PICK j \in 1 .. Len(queue) : queue[j] = e
          BY <4>4, InRange DEF StreamShape
        <5>2. j \in 1 .. Len(s) /\ s[j] = e
          BY <1>2, <2>2, <5>1 DEF StreamShape
        <5>3. e \in Range(queue')
          BY <2>2, <3>1, <5>2, InRange
        <5> QED
          BY <1>1, <4>4, <5>3 DEF Coming
      <4> QED
        BY <2>1, <4>1, <4>2, <4>3, <4>4 DEF Coming, Resyncs
    <3> QED
      BY <1>5, <1>6, <3>3, <3>4, <3>5, <3>6, <3>7, <3>8
  <2>6. CASE Len(s) > QueueLimit
    <3> DEFINE r == Append(Tail(SubSeq(s, 1, QueueLimit)), Resync)
    <3>1. queue' = r /\ subscribed' = FALSE
      BY <2>3, <2>6
    <3>2. /\ r \in Seq(Nat) /\ Len(r) = QueueLimit /\ r[QueueLimit] = Resync
          /\ \A i \in 1 .. QueueLimit - 1 : r[i] = s[i + 1]
          /\ QueueLimit \in Nat \ {0} /\ Len(s) \in Nat
      <4>1. QueueLimit \in Nat \ {0} /\ Len(s) \in Nat /\ QueueLimit <= Len(s)
        BY <2>2, <2>6 DEF StreamAssumption
      <4> QED
        BY <2>2, <4>1, Overflow, Zenon
    <3> HIDE DEF r
    <3>3. Resyncs'
      BY <3>1, <3>2, InRange DEF Resyncs
    <3>4. StreamShape'
      BY <1>1, <1>3, <3>1, <3>2 DEF StreamShape
    <3>5. QueueInv'
      <4>1. \A i \in 1 .. QueueLimit : i = QueueLimit \/ (i \in 1 .. QueueLimit - 1 /\ i + 1 \in 1 .. Len(s))
        BY <2>6, <3>2
      <4>2. \A i \in 1 .. Len(r) : r[i] <= hi
        <5> SUFFICES ASSUME NEW i \in 1 .. QueueLimit
                     PROVE  r[i] <= hi
          BY <3>2
        <5>1. CASE i = QueueLimit
          BY <1>2, <3>2, <5>1 DEF Resync
        <5>2. CASE i \in 1 .. QueueLimit - 1 /\ i + 1 \in 1 .. Len(s)
          BY <2>2, <3>2, <5>2
        <5> QED
          BY <4>1, <5>1, <5>2
      <4>3. \A i, j \in 1 .. Len(r) :
              i < j => r[i] # Resync /\ (r[j] = Resync \/ r[i] < r[j])
        <5> SUFFICES ASSUME NEW i \in 1 .. QueueLimit, NEW j \in 1 .. QueueLimit, i < j
                     PROVE  r[i] # Resync /\ (r[j] = Resync \/ r[i] < r[j])
          BY <3>2
        <5>1. i \in 1 .. QueueLimit - 1 /\ i + 1 \in 1 .. Len(s) /\ r[i] = s[i + 1]
          BY <3>2, <4>1
        <5>2. CASE j = QueueLimit
          BY <2>2, <3>2, <5>1, <5>2
        <5>3. CASE j \in 1 .. QueueLimit - 1 /\ j + 1 \in 1 .. Len(s)
          <6>1. r[j] = s[j + 1] /\ i + 1 < j + 1
            BY <3>2, <5>3
          <6> QED
            BY <2>2, <5>1, <5>3, <6>1
        <5> QED
          BY <4>1, <5>2, <5>3
      <4> QED
        BY <1>1, <3>1, <4>2, <4>3 DEF QueueInv
    <3>6. ConnInv'
      BY <1>1, <1>3, <2>1, <3>1, <3>3 DEF ConnInv, NoId
    <3>7. AheadInv'
      BY <1>1, <1>5, <2>1, <3>3 DEF AheadInv
    <3>8. OrderInv'
      <4> SUFFICES ASSUME conn = "live"
                   PROVE  \/ lastId = IF replayed = 0 THEN from ELSE replayed
                          \/ lastId <= head' /\ \A i \in 1 .. Len(r) : r[i] = Resync \/ r[i] > lastId
        BY <1>1, <3>1 DEF OrderInv
      <4>1. CASE lastId = IF replayed = 0 THEN from ELSE replayed
        BY <4>1
      <4>2. CASE lastId <= head /\ \A i \in 1 .. Len(queue) : queue[i] = Resync \/ queue[i] > lastId
        <5>1. lastId \in Int /\ lastId < lo /\ lastId <= head'
          BY <1>2, <1>3, <4>2 DEF StreamShape, NoId
        <5>2. \A j \in 1 .. Len(queue) : queue[j] # Resync
          BY <2>1, InRange DEF Resyncs, StreamShape
        <5>3. \A i \in 1 .. Len(s) : s[i] \in Nat
          BY <2>2
        <5>4. \A i \in 1 .. Len(s) : s[i] > lastId
          <6> SUFFICES ASSUME NEW i \in 1 .. Len(s)
                       PROVE  s[i] > lastId
            OBVIOUS
          <6>1. CASE s[i] >= lo
            BY <1>2, <5>1, <5>3, <6>1
          <6>2. CASE \E j \in 1 .. Len(queue) : s[i] = queue[j]
            BY <4>2, <5>2, <6>2
          <6> QED
            BY <2>2, <6>1, <6>2
        <5>5. \A i \in 1 .. QueueLimit : i = QueueLimit \/ (i \in 1 .. QueueLimit - 1 /\ i + 1 \in 1 .. Len(s))
          BY <2>6, <3>2
        <5>6. \A i \in 1 .. Len(r) : r[i] = Resync \/ r[i] > lastId
          BY <3>2, <5>4, <5>5
        <5> QED
          BY <5>1, <5>6
      <4> QED
        BY <4>1, <4>2 DEF OrderInv
    <3>9. NoSilentGap'
      BY <1>1, <2>1, <3>3 DEF NoSilentGap, Coming, Resyncs
    <3> QED
      BY <1>5, <1>6, <3>4, <3>5, <3>6, <3>7, <3>8, <3>9
  <2>7. Len(s) \in Nat /\ QueueLimit \in Nat
    BY <2>2 DEF StreamAssumption
  <2> QED
    BY <2>5, <2>6, <2>7
<1> QED
  BY <1>7, <1>8

-----------------------------------------------------------------------------
LEMMA DeliverStep == ASSUME StreamInv, Deliver PROVE StreamInv'
<1> USE DEF StreamInv
<1>1. /\ UNCHANGED <<first, top, head, from, replayed, missed>> /\ UNCHANGED stream
      /\ conn = "live" /\ queue # <<>>
  BY DEF Deliver, stream
<1>2. /\ queue \in Seq(Nat) /\ Head(queue) = queue[1] /\ Tail(queue) \in Seq(Nat)
      /\ Len(queue) \in Nat \ {0} /\ Len(Tail(queue)) = Len(queue) - 1
      /\ \A i \in 1 .. Len(queue) - 1 : i + 1 \in 1 .. Len(queue) /\ Tail(queue)[i] = queue[i + 1]
  <2>1. queue \in Seq(Nat)
    BY DEF StreamShape
  <2>2. Len(queue) \in Nat \ {0}
    BY <1>1, <2>1, EmptySeq
  <2> QED
    BY <1>1, <2>1, <2>2, HeadTailProperties
<1>3. CASE Head(queue) = Resync
  <2>1. Hangup /\ ReceiveResync(0)
    BY <1>3 DEF Deliver
  <2>2. /\ ring' \in Seq(Nat) /\ UNCHANGED <<due, fresh>> /\ dueAll' = TRUE
        /\ lastId' = 0 /\ RingInv' /\ Unseen' = {}
    BY <1>1, <2>1, ResyncKeeps
  <2>3. /\ queue' \in Seq(Nat) /\ QueueInv' /\ ConnInv' /\ ReplayInv' /\ OrderInv'
        /\ sending' = {} /\ subscribed' = FALSE /\ conn' = "none"
    BY <1>1, <2>1, Hungup
  <2>4. StreamShape'
    <3>1. 0 \in NoId .. top
      BY DEF StreamShape, NoId
    <3> QED
      BY <1>1, <2>2, <2>3, <3>1 DEF StreamShape
  <2> QED
    BY <2>2, <2>3, <2>4 DEF AheadInv, NoSilentGap, Unseen
<1>4. CASE Head(queue) # Resync
  <2> DEFINE h == queue[1]
  <2>1. /\ queue' = Tail(queue) /\ UNCHANGED <<conn, subscribed, sending>>
        /\ h <= replayed => UNCHANGED browser
        /\ ~(h <= replayed) => Receive(h)
    BY <1>2, <1>4 DEF Deliver
  <2>2. h \in Nat /\ h # 0 /\ h <= head /\ h \in 1 .. top /\ head <= top /\ top \in Nat
        /\ replayed \in Nat /\ lastId \in Int /\ h \in Range(queue) /\ head \in Int
    <3>1. h \in Nat /\ h # 0 /\ h <= head /\ h \in Range(queue)
      BY <1>2, <1>4, InRange DEF QueueInv, Resync
    <3>2. head \in Int /\ head <= top /\ top \in Nat /\ replayed \in Nat /\ lastId \in Int
      BY DEF StreamShape, NoId
    <3> QED
      BY <3>1, <3>2
  <2>3. \A i \in 1 .. Len(queue') :
          queue'[i] \in Nat /\ queue'[i] = queue[i + 1] /\ i + 1 \in 1 .. Len(queue)
          /\ (queue'[i] = Resync \/ queue'[i] > h)
    BY <1>2, <2>1, <2>2 DEF QueueInv
  <2>4. \A x : x \in Range(queue) <=> x = h \/ x \in Range(queue')
    <3>1. queue' \in Seq(Nat) /\ Len(queue') = Len(queue) - 1
      BY <1>2, <2>1
    <3>2. \A x : x \in Range(queue') => x \in Range(queue)
      <4> SUFFICES ASSUME NEW x \in Range(queue')
                   PROVE  x \in Range(queue)
        OBVIOUS
      <4>1. PICK j \in 1 .. Len(queue') : queue'[j] = x
        BY <3>1, InRange
      <4>2. j + 1 \in 1 .. Len(queue) /\ queue[j + 1] = x
        BY <2>3, <4>1
      <4> QED
        BY <1>2, <4>2, InRange
    <3>3. \A x : x \in Range(queue) => x = h \/ x \in Range(queue')
      <4> SUFFICES ASSUME NEW x \in Range(queue), x # h
                   PROVE  x \in Range(queue')
        OBVIOUS
      <4>1. PICK j \in 1 .. Len(queue) : queue[j] = x
        BY <1>2, InRange
      <4>2. j - 1 \in 1 .. Len(queue') /\ (j - 1) + 1 = j
        BY <1>2, <3>1, <4>1
      <4>3. queue'[j - 1] = x
        BY <2>3, <4>1, <4>2
      <4> QED
        BY <3>1, <4>2, <4>3, InRange
    <3> QED
      BY <2>2, <3>2, <3>3
  <2>5. Resyncs' = Resyncs
    BY <2>2, <2>4 DEF Resyncs, Resync
  <2> HIDE DEF h
  <2>6. /\ ring' \in Seq(Nat) /\ due' \subseteq 1 .. top /\ UNCHANGED <<dueAll, fresh>> /\ RingInv'
        /\ lastId' \in NoId .. top /\ \A x \in Unseen' : x \in Unseen
        /\ h <= replayed => lastId' = lastId
        /\ ~(h <= replayed) => lastId' = h /\ h \notin Unseen'
    <3>1. CASE h <= replayed
      <4>1. UNCHANGED <<lastId, ring, due, dueAll, fresh>>
        BY <2>1, <3>1 DEF browser
      <4>2. RingInv' /\ \A x \in Unseen' : x \in Unseen
        BY <1>1, <2>1, <3>1, BrowserKept
      <4> QED
        BY <3>1, <4>1, <4>2 DEF StreamShape
    <3>2. CASE ~(h <= replayed)
      <4>1. Receive(h) /\ top' = top /\ missed \subseteq missed'
        BY <1>1, <2>1, <3>2
      <4>2. /\ ring' \in Seq(Nat) /\ due' \subseteq 1 .. top /\ UNCHANGED <<dueAll, fresh>>
            /\ lastId' = h /\ RingInv' /\ \A x \in Unseen' : x \in Unseen /\ x # h
        BY <2>2, <4>1, ReceiveKeeps
      <4> QED
        BY <2>2, <3>2, <4>2 DEF NoId
    <3> QED
      BY <3>1, <3>2
  <2>7. StreamShape'
    BY <1>1, <1>2, <2>1, <2>6 DEF StreamShape
  <2>8. QueueInv'
    <3>1. \A i \in 1 .. Len(queue') : queue'[i] <= head'
      BY <1>1, <2>3 DEF QueueInv
    <3>2. \A i, j \in 1 .. Len(queue') :
            i < j => queue'[i] # Resync /\ (queue'[j] = Resync \/ queue'[i] < queue'[j])
      <4> SUFFICES ASSUME NEW i \in 1 .. Len(queue'), NEW j \in 1 .. Len(queue'), i < j
                   PROVE  queue'[i] # Resync /\ (queue'[j] = Resync \/ queue'[i] < queue'[j])
        OBVIOUS
      <4>1. i + 1 < j + 1 /\ i + 1 \in 1 .. Len(queue) /\ j + 1 \in 1 .. Len(queue)
        BY <2>3
      <4> QED
        BY <2>3, <4>1 DEF QueueInv
    <3> QED
      BY <3>1, <3>2 DEF QueueInv
  <2>9. ConnInv' /\ ReplayInv'
    BY <1>1, <2>1, <2>5 DEF ConnInv, ReplayInv
  <2>10. OrderInv'
    <3>1. CASE h <= replayed
      <4>1. lastId' = lastId
        BY <2>6, <3>1
      <4>2. \A i \in 1 .. Len(queue') : i + 1 \in 1 .. Len(queue) /\ queue'[i] = queue[i + 1]
        BY <2>3
      <4> QED
        BY <1>1, <2>1, <4>1, <4>2 DEF OrderInv
    <3>2. CASE ~(h <= replayed)
      <4>1. lastId' = h /\ lastId' <= head'
        BY <1>1, <2>2, <2>6, <3>2
      <4>2. \A i \in 1 .. Len(queue') : queue'[i] = Resync \/ queue'[i] > lastId'
        BY <2>3, <4>1
      <4> QED
        BY <4>1, <4>2 DEF OrderInv
    <3> QED
      BY <3>1, <3>2
  <2>11. \A e \in Unseen' : Resyncs \/ (e > lastId' /\ e > replayed)
    <3> SUFFICES ASSUME NEW e \in Unseen', ~Resyncs
                 PROVE  e > lastId' /\ e > replayed
      OBVIOUS
    <3>1. e \in Unseen /\ e \in Nat /\ Coming(e) /\ e > lastId /\ e > replayed
      BY <1>1, <2>6 DEF NoSilentGap, AheadInv, Unseen, Stale, StreamShape
    <3>2. CASE h <= replayed
      BY <2>6, <3>1, <3>2
    <3>3. CASE ~(h <= replayed)
      <4>1. lastId' = h /\ e # h
        BY <2>6, <3>3
      <4>2. CASE e > head
        BY <2>2, <3>1, <4>1, <4>2
      <4>3. CASE e \in Range(queue)
        <5>1. e \in Range(queue') /\ e # Resync
          BY <2>4, <4>1, <4>3 DEF Resyncs
        <5>2. PICK i \in 1 .. Len(queue') : queue'[i] = e
          BY <1>2, <2>1, <5>1, InRange
        <5> QED
          BY <2>3, <3>1, <4>1, <5>1, <5>2
      <4> QED
        BY <1>1, <3>1, <4>2, <4>3 DEF Coming, Resyncs
    <3> QED
      BY <3>2, <3>3
  <2>12. AheadInv'
    BY <1>1, <2>1, <2>5, <2>11 DEF AheadInv
  <2>13. NoSilentGap'
    <3> SUFFICES ASSUME NEW e \in Unseen'
                 PROVE  Coming(e)'
      BY DEF NoSilentGap, Unseen
    <3>1. e \in Unseen /\ Coming(e)
      BY <2>6 DEF NoSilentGap, Unseen
    <3>2. CASE Resyncs
      BY <1>1, <2>1, <2>5, <3>2 DEF Coming, Resyncs
    <3>3. CASE subscribed /\ e > head
      BY <1>1, <2>1, <3>3 DEF Coming
    <3>4. CASE e \in Range(queue) /\ e > replayed
      <4>1. e # h
        BY <2>2, <2>6, <3>4
      <4> QED
        BY <1>1, <2>4, <3>4, <4>1 DEF Coming
    <3> QED
      BY <1>1, <3>1, <3>2, <3>3, <3>4 DEF Coming, Resyncs
  <2> QED
    BY <2>6, <2>7, <2>8, <2>9, <2>10, <2>12, <2>13
<1> QED
  BY <1>3, <1>4

LEMMA RefetchStep == ASSUME StreamInv, Refetch PROVE StreamInv'
<1> USE DEF StreamInv
<1>1. /\ UNCHANGED <<first, top, head, conn, queue, subscribed, from, sending, replayed>>
      /\ UNCHANGED <<lastId, ring, missed>> /\ due' = {} /\ dueAll' = FALSE
      /\ fresh' = IF dueAll THEN 1 .. top ELSE fresh \cup due
  BY DEF Refetch, stream, server
<1>2. Resyncs' = Resyncs
  BY <1>1 DEF Resyncs
<1>3. \A x \in Unseen' : x \in Unseen
  BY <1>1 DEF Unseen, Stale
<1>4. StreamShape'
  BY <1>1 DEF StreamShape
<1>5. QueueInv' /\ ConnInv' /\ ReplayInv' /\ OrderInv'
  BY <1>1, <1>2 DEF QueueInv, ConnInv, ReplayInv, OrderInv
<1>6. RingInv'
  BY <1>1 DEF RingInv
<1>7. AheadInv'
  BY <1>1, <1>2, <1>3 DEF AheadInv
<1>8. NoSilentGap'
  <2> SUFFICES ASSUME NEW e \in Unseen'
               PROVE  Coming(e)'
    BY DEF NoSilentGap, Unseen
  <2>1. Coming(e)
    BY <1>3 DEF NoSilentGap, Unseen
  <2> QED
    BY <1>1, <2>1 DEF Coming
<1> QED
  BY <1>4, <1>5, <1>6, <1>7, <1>8

\* A connection that breaks: the browser resumes after its Last-Event-ID.
LEMMA BreakStep ==
  ASSUME StreamInv, Hangup, missed' = missed \cup Unsaid, UNCHANGED <<stream, from, replayed, browser>>,
         head' \in NoId .. top
  PROVE  StreamInv'
<1> USE DEF StreamInv
<1>1. /\ UNCHANGED <<first, top, from, replayed, lastId, ring, due, dueAll, fresh>>
      /\ missed \subseteq missed'
  BY DEF stream, browser
<1>2. /\ queue' \in Seq(Nat) /\ QueueInv' /\ ConnInv' /\ ReplayInv' /\ OrderInv'
      /\ sending' = {} /\ subscribed' = FALSE /\ conn' = "none"
  BY <1>1, Hungup
<1>3. RingInv' /\ \A x \in Unseen' : x \in Unseen
  BY <1>1, BrowserKept
<1>4. StreamShape'
  BY <1>1, <1>2 DEF StreamShape
<1>5. \A e \in Unseen' : e > lastId
  <2> SUFFICES ASSUME NEW e \in Unseen'
               PROVE  e > lastId
    OBVIOUS
  <2>1. e \in Unseen /\ e \in Stale /\ e \notin Unsaid /\ e \in Nat /\ lastId \in Int
    BY <1>3 DEF Unseen, Stale, StreamShape, NoId
  <2>2. CASE Resyncs
    BY <2>1, <2>2 DEF Unsaid, Resyncs
  <2>3. CASE ~Resyncs
    BY <2>1, <2>3 DEF AheadInv
  <2> QED
    BY <2>2, <2>3
<1>6. AheadInv'
  BY <1>1, <1>2, <1>5 DEF AheadInv
<1>7. NoSilentGap'
  BY <1>1, <1>2, <1>5 DEF NoSilentGap, Coming, Unseen
<1> QED
  BY <1>2, <1>3, <1>4, <1>6, <1>7

LEMMA DisconnectStep == ASSUME StreamInv, Disconnect PROVE StreamInv'
<1>1. head' = head /\ head \in NoId .. top
  BY DEF Disconnect, StreamInv, StreamShape
<1> QED
  BY <1>1, BreakStep DEF Disconnect

LEMMA RestartStep == ASSUME StreamInv, Restart PROVE StreamInv'
<1>1. head' \in NoId .. top
  BY DEF Restart, StreamInv, StreamShape, NoId
<1> QED
  BY <1>1, BreakStep DEF Restart

LEMMA OfflineStep == ASSUME StreamInv, Offline PROVE StreamInv'
<1> USE DEF StreamInv
<1>1. /\ UNCHANGED <<first, top, head, from, replayed, ring, fresh>> /\ UNCHANGED stream
      /\ lastId' = NoId /\ due' = {} /\ dueAll' = FALSE /\ Hangup
      /\ missed' = missed \cup ((IF dueAll THEN 1 .. top ELSE due) \ fresh)
  BY DEF Offline, stream
<1>2. /\ queue' \in Seq(Nat) /\ QueueInv' /\ ConnInv' /\ ReplayInv' /\ OrderInv'
      /\ sending' = {} /\ subscribed' = FALSE /\ conn' = "none"
  BY <1>1, Hungup
<1>3. StreamShape'
  <2>1. NoId \in NoId .. top
    BY DEF StreamShape, NoId
  <2> QED
    BY <1>1, <1>2, <2>1 DEF StreamShape
<1>4. RingInv'
  BY <1>1 DEF RingInv
<1>5. \A e \in Unseen' : e > lastId'
  BY <1>1 DEF Unseen, Stale, StreamShape, NoId
<1>6. AheadInv'
  BY <1>2, <1>5 DEF AheadInv
<1>7. NoSilentGap'
  BY <1>1, <1>2 DEF NoSilentGap, Coming
<1> QED
  BY <1>2, <1>3, <1>4, <1>6, <1>7

LEMMA StreamStart == StreamInit => StreamInv
<1> SUFFICES ASSUME StreamInit PROVE StreamInv
  OBVIOUS
<1> USE DEF StreamInit
<1>1. StreamShape
  <2>1. queue \in Seq(Nat) /\ ring \in Seq(Nat)
    OBVIOUS
  <2>2. NoId \in NoId .. top /\ top \in Nat /\ first \in Nat \ {0} /\ replayed \in 0 .. top
    BY DEF NoId
  <2> QED
    BY <2>1, <2>2 DEF StreamShape
<1>2. ~Resyncs /\ Len(queue) = 0 /\ Len(ring) = 0
  BY NothingQueued DEF Resyncs
<1>3. Stale = {}
  BY DEF Stale
<1> QED
  BY <1>1, <1>2, <1>3
     DEF StreamInv, QueueInv, ConnInv, ReplayInv, RingInv, AheadInv, OrderInv, NoSilentGap, Unseen

LEMMA StreamStep == StreamAssumption /\ StreamInv /\ [StreamNext]_streamVars => StreamInv'
<1> SUFFICES ASSUME StreamAssumption, StreamInv, [StreamNext]_streamVars
             PROVE  StreamInv'
  OBVIOUS
<1>1. CASE Publish
  BY <1>1, PublishStep
<1>2. CASE Subscribe
  BY <1>2, SubscribeStep
<1>3. CASE CheckOldest
  BY <1>3, CheckOldestStep
<1>4. CASE Replay
  BY <1>4, ReplayStep
<1>5. CASE Send
  BY <1>5, SendStep
<1>6. CASE Broadcast
  BY <1>6, BroadcastStep
<1>7. CASE Deliver
  BY <1>7, DeliverStep
<1>8. CASE Refetch
  BY <1>8, RefetchStep
<1>9. CASE ReplayFails
  BY <1>9, ReplayFailsStep
<1>10. CASE Disconnect
  BY <1>10, DisconnectStep
<1>11. CASE Offline
  BY <1>11, OfflineStep
<1>12. CASE Restart
  BY <1>12, RestartStep
<1>13. CASE UNCHANGED streamVars
  BY <1>13 DEF streamVars, stream, server, browser, StreamInv, StreamShape, QueueInv, ConnInv,
               ReplayInv, RingInv, AheadInv, OrderInv, NoSilentGap, Coming, Unseen, Stale, Resyncs
<1> QED
  BY <1>1, <1>2, <1>3, <1>4, <1>5, <1>6, <1>7, <1>8, <1>9, <1>10, <1>11, <1>12, <1>13
     DEF StreamNext, Delivery, Failure

LEMMA StreamInvariant == ASSUME StreamAssumption PROVE StreamSpec => []StreamInv
BY StreamStart, StreamStep, PTL DEF StreamSpec

(* No change of the stream stays unnoticed by the browser: it is shown,    *)
(* about to be refetched, on its way, or lost for a recorded cause.        *)
THEOREM GapsAreRecorded == ASSUME StreamAssumption PROVE StreamSpec => []NoSilentGap
<1>1. StreamInv => NoSilentGap
  BY DEF StreamInv
<1> QED
  BY <1>1, StreamInvariant, PTL

LEMMA ForwardStep ==
  StreamInv /\ [StreamNext]_streamVars =>
    [\/ lastId' >= lastId \/ lastId' \in {NoId, Resync}
     \/ replayed = 0 /\ lastId' < from]_streamVars
<1> SUFFICES ASSUME StreamInv, StreamNext
             PROVE  \/ lastId' >= lastId \/ lastId' \in {NoId, Resync}
                    \/ replayed = 0 /\ lastId' < from
  OBVIOUS
<1>1. lastId \in Int /\ from \in Int /\ head \in Int /\ queue \in Seq(Nat) /\ replayed \in Nat
  BY DEF StreamInv, StreamShape, NoId
<1>2. CASE lastId' = lastId
  BY <1>1, <1>2
<1>3. CASE CheckOldest
  <2>1. from = lastId
    BY <1>3 DEF CheckOldest, StreamInv, ReplayInv
  <2>2. CASE Entries # {} /\ from < first
    BY <1>1, <1>3, <2>1, <2>2 DEF CheckOldest, ReceiveResync, StreamInv, StreamShape
  <2>3. CASE ~(Entries # {} /\ from < first)
    BY <1>2, <1>3, <2>3 DEF CheckOldest, browser
  <2> QED
    BY <2>2, <2>3
<1>4. CASE Send
  <2>1. CASE sending = {}
    BY <1>2, <1>4, <2>1 DEF Send, browser
  <2>2. CASE sending # {}
    <3>1. sending \in SUBSET Nat
      BY DEF StreamInv, StreamShape
    <3>2. Min(sending) \in sending /\ Min(sending) \in Nat
      BY <2>2, <3>1, MinIsLeast
    <3>3. lastId' = Min(sending)
      BY <1>4, <2>2 DEF Send, Receive
    <3>4. Min(sending) > lastId
      BY <1>4, <3>2 DEF Send, StreamInv, ReplayInv
    <3> QED
      BY <1>1, <3>2, <3>3, <3>4
  <2> QED
    BY <2>1, <2>2
<1>5. CASE Deliver
  <2>1. Len(queue) \in Nat \ {0} /\ Head(queue) = queue[1] /\ queue[1] \in Nat
    BY <1>1, <1>5, EmptySeq DEF Deliver
  <2>2. CASE queue[1] = Resync
    BY <1>5, <2>1, <2>2 DEF Deliver, ReceiveResync, Resync
  <2>3. CASE queue[1] # Resync /\ queue[1] <= replayed
    BY <1>2, <1>5, <2>1, <2>3 DEF Deliver, browser
  <2>4. CASE queue[1] # Resync /\ ~(queue[1] <= replayed)
    <3>1. lastId' = queue[1] /\ conn = "live"
      BY <1>5, <2>1, <2>4 DEF Deliver, Receive
    <3>2. \/ lastId = IF replayed = 0 THEN from ELSE replayed
          \/ queue[1] > lastId
      BY <2>1, <2>4, <3>1 DEF StreamInv, OrderInv
    <3> QED
      BY <1>1, <2>1, <2>4, <3>1, <3>2
  <2> QED
    BY <2>2, <2>3, <2>4
<1>6. CASE Offline
  BY <1>6 DEF Offline
<1>7. CASE Publish \/ Subscribe \/ Replay \/ Broadcast \/ ReplayFails \/ Disconnect \/ Restart \/ Refetch
  BY <1>2, <1>7 DEF Publish, Subscribe, Replay, Broadcast, ReplayFails, Disconnect, Restart, Refetch, browser
<1> QED
  BY <1>3, <1>4, <1>5, <1>6, <1>7 DEF StreamNext, Delivery, Failure

(* The Last-Event-ID of the browser moves forward, but for a resync, an    *)
(* offline browser, and a connection that replayed nothing.                *)
THEOREM IdsMoveForward == ASSUME StreamAssumption PROVE StreamSpec => OnlyForward
<1>1. StreamSpec => []StreamInv /\ [][StreamNext]_streamVars
  BY StreamInvariant, PTL DEF StreamSpec
<1> QED
  BY <1>1, ForwardStep, PTL DEF OnlyForward
-----------------------------------------------------------------------------
\* What the server and the browser keep for a connection is bounded.
StreamLimits ==
  /\ top <= MaxEvents
  /\ Len(queue) <= QueueLimit /\ Len(ring) <= RingLimit
  /\ missed \subseteq 1 .. top
  /\ streamFaults \in 0 .. MaxStreamFaults

LEMMA RingBound ==
  ASSUME StreamAssumption, StreamShape, Len(ring) <= RingLimit, NEW id \in Nat, Remember(id)
  PROVE  Len(ring') <= RingLimit
<1>1. ring \in Seq(Nat) /\ Len(ring) \in Nat /\ RingLimit \in Nat \ {0}
  BY DEF StreamAssumption, StreamShape
<1>2. CASE Len(ring) < RingLimit
  <2>1. Len(ring') = Len(ring) + 1
    BY <1>1, <1>2 DEF Remember
  <2> QED
    BY <1>1, <1>2, <2>1
<1>3. CASE ~(Len(ring) < RingLimit)
  <2>1. ring # <<>>
    BY <1>1, <1>3
  <2>2. Tail(ring) \in Seq(Nat) /\ Len(Tail(ring)) = Len(ring) - 1
    BY <1>1, <2>1, HeadTailProperties
  <2>3. Len(ring') = Len(Tail(ring)) + 1
    BY <1>3, <2>2 DEF Remember
  <2> QED
    BY <1>1, <2>2, <2>3
<1> QED
  BY <1>2, <1>3

LEMMA ReceiveBound ==
  ASSUME StreamAssumption, StreamShape, Len(ring) <= RingLimit, NEW id \in Nat,
         Receive(id) \/ ReceiveResync(id)
  PROVE  Len(ring') <= RingLimit
<1>1. UNCHANGED ring \/ Remember(id) \/ Remember(Resync)
  BY DEF Receive, ReceiveResync
<1>2. Resync \in Nat
  BY DEF Resync
<1> QED
  BY <1>1, <1>2, RingBound

\* A full queue makes room for its Resync.
LEMMA OfferBound ==
  ASSUME StreamAssumption, queue \in Seq(Nat), Len(queue) <= QueueLimit,
         NEW s \in Seq(Nat), Offer(s)
  PROVE  Len(queue') <= QueueLimit
<1> DEFINE all == queue \o s
           kept == SubSeq(all, 1, QueueLimit)
<1>1. all \in Seq(Nat) /\ Len(all) \in Nat /\ QueueLimit \in Nat \ {0}
  BY DEF StreamAssumption
<1>2. CASE Len(all) <= QueueLimit
  BY <1>2 DEF Offer
<1>3. CASE ~(Len(all) <= QueueLimit)
  <2>1. queue' = Append(Tail(kept), Resync)
    BY <1>3 DEF Offer
  <2> HIDE DEF all
  <2>2. kept \in Seq(Nat) /\ Len(kept) = QueueLimit
    BY <1>1, <1>3, SubSeqProperties
  <2> HIDE DEF kept
  <2>3. kept # <<>>
    BY <1>1, <2>2
  <2>4. Tail(kept) \in Seq(Nat) /\ Len(Tail(kept)) = QueueLimit - 1
    BY <2>2, <2>3, HeadTailProperties
  <2>5. Len(queue') = QueueLimit - 1 + 1
    BY <2>1, <2>4
  <2> QED
    BY <1>1, <2>5
<1> QED
  BY <1>2, <1>3

LEMMA LimitsKept ==
  ASSUME StreamAssumption, StreamInv, StreamInv', StreamLimits, [StreamNext]_streamVars
  PROVE  StreamLimits'
<1> USE DEF StreamLimits
<1>1. /\ top \in Nat /\ top' \in Nat /\ queue \in Seq(Nat) /\ Len(queue) \in Nat
      /\ fresh \subseteq 1 .. top /\ due \subseteq 1 .. top
      /\ head \in NoId .. top /\ lastId \in NoId .. top /\ sending \subseteq 1 .. top
      /\ first \in Nat
  <2>1. StreamShape /\ StreamShape'
    BY DEF StreamInv
  <2>2. top' \in Nat
    BY <2>1 DEF StreamShape
  <2>3. queue \in Seq(Nat) /\ Len(queue) \in Nat
    BY <2>1 DEF StreamShape
  <2> QED
    BY <2>1, <2>2, <2>3 DEF StreamShape
<1>2. {MaxEvents, MaxStreamFaults} \subseteq Nat /\ QueueLimit \in Nat \ {0}
  BY DEF StreamAssumption
<1>3. Stale \subseteq 1 .. top
  BY DEF Stale
<1>4. StreamFault => streamFaults' \in 0 .. MaxStreamFaults
  BY <1>2 DEF StreamFault
<1>5. Len(<<>>) <= QueueLimit
  BY <1>2
<1>6. Hangup => Len(queue') <= QueueLimit
  BY <1>5 DEF Hangup
<1>7. Unsaid \subseteq 1 .. top
  BY <1>3 DEF Unsaid
<1>8. GoLive => missed' \subseteq 1 .. top
  BY <1>3 DEF GoLive
<1>9. CASE Publish
  <2>1. top' = top + 1 /\ top < MaxEvents
    BY <1>9 DEF Publish
  <2>2. 1 .. top \subseteq 1 .. top' /\ top' <= MaxEvents
    BY <1>1, <1>2, <2>1
  <2>3. UNCHANGED <<queue, ring, missed, streamFaults>>
    BY <1>9 DEF Publish, server, browser
  <2> QED
    BY <2>2, <2>3
<1>10. CASE Subscribe
  <2>1. UNCHANGED <<top, ring>> /\ queue' = <<>>
    BY <1>10 DEF Subscribe, stream, browser
  <2>2. streamFaults' \in 0 .. MaxStreamFaults
    BY <1>4, <1>10 DEF Subscribe, StartHead
  <2>3. missed' \subseteq 1 .. top
    BY <1>3, <1>10 DEF Subscribe
  <2> QED
    BY <1>5, <2>1, <2>2, <2>3
<1>11. CASE CheckOldest
  <2>1. UNCHANGED <<top, queue, missed, streamFaults>>
    BY <1>11 DEF CheckOldest, stream
  <2>2. Len(ring') <= RingLimit
    BY <1>1, <1>11, ReceiveBound DEF CheckOldest, browser, StreamInv
  <2> QED
    BY <2>1, <2>2
<1>12. CASE Replay
  <2>1. UNCHANGED <<top, queue, ring, streamFaults>>
    BY <1>12 DEF Replay, stream, browser
  <2>2. missed' \subseteq 1 .. top
    BY <1>3, <1>12 DEF Replay
  <2> QED
    BY <2>1, <2>2
<1>13. CASE Send
  <2>1. UNCHANGED <<top, queue, streamFaults>>
    BY <1>13 DEF Send, stream
  <2>2. missed' \subseteq 1 .. top
    BY <1>8, <1>13 DEF Send
  <2>3. Len(ring') <= RingLimit
    <3>1. replayed' \in Nat
      BY <1>1 DEF StreamInv, StreamShape
    <3> QED
      BY <1>13, <3>1, ReceiveBound DEF Send, browser, StreamInv
  <2> QED
    BY <2>1, <2>2, <2>3
<1>14. CASE Broadcast
  <2>1. UNCHANGED <<top, ring, streamFaults>>
    BY <1>14 DEF Broadcast, stream, browser
  <2>2. missed' \subseteq 1 .. top
    BY <1>3, <1>14 DEF Broadcast
  <2>3. Len(queue') <= QueueLimit
    <3>1. CASE ~subscribed
      BY <1>14, <3>1 DEF Broadcast
    <3>2. CASE subscribed
      <4> DEFINE lo == Max({head + 1, first})
                 hi == Min({top, lo + ReadBatch - 1})
      <4>1. Offer(Run(lo, hi)) /\ head # NoId /\ head < top
        BY <1>14, <3>2 DEF Broadcast
      <4>2. lo \in Nat /\ hi \in Nat /\ lo <= hi
        BY <4>1, ReadBounds DEF StreamInv
      <4> HIDE DEF lo, hi
      <4>3. Run(lo, hi) \in Seq(Nat)
        BY <4>2, RunIsSeq
      <4> QED
        BY <1>1, <4>1, <4>3, OfferBound
    <3> QED
      BY <3>1, <3>2
  <2> QED
    BY <2>1, <2>2, <2>3
<1>15. CASE Deliver
  <2>1. UNCHANGED <<top, missed, streamFaults>>
    BY <1>15 DEF Deliver, stream
  <2>2. Len(queue') <= QueueLimit
    <3>1. Len(Tail(queue)) = Len(queue) - 1
      BY <1>1, <1>15, HeadTailProperties DEF Deliver
    <3> QED
      BY <1>1, <1>2, <1>6, <1>15, <3>1 DEF Deliver
  <2>3. Len(ring') <= RingLimit
    <3>1. Head(queue) \in Nat /\ 0 \in Nat
      BY <1>1, <1>15, HeadTailProperties DEF Deliver
    <3> QED
      BY <1>15, <3>1, ReceiveBound DEF Deliver, browser, StreamInv
  <2> QED
    BY <2>1, <2>2, <2>3
<1>16. CASE Refetch
  BY <1>16 DEF Refetch, stream, server
<1>17. CASE ReplayFails
  BY <1>4, <1>8, <1>17 DEF ReplayFails, stream, browser
<1>18. CASE Disconnect
  BY <1>4, <1>6, <1>7, <1>18 DEF Disconnect, stream, browser
<1>19. CASE Offline
  BY <1>1, <1>4, <1>6, <1>19 DEF Offline, stream
<1>20. CASE Restart
  BY <1>4, <1>6, <1>7, <1>20 DEF Restart, stream, browser
<1>21. CASE UNCHANGED streamVars
  BY <1>21 DEF streamVars, stream, server, browser
<1> QED
  BY <1>9, <1>10, <1>11, <1>12, <1>13, <1>14, <1>15, <1>16, <1>17, <1>18, <1>19, <1>20, <1>21
     DEF StreamNext, Delivery, Failure

(* A reader that is slow, or many events, cost the server no more than a   *)
(* full queue and the browser no more than a full ring of ids, and every   *)
(* variable of the stream and of the connection keeps its type.            *)
THEOREM StreamIsBounded == ASSUME StreamAssumption PROVE StreamSpec => []StreamTypeOK
<1>1. StreamInit => StreamLimits
  <2>1. {MaxEvents, MaxStreamFaults} \subseteq Nat /\ {QueueLimit, RingLimit} \subseteq Nat
    BY DEF StreamAssumption
  <2> QED
    BY <2>1 DEF StreamInit, StreamLimits
<1>2. StreamInv /\ StreamInv' /\ StreamLimits /\ [StreamNext]_streamVars => StreamLimits'
  BY LimitsKept
<1>3. StreamInv /\ StreamLimits => StreamTypeOK
  <2> SUFFICES ASSUME StreamInv, StreamLimits
               PROVE  StreamTypeOK
    OBVIOUS
  <2>1. StreamShape
    BY DEF StreamInv
  <2>2. MaxEvents \in Nat /\ top \in Nat
    BY <2>1 DEF StreamAssumption, StreamShape
  <2>3. queue \in Seq(0 .. top)
    <3>1. queue \in Seq(Nat) /\ \A i \in 1 .. Len(queue) : queue[i] \in 0 .. top
      <4>1. \A i \in 1 .. Len(queue) : queue[i] \in Nat /\ queue[i] <= head
        BY <2>1 DEF StreamInv, StreamShape, QueueInv
      <4>2. head \in Int /\ head <= top
        BY <2>1, <2>2 DEF StreamShape, NoId
      <4> QED
        BY <2>1, <2>2, <4>1, <4>2 DEF StreamShape
    <3>2. queue \in [1 .. Len(queue) -> 0 .. top] /\ Len(queue) \in Nat
      BY <3>1, LenProperties
    <3> QED
      BY <3>2, SeqDef, Zenon
  <2>4. ring \in Seq(0 .. top)
    <3>1. ring \in Seq(Nat) /\ \A i \in 1 .. Len(ring) : ring[i] \in 0 .. top
      BY <2>1, <2>2 DEF StreamInv, StreamShape, RingInv, Resync
    <3>2. ring \in [1 .. Len(ring) -> 0 .. top] /\ Len(ring) \in Nat
      BY <3>1, LenProperties
    <3> QED
      BY <3>2, SeqDef, Zenon
  <2>5. first \in 1 .. top + 1 /\ top \in 0 .. MaxEvents
    BY <2>1, <2>2 DEF StreamShape, StreamLimits
  <2> QED
    BY <2>1, <2>3, <2>4, <2>5 DEF StreamTypeOK, StreamShape, StreamLimits
<1> QED
  BY <1>1, <1>2, <1>3, StreamInvariant, PTL DEF StreamSpec

-----------------------------------------------------------------------------
PoolStates == {"idle", "wait", "connect", "reply", "closing"}
Ledger == [Conns -> Seq(Tasks \X Nat)]

ConnShape ==
  /\ pool \in Seq(Conns) /\ pc \in [Tasks -> PoolStates] /\ owed \in Ledger
  /\ held \in [Tasks -> Conns \cup {Nobody}] /\ issued \in [Tasks -> Nat]
  /\ abandoned \in SUBSET Conns

BookShape ==
  /\ queueId \in Nat /\ queues \in Nat /\ created \in Int /\ created <= PoolSize
  /\ shut \in Nat /\ leaked \in Nat /\ closes \in Nat

\* A connection is idle once or used by one task, which awaits a reply.
UseInv ==
  /\ IsInjective(pool)
  /\ \A t \in Tasks : held[t] # Nobody <=> pc[t] = "reply"
  /\ \A t \in Tasks : held[t] \notin Idle
  /\ \A t, u \in Tasks : held[t] = held[u] /\ held[t] # Nobody => t = u

\* What a connection owes: nothing when closed, nothing when idle, and the
\* reply its user awaits when it is used, unless it was abandoned.
OwedInv ==
  /\ \A c \in Conns : c \notin Idle /\ (\A t \in Tasks : held[t] # c) => owed[c] = <<>>
  /\ \A c \in Idle : c \in abandoned \/ owed[c] = <<>>
  /\ \A t \in Tasks : held[t] # Nobody =>
       owed[held[t]] # <<>> /\ (held[t] \in abandoned \/ owed[held[t]] = <<Current(t)>>)

ConnsInv == ConnShape /\ UseInv /\ OwedInv

\* Until the pool is closed the counter is off by what cancellations lost.
CountInv ==
  closes = 0 =>
    /\ created = Len(pool) + Cardinality(Serving) + shut + leaked
    /\ queueId = 0 => pool = <<>> /\ created = 0

PoolInv == ConnsInv /\ BookShape /\ CountInv

LEMMA ConnsAreNumbers == ASSUME PoolAssumption PROVE Conns \subseteq Nat /\ Nobody \notin Conns
<1>1. PoolSize \in Nat /\ MaxPoolFaults \in Nat /\ Cardinality(Tasks) \in Nat
  BY FS_CardinalityType DEF PoolAssumption
<1>2. MaxPoolFaults * Cardinality(Tasks) \in Nat
  BY <1>1
<1> QED
  BY <1>1, <1>2 DEF Conns, Nobody

LEMMA PoolInvImplies == ASSUME PoolAssumption, PoolInv PROVE ConnectionsAccounted /\ OwnReply
<1> USE DEF PoolInv, ConnsInv
<1>1. Idle \cap InUse = {}
  BY DEF UseInv, InUse
<1>2. ConnectionsAccounted
  BY <1>1 DEF ConnectionsAccounted, UseInv, CountInv, BookShape
<1>3. Nobody \notin Conns
  BY ConnsAreNumbers
<1>4. OwnReply
  BY <1>3 DEF OwnReply, OwedInv
<1> QED
  BY <1>2, <1>4

-----------------------------------------------------------------------------
LEMMA Popped ==
  ASSUME NEW S, NEW q \in Seq(S), q # <<>>, IsInjective(q)
  PROVE  /\ Head(q) \in S /\ Tail(q) \in Seq(S) /\ Len(Tail(q)) = Len(q) - 1
         /\ IsInjective(Tail(q)) /\ Head(q) \in Range(q)
         /\ \A x : x \in Range(Tail(q)) <=> x \in Range(q) /\ x # Head(q)
<1>1. Len(q) \in Nat \ {0} /\ Head(q) = q[1]
  BY EmptySeq
<1>2. /\ Head(q) \in S /\ Tail(q) \in Seq(S) /\ Len(Tail(q)) = Len(q) - 1
      /\ \A i \in 1 .. Len(q) - 1 : i + 1 \in 1 .. Len(q) /\ Tail(q)[i] = q[i + 1]
  BY <1>1, HeadTailProperties
<1>3. \A i, j \in 1 .. Len(q) : q[i] = q[j] => i = j
  BY DEF IsInjective
<1> DEFINE r == Tail(q)
<1>4. /\ r \in Seq(S) /\ Len(r) = Len(q) - 1 /\ DOMAIN r = 1 .. Len(r)
      /\ \A i \in 1 .. Len(r) : i + 1 \in 1 .. Len(q) /\ r[i] = q[i + 1]
  BY <1>2
<1> HIDE DEF r
<1>5. \A i, j \in 1 .. Len(r) : r[i] = r[j] => i = j
  <2> SUFFICES ASSUME NEW i \in 1 .. Len(r), NEW j \in 1 .. Len(r), r[i] = r[j]
               PROVE  i = j
    OBVIOUS
  <2>1. i + 1 = j + 1
    BY <1>3, <1>4
  <2> QED
    BY <2>1
<1>6. IsInjective(r)
  BY <1>4, <1>5 DEF IsInjective
<1>7. q[1] \in Range(q)
  BY <1>1, InRange
<1>8. \A x : x \in Range(r) => x \in Range(q) /\ x # q[1]
  <2> SUFFICES ASSUME NEW x \in Range(r)
               PROVE  x \in Range(q) /\ x # q[1]
    OBVIOUS
  <2>1. PICK i \in 1 .. Len(r) : r[i] = x
    BY <1>4, InRange
  <2>2. i + 1 \in 1 .. Len(q) /\ q[i + 1] = x /\ i + 1 # 1 /\ 1 \in 1 .. Len(q)
    BY <1>1, <1>4, <2>1
  <2> QED
    BY <1>3, <2>2, InRange
<1>9. \A x : x \in Range(q) /\ x # q[1] => x \in Range(r)
  <2> SUFFICES ASSUME NEW x \in Range(q), x # q[1]
               PROVE  x \in Range(r)
    OBVIOUS
  <2>1. PICK i \in 1 .. Len(q) : q[i] = x
    BY InRange
  <2>2. i - 1 \in 1 .. Len(r) /\ (i - 1) + 1 = i
    BY <1>1, <1>4, <2>1
  <2>3. r[i - 1] = x
    BY <1>4, <2>1, <2>2
  <2> QED
    BY <1>4, <2>2, <2>3, InRange
<1> QED
  BY <1>1, <1>2, <1>6, <1>7, <1>8, <1>9 DEF r

LEMMA Pushed ==
  ASSUME NEW S, NEW q \in Seq(S), NEW c \in S, IsInjective(q), c \notin Range(q)
  PROVE  /\ Append(q, c) \in Seq(S) /\ Len(Append(q, c)) = Len(q) + 1
         /\ IsInjective(Append(q, c))
         /\ \A x : x \in Range(Append(q, c)) <=> x \in Range(q) \/ x = c
<1> DEFINE r == Append(q, c)
<1>1. /\ r \in Seq(S) /\ Len(r) = Len(q) + 1 /\ DOMAIN r = 1 .. Len(q) + 1 /\ Len(q) \in Nat
      /\ \A i \in 1 .. Len(q) : r[i] = q[i]
      /\ r[Len(q) + 1] = c
  OBVIOUS
<1> HIDE DEF r
<1>2. \A i \in 1 .. Len(q) : q[i] # c
  BY InRange
<1>3. \A i, j \in 1 .. Len(q) : q[i] = q[j] => i = j
  BY DEF IsInjective
<1>4. \A i \in 1 .. Len(q) + 1 : i \in 1 .. Len(q) \/ i = Len(q) + 1
  BY <1>1
<1>5. IsInjective(r)
  BY <1>1, <1>2, <1>3, <1>4 DEF IsInjective
<1>6. \A x : x \in Range(r) <=> \E i \in 1 .. Len(q) + 1 : r[i] = x
  BY <1>1, InRange
<1>7. \A x : x \in Range(q) <=> \E i \in 1 .. Len(q) : q[i] = x
  BY InRange
<1>8. \A x : x \in Range(r) <=> x \in Range(q) \/ x = c
  <2>1. \A x : x \in Range(r) => x \in Range(q) \/ x = c
    BY <1>1, <1>4, <1>6, <1>7
  <2>2. \A x : x \in Range(q) => x \in Range(r)
    BY <1>1, <1>6, <1>7
  <2>3. c \in Range(r)
    BY <1>1, <1>6
  <2> QED
    BY <2>1, <2>2, <2>3
<1> QED
  BY <1>1, <1>5, <1>8 DEF r

\* How the number of tasks that make, use or close a connection changes.
Busy == {"connect", "reply", "closing"}

LEMMA Counted ==
  ASSUME PoolAssumption, ConnShape, NEW t \in Tasks, NEW to, pc' = [pc EXCEPT ![t] = to]
  PROVE  /\ Cardinality(Serving) \in Nat
         /\ pc[t] \notin Busy /\ to \in Busy => Cardinality(Serving') = Cardinality(Serving) + 1
         /\ pc[t] \in Busy /\ to \notin Busy =>
              Cardinality(Serving) >= 1 /\ Cardinality(Serving') = Cardinality(Serving) - 1
         /\ (pc[t] \in Busy <=> to \in Busy) => Cardinality(Serving') = Cardinality(Serving)
<1>1. IsFiniteSet(Tasks) /\ pc \in [Tasks -> PoolStates]
  BY DEF PoolAssumption, ConnShape
<1>2. \A u \in Tasks : pc'[u] = IF u = t THEN to ELSE pc[u]
  BY <1>1
<1>3. IsFiniteSet(Serving)
  BY <1>1, FS_Subset DEF Serving
<1>4. Cardinality(Serving) \in Nat
  BY <1>3, FS_CardinalityType
<1>5. CASE pc[t] \notin Busy /\ to \in Busy
  <2>1. Serving' = Serving \cup {t} /\ t \notin Serving
    BY <1>2, <1>5 DEF Serving, Busy
  <2> QED
    BY <1>3, <1>4, <1>5, <2>1, FS_AddElement
<1>6. CASE pc[t] \in Busy /\ to \notin Busy
  <2>1. Serving' = Serving \ {t} /\ t \in Serving
    BY <1>2, <1>6 DEF Serving, Busy
  <2>2. Cardinality(Serving') = Cardinality(Serving) - 1
    BY <1>3, <2>1, FS_RemoveElement
  <2>3. Cardinality(Serving') \in Nat
    BY <1>3, <2>1, FS_RemoveElement, FS_CardinalityType
  <2> QED
    BY <1>4, <1>6, <2>2, <2>3
<1>7. CASE pc[t] \in Busy <=> to \in Busy
  <2>1. Serving' = Serving
    BY <1>2, <1>7 DEF Serving, Busy
  <2> QED
    BY <1>4, <1>7, <2>1
<1> QED
  BY <1>4, <1>5, <1>6, <1>7

\* A task sends a command on a connection that is idle or new.
LEMMA Sent ==
  ASSUME PoolAssumption, ConnsInv, NEW t \in Tasks, NEW c \in Conns, pc[t] # "reply", SendOn(t, c),
         pool' \in Seq(Conns), IsInjective(pool'),
         \A x : x \in Idle' <=> x \in Idle /\ x # c,
         \A u \in Tasks : held[u] # c,
         c \in abandoned \/ owed[c] = <<>>,
         abandoned' = abandoned, issued' \in [Tasks -> Nat],
         \A u \in Tasks : u # t => issued'[u] = issued[u]
  PROVE  ConnsInv'
<1> USE DEF ConnsInv
<1>1. Nobody \notin Conns
  BY ConnsAreNumbers
<1>2. /\ pc \in [Tasks -> PoolStates] /\ owed \in Ledger
      /\ held \in [Tasks -> Conns \cup {Nobody}] /\ issued'[t] \in Nat
  BY DEF ConnShape
<1>3. /\ pc' = [pc EXCEPT ![t] = "reply"] /\ held' = [held EXCEPT ![t] = c]
      /\ owed' = [owed EXCEPT ![c] = Append(owed[c], <<t, issued'[t]>>)]
  BY DEF SendOn
<1>4. \A u \in Tasks : held'[u] = (IF u = t THEN c ELSE held[u])
                       /\ pc'[u] = IF u = t THEN "reply" ELSE pc[u]
  BY <1>2, <1>3
<1>5. owed[c] \in Seq(Tasks \X Nat) /\ <<t, issued'[t]>> \in Tasks \X Nat
  BY <1>2 DEF Ledger
<1> DEFINE new == Append(owed[c], <<t, issued'[t]>>)
<1>6. new \in Seq(Tasks \X Nat) /\ new # <<>> /\ (owed[c] = <<>> => new = <<<<t, issued'[t]>>>>)
  <2>1. new \in Seq(Tasks \X Nat) /\ Len(new) = Len(owed[c]) + 1 /\ Len(owed[c]) \in Nat
    BY <1>5, AppendProperties
  <2>2. Len(<<>>) = 0
    OBVIOUS
  <2>3. new # <<>>
    BY <2>1, <2>2
  <2>4. owed[c] = <<>> => new = <<<<t, issued'[t]>>>>
    OBVIOUS
  <2> QED
    BY <2>1, <2>3, <2>4
<1>7. \A d \in Conns : owed'[d] = IF d = c THEN new ELSE owed[d]
  BY <1>2, <1>3 DEF Ledger
<1> HIDE DEF new
<1>8. owed' \in Ledger
  BY <1>2, <1>3, <1>6 DEF Ledger, new
<1>9. ConnShape'
  BY <1>2, <1>3, <1>8 DEF ConnShape, PoolStates
<1>10. UseInv'
  <2>1. \A u \in Tasks : held'[u] # Nobody <=> pc'[u] = "reply"
    BY <1>1, <1>4 DEF UseInv
  <2>2. \A u \in Tasks : held'[u] \notin Idle'
    BY <1>4 DEF UseInv
  <2>3. \A u, v \in Tasks : held'[u] = held'[v] /\ held'[u] # Nobody => u = v
    BY <1>4 DEF UseInv
  <2> QED
    BY <2>1, <2>2, <2>3 DEF UseInv
<1>11. Current(t)' = <<t, issued'[t]>> /\ \A u \in Tasks : u # t => Current(u)' = Current(u)
  BY DEF Current
<1>12. OwedInv'
  <2>1. \A d \in Conns : d \notin Idle' /\ (\A u \in Tasks : held'[u] # d) => owed'[d] = <<>>
    <3> SUFFICES ASSUME NEW d \in Conns, d \notin Idle', \A u \in Tasks : held'[u] # d
                 PROVE  owed'[d] = <<>>
      OBVIOUS
    <3>1. d # c
      BY <1>4
    <3>2. \A u \in Tasks : held[u] # d
      BY <1>1, <1>4 DEF UseInv
    <3> QED
      BY <1>7, <3>1, <3>2 DEF OwedInv
  <2>2. \A d \in Idle' : d \in abandoned' \/ owed'[d] = <<>>
    <3>1. \A d \in Idle' : d \in Conns
      BY RangeOfSeq DEF Idle
    <3> QED
      BY <1>7, <3>1 DEF OwedInv
  <2>3. \A u \in Tasks : held'[u] # Nobody =>
          owed'[held'[u]] # <<>> /\ (held'[u] \in abandoned' \/ owed'[held'[u]] = <<Current(u)'>>)
    <3> SUFFICES ASSUME NEW u \in Tasks, held'[u] # Nobody
                 PROVE  owed'[held'[u]] # <<>> /\ (held'[u] \in abandoned' \/ owed'[held'[u]] = <<Current(u)'>>)
      OBVIOUS
    <3>1. CASE u = t
      BY <1>4, <1>6, <1>7, <1>11, <3>1
    <3>2. CASE u # t
      <4>1. held'[u] = held[u] /\ held[u] \in Conns /\ held[u] # c
        BY <1>2, <1>4, <3>2
      <4>2. owed'[held[u]] = owed[held[u]]
        BY <1>7, <4>1
      <4> QED
        BY <1>11, <3>2, <4>1, <4>2 DEF OwedInv
    <3> QED
      BY <3>1, <3>2
  <2> QED
    BY <2>1, <2>2, <2>3 DEF OwedInv
<1> QED
  BY <1>9, <1>10, <1>12

\* A task lets go of its connection, which is put back or closed.
LEMMA LetGo ==
  ASSUME PoolAssumption, ConnsInv, NEW t \in Tasks, pc[t] = "reply", NEW to \in PoolStates \ {"reply"},
         NEW o \in Ledger, \A d \in Conns : d # held[t] => o[d] = owed[d],
         NEW cs \in SUBSET Conns, abandoned \subseteq cs, \A d \in cs : d \in abandoned \/ d = held[t],
         o[held[t]] = <<>> \/ held[t] \in cs,
         pc' = [pc EXCEPT ![t] = to], held' = [held EXCEPT ![t] = Nobody], issued' = issued,
         \/ pool' = pool /\ owed' = [o EXCEPT ![held[t]] = <<>>]
         \/ pool' = Append(pool, held[t]) /\ owed' = o,
         Kept(cs)
  PROVE  ConnsInv'
<1> USE DEF ConnsInv
<1> DEFINE c == held[t]
<1>1. Nobody \notin Conns
  BY ConnsAreNumbers
<1>2. /\ pool \in Seq(Conns) /\ pc \in [Tasks -> PoolStates] /\ owed \in Ledger
      /\ held \in [Tasks -> Conns \cup {Nobody}] /\ issued \in [Tasks -> Nat]
  BY DEF ConnShape
<1>3. c \in Conns /\ c # Nobody /\ c \notin Idle /\ \A u \in Tasks : u # t => held[u] # c
  BY <1>1, <1>2 DEF UseInv
<1>4. \A u \in Tasks : held'[u] = (IF u = t THEN Nobody ELSE held[u])
                       /\ pc'[u] = IF u = t THEN to ELSE pc[u]
  BY <1>2
<1> HIDE DEF c
<1>5. \/ pool' = pool /\ owed' = [o EXCEPT ![c] = <<>>]
      \/ pool' = Append(pool, c) /\ owed' = o
  BY DEF c
<1>6. \A d \in Conns : d # c => owed'[d] = owed[d]
  BY <1>5 DEF c, Ledger
<1>7. /\ owed' \in Ledger /\ pool' \in Seq(Conns) /\ IsInjective(pool')
      /\ \A x : x \in Idle' => x \in Idle \/ x = c
      /\ \A x : x \in Idle => x \in Idle'
      /\ c \notin Idle' => owed'[c] = <<>>
      /\ owed'[c] = <<>> \/ c \in cs
  <2>1. CASE pool' = pool /\ owed' = [o EXCEPT ![c] = <<>>]
    <3>1. owed' \in Ledger /\ owed'[c] = <<>>
      BY <1>3, <2>1 DEF Ledger
    <3>2. Idle' = Idle
      BY <2>1 DEF Idle
    <3> QED
      BY <1>2, <2>1, <3>1, <3>2 DEF UseInv
  <2>2. CASE pool' = Append(pool, c) /\ owed' = o
    <3>1. IsInjective(pool) /\ c \notin Range(pool)
      BY <1>3 DEF UseInv, Idle
    <3>2. /\ pool' \in Seq(Conns) /\ IsInjective(pool')
          /\ \A x : x \in Range(pool') <=> x \in Range(pool) \/ x = c
      BY <1>2, <1>3, <2>2, <3>1, Pushed
    <3>3. o[c] = <<>> \/ c \in cs
      BY DEF c
    <3> QED
      BY <2>2, <3>2, <3>3 DEF Idle
  <2> QED
    BY <1>5, <2>1, <2>2
<1>8. abandoned' = {d \in cs : owed'[d] # <<>>} /\ abandoned' \in SUBSET Conns
  BY DEF Kept
<1>9. ConnShape'
  <2>1. pc' \in [Tasks -> PoolStates] /\ held' \in [Tasks -> Conns \cup {Nobody}]
    BY <1>2
  <2> QED
    BY <1>2, <1>7, <1>8, <2>1 DEF ConnShape
<1>10. UseInv'
  <2>1. \A u \in Tasks : held'[u] # Nobody <=> pc'[u] = "reply"
    BY <1>4 DEF UseInv
  <2>2. \A u \in Tasks : held'[u] \notin Idle'
    <3>1. \A d \in Idle' : d \in Conns
      BY <1>7, RangeOfSeq DEF Idle
    <3> QED
      BY <1>1, <1>3, <1>4, <1>7, <3>1 DEF UseInv
  <2>3. \A u, v \in Tasks : held'[u] = held'[v] /\ held'[u] # Nobody => u = v
    BY <1>4 DEF UseInv
  <2> QED
    BY <1>7, <2>1, <2>2, <2>3 DEF UseInv
<1>11. OwedInv'
  <2>1. \A d \in Conns : d \notin Idle' /\ (\A u \in Tasks : held'[u] # d) => owed'[d] = <<>>
    <3> SUFFICES ASSUME NEW d \in Conns, d \notin Idle', \A u \in Tasks : held'[u] # d
                 PROVE  owed'[d] = <<>>
      OBVIOUS
    <3>1. CASE d = c
      BY <1>7, <3>1
    <3>2. CASE d # c
      <4>1. \A u \in Tasks : held[u] # d
        BY <1>4, <3>2 DEF c
      <4> QED
        BY <1>6, <1>7, <3>2, <4>1 DEF OwedInv
    <3> QED
      BY <3>1, <3>2
  <2>2. \A d \in Idle' : d \in abandoned' \/ owed'[d] = <<>>
    <3> SUFFICES ASSUME NEW d \in Idle', owed'[d] # <<>>
                 PROVE  d \in cs
      BY <1>8
    <3>1. CASE d = c
      BY <1>7, <3>1
    <3>2. CASE d # c
      <4>1. d \in Conns /\ d \in Idle
        BY <1>7, <3>2, RangeOfSeq DEF Idle
      <4> QED
        BY <1>6, <3>2, <4>1 DEF OwedInv
    <3> QED
      BY <3>1, <3>2
  <2>3. \A u \in Tasks : held'[u] # Nobody =>
          owed'[held'[u]] # <<>> /\ (held'[u] \in abandoned' \/ owed'[held'[u]] = <<Current(u)'>>)
    <3> SUFFICES ASSUME NEW u \in Tasks, held'[u] # Nobody
                 PROVE  owed'[held'[u]] # <<>> /\ (held'[u] \in abandoned' \/ owed'[held'[u]] = <<Current(u)'>>)
      OBVIOUS
    <3>1. u # t /\ held'[u] = held[u] /\ held[u] \in Conns /\ held[u] # c
      BY <1>2, <1>3, <1>4
    <3>2. owed'[held[u]] = owed[held[u]] /\ Current(u)' = Current(u)
      BY <1>6, <3>1 DEF Current
    <3> QED
      BY <1>8, <3>1, <3>2 DEF OwedInv
  <2> QED
    BY <2>1, <2>2, <2>3 DEF OwedInv
<1> QED
  BY <1>9, <1>10, <1>11

\* A step that moves no connection.
LEMMA Unmoved ==
  ASSUME ConnsInv, NEW t \in Tasks, pc[t] # "reply", NEW to \in PoolStates \ {"reply"},
         pc' = [pc EXCEPT ![t] = to], UNCHANGED <<pool, held, owed, abandoned>>,
         issued' \in [Tasks -> Nat], \A u \in Tasks : u # t => issued'[u] = issued[u]
  PROVE  ConnsInv'
<1> USE DEF ConnsInv
<1>1. pc \in [Tasks -> PoolStates] /\ \A u \in Tasks : pc'[u] = IF u = t THEN to ELSE pc[u]
  BY DEF ConnShape
<1>2. ConnShape'
  BY <1>1 DEF ConnShape
<1>3. Idle' = Idle /\ \A u \in Tasks : u # t => Current(u)' = Current(u)
  BY DEF Idle, Current
<1>4. UseInv'
  BY <1>1, <1>3 DEF UseInv
<1>5. held[t] = Nobody
  BY DEF UseInv
<1>6. OwedInv'
  BY <1>3, <1>5 DEF OwedInv
<1> QED
  BY <1>2, <1>4, <1>6

-----------------------------------------------------------------------------
LEMMA AcquireStep ==
  ASSUME PoolAssumption, PoolInv, NEW t \in Tasks, Acquire(t)
  PROVE  PoolInv'
<1> USE DEF PoolInv
<1> DEFINE q == IF queueId = 0 THEN queues + 1 ELSE queueId
           n == IF queueId = 0 THEN 0 ELSE created
<1>1. /\ pc[t] = "idle" /\ issued' = [issued EXCEPT ![t] = issued[t] + 1]
      /\ queueId' = q /\ queues' = Max({q, queues})
      /\ UNCHANGED <<shut, leaked, abandoned, closes>>
      /\ \/ /\ pool # <<>> /\ pool' = Tail(pool) /\ SendOn(t, Head(pool)) /\ created' = created
         \/ /\ pool = <<>> /\ n < PoolSize /\ created' = n + 1
            /\ pc' = [pc EXCEPT ![t] = "connect"] /\ UNCHANGED <<pool, held, owed>>
         \/ /\ pool = <<>> /\ ~(n < PoolSize) /\ created' = n
            /\ pc' = [pc EXCEPT ![t] = "wait"] /\ UNCHANGED <<pool, held, owed>>
  BY DEF Acquire, books
<1>2. /\ queueId \in Nat /\ queues \in Nat /\ created \in Int /\ created <= PoolSize
      /\ PoolSize \in Nat \ {0} /\ closes \in Nat /\ leaked \in Nat /\ shut \in Nat
  BY DEF BookShape, PoolAssumption
<1>3. /\ q \in Nat /\ q # 0 /\ n \in Int /\ n <= PoolSize
      /\ closes = 0 => n = created
  BY <1>2 DEF CountInv
<1> HIDE DEF q, n
<1>4. queueId' \in Nat /\ queueId' # 0 /\ queues' \in Nat
  <2>1. queues' = IF q >= queues THEN q ELSE queues
    BY <1>1, <1>2, <1>3, MaxOfTwo
  <2> QED
    BY <1>1, <1>2, <1>3, <2>1
<1>5. /\ issued' \in [Tasks -> Nat] /\ \A u \in Tasks : u # t => issued'[u] = issued[u]
      /\ pool \in Seq(Conns) /\ held \in [Tasks -> Conns \cup {Nobody}] /\ pc \in [Tasks -> PoolStates]
  BY <1>1 DEF ConnsInv, ConnShape
<1>6. pc[t] \notin Busy
  BY <1>1 DEF Busy
<1>7. CASE pool # <<>> /\ pool' = Tail(pool) /\ SendOn(t, Head(pool)) /\ created' = created
  <2>1. IsInjective(pool)
    BY DEF ConnsInv, UseInv
  <2>2. /\ Head(pool) \in Conns /\ pool' \in Seq(Conns) /\ Len(pool') = Len(pool) - 1
        /\ IsInjective(pool') /\ Head(pool) \in Idle
        /\ \A x : x \in Idle' <=> x \in Idle /\ x # Head(pool)
    BY <1>5, <1>7, <2>1, Popped DEF Idle
  <2>3. (\A u \in Tasks : held[u] # Head(pool)) /\ (Head(pool) \in abandoned \/ owed[Head(pool)] = <<>>)
    BY <2>2 DEF ConnsInv, UseInv, OwedInv
  <2>4. ConnsInv'
    BY <1>1, <1>5, <1>7, <2>2, <2>3, Sent
  <2>5. Cardinality(Serving) \in Nat /\ Cardinality(Serving') = Cardinality(Serving) + 1
    <3>1. pc' = [pc EXCEPT ![t] = "reply"] /\ "reply" \in Busy
      BY <1>7 DEF SendOn, Busy
    <3> QED
      BY <1>6, <3>1, Counted DEF ConnsInv
  <2>6. CountInv'
    <3>1. Len(pool) \in Nat /\ closes' = closes /\ leaked' = leaked /\ shut' = shut
         /\ created' = created
      BY <1>1, <1>5, <1>7
    <3> QED
      BY <1>2, <1>4, <2>2, <2>5, <3>1 DEF CountInv
  <2> QED
    BY <1>1, <1>2, <1>4, <1>7, <2>4, <2>6 DEF BookShape
<1>8. CASE /\ pool = <<>> /\ n < PoolSize /\ created' = n + 1
           /\ pc' = [pc EXCEPT ![t] = "connect"] /\ UNCHANGED <<pool, held, owed>>
  <2>1. ConnsInv'
    BY <1>1, <1>5, <1>8, Unmoved DEF PoolStates
  <2>2. Cardinality(Serving) \in Nat /\ Cardinality(Serving') = Cardinality(Serving) + 1
    BY <1>6, <1>8, Counted DEF ConnsInv, Busy
  <2>3. CountInv'
    BY <1>1, <1>2, <1>3, <1>4, <1>5, <1>8, <2>2 DEF CountInv
  <2> QED
    BY <1>1, <1>2, <1>3, <1>4, <1>8, <2>1, <2>3 DEF BookShape
<1>9. CASE /\ pool = <<>> /\ ~(n < PoolSize) /\ created' = n
           /\ pc' = [pc EXCEPT ![t] = "wait"] /\ UNCHANGED <<pool, held, owed>>
  <2>1. ConnsInv'
    BY <1>1, <1>5, <1>9, Unmoved DEF PoolStates
  <2>2. Cardinality(Serving) \in Nat /\ Cardinality(Serving') = Cardinality(Serving)
    <3>1. "wait" \notin Busy
      BY DEF Busy
    <3> QED
      BY <1>6, <1>9, <3>1, Counted DEF ConnsInv
  <2>3. CountInv'
    BY <1>1, <1>2, <1>3, <1>4, <1>5, <1>9, <2>2 DEF CountInv
  <2> QED
    BY <1>1, <1>2, <1>3, <1>4, <1>9, <2>1, <2>3 DEF BookShape
<1> QED
  BY <1>1, <1>7, <1>8, <1>9

LEMMA TakeStep ==
  ASSUME PoolAssumption, PoolInv, NEW t \in Tasks, Take(t)
  PROVE  PoolInv'
<1> USE DEF PoolInv
<1>1. /\ pc[t] = "wait" /\ pool # <<>> /\ issued' = issued /\ pool' = Tail(pool) /\ SendOn(t, Head(pool))
      /\ UNCHANGED <<queueId, queues, created, shut, leaked, abandoned, closes>>
  BY DEF Take, books
<1>2. IsInjective(pool) /\ pool \in Seq(Conns) /\ issued \in [Tasks -> Nat]
  BY DEF ConnsInv, UseInv, ConnShape
<1>3. /\ Head(pool) \in Conns /\ pool' \in Seq(Conns) /\ Len(pool') = Len(pool) - 1
      /\ IsInjective(pool') /\ Head(pool) \in Idle
      /\ \A x : x \in Idle' <=> x \in Idle /\ x # Head(pool)
  BY <1>1, <1>2, Popped DEF Idle
<1>4. (\A u \in Tasks : held[u] # Head(pool)) /\ (Head(pool) \in abandoned \/ owed[Head(pool)] = <<>>)
  BY <1>3 DEF ConnsInv, UseInv, OwedInv
<1>5. ConnsInv'
  BY <1>1, <1>2, <1>3, <1>4, Sent
<1>6. Cardinality(Serving) \in Nat /\ Cardinality(Serving') = Cardinality(Serving) + 1
  <2>1. pc' = [pc EXCEPT ![t] = "reply"] /\ "reply" \in Busy /\ pc[t] \notin Busy
    BY <1>1 DEF SendOn, Busy
  <2> QED
    BY <2>1, Counted DEF ConnsInv
<1>7. CountInv'
  BY <1>1, <1>2, <1>3, <1>6 DEF CountInv, BookShape
<1> QED
  BY <1>1, <1>5, <1>7 DEF BookShape

LEMMA ConnectedStep ==
  ASSUME PoolAssumption, PoolInv, NEW t \in Tasks, Connected(t)
  PROVE  PoolInv'
<1> USE DEF PoolInv
<1>1. PICK c \in FreshConn : SendOn(t, c)
  BY DEF Connected
<1>2. /\ pc[t] = "connect" /\ issued' = issued
      /\ UNCHANGED <<pool, queueId, queues, created, shut, leaked, abandoned, closes>>
  BY DEF Connected, books
<1>3. c \in Conns /\ c \notin Idle /\ \A u \in Tasks : held[u] # c
  <2>1. c \in Conns \ Open
    BY <1>1 DEF FreshConn
  <2> QED
    BY <2>1, ConnsAreNumbers DEF Open, InUse
<1>4. owed[c] = <<>>
  BY <1>3 DEF ConnsInv, OwedInv
<1>5. Idle' = Idle /\ IsInjective(pool) /\ pool \in Seq(Conns) /\ issued \in [Tasks -> Nat]
  BY <1>2 DEF Idle, ConnsInv, UseInv, ConnShape
<1>6. ConnsInv'
  BY <1>1, <1>2, <1>3, <1>4, <1>5, Sent
<1>7. Cardinality(Serving') = Cardinality(Serving)
  <2>1. pc' = [pc EXCEPT ![t] = "reply"] /\ "reply" \in Busy /\ pc[t] \in Busy
    BY <1>1, <1>2 DEF SendOn, Busy
  <2> QED
    BY <2>1, Counted DEF ConnsInv
<1>8. CountInv'
  BY <1>2, <1>7 DEF CountInv
<1> QED
  BY <1>2, <1>6, <1>8 DEF BookShape

\* The count, when a task puts its connection back, forgets it or begins to
\* close it.
LEMMA ReleaseCounts ==
  ASSUME PoolAssumption, PoolInv, NEW t \in Tasks, pc[t] = "reply", NEW o \in Ledger, Release(t, o),
         UNCHANGED <<queueId, queues, created, shut, leaked, closes>>
  PROVE  BookShape' /\ CountInv'
<1> USE DEF PoolInv
<1>1. /\ BookShape' /\ PoolSize \in Nat \ {0} /\ pool \in Seq(Conns) /\ Len(pool) \in Nat
      /\ held[t] \in Conns /\ {shut, leaked, closes} \subseteq Nat /\ created \in Int
  <2>1. held[t] # Nobody /\ held \in [Tasks -> Conns \cup {Nobody}] /\ pool \in Seq(Conns)
    BY DEF ConnsInv, UseInv, ConnShape
  <2> QED
    BY <2>1 DEF BookShape, PoolAssumption
<1>2. pc[t] \in Busy /\ "idle" \notin Busy /\ "closing" \in Busy
  BY DEF Busy
<1>3. ASSUME pc' = [pc EXCEPT ![t] = "idle"]
      PROVE  /\ Cardinality(Serving) \in Nat /\ Cardinality(Serving) >= 1
             /\ Cardinality(Serving') = Cardinality(Serving) - 1
  BY <1>2, <1>3, Counted DEF ConnsInv
<1>4. CASE queueId = 0
  <2>1. pool' = pool /\ pc' = [pc EXCEPT ![t] = "idle"]
    BY <1>4 DEF Release
  <2> QED
    BY <1>1, <1>3, <1>4, <2>1 DEF CountInv
<1>5. CASE queueId # 0 /\ Len(pool) < PoolSize
  <2>0. queueId # 0 /\ ~(Len(pool) >= PoolSize)
    BY <1>1, <1>5
  <2>1. pool' = Append(pool, held[t]) /\ pc' = [pc EXCEPT ![t] = "idle"]
    BY <2>0, Zenon DEF Release
  <2>2. Len(pool') = Len(pool) + 1
    BY <1>1, <2>1
  <2> QED
    BY <1>1, <1>3, <1>5, <2>1, <2>2 DEF CountInv
<1>6. CASE queueId # 0 /\ Len(pool) >= PoolSize
  <2>1. pool' = pool /\ pc' = [pc EXCEPT ![t] = "closing"]
    BY <1>6 DEF Release
  <2>2. Cardinality(Serving') = Cardinality(Serving)
    BY <1>2, <2>1, Counted DEF ConnsInv
  <2> QED
    BY <1>1, <1>6, <2>1, <2>2 DEF CountInv
<1> QED
  BY <1>1, <1>4, <1>5, <1>6

LEMMA ReleaseMoves ==
  ASSUME NEW t, NEW o, Release(t, o)
  PROVE  /\ held' = [held EXCEPT ![t] = Nobody]
         /\ \E to \in {"idle", "closing"} : pc' = [pc EXCEPT ![t] = to]
         /\ \/ pool' = pool /\ owed' = [o EXCEPT ![held[t]] = <<>>]
            \/ pool' = Append(pool, held[t]) /\ owed' = o
BY DEF Release

LEMMA ReplyStep ==
  ASSUME PoolAssumption, PoolInv, NEW t \in Tasks, Reply(t)
  PROVE  PoolInv'
<1> USE DEF PoolInv
<1> DEFINE o == [owed EXCEPT ![held[t]] = Tail(owed[held[t]])]
<1>1. /\ pc[t] = "reply" /\ Release(t, o) /\ Kept(abandoned)
      /\ UNCHANGED <<issued, queueId, queues, created, shut, leaked, closes>>
  BY DEF Reply, closing
<1>2. /\ held[t] \in Conns /\ owed \in Ledger /\ owed[held[t]] # <<>> /\ abandoned \in SUBSET Conns
      /\ held[t] \in abandoned \/ owed[held[t]] = <<Current(t)>>
  BY <1>1 DEF ConnsInv, UseInv, OwedInv, ConnShape
<1>3. Tail(owed[held[t]]) \in Seq(Tasks \X Nat)
  BY <1>2, HeadTailProperties DEF Ledger
<1>4. o \in Ledger /\ \A d \in Conns : d # held[t] => o[d] = owed[d]
  BY <1>2, <1>3 DEF Ledger
<1>5. o[held[t]] = <<>> \/ held[t] \in abandoned
  <2>1. o[held[t]] = Tail(owed[held[t]])
    BY <1>2 DEF Ledger
  <2>2. Tail(<<Current(t)>>) = <<>>
    OBVIOUS
  <2> QED
    BY <1>2, <2>1, <2>2
<1> HIDE DEF o
<1>6. PICK to \in {"idle", "closing"} :
        /\ pc' = [pc EXCEPT ![t] = to] /\ held' = [held EXCEPT ![t] = Nobody]
        /\ \/ pool' = pool /\ owed' = [o EXCEPT ![held[t]] = <<>>]
           \/ pool' = Append(pool, held[t]) /\ owed' = o
  BY <1>1, ReleaseMoves
<1>7. ConnsInv'
  <2>1. to \in PoolStates \ {"reply"}
    BY DEF PoolStates
  <2> QED
    BY <1>1, <1>2, <1>4, <1>5, <1>6, <2>1, LetGo
<1>8. BookShape' /\ CountInv'
  BY <1>1, <1>4, ReleaseCounts
<1> QED
  BY <1>7, <1>8

LEMMA CancelReplyStep ==
  ASSUME PoolAssumption, PoolInv, NEW t \in Tasks, CancelReply(t)
  PROVE  PoolInv'
<1> USE DEF PoolInv
<1> DEFINE cs == abandoned \cup {held[t]}
<1>1. /\ pc[t] = "reply" /\ Release(t, owed) /\ Kept(cs)
      /\ UNCHANGED <<issued, queueId, queues, created, shut, leaked, closes>>
  BY DEF CancelReply, closing
<1>2. held[t] \in Conns /\ owed \in Ledger /\ abandoned \in SUBSET Conns
  BY <1>1 DEF ConnsInv, UseInv, ConnShape
<1>3. /\ cs \in SUBSET Conns /\ abandoned \subseteq cs /\ held[t] \in cs
      /\ \A d \in cs : d \in abandoned \/ d = held[t]
  BY <1>2
<1> HIDE DEF cs
<1>4. PICK to \in {"idle", "closing"} :
        /\ pc' = [pc EXCEPT ![t] = to] /\ held' = [held EXCEPT ![t] = Nobody]
        /\ \/ pool' = pool /\ owed' = [owed EXCEPT ![held[t]] = <<>>]
           \/ pool' = Append(pool, held[t]) /\ owed' = owed
  BY <1>1, ReleaseMoves
<1>5. ConnsInv'
  <2>1. to \in PoolStates \ {"reply"}
    BY DEF PoolStates
  <2> QED
    BY <1>1, <1>2, <1>3, <1>4, <2>1, LetGo
<1>6. BookShape' /\ CountInv'
  BY <1>1, <1>2, ReleaseCounts
<1> QED
  BY <1>5, <1>6

LEMMA FailsStep ==
  ASSUME PoolAssumption, PoolInv, NEW t \in Tasks, Fails(t)
  PROVE  PoolInv'
<1> USE DEF PoolInv
<1>1. /\ pc[t] = "reply" /\ pc' = [pc EXCEPT ![t] = "closing"] /\ held' = [held EXCEPT ![t] = Nobody]
      /\ owed' = [owed EXCEPT ![held[t]] = <<>>] /\ Kept(abandoned)
      /\ UNCHANGED <<pool, queueId, queues, created, issued, shut, leaked, closes>>
  BY DEF Fails, closing
<1>2. held[t] \in Conns /\ owed \in Ledger /\ abandoned \in SUBSET Conns
  BY <1>1 DEF ConnsInv, UseInv, ConnShape
<1> DEFINE o == [owed EXCEPT ![held[t]] = <<>>]
<1>3. o \in Ledger /\ o[held[t]] = <<>> /\ \A d \in Conns : d # held[t] => o[d] = owed[d]
  BY <1>2 DEF Ledger
<1>4. owed' = [o EXCEPT ![held[t]] = <<>>]
  BY <1>1, <1>2 DEF Ledger
<1> HIDE DEF o
<1>5. ConnsInv'
  BY <1>1, <1>2, <1>3, <1>4, LetGo DEF PoolStates
<1>6. Cardinality(Serving') = Cardinality(Serving)
  <2>1. pc[t] \in Busy /\ "closing" \in Busy
    BY <1>1 DEF Busy
  <2> QED
    BY <1>1, <2>1, Counted DEF ConnsInv
<1>7. CountInv'
  BY <1>1, <1>6 DEF CountInv
<1> QED
  BY <1>1, <1>5, <1>7 DEF BookShape

\* A task that is connecting, waiting or closing becomes idle.
LEMMA IdleMoves ==
  ASSUME ConnsInv, NEW t \in Tasks, pc[t] # "reply", pc' = [pc EXCEPT ![t] = "idle"],
         UNCHANGED <<pool, held, owed, abandoned, issued>>
  PROVE  ConnsInv'
<1>1. issued' \in [Tasks -> Nat] /\ "idle" \in PoolStates \ {"reply"}
  BY DEF ConnsInv, ConnShape, PoolStates
<1> QED
  BY <1>1, Unmoved

LEMMA ConnectFailsStep ==
  ASSUME PoolAssumption, PoolInv, NEW t \in Tasks, ConnectFails(t)
  PROVE  PoolInv'
<1> USE DEF PoolInv
<1>1. /\ pc[t] = "connect" /\ created' = created - 1 /\ pc' = [pc EXCEPT ![t] = "idle"]
      /\ UNCHANGED <<pool, held, owed, abandoned, issued, queueId, queues, shut, leaked, closes>>
  BY DEF ConnectFails, books
<1>2. ConnsInv'
  BY <1>1, IdleMoves
<1>3. /\ Cardinality(Serving) \in Nat /\ Cardinality(Serving) >= 1
      /\ Cardinality(Serving') = Cardinality(Serving) - 1
  <2>1. pc[t] \in Busy /\ "idle" \notin Busy
    BY <1>1 DEF Busy
  <2> QED
    BY <1>1, <2>1, Counted DEF ConnsInv
<1>4. pool \in Seq(Conns) /\ PoolSize \in Nat
  BY DEF ConnsInv, ConnShape, PoolAssumption
<1>5. CountInv'
  BY <1>1, <1>3, <1>4 DEF CountInv, BookShape
<1> QED
  BY <1>1, <1>2, <1>4, <1>5 DEF BookShape

LEMMA ClosedStep ==
  ASSUME PoolAssumption, PoolInv, NEW t \in Tasks, Closed(t)
  PROVE  PoolInv'
<1> USE DEF PoolInv
<1>1. /\ pc[t] = "closing" /\ created' = Max({0, created - 1}) /\ pc' = [pc EXCEPT ![t] = "idle"]
      /\ UNCHANGED <<pool, held, owed, abandoned, issued, queueId, queues, shut, leaked, closes>>
  BY DEF Closed, closing
<1>2. ConnsInv'
  BY <1>1, IdleMoves
<1>3. /\ Cardinality(Serving) \in Nat /\ Cardinality(Serving) >= 1
      /\ Cardinality(Serving') = Cardinality(Serving) - 1
  <2>1. pc[t] \in Busy /\ "idle" \notin Busy
    BY <1>1 DEF Busy
  <2> QED
    BY <1>1, <2>1, Counted DEF ConnsInv
<1>4. pool \in Seq(Conns) /\ PoolSize \in Nat /\ created \in Int
  BY DEF ConnsInv, ConnShape, PoolAssumption, BookShape
<1>5. created' = IF 0 >= created - 1 THEN 0 ELSE created - 1
  BY <1>1, <1>4, MaxOfTwo
<1>6. CountInv'
  BY <1>1, <1>3, <1>4, <1>5 DEF CountInv, BookShape
<1> QED
  BY <1>1, <1>2, <1>4, <1>5, <1>6 DEF BookShape

\* Cancelled while connecting, or while closing a connection.
LEMMA CancelConnectStep ==
  ASSUME PoolAssumption, PoolInv, NEW t \in Tasks, CancelConnect(t) \/ CancelClosed(t)
  PROVE  PoolInv'
<1> USE DEF PoolInv
<1>1. /\ pc[t] \in {"connect", "closing"} /\ leaked' = leaked + 1
      /\ pc' = [pc EXCEPT ![t] = "idle"]
      /\ UNCHANGED <<pool, held, owed, abandoned, issued, queueId, queues, created, shut, closes>>
  BY DEF CancelConnect, CancelClosed, closing
<1>2. ConnsInv'
  BY <1>1, IdleMoves
<1>3. /\ Cardinality(Serving) \in Nat /\ Cardinality(Serving) >= 1
      /\ Cardinality(Serving') = Cardinality(Serving) - 1
  <2>1. pc[t] \in Busy /\ "idle" \notin Busy
    BY <1>1 DEF Busy
  <2> QED
    BY <1>1, <2>1, Counted DEF ConnsInv
<1>4. pool \in Seq(Conns)
  BY DEF ConnsInv, ConnShape
<1>5. CountInv'
  BY <1>1, <1>3, <1>4 DEF CountInv, BookShape
<1> QED
  BY <1>1, <1>2, <1>5 DEF BookShape

LEMMA CancelWaitStep ==
  ASSUME PoolAssumption, PoolInv, NEW t \in Tasks, CancelWait(t)
  PROVE  PoolInv'
<1> USE DEF PoolInv
<1>1. /\ pc[t] = "wait" /\ pc' = [pc EXCEPT ![t] = "idle"]
      /\ UNCHANGED <<pool, held, owed, abandoned, issued, queueId, queues, created, shut, leaked, closes>>
  BY DEF CancelWait, books
<1>2. ConnsInv'
  BY <1>1, IdleMoves
<1>3. Cardinality(Serving') = Cardinality(Serving)
  <2>1. pc[t] \notin Busy /\ "idle" \notin Busy
    BY <1>1 DEF Busy
  <2> QED
    BY <1>1, <2>1, Counted DEF ConnsInv
<1> QED
  BY <1>1, <1>2, <1>3 DEF BookShape, CountInv

\* A turn of close() that finds an idle connection closes it.
LEMMA DrainOne ==
  ASSUME PoolAssumption, PoolInv, Drain, pool # <<>>
  PROVE  PoolInv'
<1> USE DEF PoolInv
<1> DEFINE h == Head(pool)
<1>1. /\ pool' = Tail(pool) /\ shut' = shut + 1 /\ owed' = [owed EXCEPT ![h] = <<>>]
      /\ UNCHANGED <<queueId, created, closes, queues, pc, held, issued, leaked>>
      /\ Kept(abandoned)
  BY DEF Drain
<1>2. pool \in Seq(Conns) /\ IsInjective(pool) /\ owed \in Ledger /\ Len(pool) \in Nat
  BY DEF ConnsInv, UseInv, ConnShape
<1>3. /\ h \in Conns /\ pool' \in Seq(Conns) /\ Len(pool') = Len(pool) - 1 /\ IsInjective(pool')
      /\ h \in Idle /\ \A x : x \in Idle' <=> x \in Idle /\ x # h
  BY <1>1, <1>2, Popped DEF Idle
<1> HIDE DEF h
<1>4. owed' \in Ledger /\ \A c \in Conns : owed'[c] = IF c = h THEN <<>> ELSE owed[c]
  <2>1. <<>> \in Seq(Tasks \X Nat)
    OBVIOUS
  <2> QED
    BY <1>1, <1>2, <2>1 DEF Ledger
<1>5. abandoned' = {c \in abandoned : owed'[c] # <<>>}
  BY <1>1 DEF Kept
<1>6. ConnShape'
  BY <1>1, <1>3, <1>4, <1>5 DEF ConnsInv, ConnShape
<1>7. UseInv'
  BY <1>1, <1>3 DEF ConnsInv, UseInv
<1>8. OwedInv'
  <2>1. \A c \in Conns : c \notin Idle' /\ (\A u \in Tasks : held'[u] # c) => owed'[c] = <<>>
    BY <1>1, <1>3, <1>4 DEF ConnsInv, OwedInv
  <2>2. \A c \in Idle' : c \in abandoned' \/ owed'[c] = <<>>
    <3>1. \A c \in Idle : c \in Conns
      BY <1>2, RangeOfSeq DEF Idle
    <3> QED
      BY <1>3, <1>4, <1>5, <3>1 DEF ConnsInv, OwedInv
  <2>3. \A u \in Tasks : Current(u)' = Current(u)
    BY <1>1 DEF Current
  <2>4. \A u \in Tasks : held[u] # Nobody => held[u] \in Conns /\ owed'[held[u]] = owed[held[u]]
    BY <1>3, <1>4 DEF ConnsInv, ConnShape, UseInv
  <2>5. \A u \in Tasks : held'[u] # Nobody =>
          owed'[held'[u]] # <<>> /\ (held'[u] \in abandoned' \/ owed'[held'[u]] = <<Current(u)'>>)
    BY <1>1, <1>5, <2>3, <2>4 DEF ConnsInv, OwedInv
  <2> QED
    BY <2>1, <2>2, <2>5 DEF OwedInv
<1>9. Serving' = Serving
  BY <1>1 DEF Serving
<1>10. Cardinality(Serving) \in Nat
  <2>1. IsFiniteSet(Serving)
    BY FS_Subset DEF PoolAssumption, Serving
  <2> QED
    BY <2>1, FS_CardinalityType
<1>11. {shut, leaked} \subseteq Nat
  BY DEF BookShape
<1>12. CountInv'
  <2> SUFFICES ASSUME closes' = 0
               PROVE  /\ created' = Len(pool') + Cardinality(Serving') + shut' + leaked'
                      /\ queueId' = 0 => pool' = <<>> /\ created' = 0
    BY DEF CountInv
  <2>1. created = Len(pool) + Cardinality(Serving) + shut + leaked /\ queueId # 0
    BY <1>1 DEF CountInv
  <2>2. created' = Len(pool') + Cardinality(Serving') + shut' + leaked'
    BY <1>1, <1>2, <1>3, <1>9, <1>10, <1>11, <2>1
  <2> QED
    BY <1>1, <2>1, <2>2
<1>13. BookShape'
  BY <1>1 DEF BookShape
<1> QED
  BY <1>6, <1>7, <1>8, <1>12, <1>13 DEF ConnsInv

\* A turn that finds none drops the Queue.
LEMMA DrainLast ==
  ASSUME PoolAssumption, PoolInv, Drain, pool = <<>>
  PROVE  PoolInv'
<1> USE DEF PoolInv
<1>1. /\ queueId' = 0 /\ created' = 0 /\ shut' = 0 /\ closes' = closes + 1
      /\ UNCHANGED <<pool, owed, queues, pc, held, issued, leaked>> /\ Kept(abandoned)
  BY DEF Drain
<1>2. abandoned' = {c \in abandoned : owed'[c] # <<>>}
  BY <1>1 DEF Kept
<1>3. Idle' = Idle /\ \A u \in Tasks : Current(u)' = Current(u)
  BY <1>1 DEF Idle, Current
<1>4. ConnShape'
  BY <1>1, <1>2 DEF ConnsInv, ConnShape
<1>5. UseInv'
  BY <1>1, <1>3 DEF ConnsInv, UseInv
<1>6. OwedInv'
  BY <1>1, <1>2, <1>3 DEF ConnsInv, OwedInv
<1>7. BookShape' /\ CountInv'
  BY <1>1 DEF BookShape, CountInv, PoolAssumption
<1> QED
  BY <1>4, <1>5, <1>6, <1>7 DEF ConnsInv

LEMMA CancelCloseStep ==
  ASSUME PoolAssumption, PoolInv, CancelClose
  PROVE  PoolInv'
<1> USE DEF PoolInv
<1>1. /\ shut' = 0 /\ leaked' = leaked + shut
      /\ UNCHANGED <<pool, held, owed, abandoned, issued, queueId, queues, created, pc, closes>>
  BY DEF CancelClose
<1>2. Idle' = Idle /\ Serving' = Serving /\ \A u \in Tasks : Current(u)' = Current(u)
  BY <1>1 DEF Idle, Serving, Current
<1>3. ConnsInv'
  BY <1>1, <1>2 DEF ConnsInv, ConnShape, UseInv, OwedInv
<1>4. BookShape'
  BY <1>1 DEF BookShape
<1>5. pool \in Seq(Conns) /\ Cardinality(Serving) \in Nat
  <2>1. IsFiniteSet(Serving)
    BY FS_Subset DEF PoolAssumption, Serving
  <2> QED
    BY <2>1, FS_CardinalityType DEF ConnsInv, ConnShape
<1>6. CountInv'
  BY <1>1, <1>2, <1>5 DEF CountInv, BookShape
<1> QED
  BY <1>3, <1>4, <1>6

LEMMA PoolStart == ASSUME PoolAssumption PROVE PoolInit => PoolInv
<1> SUFFICES ASSUME PoolInit PROVE PoolInv
  OBVIOUS
<1> USE DEF PoolInit
<1>1. Idle = {} /\ IsInjective(pool) /\ pool \in Seq(Conns)
  BY NothingQueued DEF Idle, IsInjective
<1>2. ConnShape
  <2>1. <<>> \in Seq(Tasks \X Nat)
    OBVIOUS
  <2>2. owed \in Ledger
    BY <2>1 DEF Ledger
  <2> QED
    BY <1>1, <2>2 DEF ConnShape, PoolStates
<1>3. UseInv /\ OwedInv
  BY <1>1 DEF UseInv, OwedInv
<1>4. Serving = {}
  BY DEF Serving
<1>5. Cardinality(Serving) = 0 /\ Len(pool) = 0
  BY <1>4, FS_EmptySet
<1>6. CountInv
  BY <1>5 DEF CountInv
<1>7. BookShape
  BY DEF BookShape, PoolAssumption
<1> QED
  BY <1>2, <1>3, <1>6, <1>7 DEF PoolInv, ConnsInv

LEMMA PoolStep == PoolAssumption /\ PoolInv /\ [PoolNext]_poolVars => PoolInv'
<1> SUFFICES ASSUME PoolAssumption, PoolInv, [PoolNext]_poolVars
             PROVE  PoolInv'
  OBVIOUS
<1>1. CASE \E t \in Tasks : Serve(t)
  BY <1>1, AcquireStep, TakeStep, ConnectedStep, ReplyStep, ClosedStep DEF Serve
<1>2. CASE \E t \in Tasks : Break(t)
  BY <1>2, ConnectFailsStep, FailsStep, CancelReplyStep, CancelConnectStep, CancelWaitStep DEF Break
<1>3. CASE Close \/ CloseOn
  BY <1>3, DrainOne, DrainLast DEF Close, CloseOn
<1>5. CASE CancelClose
  BY <1>5, CancelCloseStep
<1>4. CASE UNCHANGED poolVars
  <2>1. UNCHANGED <<pool, queueId, queues, created, pc, held, issued, owed, shut, leaked, abandoned,
                  closes>>
    BY <1>4 DEF poolVars
  <2>2. Idle' = Idle /\ Serving' = Serving /\ \A t \in Tasks : Current(t)' = Current(t)
    BY <2>1 DEF Idle, Serving, Current
  <2> QED
    BY <2>1, <2>2 DEF PoolInv, ConnsInv, ConnShape, UseInv, OwedInv, BookShape, CountInv
<1> QED
  BY <1>1, <1>2, <1>3, <1>4, <1>5 DEF PoolNext

LEMMA PoolInvariant == ASSUME PoolAssumption PROVE PoolSpec => []PoolInv
BY PoolStart, PoolStep, PTL DEF PoolSpec

(* Connections are never shared, and until the pool is closed the counter  *)
(* is off by exactly the slots of coroutines cancelled while they connect, *)
(* while they close a connection, or in close(), at any of its awaits.     *)
THEOREM ConnectionsAddUp == ASSUME PoolAssumption PROVE PoolSpec => []ConnectionsAccounted
BY PoolInvariant, PoolInvImplies, PTL

(* Replies reach the commands they answer, but on a connection a           *)
(* cancelled command left behind.                                          *)
THEOREM RepliesAlign == ASSUME PoolAssumption PROVE PoolSpec => []OwnReply
BY PoolInvariant, PoolInvImplies, PTL
-----------------------------------------------------------------------------
\* What the pool's invariant leaves out: the queues tasks wait on, and the
\* commands, of which a task has begun one when it is not idle.
PoolRest ==
  /\ queueId \in {0, queues}
  /\ waitsOn \in [Tasks -> 0 .. queues]
  /\ issued \in [Tasks -> 0 .. MaxCommands]
  /\ \A t \in Tasks : pc[t] # "idle" => issued[t] \in 1 .. MaxCommands
  /\ owed \in [Conns -> Seq(Commands)]
  /\ answer \in [Tasks -> {"none", "own", "other", "error", "cancelled"}]
  /\ discards \in Nat /\ poolFaults \in 0 .. MaxPoolFaults

LEMMA RestStart == ASSUME PoolAssumption, PoolInit PROVE PoolRest
BY DEF PoolAssumption, PoolInit, PoolRest

LEMMA SendRest ==
  ASSUME ConnShape, PoolRest, NEW t \in Tasks, NEW c \in Conns, SendOn(t, c),
         issued' \in [Tasks -> 0 .. MaxCommands], issued'[t] \in 1 .. MaxCommands
  PROVE  owed' \in [Conns -> Seq(Commands)]
<1>1. <<t, issued'[t]>> \in Commands
  BY DEF Commands
<1>2. Append(owed[c], <<t, issued'[t]>>) \in Seq(Commands)
  BY <1>1 DEF PoolRest
<1> QED
  BY <1>2 DEF SendOn, PoolRest

LEMMA ReleaseRest ==
  ASSUME PoolRest, NEW t, NEW o \in [Conns -> Seq(Commands)], Release(t, o)
  PROVE  owed' \in [Conns -> Seq(Commands)]
<1>1. <<>> \in Seq(Commands)
  OBVIOUS
<1>2. owed' = o \/ owed' = [o EXCEPT ![held[t]] = <<>>]
  BY DEF Release
<1> QED
  BY <1>1, <1>2

LEMMA RestStep ==
  ASSUME PoolAssumption, PoolInv, PoolRest, [PoolNext]_poolVars
  PROVE  PoolRest'
<1> USE DEF PoolRest
<1>1. /\ PoolSize \in Nat /\ MaxCommands \in Nat /\ MaxPoolFaults \in Nat
      /\ PoolFault => poolFaults' \in 0 .. MaxPoolFaults
  BY DEF PoolAssumption, PoolFault
<1>2. /\ pool \in Seq(Conns) /\ pc \in [Tasks -> PoolStates] /\ held \in [Tasks -> Conns \cup {Nobody}]
      /\ \A t \in Tasks : pc[t] = "reply" => held[t] \in Conns /\ owed[held[t]] # <<>>
      /\ queues \in Nat /\ queueId \in Nat
  BY DEF PoolInv, ConnsInv, ConnShape, BookShape, UseInv, OwedInv
<1>3. pool # <<>> => Head(pool) \in Conns
  BY <1>2
<1>4. ConnShape
  BY DEF PoolInv, ConnsInv
<1>5. ASSUME NEW t \in Tasks, Acquire(t)
      PROVE  PoolRest'
  <2>1. /\ queues' \in Nat /\ queues <= queues' /\ queueId' \in {0, queues'}
    <3>1. CASE queueId = 0
      <4>1. queueId' = queues + 1 /\ queues' = Max({queues + 1, queues})
        BY <1>5, <3>1 DEF Acquire
      <4>2. queues' = queues + 1
        BY <1>2, <4>1 DEF Max
      <4> QED
        BY <1>2, <4>1, <4>2
    <3>2. CASE queueId # 0
      <4>1. queueId' = queueId /\ queues' = Max({queueId, queues}) /\ queueId = queues
        BY <1>5, <3>2 DEF Acquire
      <4>2. queues' = queues
        BY <1>2, <4>1 DEF Max
      <4> QED
        BY <1>2, <4>1, <4>2
    <3> QED
      BY <3>1, <3>2
  <2>2. /\ issued' \in [Tasks -> 0 .. MaxCommands] /\ issued'[t] \in 1 .. MaxCommands
        /\ \A u \in Tasks \ {t} : issued'[u] = issued[u]
    BY <1>1, <1>5 DEF Acquire
  <2>3. waitsOn' \in [Tasks -> 0 .. queues']
    <3>1. queueId' \in 0 .. queues' /\ waitsOn \in [Tasks -> 0 .. queues']
      BY <1>2, <2>1
    <3>2. waitsOn' = waitsOn \/ waitsOn' = [waitsOn EXCEPT ![t] = queueId']
      BY <1>5 DEF Acquire
    <3> QED
      BY <3>1, <3>2
  <2>4. owed' \in [Conns -> Seq(Commands)]
    BY <1>3, <1>4, <1>5, <2>2, SendRest DEF Acquire
  <2>5. \A u \in Tasks : pc'[u] # "idle" => issued'[u] \in 1 .. MaxCommands
    <3>1. \A u \in Tasks \ {t} : pc'[u] = pc[u]
      BY <1>2, <1>5 DEF Acquire, SendOn
    <3> QED
      BY <2>2, <3>1
  <2>6. /\ answer' \in [Tasks -> {"none", "own", "other", "error", "cancelled"}]
        /\ UNCHANGED <<discards, poolFaults>>
    BY <1>5 DEF Acquire, books
  <2> QED
    BY <2>1, <2>2, <2>3, <2>4, <2>5, <2>6
<1>6. ASSUME NEW t \in Tasks, pc[t] # "idle", NEW c \in Conns, SendOn(t, c),
             UNCHANGED <<queueId, queues, waitsOn, issued, answer, discards, poolFaults>>
      PROVE  PoolRest'
  <2>1. owed' \in [Conns -> Seq(Commands)]
    BY <1>4, <1>6, SendRest
  <2>2. \A u \in Tasks : pc'[u] # "idle" => issued'[u] \in 1 .. MaxCommands
    BY <1>2, <1>6 DEF SendOn
  <2> QED
    BY <1>6, <2>1, <2>2
<1>7. ASSUME NEW t \in Tasks, Take(t)
      PROVE  PoolRest'
  BY <1>3, <1>6, <1>7 DEF Take, books
<1>8. ASSUME NEW t \in Tasks, Connected(t)
      PROVE  PoolRest'
  BY <1>6, <1>8 DEF Connected, FreshConn, books
<1>9. ASSUME NEW t \in Tasks, NEW to \in {"idle", "closing"}, pc' = [pc EXCEPT ![t] = to],
             to = "closing" => pc[t] = "reply", UNCHANGED <<queueId, queues, waitsOn, issued>>
      PROVE  /\ queueId' \in {0, queues'} /\ waitsOn' \in [Tasks -> 0 .. queues']
             /\ issued' \in [Tasks -> 0 .. MaxCommands]
             /\ \A u \in Tasks : pc'[u] # "idle" => issued'[u] \in 1 .. MaxCommands
  BY <1>2, <1>9
<1>10. ASSUME NEW t \in Tasks, \/ ConnectFails(t) \/ CancelConnect(t) \/ CancelWait(t)
                              \/ Closed(t) \/ CancelClosed(t)
       PROVE  PoolRest'
  <2>1. /\ pc' = [pc EXCEPT ![t] = "idle"] /\ UNCHANGED <<queueId, queues, waitsOn, issued, owed>>
        /\ answer' \in [Tasks -> {"none", "own", "other", "error", "cancelled"}]
        /\ discards' \in {discards, discards + 1}
        /\ poolFaults' = poolFaults \/ PoolFault
    BY <1>10 DEF ConnectFails, CancelConnect, CancelWait, Closed, CancelClosed, Got, books
  <2> QED
    BY <1>1, <1>9, <2>1
<1>11. ASSUME NEW t \in Tasks, Fails(t)
       PROVE  PoolRest'
  <2>1. /\ pc[t] = "reply" /\ pc' = [pc EXCEPT ![t] = "closing"]
        /\ UNCHANGED <<queueId, queues, waitsOn, issued, discards>>
        /\ answer' \in [Tasks -> {"none", "own", "other", "error", "cancelled"}]
        /\ owed' = [owed EXCEPT ![held[t]] = <<>>] /\ PoolFault
    BY <1>11 DEF Fails, Got
  <2>2. owed' \in [Conns -> Seq(Commands)]
    <3>1. <<>> \in Seq(Commands)
      OBVIOUS
    <3> QED
      BY <2>1, <3>1
  <2> QED
    BY <1>1, <1>9, <2>1, <2>2
<1>12. ASSUME NEW t \in Tasks, Reply(t)
       PROVE  PoolRest'
  <2> DEFINE o == [owed EXCEPT ![held[t]] = Tail(@)]
  <2>1. o \in [Conns -> Seq(Commands)]
    <3>1. held[t] \in Conns /\ owed[held[t]] \in Seq(Commands) /\ owed[held[t]] # <<>>
      BY <1>2, <1>12 DEF Reply
    <3>2. Tail(owed[held[t]]) \in Seq(Commands)
      BY <3>1
    <3> QED
      BY <3>2
  <2>2. Release(t, o)
    BY <1>12 DEF Reply
  <2> HIDE DEF o
  <2>3. /\ pc[t] = "reply" /\ UNCHANGED <<queueId, queues, waitsOn, issued, discards, poolFaults>>
        /\ answer' \in [Tasks -> {"none", "own", "other", "error", "cancelled"}]
    BY <1>12 DEF Reply, Got
  <2>4. PICK to \in {"idle", "closing"} : pc' = [pc EXCEPT ![t] = to]
    BY <2>2, ReleaseMoves
  <2> QED
    BY <1>9, <2>1, <2>2, <2>3, <2>4, ReleaseRest
<1>13. ASSUME NEW t \in Tasks, CancelReply(t)
       PROVE  PoolRest'
  <2>1. /\ pc[t] = "reply" /\ UNCHANGED <<queueId, queues, waitsOn, issued, discards>>
        /\ answer' \in [Tasks -> {"none", "own", "other", "error", "cancelled"}]
        /\ Release(t, owed) /\ PoolFault
    BY <1>13 DEF CancelReply, Got
  <2>2. PICK to \in {"idle", "closing"} : pc' = [pc EXCEPT ![t] = to]
    BY <2>1, ReleaseMoves
  <2> QED
    BY <1>1, <1>9, <2>1, <2>2, ReleaseRest
<1>14. CASE Close \/ CloseOn
  <2>1. /\ UNCHANGED <<queues, pc, waitsOn, issued, answer, discards>>
        /\ queueId' \in {0, queueId} /\ (poolFaults' = poolFaults \/ PoolFault)
        /\ owed' = owed \/ owed' = [owed EXCEPT ![Head(pool)] = <<>>]
    BY <1>14 DEF Close, CloseOn, Drain
  <2>2. <<>> \in Seq(Commands)
    OBVIOUS
  <2>3. owed' \in [Conns -> Seq(Commands)]
    BY <2>1, <2>2
  <2>4. queueId' \in {0, queues'}
    BY <2>1
  <2> QED
    BY <1>1, <2>1, <2>3, <2>4
<1>16. CASE CancelClose
  BY <1>1, <1>16 DEF CancelClose
<1>15. CASE UNCHANGED poolVars
  BY <1>15 DEF poolVars
<1> QED
  BY <1>5, <1>7, <1>8, <1>10, <1>11, <1>12, <1>13, <1>14, <1>15, <1>16 DEF PoolNext, Serve, Break

(* Every variable of the pool keeps its type: in particular no connection  *)
(* is named that does not exist, no task waits on a Queue that was never   *)
(* made, and no more than pool_size slots are ever counted.                *)
THEOREM PoolTypes == ASSUME PoolAssumption PROVE PoolSpec => []PoolTypeOK
<1>1. PoolInv /\ PoolRest => PoolTypeOK
  BY DEF PoolInv, ConnsInv, ConnShape, BookShape, PoolRest, PoolStates, PoolTypeOK
<1> QED
  BY <1>1, PoolStart, PoolStep, RestStart, RestStep, PTL DEF PoolSpec

-----------------------------------------------------------------------------
(***************************************************************************)
(* The single-flight cache.  While no lock expires under its winner, calls *)
(* that fail after they took effect, requests that bypass the cache and    *)
(* expired entries do not matter.                                          *)
(***************************************************************************)
Summary == 0 .. db \cup {Nothing}

CacheTypeOK ==
  /\ db \in 0 .. MaxChanges
  /\ entry \in Summary /\ stale \in Summary
  /\ lock \in BOOLEAN /\ overran \in BOOLEAN
  /\ step \in [Requests -> Steps]
  /\ value \in [Requests -> Summary]
  /\ cacheFaults \in Nat

IsWinner(r) == step[r] \in {"compute", "store", "keep", "release"}

\* The winner is the only one, and the lock is its.
Exclusive ==
  \A r \in Requests : IsWinner(r) =>
    lock /\ \A q \in Requests : IsWinner(q) => q = r

Forward ==
  \A r \in Requests : step[r] \in {"store", "keep"} /\ stale # Nothing => value[r] >= stale

CacheInv == CacheTypeOK /\ (overran \/ (Exclusive /\ Forward))

LEMMA InvImplies == CacheInv => SingleWinner
<1> SUFFICES ASSUME CacheInv, ~overran
             PROVE  Cardinality(Winners) <= 1 /\ Forward
  BY DEF SingleWinner, Forward
<1>1. Winners = {} \/ \E r \in Requests : Winners = {r}
  BY DEF CacheInv, Exclusive, IsWinner, Winners
<1>2. Cardinality({}) = 0 /\ \A r \in Requests : Cardinality({r}) = 1
  BY FS_EmptySet, FS_Singleton
<1>3. Cardinality(Winners) \in {0, 1}
  BY <1>1, <1>2
<1> QED
  BY <1>3 DEF CacheInv

LEMMA InitInv == CacheInit => CacheInv
<1> SUFFICES ASSUME CacheInit
             PROVE  CacheInv
  OBVIOUS
<1>1. MaxChanges \in Nat
  BY FlightAssumption
<1>2. CacheTypeOK
  <2>1. db \in 0 .. MaxChanges /\ entry \in Summary /\ stale \in Summary /\ cacheFaults \in Nat
    BY <1>1 DEF CacheInit, Summary
  <2>2. lock \in BOOLEAN /\ overran \in BOOLEAN
    BY DEF CacheInit
  <2>3. step \in [Requests -> Steps] /\ value \in [Requests -> Summary]
    BY DEF CacheInit, Summary, Steps
  <2> QED
    BY <2>1, <2>2, <2>3 DEF CacheTypeOK
<1>3. Exclusive /\ Forward
  BY DEF CacheInit, Exclusive, Forward, IsWinner
<1> QED
  BY <1>2, <1>3 DEF CacheInv

\* A change of the database makes no summary newer.
LEMMA ChangeInv ==
  ASSUME CacheInv, Change
  PROVE  CacheInv'
<1>1. db' = db + 1 /\ db' \in 0 .. MaxChanges
  BY FlightAssumption DEF Change, CacheInv, CacheTypeOK
<1>2. 0 .. db \subseteq 0 .. db'
  BY <1>1, FlightAssumption DEF CacheInv, CacheTypeOK
<1>3. UNCHANGED <<entry, stale, lock, step, value, overran, cacheFaults>>
  BY DEF Change
<1>4. CacheTypeOK'
  BY <1>1, <1>2, <1>3 DEF CacheInv, CacheTypeOK, Summary, Nothing
<1>5. overran' \/ (Exclusive' /\ Forward')
  BY <1>3 DEF CacheInv, Exclusive, Forward, IsWinner
<1> QED
  BY <1>4, <1>5 DEF CacheInv

LEMMA ExpireInv ==
  ASSUME CacheInv, Expire
  PROVE  CacheInv'
<1>1. UNCHANGED <<db, step, value>>
  BY DEF Expire
<1>2. CacheTypeOK'
  <2>1. entry' \in {entry, Nothing} /\ stale' \in {stale, Nothing}
    BY DEF Expire
  <2>2. lock' \in {lock, FALSE} /\ overran' \in BOOLEAN
    BY DEF Expire, CacheInv, CacheTypeOK
  <2>3. cacheFaults' \in Nat
    BY DEF Expire, CacheFault, CacheInv, CacheTypeOK
  <2> QED
    BY <1>1, <2>1, <2>2, <2>3 DEF CacheInv, CacheTypeOK, Summary, Nothing
<1>3. CASE UNCHANGED <<lock, overran>> /\ stale' \in {stale, Nothing}
  BY <1>1, <1>2, <1>3 DEF CacheInv, Exclusive, Forward, IsWinner, Nothing
<1>4. CASE lock' = FALSE /\ overran' = (overran \/ Winners # {}) /\ stale' = stale
  BY <1>1, <1>2, <1>4 DEF CacheInv, Exclusive, Forward, IsWinner, Winners, Nothing
<1> QED
  BY <1>3, <1>4 DEF Expire

\* A request that neither becomes a winner nor touches the lock while one is at work.
LEMMA LoserInv ==
  ASSUME CacheInv, NEW r \in Requests, NEW next \in Steps \ {"compute", "store", "keep", "release"},
         ~IsWinner(r), step' = [step EXCEPT ![r] = next],
         lock' \in {lock, TRUE}, cacheFaults' \in Nat,
         UNCHANGED <<db, entry, stale, value, overran>>
  PROVE  CacheInv'
<1>1. CacheTypeOK'
  BY DEF CacheInv, CacheTypeOK, Summary, Nothing
<1>2. \A q \in Requests : IsWinner(q)' <=> IsWinner(q)
  BY DEF IsWinner, CacheInv, CacheTypeOK
<1>3. Exclusive => Exclusive'
  BY <1>2 DEF Exclusive, CacheInv, CacheTypeOK
<1>4. Forward => Forward'
  BY DEF Forward, CacheInv, CacheTypeOK, Nothing
<1> QED
  BY <1>1, <1>3, <1>4 DEF CacheInv

\* The steps that lose nothing and win nothing.
LEMMA LosersInv ==
  ASSUME CacheInv, NEW r \in Requests,
         \/ Ask(r) \/ Look(r) \/ Bypass(r) \/ Found(r) \/ GiveUp(r) \/ Fallback(r)
         \/ FallbackFails(r) \/ Direct(r) \/ DirectFails(r)
         \/ AcquireLock(r) /\ lock
  PROVE  CacheInv'
<1>1. /\ ~IsWinner(r) /\ UNCHANGED <<db, entry, stale, value, overran>>
      /\ lock' \in {lock, TRUE} /\ cacheFaults' \in Nat
  <2>1. lock' \in {lock, TRUE}
    BY DEF Ask, Look, Bypass, Found, GiveUp, Fallback, FallbackFails, Direct, DirectFails, AcquireLock
  <2>2. cacheFaults' \in {cacheFaults, cacheFaults + 1} /\ UNCHANGED <<db, entry, stale, value, overran>>
    BY DEF Ask, Look, Bypass, Found, GiveUp, Fallback, FallbackFails, Direct, DirectFails, AcquireLock, CacheFault
  <2>3. ~IsWinner(r)
    BY DEF Ask, Look, Bypass, Found, GiveUp, Fallback, FallbackFails, Direct, DirectFails,
           AcquireLock, IsWinner
  <2>4. cacheFaults' \in Nat
    BY <2>2 DEF CacheInv, CacheTypeOK
  <2> QED
    BY <2>1, <2>2, <2>3, <2>4
<1>2. PICK next \in {"look", "acquire", "direct", "done", "wait", "fallback", "failed"} :
        step' = [step EXCEPT ![r] = next]
  BY DEF Ask, Look, Bypass, Found, GiveUp, Fallback, FallbackFails, Direct, DirectFails,
         AcquireLock, Goes, Answer
<1>3. next \in Steps \ {"compute", "store", "keep", "release"}
  BY DEF Steps
<1> QED
  BY <1>1, <1>2, <1>3, LoserInv

\* The first to set the lock.
LEMMA AcquireInv ==
  ASSUME CacheInv, NEW r \in Requests, AcquireLock(r), ~lock
  PROVE  CacheInv'
<1>1. /\ step' = [step EXCEPT ![r] = "compute"] /\ lock' = TRUE
      /\ UNCHANGED <<db, entry, stale, value, overran, cacheFaults>>
  BY DEF AcquireLock, Goes
<1>2. CacheTypeOK'
  BY <1>1 DEF CacheInv, CacheTypeOK, Summary, Nothing, Steps
<1>3. Exclusive => Exclusive'
  BY <1>1 DEF Exclusive, IsWinner, CacheInv, CacheTypeOK
<1>4. Forward => Forward'
  BY <1>1 DEF Forward, CacheInv, CacheTypeOK, Nothing
<1> QED
  BY <1>1, <1>2, <1>3, <1>4 DEF CacheInv

\* The winner goes on: what it stores is what it has computed.
LEMMA WinnerInv ==
  ASSUME CacheInv, NEW r \in Requests,
         Compute(r) \/ ComputeFails(r) \/ Store(r) \/ Keep(r) \/ StoreFails(r)
  PROVE  CacheInv'
<1>1. PICK next \in {"store", "keep", "release"} : step' = [step EXCEPT ![r] = next]
  BY DEF Compute, ComputeFails, Store, Keep, StoreFails, Goes
<1>2. /\ IsWinner(r) /\ UNCHANGED <<db, lock, overran>> /\ cacheFaults' \in Nat
      /\ entry' \in {entry, value[r]}
      /\ value' = [value EXCEPT ![r] = value'[r]]
  BY DEF Compute, ComputeFails, Store, Keep, StoreFails, Goes, CacheFault, IsWinner, CacheInv, CacheTypeOK
<1>3. /\ step[r] = "compute" => stale' = stale /\ value'[r] \in {db, value[r]}
      /\ step[r] = "compute" /\ next # "release" => value'[r] = db
      /\ step[r] # "compute" => value' = value
      /\ stale' # stale => stale' = value[r] /\ next = "release"
  BY <1>1 DEF Compute, ComputeFails, Store, Keep, StoreFails, Goes, CacheInv, CacheTypeOK
<1>4. CacheTypeOK'
  <2>1. value'[r] \in Summary /\ value[r] \in Summary /\ db \in Nat
    BY <1>2, <1>3, FlightAssumption DEF CacheInv, CacheTypeOK, Summary
  <2>2. stale' \in Summary /\ entry' \in Summary
    BY <1>2, <1>3, <2>1 DEF CacheInv, CacheTypeOK
  <2>3. step' \in [Requests -> Steps]
    BY <1>1 DEF CacheInv, CacheTypeOK, Steps
  <2>4. value' \in [Requests -> Summary]
    BY <1>2, <2>1 DEF CacheInv, CacheTypeOK
  <2> QED
    BY <1>2, <2>2, <2>3, <2>4 DEF CacheInv, CacheTypeOK, Summary, Nothing
<1>5. Exclusive => Exclusive'
  BY <1>1, <1>2 DEF Exclusive, IsWinner, CacheInv, CacheTypeOK
<1>6. ASSUME Exclusive, Forward
      PROVE  Forward'
  <2> SUFFICES ASSUME NEW q \in Requests, step'[q] \in {"store", "keep"}, stale' # Nothing
               PROVE  value'[q] >= stale'
    BY DEF Forward, Nothing
  <2>1. q = r
    BY <1>1, <1>2, <1>6 DEF Exclusive, IsWinner, CacheInv, CacheTypeOK
  <2>2. next # "release" /\ stale' = stale
    BY <1>1, <1>3, <2>1 DEF CacheInv, CacheTypeOK
  <2>3. CASE step[r] = "compute"
    <3>1. value'[q] = db /\ stale \in 0 .. db
      BY <1>3, <2>1, <2>2, <2>3 DEF CacheInv, CacheTypeOK, Summary
    <3> QED
      BY <2>2, <3>1 DEF CacheInv, CacheTypeOK
  <2>4. CASE step[r] # "compute"
    <3>1. step[r] \in {"store", "keep"}
      BY <1>1, <2>1, <2>2, <2>4 DEF Compute, ComputeFails, Store, Keep, StoreFails
    <3> QED
      BY <1>3, <1>6, <2>1, <2>2, <2>4, <3>1 DEF Forward
  <2> QED
    BY <2>3, <2>4
<1> QED
  BY <1>2, <1>4, <1>5, <1>6 DEF CacheInv

\* The winner leaves, with or without its lock.
LEMMA ReleaseInv ==
  ASSUME CacheInv, NEW r \in Requests, ReleaseLock(r) \/ ReleaseFails(r)
  PROVE  CacheInv'
<1>1. PICK next \in {"done", "failed"} : step' = [step EXCEPT ![r] = next]
  BY DEF ReleaseLock, ReleaseFails, Goes, Answer
<1>2. /\ IsWinner(r) /\ lock' \in BOOLEAN /\ cacheFaults' \in Nat
      /\ UNCHANGED <<db, entry, stale, value, overran>>
  <2>1. CASE ReleaseLock(r)
    BY <2>1 DEF ReleaseLock, IsWinner, CacheInv, CacheTypeOK
  <2>2. CASE ReleaseFails(r)
    <3>1. lock' \in {lock, FALSE} /\ IsWinner(r)
      BY <2>2 DEF ReleaseFails, IsWinner
    <3>2. cacheFaults' = cacheFaults + 1 /\ UNCHANGED <<db, entry, stale, value, overran>>
      BY <2>2 DEF ReleaseFails, CacheFault
    <3>3. lock' \in BOOLEAN
      BY <3>1 DEF CacheInv, CacheTypeOK
    <3>4. cacheFaults' \in Nat
      BY <3>2 DEF CacheInv, CacheTypeOK
    <3> QED
      BY <3>1, <3>2, <3>3, <3>4
  <2> QED
    BY <2>1, <2>2
<1>3. CacheTypeOK'
  BY <1>1, <1>2 DEF CacheInv, CacheTypeOK, Summary, Nothing, Steps
<1>4. Exclusive => Exclusive'
  BY <1>1, <1>2 DEF Exclusive, IsWinner, CacheInv, CacheTypeOK
<1>5. Forward => Forward'
  BY <1>1, <1>2 DEF Forward, CacheInv, CacheTypeOK, Nothing
<1> QED
  BY <1>2, <1>3, <1>4, <1>5 DEF CacheInv

\* One request computes, and the cache does not go back.
THEOREM OneWinner == CacheSpec => []SingleWinner
<1>1. CacheInv /\ [CacheNext]_cacheVars => CacheInv'
  <2> SUFFICES ASSUME CacheInv, [CacheNext]_cacheVars
               PROVE  CacheInv'
    OBVIOUS
  <2>1. ASSUME NEW r \in Requests, Ask(r) \/ Step(r) \/ CacheFails(r)
        PROVE  CacheInv'
    BY <2>1, LosersInv, AcquireInv, WinnerInv, ReleaseInv DEF Step, CacheFails
  <2>2. CASE UNCHANGED cacheVars
    BY <2>2 DEF cacheVars, CacheInv, CacheTypeOK, Summary, Nothing, Exclusive, Forward, IsWinner
  <2> QED
    BY <2>1, <2>2, ChangeInv, ExpireInv DEF CacheNext
<1> QED
  BY <1>1, InitInv, InvImplies, PTL DEF CacheSpec
==============================================================================
