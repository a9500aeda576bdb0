---------------------------- MODULE Outbox_proofs ----------------------------
(***************************************************************************)
(* Machine-checked theorems about Outbox, for any number of events and     *)
(* workers, any batch size, attempt limit and number of crashes.           *)
(***************************************************************************)
EXTENDS Outbox, TLAPS

\* What the row locks guarantee: nobody but its holder changes a held row.
LockInv ==
    /\ \A w \in Workers : todo[w] \subseteq held[w]
    /\ \A v, w \in Workers : v # w => held[v] \cap held[w] = {}
    /\ \A w \in Workers : \A e \in held[w] :
          rows[e].status = "PENDING" /\ rows[e].due

\* What a worker's uncommitted copy of a held row may say.
LocalInv ==
    \A w \in Workers : \A e \in held[w] :
        /\ e \in todo[w] => local[w][e] = rows[e]
        /\ local[w][e].status # "ABSENT"
        /\ local[w][e].status = "PUBLISHED" => e \in streamed
        /\ local[w][e].status = "PENDING" => local[w][e].attempts < MaxAttempts
        /\ local[w][e].status = "DEAD_LETTER" => tries[e] >= MaxAttempts
        /\ local[w][e].attempts >= rows[e].attempts
        /\ local[w][e].attempts <= tries[e]

\* What a committed row says about the domain transaction and the stream.
RowInv ==
    \A e \in Events :
        /\ rows[e].status # "ABSENT" => Committed(e)
        /\ rows[e].status = "PUBLISHED" => e \in streamed
        /\ rows[e].status = "ABSENT" /\ Committed(e) => e \in streamed
        /\ rows[e].status = "PENDING" => rows[e].attempts < MaxAttempts
        /\ rows[e].status = "DEAD_LETTER" => tries[e] >= MaxAttempts
        /\ rows[e].attempts <= tries[e]

IInv == TypeOK /\ NoPhantomEvent /\ LockInv /\ LocalInv /\ RowInv

------------------------------------------------------------------------------
\* Marking a row as sent changes its status only.
LEMMA SentRowFacts ==
  ASSUME NEW r \in Row
  PROVE  /\ SentRow(r) \in Row
         /\ SentRow(r).status = "PUBLISHED"
         /\ SentRow(r).attempts = r.attempts
  BY DEF SentRow, Row, Statuses

\* A failed attempt counts one attempt, and dead-letters only the last one.
LEMMA FailedRowFacts ==
  ASSUME NEW r \in Row, r.status = "PENDING", r.attempts < MaxAttempts
  PROVE  /\ FailedRow(r) \in Row
         /\ FailedRow(r).attempts = r.attempts + 1
         /\ FailedRow(r).status \in {"PENDING", "DEAD_LETTER"}
         /\ FailedRow(r).status = "PENDING" => r.attempts + 1 < MaxAttempts
         /\ FailedRow(r).status = "DEAD_LETTER" => r.attempts + 1 >= MaxAttempts
  BY AttemptsAssumption DEF FailedRow, Row, Statuses

\* The rows the model starts from: an absent one, and a new PENDING one.
LEMMA RowConstants ==
  /\ NoRow \in Row /\ FreshRow \in Row
  /\ NoRow.status = "ABSENT" /\ NoRow.attempts = 0
  /\ FreshRow.status = "PENDING" /\ FreshRow.attempts = 0 /\ FreshRow.due
  BY AttemptsAssumption DEF NoRow, FreshRow, Row, Statuses

\* The initial state satisfies the inductive invariant.
LEMMA InitIInv == Init => IInv
  <1> SUFFICES ASSUME Init PROVE IInv
    OBVIOUS
  <1>1. TypeOK
    BY RowConstants, AbortsAssumption DEF Init, TypeOK
  <1>2. NoPhantomEvent /\ LockInv /\ LocalInv
    BY DEF Init, NoPhantomEvent, LockInv, LocalInv
  <1>3. RowInv
    BY RowConstants DEF Init, RowInv, Committed
  <1> QED
    BY <1>1, <1>2, <1>3 DEF IInv

\* A step of a producer preserves the invariant.
LEMMA ProduceIInv ==
  ASSUME IInv, NEW e \in Events, Produce(e)
  PROVE  IInv'
  <1> USE RowConstants
  <1>1. CASE Stage(e)
    BY <1>1 DEF IInv, Stage, TypeOK, NoPhantomEvent, LockInv, LocalInv, RowInv, Committed
  <1>2. CASE CommitDomain(e)
    <2>1. rows[e].status = "ABSENT"
      BY <1>2 DEF IInv, CommitDomain, RowInv, Committed
    <2>2. \A w \in Workers : e \notin held[w]
      BY <2>1 DEF IInv, LockInv
    <2>3. TypeOK'
      BY <1>2 DEF IInv, CommitDomain, TypeOK
    <2>4. NoPhantomEvent'
      BY <1>2 DEF IInv, CommitDomain, TypeOK, NoPhantomEvent, Committed
    <2>5. /\ \A f \in Events : f # e => rows'[f] = rows[f]
          /\ rows'[e] = FreshRow
      BY <1>2 DEF IInv, CommitDomain, TypeOK
    <2>6. LockInv' /\ LocalInv'
      BY <1>2, <2>2, <2>5 DEF IInv, CommitDomain, TypeOK, LockInv, LocalInv
    <2>7. RowInv'
      BY <1>2, <2>5, AttemptsAssumption DEF IInv, CommitDomain, TypeOK, RowInv, Committed
    <2> QED
      BY <2>3, <2>4, <2>6, <2>7 DEF IInv
  <1>3. CASE RollbackDomain(e)
    BY <1>3 DEF IInv, RollbackDomain, TypeOK, NoPhantomEvent, LockInv, LocalInv, RowInv,
                Committed
  <1>4. CASE FastPath(e)
    BY <1>4 DEF IInv, FastPath, TypeOK, NoPhantomEvent, LockInv, LocalInv, RowInv, Committed
  <1> QED
    BY <1>1, <1>2, <1>3, <1>4 DEF Produce

\* Time reaching next_retry_at preserves the invariant: the row is not held.
LEMMA RetryDueIInv ==
  ASSUME IInv, NEW e \in Events, RetryDue(e)
  PROVE  IInv'
  <1>1. \A w \in Workers : e \notin held[w]
    BY DEF IInv, RetryDue, LockInv
  <1>2. rows[e] \in Row
    BY DEF IInv, TypeOK
  <1>3. /\ \A f \in Events : f # e => rows'[f] = rows[f]
        /\ rows'[e] \in Row
        /\ rows'[e].status = rows[e].status
        /\ rows'[e].attempts = rows[e].attempts
    BY <1>2 DEF IInv, RetryDue, TypeOK, Row
  <1>4. TypeOK'
    BY <1>2 DEF IInv, RetryDue, TypeOK, Row
  <1>5. NoPhantomEvent' /\ LockInv' /\ LocalInv'
    BY <1>1, <1>3 DEF IInv, RetryDue, TypeOK, NoPhantomEvent, LockInv, LocalInv, Committed
  <1>6. RowInv'
    BY <1>3 DEF IInv, RetryDue, RowInv, Committed
  <1> QED
    BY <1>4, <1>5, <1>6 DEF IInv

\* The batch is drawn from rows that are PENDING, due and held by nobody.
LEMMA OldestSubset ==
  ASSUME NEW S, NEW k
  PROVE  Oldest(S, k) \subseteq S
  BY DEF Oldest

\* Selecting a batch preserves the invariant.
LEMMA SelectBatchIInv ==
  ASSUME IInv, NEW w \in Workers, SelectBatch(w)
  PROVE  IInv'
  <1> DEFINE batch == Oldest(Selectable, BatchSize)
  <1>1. /\ batch \subseteq Events
        /\ \A e \in batch : /\ rows[e].status = "PENDING"
                            /\ rows[e].due
                            /\ \A v \in Workers : e \notin held[v]
    BY OldestSubset DEF Selectable, Locked
  <1>2. /\ held' = [held EXCEPT ![w] = batch]
        /\ todo' = [todo EXCEPT ![w] = batch]
        /\ local' = [local EXCEPT ![w] =
                       [e \in Events |-> IF e \in batch THEN rows[e] ELSE NoRow]]
        /\ UNCHANGED <<producer, rows, streamed, tries, aborts>>
    BY DEF SelectBatch
  <1> HIDE DEF batch
  <1>3. TypeOK'
    <2>1. [e \in Events |-> IF e \in batch THEN rows[e] ELSE NoRow] \in [Events -> Row]
      BY RowConstants DEF IInv, TypeOK
    <2> QED
      BY <1>1, <1>2, <2>1 DEF IInv, TypeOK
  <1>4. LockInv'
    BY <1>1, <1>2 DEF IInv, TypeOK, LockInv
  <1>5. LocalInv'
    <2>1. \A e \in batch : local'[w][e] = rows[e]
      BY <1>1, <1>2 DEF IInv, TypeOK
    <2>2. \A v \in Workers : v # w => held'[v] = held[v] /\ local'[v] = local[v]
                                      /\ todo'[v] = todo[v]
      BY <1>2 DEF IInv, TypeOK
    <2>3. held'[w] = batch
      BY <1>2 DEF IInv, TypeOK
    <2>4. \A e \in batch : rows[e] \in Row
      BY <1>1 DEF IInv, TypeOK
    <2>5. \A e \in batch : rows[e].attempts \in Nat
      BY <2>4, AttemptsAssumption DEF Row
    <2>6. \A e \in batch :
             /\ rows[e].status = "PENDING" /\ rows[e].attempts < MaxAttempts
             /\ rows[e].attempts <= tries[e]
      BY <1>1 DEF IInv, RowInv
    <2> SUFFICES ASSUME NEW v \in Workers, NEW e \in held'[v]
                 PROVE  /\ e \in todo'[v] => local'[v][e] = rows[e]
                        /\ local'[v][e].status # "ABSENT"
                        /\ local'[v][e].status = "PUBLISHED" => e \in streamed
                        /\ local'[v][e].status = "PENDING"
                             => local'[v][e].attempts < MaxAttempts
                        /\ local'[v][e].status = "DEAD_LETTER" => tries[e] >= MaxAttempts
                        /\ local'[v][e].attempts >= rows[e].attempts
                        /\ local'[v][e].attempts <= tries[e]
      BY <1>2 DEF LocalInv
    <2>7. CASE v = w
      BY <2>1, <2>3, <2>5, <2>6, <2>7
    <2>8. CASE v # w
      BY <2>2, <2>8 DEF IInv, LocalInv
    <2> QED
      BY <2>7, <2>8
  <1>6. NoPhantomEvent' /\ RowInv'
    BY <1>2 DEF IInv, NoPhantomEvent, RowInv, Committed
  <1> QED
    BY <1>3, <1>4, <1>5, <1>6 DEF IInv

\* One XADD, successful or not, preserves the invariant.
LEMMA PublishIInv ==
  ASSUME IInv, NEW w \in Workers, NEW e \in Events, Publish(w, e)
  PROVE  IInv'
  <1> DEFINE old == local[w][e]
  <1>1. /\ e \in todo[w] /\ e \in held[w]
        /\ old = rows[e] /\ old \in Row
        /\ old.status = "PENDING" /\ old.attempts < MaxAttempts
        /\ old.attempts \in Nat /\ old.attempts <= tries[e] /\ tries[e] \in Nat
        /\ Committed(e)
    <2>1. e \in todo[w] /\ e \in held[w]
      BY DEF IInv, LockInv, Publish, XaddOk, XaddFails, IsNext
    <2>2. old = rows[e] /\ old \in Row /\ old.status = "PENDING"
      BY <2>1 DEF IInv, LockInv, LocalInv, TypeOK
    <2>3. old.attempts \in Nat
      BY <2>2, AttemptsAssumption DEF Row
    <2> QED
      BY <2>1, <2>2, <2>3 DEF IInv, RowInv, TypeOK
  <1>2. PICK new \in Row :
          /\ local' = [local EXCEPT ![w][e] = new]
          /\ new.status # "ABSENT"
          /\ new.status = "PUBLISHED" => e \in streamed'
          /\ new.status = "PENDING" => new.attempts < MaxAttempts
          /\ new.status = "DEAD_LETTER" => tries[e] + 1 >= MaxAttempts
          /\ new.attempts \in Nat
          /\ new.attempts >= old.attempts
          /\ new.attempts <= tries[e] + 1
    <2>1. CASE XaddOk(w, e)
      <3>1. local' = [local EXCEPT ![w][e] = SentRow(old)] /\ e \in streamed'
        BY <2>1 DEF XaddOk
      <3>2. /\ SentRow(old) \in Row
            /\ SentRow(old).status = "PUBLISHED"
            /\ SentRow(old).attempts = old.attempts
        BY <1>1, SentRowFacts
      <3> HIDE DEF old
      <3>3. /\ SentRow(old).attempts \in Nat
            /\ SentRow(old).attempts >= old.attempts
            /\ SentRow(old).attempts <= tries[e] + 1
        BY <1>1, <3>2
      <3> QED
        BY <3>1, <3>2, <3>3
    <2>2. CASE XaddFails(w, e)
      <3>1. local' = [local EXCEPT ![w][e] = FailedRow(old)]
        BY <2>2 DEF XaddFails
      <3>2. /\ FailedRow(old) \in Row
            /\ FailedRow(old).attempts = old.attempts + 1
            /\ FailedRow(old).status \in {"PENDING", "DEAD_LETTER"}
            /\ FailedRow(old).status = "PENDING" => old.attempts + 1 < MaxAttempts
            /\ FailedRow(old).status = "DEAD_LETTER" => old.attempts + 1 >= MaxAttempts
        BY <1>1, FailedRowFacts
      <3> HIDE DEF old
      <3>3. /\ FailedRow(old).attempts \in Nat
            /\ FailedRow(old).attempts >= old.attempts
            /\ FailedRow(old).attempts <= tries[e] + 1
            /\ FailedRow(old).status = "PENDING" => FailedRow(old).attempts < MaxAttempts
            /\ FailedRow(old).status = "DEAD_LETTER" => tries[e] + 1 >= MaxAttempts
        BY <1>1, <3>2, AttemptsAssumption
      <3> QED
        BY <3>1, <3>2, <3>3
    <2> QED
      BY <2>1, <2>2 DEF Publish
  <1>3. /\ todo' = [todo EXCEPT ![w] = @ \ {e}]
        /\ tries' = [tries EXCEPT ![e] = @ + 1]
        /\ streamed \subseteq streamed' /\ streamed' \subseteq streamed \cup {e}
        /\ UNCHANGED <<producer, rows, held, aborts>>
    BY DEF Publish, XaddOk, XaddFails
  <1> HIDE DEF old
  <1>4. TypeOK'
    BY <1>2, <1>3 DEF IInv, TypeOK
  <1>5. NoPhantomEvent'
    BY <1>1, <1>3 DEF IInv, NoPhantomEvent, Committed
  <1>6. LockInv'
    BY <1>3 DEF IInv, TypeOK, LockInv
  <1>7. /\ tries'[e] = tries[e] + 1
        /\ \A f \in Events : f # e => tries'[f] = tries[f]
        /\ \A f \in Events : tries[f] \in Nat /\ tries'[f] >= tries[f]
    BY <1>3 DEF IInv, TypeOK
  <1>8. LocalInv'
    <2> SUFFICES ASSUME NEW v \in Workers, NEW f \in held[v]
                 PROVE  /\ f \in todo'[v] => local'[v][f] = rows[f]
                        /\ local'[v][f].status # "ABSENT"
                        /\ local'[v][f].status = "PUBLISHED" => f \in streamed'
                        /\ local'[v][f].status = "PENDING"
                             => local'[v][f].attempts < MaxAttempts
                        /\ local'[v][f].status = "DEAD_LETTER" => tries'[f] >= MaxAttempts
                        /\ local'[v][f].attempts >= rows[f].attempts
                        /\ local'[v][f].attempts <= tries'[f]
      BY <1>3 DEF LocalInv
    <2>1. f \in Events
      BY DEF IInv, TypeOK
    <2>2. CASE v = w /\ f = e
      <3>1. local'[v][f] \in Row /\ e \notin todo'[w]
        BY <1>2, <1>3, <2>2 DEF IInv, TypeOK
      <3> QED
        BY <1>1, <1>2, <1>7, <2>2, <3>1 DEF IInv, TypeOK
    <2>3. CASE ~(v = w /\ f = e)
      <3>1. local'[v][f] = local[v][f] /\ (f \in todo'[v] => f \in todo[v])
        BY <1>2, <1>3, <2>1, <2>3 DEF IInv, TypeOK
      <3>2. local[v][f].attempts \in Nat
        BY <2>1, AttemptsAssumption DEF IInv, TypeOK, Row
      <3> QED
        BY <1>3, <1>7, <2>1, <3>1, <3>2, AttemptsAssumption DEF IInv, LocalInv
    <2> QED
      BY <2>2, <2>3
  <1>9. RowInv'
    <2> SUFFICES ASSUME NEW f \in Events
                 PROVE  /\ rows[f].status # "ABSENT" => Committed(f)
                        /\ rows[f].status = "PUBLISHED" => f \in streamed'
                        /\ rows[f].status = "ABSENT" /\ Committed(f) => f \in streamed'
                        /\ rows[f].status = "PENDING" => rows[f].attempts < MaxAttempts
                        /\ rows[f].status = "DEAD_LETTER" => tries'[f] >= MaxAttempts
                        /\ rows[f].attempts <= tries'[f]
      BY <1>3 DEF RowInv, Committed
    <2>1. rows[f].attempts \in Nat
      BY AttemptsAssumption DEF IInv, TypeOK, Row
    <2> QED
      BY <1>3, <1>7, <2>1, AttemptsAssumption DEF IInv, RowInv
  <1> QED
    BY <1>4, <1>5, <1>6, <1>8, <1>9 DEF IInv

\* Committing a batch writes the local copies and releases the locks.
LEMMA CommitBatchIInv ==
  ASSUME IInv, NEW w \in Workers, CommitBatch(w)
  PROVE  IInv'
  <1> USE RowConstants
  <1>1. /\ rows' = [e \in Events |-> IF e \in held[w] THEN local[w][e] ELSE rows[e]]
        /\ held' = [held EXCEPT ![w] = {}]
        /\ local' = [local EXCEPT ![w] = [e \in Events |-> NoRow]]
        /\ todo[w] = {}
        /\ UNCHANGED <<producer, streamed, todo, tries, aborts>>
    BY DEF CommitBatch
  <1>2. /\ \A e \in Events : e \in held[w] => rows'[e] = local[w][e]
        /\ \A e \in Events : e \notin held[w] => rows'[e] = rows[e]
        /\ \A v \in Workers : v # w => held'[v] = held[v] /\ local'[v] = local[v]
        /\ held'[w] = {}
    BY <1>1 DEF IInv, TypeOK
  <1>3. TypeOK'
    BY <1>1 DEF IInv, TypeOK
  <1>4. LockInv'
    BY <1>1, <1>2 DEF IInv, TypeOK, LockInv
  <1>5. LocalInv'
    <2>1. \A v \in Workers : \A e \in held'[v] :
             v # w /\ e \in Events /\ e \in held[v] /\ rows'[e] = rows[e]
      BY <1>2 DEF IInv, TypeOK, LockInv
    <2> SUFFICES ASSUME NEW v \in Workers, NEW e \in held'[v]
                 PROVE  /\ e \in todo'[v] => local'[v][e] = rows'[e]
                        /\ local'[v][e].status # "ABSENT"
                        /\ local'[v][e].status = "PUBLISHED" => e \in streamed'
                        /\ local'[v][e].status = "PENDING"
                             => local'[v][e].attempts < MaxAttempts
                        /\ local'[v][e].status = "DEAD_LETTER" => tries'[e] >= MaxAttempts
                        /\ local'[v][e].attempts >= rows'[e].attempts
                        /\ local'[v][e].attempts <= tries'[e]
      BY DEF LocalInv
    <2>2. /\ local'[v] = local[v] /\ todo'[v] = todo[v] /\ streamed' = streamed
          /\ tries' = tries /\ rows'[e] = rows[e] /\ e \in held[v]
      BY <1>1, <1>2, <2>1
    <2> QED
      BY <2>2 DEF IInv, LocalInv
  <1>6. NoPhantomEvent'
    BY <1>1 DEF IInv, NoPhantomEvent, Committed
  <1>7. RowInv'
    <2> SUFFICES ASSUME NEW e \in Events
                 PROVE  /\ rows'[e].status # "ABSENT" => Committed(e)
                        /\ rows'[e].status = "PUBLISHED" => e \in streamed
                        /\ rows'[e].status = "ABSENT" /\ Committed(e) => e \in streamed
                        /\ rows'[e].status = "PENDING" => rows'[e].attempts < MaxAttempts
                        /\ rows'[e].status = "DEAD_LETTER" => tries[e] >= MaxAttempts
                        /\ rows'[e].attempts <= tries[e]
      BY <1>1 DEF RowInv, Committed
    <2>1. CASE e \in held[w]
      <3>1. rows[e].status = "PENDING" /\ Committed(e)
        BY <2>1 DEF IInv, LockInv, RowInv
      <3> QED
        BY <1>2, <2>1, <3>1 DEF IInv, LocalInv
    <2>2. CASE e \notin held[w]
      BY <1>2, <2>2 DEF IInv, RowInv
    <2> QED
      BY <2>1, <2>2
  <1> QED
    BY <1>3, <1>4, <1>5, <1>6, <1>7 DEF IInv

\* Losing a batch leaves the table as it was and releases the locks.
LEMMA AbortBatchIInv ==
  ASSUME IInv, NEW w \in Workers, AbortBatch(w)
  PROVE  IInv'
  <1> USE RowConstants
  <1>1. TypeOK'
    BY AbortsAssumption DEF IInv, AbortBatch, TypeOK
  <1>2. NoPhantomEvent' /\ RowInv'
    BY DEF IInv, AbortBatch, NoPhantomEvent, RowInv, Committed
  <1>3. LockInv' /\ LocalInv'
    BY DEF IInv, AbortBatch, TypeOK, LockInv, LocalInv
  <1> QED
    BY <1>1, <1>2, <1>3 DEF IInv

\* Pruning removes published rows only, and nobody holds those.
LEMMA PruneIInv ==
  ASSUME IInv, NEW w \in Workers, NEW old \in SUBSET Prunable, Prune(w, old)
  PROVE  IInv'
  <1> USE RowConstants
  <1>1. /\ \A e \in old : e \in Events /\ rows[e].status = "PUBLISHED"
        /\ \A e \in old : rows'[e] = NoRow
        /\ \A e \in Events : e \notin old => rows'[e] = rows[e]
    BY DEF Prune, Prunable
  <1>2. \A v \in Workers : \A e \in held[v] : e \in Events /\ rows'[e] = rows[e]
    BY <1>1 DEF IInv, TypeOK, LockInv
  <1>3. TypeOK'
    BY <1>1 DEF IInv, Prune, TypeOK
  <1>4. NoPhantomEvent' /\ LockInv' /\ LocalInv'
    BY <1>2 DEF IInv, Prune, NoPhantomEvent, LockInv, LocalInv, Committed
  <1>5. RowInv'
    BY <1>1 DEF IInv, Prune, TypeOK, RowInv, Committed
  <1> QED
    BY <1>3, <1>4, <1>5 DEF IInv

\* Every step, and every stutter, preserves the inductive invariant.
LEMMA NextIInv == IInv /\ [Next]_vars => IInv'
  <1> SUFFICES ASSUME IInv, [Next]_vars PROVE IInv'
    OBVIOUS
  <1>1. ASSUME NEW e \in Events, Produce(e) PROVE IInv'
    BY <1>1, ProduceIInv
  <1>2. ASSUME NEW e \in Events, RetryDue(e) PROVE IInv'
    BY <1>2, RetryDueIInv
  <1>3. ASSUME NEW w \in Workers, Work(w) PROVE IInv'
    BY <1>3, SelectBatchIInv, CommitBatchIInv, PublishIInv DEF Work
  <1>4. ASSUME NEW w \in Workers, AbortBatch(w) PROVE IInv'
    BY <1>4, AbortBatchIInv
  <1>5. ASSUME NEW w \in Workers, NEW old \in SUBSET Prunable, Prune(w, old) PROVE IInv'
    BY <1>5, PruneIInv
  <1>6. CASE UNCHANGED vars
    BY <1>6 DEF vars, IInv, TypeOK, NoPhantomEvent, LockInv, LocalInv, RowInv, Committed
  <1> QED
    BY <1>1, <1>2, <1>3, <1>4, <1>5, <1>6 DEF Next

\* The invariant holds in every behaviour of the outbox.
LEMMA SpecIInv == Spec => []IInv
  BY InitIInv, NextIInv, PTL DEF Spec

------------------------------------------------------------------------------
(* The theorems.                                                           *)

\* Every variable keeps its type: in particular no row ever records more than
\* max_attempts attempts (publish_pending_batch).
THEOREM TypeCorrect == Spec => []TypeOK
  BY SpecIInv, PTL DEF IInv

\* No stream carries an event whose domain transaction did not commit
\* (stage_event in the caller's transaction, publish_staged_outbox after it).
THEOREM NoPhantom == Spec => []NoPhantomEvent
  BY SpecIInv, PTL DEF IInv

\* A committed event that no stream has seen is still PENDING or DEAD_LETTER
\* in the table, whatever crashes, lost replies and pruning did.
THEOREM NothingLost == Spec => []NoEventLost
  <1>1. IInv => NoEventLost
    BY DEF IInv, TypeOK, Row, Statuses, RowInv, NoEventLost
  <1> QED
    BY <1>1, SpecIInv, PTL

\* A dead-lettered row cost at least max_attempts XADD calls.
THEOREM DeadLetterCost == Spec => []DeadLetterExhausted
  <1>1. IInv => DeadLetterExhausted
    BY DEF IInv, RowInv, DeadLetterExhausted
  <1> QED
    BY <1>1, SpecIInv, PTL

\* Workers never undo each other: SKIP LOCKED and the single commit keep
\* published and dead-lettered rows final and attempts monotone.
THEOREM RowsNeverRegress == Spec => NoRowRegresses
  <1> DEFINE Step ==
        \A e \in Events :
          /\ rows[e].status \in {"PUBLISHED", "DEAD_LETTER"} =>
               rows'[e].status \in {rows[e].status, "ABSENT"}
          /\ rows[e].status = "PENDING" => rows'[e].attempts >= rows[e].attempts
  <1>1. IInv /\ [Next]_vars => Step \/ UNCHANGED vars
    <2> SUFFICES ASSUME IInv, Next, NEW e \in Events
                 PROVE  /\ rows[e].status \in {"PUBLISHED", "DEAD_LETTER"} =>
                             rows'[e].status \in {rows[e].status, "ABSENT"}
                        /\ rows[e].status = "PENDING" =>
                             rows'[e].attempts >= rows[e].attempts
      OBVIOUS
    <2>0. rows[e].attempts \in Nat
      BY AttemptsAssumption DEF IInv, TypeOK, Row
    <2>1. CASE rows'[e] = rows[e]
      BY <2>0, <2>1
    <2>2. ASSUME NEW f \in Events, CommitDomain(f) PROVE rows'[e] = rows[e] \/ rows[e].status = "ABSENT"
      BY <2>2 DEF IInv, TypeOK, CommitDomain, RowInv, Committed
    <2>3. ASSUME NEW f \in Events, RetryDue(f)
          PROVE  rows'[e].status = rows[e].status /\ rows'[e].attempts = rows[e].attempts
      <3>1. rows[e] \in Row
        BY DEF IInv, TypeOK
      <3> QED
        BY <2>3, <3>1 DEF IInv, TypeOK, RetryDue, Row
    <2>4. ASSUME NEW w \in Workers, CommitBatch(w)
          PROVE  \/ rows'[e] = rows[e]
                 \/ rows[e].status = "PENDING" /\ rows'[e].attempts >= rows[e].attempts
      BY <2>4 DEF IInv, TypeOK, LockInv, LocalInv, CommitBatch
    <2>5. ASSUME NEW w \in Workers, NEW old \in SUBSET Prunable, Prune(w, old)
          PROVE  \/ rows'[e] = rows[e]
                 \/ rows[e].status = "PUBLISHED" /\ rows'[e].status = "ABSENT"
      BY <2>5, RowConstants DEF Prune, Prunable
    <2>6. ASSUME NEW w \in Workers,
                 SelectBatch(w) \/ AbortBatch(w) \/ \E f \in Events : Publish(w, f)
          PROVE  rows'[e] = rows[e]
      BY <2>6 DEF SelectBatch, AbortBatch, Publish, XaddOk, XaddFails
    <2>7. ASSUME NEW f \in Events, Stage(f) \/ RollbackDomain(f) \/ FastPath(f)
          PROVE  rows'[e] = rows[e]
      BY <2>7 DEF Stage, RollbackDomain, FastPath
    <2> QED
      BY <2>0, <2>1, <2>2, <2>3, <2>4, <2>5, <2>6, <2>7 DEF Next, Produce, Work
  <1> QED
    BY <1>1, SpecIInv, PTL DEF Spec, NoRowRegresses

\* The outbox implements at-least-once delivery: each of its steps accepts an
\* event, delivers an accepted one, abandons dead-lettered ones, or is
\* invisible to the platform.
THEOREM ImplementsAtLeastOnce == Spec => DeliverySpec
  <1> DEFINE accepted    == {e \in Events : Committed(e)}
             outstanding == {e \in Events : rows[e].status = "PENDING"}
             abandoned   == {e \in Events : rows[e].status = "DEAD_LETTER"}
             view        == <<accepted, outstanding, streamed, abandoned>>
  <1>1. Init => Delivery!Init
    BY RowConstants DEF Init, Delivery!Init, Committed
  <1>2. IInv /\ [Next]_vars => [Delivery!Next]_Delivery!vars
    <2> SUFFICES ASSUME IInv, [Next]_vars
                 PROVE  Delivery!Next \/ UNCHANGED Delivery!vars
      OBVIOUS
    <2> USE RowConstants
    <2>1. ASSUME NEW e \in Events, Stage(e) \/ RollbackDomain(e)
          PROVE  UNCHANGED view
      BY <2>1 DEF Stage, RollbackDomain, IInv, TypeOK, Committed
    <2>2. ASSUME NEW e \in Events, CommitDomain(e)
          PROVE  Delivery!Accept(e)
      <3>1. \A f \in Events : Committed(f)' <=> Committed(f) \/ f = e
        BY <2>2 DEF CommitDomain, IInv, TypeOK, Committed
      <3>2. \A f \in Events :
              /\ rows'[f].status = "DEAD_LETTER" <=> rows[f].status = "DEAD_LETTER"
              /\ rows'[f].status = "PENDING" <=> rows[f].status = "PENDING" \/ f = e
        BY <2>2 DEF CommitDomain, IInv, TypeOK, RowInv, Committed
      <3>3. ~Committed(e) /\ streamed' = streamed
        BY <2>2 DEF CommitDomain, Committed
      <3> QED
        BY <3>1, <3>2, <3>3 DEF Delivery!Accept
    <2>3. ASSUME NEW e \in Events, FastPath(e)
          PROVE  Delivery!Deliver(e) \/ UNCHANGED view
      <3>1. \A f \in Events : Committed(f)' <=> Committed(f)
        BY <2>3 DEF FastPath, IInv, TypeOK, Committed
      <3> QED
        BY <2>3, <3>1 DEF FastPath, Delivery!Deliver, Committed
    <2>4. ASSUME NEW w \in Workers, NEW e \in Events, Publish(w, e)
          PROVE  Delivery!Deliver(e) \/ UNCHANGED view
      <3>1. Committed(e)
        BY <2>4 DEF Publish, XaddOk, XaddFails, IsNext, IInv, LockInv, RowInv
      <3> QED
        BY <2>4, <3>1 DEF Publish, XaddOk, XaddFails, Delivery!Deliver, Committed
    <2>5. ASSUME NEW w \in Workers, CommitBatch(w),
                 NEW A, A = {e \in held[w] : local[w][e].status = "DEAD_LETTER"},
                 NEW S, S = {e \in held[w] : local[w][e].status # "PENDING"}
          PROVE  Delivery!Settle(A, S)
      <3>1. \A e \in held[w] : e \in Events /\ Committed(e) /\ rows[e].status = "PENDING"
        BY DEF IInv, TypeOK, LockInv, RowInv
      <3>2. \A e \in Events :
              /\ rows'[e].status = "DEAD_LETTER" <=> rows[e].status = "DEAD_LETTER" \/ e \in A
              /\ rows'[e].status = "PENDING" <=> rows[e].status = "PENDING" /\ e \notin S
        BY <2>5, <3>1 DEF CommitBatch
      <3>3. producer' = producer /\ streamed' = streamed
        BY <2>5 DEF CommitBatch
      <3>4. \A e \in S : e \in streamed \/ e \in A
        <4>1. \A e \in S : local[w][e] \in Row /\ local[w][e].status # "ABSENT"
                           /\ (local[w][e].status = "PUBLISHED" => e \in streamed)
          BY <2>5, <3>1 DEF IInv, TypeOK, LocalInv
        <4> QED
          BY <2>5, <4>1 DEF Row, Statuses
      <3>5. A \subseteq accepted
        BY <2>5, <3>1
      <3>6. abandoned' = abandoned \cup A /\ outstanding' = outstanding \ S
        BY <2>5, <3>1, <3>2
      <3> QED
        BY <3>3, <3>4, <3>5, <3>6 DEF Delivery!Settle, Committed
    <2>6. ASSUME NEW w \in Workers, SelectBatch(w) \/ AbortBatch(w)
          PROVE  UNCHANGED view
      BY <2>6 DEF SelectBatch, AbortBatch, Committed
    <2>7. ASSUME NEW e \in Events, RetryDue(e)
          PROVE  UNCHANGED view
      <3>1. rows[e] \in Row
        BY DEF IInv, TypeOK
      <3>2. \A f \in Events : rows'[f].status = rows[f].status
        BY <2>7, <3>1 DEF RetryDue, IInv, TypeOK, Row
      <3> QED
        BY <2>7, <3>2 DEF RetryDue, Committed
    <2>8. ASSUME NEW w \in Workers, NEW old \in SUBSET Prunable, Prune(w, old)
          PROVE  UNCHANGED view
      BY <2>8 DEF Prune, Prunable, Committed
    <2>9. CASE UNCHANGED vars
      BY <2>9 DEF vars, Delivery!vars, Committed
    <2> HIDE DEF view
    <2>10. ASSUME NEW e \in Events, Produce(e)
           PROVE  Delivery!Next \/ UNCHANGED view
      BY <2>1, <2>2, <2>3, <2>10 DEF Produce, Delivery!Next
    <2>11. ASSUME NEW w \in Workers, CommitBatch(w)
           PROVE  Delivery!Next
      <3>1. PICK A \in SUBSET Events :
              A = {e \in held[w] : local[w][e].status = "DEAD_LETTER"}
        BY DEF IInv, TypeOK
      <3>2. PICK S \in SUBSET Events :
              S = {e \in held[w] : local[w][e].status # "PENDING"}
        BY DEF IInv, TypeOK
      <3>3. Delivery!Settle(A, S)
        BY <2>5, <2>11, <3>1, <3>2
      <3> QED
        BY <3>3 DEF Delivery!Next
    <2>12. ASSUME NEW w \in Workers, Work(w)
           PROVE  Delivery!Next \/ UNCHANGED view
      BY <2>4, <2>6, <2>11, <2>12 DEF Work, Delivery!Next
    <2>13. Delivery!Next \/ UNCHANGED view \/ UNCHANGED Delivery!vars
      BY <2>6, <2>7, <2>8, <2>9, <2>10, <2>12 DEF Next
    <2> QED
      BY <2>13 DEF Delivery!vars, view
  <1> QED
    BY <1>1, <1>2, SpecIInv, PTL DEF Spec, DeliverySpec, Delivery!Spec
==============================================================================
