------------------------------- MODULE Outbox --------------------------------
(***************************************************************************)
(* The transactional outbox: a domain transaction stages a row in          *)
(* realtime_outbox (services/realtime_service.py), commits, and tries one  *)
(* fast-path XADD; outbox workers (workers/outbox_worker.py) select due    *)
(* PENDING rows FOR UPDATE SKIP LOCKED, XADD each one, and commit the      *)
(* whole batch once.  A worker may die anywhere between the select and the *)
(* commit, and an XADD may fail before or after Redis applied it.          *)
(*                                                                         *)
(* An event is the number of its row in created_at order.                  *)
(***************************************************************************)
EXTENDS Naturals, FiniteSets

CONSTANTS
    Events,        \* outbox rows, numbered by created_at
    Workers,       \* outbox worker processes
    MaxAttempts,   \* row.max_attempts
    BatchSize,     \* OUTBOX_WORKER_BATCH_SIZE
    MaxAborts      \* bound on crashes and failed commits

ASSUME EventsAssumption   == Events \subseteq Nat
ASSUME AttemptsAssumption == MaxAttempts \in Nat \ {0}
ASSUME BatchAssumption    == BatchSize \in Nat \ {0}
ASSUME AbortsAssumption   == MaxAborts \in Nat

VARIABLES
    producer,  \* progress of the transaction that stages each event
    rows,      \* committed contents of realtime_outbox
    streamed,  \* events some XADD has appended to a Redis stream
    held,      \* rows each worker has locked FOR UPDATE
    todo,      \* rows of the batch it has not tried yet
    local,     \* its uncommitted copies of the rows it holds
    tries,     \* history: XADD calls made for each row by the workers
    aborts     \* transactions lost so far, bounded by MaxAborts

vars == <<producer, rows, streamed, held, todo, local, tries, aborts>>

Statuses == {"ABSENT", "PENDING", "PUBLISHED", "DEAD_LETTER"}

\* due: next_retry_at is NULL or has passed.
Row == [status : Statuses, attempts : 0..MaxAttempts, due : BOOLEAN]

NoRow    == [status |-> "ABSENT", attempts |-> 0, due |-> FALSE]
FreshRow == [status |-> "PENDING", attempts |-> 0, due |-> TRUE]

Committed(e) == producer[e] \in {"committed", "done"}

Init ==
    /\ producer = [e \in Events |-> "idle"]
    /\ rows = [e \in Events |-> NoRow]
    /\ streamed = {}
    /\ held = [w \in Workers |-> {}]
    /\ todo = [w \in Workers |-> {}]
    /\ local = [w \in Workers |-> [e \in Events |-> NoRow]]
    /\ tries = [e \in Events |-> 0]
    /\ aborts = 0

------------------------------------------------------------------------------
(* The producers: API handlers, the ingestion workers, the pipeline.       *)

\* session.add of the domain objects and of the outbox row; created_at is the
\* start of the transaction, so rows are numbered in this order.
Stage(e) ==
    /\ producer[e] = "idle"
    /\ \A f \in Events : f < e => producer[f] # "idle"
    /\ producer' = [producer EXCEPT ![e] = "staged"]
    /\ UNCHANGED <<rows, streamed, held, todo, local, tries, aborts>>

\* One commit makes the domain change and its outbox row visible together.
CommitDomain(e) ==
    /\ producer[e] = "staged"
    /\ producer' = [producer EXCEPT ![e] = "committed"]
    /\ rows' = [rows EXCEPT ![e] = FreshRow]
    /\ UNCHANGED <<streamed, held, todo, local, tries, aborts>>

RollbackDomain(e) ==
    /\ producer[e] = "staged"
    /\ producer' = [producer EXCEPT ![e] = "failed"]
    /\ UNCHANGED <<rows, streamed, held, todo, local, tries, aborts>>

\* Mutant of FastPath: publishes without waiting for the commit.
FastPathBeforeCommit(e) ==
    /\ producer[e] \in {"staged", "committed"}
    /\ producer' = [producer EXCEPT ![e] = IF @ = "staged" THEN "staged" ELSE "done"]
    /\ streamed' = streamed \cup {e}
    /\ UNCHANGED <<rows, held, todo, local, tries, aborts>>

\* publish_staged_outbox: one XADD after the commit.  It does not touch the
\* row, and a failure is only logged; the process may also die first.
FastPath(e) ==
    /\ producer[e] = "committed"
    /\ producer' = [producer EXCEPT ![e] = "done"]
    /\ \/ streamed' = streamed \cup {e}
       \/ streamed' = streamed
    /\ UNCHANGED <<rows, held, todo, local, tries, aborts>>

------------------------------------------------------------------------------
(* The outbox workers.                                                     *)

\* Mutant of Locked: a plain SELECT, no FOR UPDATE SKIP LOCKED.
NothingLocked == {}

Locked == UNION {held[w] : w \in Workers}

\* Mutant of Selectable: rows that failed once are not selected again.
SelectableOnce ==
    {e \in Events : rows[e].status = "PENDING" /\ rows[e].attempts = 0 /\ e \notin Locked}

Selectable ==
    {e \in Events : rows[e].status = "PENDING" /\ rows[e].due /\ e \notin Locked}

\* ORDER BY created_at ASC LIMIT k
Oldest(S, k) == {e \in S : Cardinality({f \in S : f < e}) < k}

SelectBatch(w) ==
    /\ held[w] = {}
    /\ Selectable # {}
    /\ LET batch == Oldest(Selectable, BatchSize)
       IN /\ held' = [held EXCEPT ![w] = batch]
          /\ todo' = [todo EXCEPT ![w] = batch]
          /\ local' = [local EXCEPT ![w] =
                         [e \in Events |-> IF e \in batch THEN rows[e] ELSE NoRow]]
    /\ UNCHANGED <<producer, rows, streamed, tries, aborts>>

IsNext(w, e) ==
    /\ e \in todo[w]
    /\ \A f \in todo[w] : e <= f

SentRow(r) == [r EXCEPT !.status = "PUBLISHED"]

\* attempts is incremented; the last attempt moves the row to DEAD_LETTER,
\* any other sets next_retry_at in the future.
FailedRow(r) ==
    LET exhausted == r.attempts + 1 >= MaxAttempts
    IN  [status   |-> IF exhausted THEN "DEAD_LETTER" ELSE "PENDING",
         attempts |-> r.attempts + 1,
         due      |-> exhausted]

XaddOk(w, e) ==
    /\ IsNext(w, e)
    /\ streamed' = streamed \cup {e}
    /\ local' = [local EXCEPT ![w][e] = SentRow(@)]
    /\ todo' = [todo EXCEPT ![w] = @ \ {e}]
    /\ tries' = [tries EXCEPT ![e] = @ + 1]
    /\ UNCHANGED <<producer, rows, held, aborts>>

\* Mutant of XaddFails: the exception is swallowed and the row marked as sent.
XaddFailsUnnoticed(w, e) ==
    /\ IsNext(w, e)
    /\ local' = [local EXCEPT ![w][e] = SentRow(@)]
    /\ todo' = [todo EXCEPT ![w] = @ \ {e}]
    /\ tries' = [tries EXCEPT ![e] = @ + 1]
    /\ UNCHANGED <<producer, rows, streamed, held, aborts>>

\* The call raised: Redis refused it, or applied it and the reply was lost.
XaddFails(w, e) ==
    /\ IsNext(w, e)
    /\ \/ streamed' = streamed
       \/ streamed' = streamed \cup {e}
    /\ local' = [local EXCEPT ![w][e] = FailedRow(@)]
    /\ todo' = [todo EXCEPT ![w] = @ \ {e}]
    /\ tries' = [tries EXCEPT ![e] = @ + 1]
    /\ UNCHANGED <<producer, rows, held, aborts>>

\* The single session.commit() at the end of publish_pending_batch.
CommitBatch(w) ==
    /\ held[w] # {}
    /\ todo[w] = {}
    /\ rows' = [e \in Events |-> IF e \in held[w] THEN local[w][e] ELSE rows[e]]
    /\ held' = [held EXCEPT ![w] = {}]
    /\ local' = [local EXCEPT ![w] = [e \in Events |-> NoRow]]
    /\ UNCHANGED <<producer, streamed, todo, tries, aborts>>

\* The worker dies, is cancelled, or its commit fails: PostgreSQL rolls the
\* transaction back and releases the locks.
AbortBatch(w) ==
    /\ held[w] # {}
    /\ aborts < MaxAborts
    /\ held' = [held EXCEPT ![w] = {}]
    /\ todo' = [todo EXCEPT ![w] = {}]
    /\ local' = [local EXCEPT ![w] = [e \in Events |-> NoRow]]
    /\ aborts' = aborts + 1
    /\ UNCHANGED <<producer, rows, streamed, tries>>

\* next_retry_at <= now becomes true.
RetryDue(e) ==
    /\ rows[e].status = "PENDING"
    /\ ~rows[e].due
    /\ rows' = [rows EXCEPT ![e].due = TRUE]
    /\ UNCHANGED <<producer, streamed, held, todo, local, tries, aborts>>

\* Mutant of Prunable: old rows whatever their status.
PrunableByAge == {e \in Events : rows[e].status # "ABSENT"}

Prunable == {e \in Events : rows[e].status = "PUBLISHED"}

\* prune_published_events: rows published longer ago than the retention.
\* The worker prunes between batches.
Prune(w, old) ==
    /\ held[w] = {}
    /\ old # {}
    /\ rows' = [e \in Events |-> IF e \in old THEN NoRow ELSE rows[e]]
    /\ UNCHANGED <<producer, streamed, held, todo, local, tries, aborts>>

------------------------------------------------------------------------------
Produce(e) == Stage(e) \/ CommitDomain(e) \/ RollbackDomain(e) \/ FastPath(e)

Publish(w, e) == XaddOk(w, e) \/ XaddFails(w, e)

Work(w) == SelectBatch(w) \/ CommitBatch(w) \/ \E e \in Events : Publish(w, e)

Next ==
    \/ \E e \in Events : Produce(e) \/ RetryDue(e)
    \/ \E w \in Workers : Work(w) \/ AbortBatch(w)
    \/ \E w \in Workers : \E old \in SUBSET Prunable : Prune(w, old)

Spec == Init /\ [][Next]_vars

\* run_loop polls forever and is restarted when it dies, and time passes.
\* Producers, crashes and pruning are not fair.
Fairness ==
    /\ \A w \in Workers : WF_vars(Work(w))
    /\ \A e \in Events : WF_vars(RetryDue(e))

FairSpec == Spec /\ Fairness

------------------------------------------------------------------------------
(* Properties.                                                             *)

\* Every variable has its type, and attempts never passes row.max_attempts.
TypeOK ==
    /\ producer \in [Events -> {"idle", "staged", "committed", "done", "failed"}]
    /\ rows \in [Events -> Row]
    /\ streamed \subseteq Events
    /\ held \in [Workers -> SUBSET Events]
    /\ todo \in [Workers -> SUBSET Events]
    /\ local \in [Workers -> [Events -> Row]]
    /\ tries \in [Events -> Nat]
    /\ aborts \in 0..MaxAborts

\* No stream ever carries an event whose domain transaction did not commit:
\* a consumer that looks the entity up always finds it.
NoPhantomEvent == \A e \in streamed : Committed(e)

\* An event whose domain change committed and that no stream has seen yet is
\* still in the table, waiting or dead-lettered: neither a crash between XADD
\* and commit, nor a lost reply, nor pruning loses it.
NoEventLost ==
    \A e \in Events :
        Committed(e) /\ e \notin streamed =>
            rows[e].status \in {"PENDING", "DEAD_LETTER"}

\* A row is dead-lettered only after the workers really made max_attempts
\* XADD calls for it, whatever batches were rolled back in between.
DeadLetterExhausted ==
    \A e \in Events : rows[e].status = "DEAD_LETTER" => tries[e] >= MaxAttempts

\* Two workers never undo each other: a row that was published or
\* dead-lettered is never PENDING again, and attempts never goes back.
NoRowRegresses ==
    [][\A e \in Events :
         /\ rows[e].status \in {"PUBLISHED", "DEAD_LETTER"} =>
              rows'[e].status \in {rows[e].status, "ABSENT"}
         /\ rows[e].status = "PENDING" => rows'[e].attempts >= rows[e].attempts]_vars

\* Every committed event eventually reaches a stream or is dead-lettered,
\* through finitely many crashes.
EventuallySettled ==
    \A e \in Events :
        Committed(e) ~> (e \in streamed \/ rows[e].status = "DEAD_LETTER")

Delivery == INSTANCE AtLeastOnce WITH
    accepted    <- {e \in Events : Committed(e)},
    outstanding <- {e \in Events : rows[e].status = "PENDING"},
    delivered   <- streamed,
    abandoned   <- {e \in Events : rows[e].status = "DEAD_LETTER"}

\* The outbox implements AtLeastOnce: a PENDING row is what it still holds, and
\* a row stops being PENDING only once streamed or dead-lettered.
DeliverySpec == Delivery!Spec
==============================================================================
