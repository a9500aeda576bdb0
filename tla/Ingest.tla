------------------------------- MODULE Ingest --------------------------------
(***************************************************************************)
(* ingest_normalized_event of services/report_service.py, as ingestion     *)
(* workers run it for messages that the stream may deliver several times.  *)
(* It looks for a report of the same source and external id and then       *)
(* inserts or updates in the same transaction; the index on the two        *)
(* columns is not unique.                                                  *)
(***************************************************************************)
EXTENDS Naturals, FiniteSets

CONSTANTS
    Ids,           \* (source, external id) pairs
    Workers,       \* ingestion workers
    MaxDeliveries  \* bound on deliveries of all messages together

DeliveriesAssumption == MaxDeliveries \in Nat
IdsAssumption == Ids # {}

VARIABLES
    reports,     \* committed reports of each id
    triggers,    \* orchestration triggers staged for them
    stages,      \* ids whose reports carry the stage map of the pipeline
    wiped,       \* history: ids whose stage map was lost since
    ipc,          \* "idle", "insert" or "update"
    job,         \* the id each worker is ingesting
    rejected,    \* ids whose ingestion has failed for good
    raced,       \* history: ids two workers were about to insert at once
    deliveries   \* deliveries so far, bounded by MaxDeliveries

ingestVars == <<reports, triggers, stages, wiped, ipc, job, rejected, raced, deliveries>>

IngestInit ==
    /\ reports = [i \in Ids |-> 0]
    /\ triggers = [i \in Ids |-> 0]
    /\ stages = {}
    /\ wiped = {}
    /\ ipc = [w \in Workers |-> "idle"]
    /\ job = [w \in Workers |-> CHOOSE i \in Ids : TRUE]
    /\ rejected = {}
    /\ raced = {}
    /\ deliveries = 0

\* Another worker has looked for the same id and found nothing.
Rivals(w, i) == {v \in Workers \ {w} : ipc[v] = "insert" /\ job[v] = i}

\* Mutant of Look: every delivery is taken for a new event.
LookNowhere(w, i) ==
    /\ ipc[w] = "idle"
    /\ deliveries < MaxDeliveries
    /\ deliveries' = deliveries + 1
    /\ job' = [job EXCEPT ![w] = i]
    /\ ipc' = [ipc EXCEPT ![w] = "insert"]
    /\ UNCHANGED <<reports, triggers, stages, wiped, rejected, raced>>

\* A message is handed to a worker, which looks for the report: none is
\* inserted, one is updated, and two or more make scalar_one_or_none raise.
Look(w, i) ==
    /\ ipc[w] = "idle"
    /\ deliveries < MaxDeliveries
    /\ deliveries' = deliveries + 1
    /\ job' = [job EXCEPT ![w] = i]
    /\ ipc' = [ipc EXCEPT ![w] = CASE reports[i] = 0 -> "insert"
                                 [] reports[i] = 1 -> "update"
                                 [] OTHER          -> "idle"]
    /\ rejected' = IF reports[i] > 1 THEN rejected \cup {i} ELSE rejected
    /\ raced' = IF reports[i] = 0 /\ Rivals(w, i) # {} THEN raced \cup {i} ELSE raced
    /\ UNCHANGED <<reports, triggers, stages, wiped>>

\* Mutant of Insert: the orchestration trigger is not staged.
InsertUntriggered(w) ==
    /\ ipc[w] = "insert"
    /\ reports' = [reports EXCEPT ![job[w]] = @ + 1]
    /\ ipc' = [ipc EXCEPT ![w] = "idle"]
    /\ UNCHANGED <<triggers, stages, wiped, job, rejected, raced, deliveries>>

\* The report, its created event and its orchestration trigger are committed.
Insert(w) ==
    /\ ipc[w] = "insert"
    /\ reports' = [reports EXCEPT ![job[w]] = @ + 1]
    /\ triggers' = [triggers EXCEPT ![job[w]] = @ + 1]
    /\ ipc' = [ipc EXCEPT ![w] = "idle"]
    /\ UNCHANGED <<stages, wiped, job, rejected, raced, deliveries>>

\* raw_payload is replaced by that of the message, and with it the stage map
\* the pipeline keeps there; no trigger is staged.
Update(w) ==
    /\ ipc[w] = "update"
    /\ stages' = stages \ {job[w]}
    /\ wiped' = wiped \cup (stages \cap {job[w]})
    /\ ipc' = [ipc EXCEPT ![w] = "idle"]
    /\ UNCHANGED <<reports, triggers, job, rejected, raced, deliveries>>

\* The worker dies or the transaction fails; the message is delivered again.
Lose(w) ==
    /\ ipc[w] # "idle"
    /\ ipc' = [ipc EXCEPT ![w] = "idle"]
    /\ UNCHANGED <<reports, triggers, stages, wiped, job, rejected, raced, deliveries>>

\* The pipeline consumes a trigger.
Evaluate(i) ==
    /\ triggers[i] > 0
    /\ triggers' = [triggers EXCEPT ![i] = @ - 1]
    /\ stages' = stages \cup {i}
    /\ wiped' = wiped \ {i}
    /\ UNCHANGED <<reports, ipc, job, rejected, raced, deliveries>>

IngestNext ==
    \/ \E w \in Workers :
         \/ \E i \in Ids : Look(w, i)
         \/ Insert(w) \/ Update(w) \/ Lose(w)
    \/ \E i \in Ids : Evaluate(i)

IngestSpec == IngestInit /\ [][IngestNext]_ingestVars

------------------------------------------------------------------------------
(* Properties.                                                             *)

\* Every variable has its type.
IngestTypeOK ==
    /\ reports \in [Ids -> Nat]
    /\ triggers \in [Ids -> Nat]
    /\ \A i \in Ids : triggers[i] <= reports[i]
    /\ stages \subseteq Ids
    /\ wiped \subseteq Ids
    /\ ipc \in [Workers -> {"idle", "insert", "update"}]
    /\ job \in [Workers -> Ids]
    /\ {rejected, raced} \subseteq SUBSET Ids
    /\ deliveries \in 0..MaxDeliveries

\* However often a message is delivered and a worker dies, there is one report
\* per external id, and it stays possible to ingest the id, unless two workers
\* looked for it before either had inserted it.
OneReportPerId == \A i \in Ids \ raced : reports[i] <= 1 /\ i \notin rejected

\* Whatever is ingested gets evaluated: a report carries the stage map of the
\* pipeline or its trigger is still outstanding.  The one exception is a
\* redelivery after the evaluation, which wipes the map and triggers nothing.
OnlyRedeliveryForgets ==
    \A i \in Ids : reports[i] > 0 => triggers[i] > 0 \/ i \in stages \cup wiped
==============================================================================
