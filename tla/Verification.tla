---------------------------- MODULE Verification -----------------------------
(***************************************************************************)
(* Human verification of reports (services/report_service.py, the single   *)
(* endpoint and the bulk endpoint of api/v1/admin.py).  A request loads    *)
(* its reports one after the other without locking them, validates the     *)
(* transition of each against what it loaded, and commits later;           *)
(* SQLAlchemy then writes only the columns it changed, over whatever was   *)
(* committed meanwhile.  A verification event is dated with the start of   *)
(* its transaction, and the trail of a report is shown by that date        *)
(* (services/incident_query_service.py).                                   *)
(***************************************************************************)
EXTENDS Naturals, FiniteSets

CONSTANTS
    Reports,
    Requests,  \* concurrent requests of operators
    Outcomes   \* the processing statuses the pipeline commits, of FromReadiness

VARIABLES
    status,      \* verification_status of each report
    processing,  \* processing_status of each report
    trail,       \* committed verification events of each report; an audit
                 \* row and an outbox row are inserted with each of them
    vpc,         \* "idle", "open", "committed" or "refused"
    target,      \* the status each request asks for
    chosen,      \* the reports it is about
    resolved,    \* those of them its session has loaded
    loaded,      \* status and processing of them as it loaded them
    clock,       \* the time, of which the starts and the commits are the ticks
    began,       \* when the transaction of each request began
    ended        \* history: when it was committed

requestVars == <<vpc, target, chosen, resolved, loaded>>
timeVars == <<clock, began, ended>>
verificationVars == <<status, processing, trail, requestVars, timeVars>>

Terminal == {"VERIFIED", "REJECTED", "DUPLICATE"}
Statuses == {"PENDING", "UNDER_REVIEW"} \cup Terminal

ALLOWED_VERIFICATION_TRANSITIONS ==
    [s \in Statuses |-> CASE s = "PENDING"      -> Terminal \cup {"UNDER_REVIEW"}
                          [] s = "UNDER_REVIEW" -> Terminal
                          [] OTHER              -> {}]

Allowed(from, to) == to \in ALLOWED_VERIFICATION_TRANSITIONS[from]

ProcessingAfter(s) ==
    CASE s = "VERIFIED"                  -> "COMPLETED"
      [] s \in {"REJECTED", "DUPLICATE"} -> "CLOSED"
      [] OTHER                           -> "IN_PROGRESS"

NothingLoaded == [r \in Reports |-> [status |-> "PENDING", processing |-> "QUEUED"]]

VerificationInit ==
    /\ status = [r \in Reports |-> "PENDING"]
    /\ processing = [r \in Reports |-> "QUEUED"]
    /\ trail = [r \in Reports |-> {}]
    /\ vpc = [q \in Requests |-> "idle"]
    /\ target = [q \in Requests |-> "PENDING"]
    /\ chosen = [q \in Requests |-> {}]
    /\ resolved = [q \in Requests |-> {}]
    /\ loaded = [q \in Requests |-> NothingLoaded]
    /\ clock = 0
    /\ began = [q \in Requests |-> 0]
    /\ ended = [q \in Requests |-> 0]

\* What update_stage_state derives from the readiness of the report.
FromReadiness == {"COMPLETED", "PARTIAL_INTELLIGENCE", "FAILED", "PROCESSING"}

Processings == {"QUEUED", "IN_PROGRESS", "CLOSED"} \cup FromReadiness

ASSUME OutcomesAssumption == Outcomes \subseteq FromReadiness

\* The pipeline commits a stage: it sets the processing status whatever the
\* verification status is, and leaves the latter alone.
PipelineUpdates(r, to) ==
    /\ processing' = [processing EXCEPT ![r] = to]
    /\ UNCHANGED <<status, trail, requestVars, timeVars>>

\* The first statement, which looks up the operator, begins the transaction.
\* The bulk endpoint only verifies or rejects.
Open(q, S, to) ==
    /\ vpc[q] = "idle"
    /\ S # {}
    /\ Cardinality(S) > 1 => to \in {"VERIFIED", "REJECTED"}
    /\ vpc' = [vpc EXCEPT ![q] = "open"]
    /\ target' = [target EXCEPT ![q] = to]
    /\ chosen' = [chosen EXCEPT ![q] = S]
    /\ clock' = clock + 1
    /\ began' = [began EXCEPT ![q] = clock + 1]
    /\ UNCHANGED <<status, processing, trail, resolved, loaded, ended>>

\* Load and validate the next report.  The bulk endpoint does so for all
\* before it changes any, and refuses the request over the first bad one.
Load(q, r) ==
    /\ vpc[q] = "open"
    /\ r \in chosen[q] \ resolved[q]
    /\ resolved' = [resolved EXCEPT ![q] = @ \cup {r}]
    /\ loaded' = [loaded EXCEPT ![q][r] = [status |-> status[r], processing |-> processing[r]]]
    /\ vpc' = [vpc EXCEPT ![q] = IF Allowed(status[r], target[q]) THEN "open" ELSE "refused"]
    /\ UNCHANGED <<status, processing, trail, target, chosen, timeVars>>

\* The event a request adds to the trail of a report: created_at is the now()
\* of the database, which is the start of the transaction.
Event(q, r) == [from |-> loaded[q][r].status, to |-> target[q], by |-> q, at |-> began[q]]

\* stage_verification_status for each report, and the commit.  Its own SELECT
\* returns the objects the session already holds, so it validates what Load
\* saw, and nothing is written before the last flush (autoflush is off): it
\* writes the changed columns of each row and the new rows, and one commit
\* makes all of it visible.
CommitChanges(q) ==
    /\ vpc[q] = "open"
    /\ resolved[q] = chosen[q]
    /\ status' = [r \in Reports |-> IF r \in chosen[q] THEN target[q] ELSE status[r]]
    /\ processing' =
         [r \in Reports |->
            IF r \in chosen[q] /\ loaded[q][r].processing # ProcessingAfter(target[q])
            THEN ProcessingAfter(target[q]) ELSE processing[r]]
    /\ trail' = [r \in Reports |-> IF r \in chosen[q] THEN trail[r] \cup {Event(q, r)} ELSE trail[r]]
    /\ vpc' = [vpc EXCEPT ![q] = "committed"]
    /\ clock' = clock + 1
    /\ ended' = [ended EXCEPT ![q] = clock + 1]
    /\ UNCHANGED <<target, chosen, resolved, loaded, began>>

\* Mutant of RollBackChanges: the events are written by a session of their own.
RollBackKeepsTrail(q) ==
    /\ vpc[q] = "open"
    /\ vpc' = [vpc EXCEPT ![q] = "refused"]
    /\ trail' = [r \in Reports |-> IF r \in resolved[q] THEN trail[r] \cup {Event(q, r)} ELSE trail[r]]
    /\ clock' = clock + 1
    /\ ended' = [ended EXCEPT ![q] = clock + 1]
    /\ UNCHANGED <<status, processing, target, chosen, resolved, loaded, began>>

\* A report is not found, a bulk request that names one twice is refused when
\* it stages the second change, a statement, the flush or the commit raises,
\* or the API process dies.
RollBackChanges(q) ==
    /\ vpc[q] = "open"
    /\ vpc' = [vpc EXCEPT ![q] = "refused"]
    /\ UNCHANGED <<status, processing, trail, target, chosen, resolved, loaded, timeVars>>

Request(q) ==
    \/ \E S \in SUBSET Reports, to \in Statuses : Open(q, S, to)
    \/ \E r \in Reports : Load(q, r)
    \/ CommitChanges(q) \/ RollBackChanges(q)

VerificationNext ==
    \/ \E q \in Requests : Request(q)
    \/ \E r \in Reports, to \in Outcomes : PipelineUpdates(r, to)

VerificationSpec == VerificationInit /\ [][VerificationNext]_verificationVars

------------------------------------------------------------------------------
(* Properties.                                                             *)

\* Every variable has its type.
VerificationTypeOK ==
    /\ status \in [Reports -> Statuses]
    /\ processing \in [Reports -> Processings]
    /\ trail \in [Reports -> SUBSET [from : Statuses, to : Statuses, by : Requests, at : Nat]]
    /\ vpc \in [Requests -> {"idle", "open", "committed", "refused"}]
    /\ target \in [Requests -> Statuses]
    /\ chosen \in [Requests -> SUBSET Reports] /\ resolved \in [Requests -> SUBSET Reports]
    /\ loaded \in [Requests -> [Reports -> [status : Statuses, processing : Processings]]]
    /\ clock \in Nat /\ began \in [Requests -> Nat] /\ ended \in [Requests -> Nat]

\* s is the status to which some events lead, as they are shown.
LeadTo(events, s) ==
    /\ events = {} => s = "PENDING"
    /\ \A e \in events : (\A d \in events : d.at <= e.at) => s = e.to

\* Whoever decided on the report later began after the earlier had committed.
InTurn(r) == \A e, f \in trail[r] : e.at < f.at => ended[e.by] < f.at

\* The trail of a report as it is shown explains its status: every event
\* continues from where the earlier ones lead, and together they lead to the
\* status, unless two decisions overlapped, whose dates may be in the other
\* order than their commits.  Even then the status is one that was decided.
TrailExplainsStatus ==
    \A r \in Reports :
        /\ (trail[r] = {} /\ status[r] = "PENDING") \/ \E e \in trail[r] : status[r] = e.to
        /\ InTurn(r) =>
             /\ LeadTo(trail[r], status[r])
             /\ \A f \in trail[r] : LeadTo({e \in trail[r] : e.at < f.at}, f.from)

\* No recorded decision skips the state machine, seen from what its operator
\* was shown.
DecisionsAllowed == \A r \in Reports : \A e \in trail[r] : Allowed(e.from, e.to)

\* VERIFIED, REJECTED and DUPLICATE cannot be modified.
TerminalIsFinal ==
    [][\A r \in Reports : status[r] \in Terminal => status'[r] = status[r]]_verificationVars
==============================================================================
