------------------------------ MODULE Retention ------------------------------
(***************************************************************************)
(* The daily retention cycle (services/retention_service.py, called by     *)
(* workers/run_scheduler.py): one transaction copies the expired VERIFIED  *)
(* reports to weather_reports_archive, then deletes every expired report   *)
(* chunk by chunk, each chunk's dependent rows first.  Every statement     *)
(* sees what has been committed before it, so operators and pipelines      *)
(* write between any two of them.                                          *)
(*                                                                         *)
(* What the transaction has deleted is kept in cut until it commits: a     *)
(* rollback puts it back.  Rows it has deleted are locked: nobody else     *)
(* changes them or refers to them until it ends.                           *)
(***************************************************************************)
EXTENDS Naturals, FiniteSets

CONSTANTS
  Records,    \* reports, live from the start
  BatchSize,  \* DATA_RETENTION_BATCH_SIZE
  MaxFaults   \* bound: cycles that lose their connection

RetentionAssumption == BatchSize \in Nat \ {0} /\ MaxFaults \in Nat

VARIABLES
  rstatus,  \* "PENDING", "VERIFIED" or "REJECTED"
  live,     \* reports in weather_reports
  expired,  \* reports whose occurred_at is past the cutoff
  rtrail,   \* reports with verification events
  rclusters, \* primary_report_id of each duplicate cluster
  members,  \* duplicate members: <<primary of the cluster, report>>
  archive,  \* reports in weather_reports_archive
  rpc,      \* the next statement of the cycle, "idle" between cycles
  rtodo,    \* expired ids as selected, not deleted yet
  chunk,    \* the ids of the current chunk
  cut,      \* rows the open transaction has deleted
  copied,   \* rows it has archived
  rlate,    \* history: reports verified since their cycle chose what to archive
  faults

rows == <<rstatus, live, expired, rtrail, rclusters, members, archive>>
cycle == <<rpc, rtodo, chunk, cut, copied>>
retentionVars == <<rows, cycle, rlate, faults>>

Nothing == [live |-> {}, trail |-> {}, clusters |-> {}, members |-> {}]

RetentionInit ==
  /\ rstatus = [r \in Records |-> "PENDING"]
  /\ live = Records /\ expired = {} /\ rtrail = {} /\ rclusters = {} /\ members = {}
  /\ archive = {}
  /\ rpc = "idle" /\ rtodo = {} /\ chunk = {} /\ cut = Nothing /\ copied = {}
  /\ rlate = {} /\ faults = 0

-----------------------------------------------------------------------------
(* The others.                                                             *)

\* Time passes.
Age(r) ==
  /\ r \notin expired
  /\ expired' = expired \cup {r}
  /\ UNCHANGED <<rstatus, live, rtrail, rclusters, members, archive, cycle, rlate, faults>>

\* An operator's decision and its audit event commit.
DecideReport(r) ==
  /\ r \in live /\ rstatus[r] = "PENDING"
  /\ \E decision \in {"VERIFIED", "REJECTED"} :
       /\ rstatus' = [rstatus EXCEPT ![r] = decision]
       /\ rlate' = IF rpc # "idle" /\ decision = "VERIFIED" THEN rlate \cup {r} ELSE rlate
  /\ rtrail' = rtrail \cup {r}
  /\ UNCHANGED <<live, expired, rclusters, members, archive, cycle, faults>>

\* A pipeline finds r to be a duplicate of p, in p's cluster or a new one.
Join(p, r) ==
  /\ {p, r} \subseteq live /\ p # r
  /\ p \notin cut.clusters
  /\ \A m \in members : m[2] # r
  /\ rclusters' = rclusters \cup {p}
  /\ members' = members \cup {<<p, r>>}
  /\ UNCHANGED <<rstatus, live, expired, rtrail, archive, cycle, rlate, faults>>

-----------------------------------------------------------------------------
(* The statements of a cycle.                                              *)

\* Expired reports that are VERIFIED are copied, unless the archive has them.
Archive ==
  /\ rpc = "idle"
  /\ copied' = {r \in live \cap expired : rstatus[r] = "VERIFIED"} \ archive
  /\ archive' = archive \cup copied'
  /\ rlate' = rlate \ live
  /\ rpc' = "select"
  /\ UNCHANGED <<rstatus, live, expired, rtrail, rclusters, members, rtodo, chunk, cut, faults>>

\* A second SELECT lists the expired reports, of any status.  (The cutoff was
\* fixed before the first: reports that expire in between are as good as ones
\* that are verified in between.)
SelectExpired ==
  /\ rpc = "select"
  /\ rtodo' = live \cap expired
  /\ rpc' = "chunk"
  /\ rlate' = rlate \cup {r \in rtodo' : rstatus[r] = "VERIFIED" /\ r \notin archive}
  /\ UNCHANGED <<rows, chunk, cut, copied, faults>>

NextChunk ==
  /\ rpc = "chunk" /\ rtodo # {}
  /\ \E ids \in SUBSET rtodo :
       /\ Cardinality(ids) = IF Cardinality(rtodo) < BatchSize THEN Cardinality(rtodo) ELSE BatchSize
       /\ chunk' = ids
       /\ rtodo' = rtodo \ ids
  /\ rpc' = "trail"
  /\ UNCHANGED <<rows, cut, copied, rlate, faults>>

DeleteTrail ==
  /\ rpc = "trail" /\ rpc' = "members"
  /\ cut' = [cut EXCEPT !.trail = @ \cup (rtrail \cap chunk)]
  /\ rtrail' = rtrail \ chunk
  /\ UNCHANGED <<rstatus, live, expired, rclusters, members, archive, rtodo, chunk, copied, rlate, faults>>

DeleteMembers ==
  LET gone == {m \in members : m[2] \in chunk} IN
  /\ rpc = "members" /\ rpc' = "clusters"
  /\ cut' = [cut EXCEPT !.members = @ \cup gone]
  /\ members' = members \ gone
  /\ UNCHANGED <<rstatus, live, expired, rtrail, rclusters, archive, rtodo, chunk, copied, rlate, faults>>

\* The members of a deleted cluster go with it, expired or not.
DeleteClusters ==
  LET gone == {m \in members : m[1] \in chunk} IN
  /\ rpc = "clusters" /\ rpc' = "reports"
  /\ cut' = [cut EXCEPT !.clusters = @ \cup (rclusters \cap chunk), !.members = @ \cup gone]
  /\ rclusters' = rclusters \ chunk
  /\ members' = members \ gone
  /\ UNCHANGED <<rstatus, live, expired, rtrail, archive, rtodo, chunk, copied, rlate, faults>>

\* The reports themselves; rows that refer to them by a key without ON DELETE
\* CASCADE and were committed meanwhile forbid it.  Memberships cascade.
Referenced == (rtrail \cup rclusters) \cap chunk # {}

DeleteReports ==
  LET gone == {m \in members : m[2] \in chunk} IN
  /\ rpc = "reports" /\ rpc' = "chunk"
  /\ ~Referenced
  /\ cut' = [cut EXCEPT !.live = @ \cup chunk, !.members = @ \cup gone]
  /\ live' = live \ chunk
  /\ members' = members \ gone
  /\ chunk' = {}
  /\ UNCHANGED <<rstatus, expired, rtrail, rclusters, archive, rtodo, copied, rlate, faults>>

EndCycle ==
  /\ rpc' = "idle" /\ rtodo' = {} /\ chunk' = {} /\ cut' = Nothing /\ copied' = {}

CommitCycle ==
  /\ rpc = "chunk" /\ rtodo = {}
  /\ EndCycle
  /\ UNCHANGED <<rows, rlate, faults>>

\* Mutant of RollBack: the copies were committed on their own.
RollBackDeletions ==
  /\ live' = live \cup cut.live
  /\ rtrail' = rtrail \cup cut.trail
  /\ rclusters' = rclusters \cup cut.clusters
  /\ members' = members \cup cut.members
  /\ EndCycle
  /\ UNCHANGED <<rstatus, expired, archive, rlate>>

RollBack ==
  /\ live' = live \cup cut.live
  /\ rtrail' = rtrail \cup cut.trail
  /\ rclusters' = rclusters \cup cut.clusters
  /\ members' = members \cup cut.members
  /\ archive' = archive \ copied
  /\ EndCycle
  /\ UNCHANGED <<rstatus, expired, rlate>>

\* An exception ends the cycle; the scheduler logs it and waits a day.
CycleRejected == rpc = "reports" /\ Referenced /\ RollBack /\ UNCHANGED faults
CycleFails == rpc # "idle" /\ faults < MaxFaults /\ faults' = faults + 1 /\ RollBack

Cycle ==
  \/ Archive \/ SelectExpired \/ NextChunk
  \/ DeleteTrail \/ DeleteMembers \/ DeleteClusters \/ DeleteReports
  \/ CommitCycle \/ CycleRejected

RetentionNext ==
  \/ \E r \in Records : Age(r) \/ DecideReport(r)
  \/ \E p, r \in Records : Join(p, r)
  \/ Cycle
  \/ CycleFails

RetentionSpec == RetentionInit /\ [][RetentionNext]_retentionVars

-----------------------------------------------------------------------------
Pruned == Records \ live

(* "Verified weather reports are copied to weather_reports_archive before  *)
(* deletion to preserve historical analytics and audit integrity"          *)
(* (retention_service.py:5).                                               *)
VerifiedAreArchived ==
  rpc = "idle" => {r \in Pruned : rstatus[r] = "VERIFIED"} \subseteq archive

(* A verified report is pruned without a copy only when it was verified    *)
(* after the cycle had chosen what to copy; and no failure of a cycle      *)
(* leaves a report in both tables, in neither or without its trail and its *)
(* cluster.                                                                *)
PrunedWhole ==
  /\ {r \in Pruned : rstatus[r] = "VERIFIED"} \subseteq archive \cup rlate
  /\ rpc = "idle" =>
       /\ archive \cap live = {}
       /\ {r \in live : rstatus[r] # "PENDING"} = rtrail
       /\ \A m \in members : m[1] \in rclusters /\ {m[1], m[2]} \subseteq live
=============================================================================
