------------------------------ MODULE Pipeline -------------------------------
(***************************************************************************)
(* The intelligence pipeline over shared report rows                       *)
(* (orchestration/incident_pipeline.py, state.py, dependency_graph.py,     *)
(* triggers.py, handlers.py): the API runs execute_pipeline inline after   *)
(* it creates a report, the dispatcher runs it again from the              *)
(* orchestration stream, and triggers recompute CREDIBILITY alone.  Each   *)
(* runs in a database transaction of its own that                          *)
(*   - loads a report once: SELECT ... FOR UPDATE locks the row but does   *)
(*     not refresh an object the session already holds;                    *)
(*   - keeps every row lock until it commits or rolls back;                *)
(*   - writes back the whole stage map of its own copy.                    *)
(***************************************************************************)
EXTENDS Naturals, Sequences, FiniteSets

CONSTANTS
    Reports,    \* report ids, ordered
    Tasks,      \* transactions
    Kind,       \* of each task: "inline", "worker" or "trigger"
    Targets,    \* the reports it updates, in order: one unless a trigger
    Twin,       \* the report each one is clustered with, 0 for none
    MaxTries,   \* max_attempts of an orchestration event
    MaxPipelineFaults   \* bound on failed stages, stale results and lost sessions

PipelineAssumption ==
    /\ Reports \subseteq Nat \ {0}
    /\ Kind \in [Tasks -> {"inline", "worker", "trigger"}]
    /\ DOMAIN Targets = Tasks
    /\ \A t \in Tasks : Targets[t] \in Seq(Reports) \ {<<>>}
    /\ \A t \in Tasks : Kind[t] # "trigger" => Len(Targets[t]) = 1
    /\ Twin \in [Reports -> Reports \cup {0}]
    /\ \A r \in Reports : Twin[r] # r
    /\ MaxTries \in Nat \ {0} /\ MaxPipelineFaults \in Nat

VARIABLES
    row,        \* committed stage map of each report
    announced,  \* committed report.intelligence_ready events of each report
    lock,       \* the task that holds the row lock of each report
    ppc,        \* "idle", "run", "done" or "gone"
    view,       \* each task's copy of the rows it has loaded
    dirty,      \* reports it has updated but not committed
    staged,     \* reports it has staged a ready event for
    pos,        \* the next stage of a pipeline, the next target of a trigger
    tries,      \* transactions each task has lost
    eclipsed,   \* history: reports a run left alone as READY before all their stages
                \* were executed, or whose executed stages an old copy overwrote
    pfaults     \* faults so far, bounded by MaxPipelineFaults

pipelineVars ==
    <<row, announced, lock, ppc, view, dirty, staged, pos, tries, eclipsed, pfaults>>

Order == <<"LOCATION", "DUPLICATE", "EVIDENCE", "OBSERVATION", "CREDIBILITY">>
Stages == {Order[i] : i \in 1..Len(Order)}

\* fresh: SUCCESS_WITH_NO_MATCH with attempt 0, as the template of a report
\* without orchestration state has it; ok: any other successful outcome.
Status == {"fresh", "ok", "failed"}
Template == [s \in Stages |-> "fresh"]

Free == "free"

Successful(status) == status \in {"fresh", "ok"}

\* Mutant of Readiness: failed enrichment does not count.
ReadinessLenient(stages) ==
    IF stages = Template \/ ~Successful(stages["CREDIBILITY"]) THEN "PENDING" ELSE "READY"

\* derive_overall_readiness, and PENDING for a row no stage has updated.
Readiness(stages) ==
    IF stages = Template \/ ~Successful(stages["CREDIBILITY"]) THEN "PENDING"
    ELSE IF \E s \in Stages : ~Successful(stages[s]) THEN "PARTIAL"
    ELSE "READY"

\* Every stage was executed, but those that wait for a LOCATION that failed.
Executed(stages) ==
    \A s \in Stages :
        \/ stages[s] # "fresh"
        \/ s \in {"DUPLICATE", "EVIDENCE", "OBSERVATION"} /\ stages["LOCATION"] = "failed"

\* can_execute_stage
CanExecute(s, stages) ==
    s \in {"DUPLICATE", "EVIDENCE", "OBSERVATION"} => Successful(stages["LOCATION"])

\* execute_pipeline does not repeat a stage that was executed with success,
\* other than CREDIBILITY.
Due(s, stages) == CanExecute(s, stages) /\ (stages[s] # "ok" \/ s = "CREDIBILITY")

InitRows ==
    /\ row = [r \in Reports |-> Template]
    /\ announced = [r \in Reports |-> 0]
    /\ lock = [r \in Reports |-> Free]
    /\ view = [t \in Tasks |-> [r \in Reports |-> Template]]
    /\ dirty = [t \in Tasks |-> {}]
    /\ staged = [t \in Tasks |-> {}]
    /\ pos = [t \in Tasks |-> 1]
    /\ eclipsed = {}

PipelineInit ==
    /\ InitRows
    /\ ppc = [t \in Tasks |-> "idle"] /\ tries = [t \in Tasks |-> 0]
    /\ pfaults = 0

PipelineFault == pfaults < MaxPipelineFaults /\ pfaults' = pfaults + 1

IsPipeline(t) == Kind[t] # "trigger"
Subject(t) == IF IsPipeline(t) THEN Targets[t][1] ELSE Targets[t][pos[t]]
HasMore(t) == pos[t] <= IF IsPipeline(t) THEN Len(Order) ELSE Len(Targets[t])
Stage(t) == IF IsPipeline(t) THEN Order[pos[t]] ELSE "CREDIBILITY"

\* A stage that clusters the report also recomputes its twin.
Clusters(t) == Stage(t) = "DUPLICATE" /\ Twin[Subject(t)] # 0
Touches(t) == {Subject(t)} \cup (IF Clusters(t) THEN {Twin[Subject(t)]} ELSE {})

Running(t) == ppc[t] = "run" /\ HasMore(t) /\ Due(Stage(t), view[t][Subject(t)])

\* The rows t has still to lock for its next stage; it locks them in id order.
Needs(t) == {r \in Touches(t) : lock[r] # t}
WantsLock(t, r) == Running(t) /\ r \in Needs(t) /\ \A q \in Needs(t) : r <= q

WaitsFor(t, u) == \E r \in Reports : WantsLock(t, r) /\ lock[r] = u

------------------------------------------------------------------------------
\* The first SELECT loads the targets.  An inline or worker run of a report
\* that is already READY returns at once.
Begin(t) ==
    /\ ppc[t] = "idle"
    /\ view' = [view EXCEPT ![t] = row]
    /\ pos' = [pos EXCEPT ![t] = 1]
    /\ ppc' = [ppc EXCEPT ![t] =
                IF IsPipeline(t) /\ Readiness(row[Targets[t][1]]) = "READY"
                THEN "done" ELSE "run"]
    /\ eclipsed' = eclipsed \cup {r \in {Targets[t][1]} :
                      ppc'[t] = "done" /\ ~Executed(row[r])}
    /\ UNCHANGED <<row, announced, lock, dirty, staged, tries, pfaults>>

\* Prerequisites not met, or executed before.
SkipStage(t) ==
    /\ ppc[t] = "run"
    /\ HasMore(t)
    /\ ~Due(Stage(t), view[t][Subject(t)])
    /\ pos' = [pos EXCEPT ![t] = @ + 1]
    /\ UNCHANGED <<row, announced, lock, ppc, view, dirty, staged, tries, eclipsed, pfaults>>

Lock(t, r) ==
    /\ WantsLock(t, r)
    /\ lock[r] = Free
    /\ lock' = [lock EXCEPT ![r] = t]
    /\ UNCHANGED <<row, announced, ppc, view, dirty, staged, pos, tries, eclipsed, pfaults>>

\* update_stage_state of the report, and of its twin when it is clustered: the
\* twin is loaded now, under its lock, unless this session already changed it.
\* execute_single_stage announces a successful CREDIBILITY, whatever the
\* readiness that results.
RunStage(t) ==
    /\ Running(t)
    /\ Needs(t) = {}
    /\ LET r == Subject(t)
           q == Twin[r]
           twinCopy == IF q \in dirty[t] THEN view[t][q] ELSE row[q]
           ran == [view[t][r] EXCEPT ![Stage(t)] = "ok"]
       IN /\ view' = [view EXCEPT ![t] =
                        IF Clusters(t)
                        THEN [@ EXCEPT ![r] = ran,
                                       ![q] = [twinCopy EXCEPT !["CREDIBILITY"] = "ok"]]
                        ELSE [@ EXCEPT ![r] = ran]]
          /\ staged' = [staged EXCEPT ![t] =
                          @ \cup (IF Clusters(t) THEN {q} ELSE {})
                            \cup (IF IsPipeline(t) THEN {} ELSE {r})]
    /\ dirty' = [dirty EXCEPT ![t] = @ \cup Touches(t)]
    /\ pos' = [pos EXCEPT ![t] = @ + 1]
    /\ UNCHANGED <<row, announced, lock, ppc, tries, eclipsed, pfaults>>

\* The handler fails (RETRYABLE_FAILURE), or CREDIBILITY finds that its inputs
\* changed meanwhile (SKIPPED_STALE, a success that is not announced).  A
\* DUPLICATE that fails has not reached the twin.
RunStageBadly(t) ==
    /\ Running(t)
    /\ lock[Subject(t)] = t
    /\ PipelineFault
    /\ \E status \in {"failed"} \cup (IF Stage(t) = "CREDIBILITY" THEN {"ok"} ELSE {}) :
         view' = [view EXCEPT ![t][Subject(t)][Stage(t)] = status]
    /\ dirty' = [dirty EXCEPT ![t] = @ \cup {Subject(t)}]
    /\ pos' = [pos EXCEPT ![t] = @ + 1]
    /\ UNCHANGED <<row, announced, lock, ppc, staged, tries, eclipsed>>

\* The report's DUPLICATE succeeds although its twin's CREDIBILITY does not: it
\* fails, its inputs changed, or an exception that is none of the database's is
\* swallowed and leaves the twin as it was.  The twin is not announced.
TwinBadly(t) ==
    /\ Running(t) /\ Clusters(t)
    /\ Needs(t) = {}
    /\ PipelineFault
    /\ LET r == Subject(t)
           q == Twin[r]
           twinCopy == IF q \in dirty[t] THEN view[t][q] ELSE row[q]
           ran == [view[t][r] EXCEPT ![Stage(t)] = "ok"]
       IN \/ /\ view' = [view EXCEPT ![t][r] = ran]
             /\ dirty' = [dirty EXCEPT ![t] = @ \cup {r}]
          \/ /\ \E status \in {"failed", "ok"} :
                  view' = [view EXCEPT ![t] =
                             [@ EXCEPT ![r] = ran,
                                       ![q] = [twinCopy EXCEPT !["CREDIBILITY"] = status]]]
             /\ dirty' = [dirty EXCEPT ![t] = @ \cup Touches(t)]
    /\ pos' = [pos EXCEPT ![t] = @ + 1]
    /\ UNCHANGED <<row, announced, lock, ppc, staged, tries, eclipsed>>

\* The locks of t pass to a transaction that waits for them, if there is one.
Heirs(r) == {u \in Tasks : WantsLock(u, r)}
Wanted(t) == {r \in Reports : lock[r] = t /\ Heirs(r) # {}}

Release(t) ==
    /\ \E heir \in [Wanted(t) -> Tasks] :
         /\ \A r \in Wanted(t) : heir[r] \in Heirs(r)
         /\ lock' = [r \in Reports |-> IF r \in Wanted(t) THEN heir[r]
                                      ELSE IF lock[r] = t THEN Free ELSE lock[r]]
    /\ view' = [view EXCEPT ![t] = [r \in Reports |-> Template]]
    /\ dirty' = [dirty EXCEPT ![t] = {}]
    /\ staged' = [staged EXCEPT ![t] = {}]
    /\ pos' = [pos EXCEPT ![t] = 1]

\* A pipeline that ends READY announces it once per report, under an event id
\* derived from the report's.
Announces(t) ==
    /\ IsPipeline(t)
    /\ Readiness(view[t][Targets[t][1]]) = "READY"
    /\ announced[Targets[t][1]] = 0

Commit(t) ==
    /\ ppc[t] = "run"
    /\ ~HasMore(t)
    /\ row' = [r \in Reports |-> IF r \in dirty[t] THEN view[t][r] ELSE row[r]]
    /\ announced' = [r \in Reports |->
                       announced[r] + (IF r \in staged[t] THEN 1 ELSE 0)
                         + (IF Announces(t) /\ r = Targets[t][1] THEN 1 ELSE 0)]
    /\ eclipsed' = eclipsed \cup {r \in dirty[t] :
                      \E s \in Stages : row[r][s] # "fresh" /\ view[t][r][s] = "fresh"}
    /\ ppc' = [ppc EXCEPT ![t] = "done"]
    /\ Release(t)
    /\ UNCHANGED <<tries, pfaults>>

\* Mutant of RollBack: a dispatcher run is not retried.
RollBackForGood(t) ==
    /\ ppc' = [ppc EXCEPT ![t] = "gone"]
    /\ tries' = [tries EXCEPT ![t] = @ + 1]
    /\ Release(t)
    /\ UNCHANGED <<row, announced, eclipsed>>

\* The transaction is lost: an inline run is left to the dispatcher; the event of
\* a dispatcher run is retried, and goes to the dead letters after its last
\* attempt.  An exception of the database inside a stage ends like this too,
\* whoever catches it: every statement after it fails.
RollBack(t) ==
    /\ tries' = [tries EXCEPT ![t] = @ + 1]
    /\ ppc' = [ppc EXCEPT ![t] =
                IF Kind[t] = "inline" \/ tries[t] + 1 = MaxTries THEN "gone" ELSE "idle"]
    /\ Release(t)
    /\ UNCHANGED <<row, announced, eclipsed>>

SessionLost(t) ==
    /\ ppc[t] = "run"
    /\ PipelineFault
    /\ RollBack(t)

Waiting == {t \in Tasks : \E r \in Reports : WantsLock(t, r)}

\* A cycle of waiting transactions.
Deadlocked(S) ==
    \A t \in S : (\E u \in S : WaitsFor(t, u)) /\ (\E u \in S : WaitsFor(u, t))

\* PostgreSQL finds the cycle and aborts one of them.
DeadlockVictim(t) ==
    /\ \E S \in SUBSET Waiting : t \in S /\ Deadlocked(S)
    /\ RollBack(t)
    /\ UNCHANGED pfaults

------------------------------------------------------------------------------
Progress(t) ==
    \/ Begin(t) \/ SkipStage(t) \/ RunStage(t) \/ Commit(t)
    \/ \E r \in Reports : Lock(t, r)

PipelineNext ==
    \E t \in Tasks :
        \/ Progress(t) \/ RunStageBadly(t) \/ TwinBadly(t)
        \/ SessionLost(t) \/ DeadlockVictim(t)

PipelineSpec == PipelineInit /\ [][PipelineNext]_pipelineVars

\* Tasks are scheduled, waiting ones get the lock, and the database detects
\* deadlocks; faults are not fair.
PipelineFairness ==
    /\ \A t \in Tasks : WF_pipelineVars(Progress(t))
    /\ WF_pipelineVars(\E t \in Tasks : DeadlockVictim(t))

------------------------------------------------------------------------------
(* Properties.                                                             *)

\* Every variable has its type, and a transaction that is over has left nothing.
PipelineTypeOK ==
    /\ row \in [Reports -> [Stages -> Status]]
    /\ announced \in [Reports -> Nat]
    /\ lock \in [Reports -> Tasks \cup {Free}]
    /\ ppc \in [Tasks -> {"idle", "run", "done", "gone"}]
    /\ view \in [Tasks -> [Reports -> [Stages -> Status]]]
    /\ dirty \in [Tasks -> SUBSET Reports]
    /\ staged \in [Tasks -> SUBSET Reports]
    /\ pos \in [Tasks -> Nat]
    /\ tries \in [Tasks -> 0..MaxTries]
    /\ eclipsed \subseteq Reports
    /\ \A t \in Tasks : ppc[t] # "run" => dirty[t] = {} /\ staged[t] = {}
    /\ pfaults \in 0..MaxPipelineFaults

\* Pipeline runs alone update it: no trigger is for it, no report is clustered with it.
Undisturbed(r) ==
    /\ \A t \in Tasks : Kind[t] = "trigger" => \A i \in 1..Len(Targets[t]) : Targets[t][i] # r
    /\ \A q \in Reports : Twin[q] # r

\* However the inline run, the dispatcher and retries interleave, a report that
\* pipeline runs alone update is READY only when all five stages have been
\* evaluated, none of them unsuccessfully (a skipped stage reads as successful),
\* and is announced by then, once.
ReadyIsEarned ==
    \A r \in Reports : Undisturbed(r) =>
        /\ Readiness(row[r]) = "READY" => announced[r] > 0 /\ \A s \in Stages : row[r][s] = "ok"
        /\ announced[r] <= 1

\* The row lock keeps concurrent stage updates from overwriting each other: a
\* stage that was executed never reads as not executed again.
NoStageForgotten ==
    [][\A r \in Reports, s \in Stages : row[r][s] # "fresh" => row'[r][s] # "fresh"]_pipelineVars

\* Locking in report id order keeps two pipelines from waiting for each other.
NoDeadlock == \A S \in (SUBSET Tasks) \ {{}} : ~Deadlocked(S)

\* How a dispatcher's run may end.
Concluded(t) ==
    \/ ppc[t] = "done" /\ Executed(row[Targets[t][1]])
    \/ ppc[t] = "gone" /\ tries[t] = MaxTries
    \/ Targets[t][1] \in eclipsed

\* A report handed to the dispatcher ends with every stage executed, by this run
\* or one before it, and keeps them, in spite of deadlocks, lost sessions and
\* failed stages; unless its event used up all its attempts, or it was eclipsed:
\* shown READY by a twin's or a trigger's CREDIBILITY alone, or overwritten by a
\* copy loaded before.
EventuallyEvaluated == <>[](\A t \in Tasks : Kind[t] = "worker" => Concluded(t))
==============================================================================
