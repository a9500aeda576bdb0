--------------------------- MODULE Pipeline_proofs ---------------------------
(***************************************************************************)
(* Proofs about the pipeline over report rows, for any reports, any number *)
(* of inline runs, dispatcher runs, redeliveries and triggers, and any     *)
(* number of faults: the types, and that READY is earned and announced     *)
(* once by the reports that pipeline runs alone update, and that rows are  *)
(* written under their locks.                                              *)
(***************************************************************************)
EXTENDS Pipeline, TLAPS

Maps == [Stages -> Status]
Indexes == 1 .. 5

LEMMA OrderOfStages ==
  /\ Order[1] = "LOCATION" /\ Order[2] = "DUPLICATE" /\ Order[3] = "EVIDENCE" /\ Order[4] = "OBSERVATION"
  /\ Order[5] = "CREDIBILITY" /\ Len(Order) = 5
  /\ Stages = {"LOCATION", "DUPLICATE", "EVIDENCE", "OBSERVATION", "CREDIBILITY"}
<1>1. /\ Order[1] = "LOCATION" /\ Order[2] = "DUPLICATE" /\ Order[3] = "EVIDENCE" /\ Order[4] = "OBSERVATION"
      /\ Order[5] = "CREDIBILITY" /\ Len(Order) = 5
  BY DEF Order
<1>2. \A i \in 1 .. 5 : i = 1 \/ i = 2 \/ i = 3 \/ i = 4 \/ i = 5
  OBVIOUS
<1> QED BY <1>1, <1>2 DEF Stages

LEMMA TemplateType == Template \in Maps
BY DEF Template, Maps, Status

\* The task's report and stage, as long as it has more to do.
LEMMA SubjectType ==
  ASSUME PipelineAssumption, NEW t \in Tasks, pos[t] \in Nat \ {0}, HasMore(t)
  PROVE  Subject(t) \in Reports /\ Stage(t) \in Stages
<1>1. Targets[t] \in Seq(Reports) /\ Len(Targets[t]) >= 1
  BY DEF PipelineAssumption
<1>2. CASE IsPipeline(t)
  <2>1. pos[t] \in 1 .. Len(Order) /\ Stage(t) = Order[pos[t]]
    BY <1>2, OrderOfStages DEF HasMore, Stage
  <2>2. Subject(t) = Targets[t][1]
    BY <1>2 DEF Subject
  <2> QED BY <1>1, <2>1, <2>2 DEF Stages
<1>3. CASE ~IsPipeline(t)
  <2>1. pos[t] \in 1 .. Len(Targets[t])
    BY <1>1, <1>3 DEF HasMore
  <2> QED BY <1>1, <1>3, <2>1, OrderOfStages DEF Subject, Stage
<1> QED BY <1>2, <1>3

\* A stage stored in a map, and a twin's credibility.
LEMMA StageStored ==
  ASSUME NEW m \in Maps, NEW s \in Stages, NEW status \in Status
  PROVE  /\ [m EXCEPT ![s] = status] \in Maps
         /\ [m EXCEPT ![s] = status][s] = status
         /\ \A q \in Stages \ {s} : [m EXCEPT ![s] = status][q] = m[q]
BY DEF Maps

LEMMA ReadyIsSuccessful ==
  ASSUME NEW m, Readiness(m) = "READY"
  PROVE  \A s \in Stages : Successful(m[s])
BY DEF Readiness

LEMMA TemplateIsPending == Readiness(Template) # "READY"
BY DEF Readiness

-----------------------------------------------------------------------------
(* Types.  That positions are positive is what makes a task's report defined. *)
PipelineTypes ==
    /\ row \in [Reports -> Maps]
    /\ announced \in [Reports -> Nat]
    /\ lock \in [Reports -> Tasks \cup {Free}]
    /\ ppc \in [Tasks -> {"idle", "run", "done", "gone"}]
    /\ view \in [Tasks -> [Reports -> Maps]]
    /\ dirty \in [Tasks -> SUBSET Reports]
    /\ staged \in [Tasks -> SUBSET Reports]
    /\ pos \in [Tasks -> Nat \ {0}]
    /\ tries \in [Tasks -> 0..MaxTries] /\ \A t \in Tasks : tries[t] = MaxTries => ppc[t] = "gone"
    /\ eclipsed \in SUBSET Reports
    /\ \A t \in Tasks : ppc[t] # "run" => dirty[t] = {} /\ staged[t] = {}
    /\ pfaults \in 0..MaxPipelineFaults

LEMMA PipelineStartTypes == ASSUME PipelineAssumption, PipelineInit PROVE PipelineTypes
BY TemplateType DEF PipelineInit, InitRows, PipelineTypes, PipelineAssumption

LEMMA BeginTypes ==
  ASSUME PipelineAssumption, PipelineTypes, NEW t \in Tasks, Begin(t) PROVE PipelineTypes'
<1>1. Targets[t][1] \in Reports
  BY DEF PipelineAssumption
<1>2. eclipsed' \in SUBSET Reports
  BY <1>1 DEF Begin, PipelineTypes
<1> QED BY <1>2 DEF PipelineTypes, Begin

LEMMA SkipTypes == ASSUME PipelineTypes, NEW t \in Tasks, SkipStage(t) PROVE PipelineTypes'
BY DEF PipelineTypes, SkipStage

LEMMA LockTypes ==
  ASSUME PipelineTypes, NEW t \in Tasks, NEW r \in Reports, Lock(t, r) PROVE PipelineTypes'
BY DEF PipelineTypes, Lock

LEMMA TouchedReports ==
  ASSUME PipelineAssumption, PipelineTypes, NEW t \in Tasks, HasMore(t)
  PROVE  Subject(t) \in Reports /\ Stage(t) \in Stages /\ Touches(t) \subseteq Reports
         /\ (Clusters(t) => Twin[Subject(t)] \in Reports /\ Twin[Subject(t)] # Subject(t))
<1>1. Subject(t) \in Reports /\ Stage(t) \in Stages
  BY SubjectType DEF PipelineTypes
<1>2. Clusters(t) => Twin[Subject(t)] \in Reports /\ Twin[Subject(t)] # Subject(t)
  BY <1>1 DEF Clusters, PipelineAssumption
<1> QED BY <1>1, <1>2 DEF Touches

\* What a stage leaves in the task's copies.
LEMMA RunStageViews ==
  ASSUME PipelineAssumption, PipelineTypes, NEW t \in Tasks, RunStage(t), NEW r, r = Subject(t)
  PROVE  \E v \in [Reports -> Maps] :
           /\ view' = [view EXCEPT ![t] = v]
           /\ v[r] = [view[t][r] EXCEPT ![Stage(t)] = "ok"]
<1>1. r \in Reports /\ Stage(t) \in Stages /\ (Clusters(t) => Twin[r] \in Reports /\ Twin[r] # r)
  BY TouchedReports DEF RunStage, Running
<1> DEFINE q == Twin[r]
           copy == IF q \in dirty[t] THEN view[t][q] ELSE row[q]
           ran == [view[t][r] EXCEPT ![Stage(t)] = "ok"]
           twin == [copy EXCEPT !["CREDIBILITY"] = "ok"]
<1>2. view[t] \in [Reports -> Maps] /\ view[t][r] \in Maps
  BY <1>1 DEF PipelineTypes
<1>3. ran \in Maps
  BY <1>1, <1>2, StageStored DEF Status
<1>4. CASE Clusters(t)
  <2>1. copy \in Maps
    BY <1>1, <1>2, <1>4 DEF PipelineTypes
  <2>2. twin \in Maps
    BY <2>1, StageStored, OrderOfStages DEF Status
  <2>3. view' = [view EXCEPT ![t] = [[view[t] EXCEPT ![r] = ran] EXCEPT ![q] = twin]]
    BY <1>4, Zenon DEF RunStage
  <2> HIDE DEF ran, twin, copy
  <2>4. [[view[t] EXCEPT ![r] = ran] EXCEPT ![q] = twin] \in [Reports -> Maps]
    BY <1>1, <1>2, <1>3, <1>4, <2>2
  <2>5. [[view[t] EXCEPT ![r] = ran] EXCEPT ![q] = twin][r] = ran
    BY <1>1, <1>2, <1>3, <1>4
  <2> QED BY <2>3, <2>4, <2>5 DEF ran
<1>5. CASE ~Clusters(t)
  <2>1. view' = [view EXCEPT ![t] = [view[t] EXCEPT ![r] = ran]]
    BY <1>5, Zenon DEF RunStage
  <2> HIDE DEF ran
  <2>2. [view[t] EXCEPT ![r] = ran] \in [Reports -> Maps] /\ [view[t] EXCEPT ![r] = ran][r] = ran
    BY <1>1, <1>2, <1>3
  <2> QED BY <2>1, <2>2 DEF ran
<1> QED BY <1>4, <1>5

LEMMA RunStageTypes ==
  ASSUME PipelineAssumption, PipelineTypes, NEW t \in Tasks, RunStage(t) PROVE PipelineTypes'
<1>1. HasMore(t) /\ ppc[t] = "run" /\ UNCHANGED <<row, announced, lock, ppc, tries, eclipsed, pfaults>>
  BY DEF RunStage, Running
<1>2. /\ Subject(t) \in Reports /\ Touches(t) \subseteq Reports
      /\ (Clusters(t) => Twin[Subject(t)] \in Reports)
  BY <1>1, TouchedReports
<1>3. view' \in [Tasks -> [Reports -> Maps]]
  <2>1. PICK v \in [Reports -> Maps] : view' = [view EXCEPT ![t] = v]
    BY RunStageViews
  <2> QED BY <2>1 DEF PipelineTypes
<1>4. dirty' \in [Tasks -> SUBSET Reports] /\ \A u \in Tasks \ {t} : dirty'[u] = dirty[u]
  BY <1>2 DEF RunStage, PipelineTypes
<1>5. staged' \in [Tasks -> SUBSET Reports] /\ \A u \in Tasks \ {t} : staged'[u] = staged[u]
  <2>1. \E S \in SUBSET Reports : staged' = [staged EXCEPT ![t] = @ \cup S]
    <3>1. staged' = [staged EXCEPT ![t] = @ \cup (IF Clusters(t) THEN {Twin[Subject(t)]} ELSE {})
                                             \cup (IF IsPipeline(t) THEN {} ELSE {Subject(t)})]
      BY DEF RunStage
    <3> DEFINE S == (IF Clusters(t) THEN {Twin[Subject(t)]} ELSE {})
                      \cup (IF IsPipeline(t) THEN {} ELSE {Subject(t)})
    <3>2. S \in SUBSET Reports
      BY <1>2
    <3>3. staged' = [staged EXCEPT ![t] = @ \cup S]
      <4>1. \A A, B, C : A \cup B \cup C = A \cup (B \cup C)
        OBVIOUS
      <4> QED BY <3>1, <4>1, Zenon
    <3> HIDE DEF S
    <3> QED BY <3>2, <3>3
  <2> QED BY <2>1 DEF PipelineTypes
<1>6. pos' \in [Tasks -> Nat \ {0}]
  BY DEF RunStage, PipelineTypes
<1> QED BY <1>1, <1>3, <1>4, <1>5, <1>6 DEF PipelineTypes

LEMMA RunStageBadlyTypes ==
  ASSUME PipelineAssumption, PipelineTypes, NEW t \in Tasks, RunStageBadly(t) PROVE PipelineTypes'
<1>1. /\ HasMore(t) /\ ppc[t] = "run"
      /\ UNCHANGED <<row, announced, lock, ppc, staged, tries, eclipsed>>
  BY DEF RunStageBadly, Running
<1>2. Subject(t) \in Reports /\ Stage(t) \in Stages
  BY <1>1, TouchedReports
<1>3. PICK status \in {"failed", "ok"} : view' = [view EXCEPT ![t][Subject(t)][Stage(t)] = status]
  BY DEF RunStageBadly
<1>4. view' \in [Tasks -> [Reports -> Maps]]
  <2>1. [view[t][Subject(t)] EXCEPT ![Stage(t)] = status] \in Maps
    <3>1. view[t][Subject(t)] \in Maps /\ status \in Status
      BY <1>2 DEF PipelineTypes, Status
    <3> QED BY <1>2, <3>1, StageStored
  <2>2. view' = [view EXCEPT ![t] = [view[t] EXCEPT ![Subject(t)] = [view[t][Subject(t)] EXCEPT ![Stage(t)] = status]]]
    BY <1>3, Zenon
  <2> QED BY <1>2, <2>1, <2>2 DEF PipelineTypes
<1>5. dirty' \in [Tasks -> SUBSET Reports] /\ \A u \in Tasks \ {t} : dirty'[u] = dirty[u]
  BY <1>2 DEF RunStageBadly, PipelineTypes
<1>6. pos' \in [Tasks -> Nat \ {0}] /\ pfaults' \in 0..MaxPipelineFaults
  BY DEF RunStageBadly, PipelineTypes, PipelineFault, PipelineAssumption
<1> QED BY <1>1, <1>4, <1>5, <1>6 DEF PipelineTypes

\* A stage succeeds and its twin does not.
LEMMA TwinBadlyViews ==
  ASSUME PipelineAssumption, PipelineTypes, NEW t \in Tasks, TwinBadly(t), NEW r, r = Subject(t)
  PROVE  /\ \E v \in [Reports -> Maps] :
              /\ view' = [view EXCEPT ![t] = v]
              /\ v[r] = [view[t][r] EXCEPT ![Stage(t)] = "ok"]
         /\ \E D \in SUBSET Touches(t) : dirty' = [dirty EXCEPT ![t] = dirty[t] \cup D]
<1>1. /\ r \in Reports /\ Stage(t) \in Stages /\ Clusters(t)
      /\ Twin[r] \in Reports /\ Twin[r] # r
  BY TouchedReports DEF TwinBadly, Running
<1> DEFINE q == Twin[r]
           copy == IF q \in dirty[t] THEN view[t][q] ELSE row[q]
           ran == [view[t][r] EXCEPT ![Stage(t)] = "ok"]
           twin(status) == [copy EXCEPT !["CREDIBILITY"] = status]
           V(status) == [[view[t] EXCEPT ![r] = ran] EXCEPT ![q] = twin(status)]
<1>2. view[t] \in [Reports -> Maps] /\ view[t][r] \in Maps /\ copy \in Maps
  BY <1>1 DEF PipelineTypes
<1>3. ran \in Maps
  BY <1>1, <1>2, StageStored DEF Status
<1>4. CASE view' = [view EXCEPT ![t][r] = ran] /\ dirty' = [dirty EXCEPT ![t] = @ \cup {r}]
  <2>1. {r} \in SUBSET Touches(t) /\ dirty' = [dirty EXCEPT ![t] = dirty[t] \cup {r}]
    BY <1>4 DEF Touches
  <2> HIDE DEF ran
  <2>2. view' = [view EXCEPT ![t] = [view[t] EXCEPT ![r] = ran]]
    BY <1>4, Zenon
  <2>3. [view[t] EXCEPT ![r] = ran] \in [Reports -> Maps] /\ [view[t] EXCEPT ![r] = ran][r] = ran
    BY <1>1, <1>2, <1>3
  <2> QED BY <2>1, <2>2, <2>3 DEF ran
<1>5. CASE /\ \E status \in {"failed", "ok"} : view' = [view EXCEPT ![t] = V(status)]
           /\ dirty' = [dirty EXCEPT ![t] = @ \cup Touches(t)]
  <2>1. PICK status \in {"failed", "ok"} : view' = [view EXCEPT ![t] = V(status)]
    BY <1>5
  <2> HIDE DEF copy
  <2>2. twin(status) \in Maps
    <3>1. "CREDIBILITY" \in Stages /\ status \in Status
      BY OrderOfStages DEF Status
    <3> QED BY <1>2, <3>1, StageStored
  <2> HIDE DEF ran, twin
  <2>3. V(status) \in [Reports -> Maps] /\ V(status)[r] = ran
    BY <1>1, <1>2, <1>3, <2>2
  <2>4. dirty' = [dirty EXCEPT ![t] = dirty[t] \cup Touches(t)]
    BY <1>5
  <2> QED BY <2>1, <2>3, <2>4 DEF ran
<1>6. \/ view' = [view EXCEPT ![t][r] = ran] /\ dirty' = [dirty EXCEPT ![t] = @ \cup {r}]
      \/ /\ \E status \in {"failed", "ok"} : view' = [view EXCEPT ![t] = V(status)]
         /\ dirty' = [dirty EXCEPT ![t] = @ \cup Touches(t)]
  BY Zenon DEF TwinBadly
<1> QED BY <1>4, <1>5, <1>6

LEMMA TwinBadlyTypes ==
  ASSUME PipelineAssumption, PipelineTypes, NEW t \in Tasks, TwinBadly(t) PROVE PipelineTypes'
<1>1. /\ HasMore(t) /\ ppc[t] = "run"
      /\ UNCHANGED <<row, announced, lock, ppc, staged, tries, eclipsed>>
  BY DEF TwinBadly, Running
<1>2. Touches(t) \subseteq Reports
  BY <1>1, TouchedReports
<1>3. PICK D \in SUBSET Touches(t) : dirty' = [dirty EXCEPT ![t] = dirty[t] \cup D]
  BY TwinBadlyViews
<1>4. view' \in [Tasks -> [Reports -> Maps]]
  <2>1. PICK v \in [Reports -> Maps] : view' = [view EXCEPT ![t] = v]
    BY TwinBadlyViews
  <2> QED BY <2>1 DEF PipelineTypes
<1>5. dirty' \in [Tasks -> SUBSET Reports] /\ \A u \in Tasks \ {t} : dirty'[u] = dirty[u]
  BY <1>2, <1>3 DEF PipelineTypes
<1>6. pos' \in [Tasks -> Nat \ {0}] /\ pfaults' \in 0..MaxPipelineFaults
  BY DEF TwinBadly, PipelineTypes, PipelineFault, PipelineAssumption
<1> QED BY <1>1, <1>4, <1>5, <1>6 DEF PipelineTypes

LEMMA ReleaseTypes ==
  ASSUME PipelineTypes, NEW t \in Tasks, Release(t), row' \in [Reports -> Maps], announced' \in [Reports -> Nat],
         tries' \in [Tasks -> 0..MaxTries], \A u \in Tasks : tries'[u] = MaxTries => ppc'[u] = "gone",
         eclipsed' \in SUBSET Reports,
         NEW p \in {"idle", "done", "gone"}, ppc' = [ppc EXCEPT ![t] = p], pfaults' \in 0..MaxPipelineFaults
  PROVE  PipelineTypes'
<1>1. lock' \in [Reports -> Tasks \cup {Free}]
  <2>1. PICK heir \in [Wanted(t) -> Tasks] :
           lock' = [r \in Reports |-> IF r \in Wanted(t) THEN heir[r] ELSE IF lock[r] = t THEN Free ELSE lock[r]]
    BY DEF Release
  <2> QED BY <2>1 DEF PipelineTypes
<1>2. /\ view' = [view EXCEPT ![t] = [r \in Reports |-> Template]]
      /\ dirty' = [dirty EXCEPT ![t] = {}] /\ staged' = [staged EXCEPT ![t] = {}] /\ pos' = [pos EXCEPT ![t] = 1]
  BY DEF Release
<1>3. view' \in [Tasks -> [Reports -> Maps]]
  BY <1>2, TemplateType DEF PipelineTypes
<1> QED BY <1>1, <1>2, <1>3 DEF PipelineTypes

LEMMA CommitTypes == ASSUME PipelineTypes, NEW t \in Tasks, Commit(t) PROVE PipelineTypes'
<1>1. row' \in [Reports -> Maps]
  BY DEF Commit, PipelineTypes
<1>2. announced' \in [Reports -> Nat]
  BY DEF Commit, PipelineTypes
<1>3. tries' \in [Tasks -> 0..MaxTries] /\ \A u \in Tasks : tries'[u] = MaxTries => ppc'[u] = "gone"
  BY DEF Commit, PipelineTypes
<1>4. eclipsed' \in SUBSET Reports /\ ppc' = [ppc EXCEPT ![t] = "done"] /\ Release(t)
      /\ pfaults' \in 0..MaxPipelineFaults
  BY DEF Commit, PipelineTypes
<1> QED BY <1>1, <1>2, <1>3, <1>4, ReleaseTypes

LEMMA RollBackTypes ==
  ASSUME PipelineAssumption, PipelineTypes, NEW t \in Tasks, SessionLost(t) \/ DeadlockVictim(t) PROVE PipelineTypes'
<1>0. ppc[t] = "run"
  BY DEF SessionLost, DeadlockVictim, Waiting, WantsLock, Running
<1>1. RollBack(t) /\ pfaults' \in 0..MaxPipelineFaults
  BY DEF SessionLost, DeadlockVictim, PipelineFault, PipelineTypes, PipelineAssumption
<1>2. PICK p \in {"idle", "gone"} :
        /\ ppc' = [ppc EXCEPT ![t] = p] /\ tries' = [tries EXCEPT ![t] = tries[t] + 1]
        /\ tries[t] + 1 = MaxTries => p = "gone"
  BY <1>1 DEF RollBack
<1>3. Release(t) /\ row' \in [Reports -> Maps] /\ announced' \in [Reports -> Nat] /\ eclipsed' \in SUBSET Reports
  BY <1>1 DEF RollBack, PipelineTypes
<1>4. tries[t] \in 0..MaxTries /\ tries[t] # MaxTries /\ MaxTries \in Nat
  <2>1. ppc[t] # "gone"
    BY <1>0
  <2> QED BY <2>1 DEF PipelineTypes, PipelineAssumption
<1>5. tries' \in [Tasks -> 0..MaxTries]
  <2>1. tries[t] + 1 \in 0..MaxTries
    BY <1>4
  <2>2. tries \in [Tasks -> 0..MaxTries]
    BY DEF PipelineTypes
  <2>3. tries' = [tries EXCEPT ![t] = tries[t] + 1]
    BY <1>2
  <2>4. [tries EXCEPT ![t] = tries[t] + 1] \in [Tasks -> 0..MaxTries]
    BY <2>1, <2>2, Zenon
  <2> QED BY <2>3, <2>4, Zenon
<1>6. ASSUME NEW u \in Tasks, tries'[u] = MaxTries  PROVE ppc'[u] = "gone"
  <2>1. CASE u = t
    BY <1>2, <1>4, <1>6, <2>1 DEF PipelineTypes
  <2>2. CASE u # t
    BY <1>2, <1>6, <2>2 DEF PipelineTypes
  <2> QED BY <2>1, <2>2
<1> QED BY <1>1, <1>2, <1>3, <1>5, <1>6, ReleaseTypes

LEMMA NextTypes ==
  ASSUME PipelineAssumption, PipelineTypes, [PipelineNext]_pipelineVars PROVE PipelineTypes'
<1>1. CASE UNCHANGED pipelineVars
  BY <1>1 DEF pipelineVars, PipelineTypes
<1> QED BY <1>1, BeginTypes, SkipTypes, LockTypes, RunStageTypes, RunStageBadlyTypes, TwinBadlyTypes, CommitTypes,
           RollBackTypes
        DEF PipelineNext, Progress

\* Every variable has its type, and a transaction that is over has left nothing.
THEOREM PipelineTyping == ASSUME PipelineAssumption PROVE PipelineSpec => []PipelineTypeOK
<1>1. PipelineTypes => PipelineTypeOK
  BY DEF PipelineTypes, PipelineTypeOK, Maps
<1>2. PipelineSpec => []PipelineTypes
  BY PipelineStartTypes, NextTypes, PTL DEF PipelineSpec
<1> QED BY <1>1, <1>2, PTL

-----------------------------------------------------------------------------
(* READY is earned.  A pipeline run of an undisturbed report has evaluated, *)
(* in its own copy, every stage it is past, or LOCATION failed and with it  *)
(* the stages that depend on it: what it commits is complete or not READY,  *)
(* however old the copy.                                                    *)
Middle == {"DUPLICATE", "EVIDENCE", "OBSERVATION"}
Past(m, s) == m[s] # "fresh" \/ (s \in Middle /\ m["LOCATION"] = "failed")
Evaluated(m, n) == \A i \in 1 .. 5 : i < n => Past(m, Order[i])

RunsOf(t, r) == IsPipeline(t) /\ Targets[t][1] = r

Earned(r) ==
    /\ Readiness(row[r]) = "READY" => announced[r] > 0 /\ \A s \in Stages : row[r][s] = "ok"
    /\ announced[r] <= 1

OwnRuns(r) ==
    \A t \in Tasks :
        /\ r \notin staged[t] /\ (r \in dirty[t] => RunsOf(t, r))
        /\ RunsOf(t, r) /\ ppc[t] = "run" => Evaluated(view[t][r], pos[t])

EarnedInv == \A r \in Reports : Undisturbed(r) => Earned(r) /\ OwnRuns(r)

PipelineInv == PipelineTypes /\ EarnedInv

LEMMA EarnedAtStart == ASSUME PipelineAssumption, PipelineInit PROVE EarnedInv
BY TemplateIsPending DEF PipelineInit, InitRows, EarnedInv, Earned, OwnRuns

\* Only its own runs touch an undisturbed report.
LEMMA TouchesUndisturbed ==
  ASSUME PipelineAssumption, PipelineTypes, NEW t \in Tasks, HasMore(t), NEW r \in Reports, Undisturbed(r)
  PROVE  /\ r = Subject(t) <=> RunsOf(t, r)
         /\ ~IsPipeline(t) => r # Subject(t)
         /\ Clusters(t) => Twin[Subject(t)] # r
         /\ r \in Touches(t) => RunsOf(t, r)
<1>1. IsPipeline(t) => (r = Subject(t) <=> Targets[t][1] = r)
  BY DEF Subject
<1>2. ~IsPipeline(t) => r # Subject(t)
  <2>1. SUFFICES ASSUME ~IsPipeline(t)  PROVE r # Subject(t)
    OBVIOUS
  <2>2. Targets[t] \in Seq(Reports) /\ pos[t] \in Nat \ {0} /\ Kind[t] = "trigger"
    BY <2>1 DEF PipelineAssumption, PipelineTypes, IsPipeline
  <2>3. pos[t] \in 1 .. Len(Targets[t])
    BY <2>1, <2>2 DEF HasMore
  <2> QED BY <2>1, <2>2, <2>3 DEF Undisturbed, Subject
<1>3. Clusters(t) => Twin[Subject(t)] # r
  <2>1. Subject(t) \in Reports
    BY TouchedReports
  <2> QED BY <2>1 DEF Undisturbed
<1> QED BY <1>1, <1>2, <1>3 DEF Touches, RunsOf

\* The next stage of a run.
LEMMA OwnStage ==
  ASSUME PipelineTypes, NEW t \in Tasks, NEW r \in Reports, RunsOf(t, r), HasMore(t)
  PROVE  Subject(t) = r /\ Stage(t) = Order[pos[t]] /\ pos[t] \in 1 .. 5 /\ view[t][r] \in Maps
<1>1. IsPipeline(t) /\ Targets[t][1] = r
  BY DEF RunsOf
<1>2. pos[t] \in Nat \ {0} /\ view[t][r] \in Maps
  BY DEF PipelineTypes
<1>3. pos[t] <= 5
  BY <1>1, OrderOfStages DEF HasMore
<1> QED BY <1>1, <1>2, <1>3 DEF Subject, Stage

\* A stage that stays as it is or is stored as evaluated.
LEMMA EvaluatedOnward ==
  ASSUME NEW m \in Maps, NEW k \in Maps, NEW n \in 1 .. 5, Evaluated(m, n), Past(k, Order[n]),
         \A s \in Stages : k[s] = m[s] \/ (s = Order[n] /\ k[s] # "fresh")
  PROVE  Evaluated(k, n + 1)
<1> SUFFICES ASSUME NEW i \in 1 .. 5, i < n + 1  PROVE Past(k, Order[i])
  BY DEF Evaluated
<1>1. CASE i = n
  BY <1>1
<1>2. CASE i < n
  <2>1. Past(m, Order[i])
    BY <1>2 DEF Evaluated
  <2>2. Order[i] # Order[n] /\ Order[n] # "LOCATION"
    BY <1>2, OrderOfStages
  <2>3. Order[i] \in Stages /\ "LOCATION" \in Stages
    BY OrderOfStages DEF Stages
  <2> QED BY <2>1, <2>2, <2>3 DEF Past
<1> QED BY <1>1, <1>2

LEMMA BeginEarns == ASSUME PipelineInv, NEW t \in Tasks, Begin(t) PROVE EarnedInv'
<1> SUFFICES ASSUME NEW r \in Reports, Undisturbed(r)  PROVE Earned(r)' /\ OwnRuns(r)'
  BY DEF EarnedInv, Undisturbed
<1>1. Earned(r) /\ OwnRuns(r)
  BY DEF PipelineInv, EarnedInv
<1>2. Earned(r)'
  BY <1>1 DEF Earned, Begin
<1>3. ASSUME NEW u \in Tasks
      PROVE  /\ r \notin staged'[u] /\ (r \in dirty'[u] => RunsOf(u, r))
             /\ RunsOf(u, r) /\ ppc'[u] = "run" => Evaluated(view'[u][r], pos'[u])
  <2>1. CASE u = t
    <3>1. pos'[t] = 1 /\ UNCHANGED <<dirty, staged>>
      BY DEF Begin, PipelineInv, PipelineTypes
    <3> QED BY <1>1, <2>1, <3>1 DEF OwnRuns, Evaluated
  <2>2. CASE u # t
    BY <1>1, <2>2 DEF OwnRuns, Begin, PipelineInv, PipelineTypes
  <2> QED BY <2>1, <2>2
<1> QED BY <1>2, <1>3 DEF OwnRuns, RunsOf, IsPipeline

LEMMA SkipEarns == ASSUME PipelineAssumption, PipelineInv, NEW t \in Tasks, SkipStage(t) PROVE EarnedInv'
<1> SUFFICES ASSUME NEW r \in Reports, Undisturbed(r)  PROVE Earned(r)' /\ OwnRuns(r)'
  BY DEF EarnedInv, Undisturbed
<1>1. Earned(r) /\ OwnRuns(r) /\ PipelineTypes
  BY DEF PipelineInv, EarnedInv
<1>2. Earned(r)'
  BY <1>1 DEF Earned, SkipStage
<1>3. ASSUME NEW u \in Tasks
      PROVE  /\ r \notin staged'[u] /\ (r \in dirty'[u] => RunsOf(u, r))
             /\ RunsOf(u, r) /\ ppc'[u] = "run" => Evaluated(view'[u][r], pos'[u])
  <2>1. CASE u = t /\ RunsOf(t, r)
    <3>1. Subject(t) = r /\ Stage(t) = Order[pos[t]] /\ pos[t] \in 1 .. 5 /\ view[t][r] \in Maps
      BY <1>1, <2>1, OwnStage DEF SkipStage
    <3>2. Evaluated(view[t][r], pos[t])
      BY <1>1, <2>1 DEF OwnRuns, SkipStage
    <3>3. Past(view[t][r], Order[pos[t]])
      <4>1. ~Due(Order[pos[t]], view[t][r])
        BY <3>1 DEF SkipStage
      <4>2. view[t][r]["LOCATION"] \in Status
        BY <3>1, OrderOfStages DEF Maps
      <4> QED BY <4>1, <4>2 DEF Due, CanExecute, Successful, Status, Past, Middle
    <3>4. Evaluated(view[t][r], pos[t] + 1)
      BY <3>1, <3>2, <3>3, EvaluatedOnward
    <3>5. pos'[t] = pos[t] + 1 /\ UNCHANGED <<view, dirty, staged>>
      BY <1>1 DEF SkipStage, PipelineTypes
    <3> QED BY <1>1, <2>1, <3>4, <3>5 DEF OwnRuns
  <2>2. CASE ~(u = t /\ RunsOf(t, r))
    BY <1>1, <2>2 DEF OwnRuns, SkipStage, PipelineTypes
  <2> QED BY <2>1, <2>2
<1> QED BY <1>2, <1>3 DEF OwnRuns, RunsOf, IsPipeline

LEMMA LockEarns == ASSUME PipelineInv, NEW t \in Tasks, NEW q \in Reports, Lock(t, q) PROVE EarnedInv'
BY DEF PipelineInv, EarnedInv, Earned, OwnRuns, Undisturbed, RunsOf, IsPipeline, Lock

\* A stage that runs, with any outcome.
LEMMA StageEarns ==
  ASSUME PipelineAssumption, PipelineInv, NEW t \in Tasks, HasMore(t), ppc[t] = "run",
         UNCHANGED <<row, announced, ppc>>, pos' = [pos EXCEPT ![t] = @ + 1],
         \A u \in Tasks \ {t} : view'[u] = view[u] /\ dirty'[u] = dirty[u] /\ staged'[u] = staged[u],
         dirty'[t] \subseteq dirty[t] \cup Touches(t),
         \A r \in Reports : Undisturbed(r) => (r \in staged'[t] => r \in staged[t]),
         NEW status \in {"ok", "failed"},
         \A r \in Reports : r = Subject(t) => view'[t][r] = [view[t][r] EXCEPT ![Stage(t)] = status]
  PROVE  EarnedInv'
<1> SUFFICES ASSUME NEW r \in Reports, Undisturbed(r)  PROVE Earned(r)' /\ OwnRuns(r)'
  BY DEF EarnedInv, Undisturbed
<1>1. Earned(r) /\ OwnRuns(r) /\ PipelineTypes
  BY DEF PipelineInv, EarnedInv
<1>2. Earned(r)'
  BY <1>1 DEF Earned
<1>3. ASSUME NEW u \in Tasks
      PROVE  /\ r \notin staged'[u] /\ (r \in dirty'[u] => RunsOf(u, r))
             /\ RunsOf(u, r) /\ ppc'[u] = "run" => Evaluated(view'[u][r], pos'[u])
  <2>1. CASE u = t
    <3>1. r \notin staged'[t] /\ (r \in dirty'[t] => RunsOf(t, r))
      BY <1>1, TouchesUndisturbed DEF OwnRuns
    <3>2. ASSUME RunsOf(t, r)  PROVE Evaluated(view'[t][r], pos'[t])
      <4>1. Subject(t) = r /\ Stage(t) = Order[pos[t]] /\ pos[t] \in 1 .. 5 /\ view[t][r] \in Maps
        BY <1>1, <3>2, OwnStage
      <4>2. Evaluated(view[t][r], pos[t])
        BY <1>1, <3>2 DEF OwnRuns
      <4>3. Order[pos[t]] \in Stages
        BY <4>1, OrderOfStages
      <4> DEFINE k == [view[t][r] EXCEPT ![Order[pos[t]]] = status]
      <4>4. k \in Maps /\ k[Order[pos[t]]] = status /\ \A s \in Stages \ {Order[pos[t]]} : k[s] = view[t][r][s]
        <5>1. status \in Status
          BY DEF Status
        <5> QED BY <4>1, <4>3, <5>1, StageStored
      <4>5. view'[t][r] = k
        BY <4>1
      <4>6. pos'[t] = pos[t] + 1
        BY <1>1 DEF PipelineTypes
      <4> HIDE DEF k
      <4>7. Past(k, Order[pos[t]])
        BY <4>4 DEF Past
      <4>8. Evaluated(k, pos[t] + 1)
        BY <4>1, <4>2, <4>4, <4>7, EvaluatedOnward
      <4> QED BY <4>5, <4>6, <4>8
    <3> QED BY <2>1, <3>1, <3>2
  <2>2. CASE u # t
    BY <1>1, <2>2 DEF OwnRuns, PipelineTypes
  <2> QED BY <2>1, <2>2
<1> QED BY <1>2, <1>3 DEF OwnRuns, RunsOf, IsPipeline

LEMMA RunStageEarns == ASSUME PipelineAssumption, PipelineInv, NEW t \in Tasks, RunStage(t) PROVE EarnedInv'
<1>1. /\ HasMore(t) /\ ppc[t] = "run" /\ PipelineTypes
      /\ UNCHANGED <<row, announced, ppc>> /\ pos' = [pos EXCEPT ![t] = @ + 1]
      /\ dirty' = [dirty EXCEPT ![t] = @ \cup Touches(t)]
  BY DEF RunStage, Running, PipelineInv
<1>2. Subject(t) \in Reports
  BY <1>1, TouchedReports
<1>3. PICK v : view' = [view EXCEPT ![t] = v] /\ v[Subject(t)] = [view[t][Subject(t)] EXCEPT ![Stage(t)] = "ok"]
  BY <1>1, RunStageViews
<1>4. staged' = [staged EXCEPT ![t] = @ \cup (IF Clusters(t) THEN {Twin[Subject(t)]} ELSE {})
                                         \cup (IF IsPipeline(t) THEN {} ELSE {Subject(t)})]
  BY DEF RunStage
<1>5. \A r \in Reports : Undisturbed(r) => (r \in staged'[t] => r \in staged[t])
  <2>1. ASSUME NEW r \in Reports, Undisturbed(r), r \in staged'[t]  PROVE r \in staged[t]
    <3>1. (Clusters(t) => Twin[Subject(t)] # r) /\ (~IsPipeline(t) => r # Subject(t))
      BY <1>1, <2>1, TouchesUndisturbed
    <3>2. staged'[t] = staged[t] \cup (IF Clusters(t) THEN {Twin[Subject(t)]} ELSE {})
                                 \cup (IF IsPipeline(t) THEN {} ELSE {Subject(t)})
      BY <1>1, <1>4 DEF PipelineTypes
    <3> QED BY <2>1, <3>1, <3>2
  <2> QED BY <2>1
<1>6. \A u \in Tasks \ {t} : view'[u] = view[u] /\ dirty'[u] = dirty[u] /\ staged'[u] = staged[u]
  BY <1>1, <1>3, <1>4 DEF PipelineTypes
<1>7. dirty'[t] \subseteq dirty[t] \cup Touches(t)
  BY <1>1 DEF PipelineTypes
<1>8. \A r \in Reports : r = Subject(t) => view'[t][r] = [view[t][r] EXCEPT ![Stage(t)] = "ok"]
  BY <1>1, <1>3 DEF PipelineTypes
<1> QED BY <1>1, <1>5, <1>6, <1>7, <1>8, StageEarns

LEMMA RunStageBadlyEarns ==
  ASSUME PipelineAssumption, PipelineInv, NEW t \in Tasks, RunStageBadly(t) PROVE EarnedInv'
<1>1. /\ HasMore(t) /\ ppc[t] = "run" /\ PipelineTypes
      /\ UNCHANGED <<row, announced, ppc, staged>> /\ pos' = [pos EXCEPT ![t] = @ + 1]
      /\ dirty' = [dirty EXCEPT ![t] = @ \cup {Subject(t)}]
  BY DEF RunStageBadly, Running, PipelineInv
<1>2. PICK status \in {"failed", "ok"} : view' = [view EXCEPT ![t][Subject(t)][Stage(t)] = status]
  BY DEF RunStageBadly
<1>3. view' = [view EXCEPT ![t] = [view[t] EXCEPT ![Subject(t)] = [view[t][Subject(t)] EXCEPT ![Stage(t)] = status]]]
  BY <1>2, Zenon
<1>4. \A u \in Tasks \ {t} : view'[u] = view[u] /\ dirty'[u] = dirty[u] /\ staged'[u] = staged[u]
  BY <1>1, <1>3 DEF PipelineTypes
<1>5. dirty'[t] \subseteq dirty[t] \cup Touches(t)
  BY <1>1 DEF PipelineTypes, Touches
<1>6. \A r \in Reports : r = Subject(t) => view'[t][r] = [view[t][r] EXCEPT ![Stage(t)] = status]
  <2>1. SUFFICES ASSUME Subject(t) \in Reports
                 PROVE  view'[t][Subject(t)] = [view[t][Subject(t)] EXCEPT ![Stage(t)] = status]
    OBVIOUS
  <2>2. view'[t] = [view[t] EXCEPT ![Subject(t)] = [view[t][Subject(t)] EXCEPT ![Stage(t)] = status]]
    BY <1>1, <1>3 DEF PipelineTypes
  <2> QED BY <1>1, <2>1, <2>2 DEF PipelineTypes
<1>7. \A r \in Reports : Undisturbed(r) => (r \in staged'[t] => r \in staged[t])
  BY <1>1
<1>8. CASE status = "ok"
  BY <1>1, <1>4, <1>5, <1>6, <1>7, <1>8, StageEarns
<1>9. CASE status = "failed"
  BY <1>1, <1>4, <1>5, <1>6, <1>7, <1>9, StageEarns
<1> QED BY <1>8, <1>9

LEMMA TwinBadlyEarns == ASSUME PipelineAssumption, PipelineInv, NEW t \in Tasks, TwinBadly(t) PROVE EarnedInv'
<1>1. /\ HasMore(t) /\ ppc[t] = "run" /\ PipelineTypes
      /\ UNCHANGED <<row, announced, ppc, staged>> /\ pos' = [pos EXCEPT ![t] = @ + 1]
  BY DEF TwinBadly, Running, PipelineInv
<1>2. PICK v \in [Reports -> Maps] :
        view' = [view EXCEPT ![t] = v] /\ v[Subject(t)] = [view[t][Subject(t)] EXCEPT ![Stage(t)] = "ok"]
  BY <1>1, TwinBadlyViews
<1>3. PICK D \in SUBSET Touches(t) : dirty' = [dirty EXCEPT ![t] = dirty[t] \cup D]
  BY <1>1, TwinBadlyViews
<1>4. \A u \in Tasks \ {t} : view'[u] = view[u] /\ dirty'[u] = dirty[u] /\ staged'[u] = staged[u]
  BY <1>1, <1>2, <1>3 DEF PipelineTypes
<1>5. dirty'[t] \subseteq dirty[t] \cup Touches(t)
  BY <1>1, <1>3 DEF PipelineTypes
<1>6. \A r \in Reports : r = Subject(t) => view'[t][r] = [view[t][r] EXCEPT ![Stage(t)] = "ok"]
  BY <1>1, <1>2 DEF PipelineTypes
<1>7. \A r \in Reports : Undisturbed(r) => (r \in staged'[t] => r \in staged[t])
  BY <1>1
<1> QED BY <1>1, <1>4, <1>5, <1>6, <1>7, StageEarns

\* What a transaction leaves when it ends.
LEMMA ReleaseKeepsOwn ==
  ASSUME PipelineInv, NEW t \in Tasks, Release(t), NEW p \in {"idle", "done", "gone"}, ppc' = [ppc EXCEPT ![t] = p],
         NEW r \in Reports, Undisturbed(r)
  PROVE  OwnRuns(r)'
<1>1. OwnRuns(r) /\ PipelineTypes
  BY DEF PipelineInv, EarnedInv
<1>2. /\ view' = [view EXCEPT ![t] = [q \in Reports |-> Template]]
      /\ dirty' = [dirty EXCEPT ![t] = {}] /\ staged' = [staged EXCEPT ![t] = {}] /\ pos' = [pos EXCEPT ![t] = 1]
  BY DEF Release
<1>3. ASSUME NEW u \in Tasks
      PROVE  /\ r \notin staged'[u] /\ (r \in dirty'[u] => RunsOf(u, r))
             /\ RunsOf(u, r) /\ ppc'[u] = "run" => Evaluated(view'[u][r], pos'[u])
  <2>1. CASE u = t
    BY <1>1, <1>2, <2>1 DEF PipelineTypes
  <2>2. CASE u # t
    BY <1>1, <1>2, <2>2 DEF OwnRuns, PipelineTypes
  <2> QED BY <2>1, <2>2
<1> QED BY <1>3 DEF OwnRuns, RunsOf, IsPipeline

LEMMA RollBackEarns ==
  ASSUME PipelineInv, NEW t \in Tasks, SessionLost(t) \/ DeadlockVictim(t) PROVE EarnedInv'
<1>1. RollBack(t)
  BY DEF SessionLost, DeadlockVictim
<1>2. PICK p \in {"idle", "gone"} : ppc' = [ppc EXCEPT ![t] = p]
  BY <1>1 DEF RollBack
<1>3. Release(t) /\ UNCHANGED <<row, announced>>
  BY <1>1 DEF RollBack
<1> SUFFICES ASSUME NEW r \in Reports, Undisturbed(r)  PROVE Earned(r)' /\ OwnRuns(r)'
  BY DEF EarnedInv, Undisturbed
<1> QED BY <1>2, <1>3, ReleaseKeepsOwn DEF PipelineInv, EarnedInv, Earned

LEMMA CommitEarns == ASSUME PipelineAssumption, PipelineInv, NEW t \in Tasks, Commit(t) PROVE EarnedInv'
<1> SUFFICES ASSUME NEW r \in Reports, Undisturbed(r)  PROVE Earned(r)' /\ OwnRuns(r)'
  BY DEF EarnedInv, Undisturbed
<1>1. Earned(r) /\ OwnRuns(r) /\ PipelineTypes
  BY DEF PipelineInv, EarnedInv
<1>2. OwnRuns(r)'
  BY ReleaseKeepsOwn DEF Commit
<1>3. r \notin staged[t] /\ announced[r] \in Nat
  BY <1>1 DEF OwnRuns, PipelineTypes
<1>4. announced'[r] = IF Announces(t) /\ r = Targets[t][1] THEN announced[r] + 1 ELSE announced[r]
  BY <1>3 DEF Commit
<1>5. announced'[r] <= 1 /\ (announced[r] > 0 => announced'[r] > 0)
  BY <1>1, <1>3, <1>4 DEF Earned, Announces
<1>6. ASSUME Readiness(row'[r]) = "READY"  PROVE announced'[r] > 0 /\ \A s \in Stages : row'[r][s] = "ok"
  <2>1. CASE r \notin dirty[t]
    BY <1>1, <1>5, <1>6, <2>1 DEF Earned, Commit
  <2>2. CASE r \in dirty[t]
    <3>1. RunsOf(t, r) /\ row'[r] = view[t][r] /\ view[t][r] \in Maps
      BY <1>1, <2>2 DEF OwnRuns, Commit, PipelineTypes
    <3>2. Evaluated(view[t][r], pos[t]) /\ pos[t] \in Nat /\ pos[t] > 5
      BY <1>1, <3>1, OrderOfStages DEF OwnRuns, Commit, HasMore, RunsOf, PipelineTypes
    <3>3. \A s \in Stages : Successful(view[t][r][s])
      BY <1>6, <3>1, ReadyIsSuccessful
    <3>4. ASSUME NEW s \in Stages  PROVE view[t][r][s] = "ok"
      <4>1. PICK i \in 1 .. 5 : s = Order[i]
        BY OrderOfStages
      <4>2. Past(view[t][r], s)
        BY <3>2, <4>1 DEF Evaluated
      <4>3. view[t][r]["LOCATION"] # "failed"
        BY <3>3, OrderOfStages DEF Successful
      <4> QED BY <3>3, <4>2, <4>3 DEF Past, Successful
    <3>5. announced'[r] > 0
      <4>1. announced[r] = 0 => Announces(t) /\ r = Targets[t][1]
        BY <1>6, <3>1 DEF Announces, RunsOf
      <4> QED BY <1>3, <1>4, <4>1
    <3> QED BY <3>1, <3>4, <3>5
  <2> QED BY <2>1, <2>2
<1> QED BY <1>2, <1>5, <1>6 DEF Earned

LEMMA NextEarns ==
  ASSUME PipelineAssumption, PipelineInv, [PipelineNext]_pipelineVars PROVE PipelineInv'
<1>1. CASE UNCHANGED pipelineVars
  BY <1>1, NextTypes DEF pipelineVars, PipelineInv, EarnedInv, Earned, OwnRuns, Undisturbed, RunsOf, IsPipeline
<1>2. CASE PipelineNext
  <2>1. PipelineTypes'
    BY NextTypes DEF PipelineInv
  <2> QED BY <1>2, <2>1, BeginEarns, SkipEarns, LockEarns, RunStageEarns, RunStageBadlyEarns, TwinBadlyEarns,
             CommitEarns, RollBackEarns DEF PipelineNext, Progress, PipelineInv
<1> QED BY <1>1, <1>2

\* A report that pipeline runs alone update is READY only when all five stages
\* have been evaluated with success, and is announced by then, once: execute_pipeline
\* commits the copy it evaluated, whatever the other runs have committed meanwhile.
THEOREM ReadinessIsEarned == ASSUME PipelineAssumption PROVE PipelineSpec => []ReadyIsEarned
<1>1. PipelineInv => ReadyIsEarned
  BY DEF PipelineInv, EarnedInv, Earned, ReadyIsEarned
<1>2. PipelineSpec => []PipelineInv
  BY PipelineStartTypes, EarnedAtStart, NextEarns, PTL DEF PipelineSpec, PipelineInv
<1> QED BY <1>1, <1>2, PTL

-----------------------------------------------------------------------------
(* Rows are written under their locks.                                     *)

\* The mark of a free lock is not a task.
FreeIsNoTask == Free \notin Tasks

\* What a transaction has changed and not committed it holds the lock of, and
\* only open transactions hold locks: update_stage_state locks before it
\* writes, and a commit or a rollback gives all locks back.
ChangesLocked ==
    /\ \A t \in Tasks : \A r \in dirty[t] \cup staged[t] : lock[r] = t
    /\ \A r \in Reports, t \in Tasks : lock[r] = t => ppc[t] = "run"

\* A committed row changes only in the step in which the open transaction that
\* holds its lock ends, and to that transaction's copy: two transactions never
\* write one row in turns.
WriteEndsLock ==
    \A r \in Reports : row'[r] # row[r] =>
      \E t \in Tasks : /\ lock[r] = t /\ ppc[t] = "run" /\ ppc'[t] = "done"
                       /\ r \in dirty[t] /\ row'[r] = view[t][r] /\ lock'[r] # t
WritesEndLocks == [][WriteEndsLock]_pipelineVars

\* A transaction ends: its locks are free or another open one's, those of
\* others stay theirs.
LEMMA ReleaseLocks ==
  ASSUME PipelineTypes, NEW t \in Tasks, Release(t)
  PROVE  /\ \A r \in Reports : lock[r] # t => lock'[r] = lock[r]
         /\ \A r \in Reports : lock[r] = t =>
              lock'[r] = Free \/ (lock'[r] \in Tasks \ {t} /\ ppc[lock'[r]] = "run")
         /\ dirty'[t] = {} /\ staged'[t] = {}
         /\ \A u \in Tasks \ {t} : dirty'[u] = dirty[u] /\ staged'[u] = staged[u]
<1>1. PICK heir \in [Wanted(t) -> Tasks] :
        /\ \A r \in Wanted(t) : heir[r] \in Heirs(r)
        /\ lock' = [r \in Reports |-> IF r \in Wanted(t) THEN heir[r] ELSE IF lock[r] = t THEN Free ELSE lock[r]]
  BY DEF Release
<1>2. \A r \in Wanted(t) : lock[r] = t /\ heir[r] # t /\ heir[r] \in Tasks /\ ppc[heir[r]] = "run"
  BY <1>1 DEF Wanted, Heirs, WantsLock, Needs, Running
<1>3. /\ dirty'[t] = {} /\ staged'[t] = {}
      /\ \A u \in Tasks \ {t} : dirty'[u] = dirty[u] /\ staged'[u] = staged[u]
  BY DEF Release, PipelineTypes
<1>4. \A r \in Reports : lock'[r] = IF r \in Wanted(t) THEN heir[r] ELSE IF lock[r] = t THEN Free ELSE lock[r]
  BY <1>1
<1> QED BY <1>2, <1>3, <1>4

LEMMA EndKeepsLocked ==
  ASSUME PipelineTypes, FreeIsNoTask, ChangesLocked, NEW t \in Tasks, Release(t), NEW p, ppc' = [ppc EXCEPT ![t] = p]
  PROVE  ChangesLocked'
<1>1. ASSUME NEW u \in Tasks, NEW r, (r \in dirty[u] \cup staged[u])'
      PROVE  lock'[r] = u
  <2>1. u # t /\ r \in dirty[u] \cup staged[u] /\ r \in Reports
    BY <1>1, ReleaseLocks DEF PipelineTypes
  <2> QED BY <2>1, ReleaseLocks DEF ChangesLocked
<1>2. ASSUME NEW r \in Reports, NEW u \in Tasks, lock'[r] = u
      PROVE  ppc'[u] = "run"
  <2>1. CASE lock[r] = t
    BY <1>2, <2>1, ReleaseLocks DEF FreeIsNoTask, PipelineTypes
  <2>2. CASE lock[r] # t
    BY <1>2, <2>2, ReleaseLocks DEF PipelineTypes, ChangesLocked
  <2> QED BY <2>1, <2>2
<1> QED BY <1>1, <1>2 DEF ChangesLocked

LEMMA StageKeepsLocked ==
  ASSUME PipelineAssumption, PipelineTypes, ChangesLocked, NEW t \in Tasks,
         RunStage(t) \/ RunStageBadly(t) \/ TwinBadly(t)
  PROVE  ChangesLocked'
<1>1. Running(t) /\ ppc' = ppc /\ lock' = lock /\ HasMore(t)
  BY DEF RunStage, RunStageBadly, TwinBadly, Running
<1>2. ASSUME RunStage(t)
      PROVE  /\ \A u \in Tasks \ {t} : dirty'[u] = dirty[u] /\ staged'[u] = staged[u]
             /\ \A r \in dirty'[t] \cup staged'[t] : r \in dirty[t] \cup staged[t] \/ lock[r] = t
  <2>1. \A r \in Touches(t) : lock[r] = t
    BY <1>2 DEF RunStage, Needs
  <2>2. /\ dirty' = [dirty EXCEPT ![t] = @ \cup Touches(t)]
        /\ staged' = [staged EXCEPT ![t] = @ \cup (IF Clusters(t) THEN {Twin[Subject(t)]} ELSE {})
                                              \cup (IF IsPipeline(t) THEN {} ELSE {Subject(t)})]
    BY <1>2 DEF RunStage
  <2>3. staged'[t] \subseteq staged[t] \cup Touches(t) /\ dirty'[t] = dirty[t] \cup Touches(t)
    BY <2>2 DEF PipelineTypes, Touches
  <2>4. \A u \in Tasks \ {t} : dirty'[u] = dirty[u] /\ staged'[u] = staged[u]
    BY <2>2 DEF PipelineTypes
  <2> QED BY <2>1, <2>3, <2>4
<1>3. ASSUME RunStageBadly(t)
      PROVE  /\ \A u \in Tasks \ {t} : dirty'[u] = dirty[u] /\ staged'[u] = staged[u]
             /\ \A r \in dirty'[t] \cup staged'[t] : r \in dirty[t] \cup staged[t] \/ lock[r] = t
  BY <1>3 DEF RunStageBadly, PipelineTypes
<1>4. ASSUME TwinBadly(t)
      PROVE  /\ \A u \in Tasks \ {t} : dirty'[u] = dirty[u] /\ staged'[u] = staged[u]
             /\ \A r \in dirty'[t] \cup staged'[t] : r \in dirty[t] \cup staged[t] \/ lock[r] = t
  <2>1. HasMore(t) /\ staged' = staged /\ \A r \in Touches(t) : lock[r] = t
    <3>1. Touches(t) \subseteq Reports /\ HasMore(t)
      BY <1>4, TouchedReports DEF TwinBadly, Running
    <3> QED BY <1>4, <3>1 DEF TwinBadly, Needs
  <2>2. PICK D \in SUBSET Touches(t) : dirty' = [dirty EXCEPT ![t] = dirty[t] \cup D]
    BY <1>4, TwinBadlyViews
  <2>3. dirty'[t] = dirty[t] \cup D /\ \A u \in Tasks \ {t} : dirty'[u] = dirty[u]
    BY <2>2 DEF PipelineTypes
  <2> QED BY <2>1, <2>3
<1> QED BY <1>1, <1>2, <1>3, <1>4 DEF ChangesLocked

LEMMA LockedStep ==
  ASSUME PipelineAssumption, FreeIsNoTask, PipelineTypes, ChangesLocked, [PipelineNext]_pipelineVars
  PROVE  ChangesLocked'
<1>1. ASSUME NEW t \in Tasks, Begin(t)  PROVE ChangesLocked'
  <2>1. ppc[t] = "idle" /\ lock' = lock /\ dirty' = dirty /\ staged' = staged
    BY <1>1 DEF Begin
  <2>2. \A u \in Tasks \ {t} : ppc'[u] = ppc[u]
    BY <1>1 DEF Begin, PipelineTypes
  <2> QED BY <2>1, <2>2 DEF ChangesLocked
<1>2. ASSUME NEW t \in Tasks, SkipStage(t)  PROVE ChangesLocked'
  BY <1>2 DEF SkipStage, ChangesLocked
<1>3. ASSUME NEW t \in Tasks, NEW r \in Reports, Lock(t, r)  PROVE ChangesLocked'
  <2>1. lock[r] = Free /\ ppc[t] = "run" /\ ppc' = ppc /\ dirty' = dirty /\ staged' = staged
    BY <1>3 DEF Lock, WantsLock, Running
  <2>2. \A q \in Reports : lock'[q] = IF q = r THEN t ELSE lock[q]
    BY <1>3 DEF Lock, PipelineTypes
  <2>3. \A u \in Tasks : dirty[u] \cup staged[u] \subseteq Reports
    BY DEF PipelineTypes
  <2>4. ASSUME NEW u \in Tasks, NEW q \in dirty[u] \cup staged[u]  PROVE lock'[q] = u
    <3>1. lock[q] = u /\ q \in Reports
      BY <2>3 DEF ChangesLocked
    <3>2. q # r
      <4>1. ASSUME q = r  PROVE FALSE
        BY <2>1, <3>1, <4>1 DEF FreeIsNoTask
      <4> QED BY <4>1
    <3> QED BY <2>2, <3>1, <3>2
  <2> QED BY <2>1, <2>2, <2>4 DEF ChangesLocked
<1>4. ASSUME NEW t \in Tasks, Commit(t) \/ SessionLost(t) \/ DeadlockVictim(t)  PROVE ChangesLocked'
  <2>1. Release(t) /\ \E p : ppc' = [ppc EXCEPT ![t] = p]
    BY <1>4 DEF Commit, SessionLost, DeadlockVictim, RollBack
  <2> QED BY <2>1, EndKeepsLocked
<1>5. CASE UNCHANGED pipelineVars
  BY <1>5 DEF pipelineVars, ChangesLocked
<1> QED BY <1>1, <1>2, <1>3, <1>4, <1>5, StageKeepsLocked DEF PipelineNext, Progress

\* No two transactions have uncommitted changes of one row, and a transaction
\* that is over holds no lock.
THEOREM RowsAreLocked ==
  ASSUME PipelineAssumption, FreeIsNoTask
  PROVE  PipelineSpec => []ChangesLocked
<1> DEFINE Inv == PipelineTypes /\ ChangesLocked
<1>1. PipelineInit => Inv
  <2>1. PipelineInit => ChangesLocked
    BY DEF FreeIsNoTask, PipelineInit, InitRows, ChangesLocked
  <2> QED BY <2>1, PipelineStartTypes
<1>2. Inv /\ [PipelineNext]_pipelineVars => Inv'
  BY NextTypes, LockedStep
<1>3. Inv => ChangesLocked
  OBVIOUS
<1> QED BY <1>1, <1>2, <1>3, PTL DEF PipelineSpec

LEMMA RowsChangeAtCommit ==
  ASSUME PipelineAssumption, FreeIsNoTask, PipelineTypes, ChangesLocked, [PipelineNext]_pipelineVars,
         NEW r \in Reports, row'[r] # row[r]
  PROVE  \E t \in Tasks : /\ lock[r] = t /\ ppc[t] = "run" /\ ppc'[t] = "done"
                         /\ r \in dirty[t] /\ row'[r] = view[t][r] /\ lock'[r] # t
<1>1. \A t \in Tasks : RollBack(t) => row' = row
  BY DEF RollBack
<1>2. PICK t \in Tasks : Commit(t)
  BY <1>1 DEF PipelineNext, Progress, Begin, SkipStage, Lock, RunStage, RunStageBadly, TwinBadly,
              SessionLost, DeadlockVictim,
              pipelineVars
<1>3. row'[r] = IF r \in dirty[t] THEN view[t][r] ELSE row[r]
  BY <1>2 DEF Commit
<1>4. r \in dirty[t] /\ row'[r] = view[t][r]
  BY <1>3
<1>5. lock[r] = t
  BY <1>4 DEF ChangesLocked
<1>6. lock'[r] # t
  <2>1. Release(t)
    BY <1>2 DEF Commit
  <2>2. lock'[r] = Free \/ lock'[r] \in Tasks \ {t}
    BY <1>5, <2>1, ReleaseLocks
  <2> QED BY <2>2 DEF FreeIsNoTask
<1>7. ppc[t] = "run" /\ ppc'[t] = "done"
  BY <1>2 DEF Commit, PipelineTypes
<1> QED BY <1>4, <1>5, <1>6, <1>7

\* A committed row changes only when the open transaction that holds its lock
\* commits, to that transaction's copy.  What the lock does not give is that
\* the copy is current, which NoStageForgotten asks and the code does not keep.
THEOREM RowsChangeUnderLock ==
  ASSUME PipelineAssumption, FreeIsNoTask
  PROVE  PipelineSpec => WritesEndLocks
<1>1. PipelineTypes /\ ChangesLocked /\ [PipelineNext]_pipelineVars => [WriteEndsLock]_pipelineVars
  BY RowsChangeAtCommit DEF WriteEndsLock
<1>2. PipelineSpec => []PipelineTypes
  BY PipelineStartTypes, NextTypes, PTL DEF PipelineSpec
<1>3. PipelineSpec => []ChangesLocked
  BY RowsAreLocked
<1> QED BY <1>1, <1>2, <1>3, PTL DEF PipelineSpec, WritesEndLocks
==============================================================================
