--------------------------- MODULE MCOrchestration ---------------------------
(***************************************************************************)
(* The orchestration of reports: the dispatcher on its stream, and the     *)
(* pipeline over the rows, for one report that is run inline, by the       *)
(* dispatcher and by a redelivery, and for two reports that cluster with   *)
(* each other while a trigger recomputes both.  A behaviour is of the one  *)
(* "focus" names; the tasks it leaves out are gone from the start, their   *)
(* attempts used up, and the other component stays as it began.            *)
(***************************************************************************)
EXTENDS Dispatcher, Pipeline, TLC

VARIABLE focus  \* "dispatcher", "redelivered" or "clustered"

all == <<focus, vars, pipelineVars>>

\* Reports 1 and 2 are clustered with each other, report 3 is in no cluster.
MCTwin == <<2, 1, 0>>

MCKind == "inline2" :> "inline" @@ "worker1" :> "worker" @@ "trigger" :> "trigger"
            @@ "inline3" :> "inline" @@ "worker3" :> "worker" @@ "redelivered3" :> "worker"
MCTasks == DOMAIN MCKind

\* An evidence item or observation concerns both reports, the later one first.
MCTargets == "inline2" :> <<2>> @@ "worker1" :> <<1>> @@ "trigger" :> <<2, 1>>
               @@ [t \in {"inline3", "worker3", "redelivered3"} |-> <<3>>]

ASSUME PipelineAssumption

\* The tasks of each focus.
TasksOf ==
  CASE focus = "clustered" -> <<"inline2", "worker1", "trigger">>
    [] focus = "redelivered" -> <<"inline3", "worker3", "redelivered3">>
    [] OTHER -> <<>>

TakesPart(t) == \E k \in 1 .. Len(TasksOf) : TasksOf[k] = t

\* Of the bound on faults the clustered reports may use one.
AllInit ==
  /\ focus \in {"dispatcher", "redelivered", "clustered"}
  /\ Init
  /\ InitRows
  /\ ppc = [t \in MCTasks |-> IF TakesPart(t) THEN "idle" ELSE "gone"]
  /\ tries = [t \in MCTasks |-> IF TakesPart(t) THEN 0 ELSE MaxTries]
  /\ pfaults = IF focus = "clustered" THEN MaxPipelineFaults - 1 ELSE 0

AllNext ==
  /\ UNCHANGED focus
  /\ \/ focus = "dispatcher" /\ Next /\ UNCHANGED pipelineVars
     \/ focus # "dispatcher" /\ PipelineNext /\ UNCHANGED vars

\* The fairness of each component, for the one that runs.
AllFairness ==
  /\ WF_all(focus = "dispatcher" /\ Step /\ UNCHANGED <<focus, pipelineVars>>)
  /\ \A m \in 1 .. 4 :
       WF_all(focus = "dispatcher" /\ BecomeIdle(m) /\ UNCHANGED <<focus, pipelineVars>>)
  /\ \A k \in 1 .. 3 :
       WF_all(focus # "dispatcher" /\ Progress(TasksOf[k]) /\ UNCHANGED <<focus, vars>>)
  /\ WF_all(/\ focus # "dispatcher"
            /\ \E t \in MCTasks : DeadlockVictim(t)
            /\ UNCHANGED <<focus, vars>>)

AllSpec == AllInit /\ [][AllNext]_all /\ AllFairness

==============================================================================
