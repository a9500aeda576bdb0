----------------------------- MODULE MCPipeline ------------------------------
(* Small instances of Pipeline for TLC: the reports are 1 and 2.             *)
EXTENDS Pipeline, TLC

CONSTANTS inline1, inline2, trigger

MCKind == inline1 :> "inline" @@ inline2 :> "inline" @@ trigger :> "trigger"

\* The trigger is of an evidence item or observation that concerns report 1.
MCTargets == inline1 :> <<1>> @@ inline2 :> <<2>> @@ trigger :> <<1>>

\* Only the tasks of the configuration take part.
MCKindOf == [t \in Tasks |-> MCKind[t]]
MCTargetsOf == [t \in Tasks |-> MCTargets[t]]

MCAlone == [r \in Reports |-> 0]
MCTwins == 1 :> 2 @@ 2 :> 1
==============================================================================
