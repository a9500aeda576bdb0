----------------------------- MODULE MCReports ------------------------------
(***************************************************************************)
(* What happens to stored reports: they are matched with each other        *)
(* (Clustering, four reports on one road), with news and with gauges       *)
(* (Linking, two reports and two items, or two readings of one station),   *)
(* ingested (Ingest, two ids and two workers), decided on (Verification,   *)
(* two operators), pruned (Retention) and shown (Portal).  The components  *)
(* are composed by focus: a behaviour is of the one it starts with, and    *)
(* the state of the others stays as it began.                              *)
(***************************************************************************)
EXTENDS Verification, Ingest, Retention, Linking, Clustering, Portal

D == INSTANCE DuplicateBenchmark
E == INSTANCE EvidenceBenchmark
O == INSTANCE ObservationBenchmark
S == INSTANCE CredibilityBenchmark WITH PhysicalCap <- 10000

------------------------------------------------------------------------------
(* Reports 1 .. 4, a hundred metres apart, the first like all others in its
   words and the last like no other but the first. *)
MCReports == 1 .. 4
MCApart(a, b) == 100 * (IF a < b THEN b - a ELSE a - b)
MCAssessed ==
  [p \in MCReports \X MCReports |->
     D!Assess([a |-> "FLOOD_WATERLOGGING", b |-> "FLOOD_WATERLOGGING",
               metres |-> MCApart(p[1], p[2]), seconds |-> 600,
               text |-> IF 1 \in {p[1], p[2]} THEN 8000 ELSE IF 4 \in {p[1], p[2]} THEN 3000 ELSE 6000,
               cities |-> "same"])]
MCBefore == {p \in MCReports \X MCReports : p[1] < p[2]}
MCEverywhere == MCReports \X MCReports
MCDistances == [p \in MCEverywhere |-> MCApart(p[1], p[2])]
MCDistance == MCDistances
MCMatches == MCAssessed

\* Two items, of which the first names Mumbai and the second only its state,
\* and two readings of a gauge on the river of the first report.
MCItems == {"i1", "i2", "g1", "g2"}
MCReadings == {"g1", "g2"}
MCSuperseded == {<<"g1", "g2">>}
MCAhead == {<<"r1", "r2">>, <<"g1", "g2">>}
MCPairs == Incidents \X MCItems
MCNews(report, item) ==
  E!Assess([inc |-> E!At(IF report = "r1" THEN "Mumbai" ELSE "Thane"),
            ev |-> IF item = "i1" THEN E!In("Mumbai") ELSE E!Statewide("Maharashtra"),
            metres |-> -1, minutes |-> 60, text |-> 5000, hazard |-> "words", marks |-> {}])
MCGauge(report, item) ==
  O!Assess([hazard |-> "FLOOD_WATERLOGGING", metres |-> 3000, minutes |-> IF item = "g1" THEN -120 ELSE -60,
            mentions |-> IF report = "r1" THEN O!Here ELSE O!Told, level |-> 52000, danger |-> O!NoLevel,
            urgent |-> FALSE, flagged |-> FALSE, trend |-> O!Ramp(4, 80, 180)])
MCAssessments ==
  [p \in MCPairs |-> IF p[2] \in MCReadings THEN MCGauge(p[1], p[2]) ELSE MCNews(p[1], p[2])]
MCAssessment == MCAssessments

------------------------------------------------------------------------------
(* The portal's rows: the first two equal but for the identifier, the third
   old and of the demonstration, the fourth older and no longer in the queue;
   the fifth arrives later, at the head of the queue, and occurred at six
   o'clock in India, where two quarters of the day meet. *)
MCNow == 40 * 48 + 20
MCRow(decision, severity, category, reported, score, occurred) ==
  [status |-> decision, severity |-> severity, category |-> category, reported |-> reported, score |-> score,
   occurred |-> occurred, created |-> occurred, processing |-> "COMPLETED", readiness |-> "",
   demo |-> FALSE, named |-> <<>>, around |-> <<"TN", "KL">>, at |-> <<763, 99>>]
MCRows ==
  <<MCRow("PENDING", "HIGH", "FLOOD", "FLOOD", 60, MCNow - 4),
    MCRow("UNDER_REVIEW", "HIGH", "", "HAIL", 60, MCNow - 4),
    [MCRow("PENDING", "LOW", "", "", 40, MCNow - 7 * 48) EXCEPT !.at = <<700, 250>>, !.around = <<"RJ">>, !.demo = TRUE],
    [MCRow("DUPLICATE", "SEVERE", "FLOOD", "RAIN", 90, MCNow - 20 * 48) EXCEPT
       !.readiness = "INTELLIGENCE_PARTIAL", !.named = <<"TN", "KL">>],
    MCRow("PENDING", "SEVERE", "FLOOD", "", 80, MCNow - 19)>>
\* A report in two clusters, and a primary that is a member of its own.
MCClusterings ==
  LET member(c, r, s) == [cluster |-> c, report |-> r, score |-> s] IN
  {[clusters |-> <<[primary |-> 1, count |-> 2], [primary |-> 2, count |-> 2]>>,
    members |-> {member(1, 2, 80), member(2, 3, 90), member(1, 3, 90)}],
   [clusters |-> <<[primary |-> 1, count |-> 2]>>, members |-> {member(1, 1, 80)}]}
MCLinks ==
  LET linked(role, s) == [role |-> role, score |-> s] IN
  {<<linked("RELATED", 80), linked("CONTRADICTORY", 80), linked("CONTRADICTING", 90)>>}
MCFilters ==
  {Everything, [Everything EXCEPT !.category = "FLOOD"], [Everything EXCEPT !.hideDemo = TRUE],
   [Everything EXCEPT !.readiness = "INTELLIGENCE_PARTIAL"],
   [Everything EXCEPT !.statuses = {"PENDING"}, !.box = <<690, 90, 770, 260>>],
   [Everything EXCEPT !.severity = "HIGH", !.least = 50]}
MCAdvisories ==
  <<[hazard |-> "CYCLONE", until |-> MCNow - 4], [hazard |-> "HEAVY_RAIN", until |-> MCNow],
    [hazard |-> "CYCLONE", until |-> MCNow + 20]>>

------------------------------------------------------------------------------
VARIABLE focus

all == <<focus, clusteringVars, linkingVars, ingestVars, verificationVars, retentionVars, portalVars>>

ASSUME ClusteringAssumption /\ PortalAssumption /\ S!CapAssumption
ASSUME LinkingAssumption /\ DeliveriesAssumption /\ IdsAssumption /\ RetentionAssumption

------------------------------------------------------------------------------
Keeping(A) == A /\ UNCHANGED <<focus, clusteringVars, portalVars>>
Showing(A) == A /\ UNCHANGED <<focus, clusteringVars, linkingVars, ingestVars, verificationVars, retentionVars>>

AllInit ==
  /\ focus \in {"clusters", "links", "ingestion", "verification", "retention", "queue", "dashboard"}
  /\ ClusteringInit /\ LinkingInit /\ IngestInit /\ VerificationInit /\ RetentionInit /\ PortalInit

Clustered == focus = "clusters" /\ ClusteringNext
                /\ UNCHANGED <<focus, linkingVars, ingestVars, verificationVars, retentionVars, portalVars>>
Linked == focus = "links" /\ Keeping(LinkingNext /\ UNCHANGED <<ingestVars, verificationVars, retentionVars>>)
Ingested == focus = "ingestion" /\ Keeping(IngestNext /\ UNCHANGED <<linkingVars, verificationVars, retentionVars>>)
Decided == focus = "verification" /\ Keeping(VerificationNext /\ UNCHANGED <<linkingVars, ingestVars, retentionVars>>)
Retained == focus = "retention" /\ Keeping(RetentionNext /\ UNCHANGED <<linkingVars, ingestVars, verificationVars>>)
\* The queue and the dashboard are read apart: neither changes anything.
Shown == \/ focus = "queue" /\ Showing(Writers \/ Walk)
         \/ focus = "dashboard" /\ Showing(Writers \/ Dashboard)

AllNext == Clustered \/ Linked \/ Ingested \/ Decided \/ Retained \/ Shown

AllSpec == AllInit /\ [][AllNext]_all

------------------------------------------------------------------------------
\* The benchmarks of the repository hold of the scorers' models.  (They depend
\* on no state: the first one is enough.)
DuplicatesAsExpected == \A p \in D!Pairs : D!PairPasses(p)
EvidenceAsExpected == \A p \in E!Pairs : E!PairPasses(p)
ReadingsAsExpected == \A c \in O!Cases : O!CasePasses(c)
CredibilityAsExpected == (\A c \in S!Cases : S!Passes(c)) /\ S!Ordered
BenchmarksHold ==
  focus = "clusters" /\ present = {} => DuplicatesAsExpected /\ EvidenceAsExpected /\ ReadingsAsExpected /\ CredibilityAsExpected

\* The gates and caps of the observation scorer keep the order of what they
\* are given: no boundary of distance, of the place or of the number of
\* readings makes a poorer gauge the better witness.
GaugesOrdered ==
  focus = "clusters" /\ present = {} => \A hazard \in O!Hazards, minutes \in O!Times : O!Orderly(hazard, minutes)
=============================================================================
