------------------------------ MODULE Clustering ------------------------------
(***************************************************************************)
(* Duplicate clusters (intelligence/clustering_engine.py,                  *)
(* candidate_generator.py, the DUPLICATE stage of                          *)
(* orchestration/handlers.py).                                             *)
(*                                                                         *)
(* Each report has a task: one transaction of the pipeline, of which the   *)
(* steps up to the DUPLICATE stage's commit are kept.  The tasks run       *)
(* concurrently at READ COMMITTED; no constraint of the database keeps a   *)
(* report to one cluster, and the count of members is a column written by  *)
(* the object mapper from the value it read.  What does keep tasks apart   *)
(* are row locks: a task owns its report's row from the stage before, an   *)
(* insertion that refers to a report shares that report's row, and after   *)
(* clustering a task locks both rows of the pair in order.                 *)
(***************************************************************************)
EXTENDS Naturals, FiniteSets, Sequences

CONSTANTS
  Sightings,   \* the reports, a set of 1 .. n: the order of the identifiers
  Assessed,    \* [Sightings \X Sightings -> [decision, score]] of duplicate_scorer
  Distance,    \* [Sightings \X Sightings -> Nat]: metres, as the candidate query orders
  WithinReach, \* the pairs within the query's radius and window
  Limit,       \* of candidates
  Before,      \* pairs <<a, b>>: a is preferred to b as primary
  Twice        \* bound: the reports that a second run evaluates as well

ClusteringAssumption ==
  /\ Sightings \subseteq Nat
  /\ WithinReach \subseteq Sightings \X Sightings
  /\ Limit \in Nat \ {0} /\ Twice \subseteq Sightings
  /\ \A a, b \in Sightings : a # b => (<<a, b>> \in Before) # (<<b, a>> \in Before)

VARIABLES
  present,   \* the reports stored
  cpc,       \* [Sightings -> phase of the report's task]
  located,   \* tasks whose LOCATION stage is stored as done: the next run takes no lock on its row
  ref,       \* [Sightings -> the best candidate of the task, its own report when there is none]
  cdraft,    \* [Sightings -> what the task will commit]
  clusters,  \* the stored clusters, a sequence of [primary, members, count]
  cowner,    \* [Sightings -> tasks that lock the report's row for update], at most one
  csharer,   \* [Sightings -> tasks that refer to the report's row]
  again,     \* the reports whose second run is still to come
  craced,    \* history: reports clustered by tasks of which one looked before the other stored
  anchored   \* history: reports clustered by a task whose own report was a primary already

clusteringVars == <<present, cpc, located, ref, cdraft, clusters, cowner, csharer, again, craced, anchored>>

NoPlan == [kind |-> "none"]
JoinCluster(c) == [kind |-> "join", cluster |-> c, count |-> clusters[c].count + 1]
Found(p, m) == [kind |-> "found", primary |-> p, member |-> m]
\* Already clustered: nothing to write, but the pair is locked all the same.
Keep == [kind |-> "keep"]

ClusteringInit ==
  /\ present = {} /\ cpc = [r \in Sightings |-> "absent"] /\ located = {}
  /\ ref = [r \in Sightings |-> r] /\ cdraft = [r \in Sightings |-> NoPlan]
  /\ clusters = <<>> /\ cowner = [r \in Sightings |-> {}] /\ csharer = [r \in Sightings |-> {}]
  /\ again = Twice /\ craced = {} /\ anchored = {}

Primary(r) == {c \in DOMAIN clusters : clusters[c].primary = r}
MemberOf(r) == {c \in DOMAIN clusters : r \in clusters[c].members}

LocksOf(r, t) == cowner[r] \subseteq {t} /\ csharer[r] \subseteq {t}
SharesOf(r, t) == cowner[r] \subseteq {t}

Arrive(r) ==
  /\ r \notin present
  /\ present' = present \cup {r} /\ cpc' = [cpc EXCEPT ![r] = "queued"]
  /\ UNCHANGED <<located, ref, cdraft, clusters, cowner, csharer, again, craced, anchored>>

\* A first run reaches the stage with its row locked by the stage before.
StartStage(t) ==
  /\ cpc[t] = "queued"
  /\ IF t \in located THEN UNCHANGED cowner
     ELSE LocksOf(t, t) /\ cowner' = [cowner EXCEPT ![t] = {t}]
  /\ cpc' = [cpc EXCEPT ![t] = "evaluate"]
  /\ UNCHANGED <<present, located, ref, cdraft, clusters, csharer, again, craced, anchored>>

InReach(t) == {r \in present : r # t /\ <<t, r>> \in WithinReach}

\* The nearest, up to the limit (equally near ones in any order).
Neighbourhood(t) ==
  {s \in SUBSET InReach(t) :
     /\ Cardinality(s) = IF Cardinality(InReach(t)) < Limit THEN Cardinality(InReach(t)) ELSE Limit
     /\ \A r \in s, q \in InReach(t) \ s : Distance[t, r] <= Distance[t, q]}

\* The first, in the order of the query, of the candidates with the greatest score.
BestMatch(t, s) ==
  {r \in s : \A q \in s :
     \/ Assessed[t, r].score > Assessed[t, q].score
     \/ Assessed[t, r].score = Assessed[t, q].score /\ Distance[t, r] <= Distance[t, q]}

\* The decision on the best pair is the report's: a possible match that scores
\* higher hides a duplicate.
Compare(t) ==
  /\ cpc[t] = "evaluate"
  /\ \E s \in Neighbourhood(t) :
       \/ \E r \in BestMatch(t, s) :
            /\ Assessed[t, r].decision = "DUPLICATE"
            /\ ref' = [ref EXCEPT ![t] = r] /\ cpc' = [cpc EXCEPT ![t] = "look"]
       \/ /\ \A r \in BestMatch(t, s) : Assessed[t, r].decision # "DUPLICATE"
          /\ ref' = [ref EXCEPT ![t] = t] /\ cpc' = [cpc EXCEPT ![t] = "lock"]
  /\ cdraft' = [cdraft EXCEPT ![t] = NoPlan]
  /\ UNCHANGED <<present, located, clusters, cowner, csharer, again, craced, anchored>>

\* A lookup that finds several rows where one is expected is an error: the
\* stage is stored as failed.
Ambiguous(t) ==
  \/ Cardinality(MemberOf(t)) > 1
  \/ MemberOf(t) = {} /\ Cardinality(Primary(ref[t])) > 1
  \/ MemberOf(t) = {} /\ Primary(ref[t]) = {} /\ Cardinality(MemberOf(ref[t])) > 1

ClusterOf(r) == IF Primary(r) # {} THEN Primary(r) ELSE MemberOf(r)

Plan(t) ==
  LET c == CHOOSE c \in ClusterOf(ref[t]) : TRUE
      anew == IF <<ref[t], t>> \in Before THEN Found(ref[t], t) ELSE Found(t, ref[t]) IN
  CASE MemberOf(t) # {} -> Keep
    [] MemberOf(t) = {} /\ ClusterOf(ref[t]) = {} -> anew
    [] MemberOf(t) = {} /\ ClusterOf(ref[t]) # {} ->
         IF clusters[c].primary = t THEN Keep ELSE JoinCluster(c)

\* Mutant of LookUp: that the report is a member already is not checked.
LookUpAgain(t) ==
  /\ cpc[t] = "look" /\ ~Ambiguous(t)
  /\ cdraft' = [cdraft EXCEPT ![t] =
       IF ClusterOf(ref[t]) = {} THEN Found(ref[t], t) ELSE JoinCluster(CHOOSE c \in ClusterOf(ref[t]) : TRUE)]
  /\ cpc' = [cpc EXCEPT ![t] = "write"]
  /\ UNCHANGED <<present, located, ref, clusters, cowner, csharer, again, craced, anchored>>

LookUp(t) ==
  /\ cpc[t] = "look" /\ ~Ambiguous(t)
  /\ cdraft' = [cdraft EXCEPT ![t] = Plan(t)]
  /\ cpc' = [cpc EXCEPT ![t] = IF Plan(t).kind = "keep" THEN "lock" ELSE "write"]
  /\ UNCHANGED <<present, located, ref, clusters, cowner, csharer, again, craced, anchored>>

\* The stage fails without a database error: the failure is committed, and
\* the next run starts at this stage.
Stuck(t) ==
  /\ cpc[t] = "look" /\ Ambiguous(t) /\ LocksOf(t, t)
  /\ cpc' = [cpc EXCEPT ![t] = "failed"] /\ located' = located \cup {t}
  /\ cowner' = [r \in Sightings |-> cowner[r] \ {t}] /\ csharer' = [r \in Sightings |-> csharer[r] \ {t}]
  /\ UNCHANGED <<present, ref, cdraft, clusters, again, craced, anchored>>

\* A task of another report that has already written to the cluster holds it.
Busy(t, c) ==
  \E u \in Sightings \ {t} : cpc[u] \in {"lock", "store"} /\ cdraft[u].kind = "join" /\ cdraft[u].cluster = c

RefersTo(t) == IF cdraft[t].kind = "join" THEN {t} ELSE {t, ref[t]}

CanWrite(t) ==
  /\ \A r \in RefersTo(t) : SharesOf(r, t)
  /\ cdraft[t].kind = "join" => ~Busy(t, cdraft[t].cluster)

WriteMember(t) ==
  /\ cpc[t] = "write" /\ CanWrite(t)
  /\ csharer' = [r \in Sightings |-> IF r \in RefersTo(t) THEN csharer[r] \cup {t} ELSE csharer[r]]
  /\ cpc' = [cpc EXCEPT ![t] = "lock"]
  /\ UNCHANGED <<present, located, ref, cdraft, clusters, cowner, again, craced, anchored>>

\* The rows of the pair are locked for update in the order of the identifiers
\* (a report that matched none locks its own, to store the stage).
NextRow(t) ==
  LET left == {r \in {t, ref[t]} : cowner[r] # {t}} IN
  IF left = {} THEN {} ELSE {CHOOSE r \in left : \A q \in left : r <= q}

LockRow(t) ==
  /\ cpc[t] = "lock"
  /\ \A r \in NextRow(t) : LocksOf(r, t)
  /\ cowner' = [r \in Sightings |-> IF r \in NextRow(t) THEN {t} ELSE cowner[r]]
  /\ cpc' = [cpc EXCEPT ![t] = IF NextRow(t) = {} THEN "store" ELSE "lock"]
  /\ UNCHANGED <<present, located, ref, cdraft, clusters, csharer, again, craced, anchored>>

Touched(t) ==
  CASE cdraft[t].kind = "join" -> {t, clusters[cdraft[t].cluster].primary} \cup clusters[cdraft[t].cluster].members
    [] cdraft[t].kind = "found" -> {t, ref[t]}
    [] cdraft[t].kind \in {"none", "keep"} -> {}

\* What the cluster will be.
Written(t) ==
  LET d == cdraft[t] IN
  CASE d.kind = "join" ->
         [clusters EXCEPT ![d.cluster] =
            [primary |-> @.primary, members |-> @.members \cup {t}, count |-> d.count]]
    [] d.kind = "found" -> Append(clusters, [primary |-> d.primary, members |-> {d.member}, count |-> 2])
    [] d.kind \in {"none", "keep"} -> clusters

\* Others that have looked, and not yet written, decide on what was there.
LookedAt(t) ==
  {u \in Sightings \ {t} : cpc[u] \in {"write", "lock", "store"} /\ cdraft[u].kind \in {"join", "found"}
     /\ Touched(u) \cap Touched(t) # {}}

Store(t) ==
  /\ cpc[t] = "store"
  /\ clusters' = Written(t)
  /\ craced' = craced \cup UNION {Touched(u) \cup Touched(t) : u \in LookedAt(t)}
  /\ anchored' = anchored \cup (IF Primary(t) # {} THEN Touched(t) ELSE {})
  /\ cpc' = [cpc EXCEPT ![t] = "done"] /\ located' = located \cup {t}
  /\ cowner' = [r \in Sightings |-> cowner[r] \ {t}] /\ csharer' = [r \in Sightings |-> csharer[r] \ {t}]
  /\ cdraft' = [cdraft EXCEPT ![t] = NoPlan]
  /\ UNCHANGED <<present, ref, again>>

WaitedFor(t) ==
  CASE cpc[t] = "queued" /\ t \notin located -> (cowner[t] \cup csharer[t]) \ {t}
    [] cpc[t] = "write" ->
         (UNION {cowner[r] : r \in RefersTo(t)} \ {t})
           \cup {u \in Sightings \ {t} : cdraft[t].kind = "join" /\ cpc[u] \in {"lock", "store"}
                                        /\ cdraft[u].kind = "join" /\ cdraft[u].cluster = cdraft[t].cluster}
    [] cpc[t] = "lock" -> UNION {cowner[r] \cup csharer[r] : r \in NextRow(t)} \ {t}
    [] OTHER -> {}

\* A cycle of waiting transactions; there is none of more than three here.
InCycle(t) ==
  \E u \in WaitedFor(t) :
    \/ t \in WaitedFor(u)
    \/ \E v \in WaitedFor(u) : t \in WaitedFor(v)

\* The database ends one transaction of a cycle.  The stage's handler turns
\* that into a failure it cannot store; the run ends, and is tried again.
Abort(t) ==
  /\ InCycle(t)
  /\ cpc' = [cpc EXCEPT ![t] = "queued"] /\ cdraft' = [cdraft EXCEPT ![t] = NoPlan]
  /\ cowner' = [r \in Sightings |-> cowner[r] \ {t}] /\ csharer' = [r \in Sightings |-> csharer[r] \ {t}]
  /\ UNCHANGED <<present, located, ref, clusters, again, craced, anchored>>

\* A failed stage is tried again.  The dispatcher's run of a report that has
\* loaded the report before the first run committed evaluates it once more,
\* from the first stage: it has waited for the lock on its row.
Retry(t) ==
  /\ cpc[t] = "failed" /\ cpc' = [cpc EXCEPT ![t] = "queued"]
  /\ UNCHANGED <<present, located, ref, cdraft, clusters, cowner, csharer, again, craced, anchored>>

Rerun(t) ==
  /\ cpc[t] = "done" /\ t \in again
  /\ cpc' = [cpc EXCEPT ![t] = "queued"] /\ located' = located \ {t} /\ again' = again \ {t}
  /\ UNCHANGED <<present, ref, cdraft, clusters, cowner, csharer, craced, anchored>>

ClusteringStep(t) ==
  \/ StartStage(t) \/ Compare(t) \/ LookUp(t) \/ Stuck(t) \/ WriteMember(t) \/ LockRow(t)
  \/ Store(t) \/ Abort(t) \/ Retry(t)

ClusteringNext == \E t \in Sightings : Arrive(t) \/ ClusteringStep(t) \/ Rerun(t)

ClusteringSpec == ClusteringInit /\ [][ClusteringNext]_clusteringVars
------------------------------------------------------------------------------
ClustersOf(r) == Primary(r) \cup MemberOf(r)
Blamed == craced \cup anchored

\* Every report is in one cluster at most, each cluster counts its members
\* and its primary, and only ambiguous lookups fail, unless one of blamed.
Consistent(blamed) ==
  /\ \A r \in present \ blamed : Cardinality(ClustersOf(r)) <= 1
  /\ \A c \in DOMAIN clusters :
       ({clusters[c].primary} \cup clusters[c].members) \cap blamed = {} =>
         clusters[c].count = Cardinality(clusters[c].members) + 1
  /\ \A t \in present : cpc[t] = "failed" => {t, ref[t]} \cap blamed # {}

(* A report is in two clusters, a cluster miscounts or a stage is stuck only
   on account of reports whose tasks looked before the other's clusters were
   stored, or of a report that was a primary before its own stage ran; no
   constraint of the database says so, only row locks and the order of the
   lookups in _attach_to_cluster. *)
OnlyRacesSplit == Consistent(Blamed)

=============================================================================
