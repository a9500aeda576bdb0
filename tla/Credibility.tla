----------------------------- MODULE Credibility -----------------------------
(***************************************************************************)
(* The machine credibility of an incident: what the collector reads, what  *)
(* the scorer makes of it and who writes the result                        *)
(* (intelligence/credibility_collector.py, credibility_engine.py and       *)
(* CredibilityStageHandler of orchestration/handlers.py).                  *)
(*                                                                         *)
(* Every fact about an incident arrives in a transaction of its own that   *)
(* then scores the incident again; transactions are READ COMMITTED, so     *)
(* each sees the committed facts and its own.                              *)
(***************************************************************************)
EXTENDS CredibilityScorer, SequencesExt

CONSTANTS
  Cluster,       \* the reports of one duplicate cluster
  SourceOf,      \* of each: its source's trust and family, and what it has
  Items,         \* facts that may arrive
  ItemOf,        \* of each: its sort, the incidents it is of, its attributes
  Recomputes,    \* handlings of a DUPLICATE_CLUSTER_MODIFIED event
  ImageEnabled,  \* IMAGE_FORENSICS_ENABLED
  Starts,        \* bound: sets of arrived facts transactions start from
  MaxTransactions, \* bound: transactions after the initial state
  MaxFailures    \* bound: failed evaluations

Sorts == {"link", "reading", "physical", "member", "image"}

ItemsAssumption ==
  /\ \A x \in Items : ItemOf[x].sort \in Sorts /\ ItemOf[x].of \subseteq Cluster
  /\ Items \cap Recomputes = {}
  /\ IsFiniteSet(Cluster)
\* Trusts, confidences and scores are on the scale: the schemas of the scorer's
\* inputs (intelligence/schemas.py) reject others.
ScaleAssumption ==
  /\ \A i \in Cluster : SourceOf[i].trust \in 0 .. Unit /\ SourceOf[i].has \subseteq DOMAIN QualityWeight
  /\ IsFiniteSet(Items)
  /\ \A x \in Items :
       /\ ItemOf[x].sort = "link" => ItemOf[x].conf \in 0 .. Unit
       /\ ItemOf[x].sort \in {"link", "reading", "physical"} => ItemOf[x].score \in 0 .. Unit
  /\ ImageEnabled \in BOOLEAN
  /\ MaxTransactions \in Nat /\ MaxFailures \in Nat

Tasks == Items \cup Recomputes

VARIABLES
  arrived,   \* committed facts
  row,       \* committed score, explanation, stale mark and writer of a report
  lock,      \* holder of the row lock of each report
  phase,     \* "idle", "collect", "score", "flush", "commit" or "done"
  todo,      \* incidents it has still to score
  view,      \* the facts its collector has read for the first of them
  pend,      \* the rows it has flushed and not committed
  blind,     \* history: incidents scored without a fact committed meanwhile
  unscored,  \* history: incidents whose last evaluation stored no score
  transactions, failures

credibilityVars == <<arrived, row, lock, phase, todo, view, pend, blind, unscored, transactions, failures>>

------------------------------------------------------------------------------
(* The collector *)

RoleWeight(role) ==
  CASE role = "SUPPORTING" -> Unit [] role = "RELATED" -> 3500
    [] role = "CONTEXTUAL" -> 2000 [] OTHER -> 0

RelationWeight(relation) ==
  CASE relation = "CORROBORATING" -> Unit [] relation = "CONSISTENT" -> 5000
    [] relation = "WEAK" -> 2000 [] OTHER -> 0

Facts(i, F) == {x \in F : i \in ItemOf[x].of}
OfSort(F, sort) == {x \in F : ItemOf[x].sort = sort}

\* Mutant of Group: the mean confidence of the bucket in place of the highest.
GroupAverages(key, links) ==
  LET L == {x \in links : ItemOf[x].key = key}
  IN  [key |-> key, count |-> Cardinality(L),
       conf |-> MapThenSumSet(LAMBDA x : ItemOf[x].conf, L) \div Cardinality(L),
       weight |-> Max({RoleWeight(ItemOf[x].role) : x \in L}),
       family |-> ItemOf[CHOOSE x \in L : TRUE].family,
       derived |-> \E x \in L : ItemOf[x].derived]

\* One bucket per provenance key: the highest confidence of any of its links
\* with the highest role weight of any of its links.
Group(key, links) ==
  LET L == {x \in links : ItemOf[x].key = key}
  IN  [key |-> key, count |-> Cardinality(L),
       conf |-> Max({ItemOf[x].conf : x \in L}),
       weight |-> Max({RoleWeight(ItemOf[x].role) : x \in L}),
       family |-> ItemOf[CHOOSE x \in L : TRUE].family,
       derived |-> \E x \in L : ItemOf[x].derived]

Groups(F) ==
  LET links == OfSort(F, "link")
  IN  {g \in {Group(ItemOf[x].key, links) : x \in links} : g.weight > 0}

\* Weight of a physical corroboration row, 0 unless it supports.
PhysicalWeight(x) ==
  IF ItemOf[x].verdict # "SUPPORTS" THEN 0
  ELSE IF ItemOf[x].station THEN Unit ELSE 6000

StationWeight(x) ==
  IF ItemOf[x].sort = "reading" THEN RelationWeight(ItemOf[x].relation) ELSE PhysicalWeight(x)

\* One bucket per station, or per source, grid cell and variable.
Stations(F) ==
  LET readings == OfSort(F, "reading") \cup {x \in OfSort(F, "physical") : PhysicalWeight(x) > 0}
      At(key) == {x \in readings : ItemOf[x].key = key}
  IN  {s \in {[key |-> k, family |-> "SENSOR",
               score |-> Max({ItemOf[x].score : x \in At(k)}),
               weight |-> Max({StationWeight(x) : x \in At(k)})] :
                k \in {ItemOf[x].key : x \in readings}} : s.weight > 0}

\* Contradictory links, readings and, of the physical rows, those of a station.
Contradictions(F) ==
  {[key |-> x, score |-> ItemOf[x].score, sensor |-> ItemOf[x].sort # "link"] : x \in {y \in F :
     \/ ItemOf[y].sort = "link" /\ ItemOf[y].role = "CONTRADICTORY"
     \/ ItemOf[y].sort = "reading" /\ ItemOf[y].relation = "CONTRADICTORY"
     \/ ItemOf[y].sort = "physical" /\ ItemOf[y].verdict = "CONTRADICTS" /\ ItemOf[y].station}}

ImageCap == 500

\* The adjustment of a set of image verdicts.
ImageAdjustment(F) ==
  LET verdicts == {ItemOf[x].verdict : x \in OfSort(F, "image")}
  IN  IF "CONTRADICTS" \in verdicts THEN -ImageCap
      ELSE IF verdicts = {"SUPPORTS"} THEN ImageCap ELSE 0

\* collect_inputs for incident i when the facts F are visible.
Inputs(i, F) ==
  LET mine == Facts(i, F)
  IN  [report |-> SourceOf[i], members |-> 1 + Cardinality(OfSort(mine, "member")),
       groups |-> Groups(mine), stations |-> Stations(mine),
       contradictions |-> Contradictions(mine),
       image |-> IF ImageEnabled THEN ImageAdjustment(mine) ELSE 0]

------------------------------------------------------------------------------
(* Transactions *)

Unlocked == "nobody"
Unset == [unset |-> TRUE]      \* not reached
Skipped == [skipped |-> TRUE]  \* reached, and no score stored

ScoredRow(in, writer) ==
  [score |-> Score(in), explained |-> Explanation(in), stale |-> FALSE, by |-> writer]

\* Any facts that have arrived, one at a time and each with its evaluation.
CredibilityInit ==
  /\ arrived \in SUBSET Items
  /\ row = [i \in Cluster |-> ScoredRow(Inputs(i, arrived), "stage")]
  /\ lock = [i \in Cluster |-> Unlocked]
  /\ phase = [t \in Tasks |-> IF t \in arrived THEN "done" ELSE "idle"]
  /\ todo = [t \in Tasks |-> <<>>]
  /\ view = [t \in Tasks |-> {}]
  /\ pend = [t \in Tasks |-> [i \in Cluster |-> Unset]]
  /\ blind = {} /\ unscored = {} /\ failures = 0
  /\ transactions = IF arrived \in Starts THEN 0 ELSE MaxTransactions

\* A task of a fact scores the incidents of the fact; the engine scores every
\* member of the cluster.
Path(t) ==
  IF t \in Recomputes THEN "engine" ELSE IF ItemOf[t].sort = "image" THEN "image" ELSE "stage"
Concerns(t) == IF t \in Recomputes THEN Cluster ELSE ItemOf[t].of
Visible(t) == arrived \cup ({t} \cap Items)
Open(t) == phase[t] \notin {"idle", "done"}

\* The rows the transaction has flushed, and a row as it sees it.
Flushed(t) == {i \in Cluster : pend[t][i] \notin {Unset, Skipped}}
Current(t, i) == IF i \in Flushed(t) THEN pend[t][i] ELSE row[i]

\* An open transaction has scored incident i and not committed.
Holds(u, i) == Open(u) /\ (i \in Flushed(u) \/ (phase[u] = "flush" /\ Head(todo[u]) = i))

\* The fact is inserted. A new member of the cluster reaches the reports it is
\* clustered with one by one, in the order of their ids.
Start(t) ==
  /\ phase[t] = "idle" /\ transactions < MaxTransactions
  /\ transactions' = transactions + 1
  /\ phase' = [phase EXCEPT ![t] = "collect"]
  /\ todo' = [todo EXCEPT ![t] = SetToSeq(Concerns(t))]
  /\ UNCHANGED <<arrived, row, lock, view, pend, blind, unscored, failures>>

Collect(t) ==
  /\ phase[t] = "collect" /\ todo[t] # <<>>
  /\ view' = [view EXCEPT ![t] = Facts(Head(todo[t]), Visible(t))]
  /\ phase' = [phase EXCEPT ![t] = "score"]
  /\ UNCHANGED <<arrived, row, lock, todo, pend, blind, unscored, transactions, failures>>

\* compute_credibility_fingerprint covers every input but the images.
Fingerprint(i, F) == [Inputs(i, F) EXCEPT !.image = 0]

\* On to the next incident, or to the commit.
Advance(t) ==
  /\ todo' = [todo EXCEPT ![t] = Tail(@)]
  /\ phase' = [phase EXCEPT ![t] = IF Len(todo[t]) = 1 THEN "commit" ELSE "collect"]

\* The image service adds the adjustment to a score that has it already when
\* the signal is enabled, and leaves the explanation alone.
NewRow(t, i) ==
  LET in == Inputs(i, view[t])
  IN  IF Path(t) = "image"
        THEN [Current(t, i) EXCEPT !.score = Clamp(Score(in) + ImageAdjustment(view[t])), !.by = "image"]
        ELSE ScoredRow(in, Path(t))

\* Mutant of Unchanged: the stage does not look again before it writes.
AssumeUnchanged(t, i) == TRUE

Unchanged(t, i) == Fingerprint(i, Facts(i, Visible(t))) = Fingerprint(i, view[t])

\* Facts of incident i have been committed since t read them, and t does not
\* look: the engine and the image service never do, the fingerprint of the
\* stage leaves the images out.
Missed(t, i) ==
  \E x \in Facts(i, Visible(t)) \ view[t] : Path(t) # "stage" \/ ItemOf[x].sort = "image"

\* Compare-before-write, of the stage alone: F2 = F1.
Recheck(t) ==
  /\ phase[t] = "score"
  /\ LET i == Head(todo[t])
     IN  /\ Path(t) = "stage" => Unchanged(t, i)
         /\ blind' = IF Missed(t, i) THEN blind \cup {i} ELSE blind
  /\ phase' = [phase EXCEPT ![t] = "flush"]
  /\ UNCHANGED <<arrived, row, lock, todo, view, pend, unscored, transactions, failures>>

\* The UPDATE waits for the row lock and keeps it until the commit.
Store(t) ==
  /\ phase[t] = "flush"
  /\ LET i == Head(todo[t])
     IN  /\ lock[i] \in {Unlocked, t}
         /\ lock' = [lock EXCEPT ![i] = t]
         /\ pend' = [pend EXCEPT ![t][i] = NewRow(t, i)]
  /\ Advance(t)
  /\ UNCHANGED <<arrived, row, view, blind, unscored, transactions, failures>>

\* SKIPPED_STALE: what was collected is no longer what the database holds.
SkipStale(t) ==
  /\ phase[t] = "score" /\ Path(t) = "stage"
  /\ ~Unchanged(t, Head(todo[t]))
  /\ pend' = [pend EXCEPT ![t][Head(todo[t])] = Skipped]
  /\ Advance(t)
  /\ UNCHANGED <<arrived, row, lock, view, blind, unscored, transactions, failures>>

\* The handler reports RETRYABLE_FAILURE and the transaction goes on.
StageFails(t) ==
  /\ phase[t] \in {"collect", "score", "flush"} /\ todo[t] # <<>> /\ Path(t) = "stage" /\ failures < MaxFailures
  /\ failures' = failures + 1
  /\ pend' = [pend EXCEPT ![t][Head(todo[t])] = Skipped]
  /\ Advance(t)
  /\ UNCHANGED <<arrived, row, lock, view, blind, unscored, transactions>>

\* The engine rolls back, which also drops the rows of the incidents it scored
\* before, marks this incident stale and goes on to the next one.
EngineFails(t) ==
  /\ phase[t] \in {"collect", "score", "flush"} /\ todo[t] # <<>> /\ Path(t) = "engine" /\ failures < MaxFailures
  /\ LET i == Head(todo[t])
     IN  /\ pend' = [pend EXCEPT ![t] =
                       [j \in Cluster |->
                          IF j = i THEN [row[i] EXCEPT !.stale = TRUE]
                          ELSE IF j \in Flushed(t) THEN Skipped ELSE pend[t][j]]]
         /\ lock' = [j \in Cluster |-> IF lock[j] = t THEN Unlocked ELSE lock[j]]
  /\ failures' = failures + 1
  /\ Advance(t)
  /\ UNCHANGED <<arrived, row, view, blind, unscored, transactions>>

\* The stale mark is flushed at the commit, which needs the row lock too.
CommitScores(t) ==
  /\ phase[t] = "commit"
  /\ \A i \in Flushed(t) : lock[i] \in {Unlocked, t}
  /\ arrived' = Visible(t)
  /\ row' = [i \in Cluster |-> Current(t, i)]
  /\ unscored' = (unscored \ Flushed(t))
                   \cup {i \in Cluster : pend[t][i] = Skipped \/ (i \in Flushed(t) /\ pend[t][i].stale)}
  /\ lock' = [i \in Cluster |-> IF lock[i] = t THEN Unlocked ELSE lock[i]]
  /\ phase' = [phase EXCEPT ![t] = "done"]
  /\ pend' = [pend EXCEPT ![t] = [i \in Cluster |-> Unset]]
  /\ view' = [view EXCEPT ![t] = {}]
  /\ blind' = blind \cup {i \in Concerns(t) : t \in Items /\ \E u \in Tasks \ {t} : Holds(u, i)}
  /\ UNCHANGED <<todo, transactions, failures>>

CredibilityNext ==
  \E t \in Tasks :
    \/ Start(t) \/ Collect(t) \/ Recheck(t) \/ Store(t) \/ SkipStale(t)
    \/ StageFails(t) \/ EngineFails(t) \/ CommitScores(t)

CredibilitySpec == CredibilityInit /\ [][CredibilityNext]_credibilityVars

------------------------------------------------------------------------------
(* Properties *)

CredibilityTypeOK ==
  /\ arrived \subseteq Items
  /\ \A i \in Cluster : row[i].score \in 0 .. CapMax /\ row[i].stale \in BOOLEAN
  /\ lock \in [Cluster -> Tasks \cup {Unlocked}]
  /\ phase \in [Tasks -> {"idle", "collect", "score", "flush", "commit", "done"}]
  /\ blind \subseteq Cluster /\ unscored \subseteq Cluster /\ transactions \in 0 .. MaxTransactions /\ failures \in 0 .. MaxFailures

Quiet == \A t \in Tasks : ~Open(t)

\* When no transaction is open, an incident's score and explanation are those
\* of the facts in the database, or its last evaluation is known not to have
\* been stored, or the image service wrote the score last, or a fact of it was
\* committed while another transaction had scored it and not committed: neither
\* sees the other's fact, and compare-before-write does not notice.
CurrentUnlessBlind ==
  Quiet =>
    \A i \in Cluster :
      \/ i \in unscored \/ i \in blind \/ row[i].by = "image"
      \/ LET in == Inputs(i, arrived)
         IN  row[i].score = Score(in) /\ row[i].explained = Explanation(in)

\* Groups of RELATED and CONTEXTUAL links lift a score by at most 0.03 and
\* never across a threshold of the verification queue.
WeakNeverDecides ==
  Quiet => \A i \in Cluster :
    LET in == Inputs(i, arrived)
        strong == Raw(StrongOnly(in))
    IN  Score(in) > strong =>
          /\ Score(in) <= strong + MaxWeakLift
          /\ \A t \in Thresholds : ~(strong < t /\ t <= Score(in))

Supports(x) ==
  \/ ItemOf[x].sort = "member"
  \/ ItemOf[x].sort = "link" /\ ItemOf[x].role # "CONTRADICTORY"
  \/ ItemOf[x].sort = "reading" /\ RelationWeight(ItemOf[x].relation) > 0
  \/ ItemOf[x].sort = "physical" /\ ItemOf[x].verdict = "SUPPORTS"

\* Another supporting fact never lowers a score, with two exceptions: a link
\* of derived lineage takes its whole bucket out of the count of families, and
\* the first corroboration of an official report by its own family replaces
\* the cap of 0.88 by the cap of 0.82.
SupportNeverLowers ==
  Quiet => \A i \in Cluster, x \in {y \in Items \ arrived : Supports(y)} :
    LET before == Inputs(i, arrived)
        after == Inputs(i, arrived \cup {x})
    IN  \/ Score(after) >= Score(before)
        \/ ItemOf[x].sort = "link" /\ ItemOf[x].derived
        \/ PolicyCap(before) = 8800 /\ PolicyCap(after) < 8800

=============================================================================
