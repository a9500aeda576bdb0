------------------------------- MODULE Linking -------------------------------
(***************************************************************************)
(* How reports meet external items: news and posts                         *)
(* (intelligence/evidence_linking_engine.py, on_evidence_ingested), and    *)
(* readings of gauges (observation_corroboration_engine.py,                *)
(* on_observation_ingested).  Each side is stored with an event first and  *)
(* matched in a later transaction of its own, against what is stored of    *)
(* the other side by then.  A pair has at most one link: a unique key.     *)
(*                                                                         *)
(* The engine of readings stores irrelevant pairs too and recomputes the   *)
(* report at once, the one of evidence after the last pair.                *)
(*                                                                         *)
(* Tasks are transactions at READ COMMITTED.  A report's task owns the row *)
(* of its report from the LOCATION stage on; the insertion of a link takes *)
(* the unique key first and then shares the row of the report it refers    *)
(* to; a recomputation of credibility locks that row for update.           *)
(***************************************************************************)
EXTENDS Naturals, FiniteSets

CONSTANTS
  Incidents, Items,
  ByReport,     \* pairs <<r, i>> that the query of the report's stage admits
  ByItem,       \* pairs <<r, i>> that the query of the item's task admits
  Assessment,   \* [Incidents \X Items -> [relation, score]]: the scorer's
  Superseded,   \* pairs <<i, j>> of readings: j is of the same station and later
  Ahead,        \* pairs of reports, or of items, in the order a query gives them, if any
  Readings,     \* the items that are readings
  TopN,         \* positive links the stage of a report keeps
  MaxDecisions  \* bound: decisions of operators

LinkingAssumption ==
  /\ ByReport \subseteq Incidents \X Items /\ ByItem \subseteq Incidents \X Items
  /\ IsFiniteSet(ByReport) /\ Incidents \cap Items = {}
  /\ Superseded \subseteq Items \X Items
  /\ Readings \subseteq Items /\ TopN \in Nat /\ MaxDecisions \in Nat

VARIABLES
  stored,     \* reports and items stored
  lpc,        \* [Incidents \cup Items -> phase of its task]
  todo,       \* [Incidents \cup Items -> pairs still to write]
  kept,       \* [Incidents \cup Items -> pairs the task holds to be positive]
  read,       \* [Incidents \cup Items -> the pair at hand and the row read for it, or nothing]
  draft,      \* [Incidents \cup Items -> [pairs -> rows]] written, not committed
  owed,       \* [Incidents \cup Items -> reports whose credibility the task has still to recompute]
  owner,      \* [Incidents -> tasks that lock the report's row for update], at most one
  sharer,     \* [Incidents -> tasks that refer to the report's row]
  link,       \* [pairs -> committed row or NoLink]
  decided,    \* history: the pairs an operator has decided
  late        \* history: pairs decided by an operator while a task held an older row

locks == <<owner, sharer>>
history == <<decided, late>>
linkingVars == <<stored, lpc, todo, kept, read, draft, owed, owner, sharer, link, decided, late>>

Tasks == Incidents \cup Items
Pairs == Incidents \X Items
NoLink == [role |-> "none", human |-> FALSE]
Link(role) == [role |-> role, human |-> FALSE]
NothingRead == [pair |-> <<>>, row |-> NoLink]
NoDraft == [p \in {} |-> NoLink]

LinkingInit ==
  /\ stored = {} /\ lpc = [t \in Tasks |-> "absent"] /\ todo = [t \in Tasks |-> {}]
  /\ kept = [t \in Tasks |-> {}] /\ read = [t \in Tasks |-> NothingRead]
  /\ draft = [t \in Tasks |-> NoDraft] /\ owed = [t \in Tasks |-> {}]
  /\ owner = [r \in Incidents |-> {}] /\ sharer = [r \in Incidents |-> {}]
  /\ link = [p \in Pairs |-> NoLink] /\ decided = {} /\ late = {}

\* The row and the event of a report or an item, in one transaction.  (The
\* items of a behaviour are of one kind: a report's task has a stage for each
\* kind, which query apart.)
Ingest(t) ==
  /\ t \notin stored
  /\ t \in Items => stored \cap Items \subseteq IF t \in Readings THEN Readings ELSE Items \ Readings
  /\ stored' = stored \cup {t} /\ lpc' = [lpc EXCEPT ![t] = "queued"]
  /\ UNCHANGED <<todo, kept, read, draft, owed, locks, link, history>>

\* The candidates of a report: of a station's readings the latest in the window.
OfReport(r) ==
  {p \in ByReport : /\ p[1] = r /\ p[2] \in stored
                    /\ \A q \in ByReport : q[1] = r /\ q[2] \in stored => <<p[2], q[2]>> \notin Superseded}
OfItem(i) == {p \in ByItem : p[2] = i /\ p[1] \in stored}
Candidates(t) == IF t \in Incidents THEN OfReport(t) ELSE OfItem(t)

Positives(s) == {p \in s : Assessment[p].relation # "IRRELEVANT"}

\* The best of a set of pairs, as many as the stage of a report keeps.
Top(s) ==
  {b \in SUBSET s :
     /\ Cardinality(b) = IF Cardinality(s) < TopN THEN Cardinality(s) ELSE TopN
     /\ \A p \in b, q \in s \ b : Assessment[p].score >= Assessment[q].score}

\* Readings are kept without limit, and so is all that an item's task finds.
Best(t, s) ==
  LET limited == {p \in Positives(s) : t \in Incidents /\ p[2] \notin Readings} IN
  {b \cup (Positives(s) \ limited) : b \in Top(limited)}

\* A report's task has locked its row in an earlier stage of the pipeline.
OwnRow(t) == {t} \cap Incidents
Unlocked(r, t) == owner[r] \subseteq {t} /\ sharer[r] \subseteq {t}

Query(t) ==
  /\ lpc[t] = "queued" /\ \A r \in OwnRow(t) : Unlocked(r, t)
  /\ owner' = [r \in Incidents |-> IF r \in OwnRow(t) THEN {t} ELSE owner[r]]
  /\ \E b \in Best(t, Candidates(t)) : kept' = [kept EXCEPT ![t] = b]
  /\ todo' = [todo EXCEPT ![t] = Candidates(t)] /\ lpc' = [lpc EXCEPT ![t] = "writing"]
  /\ UNCHANGED <<stored, read, draft, owed, sharer, link, history>>

\* The task goes through the pairs in the order of its query.
IsFirst(p, s) == \A q \in s : <<q[1], p[1]>> \notin Ahead /\ <<q[2], p[2]>> \notin Ahead

\* The row of the next pair is read.  A pair that is to be irrelevant and has
\* no row is left alone by the engine of evidence.
Read(t, p) ==
  /\ lpc[t] = "writing" /\ p \in todo[t] /\ IsFirst(p, todo[t]) /\ read[t] = NothingRead
  /\ p[2] \in Readings => owed[t] = {}
  /\ IF link[p] = NoLink /\ p \notin kept[t] /\ p[2] \notin Readings
     THEN todo' = [todo EXCEPT ![t] = @ \ {p}] /\ UNCHANGED read
     ELSE read' = [read EXCEPT ![t] = [pair |-> p, row |-> link[p]]] /\ UNCHANGED todo
  /\ UNCHANGED <<stored, lpc, kept, draft, owed, locks, link, history>>

\* Others that have written the same key, and not committed, are waited for.
Holders(t, p) == {u \in Tasks \ {t} : p \in DOMAIN draft[u]}

RoleFor(t, p) == IF p \in kept[t] THEN Assessment[p].relation ELSE "IRRELEVANT"

\* Mutant of Rewritten: the engine writes over whatever is there.
RewrittenAlways(t, p) == Link(RoleFor(t, p))

\* A human decision that was there when the row was read is left as it is.
Rewritten(t, p) == IF read[t].row.human THEN read[t].row ELSE Link(RoleFor(t, p))

\* The next pair; an item's task will recompute what it has linked.
Proceed(t, p) ==
  /\ todo' = [todo EXCEPT ![t] = @ \ {p}] /\ read' = [read EXCEPT ![t] = NothingRead]
  /\ owed' = [owed EXCEPT ![t] = IF t \in Items /\ (t \in Readings \/ p \in kept[t]) THEN @ \cup {p[1]} ELSE @]
  /\ lpc' = [lpc EXCEPT ![t] = "writing"]

Write(t) ==
  LET p == read[t].pair IN
  /\ lpc[t] = "writing" /\ read[t] # NothingRead /\ Holders(t, p) = {}
  /\ draft' = [draft EXCEPT ![t] = [q \in DOMAIN draft[t] \cup {p} |->
                                      IF q = p THEN Rewritten(t, p) ELSE draft[t][q]]]
  /\ \/ read[t].row # NoLink /\ Proceed(t, p)
     \/ /\ read[t].row = NoLink /\ link[p] = NoLink
        /\ lpc' = [lpc EXCEPT ![t] = "refer"] /\ UNCHANGED <<todo, read, owed>>
  /\ UNCHANGED <<stored, kept, locks, link, history>>

\* A new row refers to the report's: the foreign key.
Refer(t) ==
  LET p == read[t].pair IN
  /\ lpc[t] = "refer" /\ owner[p[1]] \subseteq {t}
  /\ sharer' = [sharer EXCEPT ![p[1]] = @ \cup {t}] /\ Proceed(t, p)
  /\ UNCHANGED <<stored, kept, draft, owner, link, history>>

\* The CREDIBILITY stage of a linked report ends with its row locked.
Recompute(t, r) ==
  /\ lpc[t] = "writing" /\ read[t] = NothingRead /\ (t \in Readings \/ todo[t] = {})
  /\ r \in owed[t] /\ \A q \in owed[t] : <<q, r>> \notin Ahead
  /\ Unlocked(r, t)
  /\ owner' = [owner EXCEPT ![r] = {t}] /\ owed' = [owed EXCEPT ![t] = @ \ {r}]
  /\ UNCHANGED <<stored, lpc, todo, kept, read, draft, sharer, link, history>>

Unlock(t) ==
  /\ owner' = [r \in Incidents |-> owner[r] \ {t}] /\ sharer' = [r \in Incidents |-> sharer[r] \ {t}]

Again(t) ==
  /\ lpc' = [lpc EXCEPT ![t] = "queued"] /\ todo' = [todo EXCEPT ![t] = {}] /\ kept' = [kept EXCEPT ![t] = {}]
  /\ read' = [read EXCEPT ![t] = NothingRead] /\ draft' = [draft EXCEPT ![t] = NoDraft]
  /\ owed' = [owed EXCEPT ![t] = {}] /\ Unlock(t)
  /\ UNCHANGED <<stored, link, history>>

\* The insertion meets a row that another task has committed since the read:
\* the transaction is lost, and its event delivered again.
Collide(t) ==
  /\ lpc[t] = "writing" /\ read[t] # NothingRead /\ Holders(t, read[t].pair) = {}
  /\ read[t].row = NoLink /\ link[read[t].pair] # NoLink
  /\ Again(t)

Blockers(t) ==
  CASE lpc[t] = "queued" -> UNION {owner[r] \cup sharer[r] : r \in OwnRow(t)} \ {t}
    [] lpc[t] = "writing" /\ read[t] # NothingRead -> Holders(t, read[t].pair)
    [] lpc[t] = "refer" -> owner[read[t].pair[1]] \ {t}
    [] lpc[t] = "writing" /\ read[t] = NothingRead /\ (t \in Readings \/ todo[t] = {}) ->
         UNION {owner[r] \cup sharer[r] : r \in {q \in owed[t] : \A o \in owed[t] : <<o, q>> \notin Ahead}} \ {t}
    [] OTHER -> {}

\* A cycle of waiting transactions, of which the database ends one: two items
\* that refer to one report and then lock it, or a report that inserts the
\* link of an item which waits for the report's row.
Deadlock(t) ==
  /\ \E u \in Blockers(t) :
       \/ t \in Blockers(u)
       \/ \E v \in Blockers(u) : t \in Blockers(v) \/ \E w \in Blockers(v) : t \in Blockers(w)
  /\ Again(t)

CanCommit(t) == lpc[t] = "writing" /\ todo[t] = {} /\ read[t] = NothingRead /\ owed[t] = {}

\* Mutant of CommitLinks: the caller is trusted to commit, and nobody does.
CommitNothing(t) ==
  /\ CanCommit(t)
  /\ lpc' = [lpc EXCEPT ![t] = "done"] /\ draft' = [draft EXCEPT ![t] = NoDraft]
  /\ kept' = [kept EXCEPT ![t] = {}] /\ Unlock(t)
  /\ UNCHANGED <<stored, todo, read, owed, link, history>>

CommitLinks(t) ==
  /\ CanCommit(t)
  /\ link' = [p \in Pairs |-> IF p \in DOMAIN draft[t] THEN draft[t][p] ELSE link[p]]
  /\ lpc' = [lpc EXCEPT ![t] = "done"] /\ draft' = [draft EXCEPT ![t] = NoDraft]
  /\ kept' = [kept EXCEPT ![t] = {}] /\ Unlock(t)
  /\ UNCHANGED <<stored, todo, read, owed, history>>

\* An operator settles a stored link (no code of the repository does).
DecideLink(p) ==
  /\ Cardinality(decided) < MaxDecisions /\ link[p] # NoLink /\ \A u \in Tasks : p \notin DOMAIN draft[u]
  /\ link' = [link EXCEPT ![p] = [role |-> "REJECTED", human |-> TRUE]]
  /\ decided' = decided \cup {p}
  /\ late' = late \cup {q \in {p} : \E u \in Tasks : read[u].pair = p}
  /\ UNCHANGED <<stored, lpc, todo, kept, read, draft, owed, locks>>

Step(t) ==
  \/ Query(t) \/ Write(t) \/ Refer(t) \/ Collide(t) \/ Deadlock(t) \/ CommitLinks(t)
  \/ \E p \in Pairs : Read(t, p)
  \/ \E r \in Incidents : Recompute(t, r)

LinkingNext ==
  \/ \E t \in Tasks : Ingest(t) \/ Step(t)
  \/ \E p \in Pairs : DecideLink(p)

LinkingSpec == LinkingInit /\ [][LinkingNext]_linkingVars

------------------------------------------------------------------------------
\* The report's stage had to drop the pair for others as good.
Demoted(p) ==
  /\ p[2] \notin Readings
  /\ Cardinality({q \in Positives(ByReport \ {p}) :
       q[1] = p[1] /\ q[2] \notin Readings /\ Assessment[q].score >= Assessment[p].score}) >= TopN
Passed(p) == \E j \in stored : <<p[2], j>> \in Superseded

(* Whichever side is stored last finds the other: when both tasks are done,
   a pair that both queries admit and that the scorer holds to be related is
   linked as it says, unless an operator has decided, the report's stage kept
   better ones or a later reading took its place.  Both tasks read what is
   committed while the other is writing, wait for and abort each other
   (evaluate_and_link_evidence, evaluate_and_link_report, _persist_link). *)
MutualPairsMeet ==
  \A p \in Positives(ByReport \cap ByItem) :
    lpc[p[1]] = "done" /\ lpc[p[2]] = "done" /\ ~Demoted(p) /\ ~Passed(p) =>
      link[p].human \/ link[p].role = Assessment[p].relation

(* No recomputation ever overwrites the decision of an operator, unless it
   was taken between a task's read of the row and its write: "Never overwrites
   human operator decisions" (_persist_link, _handle_irrelevant_transition). *)
HumanDecisionStands == \A p \in decided \ late : link[p].human
=============================================================================
