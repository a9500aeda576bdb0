---------------------------- MODULE Reports_proofs ----------------------------
(***************************************************************************)
(* Proofs about what happens to stored reports, each for any number of     *)
(* reports, items, requests and workers: ingestion (one report per id,     *)
(* nothing forgotten), human verification (the trail explains the status), *)
(* retention (pruned whole), linking (decisions stand, mutual pairs meet)  *)
(* and clustering (a report is in two clusters, a cluster miscounts or a   *)
(* stage is stuck only of the reports that are blamed for it; what the row *)
(* locks keep apart).                                                      *)
(***************************************************************************)
EXTENDS Ingest, Verification, Retention, Linking, Clustering, FiniteSetTheorems, TLAPS

-----------------------------------------------------------------------------
(***************************************************************************)
(* Ingestion.                                                              *)
(***************************************************************************)
\* A worker that is about to insert an id no two workers looked for at once is
\* the only one, and nobody has inserted it.
InsertInv ==
    \A w \in Workers : ipc[w] = "insert" /\ job[w] \notin raced =>
        /\ reports[job[w]] = 0
        /\ \A v \in Workers \ {w} : ~(ipc[v] = "insert" /\ job[v] = job[w])

IngestInv == IngestTypeOK /\ InsertInv /\ OneReportPerId /\ OnlyRedeliveryForgets

------------------------------------------------------------------------------
\* Nothing has been ingested at the start.
LEMMA IngestStart ==
  ASSUME IdsAssumption, DeliveriesAssumption, IngestInit
  PROVE  IngestInv
<1>1. IngestTypeOK
  BY DEF IngestTypeOK, IngestInit, IdsAssumption, DeliveriesAssumption
<1>2. InsertInv /\ OneReportPerId /\ OnlyRedeliveryForgets
  BY DEF IngestInit, InsertInv, OneReportPerId, OnlyRedeliveryForgets
<1> QED BY <1>1, <1>2 DEF IngestInv

\* Looking for the report of an id.
LEMMA LookStep ==
  ASSUME DeliveriesAssumption, IngestInv, NEW w \in Workers, NEW i \in Ids, Look(w, i)
  PROVE  IngestInv'
<1>1. IngestTypeOK'
  BY DEF IngestInv, IngestTypeOK, Look, DeliveriesAssumption
<1>2. InsertInv'
  <2> SUFFICES ASSUME NEW u \in Workers, ipc'[u] = "insert", job'[u] \notin raced'
               PROVE  /\ reports'[job'[u]] = 0
                      /\ \A v \in Workers \ {u} : ~(ipc'[v] = "insert" /\ job'[v] = job'[u])
    BY DEF InsertInv
  <2>1. CASE u = w
    <3>1. job'[u] = i /\ reports[i] = 0 /\ Rivals(w, i) = {}
      BY <2>1 DEF IngestInv, IngestTypeOK, Look
    <3> QED BY <2>1, <3>1 DEF IngestInv, IngestTypeOK, Look, Rivals
  <2>2. CASE u # w
    <3>1. ipc[u] = "insert" /\ job'[u] = job[u] /\ job[u] \notin raced
      BY <2>2 DEF IngestInv, IngestTypeOK, Look
    <3>2. reports[job[u]] = 0 /\ \A v \in Workers \ {u} : ~(ipc[v] = "insert" /\ job[v] = job[u])
      BY <3>1 DEF IngestInv, InsertInv
    <3>3. ipc'[w] = "insert" => job[u] # i
      <4> SUFFICES ASSUME ipc'[w] = "insert", job[u] = i
                   PROVE  FALSE
        OBVIOUS
      <4>1. reports[i] = 0
        BY DEF IngestInv, IngestTypeOK, Look
      <4>2. u \in Rivals(w, i)
        BY <2>2, <3>1 DEF Rivals
      <4>3. i \in raced'
        BY <4>1, <4>2 DEF Look
      <4> QED BY <3>1, <4>3
    <3> QED BY <2>2, <3>1, <3>2, <3>3 DEF IngestInv, IngestTypeOK, Look
  <2> QED BY <2>1, <2>2
<1>3. OneReportPerId'
  <2> SUFFICES ASSUME NEW j \in Ids, j \notin raced'
               PROVE  reports'[j] <= 1 /\ j \notin rejected'
    BY DEF OneReportPerId
  <2>1. j \notin raced /\ reports'[j] = reports[j] /\ reports[j] <= 1 /\ j \notin rejected
    BY DEF IngestInv, OneReportPerId, Look
  <2>2. reports[j] > 1 => FALSE
    BY <2>1 DEF IngestInv, IngestTypeOK
  <2> QED BY <2>1, <2>2 DEF Look
<1>4. OnlyRedeliveryForgets'
  BY DEF IngestInv, OnlyRedeliveryForgets, Look
<1> QED BY <1>1, <1>2, <1>3, <1>4 DEF IngestInv

\* The report is inserted with its trigger.
LEMMA InsertStep ==
  ASSUME IngestInv, NEW w \in Workers, Insert(w)
  PROVE  IngestInv'
<1> DEFINE i == job[w]
<1>1. i \in Ids /\ reports[i] \in Nat /\ triggers[i] \in Nat
      /\ reports' = [reports EXCEPT ![i] = @ + 1] /\ triggers' = [triggers EXCEPT ![i] = @ + 1]
  BY DEF IngestInv, IngestTypeOK, Insert
<1>2. IngestTypeOK'
  BY <1>1 DEF IngestInv, IngestTypeOK, Insert
<1>3. InsertInv'
  <2> SUFFICES ASSUME NEW u \in Workers, ipc'[u] = "insert", job[u] \notin raced
               PROVE  /\ reports'[job[u]] = 0
                      /\ \A v \in Workers \ {u} : ~(ipc'[v] = "insert" /\ job[v] = job[u])
    BY DEF InsertInv, Insert
  <2>1. u # w /\ ipc[u] = "insert"
    BY DEF IngestInv, IngestTypeOK, Insert
  <2>2. reports[job[u]] = 0 /\ \A v \in Workers \ {u} : ~(ipc[v] = "insert" /\ job[v] = job[u])
    BY <2>1 DEF IngestInv, InsertInv
  <2>3. job[u] # i
    BY <2>1, <2>2 DEF Insert
  <2> QED BY <2>1, <2>2, <2>3, <1>1 DEF IngestInv, IngestTypeOK, Insert
<1>4. OneReportPerId'
  <2> SUFFICES ASSUME NEW j \in Ids, j \notin raced
               PROVE  reports'[j] <= 1 /\ j \notin rejected
    BY DEF OneReportPerId, Insert
  <2>1. reports[j] <= 1 /\ j \notin rejected
    BY DEF IngestInv, OneReportPerId
  <2>2. j = i => reports[j] = 0
    BY DEF IngestInv, InsertInv, Insert
  <2> QED BY <2>1, <2>2, <1>1 DEF IngestInv, IngestTypeOK
<1>5. OnlyRedeliveryForgets'
  <2> SUFFICES ASSUME NEW j \in Ids, reports'[j] > 0
               PROVE  triggers'[j] > 0 \/ j \in stages \cup wiped
    BY DEF OnlyRedeliveryForgets, Insert
  <2>1. CASE j = i
    BY <2>1, <1>1 DEF IngestInv, IngestTypeOK
  <2>2. CASE j # i
    BY <2>2, <1>1 DEF IngestInv, IngestTypeOK, OnlyRedeliveryForgets
  <2> QED BY <2>1, <2>2
<1> QED BY <1>2, <1>3, <1>4, <1>5 DEF IngestInv

\* A redelivery replaces the payload.
LEMMA UpdateStep ==
  ASSUME IngestInv, NEW w \in Workers, Update(w)
  PROVE  IngestInv'
<1>1. IngestTypeOK'
  BY DEF IngestInv, IngestTypeOK, Update
<1>2. InsertInv'
  BY DEF IngestInv, IngestTypeOK, InsertInv, Update
<1>3. OneReportPerId' /\ OnlyRedeliveryForgets'
  BY DEF IngestInv, OneReportPerId, OnlyRedeliveryForgets, Update
<1> QED BY <1>1, <1>2, <1>3 DEF IngestInv

\* A worker dies, or its transaction fails.
LEMMA LoseStep ==
  ASSUME IngestInv, NEW w \in Workers, Lose(w)
  PROVE  IngestInv'
<1>1. IngestTypeOK'
  BY DEF IngestInv, IngestTypeOK, Lose
<1>2. InsertInv'
  BY DEF IngestInv, IngestTypeOK, InsertInv, Lose
<1>3. OneReportPerId' /\ OnlyRedeliveryForgets'
  BY DEF IngestInv, OneReportPerId, OnlyRedeliveryForgets, Lose
<1> QED BY <1>1, <1>2, <1>3 DEF IngestInv

\* The pipeline consumes a trigger.
LEMMA EvaluateStep ==
  ASSUME IngestInv, NEW i \in Ids, Evaluate(i)
  PROVE  IngestInv'
<1>1. triggers[i] \in Nat /\ triggers[i] > 0 /\ triggers' = [triggers EXCEPT ![i] = @ - 1]
  BY DEF IngestInv, IngestTypeOK, Evaluate
<1>2. IngestTypeOK'
  BY <1>1 DEF IngestInv, IngestTypeOK, Evaluate
<1>3. InsertInv' /\ OneReportPerId'
  BY DEF IngestInv, InsertInv, OneReportPerId, Evaluate
<1>4. OnlyRedeliveryForgets'
  <2> SUFFICES ASSUME NEW j \in Ids, reports[j] > 0
               PROVE  triggers'[j] > 0 \/ j \in stages' \cup wiped'
    BY DEF OnlyRedeliveryForgets, Evaluate
  <2>1. CASE j = i
    BY <2>1 DEF Evaluate
  <2>2. CASE j # i
    BY <2>2, <1>1 DEF IngestInv, IngestTypeOK, OnlyRedeliveryForgets, Evaluate
  <2> QED BY <2>1, <2>2
<1> QED BY <1>2, <1>3, <1>4 DEF IngestInv

\* The invariant is inductive.
LEMMA IngestSteps ==
  ASSUME DeliveriesAssumption, IngestInv, [IngestNext]_ingestVars
  PROVE  IngestInv'
<1>1. CASE UNCHANGED ingestVars
  BY <1>1 DEF ingestVars, IngestInv, IngestTypeOK, InsertInv, OneReportPerId, OnlyRedeliveryForgets
<1>2. CASE IngestNext
  BY <1>2, LookStep, InsertStep, UpdateStep, LoseStep, EvaluateStep DEF IngestNext
<1> QED BY <1>1, <1>2

LEMMA IngestInvariant ==
  ASSUME IdsAssumption, DeliveriesAssumption
  PROVE  IngestSpec => []IngestInv
<1>1. IngestInit => IngestInv
  BY IngestStart
<1>2. IngestInv /\ [IngestNext]_ingestVars => IngestInv'
  BY IngestSteps
<1> QED BY <1>1, <1>2, PTL DEF IngestSpec

\* Every variable keeps its type, and no id has more triggers outstanding than
\* reports.
THEOREM IngestTypes ==
  ASSUME IdsAssumption, DeliveriesAssumption
  PROVE  IngestSpec => []IngestTypeOK
<1>1. IngestInv => IngestTypeOK
  BY DEF IngestInv
<1> QED BY <1>1, IngestInvariant, PTL

\* One report per external id, whatever is redelivered and however workers die,
\* unless two of them looked for it at once (ingest_normalized_event).
THEOREM OneReport ==
  ASSUME IdsAssumption, DeliveriesAssumption
  PROVE  IngestSpec => []OneReportPerId
<1>1. IngestInv => OneReportPerId
  BY DEF IngestInv
<1> QED BY <1>1, IngestInvariant, PTL

\* What is ingested is evaluated or will be, or a redelivery has wiped its map.
THEOREM NothingForgotten ==
  ASSUME IdsAssumption, DeliveriesAssumption
  PROVE  IngestSpec => []OnlyRedeliveryForgets
<1>1. IngestInv => OnlyRedeliveryForgets
  BY DEF IngestInv
<1> QED BY <1>1, IngestInvariant, PTL
-----------------------------------------------------------------------------
(***************************************************************************)
(* Verification.  No theorem needs a lock: a request loads before it       *)
(* decides, and nothing it loaded is taken back.                           *)
(***************************************************************************)
\* What ProcessingAfter and the pipeline write is a processing status.
LEMMA ProcessingTypes ==
  /\ \A s \in Statuses : ProcessingAfter(s) \in Processings
  /\ {"QUEUED", "IN_PROGRESS", "CLOSED"} \subseteq Processings
  /\ FromReadiness \subseteq Processings
BY DEF ProcessingAfter, Processings, FromReadiness, Statuses, Terminal

Decisions == [from : Statuses, to : Statuses, by : Requests, at : Nat]

\* Every variable has its type, for any reports, requests and outcomes.
THEOREM VerificationTypes == VerificationSpec => []VerificationTypeOK
<1>1. VerificationInit => VerificationTypeOK
  BY ProcessingTypes DEF VerificationInit, VerificationTypeOK, NothingLoaded, Statuses
<1>2. VerificationTypeOK /\ [VerificationNext]_verificationVars => VerificationTypeOK'
  <2> SUFFICES ASSUME VerificationTypeOK, [VerificationNext]_verificationVars
               PROVE  VerificationTypeOK'
    OBVIOUS
  <2> USE DEF VerificationTypeOK, requestVars, timeVars
  <2>1. ASSUME NEW q \in Requests, NEW S \in SUBSET Reports, NEW to \in Statuses, Open(q, S, to)
        PROVE  VerificationTypeOK'
    BY <2>1 DEF Open
  <2>2. ASSUME NEW q \in Requests, NEW r \in Reports, Load(q, r)
        PROVE  VerificationTypeOK'
    <3>1. vpc' \in [Requests -> {"idle", "open", "committed", "refused"}]
      BY <2>2 DEF Load
    <3>2. loaded' \in [Requests -> [Reports -> [status : Statuses, processing : Processings]]]
      BY <2>2 DEF Load
    <3> QED
      BY <2>2, <3>1, <3>2 DEF Load
  <2>3. ASSUME NEW q \in Requests, CommitChanges(q)
        PROVE  VerificationTypeOK'
    <3>1. \A r \in Reports : Event(q, r) \in Decisions
      BY DEF Event, Decisions
    <3>2. trail' \in [Reports -> SUBSET [from : Statuses, to : Statuses, by : Requests, at : Nat]]
      BY <2>3, <3>1 DEF CommitChanges, Decisions
    <3>3. processing' \in [Reports -> Processings]
      BY <2>3, ProcessingTypes DEF CommitChanges
    <3>4. status' \in [Reports -> Statuses] /\ vpc' \in [Requests -> {"idle", "open", "committed", "refused"}]
      BY <2>3 DEF CommitChanges
    <3> QED
      BY <2>3, <3>2, <3>3, <3>4 DEF CommitChanges
  <2>4. ASSUME NEW q \in Requests, RollBackChanges(q)
        PROVE  VerificationTypeOK'
    BY <2>4 DEF RollBackChanges
  <2>5. ASSUME NEW r \in Reports, NEW to \in Outcomes, PipelineUpdates(r, to)
        PROVE  VerificationTypeOK'
    BY <2>5, ProcessingTypes, OutcomesAssumption DEF PipelineUpdates
  <2>6. CASE UNCHANGED verificationVars
    BY <2>6 DEF verificationVars
  <2> QED
    BY <2>1, <2>2, <2>3, <2>4, <2>5, <2>6 DEF VerificationNext, Request
<1> QED
  BY <1>1, <1>2, PTL DEF VerificationSpec

-----------------------------------------------------------------------------
\* The requests that have decided on a report, and those that had when
\* another one committed.
DecidedOn(r) == {q \in Requests : vpc[q] = "committed" /\ r \in chosen[q]}
Preceding(q, r) == {p \in DecidedOn(r) : ended[p] < ended[q]}

\* s is what the last of these requests asked for.
LastAsked(Q, s) ==
  /\ Q = {} => s = "PENDING"
  /\ \A p \in Q : (\A o \in Q : ended[o] <= ended[p]) => s = target[p]

\* Time: the ticks are the starts and the commits, and nothing is loaded before
\* the start.
TimeInv ==
  /\ \A q \in Requests : vpc[q] # "idle" => began[q] \in 1 .. clock
  /\ \A q \in Requests : vpc[q] = "committed" => ended[q] \in 1 .. clock /\ began[q] < ended[q]
  /\ \A p, q \in Requests : p # q /\ vpc[p] # "idle" /\ vpc[q] # "idle" => began[p] # began[q]
  /\ \A q \in Requests : vpc[q] = "idle" => resolved[q] = {}

\* A trail has the events of those that committed and no others; the status is
\* what the last of them asked for, and a request whose transaction overlaps
\* no other's has loaded what the ones before it left.
TrailInv(r) ==
  /\ trail[r] = {Event(q, r) : q \in DecidedOn(r)}
  /\ LastAsked(DecidedOn(r), status[r])
  /\ (trail[r] = {} /\ status[r] = "PENDING") \/ \E e \in trail[r] : status[r] = e.to
  /\ \A q \in Requests : vpc[q] = "open" /\ r \in resolved[q] =>
       ((\A p \in DecidedOn(r) : ended[p] < began[q]) => loaded[q][r].status = status[r])
  /\ \A q \in DecidedOn(r) :
       (\A p \in Preceding(q, r) : ended[p] < began[q]) => LastAsked(Preceding(q, r), loaded[q][r].status)

VerifInv == VerificationTypeOK /\ TimeInv /\ \A r \in Reports : TrailInv(r)

\* Time only goes on.
LEMMA TimeKept ==
  ASSUME VerificationTypeOK, TimeInv, [VerificationNext]_verificationVars
  PROVE  TimeInv'
<1> USE DEF requestVars, timeVars
<1>0. /\ clock \in Nat /\ began \in [Requests -> Nat] /\ ended \in [Requests -> Nat]
      /\ vpc \in [Requests -> {"idle", "open", "committed", "refused"}]
      /\ resolved \in [Requests -> SUBSET Reports]
  BY DEF VerificationTypeOK
<1>1. ASSUME NEW q \in Requests, NEW S \in SUBSET Reports, NEW to \in Statuses, Open(q, S, to)
      PROVE  TimeInv'
  <2>1. /\ clock' = clock + 1 /\ ended' = ended /\ resolved' = resolved
        /\ \A p \in Requests : /\ vpc'[p] = IF p = q THEN "open" ELSE vpc[p]
                               /\ began'[p] = IF p = q THEN clock + 1 ELSE began[p]
    BY <1>0, <1>1 DEF Open
  <2>2. \A p \in Requests : vpc'[p] # "idle" => began'[p] \in 1 .. clock'
    BY <1>0, <2>1 DEF TimeInv
  <2>3. \A p \in Requests : vpc'[p] = "committed" => ended'[p] \in 1 .. clock' /\ began'[p] < ended'[p]
    BY <1>0, <2>1 DEF TimeInv
  <2>4. \A p, o \in Requests : p # o /\ vpc'[p] # "idle" /\ vpc'[o] # "idle" => began'[p] # began'[o]
    BY <1>0, <2>1 DEF TimeInv
  <2>5. \A p \in Requests : vpc'[p] = "idle" => resolved'[p] = {}
    BY <2>1 DEF TimeInv
  <2> QED
    BY <2>2, <2>3, <2>4, <2>5, Zenon DEF TimeInv
<1>2. ASSUME NEW q \in Requests, NEW r \in Reports, Load(q, r)
      PROVE  TimeInv'
  <2>1. /\ clock' = clock /\ ended' = ended /\ began' = began
        /\ \A p \in Requests : vpc'[p] # vpc[p] => vpc[p] = "open" /\ vpc'[p] = "refused"
        /\ \A p \in Requests : vpc[p] = "idle" => resolved'[p] = resolved[p]
    BY <1>0, <1>2 DEF Load
  <2> QED
    BY <2>1 DEF TimeInv
<1>3. ASSUME NEW q \in Requests, CommitChanges(q)
      PROVE  TimeInv'
  <2>1. /\ clock' = clock + 1 /\ began' = began /\ resolved' = resolved /\ vpc[q] = "open"
        /\ \A p \in Requests : /\ vpc'[p] = IF p = q THEN "committed" ELSE vpc[p]
                               /\ ended'[p] = IF p = q THEN clock + 1 ELSE ended[p]
    BY <1>0, <1>3 DEF CommitChanges
  <2>2. \A p \in Requests : vpc'[p] # "idle" => began'[p] \in 1 .. clock'
    BY <1>0, <2>1 DEF TimeInv
  <2>3. \A p \in Requests : vpc'[p] = "committed" => ended'[p] \in 1 .. clock' /\ began'[p] < ended'[p]
    BY <1>0, <2>1 DEF TimeInv
  <2>4. \A p, o \in Requests : p # o /\ vpc'[p] # "idle" /\ vpc'[o] # "idle" => began'[p] # began'[o]
    BY <1>0, <2>1 DEF TimeInv
  <2>5. \A p \in Requests : vpc'[p] = "idle" => resolved'[p] = {}
    BY <2>1 DEF TimeInv
  <2> QED
    BY <2>2, <2>3, <2>4, <2>5, Zenon DEF TimeInv
<1>4. ASSUME NEW q \in Requests, RollBackChanges(q)
      PROVE  TimeInv'
  <2>1. /\ clock' = clock /\ ended' = ended /\ began' = began /\ resolved' = resolved
        /\ \A p \in Requests : vpc'[p] # vpc[p] => vpc[p] = "open" /\ vpc'[p] = "refused"
    BY <1>0, <1>4 DEF RollBackChanges
  <2> QED
    BY <2>1 DEF TimeInv
<1>5. CASE UNCHANGED <<vpc, resolved, clock, began, ended>>
  BY <1>5 DEF TimeInv
<1> QED
  BY <1>1, <1>2, <1>3, <1>4, <1>5 DEF VerificationNext, Request, PipelineUpdates, verificationVars

\* A step that commits nothing leaves alone what the trail is made of.
Quietly(q) ==
  /\ UNCHANGED <<status, trail, ended>> /\ vpc[q] # "committed" /\ vpc'[q] # "committed"
  /\ \A p \in Requests \ {q} : /\ vpc'[p] = vpc[p] /\ target'[p] = target[p] /\ chosen'[p] = chosen[p]
                               /\ resolved'[p] = resolved[p] /\ loaded'[p] = loaded[p] /\ began'[p] = began[p]

LEMMA QuietKeeps ==
  ASSUME NEW q \in Requests, Quietly(q), NEW r \in Reports, TrailInv(r),
         vpc'[q] = "open" /\ r \in resolved'[q] =>
           ((\A p \in DecidedOn(r) : ended[p] < began'[q]) => loaded'[q][r].status = status[r])
  PROVE  TrailInv(r)'
<1>1. DecidedOn(r)' = DecidedOn(r) /\ q \notin DecidedOn(r)
  BY DEF Quietly, DecidedOn
<1>2. \A p \in DecidedOn(r) : /\ Event(p, r)' = Event(p, r) /\ Preceding(p, r)' = Preceding(p, r) /\ target'[p] = target[p]
                            /\ began'[p] = began[p] /\ loaded'[p] = loaded[p]
  <2>1. DecidedOn(r) \subseteq Requests \ {q}
    BY <1>1 DEF DecidedOn
  <2> QED
    BY <1>1, <2>1 DEF Quietly, Event, Preceding
<1>3. trail' = trail /\ status' = status /\ ended' = ended
  BY DEF Quietly
<1>4. trail'[r] = {Event(p, r)' : p \in DecidedOn(r)'}
  BY <1>1, <1>2, <1>3 DEF TrailInv
<1>5. ASSUME NEW Q \in SUBSET DecidedOn(r), NEW s, LastAsked(Q, s)
      PROVE  /\ Q = {} => s = "PENDING"
             /\ \A p \in Q : (\A o \in Q : ended'[o] <= ended'[p]) => s = target'[p]
  <2>1. \A p \in Q : target'[p] = target[p]
    BY <1>2
  <2> QED
    BY <1>3, <1>5, <2>1 DEF LastAsked
<1>6. LastAsked(DecidedOn(r), status[r])'
  <2>1. LastAsked(DecidedOn(r), status[r])
    BY DEF TrailInv
  <2> QED
    BY <1>1, <1>3, <1>5, <2>1 DEF LastAsked
<1>7. ASSUME NEW p \in Requests, vpc'[p] = "open", r \in resolved'[p],
             \A o \in DecidedOn(r)' : ended'[o] < began'[p]
      PROVE  loaded'[p][r].status = status'[r]
  <2>1. CASE p = q
    BY <1>1, <1>3, <1>7, <2>1
  <2>2. CASE p # q
    <3>1. /\ vpc[p] = "open" /\ r \in resolved[p] /\ loaded'[p] = loaded[p]
          /\ \A o \in DecidedOn(r) : ended[o] < began[p]
      BY <1>1, <1>3, <1>7, <2>2 DEF Quietly
    <3> QED
      BY <1>3, <3>1 DEF TrailInv
  <2> QED
    BY <2>1, <2>2
<1>8. ASSUME NEW p \in DecidedOn(r)', \A o \in Preceding(p, r)' : ended'[o] < began'[p]
      PROVE  LastAsked(Preceding(p, r), loaded[p][r].status)'
  <2>1. /\ p \in DecidedOn(r) /\ Preceding(p, r)' = Preceding(p, r) /\ began'[p] = began[p] /\ loaded'[p] = loaded[p]
    BY <1>1, <1>2
  <2>2. LastAsked(Preceding(p, r), loaded[p][r].status)
    BY <1>3, <1>8, <2>1 DEF TrailInv
  <2>3. Preceding(p, r) \in SUBSET DecidedOn(r)
    BY DEF Preceding
  <2>4. PICK B \in SUBSET DecidedOn(r) : B = Preceding(p, r)
    BY <2>3
  <2>5. PICK s : s = loaded[p][r].status
    OBVIOUS
  <2>6. Preceding(p, r)' = B /\ loaded'[p][r].status = s /\ LastAsked(B, s)
    BY <2>1, <2>2, <2>4, <2>5
  <2>7. /\ B = {} => s = "PENDING"
        /\ \A o \in B : (\A x \in B : ended'[x] <= ended'[o]) => s = target'[o]
    BY <1>5, <2>6
  <2> QED
    BY <2>6, <2>7 DEF LastAsked
<1>9. (trail'[r] = {} /\ status'[r] = "PENDING") \/ \E e \in trail'[r] : status'[r] = e.to
  BY <1>3 DEF TrailInv
<1> QED
  BY <1>4, <1>6, <1>7, <1>8, <1>9 DEF TrailInv

\* A commit adds the last event, and what it loaded counts only when nobody
\* committed since it began.
LEMMA CommitKeepsTrail ==
  ASSUME VerifInv, NEW q \in Requests, CommitChanges(q), NEW r \in Reports
  PROVE  TrailInv(r)'
<1>1. VerificationTypeOK /\ TimeInv /\ TrailInv(r)
  BY DEF VerifInv
<1>2. /\ vpc[q] = "open" /\ resolved[q] = chosen[q] /\ vpc'[q] = "committed" /\ ended'[q] = clock + 1 /\ q \notin DecidedOn(r)
      /\ \A p \in Requests \ {q} : vpc'[p] = vpc[p] /\ ended'[p] = ended[p]
      /\ target' = target /\ chosen' = chosen /\ resolved' = resolved /\ loaded' = loaded /\ began' = began
      /\ status'[r] = IF r \in chosen[q] THEN target[q] ELSE status[r]
      /\ trail'[r] = IF r \in chosen[q] THEN trail[r] \cup {Event(q, r)} ELSE trail[r]
  BY <1>1 DEF CommitChanges, VerificationTypeOK, DecidedOn
<1>3. /\ \A p \in DecidedOn(r) : p # q /\ p \in Requests /\ ended'[p] = ended[p] /\ ended[p] \in 1 .. clock
      /\ clock \in Nat
  BY <1>1, <1>2 DEF DecidedOn, TimeInv, VerificationTypeOK
<1>4. \A p \in Requests : Event(p, r)' = Event(p, r)
  BY <1>2 DEF Event
<1>5. CASE r \in chosen[q]
  <2>1. DecidedOn(r)' = DecidedOn(r) \cup {q}
    BY <1>2, <1>5 DEF DecidedOn
  <2>2. trail'[r] = {Event(p, r)' : p \in DecidedOn(r)'}
    BY <1>1, <1>2, <1>3, <1>4, <1>5, <2>1 DEF TrailInv
  <2>3. LastAsked(DecidedOn(r), status[r])'
    <3>1. ASSUME NEW p \in DecidedOn(r)', \A o \in DecidedOn(r)' : ended'[o] <= ended'[p]
          PROVE  status'[r] = target'[p]
      <4>1. p = q
        BY <1>2, <1>3, <2>1, <3>1
      <4> QED
        BY <1>2, <1>5, <4>1
    <3> QED
      BY <2>1, <3>1 DEF LastAsked
  <2>4. \E e \in trail'[r] : status'[r] = e.to
    <3>1. Event(q, r).to = target[q] /\ Event(q, r) \in trail'[r]
      BY <1>2, <1>5 DEF Event
    <3> QED
      BY <1>2, <1>5, <3>1
  <2>5. ASSUME NEW p \in Requests, vpc'[p] = "open", \A o \in DecidedOn(r)' : ended'[o] < began'[p]
        PROVE  FALSE
    <3>1. p # q /\ vpc[p] = "open"
      BY <1>2, <2>5
    <3>2. began[p] \in 1 .. clock
      BY <1>1, <3>1 DEF TimeInv
    <3> QED
      BY <1>2, <1>3, <2>1, <2>5, <3>2
  <2>6. ASSUME NEW p \in DecidedOn(r)', \A o \in Preceding(p, r)' : ended'[o] < began'[p]
        PROVE  LastAsked(Preceding(p, r), loaded[p][r].status)'
    <3>1. CASE p = q
      <4>1. Preceding(q, r)' = DecidedOn(r)
        BY <1>2, <1>3, <2>1 DEF Preceding
      <4>2. loaded[q][r].status = status[r]
        BY <1>1, <1>2, <1>3, <1>5, <2>6, <3>1, <4>1 DEF TrailInv
      <4>3. LastAsked(DecidedOn(r), loaded[q][r].status)
        BY <1>1, <4>2 DEF TrailInv
      <4> QED
        BY <1>2, <1>3, <3>1, <4>1, <4>3 DEF LastAsked
    <3>2. CASE p \in DecidedOn(r)
      <4>1. Preceding(p, r)' = Preceding(p, r)
        BY <1>2, <1>3, <2>1, <3>2 DEF Preceding
      <4>2. \A o \in Preceding(p, r) : ended'[o] = ended[o]
        BY <1>3 DEF Preceding
      <4>3. LastAsked(Preceding(p, r), loaded[p][r].status)
        BY <1>1, <1>2, <2>6, <3>2, <4>1, <4>2 DEF TrailInv
      <4> QED
        BY <1>2, <4>1, <4>2, <4>3 DEF LastAsked
    <3> QED
      BY <2>1, <3>1, <3>2
  <2> QED
    BY <2>2, <2>3, <2>4, <2>5, <2>6 DEF TrailInv
<1>6. CASE r \notin chosen[q]
  <2>1. DecidedOn(r)' = DecidedOn(r)
    BY <1>2, <1>6 DEF DecidedOn
  <2>2. trail'[r] = {Event(p, r)' : p \in DecidedOn(r)'} /\ trail'[r] = trail[r] /\ status'[r] = status[r]
    BY <1>1, <1>2, <1>3, <1>4, <1>6, <2>1 DEF TrailInv
  <2>3. LastAsked(DecidedOn(r), status[r])'
    BY <1>1, <1>2, <1>3, <2>1, <2>2 DEF TrailInv, LastAsked
  <2>4. (trail'[r] = {} /\ status'[r] = "PENDING") \/ \E e \in trail'[r] : status'[r] = e.to
    BY <1>1, <2>2 DEF TrailInv
  <2>5. ASSUME NEW p \in Requests, vpc'[p] = "open", r \in resolved'[p],
               \A o \in DecidedOn(r)' : ended'[o] < began'[p]
        PROVE  loaded'[p][r].status = status'[r]
    <3>1. p # q /\ vpc[p] = "open" /\ \A o \in DecidedOn(r) : ended[o] < began[p]
      BY <1>2, <1>3, <2>1, <2>5
    <3> QED
      BY <1>1, <1>2, <2>2, <2>5, <3>1 DEF TrailInv
  <2>6. ASSUME NEW p \in DecidedOn(r)', \A o \in Preceding(p, r)' : ended'[o] < began'[p]
        PROVE  LastAsked(Preceding(p, r), loaded[p][r].status)'
    <3>1. Preceding(p, r)' = Preceding(p, r) /\ p \in DecidedOn(r)
      BY <1>3, <2>1, <2>6 DEF Preceding
    <3>2. \A o \in Preceding(p, r) : ended'[o] = ended[o]
      BY <1>3 DEF Preceding
    <3>3. LastAsked(Preceding(p, r), loaded[p][r].status)
      BY <1>1, <1>2, <2>6, <3>1, <3>2 DEF TrailInv
    <3> QED
      BY <1>2, <3>1, <3>2, <3>3 DEF LastAsked
  <2> QED
    BY <2>2, <2>3, <2>4, <2>5, <2>6 DEF TrailInv
<1> QED
  BY <1>5, <1>6

\* The invariant is inductive.
LEMMA VerifInvHolds == VerificationSpec => []VerifInv
<1>1. VerificationInit => TimeInv /\ \A r \in Reports : TrailInv(r)
  BY DEF VerificationInit, TimeInv, TrailInv, DecidedOn, Preceding, LastAsked
<1>2. VerificationTypeOK /\ VerificationTypeOK' /\ VerifInv /\ [VerificationNext]_verificationVars => VerifInv'
  <2> SUFFICES ASSUME VerificationTypeOK, VerificationTypeOK', VerifInv, [VerificationNext]_verificationVars,
                      NEW r \in Reports
               PROVE  TrailInv(r)'
    BY TimeKept DEF VerifInv
  <2>0. VerificationTypeOK /\ TimeInv /\ TrailInv(r)
    BY DEF VerifInv
  <2>1. ASSUME NEW q \in Requests, NEW S \in SUBSET Reports, NEW to \in Statuses, Open(q, S, to)
        PROVE  TrailInv(r)'
    <3>1. Quietly(q)
      BY <2>0, <2>1 DEF Open, Quietly, VerificationTypeOK
    <3>2. resolved'[q] = {}
      BY <2>0, <2>1 DEF Open, TimeInv
    <3> QED
      BY <2>0, <3>1, <3>2, QuietKeeps
  <2>2. ASSUME NEW q \in Requests, NEW s \in Reports, Load(q, s)
        PROVE  TrailInv(r)'
    <3>1. Quietly(q)
      BY <2>0, <2>2 DEF Load, Quietly, VerificationTypeOK, timeVars
    <3>2. /\ vpc[q] = "open" /\ began' = began /\ resolved'[q] = resolved[q] \cup {s}
          /\ loaded'[q][s].status = status[s] /\ (r # s => loaded'[q][r] = loaded[q][r])
      BY <2>0, <2>2 DEF Load, VerificationTypeOK, timeVars
    <3>3. r \in resolved'[q] =>
            ((\A p \in DecidedOn(r) : ended[p] < began'[q]) => loaded'[q][r].status = status[r])
      BY <2>0, <3>2 DEF TrailInv
    <3> QED
      BY <2>0, <3>1, <3>3, QuietKeeps
  <2>3. ASSUME NEW q \in Requests, CommitChanges(q)
        PROVE  TrailInv(r)'
    BY <2>3, CommitKeepsTrail
  <2>4. ASSUME NEW q \in Requests, RollBackChanges(q)
        PROVE  TrailInv(r)'
    <3>1. Quietly(q) /\ vpc'[q] = "refused"
      BY <2>0, <2>4 DEF RollBackChanges, Quietly, VerificationTypeOK, timeVars
    <3> QED
      BY <2>0, <3>1, QuietKeeps
  <2>5. CASE UNCHANGED <<status, trail, requestVars, timeVars>>
    <3>1. /\ UNCHANGED <<status, trail, vpc, target, chosen, resolved, loaded, began, ended>>
      BY <2>5 DEF requestVars, timeVars
    <3> QED
      BY <2>0, <3>1 DEF TrailInv, DecidedOn, Preceding, LastAsked, Event
  <2> QED
    BY <2>1, <2>2, <2>3, <2>4, <2>5 DEF VerificationNext, Request, PipelineUpdates, verificationVars
<1>3. VerificationSpec => []VerificationTypeOK
  BY VerificationTypes
<1>4. VerificationTypeOK /\ TimeInv /\ (\A r \in Reports : TrailInv(r)) => VerifInv
  BY DEF VerifInv
<1> QED
  BY <1>1, <1>2, <1>3, <1>4, PTL DEF VerificationSpec

\* What the invariant makes of the trail as it is shown, where the decisions
\* came in turn.
LEMMA ShownInTurn ==
  ASSUME VerifInv, NEW r \in Reports, InTurn(r)
  PROVE  /\ LeadTo(trail[r], status[r])
         /\ \A f \in trail[r] : LeadTo({e \in trail[r] : e.at < f.at}, f.from)
<1> DEFINE D == DecidedOn(r)
<1>1. /\ trail[r] = {Event(q, r) : q \in D} /\ LastAsked(D, status[r])
      /\ \A q \in D : (\A p \in Preceding(q, r) : ended[p] < began[q]) => LastAsked(Preceding(q, r), loaded[q][r].status)
  BY DEF VerifInv, TrailInv
<1>2. \A q \in D : /\ q \in Requests /\ began[q] \in Nat /\ ended[q] \in Nat /\ began[q] < ended[q]
  BY DEF VerifInv, TimeInv, DecidedOn, VerificationTypeOK
<1>3. \A p, q \in D : p # q => began[p] # began[q]
  BY DEF VerifInv, TimeInv, DecidedOn
<1>4. \A q \in D : /\ Event(q, r).by = q /\ Event(q, r).at = began[q] /\ Event(q, r).to = target[q]
                   /\ Event(q, r).from = loaded[q][r].status /\ Event(q, r) \in trail[r]
  BY <1>1 DEF Event
<1>5. \A p, q \in D : began[p] < began[q] => ended[p] < began[q]
  BY <1>4 DEF InTurn
<1>6. \A p, q \in D : ended[p] < ended[q] <=> began[p] < began[q]
  BY <1>2, <1>3, <1>5
<1>7. ASSUME NEW Q \in SUBSET D, NEW s, LastAsked(Q, s)
      PROVE  LeadTo({Event(q, r) : q \in Q}, s)
  <2>1. ASSUME NEW q \in Q, \A p \in Q : Event(p, r).at <= Event(q, r).at
        PROVE  s = Event(q, r).to
    <3>1. \A p \in Q : ended[p] <= ended[q]
      BY <1>2, <1>4, <1>6, <2>1
    <3> QED
      BY <1>4, <1>7, <3>1 DEF LastAsked
  <2> QED
    BY <1>7, <2>1 DEF LeadTo, LastAsked
<1>8. ASSUME NEW q \in D
      PROVE  LeadTo({e \in trail[r] : e.at < Event(q, r).at}, Event(q, r).from)
  <2>1. \A p \in Preceding(q, r) : ended[p] < began[q]
    BY <1>5, <1>6 DEF Preceding
  <2>2. LastAsked(Preceding(q, r), loaded[q][r].status) /\ Preceding(q, r) \in SUBSET D
    BY <1>1, <2>1 DEF Preceding
  <2>3. {e \in trail[r] : e.at < Event(q, r).at} = {Event(p, r) : p \in Preceding(q, r)}
    BY <1>1, <1>4, <1>6 DEF Preceding
  <2> QED
    BY <1>4, <1>7, <2>2, <2>3
<1> QED
  BY <1>1, <1>7, <1>8

\* The audit trail, in the order it is shown in, explains the status of every
\* report whose decisions did not overlap; every other report has a status
\* that was decided.
THEOREM TrailExplains == VerificationSpec => []TrailExplainsStatus
<1>1. VerifInv => TrailExplainsStatus
  BY ShownInTurn DEF VerifInv, TrailInv, TrailExplainsStatus
<1> QED
  BY <1>1, VerifInvHolds, PTL

-----------------------------------------------------------------------------
\* What an open request may still commit.
StillAllowed ==
  \A q \in Requests : vpc[q] = "open" =>
    \A r \in resolved[q] : Allowed(loaded[q][r].status, target[q])

\* No recorded decision skips the state machine, seen from what its operator
\* was shown.
THEOREM NoDecisionSkips == VerificationSpec => []DecisionsAllowed
<1>1. VerificationInit => StillAllowed /\ DecisionsAllowed
  BY DEF VerificationInit, StillAllowed, DecisionsAllowed
<1>2. VerifInv /\ StillAllowed /\ DecisionsAllowed /\ [VerificationNext]_verificationVars
        => StillAllowed' /\ DecisionsAllowed'
  <2> SUFFICES ASSUME VerifInv, StillAllowed, DecisionsAllowed, [VerificationNext]_verificationVars
               PROVE  StillAllowed' /\ DecisionsAllowed'
    OBVIOUS
  <2>0. VerificationTypeOK /\ TimeInv
    BY DEF VerifInv
  <2>1. ASSUME NEW q \in Requests, NEW S \in SUBSET Reports, NEW to \in Statuses, Open(q, S, to)
        PROVE  StillAllowed' /\ DecisionsAllowed'
    <3>1. /\ trail' = trail /\ resolved' = resolved /\ loaded' = loaded /\ resolved[q] = {}
          /\ \A p \in Requests \ {q} : vpc'[p] = vpc[p] /\ target'[p] = target[p]
      BY <2>0, <2>1 DEF Open, VerificationTypeOK, TimeInv
    <3> QED
      BY <3>1 DEF StillAllowed, DecisionsAllowed
  <2>2. ASSUME NEW q \in Requests, NEW s \in Reports, Load(q, s)
        PROVE  StillAllowed' /\ DecisionsAllowed'
    <3>1. /\ trail' = trail /\ target' = target /\ vpc[q] = "open" /\ (vpc'[q] = "open" => Allowed(status[s], target[q]))
          /\ resolved'[q] = resolved[q] \cup {s} /\ loaded'[q][s].status = status[s]
          /\ \A r \in resolved[q] : loaded'[q][r].status = IF r = s THEN status[s] ELSE loaded[q][r].status
          /\ \A p \in Requests \ {q} : vpc'[p] = vpc[p] /\ resolved'[p] = resolved[p] /\ loaded'[p] = loaded[p]
      BY <2>0, <2>2 DEF Load, VerificationTypeOK
    <3> QED
      BY <3>1 DEF StillAllowed, DecisionsAllowed
  <2>3. ASSUME NEW q \in Requests, CommitChanges(q)
        PROVE  StillAllowed' /\ DecisionsAllowed'
    <3>1. /\ \A p \in Requests : vpc'[p] = "open" => vpc[p] = "open"
          /\ resolved' = resolved /\ loaded' = loaded /\ target' = target
          /\ vpc[q] = "open" /\ resolved[q] = chosen[q]
      BY <2>0, <2>3 DEF CommitChanges, VerificationTypeOK
    <3>2. ASSUME NEW r \in Reports, NEW e \in trail'[r]
          PROVE  Allowed(e.from, e.to)
      <4>1. e \in trail[r] \/ (r \in chosen[q] /\ e = Event(q, r))
        BY <2>0, <2>3, <3>2 DEF CommitChanges, VerificationTypeOK
      <4> QED
        BY <3>1, <4>1 DEF StillAllowed, DecisionsAllowed, Event
    <3> QED
      BY <3>1, <3>2 DEF StillAllowed, DecisionsAllowed
  <2>4. ASSUME NEW q \in Requests, RollBackChanges(q)
        PROVE  StillAllowed' /\ DecisionsAllowed'
    BY <2>0, <2>4 DEF RollBackChanges, VerificationTypeOK, StillAllowed, DecisionsAllowed
  <2>5. CASE UNCHANGED <<trail, vpc, target, resolved, loaded>>
    BY <2>5 DEF StillAllowed, DecisionsAllowed
  <2> QED
    BY <2>1, <2>2, <2>3, <2>4, <2>5 DEF VerificationNext, Request, PipelineUpdates, verificationVars, requestVars
<1> QED
  BY <1>1, <1>2, VerifInvHolds, PTL DEF VerificationSpec

-----------------------------------------------------------------------------
(***************************************************************************)
(* Retention.  Inside a cycle the tables are in pieces.  The invariant     *)
(* therefore says of the rows together with the ones the transaction has   *)
(* cut what the property says of the rows: a rollback joins the two.  A    *)
(* commit gives up the second, for which it needs that nothing cut refers  *)
(* to a live row outside the current chunk.                                *)
(***************************************************************************)
Rows == [live : SUBSET Records, trail : SUBSET Records, clusters : SUBSET Records,
         members : SUBSET (Records \X Records)]

RetentionTypeOK ==
  /\ rstatus \in [Records -> {"PENDING", "VERIFIED", "REJECTED"}]
  /\ {live, expired, rtrail, rclusters, archive, rtodo, chunk, copied, rlate}
       \subseteq SUBSET Records
  /\ members \in SUBSET (Records \X Records)
  /\ rpc \in {"idle", "select", "chunk", "trail", "members", "clusters", "reports"}
  /\ cut \in Rows

\* What is yet to be deleted is there.
WorkList ==
  /\ rtodo \cup chunk \subseteq live
  /\ rtodo \cap chunk = {}
  /\ rpc \in {"idle", "select", "chunk"} => chunk = {}
  /\ rpc \in {"idle", "select"} => rtodo = {} /\ cut = Nothing
  /\ rpc = "idle" => copied = {}

\* The copies: of what, and where it is on the work list.
Copies ==
  /\ archive \cap (live \cup cut.live) \subseteq copied
  /\ copied \subseteq archive \cap (live \cup cut.live)
  /\ rpc = "select" => copied \subseteq expired
  /\ rpc # "select" => copied \cap live \subseteq rtodo \cup chunk

\* What has been or will be pruned although it is verified.
Accounted ==
  {r \in (Records \ live) \cup rtodo \cup chunk : rstatus[r] = "VERIFIED"}
    \subseteq archive \cup rlate

\* The trail, with and without what was cut.
TrailInStep ==
  /\ rtrail \subseteq live
  /\ rtrail \cup cut.trail = {r \in live \cup cut.live : rstatus[r] # "PENDING"}
  /\ cut.trail \cap live \subseteq chunk

\* The clusters, with and without what was cut.
ClustersInStep ==
  /\ rclusters \subseteq live
  /\ cut.clusters \subseteq live \cup cut.live
  /\ \A m \in members : m[1] \in rclusters /\ m[2] \in live
  /\ \A m \in cut.members : /\ m[1] \in rclusters \cup cut.clusters
                            /\ m[2] \in live \cup cut.live

RetentionInv == RetentionTypeOK /\ WorkList /\ Copies /\ Accounted /\ TrailInStep /\ ClustersInStep

LEMMA RetentionImplies == RetentionInv => PrunedWhole
<1> SUFFICES ASSUME RetentionInv
             PROVE  PrunedWhole
  OBVIOUS
<1>1. {r \in Pruned : rstatus[r] = "VERIFIED"} \subseteq archive \cup rlate
  BY DEF RetentionInv, Accounted, Pruned
<1>2. ASSUME rpc = "idle"
      PROVE  /\ archive \cap live = {}
             /\ {r \in live : rstatus[r] # "PENDING"} = rtrail
             /\ \A m \in members : m[1] \in rclusters /\ {m[1], m[2]} \subseteq live
  BY <1>2 DEF RetentionInv, WorkList, Copies, TrailInStep, ClustersInStep, Nothing
<1> QED
  BY <1>1, <1>2 DEF PrunedWhole

LEMMA RetentionStart == RetentionInit => RetentionInv
BY DEF RetentionInit, RetentionInv, RetentionTypeOK, Rows, WorkList, Copies, Accounted, TrailInStep, ClustersInStep, Nothing

LEMMA AgeInv ==
  ASSUME RetentionInv, NEW r \in Records, Age(r)
  PROVE  RetentionInv'
BY DEF Age, cycle, RetentionInv, RetentionTypeOK, WorkList, Copies, Accounted, TrailInStep, ClustersInStep

LEMMA DecideReportInv ==
  ASSUME RetentionInv, NEW r \in Records, DecideReport(r)
  PROVE  RetentionInv'
<1>1. PICK decision \in {"VERIFIED", "REJECTED"} :
        /\ rstatus' = [rstatus EXCEPT ![r] = decision]
        /\ rlate' = IF rpc # "idle" /\ decision = "VERIFIED" THEN rlate \cup {r} ELSE rlate
  BY DEF DecideReport
<1>2. /\ r \in live /\ rstatus[r] = "PENDING" /\ rtrail' = rtrail \cup {r}
      /\ UNCHANGED <<live, expired, rclusters, members, archive, rpc, rtodo, chunk, cut, copied>>
  BY DEF DecideReport, cycle
<1>3. RetentionTypeOK'
  BY <1>1, <1>2 DEF RetentionInv, RetentionTypeOK
<1>4. WorkList' /\ Copies' /\ ClustersInStep'
  BY <1>2 DEF RetentionInv, WorkList, Copies, ClustersInStep
<1>5. Accounted'
  BY <1>1, <1>2 DEF RetentionInv, RetentionTypeOK, Accounted, WorkList
<1>6. TrailInStep'
  BY <1>1, <1>2 DEF RetentionInv, RetentionTypeOK, TrailInStep
<1> QED
  BY <1>3, <1>4, <1>5, <1>6 DEF RetentionInv

LEMMA JoinInv ==
  ASSUME RetentionInv, NEW p \in Records, NEW r \in Records, Join(p, r)
  PROVE  RetentionInv'
<1>1. /\ {p, r} \subseteq live
      /\ rclusters' = rclusters \cup {p} /\ members' = members \cup {<<p, r>>}
      /\ UNCHANGED <<rstatus, live, expired, rtrail, archive, rpc, rtodo, chunk, cut, copied, rlate>>
  BY DEF Join, cycle
<1>2. RetentionTypeOK'
  BY <1>1 DEF RetentionInv, RetentionTypeOK
<1>3. WorkList' /\ Copies' /\ Accounted' /\ TrailInStep'
  BY <1>1 DEF RetentionInv, WorkList, Copies, Accounted, TrailInStep
<1>4. ClustersInStep'
  BY <1>1 DEF RetentionInv, ClustersInStep
<1> QED
  BY <1>2, <1>3, <1>4 DEF RetentionInv

LEMMA SelectionInv ==
  ASSUME RetentionInv, Archive \/ SelectExpired \/ NextChunk
  PROVE  RetentionInv'
<1>1. CASE Archive
  BY <1>1 DEF Archive, RetentionInv, RetentionTypeOK, WorkList, Copies, Accounted, TrailInStep, ClustersInStep, Nothing
<1>2. CASE SelectExpired
  BY <1>2 DEF SelectExpired, rows, RetentionInv, RetentionTypeOK, WorkList, Copies, Accounted, TrailInStep, ClustersInStep, Nothing
<1>3. CASE NextChunk
  <2>1. PICK ids \in SUBSET rtodo : chunk' = ids /\ rtodo' = rtodo \ ids
    BY <1>3 DEF NextChunk
  <2> QED
    BY <1>3, <2>1 DEF NextChunk, rows, RetentionInv, RetentionTypeOK, WorkList, Copies, Accounted, TrailInStep, ClustersInStep
<1> QED
  BY <1>1, <1>2, <1>3

\* A statement that deletes rows of a chunk moves them into cut.
LEMMA DeletionInv ==
  ASSUME RetentionInv, DeleteTrail \/ DeleteMembers \/ DeleteClusters \/ DeleteReports
  PROVE  RetentionInv'
<1>1. CASE DeleteTrail
  <2>1. cut' = [live |-> cut.live, trail |-> cut.trail \cup (rtrail \cap chunk),
                clusters |-> cut.clusters, members |-> cut.members]
    BY <1>1 DEF DeleteTrail, RetentionInv, RetentionTypeOK, Rows
  <2> QED
    BY <1>1, <2>1 DEF DeleteTrail, RetentionInv, RetentionTypeOK, Rows, WorkList, Copies, Accounted, TrailInStep, ClustersInStep
<1>2. CASE DeleteMembers
  <2> DEFINE gone == {m \in members : m[2] \in chunk}
  <2>1. cut' = [live |-> cut.live, trail |-> cut.trail,
                clusters |-> cut.clusters, members |-> cut.members \cup gone]
    BY <1>2 DEF DeleteMembers, RetentionInv, RetentionTypeOK, Rows
  <2>2. /\ rpc = "members" /\ rpc' = "clusters" /\ members' = members \ gone
        /\ UNCHANGED <<rstatus, live, expired, rtrail, rclusters, archive, rtodo, chunk, copied, rlate>>
    BY <1>2 DEF DeleteMembers
  <2>3. RetentionTypeOK'
    BY <2>1, <2>2 DEF RetentionInv, RetentionTypeOK, Rows
  <2>4. WorkList' /\ Copies' /\ Accounted' /\ TrailInStep'
    BY <2>1, <2>2 DEF RetentionInv, WorkList, Copies, Accounted, TrailInStep
  <2>5. ClustersInStep'
    BY <2>1, <2>2 DEF RetentionInv, WorkList, ClustersInStep
  <2> QED
    BY <2>3, <2>4, <2>5 DEF RetentionInv
<1>3. CASE DeleteClusters
  <2> DEFINE gone == {m \in members : m[1] \in chunk}
  <2>1. cut' = [live |-> cut.live, trail |-> cut.trail,
                clusters |-> cut.clusters \cup (rclusters \cap chunk),
                members |-> cut.members \cup gone]
    BY <1>3 DEF DeleteClusters, RetentionInv, RetentionTypeOK, Rows
  <2>2. /\ rpc = "clusters" /\ rpc' = "reports" /\ members' = members \ gone
        /\ rclusters' = rclusters \ chunk
        /\ UNCHANGED <<rstatus, live, expired, rtrail, archive, rtodo, chunk, copied, rlate>>
    BY <1>3 DEF DeleteClusters
  <2>3. RetentionTypeOK'
    BY <2>1, <2>2 DEF RetentionInv, RetentionTypeOK, Rows
  <2>4. WorkList' /\ Copies' /\ Accounted' /\ TrailInStep'
    BY <2>1, <2>2 DEF RetentionInv, WorkList, Copies, Accounted, TrailInStep
  <2>5. ClustersInStep'
    BY <2>1, <2>2 DEF RetentionInv, WorkList, ClustersInStep
  <2> QED
    BY <2>3, <2>4, <2>5 DEF RetentionInv
<1>4. CASE DeleteReports
  <2> DEFINE gone == {m \in members : m[2] \in chunk}
  <2>1. cut' = [live |-> cut.live \cup chunk, trail |-> cut.trail,
                clusters |-> cut.clusters, members |-> cut.members \cup gone]
    BY <1>4 DEF DeleteReports, RetentionInv, RetentionTypeOK, Rows
  <2>2. /\ rpc = "reports" /\ rpc' = "chunk" /\ chunk' = {}
        /\ (rtrail \cup rclusters) \cap chunk = {}
        /\ live' = live \ chunk /\ members' = members \ gone
        /\ UNCHANGED <<rstatus, expired, rtrail, rclusters, archive, rtodo, copied, rlate>>
    BY <1>4 DEF DeleteReports, Referenced
  <2>3. RetentionTypeOK'
    BY <2>1, <2>2 DEF RetentionInv, RetentionTypeOK, Rows
  <2>4. WorkList' /\ Copies'
    BY <2>1, <2>2 DEF RetentionInv, WorkList, Copies
  <2>5. Accounted'
    BY <2>1, <2>2 DEF RetentionInv, Accounted
  <2>6. TrailInStep'
    BY <2>1, <2>2 DEF RetentionInv, WorkList, TrailInStep
  <2>7. ClustersInStep'
    <3>1. /\ rclusters' \subseteq live'
          /\ \A m \in members' : m[1] \in rclusters' /\ m[2] \in live'
      BY <2>2 DEF RetentionInv, ClustersInStep
    <3>2. live' \cup cut'.live = live \cup cut.live
      BY <2>1, <2>2 DEF RetentionInv, WorkList
    <3>3. cut'.clusters = cut.clusters /\ cut'.members = cut.members \cup gone
      BY <2>1
    <3> QED
      BY <2>2, <3>1, <3>2, <3>3 DEF RetentionInv, ClustersInStep
  <2> QED
    BY <2>3, <2>4, <2>5, <2>6, <2>7 DEF RetentionInv
<1> QED
  BY <1>1, <1>2, <1>3, <1>4

\* The two ends of a cycle.
LEMMA EndInv ==
  ASSUME RetentionInv, CommitCycle \/ RollBack
  PROVE  RetentionInv'
<1>1. CASE CommitCycle
  BY <1>1 DEF CommitCycle, EndCycle, rows, Nothing, RetentionInv, RetentionTypeOK, Rows, WorkList, Copies, Accounted, TrailInStep, ClustersInStep
<1>2. CASE RollBack
  BY <1>2 DEF RollBack, EndCycle, Nothing, RetentionInv, RetentionTypeOK, Rows, WorkList, Copies, Accounted, TrailInStep, ClustersInStep
<1> QED
  BY <1>1, <1>2

\* Pruning loses nothing that was verified in time and leaves nothing in pieces.
THEOREM PruningIsWhole == RetentionSpec => []PrunedWhole
<1>1. RetentionInv /\ [RetentionNext]_retentionVars => RetentionInv'
  <2> SUFFICES ASSUME RetentionInv, [RetentionNext]_retentionVars
               PROVE  RetentionInv'
    OBVIOUS
  <2>1. CASE \E r \in Records : Age(r) \/ DecideReport(r)
    BY <2>1, AgeInv, DecideReportInv
  <2>2. CASE \E p, r \in Records : Join(p, r)
    BY <2>2, JoinInv
  <2>3. CASE Cycle
    BY <2>3, SelectionInv, DeletionInv, EndInv DEF Cycle, CycleRejected
  <2>4. CASE CycleFails
    BY <2>4, EndInv DEF CycleFails
  <2>5. CASE UNCHANGED retentionVars
    BY <2>5 DEF retentionVars, rows, cycle, RetentionInv, RetentionTypeOK, WorkList, Copies, Accounted, TrailInStep, ClustersInStep
  <2> QED
    BY <2>1, <2>2, <2>3, <2>4, <2>5 DEF RetentionNext
<1> QED
  BY <1>1, RetentionStart, RetentionImplies, PTL DEF RetentionSpec
-----------------------------------------------------------------------------
(***************************************************************************)
(* Linking, decisions.  The invariant follows the decided row through a    *)
(* task: read as decided, drafted as decided, committed as decided.        *)
(***************************************************************************)
Shapes ==
  /\ read = [t \in Tasks |-> read[t]]
  /\ draft = [t \in Tasks |-> draft[t]]
  /\ link = [p \in Pairs |-> link[p]]
  /\ decided \subseteq Pairs

\* What a task holds of a pair that an operator decided in time.
ReadDecided(t, p) == read[t] # NothingRead /\ read[t].pair = p => read[t].row.human
DraftDecided(t, p) == p \in DOMAIN draft[t] => draft[t][p].human

DecisionInv ==
  /\ Shapes
  /\ \A p \in decided \ late :
       link[p].human /\ \A t \in Tasks : ReadDecided(t, p) /\ DraftDecided(t, p)

LEMMA LinkingStart == LinkingInit => DecisionInv
BY DEF LinkingInit, DecisionInv, Shapes

\* A task reads the row as it is.
LEMMA ReadInv ==
  ASSUME DecisionInv, NEW t \in Tasks, NEW q \in Pairs, Read(t, q)
  PROVE  DecisionInv'
<1>1. UNCHANGED <<draft, link, decided, late>>
  BY DEF Read, locks, history
<1>2. read' = read \/ read' = [read EXCEPT ![t] = [pair |-> q, row |-> link[q]]]
  BY DEF Read
<1>3. Shapes'
  BY <1>1, <1>2 DEF DecisionInv, Shapes
<1>4. ASSUME NEW p \in decided \ late, NEW u \in Tasks
      PROVE  ReadDecided(u, p)'
  <2>1. read'[u] = read[u] \/ read'[u] = [pair |-> q, row |-> link[q]]
    BY <1>2 DEF DecisionInv, Shapes
  <2> QED
    BY <2>1, <1>4 DEF DecisionInv, ReadDecided, NothingRead
<1> QED
  BY <1>1, <1>3, <1>4 DEF DecisionInv, DraftDecided

\* A task drafts what it has read, if that was decided, and may forget it.
LEMMA WriteInv ==
  ASSUME DecisionInv, NEW t \in Tasks, Write(t)
  PROVE  DecisionInv'
<1> DEFINE q == read[t].pair
<1>1. /\ UNCHANGED <<link, decided, late>> /\ read[t] # NothingRead
      /\ draft' = [draft EXCEPT ![t] = [x \in DOMAIN draft[t] \cup {q} |->
                     IF x = q THEN Rewritten(t, q) ELSE draft[t][x]]]
  BY DEF Write, locks, history
<1>2. read' = read \/ read' = [read EXCEPT ![t] = NothingRead]
  BY DEF Write, Proceed
<1>3. Shapes'
  BY <1>1, <1>2 DEF DecisionInv, Shapes
<1>4. ASSUME NEW p \in decided \ late, NEW u \in Tasks
      PROVE  ReadDecided(u, p)' /\ DraftDecided(u, p)'
  <2>1. read'[u] = read[u] \/ read'[u] = NothingRead
    BY <1>2 DEF DecisionInv, Shapes
  <2>2. ReadDecided(u, p)'
    BY <2>1, <1>4 DEF DecisionInv, ReadDecided, NothingRead
  <2>3. CASE u # t
    <3>1. draft'[u] = draft[u]
      BY <1>1, <2>3 DEF DecisionInv, Shapes
    <3> QED
      BY <2>2, <3>1, <1>4 DEF DecisionInv, DraftDecided
  <2>4. CASE u = t
    <3>1. /\ DOMAIN draft'[t] = DOMAIN draft[t] \cup {q}
          /\ \A x \in DOMAIN draft[t] : x # q => draft'[t][x] = draft[t][x]
          /\ draft'[t][q] = Rewritten(t, q)
      BY <1>1 DEF DecisionInv, Shapes
    <3>2. p = q => Rewritten(t, q).human
      BY <1>1, <1>4 DEF DecisionInv, ReadDecided, Rewritten
    <3> QED
      BY <2>2, <2>4, <3>1, <3>2, <1>4 DEF DecisionInv, DraftDecided
  <2> QED
    BY <2>3, <2>4
<1> QED
  BY <1>1, <1>3, <1>4 DEF DecisionInv

\* A transaction that is lost holds nothing.
LEMMA AgainInv ==
  ASSUME DecisionInv, NEW t \in Tasks, Again(t)
  PROVE  DecisionInv'
<1>1. /\ read' = [read EXCEPT ![t] = NothingRead] /\ draft' = [draft EXCEPT ![t] = NoDraft]
      /\ UNCHANGED <<link, decided, late>>
  BY DEF Again, history
<1>2. Shapes'
  BY <1>1 DEF DecisionInv, Shapes
<1>3. ASSUME NEW p \in decided \ late, NEW u \in Tasks
      PROVE  ReadDecided(u, p)' /\ DraftDecided(u, p)'
  <2>1. \/ read'[u] = NothingRead /\ draft'[u] = NoDraft
        \/ read'[u] = read[u] /\ draft'[u] = draft[u]
    BY <1>1 DEF DecisionInv, Shapes
  <2> QED
    BY <2>1, <1>3 DEF DecisionInv, ReadDecided, DraftDecided, NoDraft
<1> QED
  BY <1>1, <1>2, <1>3 DEF DecisionInv

\* What is committed is what was drafted.
LEMMA CommitLinksInv ==
  ASSUME DecisionInv, NEW t \in Tasks, CommitLinks(t)
  PROVE  DecisionInv'
<1>1. /\ link' = [p \in Pairs |-> IF p \in DOMAIN draft[t] THEN draft[t][p] ELSE link[p]]
      /\ draft' = [draft EXCEPT ![t] = NoDraft]
      /\ UNCHANGED <<read, decided, late>>
  BY DEF CommitLinks, history
<1>2. Shapes'
  BY <1>1 DEF DecisionInv, Shapes
<1>3. ASSUME NEW p \in decided \ late
      PROVE  link'[p].human
  BY <1>1, <1>3 DEF DecisionInv, Shapes, DraftDecided
<1>4. ASSUME NEW p \in decided \ late, NEW u \in Tasks
      PROVE  DraftDecided(u, p)'
  <2>1. draft'[u] = NoDraft \/ draft'[u] = draft[u]
    BY <1>1 DEF DecisionInv, Shapes
  <2> QED
    BY <2>1, <1>4 DEF DecisionInv, DraftDecided, NoDraft
<1> QED
  BY <1>1, <1>2, <1>3, <1>4 DEF DecisionInv, ReadDecided

\* A decision is late, or nobody holds an older row.
LEMMA DecideLinkInv ==
  ASSUME DecisionInv, NEW q \in Pairs, DecideLink(q)
  PROVE  DecisionInv'
<1>1. /\ \A u \in Tasks : q \notin DOMAIN draft[u]
      /\ link' = [link EXCEPT ![q] = [role |-> "REJECTED", human |-> TRUE]]
      /\ decided' = decided \cup {q}
      /\ late' = late \cup {x \in {q} : \E u \in Tasks : read[u].pair = q}
      /\ UNCHANGED <<read, draft>>
  BY DEF DecideLink
<1>2. Shapes'
  BY <1>1 DEF DecisionInv, Shapes
<1>3. ASSUME NEW p \in decided' \ late'
      PROVE  link'[p].human
  BY <1>1, <1>3 DEF DecisionInv, Shapes
<1>4. ASSUME NEW p \in decided' \ late', NEW u \in Tasks
      PROVE  ReadDecided(u, p)' /\ DraftDecided(u, p)'
  BY <1>1, <1>4 DEF DecisionInv, ReadDecided, DraftDecided
<1> QED
  BY <1>2, <1>3, <1>4 DEF DecisionInv

LEMMA OthersInv ==
  ASSUME DecisionInv, UNCHANGED <<read, draft, link, decided, late>>
  PROVE  DecisionInv'
BY DEF DecisionInv, Shapes, ReadDecided, DraftDecided

\* A reference to the report's row ends the insertion it belongs to.
LEMMA ReferInv ==
  ASSUME DecisionInv, NEW t \in Tasks, Refer(t)
  PROVE  DecisionInv'
<1>1. read' = [read EXCEPT ![t] = NothingRead] /\ UNCHANGED <<draft, link, decided, late>>
  BY DEF Refer, Proceed, history
<1>2. Shapes'
  BY <1>1 DEF DecisionInv, Shapes
<1>3. ASSUME NEW p \in decided \ late, NEW u \in Tasks
      PROVE  ReadDecided(u, p)'
  <2>1. read'[u] = read[u] \/ read'[u] = NothingRead
    BY <1>1 DEF DecisionInv, Shapes
  <2> QED
    BY <2>1, <1>3 DEF DecisionInv, ReadDecided
<1> QED
  BY <1>1, <1>2, <1>3 DEF DecisionInv, DraftDecided

\* No recomputation overwrites a decision that it could have seen.
THEOREM DecisionsStand == LinkingSpec => []HumanDecisionStands
<1>1. DecisionInv => HumanDecisionStands
  BY DEF DecisionInv, HumanDecisionStands
<1>2. DecisionInv /\ [LinkingNext]_linkingVars => DecisionInv'
  <2> SUFFICES ASSUME DecisionInv, [LinkingNext]_linkingVars
               PROVE  DecisionInv'
    OBVIOUS
  <2>1. ASSUME NEW t \in Tasks, Ingest(t) \/ Query(t)
        PROVE  DecisionInv'
    BY <2>1, OthersInv DEF Ingest, Query, history
  <2>2. ASSUME NEW t \in Tasks, NEW r \in Incidents, Recompute(t, r)
        PROVE  DecisionInv'
    BY <2>2, OthersInv DEF Recompute, history
  <2>3. ASSUME NEW t \in Tasks, Collide(t) \/ Deadlock(t)
        PROVE  DecisionInv'
    BY <2>3, AgainInv DEF Collide, Deadlock
  <2>4. CASE UNCHANGED linkingVars
    BY <2>4, OthersInv DEF linkingVars, history
  <2> QED
    BY <2>1, <2>2, <2>3, <2>4, ReadInv, WriteInv, ReferInv, CommitLinksInv, DecideLinkInv DEF LinkingNext, Step
<1> QED
  BY <1>1, <1>2, LinkingStart, PTL DEF LinkingSpec
-----------------------------------------------------------------------------
(***************************************************************************)
(* Linking, pairs.  A pair that is due is on the list, in the draft or     *)
(* among the links of one of its two tasks from the moment both have       *)
(* looked: the one that looked later saw the other stored.  Locks play no  *)
(* part in it, and a transaction that is lost looks again.                 *)
(***************************************************************************)
\* The pairs the theorem is about: due to be linked as the scorer says.
Due == {p \in Positives(ByReport \cap ByItem) : ~Demoted(p)}
Settles(p, row) == row.human \/ row.role = Assessment[p].relation

MeetShapes ==
  /\ lpc = [t \in Tasks |-> lpc[t]] /\ todo = [t \in Tasks |-> todo[t]] /\ kept = [t \in Tasks |-> kept[t]]
  /\ read = [t \in Tasks |-> read[t]] /\ draft = [t \in Tasks |-> draft[t]]
  /\ link = [p \in Pairs |-> link[p]]

Phases == {"absent", "queued", "writing", "refer", "done"}
Working(t) == lpc[t] \in {"writing", "refer", "done"}

\* A task at rest holds nothing, and a row that is read is of a pair to write.
Holds(t) ==
  /\ lpc[t] \in Phases /\ (lpc[t] # "absent" => t \in stored)
  /\ lpc[t] \in {"absent", "queued", "done"} => todo[t] = {} /\ read[t] = NothingRead /\ DOMAIN draft[t] = {}
  /\ read[t] # NothingRead => read[t].pair \in todo[t]
  /\ lpc[t] = "refer" => read[t] # NothingRead /\ read[t].pair \in DOMAIN draft[t]

\* What a task holds of a pair that is due is as it should be.
Sound(t, p) ==
  /\ p \in todo[t] => p \in kept[t]
  /\ p \in DOMAIN draft[t] => Settles(p, draft[t][p])
  /\ read[t] # NothingRead /\ read[t].pair = p => read[t].row = NoLink \/ Settles(p, read[t].row)

\* Once both sides have looked, one of them has the pair or has settled it.
Has(t, p) == p \in todo[t] \/ p \in DOMAIN draft[t]
Met(p) == Working(p[1]) /\ Working(p[2]) => Settles(p, link[p]) \/ Passed(p) \/ Has(p[1], p) \/ Has(p[2], p)

Committed(p) == link[p] = NoLink \/ Settles(p, link[p])

MeetInv ==
  /\ MeetShapes
  /\ \A t \in Tasks : Holds(t)
  /\ \A p \in Due : Committed(p) /\ Met(p) /\ \A t \in Tasks : Sound(t, p)

LEMMA DuePairs ==
  ASSUME LinkingAssumption, NEW p \in Due
  PROVE  /\ p \in Pairs /\ p \in ByReport /\ p \in ByItem /\ p \in Positives(ByReport) /\ ~Demoted(p)
         /\ p[1] \in Incidents /\ p[2] \in Items /\ {p[1], p[2]} \subseteq Tasks /\ p # <<>>
         /\ Assessment[p].relation # "IRRELEVANT"
<1>1. p \in ByReport /\ p \in ByItem /\ ~Demoted(p) /\ Assessment[p].relation # "IRRELEVANT"
  BY DEF Due, Positives
<1>2. p \in Incidents \X Items
  BY <1>1 DEF LinkingAssumption
<1>3. p[1] \in Incidents /\ p[2] \in Items /\ p # <<>>
  BY <1>2
<1>4. p \in Pairs /\ {p[1], p[2]} \subseteq Tasks
  BY <1>2, <1>3 DEF Pairs, Tasks
<1>5. p \in Positives(ByReport)
  BY <1>1 DEF Positives
<1> QED
  BY <1>1, <1>3, <1>4, <1>5

LEMMA MeetImplies == ASSUME LinkingAssumption, MeetInv PROVE MutualPairsMeet
<1>1. ASSUME NEW p \in Positives(ByReport \cap ByItem),
             lpc[p[1]] = "done", lpc[p[2]] = "done", ~Demoted(p), ~Passed(p)
      PROVE  link[p].human \/ link[p].role = Assessment[p].relation
  <2>1. p \in Due
    BY <1>1 DEF Due
  <2>2. {p[1], p[2]} \subseteq Tasks
    BY <2>1, DuePairs
  <2>3. ~Has(p[1], p) /\ ~Has(p[2], p)
    BY <1>1, <2>2 DEF MeetInv, Holds, Has
  <2>4. Met(p)
    BY <2>1 DEF MeetInv
  <2> QED
    BY <1>1, <2>3, <2>4 DEF Met, Working, Settles
<1> QED
  BY <1>1 DEF MutualPairsMeet

LEMMA MeetStart == ASSUME LinkingAssumption, LinkingInit PROVE MeetInv
<1>1. MeetShapes
  BY DEF LinkingInit, MeetShapes
<1>2. \A t \in Tasks : Holds(t)
  BY DEF LinkingInit, Holds, Phases, NoDraft
<1>3. ASSUME NEW p \in Due, NEW t \in Tasks PROVE Sound(t, p)
  BY DEF LinkingInit, Sound, NoDraft
<1>4. ASSUME NEW p \in Due PROVE Committed(p) /\ Met(p)
  <2>1. link[p] = NoLink /\ {p[1], p[2]} \subseteq Tasks
    BY DuePairs DEF LinkingInit
  <2>2. \A t \in Tasks : ~Working(t)
    BY DEF LinkingInit, Working
  <2> QED
    BY <2>1, <2>2 DEF Committed, Met
<1> QED
  BY <1>1, <1>2, <1>3, <1>4 DEF MeetInv

\* What a step of one task has to establish, when it commits nothing.
LEMMA StepOfTask ==
  ASSUME LinkingAssumption, MeetInv, NEW t \in Tasks,
         stored \subseteq stored', link' = link, MeetShapes',
         \A u \in Tasks \ {t} : /\ lpc'[u] = lpc[u] /\ todo'[u] = todo[u] /\ kept'[u] = kept[u]
                                /\ read'[u] = read[u] /\ draft'[u] = draft[u],
         Holds(t)',
         \A p \in Due : Sound(t, p)',
         \A p \in Due : t \in {p[1], p[2]} => Met(p)'
  PROVE  MeetInv'
<1>1. ASSUME NEW u \in Tasks PROVE Holds(u)'
  BY DEF MeetInv, Holds
<1>2. ASSUME NEW p \in Due, NEW u \in Tasks PROVE Sound(u, p)'
  BY DEF MeetInv, Sound
<1>3. ASSUME NEW p \in Due PROVE Committed(p)'
  BY DEF MeetInv, Committed
<1>4. ASSUME NEW p \in Due PROVE Met(p)'
  <2>1. CASE t \in {p[1], p[2]}
    BY <2>1
  <2>2. CASE t \notin {p[1], p[2]}
    <3>1. {p[1], p[2]} \subseteq Tasks \ {t}
      BY <2>2, DuePairs
    <3>2. /\ Working(p[1])' <=> Working(p[1])
          /\ Working(p[2])' <=> Working(p[2])
          /\ Has(p[1], p)' <=> Has(p[1], p)
          /\ Has(p[2], p)' <=> Has(p[2], p)
      BY <3>1 DEF Working, Has
    <3>3. Passed(p) => Passed(p)'
      BY DEF Passed
    <3>4. Met(p)
      BY DEF MeetInv
    <3> QED
      BY <3>2, <3>3, <3>4 DEF Met
  <2> QED
    BY <2>1, <2>2
<1> QED
  BY <1>1, <1>2, <1>3, <1>4 DEF MeetInv

\* The best of the stage keep every pair that is due.
LEMMA BestKeepsDue ==
  ASSUME LinkingAssumption, NEW t \in Tasks, NEW p \in Due,
         p \in Candidates(t), NEW b \in Best(t, Candidates(t))
  PROVE  p \in b
<1> DEFINE limited == {q \in Positives(Candidates(t)) : t \in Incidents /\ q[2] \notin Readings}
<1>1. PICK c \in Top(limited) : b = c \cup (Positives(Candidates(t)) \ limited)
  BY DEF Best
<1>2. p \in Positives(Candidates(t))
  BY DuePairs DEF Positives
<1>3. CASE p \notin limited
  BY <1>1, <1>2, <1>3
<1>4. CASE p \in limited
  <2>1. t \in Incidents /\ p[2] \notin Readings
    BY <1>4
  <2>2. \A q \in limited : q \in Positives(ByReport) /\ q[1] = t /\ q[2] \notin Readings
    BY <2>1 DEF Candidates, OfReport, Positives
  <2>3. IsFiniteSet(limited)
    BY <2>2, FS_Subset DEF LinkingAssumption, Positives
  <2>4. c \subseteq limited /\ Cardinality(c) = (IF Cardinality(limited) < TopN THEN Cardinality(limited) ELSE TopN)
        /\ \A x \in c, y \in limited \ c : Assessment[x].score >= Assessment[y].score
    BY <1>1 DEF Top
  <2> SUFFICES ASSUME p \notin c PROVE FALSE
    BY <1>1
  <2>5. CASE Cardinality(limited) < TopN
    BY <1>4, <2>3, <2>4, <2>5, FS_Subset
  <2>6. CASE ~(Cardinality(limited) < TopN)
    <3> DEFINE rivals == {q \in Positives(ByReport \ {p}) :
                            q[1] = p[1] /\ q[2] \notin Readings /\ Assessment[q].score >= Assessment[p].score}
    <3>1. c \subseteq rivals
      <4>1. ASSUME NEW q \in c PROVE q \in rivals
        <5>1. q \in Positives(ByReport \ {p}) /\ q[2] \notin Readings
          BY <2>2, <2>4 DEF Positives
        <5>2. q[1] = p[1]
          BY <2>2, <2>4, <1>4
        <5>3. Assessment[q].score >= Assessment[p].score
          BY <2>4, <1>4
        <5> QED
          BY <5>1, <5>2, <5>3
      <4> QED
        BY <4>1
    <3>2. IsFiniteSet(rivals)
      <4>1. rivals \subseteq ByReport
        BY DEF Positives
      <4> QED
        BY <4>1, FS_Subset DEF LinkingAssumption
    <3>3. Cardinality(c) <= Cardinality(rivals) /\ Cardinality(rivals) \in Nat
      BY <3>1, <3>2, FS_Subset, FS_CardinalityType
    <3>4. Cardinality(c) = TopN
      BY <2>4, <2>6
    <3>5. Cardinality(rivals) >= TopN
      <4> HIDE DEF rivals
      <4> QED
        BY <3>3, <3>4 DEF LinkingAssumption
    <3> QED
      BY <2>1, <3>5, DuePairs DEF Demoted
  <2> QED
    BY <2>5, <2>6
<1> QED
  BY <1>3, <1>4

LEMMA IngestMeets == ASSUME LinkingAssumption, MeetInv, NEW t \in Tasks, Ingest(t) PROVE MeetInv'
<1>1. /\ stored' = stored \cup {t} /\ lpc' = [lpc EXCEPT ![t] = "queued"]
      /\ UNCHANGED <<todo, kept, read, draft, link>> /\ t \notin stored
  BY DEF Ingest
<1>2. MeetShapes'
  BY <1>1 DEF MeetInv, MeetShapes
<1>3. lpc'[t] = "queued" /\ \A u \in Tasks \ {t} : lpc'[u] = lpc[u]
  BY <1>1 DEF MeetInv, MeetShapes
<1>4. lpc[t] = "absent"
  BY <1>1 DEF MeetInv, Holds, Phases
<1>5. Holds(t)'
  BY <1>1, <1>3, <1>4 DEF MeetInv, Holds, Phases
<1>6. \A p \in Due : Sound(t, p)'
  BY <1>1 DEF MeetInv, Sound
<1>7. \A p \in Due : t \in {p[1], p[2]} => Met(p)'
  BY <1>3 DEF Met, Working
<1> QED
  BY <1>1, <1>2, <1>3, <1>5, <1>6, <1>7, StepOfTask

\* The later of the two queries finds the other side.
LEMMA QueryMeets == ASSUME LinkingAssumption, MeetInv, NEW t \in Tasks, Query(t) PROVE MeetInv'
<1>1. /\ lpc[t] = "queued" /\ lpc' = [lpc EXCEPT ![t] = "writing"]
      /\ todo' = [todo EXCEPT ![t] = Candidates(t)]
      /\ UNCHANGED <<stored, read, draft, link>>
  BY DEF Query, history
<1>2. PICK b \in Best(t, Candidates(t)) : kept' = [kept EXCEPT ![t] = b]
  BY DEF Query
<1>3. MeetShapes'
  BY <1>1, <1>2 DEF MeetInv, MeetShapes
<1>4. /\ lpc'[t] = "writing" /\ todo'[t] = Candidates(t) /\ kept'[t] = b
      /\ \A u \in Tasks \ {t} : lpc'[u] = lpc[u] /\ todo'[u] = todo[u] /\ kept'[u] = kept[u]
  BY <1>1, <1>2 DEF MeetInv, MeetShapes
<1>5. Holds(t)'
  BY <1>1, <1>4 DEF MeetInv, Holds, Phases
<1>6. ASSUME NEW p \in Due PROVE Sound(t, p)'
  <2>1. p \in todo'[t] => p \in kept'[t]
    BY <1>4, BestKeepsDue
  <2>2. DOMAIN draft'[t] = {} /\ read'[t] = NothingRead
    BY <1>1 DEF MeetInv, Holds
  <2> QED
    BY <2>1, <2>2 DEF Sound
<1>7. ASSUME NEW p \in Due, t \in {p[1], p[2]}, Working(p[1])', Working(p[2])', ~Passed(p)
      PROVE  Has(t, p)'
  <2>1. p \in ByReport /\ p \in ByItem /\ p[1] \in Incidents /\ p[2] \in Items /\ Incidents \cap Items = {}
    BY DuePairs DEF LinkingAssumption
  <2>2. {p[1], p[2]} \subseteq stored
    <3>1. ASSUME NEW u \in {p[1], p[2]} PROVE u \in stored
      <4>1. u \in Tasks /\ Holds(u) /\ Holds(t)
        BY DuePairs DEF MeetInv
      <4>2. lpc[u] # "absent"
        BY <1>1, <1>4, <1>7, <4>1 DEF Working
      <4> QED
        BY <4>1, <4>2 DEF Holds
    <3> QED
      BY <3>1
  <2>3. CASE t = p[1]
    <3>1. \A q \in ByReport : q[1] = t /\ q[2] \in stored => <<p[2], q[2]>> \notin Superseded
      BY <1>7 DEF Passed
    <3> QED
      BY <1>4, <2>1, <2>2, <2>3, <3>1 DEF Candidates, OfReport, Has
  <2>4. CASE t = p[2]
    BY <1>4, <2>1, <2>2, <2>4 DEF Candidates, OfItem, Has
  <2> QED
    BY <1>7, <2>3, <2>4
<1>8. \A p \in Due : t \in {p[1], p[2]} => Met(p)'
  <2>1. \A p \in Due : Passed(p)' <=> Passed(p)
    BY <1>1 DEF Passed
  <2> QED
    BY <1>7, <2>1 DEF Met
<1> QED
  BY <1>1, <1>3, <1>4, <1>5, <1>6, <1>8, StepOfTask

\* While a task works, what it has of a pair that is due it keeps.
LEMMA StillMeets ==
  ASSUME LinkingAssumption, MeetInv, NEW t \in Tasks,
         Working(t)' => Working(t), UNCHANGED <<stored, link>>,
         \A u \in Tasks \ {t} : lpc'[u] = lpc[u] /\ todo'[u] = todo[u] /\ draft'[u] = draft[u],
         \A p \in Due : Has(t, p) => Has(t, p)'
  PROVE  \A p \in Due : Met(p)'
<1> SUFFICES ASSUME NEW p \in Due PROVE Met(p)'
  OBVIOUS
<1>1. {p[1], p[2]} \subseteq Tasks
  BY DuePairs
<1>2. ASSUME NEW u \in Tasks PROVE (Working(u)' => Working(u)) /\ (Has(u, p) => Has(u, p)')
  BY DEF Working, Has
<1>3. Passed(p) => Passed(p)'
  BY DEF Passed
<1>4. Met(p) /\ link'[p] = link[p]
  BY DEF MeetInv
<1> QED
  BY <1>1, <1>2, <1>3, <1>4 DEF Met

LEMMA ReadMeets ==
  ASSUME LinkingAssumption, MeetInv, NEW t \in Tasks, NEW q \in Pairs, Read(t, q)
  PROVE  MeetInv'
<1>1. /\ lpc[t] = "writing" /\ q \in todo[t] /\ read[t] = NothingRead
      /\ UNCHANGED <<stored, lpc, kept, draft, link>>
  BY DEF Read, history
<1>2. \/ /\ q \notin kept[t] /\ todo' = [todo EXCEPT ![t] = @ \ {q}] /\ read' = read
      \/ /\ read' = [read EXCEPT ![t] = [pair |-> q, row |-> link[q]]] /\ todo' = todo
  BY DEF Read
<1>3. MeetShapes'
  BY <1>1, <1>2 DEF MeetInv, MeetShapes
<1>4. /\ \A u \in Tasks \ {t} : todo'[u] = todo[u] /\ read'[u] = read[u]
      /\ \/ q \notin kept[t] /\ todo'[t] = todo[t] \ {q} /\ read'[t] = read[t]
         \/ todo'[t] = todo[t] /\ read'[t] = [pair |-> q, row |-> link[q]]
  BY <1>2 DEF MeetInv, MeetShapes
<1>5. Holds(t)'
  <2>1. Holds(t)
    BY DEF MeetInv
  <2> QED
    BY <1>1, <1>4, <2>1 DEF Holds
<1>6. ASSUME NEW p \in Due PROVE Sound(t, p)' /\ (Has(t, p) => Has(t, p)')
  <2>1. Sound(t, p) /\ Committed(p)
    BY DEF MeetInv
  <2>2. p # q \/ q \in kept[t]
    BY <1>1, <2>1 DEF Sound
  <2>3. p \in todo'[t] <=> p \in todo[t]
    BY <1>4, <2>2
  <2>4. Sound(t, p)'
    BY <1>1, <1>4, <2>1, <2>3 DEF Sound, Committed, Settles
  <2> QED
    BY <1>1, <2>3, <2>4 DEF Has
<1>7. \A p \in Due : Met(p)'
  BY <1>1, <1>4, <1>6, StillMeets DEF Working
<1> QED
  BY <1>1, <1>3, <1>4, <1>5, <1>6, <1>7, StepOfTask

\* The step after a write: the pair leaves the list, its draft stays.
LEMMA ProceedMeets ==
  ASSUME LinkingAssumption, MeetInv, NEW t \in Tasks, NEW q, q = read[t].pair, Proceed(t, q),
         read[t] # NothingRead, Working(t),
         UNCHANGED <<stored, kept, link>>, MeetShapes',
         \A u \in Tasks \ {t} : draft'[u] = draft[u],
         DOMAIN draft[t] \cup {q} = DOMAIN draft'[t],
         \A p \in Due \cap DOMAIN draft'[t] : Settles(p, draft'[t][p])
  PROVE  MeetInv'
<1>1. /\ todo' = [todo EXCEPT ![t] = @ \ {q}] /\ read' = [read EXCEPT ![t] = NothingRead]
      /\ lpc' = [lpc EXCEPT ![t] = "writing"]
  BY DEF Proceed
<1>2. /\ \A u \in Tasks \ {t} : lpc'[u] = lpc[u] /\ todo'[u] = todo[u] /\ read'[u] = read[u] /\ kept'[u] = kept[u]
      /\ lpc'[t] = "writing" /\ todo'[t] = todo[t] \ {q} /\ read'[t] = NothingRead
  BY <1>1 DEF MeetInv, MeetShapes
<1>3. Holds(t)'
  BY <1>2 DEF MeetInv, Holds, Phases, Working
<1>4. ASSUME NEW p \in Due PROVE Sound(t, p)' /\ (Has(t, p) => Has(t, p)')
  <2>1. Sound(t, p)
    BY DEF MeetInv
  <2>2. Sound(t, p)'
    BY <1>2, <2>1 DEF Sound
  <2> QED
    BY <1>2, <2>2 DEF Has
<1>5. \A p \in Due : Met(p)'
  BY <1>2, <1>4, StillMeets DEF Working
<1> QED
  BY <1>2, <1>3, <1>4, <1>5, StepOfTask

LEMMA WriteMeets == ASSUME LinkingAssumption, MeetInv, NEW t \in Tasks, Write(t) PROVE MeetInv'
<1> DEFINE q == read[t].pair
<1>1. /\ lpc[t] = "writing" /\ read[t] # NothingRead
      /\ draft' = [draft EXCEPT ![t] = [x \in DOMAIN draft[t] \cup {q} |->
                     IF x = q THEN Rewritten(t, q) ELSE draft[t][x]]]
      /\ UNCHANGED <<stored, kept, link>>
  BY DEF Write, history
<1>2. \/ Proceed(t, q)
      \/ lpc' = [lpc EXCEPT ![t] = "refer"] /\ UNCHANGED <<todo, read>>
  BY DEF Write
<1>3. MeetShapes'
  BY <1>1, <1>2 DEF MeetInv, MeetShapes, Proceed
<1>4. /\ \A u \in Tasks \ {t} : draft'[u] = draft[u]
      /\ DOMAIN draft'[t] = DOMAIN draft[t] \cup {q}
      /\ \A x \in DOMAIN draft[t] : x # q => draft'[t][x] = draft[t][x]
      /\ draft'[t][q] = Rewritten(t, q)
  BY <1>1 DEF MeetInv, MeetShapes
<1>5. ASSUME NEW p \in Due, p \in DOMAIN draft'[t] PROVE Settles(p, draft'[t][p])
  <2>1. Sound(t, p) /\ Holds(t)
    BY DEF MeetInv
  <2>2. CASE p # q
    BY <1>4, <1>5, <2>1, <2>2 DEF Sound
  <2>3. CASE p = q
    <3>1. p \in kept[t]
      BY <1>1, <2>1, <2>3 DEF Holds, Sound
    <3>2. \/ Rewritten(t, p) = read[t].row /\ read[t].row.human
          \/ Rewritten(t, p) = Link(Assessment[p].relation)
      BY <3>1 DEF Rewritten, RoleFor
    <3>3. Link(Assessment[p].relation).role = Assessment[p].relation
      BY DEF Link
    <3> QED
      BY <1>4, <2>3, <3>2, <3>3 DEF Settles
  <2> QED
    BY <2>2, <2>3
<1>6. CASE Proceed(t, q)
  BY <1>1, <1>3, <1>4, <1>5, <1>6, ProceedMeets DEF Working
<1>7. CASE lpc' = [lpc EXCEPT ![t] = "refer"] /\ UNCHANGED <<todo, read>>
  <2>1. lpc'[t] = "refer" /\ \A u \in Tasks \ {t} : lpc'[u] = lpc[u]
    BY <1>7 DEF MeetInv, MeetShapes
  <2>2. Holds(t)'
    BY <1>1, <1>4, <1>7, <2>1 DEF MeetInv, Holds, Phases
  <2>3. ASSUME NEW p \in Due PROVE Sound(t, p)' /\ (Has(t, p) => Has(t, p)')
    <3>1. Sound(t, p)
      BY DEF MeetInv
    <3> QED
      BY <1>1, <1>4, <1>5, <1>7, <3>1 DEF Sound, Has
  <2>4. \A p \in Due : Met(p)'
    BY <1>1, <1>4, <1>7, <2>1, <2>3, StillMeets DEF Working
  <2> QED
    BY <1>1, <1>3, <1>4, <1>7, <2>1, <2>2, <2>3, <2>4, StepOfTask
<1> QED
  BY <1>2, <1>6, <1>7

LEMMA ReferMeets == ASSUME LinkingAssumption, MeetInv, NEW t \in Tasks, Refer(t) PROVE MeetInv'
<1> DEFINE q == read[t].pair
<1>1. lpc[t] = "refer" /\ Proceed(t, q) /\ UNCHANGED <<stored, kept, draft, link>>
  BY DEF Refer, history
<1>2. MeetShapes'
  BY <1>1 DEF MeetInv, MeetShapes, Proceed
<1>3. Holds(t) /\ \A p \in Due : Sound(t, p)
  BY DEF MeetInv
<1>4. read[t] # NothingRead /\ DOMAIN draft[t] \cup {q} = DOMAIN draft'[t]
  BY <1>1, <1>3 DEF Holds
<1>5. \A p \in Due \cap DOMAIN draft'[t] : Settles(p, draft'[t][p])
  BY <1>1, <1>3 DEF Sound
<1> QED
  BY <1>1, <1>2, <1>4, <1>5, ProceedMeets DEF Working

\* A transaction that is lost will look again.
LEMMA AgainMeets ==
  ASSUME LinkingAssumption, MeetInv, NEW t \in Tasks, Again(t), t \in stored
  PROVE  MeetInv'
<1>1. /\ lpc' = [lpc EXCEPT ![t] = "queued"] /\ todo' = [todo EXCEPT ![t] = {}] /\ kept' = [kept EXCEPT ![t] = {}]
      /\ read' = [read EXCEPT ![t] = NothingRead] /\ draft' = [draft EXCEPT ![t] = NoDraft]
      /\ UNCHANGED <<stored, link>>
  BY DEF Again, history
<1>2. MeetShapes'
  BY <1>1 DEF MeetInv, MeetShapes
<1>3. /\ \A u \in Tasks \ {t} : /\ lpc'[u] = lpc[u] /\ todo'[u] = todo[u] /\ kept'[u] = kept[u]
                                /\ read'[u] = read[u] /\ draft'[u] = draft[u]
      /\ lpc'[t] = "queued" /\ todo'[t] = {} /\ read'[t] = NothingRead /\ draft'[t] = NoDraft
  BY <1>1 DEF MeetInv, MeetShapes
<1>4. DOMAIN NoDraft = {}
  BY DEF NoDraft
<1>5. Holds(t)'
  BY <1>1, <1>3, <1>4 DEF Holds, Phases
<1>6. \A p \in Due : Sound(t, p)'
  BY <1>3, <1>4 DEF Sound
<1>7. \A p \in Due : t \in {p[1], p[2]} => Met(p)'
  BY <1>3 DEF Met, Working
<1> QED
  BY <1>1, <1>2, <1>3, <1>5, <1>6, <1>7, StepOfTask

LEMMA CommitMeets == ASSUME LinkingAssumption, MeetInv, NEW t \in Tasks, CommitLinks(t) PROVE MeetInv'
<1>1. /\ lpc[t] = "writing" /\ todo[t] = {} /\ read[t] = NothingRead
      /\ link' = [p \in Pairs |-> IF p \in DOMAIN draft[t] THEN draft[t][p] ELSE link[p]]
      /\ lpc' = [lpc EXCEPT ![t] = "done"] /\ draft' = [draft EXCEPT ![t] = NoDraft]
      /\ kept' = [kept EXCEPT ![t] = {}] /\ UNCHANGED <<stored, todo, read>>
  BY DEF CommitLinks, CanCommit, history
<1>2. MeetShapes'
  BY <1>1 DEF MeetInv, MeetShapes
<1>3. /\ \A u \in Tasks \ {t} : lpc'[u] = lpc[u] /\ kept'[u] = kept[u] /\ draft'[u] = draft[u]
      /\ lpc'[t] = "done" /\ draft'[t] = NoDraft
  BY <1>1 DEF MeetInv, MeetShapes
<1>4. DOMAIN NoDraft = {}
  BY DEF NoDraft
<1>5. ASSUME NEW u \in Tasks PROVE Holds(u)'
  <2>1. Holds(u)
    BY DEF MeetInv
  <2> QED
    BY <1>1, <1>3, <1>4, <2>1 DEF Holds, Phases
<1>6. ASSUME NEW p \in Due, NEW u \in Tasks PROVE Sound(u, p)'
  <2>1. Sound(u, p)
    BY DEF MeetInv
  <2> QED
    BY <1>1, <1>3, <1>4, <2>1 DEF Sound
<1>7. ASSUME NEW p \in Due
      PROVE  /\ Committed(p)' /\ (Settles(p, link[p]) => Settles(p, link'[p]))
             /\ Has(t, p) => Settles(p, link'[p])
  <2>1. Sound(t, p) /\ Committed(p)
    BY DEF MeetInv
  <2>2. link'[p] = IF p \in DOMAIN draft[t] THEN draft[t][p] ELSE link[p]
    BY <1>1, DuePairs
  <2> QED
    BY <1>1, <2>1, <2>2 DEF Sound, Committed, Has
<1>8. ASSUME NEW p \in Due PROVE Met(p)'
  <2>1. Met(p) /\ {p[1], p[2]} \subseteq Tasks
    BY DuePairs DEF MeetInv
  <2>2. ASSUME NEW u \in Tasks PROVE (Working(u)' => Working(u)) /\ (Has(u, p) => Has(u, p)' \/ Settles(p, link'[p]))
    BY <1>1, <1>3, <1>7 DEF Working, Has
  <2>3. Passed(p) => Passed(p)'
    BY <1>1 DEF Passed
  <2> QED
    BY <1>7, <2>1, <2>2, <2>3 DEF Met
<1> QED
  BY <1>2, <1>5, <1>6, <1>7, <1>8 DEF MeetInv

LEMMA DecideMeets == ASSUME LinkingAssumption, MeetInv, NEW q \in Pairs, DecideLink(q) PROVE MeetInv'
<1>1. /\ link' = [link EXCEPT ![q] = [role |-> "REJECTED", human |-> TRUE]]
      /\ UNCHANGED <<stored, lpc, todo, kept, read, draft>>
  BY DEF DecideLink
<1>2. MeetShapes'
  BY <1>1 DEF MeetInv, MeetShapes
<1>3. ASSUME NEW p \in Due PROVE link'[p] = link[p] \/ Settles(p, link'[p])
  BY <1>1, DuePairs DEF MeetInv, MeetShapes, Settles
<1>4. \A t \in Tasks : Holds(t)'
  BY <1>1 DEF MeetInv, Holds
<1>5. ASSUME NEW p \in Due PROVE Committed(p)' /\ Met(p)' /\ \A t \in Tasks : Sound(t, p)'
  <2>1. Committed(p)'
    BY <1>3 DEF MeetInv, Committed
  <2>2. \A t \in Tasks : Sound(t, p)'
    BY <1>1 DEF MeetInv, Sound
  <2>3. Met(p)'
    <3>1. Met(p)
      BY DEF MeetInv
    <3>2. (Passed(p) <=> Passed(p)') /\ (Has(p[1], p) <=> Has(p[1], p)') /\ (Has(p[2], p) <=> Has(p[2], p)')
      BY <1>1 DEF Passed, Has
    <3> QED
      BY <1>1, <1>3, <3>1, <3>2 DEF Met, Working
  <2> QED
    BY <2>1, <2>2, <2>3
<1> QED
  BY <1>2, <1>4, <1>5 DEF MeetInv

LEMMA NothingMeets ==
  ASSUME MeetInv, UNCHANGED <<stored, lpc, todo, kept, read, draft, link>>
  PROVE  MeetInv'
BY DEF MeetInv, MeetShapes, Holds, Committed, Met, Working, Passed, Has, Sound

\* A blocked task is at work.
LEMMA BlockedIsStored == ASSUME MeetInv, NEW t \in Tasks, lpc[t] # "absent" PROVE t \in stored
BY DEF MeetInv, Holds

\* Whichever side is stored last finds the other.
THEOREM MutualPairsAreLinked == ASSUME LinkingAssumption PROVE LinkingSpec => []MutualPairsMeet
<1>1. MeetInv /\ [LinkingNext]_linkingVars => MeetInv'
  <2> SUFFICES ASSUME MeetInv, [LinkingNext]_linkingVars PROVE MeetInv'
    OBVIOUS
  <2>1. ASSUME NEW t \in Tasks, NEW r \in Incidents, Recompute(t, r) PROVE MeetInv'
    BY <2>1, NothingMeets DEF Recompute, history
  <2>2. ASSUME NEW t \in Tasks, Collide(t) \/ Deadlock(t) PROVE MeetInv'
    <3>1. lpc[t] # "absent" /\ Again(t)
      BY <2>2 DEF Collide, Deadlock, Blockers
    <3> QED
      BY <3>1, BlockedIsStored, AgainMeets
  <2>3. CASE UNCHANGED linkingVars
    BY <2>3, NothingMeets DEF linkingVars
  <2>4. CASE \E t \in Tasks : Ingest(t) \/ Step(t)
    BY <2>1, <2>2, <2>4, IngestMeets, QueryMeets, ReadMeets, WriteMeets, ReferMeets, CommitMeets DEF Step
  <2>5. CASE \E p \in Pairs : DecideLink(p)
    BY <2>5, DecideMeets
  <2> QED
    BY <2>3, <2>4, <2>5 DEF LinkingNext
<1> QED
  BY <1>1, MeetStart, MeetImplies, PTL DEF LinkingSpec

-----------------------------------------------------------------------------
(***************************************************************************)
(* Clustering.  No lock takes part in the argument about splits: what a    *)
(* task that has looked decided on is still so when it stores, or all that *)
(* its draft touches is recorded as raced (DraftsInv).                     *)
(***************************************************************************)
\* A cluster as it is stored.
Cluster == [primary : Sightings, members : {m \in SUBSET Sightings : IsFiniteSet(m)}, count : Nat]

\* The shape of the state; a task's candidate is a stored report.
ClusteringShape ==
  /\ cpc = [t \in Sightings |-> cpc[t]] /\ cdraft = [t \in Sightings |-> cdraft[t]]
  /\ ref \in [Sightings -> Sightings] /\ clusters \in Seq(Cluster)
  /\ \A t \in Sightings : cdraft[t].kind \in {"none", "keep", "join", "found"}
  /\ present \subseteq Sightings
  /\ \A t \in Sightings : ref[t] \in present \cup {t} /\ (cpc[t] # "absent" => t \in present)

\* A task that has looked for clusters and has not stored what it decided.
Decided(t) == cpc[t] \in {"write", "lock", "store"} /\ cdraft[t].kind \in {"join", "found"}

\* What its draft is about.
Drafted(t) ==
  /\ cdraft[t].kind = "join" => cdraft[t].cluster \in DOMAIN clusters /\ cdraft[t].count \in Nat
  /\ cdraft[t].kind = "found" => {cdraft[t].primary, cdraft[t].member} = {t, ref[t]}

\* What it saw is still so.
StillSo(t) ==
  /\ MemberOf(t) = {}
  /\ cdraft[t].kind = "join" =>
       /\ clusters[cdraft[t].cluster].primary # t
       /\ cdraft[t].count = clusters[cdraft[t].cluster].count + 1
  /\ cdraft[t].kind = "found" => ClustersOf(ref[t]) = {}

\* What a task decided on holds, or a race over what it touches is recorded.
DraftsInv == \A t \in Sightings : Decided(t) => Drafted(t) /\ (StillSo(t) \/ Touched(t) \subseteq craced)

\* The claim itself, in a form that does not count clusters.
InOne(r) == \A c, d \in ClustersOf(r) : c = d
CountedRight(c) == clusters[c].count = Cardinality(clusters[c].members) + 1
Reached(c) == {clusters[c].primary} \cup clusters[c].members

SplitInv ==
  /\ \A r \in Sightings \ Blamed : InOne(r)
  /\ \A c \in DOMAIN clusters : Reached(c) \cap Blamed # {} \/ CountedRight(c)
  /\ \A t \in Sightings : cpc[t] = "failed" => {t, ref[t]} \cap Blamed # {}

ClusteringInv == ClusteringShape /\ DraftsInv /\ SplitInv

-----------------------------------------------------------------------------
\* A report is in the clusters that reach it.
LEMMA InReached == \A r : ClustersOf(r) = {c \in DOMAIN clusters : r \in Reached(c)}
BY DEF ClustersOf, Primary, MemberOf, Reached

\* What a draft touches, by its kind.
LEMMA TouchedByDraft ==
  ASSUME NEW t \in Sightings
  PROVE  /\ cdraft[t].kind = "join" => Touched(t) = {t} \cup Reached(cdraft[t].cluster)
         /\ cdraft[t].kind = "found" => Touched(t) = {t, ref[t]}
         /\ cdraft[t].kind \in {"none", "keep"} => Touched(t) = {}
BY DEF Touched, Reached

\* What a task that has decided leaves of the clusters: one has been reached anew.
Changes(t, c) ==
  /\ c \in DOMAIN clusters' /\ DOMAIN clusters \subseteq DOMAIN clusters'
  /\ \A d \in DOMAIN clusters' \ {c} : d \in DOMAIN clusters /\ clusters'[d] = clusters[d]
  /\ Reached(c)' = Touched(t)
  /\ c \in DOMAIN clusters => Reached(c) \subseteq Touched(t)

\* A task that joins a cluster changes that one.
LEMMA StoreJoin ==
  ASSUME ClusteringInv, NEW t \in Sightings, Store(t), cdraft[t].kind = "join", NEW c, c = cdraft[t].cluster
  PROVE 
         /\ clusters' \in Seq(Cluster) /\ Changes(t, c) /\ c \in DOMAIN clusters
         /\ clusters'[c].members = clusters[c].members \cup {t}
         /\ clusters'[c].count = cdraft[t].count
<1> DEFINE new == [primary |-> clusters[c].primary, members |-> clusters[c].members \cup {t}, count |-> cdraft[t].count]
<1>1. Decided(t) /\ Drafted(t) /\ clusters \in Seq(Cluster)
  BY DEF Store, Decided, ClusteringInv, DraftsInv, ClusteringShape
<1>2. c \in DOMAIN clusters /\ cdraft[t].count \in Nat
  BY <1>1 DEF Drafted
<1>3. clusters' = [clusters EXCEPT ![c] = new]
  BY DEF Store, Written
<1>4. clusters[c] \in Cluster
  BY <1>1, <1>2
<1>5. new \in Cluster
  <2>1. IsFiniteSet(clusters[c].members \cup {t})
    BY <1>4, FS_AddElement DEF Cluster
  <2> QED BY <1>2, <1>4, <2>1 DEF Cluster
<1>6. clusters' \in Seq(Cluster) /\ DOMAIN clusters' = DOMAIN clusters /\ clusters'[c] = new
      /\ \A d \in DOMAIN clusters \ {c} : clusters'[d] = clusters[d]
  <2> HIDE DEF new
  <2> QED BY <1>1, <1>2, <1>3, <1>5
<1>7. Reached(c)' = Touched(t)
  <2>1. Reached(c)' = {clusters'[c].primary} \cup clusters'[c].members
    BY DEF Reached
  <2>2. new.primary = clusters[c].primary /\ new.members = clusters[c].members \cup {t}
    OBVIOUS
  <2>3. Touched(t) = {t} \cup {clusters[c].primary} \cup clusters[c].members
    BY TouchedByDraft DEF Reached
  <2> HIDE DEF new
  <2> QED BY <1>6, <2>1, <2>2, <2>3
<1>8. Reached(c) \subseteq Touched(t)
  BY TouchedByDraft
<1>9. clusters'[c].members = clusters[c].members \cup {t} /\ clusters'[c].count = cdraft[t].count
  BY <1>6
<1> QED BY <1>2, <1>6, <1>7, <1>8, <1>9 DEF Changes

\* A task that found none adds one.
LEMMA StoreFound ==
  ASSUME ClusteringInv, NEW t \in Sightings, Store(t), cdraft[t].kind = "found", NEW c, c = Len(clusters) + 1
  PROVE 
         /\ clusters' \in Seq(Cluster) /\ Changes(t, c) /\ c \notin DOMAIN clusters
         /\ clusters'[c].count = 2 /\ Cardinality(clusters'[c].members) = 1
<1> DEFINE new == [primary |-> cdraft[t].primary, members |-> {cdraft[t].member}, count |-> 2]
<1>1. Decided(t) /\ Drafted(t) /\ clusters \in Seq(Cluster) /\ ref[t] \in Sightings
  BY DEF Store, Decided, ClusteringInv, DraftsInv, ClusteringShape
<1>2. {cdraft[t].primary, cdraft[t].member} = {t, ref[t]}
  BY <1>1 DEF Drafted
<1>3. clusters' = Append(clusters, new)
  BY DEF Store, Written
<1>4. new \in Cluster /\ Cardinality({cdraft[t].member}) = 1
  <2>1. IsFiniteSet({cdraft[t].member}) /\ Cardinality({cdraft[t].member}) = 1
    BY FS_Singleton
  <2>2. cdraft[t].primary \in Sightings /\ cdraft[t].member \in Sightings
    BY <1>1, <1>2
  <2> QED BY <2>1, <2>2 DEF Cluster
<1>5. clusters' \in Seq(Cluster) /\ DOMAIN clusters' = DOMAIN clusters \cup {c} /\ c \notin DOMAIN clusters
      /\ clusters'[c] = new /\ \A d \in DOMAIN clusters : clusters'[d] = clusters[d]
  <2> HIDE DEF new
  <2> QED BY <1>1, <1>3, <1>4
<1>6. Reached(c)' = Touched(t)
  <2>1. Reached(c)' = {clusters'[c].primary} \cup clusters'[c].members
    BY DEF Reached
  <2>2. new.primary = cdraft[t].primary /\ new.members = {cdraft[t].member}
    OBVIOUS
  <2>3. Touched(t) = {t, ref[t]}
    BY TouchedByDraft
  <2> HIDE DEF new
  <2> QED BY <1>2, <1>5, <2>1, <2>2, <2>3
<1>7. clusters'[c].count = 2 /\ Cardinality(clusters'[c].members) = 1
  BY <1>4, <1>5
<1>8. Changes(t, c)
  BY <1>5, <1>6 DEF Changes
<1> QED BY <1>5, <1>7, <1>8

\* Which clusters a report is in after that.
LEMMA ClustersAfter ==
  ASSUME NEW t \in Sightings, NEW c, Changes(t, c), NEW r
  PROVE  /\ r \notin Touched(t) => ClustersOf(r)' = ClustersOf(r)
         /\ r \in Touched(t) => ClustersOf(r)' = ClustersOf(r) \cup {c}
<1>1. ClustersOf(r)' = {d \in DOMAIN clusters' : r \in Reached(d)'}
  BY DEF ClustersOf, Primary, MemberOf, Reached
<1>2. ClustersOf(r) = {d \in DOMAIN clusters : r \in Reached(d)}
  BY InReached
<1>3. \A d \in DOMAIN clusters' \ {c} : Reached(d)' = Reached(d)
  BY DEF Changes, Reached
<1> QED BY <1>1, <1>2, <1>3 DEF Changes

\* What is blamed at a store.
LEMMA BlamedAfter ==
  ASSUME NEW t \in Sightings, Store(t)
  PROVE  /\ Blamed \subseteq Blamed'
         /\ \A u \in Sightings \ {t} : Decided(u) /\ Touched(u) \cap Touched(t) # {} =>
              Touched(u) \cup Touched(t) \subseteq craced'
         /\ Primary(t) # {} => Touched(t) \subseteq Blamed'
         /\ craced \subseteq craced'
BY DEF Store, Blamed, LookedAt, Decided

\* A store leaves every report in one cluster, or the reports it touches are blamed.
LEMMA StoreSplits ==
  ASSUME ClusteringInv, NEW t \in Sightings, Store(t), cdraft[t].kind \in {"join", "found"},
         NEW c, Changes(t, c), c = IF cdraft[t].kind = "join" THEN cdraft[t].cluster ELSE Len(clusters) + 1
  PROVE  SplitInv'
<1>1. Decided(t) /\ t \in Touched(t)
  BY TouchedByDraft DEF Store, Decided
<1>2. Blamed \subseteq Blamed' /\ (Touched(t) \subseteq craced => Touched(t) \subseteq Blamed')
  BY BlamedAfter DEF Blamed
<1>3. CASE Touched(t) \subseteq Blamed'
  <2>1. ASSUME NEW r \in Sightings, r \notin Blamed'  PROVE InOne(r)'
    <3>1. ClustersOf(r)' = ClustersOf(r)
      BY <1>3, <2>1, ClustersAfter
    <3>2. InOne(r)
      BY <1>2, <2>1 DEF ClusteringInv, SplitInv
    <3> QED BY <3>1, <3>2 DEF InOne
  <2>2. ASSUME NEW d \in DOMAIN clusters'  PROVE (Reached(d) \cap Blamed # {} \/ CountedRight(d))'
    <3>1. CASE d = c
      BY <1>1, <1>3, <3>1 DEF Changes
    <3>2. CASE d # c
      <4>1. d \in DOMAIN clusters /\ clusters'[d] = clusters[d]
        BY <3>2 DEF Changes
      <4> QED BY <1>2, <4>1 DEF ClusteringInv, SplitInv, Reached, CountedRight
    <3> QED BY <3>1, <3>2
  <2> QED BY <1>2, <2>1, <2>2 DEF SplitInv, ClusteringInv, ClusteringShape, Store
<1>4. CASE StillSo(t) /\ Primary(t) = {}
  <2>1. ClustersOf(t) = {}
    BY <1>4 DEF StillSo, ClustersOf
  <2>2. \A r \in Touched(t) : r # t => ClustersOf(r) = {} \/ c \in ClustersOf(r)
    <3>1. CASE cdraft[t].kind = "join"
      <4>1. c \in DOMAIN clusters
        BY <1>1, <3>1 DEF ClusteringInv, DraftsInv, Drafted
      <4> QED BY <3>1, <4>1, TouchedByDraft, InReached
    <3>2. CASE cdraft[t].kind = "found"
      BY <1>4, <3>2, TouchedByDraft DEF StillSo
    <3> QED BY <3>1, <3>2
  <2>3. ASSUME NEW r \in Sightings, r \notin Blamed'  PROVE InOne(r)'
    <3>1. InOne(r)
      BY <1>2, <2>3 DEF ClusteringInv, SplitInv
    <3>2. CASE r \in Touched(t)
      <4>1. ClustersOf(r)' = ClustersOf(r) \cup {c}
        BY <3>2, ClustersAfter
      <4> QED BY <2>1, <2>2, <3>1, <3>2, <4>1 DEF InOne
    <3>3. CASE r \notin Touched(t)
      BY <3>1, <3>3, ClustersAfter DEF InOne
    <3> QED BY <3>2, <3>3
  <2>4. ASSUME NEW d \in DOMAIN clusters'  PROVE (Reached(d) \cap Blamed # {} \/ CountedRight(d))'
    <3>1. CASE d = c /\ cdraft[t].kind = "join"
      <4>1. /\ c \in DOMAIN clusters /\ clusters'[c].members = clusters[c].members \cup {t}
            /\ clusters'[c].count = cdraft[t].count
        BY <3>1, StoreJoin
      <4>2. t \notin clusters[c].members /\ cdraft[t].count = clusters[c].count + 1
        BY <1>4, <3>1, <4>1 DEF StillSo, MemberOf
      <4>3. clusters[c] \in Cluster
        BY <4>1 DEF ClusteringInv, ClusteringShape
      <4>4. Cardinality(clusters[c].members \cup {t}) = Cardinality(clusters[c].members) + 1
        BY <4>2, <4>3, FS_AddElement DEF Cluster
      <4>5. Reached(c) \cap Blamed # {} => (Reached(c) \cap Blamed # {})'
        <5>1. Reached(c) \subseteq Reached(c)'
          BY <4>1 DEF Changes
        <5> QED BY <1>2, <5>1
      <4>6. CountedRight(c) => CountedRight(c)'
        BY <4>1, <4>2, <4>4 DEF CountedRight
      <4>7. Reached(c) \cap Blamed # {} \/ CountedRight(c)
        BY <4>1 DEF ClusteringInv, SplitInv
      <4> QED BY <3>1, <4>5, <4>6, <4>7
    <3>2. CASE d = c /\ cdraft[t].kind = "found"
      BY <3>2, StoreFound DEF CountedRight
    <3>3. CASE d # c
      <4>1. d \in DOMAIN clusters /\ clusters'[d] = clusters[d]
        BY <3>3 DEF Changes
      <4> QED BY <1>2, <4>1 DEF ClusteringInv, SplitInv, Reached, CountedRight
    <3> QED BY <3>1, <3>2, <3>3
  <2> QED BY <1>2, <2>3, <2>4 DEF SplitInv, ClusteringInv, ClusteringShape, Store
<1>5. Touched(t) \subseteq Blamed' \/ (StillSo(t) /\ Primary(t) = {})
  BY <1>1, <1>2, BlamedAfter DEF ClusteringInv, DraftsInv
<1> QED BY <1>3, <1>4, <1>5

\* The drafts of the others after a store: untouched by it, or in a race with it.
LEMMA StoreDrafts ==
  ASSUME ClusteringInv, NEW t \in Sightings, Store(t), NEW c, Changes(t, c), t \in Touched(t)
  PROVE  DraftsInv'
<1> SUFFICES ASSUME NEW u \in Sightings, Decided(u)'
             PROVE  Drafted(u)' /\ (StillSo(u)' \/ (Touched(u) \subseteq craced)')
  BY DEF DraftsInv
<1>1. u # t /\ cdraft'[u] = cdraft[u] /\ ref' = ref /\ Decided(u)
  BY DEF Store, Decided, ClusteringInv, ClusteringShape
<1>2. Drafted(u) /\ (StillSo(u) \/ Touched(u) \subseteq craced)
  BY <1>1 DEF ClusteringInv, DraftsInv
<1>3. Drafted(u)'
  BY <1>1, <1>2 DEF Drafted, Changes
<1>4. Touched(u)' = IF cdraft[u].kind = "join" THEN {u} \cup Reached(cdraft[u].cluster)' ELSE {u, ref[u]}
  BY <1>1 DEF Touched, Reached, Decided
<1>5. u \in Touched(u) /\ (cdraft[u].kind = "found" => ref[u] \in Touched(u))
  BY <1>1, TouchedByDraft DEF Decided
<1>6. CASE Touched(u) \cap Touched(t) # {}
  <2>1. Touched(u) \cup Touched(t) \subseteq craced'
    BY <1>1, <1>6, BlamedAfter
  <2>2. Touched(u)' \subseteq Touched(u) \cup Touched(t)
    <3>1. CASE cdraft[u].kind = "join" /\ cdraft[u].cluster = c
      BY <1>1, <1>4, <1>5, <3>1 DEF Changes
    <3>2. CASE cdraft[u].kind = "join" /\ cdraft[u].cluster # c
      BY <1>1, <1>2, <1>4, <3>2, TouchedByDraft DEF Changes, Reached, Drafted
    <3>3. CASE cdraft[u].kind = "found"
      BY <1>1, <1>4, <3>3, TouchedByDraft
    <3> QED BY <1>1, <3>1, <3>2, <3>3 DEF Decided
  <2> QED BY <1>3, <2>1, <2>2
<1>7. CASE Touched(u) \cap Touched(t) = {}
  <2>1. cdraft[u].kind = "join" =>
          cdraft[u].cluster \in DOMAIN clusters /\ clusters'[cdraft[u].cluster] = clusters[cdraft[u].cluster]
    <3>1. SUFFICES ASSUME cdraft[u].kind = "join"
                   PROVE  cdraft[u].cluster \in DOMAIN clusters /\ cdraft[u].cluster # c
      BY DEF Changes
    <3>2. cdraft[u].cluster \in DOMAIN clusters /\ Reached(cdraft[u].cluster) \subseteq Touched(u)
      BY <1>2, <3>1, TouchedByDraft DEF Drafted
    <3>3. Reached(cdraft[u].cluster) # {}
      BY DEF Reached
    <3> QED BY <1>7, <3>2, <3>3 DEF Changes
  <2>2. Touched(u)' = Touched(u)
    BY <1>1, <1>4, <2>1, TouchedByDraft DEF Reached, Decided
  <2>3. StillSo(u) => StillSo(u)'
    <3>1. ClustersOf(u)' = ClustersOf(u)
      BY <1>5, <1>7, ClustersAfter
    <3>2. MemberOf(u)' \subseteq MemberOf(u)
      <4>1. \A d \in DOMAIN clusters' \ {c} : d \in DOMAIN clusters /\ clusters'[d] = clusters[d]
        BY DEF Changes
      <4>2. u \notin Reached(c)'
        BY <1>5, <1>7 DEF Changes
      <4> QED BY <4>1, <4>2 DEF MemberOf, Reached
    <3>3. cdraft[u].kind = "found" /\ ClustersOf(ref[u]) = {} => (ClustersOf(ref[u]) = {})'
      <4>1. PICK q : q = ref[u]
        OBVIOUS
      <4>2. cdraft[u].kind = "found" => ClustersOf(q)' = ClustersOf(q)
        BY <1>5, <1>7, <4>1, ClustersAfter
      <4>3. ref'[u] = q
        BY <1>1, <4>1
      <4> QED BY <4>1, <4>2, <4>3 DEF ClustersOf, Primary, MemberOf
    <3> QED BY <1>1, <2>1, <3>2, <3>3 DEF StillSo
  <2> QED BY <1>2, <1>3, <2>2, <2>3, BlamedAfter
<1> QED BY <1>6, <1>7

\* Storing, whatever has been decided.
LEMMA StoreKeepsClusters ==
  ASSUME ClusteringInv, NEW t \in Sightings, Store(t)
  PROVE  ClusteringInv'
<1>1. cdraft[t].kind \in {"none", "keep", "join", "found"}
  BY DEF ClusteringInv, ClusteringShape
<1>2. /\ cpc' = [u \in Sightings |-> cpc'[u]] /\ cdraft' = [u \in Sightings |-> cdraft'[u]]
      /\ \A u \in Sightings : cdraft'[u].kind \in {"none", "keep", "join", "found"}
      /\ ref' \in [Sightings -> Sightings]
      /\ present' \subseteq Sightings
      /\ \A u \in Sightings : ref'[u] \in present' \cup {u} /\ (cpc'[u] # "absent" => u \in present')
  BY DEF ClusteringInv, ClusteringShape, Store, NoPlan
<1>3. CASE cdraft[t].kind \in {"join", "found"}
  <2>1. PICK c : c = IF cdraft[t].kind = "join" THEN cdraft[t].cluster ELSE Len(clusters) + 1
    OBVIOUS
  <2>2. clusters' \in Seq(Cluster) /\ Changes(t, c)
    BY <1>3, <2>1, StoreJoin, StoreFound
  <2>3. t \in Touched(t)
    BY <1>3, TouchedByDraft
  <2> QED BY <1>2, <1>3, <2>1, <2>2, <2>3, StoreSplits, StoreDrafts DEF ClusteringInv, ClusteringShape
<1>4. CASE cdraft[t].kind \in {"none", "keep"}
  <2>1. Touched(t) = {} /\ clusters' = clusters
    BY <1>4, TouchedByDraft DEF Store, Written
  <2>2. craced' = craced /\ anchored' = anchored
    BY <2>1 DEF Store, LookedAt
  <2>3. \A u \in Sightings : Decided(u)' => Decided(u) /\ cdraft'[u] = cdraft[u] /\ ref'[u] = ref[u]
    BY DEF Store, Decided, ClusteringInv, ClusteringShape
  <2>4. DraftsInv'
    <3>1. \A u \in Sightings : Decided(u)' => Drafted(u)' /\ (StillSo(u) => StillSo(u)') /\ Touched(u)' = Touched(u)
      BY <2>1, <2>3 DEF ClusteringInv, DraftsInv, Drafted, StillSo, Touched, ClustersOf, Primary, MemberOf
    <3> QED BY <2>2, <2>3, <3>1 DEF ClusteringInv, DraftsInv
  <2>5. SplitInv'
    BY <2>1, <2>2 DEF ClusteringInv, SplitInv, InOne, ClustersOf, Primary, MemberOf, Blamed, Reached, CountedRight,
                      Store, ClusteringShape
  <2> QED BY <1>2, <2>1, <2>4, <2>5 DEF ClusteringInv, ClusteringShape
<1> QED BY <1>1, <1>3, <1>4

\* A step that stores nothing, and of which no decision comes.
LEMMA StepKeepsClusters ==
  ASSUME ClusteringInv, UNCHANGED <<clusters, craced, anchored>>, ClusteringShape',
         \A u \in Sightings : Decided(u)' => Decided(u) /\ cdraft'[u] = cdraft[u] /\ ref'[u] = ref[u],
         \A u \in Sightings : cpc'[u] = "failed" => {u, ref'[u]} \cap Blamed # {}
  PROVE  ClusteringInv'
<1>1. DraftsInv'
  <2>1. \A u \in Sightings : Decided(u)' => Drafted(u)' /\ (StillSo(u) => StillSo(u)') /\ Touched(u)' = Touched(u)
    BY DEF ClusteringInv, DraftsInv, Drafted, StillSo, Touched, ClustersOf, Primary, MemberOf
  <2> QED BY <2>1 DEF ClusteringInv, DraftsInv
<1>2. SplitInv'
  BY DEF ClusteringInv, SplitInv, InOne, ClustersOf, Primary, MemberOf, Blamed, Reached, CountedRight
<1> QED BY <1>1, <1>2 DEF ClusteringInv

\* A lookup decides on what is there; several rows are found only of the blamed.
LEMMA LookUpKeepsClusters ==
  ASSUME ClusteringInv, NEW t \in Sightings, LookUp(t)
  PROVE  ClusteringInv'
<1>1. /\ cdraft' = [cdraft EXCEPT ![t] = Plan(t)] /\ cpc'[t] # "failed" /\ cpc'[t] # "absent"
      /\ \A u \in Sightings \ {t} : cpc'[u] = cpc[u] /\ cdraft'[u] = cdraft[u]
      /\ cdraft'[t] = Plan(t) /\ cpc' = [u \in Sightings |-> cpc'[u]]
      /\ t \in present /\ ref[t] \in present /\ ref[t] \in Sightings
      /\ UNCHANGED <<present, ref, clusters, craced, anchored>>
  BY DEF ClusteringInv, ClusteringShape, LookUp
<1> DEFINE c == CHOOSE c \in ClusterOf(ref[t]) : TRUE
<1>2. \/ Plan(t) = Keep
      \/ /\ MemberOf(t) = {} /\ ClustersOf(ref[t]) = {}
         /\ Plan(t) = Found(ref[t], t) \/ Plan(t) = Found(t, ref[t])
      \/ /\ MemberOf(t) = {} /\ c \in ClusterOf(ref[t]) /\ clusters[c].primary # t
         /\ Plan(t) = JoinCluster(c)
  BY DEF Plan, ClusterOf, ClustersOf
<1>3. ClusteringShape'
  BY <1>1, <1>2 DEF ClusteringInv, ClusteringShape, Keep, Found, JoinCluster
<1>4. c \in ClusterOf(ref[t]) => c \in DOMAIN clusters /\ clusters[c].count \in Nat
  <2>1. ClusterOf(ref[t]) \subseteq DOMAIN clusters
    BY DEF ClusterOf, Primary, MemberOf
  <2> HIDE DEF c
  <2> SUFFICES ASSUME c \in ClusterOf(ref[t])  PROVE c \in DOMAIN clusters /\ clusters[c].count \in Nat
    OBVIOUS
  <2>2. c \in DOMAIN clusters /\ clusters \in Seq(Cluster)
    BY <2>1 DEF ClusteringInv, ClusteringShape
  <2>3. clusters[c] \in Cluster
    BY <2>2
  <2> QED BY <2>2, <2>3 DEF Cluster
<1> HIDE DEF c
<1>5. Decided(t)' => Drafted(t)' /\ StillSo(t)'
  BY <1>1, <1>2, <1>4 DEF Decided, Drafted, StillSo, Keep, Found, JoinCluster, ClustersOf, Primary, MemberOf
<1>6. ASSUME NEW u \in Sightings \ {t}, Decided(u)'
      PROVE  Drafted(u)' /\ (StillSo(u)' \/ (Touched(u) \subseteq craced)')
  <2>1. Drafted(u)' = Drafted(u) /\ StillSo(u)' = StillSo(u) /\ Touched(u)' = Touched(u)
    BY <1>1 DEF Drafted, StillSo, Touched, ClustersOf, Primary, MemberOf
  <2>2. Decided(u)
    BY <1>1, <1>6 DEF Decided
  <2> QED BY <1>1, <2>1, <2>2 DEF ClusteringInv, DraftsInv
<1>7. SplitInv'
  BY <1>1 DEF ClusteringInv, SplitInv, InOne, ClustersOf, Primary, MemberOf, Blamed, Reached, CountedRight
<1> QED BY <1>3, <1>5, <1>6, <1>7 DEF ClusteringInv, DraftsInv

\* A set of which all members are equal has one member at most.
LEMMA OneAtMost ==
  ASSUME NEW S, \A c, d \in S : c = d
  PROVE  IsFiniteSet(S) /\ Cardinality(S) <= 1
<1>1. CASE S = {}
  BY <1>1, FS_EmptySet
<1>2. CASE S # {}
  <2>1. PICK c \in S : TRUE
    BY <1>2
  <2>2. S = {c}
    BY <2>1
  <2>3. IsFiniteSet({c}) /\ Cardinality({c}) = 1
    BY FS_Singleton
  <2> QED BY <2>2, <2>3
<1> QED BY <1>1, <1>2

\* An ambiguous lookup: one of the two reports is in two clusters already.
LEMMA StuckKeepsClusters ==
  ASSUME ClusteringInv, NEW t \in Sightings, Stuck(t)
  PROVE  ClusteringInv'
<1>1. {t, ref[t]} \cap Blamed # {}
  <2>1. SUFFICES ASSUME t \notin Blamed, ref[t] \notin Blamed  PROVE FALSE
    OBVIOUS
  <2>2. InOne(t) /\ InOne(ref[t])
    BY <2>1 DEF ClusteringInv, SplitInv, ClusteringShape
  <2>3. /\ Cardinality(MemberOf(t)) <= 1 /\ Cardinality(MemberOf(ref[t])) <= 1
        /\ Cardinality(Primary(ref[t])) <= 1
    BY <2>2, OneAtMost DEF InOne, ClustersOf
  <2>4. /\ Cardinality(MemberOf(t)) \in Nat /\ Cardinality(MemberOf(ref[t])) \in Nat
        /\ Cardinality(Primary(ref[t])) \in Nat
    BY <2>2, OneAtMost, FS_CardinalityType DEF InOne, ClustersOf
  <2> QED BY <2>3, <2>4 DEF Stuck, Ambiguous
<1>2. ClusteringShape'
  BY DEF ClusteringInv, ClusteringShape, Stuck
<1>3. \A u \in Sightings : Decided(u)' => Decided(u) /\ cdraft'[u] = cdraft[u] /\ ref'[u] = ref[u]
  BY DEF ClusteringInv, ClusteringShape, Stuck, Decided
<1>4. \A u \in Sightings : cpc'[u] = "failed" => {u, ref'[u]} \cap Blamed # {}
  BY <1>1 DEF ClusteringInv, ClusteringShape, SplitInv, Stuck
<1> QED BY <1>2, <1>3, <1>4, StepKeepsClusters DEF Stuck

\* The comparison chooses a stored report, or none.
LEMMA ComparedWith ==
  ASSUME NEW t \in Sightings, Compare(t)
  PROVE  \E r \in present \cup {t} : \E p \in {"look", "lock"} : ref' = [ref EXCEPT ![t] = r] /\ cpc' = [cpc EXCEPT ![t] = p]
<1>1. \A s \in Neighbourhood(t) : BestMatch(t, s) \subseteq present
  <2>1. \A s \in Neighbourhood(t) : s \subseteq present
    BY DEF Neighbourhood, InReach
  <2>2. \A s : BestMatch(t, s) \subseteq s
    BY Zenon DEF BestMatch
  <2> QED BY <2>1, <2>2
<1>2. \/ \E s \in Neighbourhood(t) : \E r \in BestMatch(t, s) : ref' = [ref EXCEPT ![t] = r] /\ cpc' = [cpc EXCEPT ![t] = "look"]
      \/ ref' = [ref EXCEPT ![t] = t] /\ cpc' = [cpc EXCEPT ![t] = "lock"]
  BY Zenon DEF Compare
<1> QED BY <1>1, <1>2

\* A comparison decides nothing about clusters.
LEMMA CompareKeepsClusters ==
  ASSUME ClusteringInv, NEW t \in Sightings, Compare(t)
  PROVE  ClusteringInv'
<1>1. PICK r \in present \cup {t}, p \in {"look", "lock"} : ref' = [ref EXCEPT ![t] = r] /\ cpc' = [cpc EXCEPT ![t] = p]
  BY ComparedWith
<1>2. cpc[t] = "evaluate" /\ cdraft' = [cdraft EXCEPT ![t] = NoPlan] /\ UNCHANGED <<present, clusters, craced, anchored>>
  BY Zenon DEF Compare
<1>3. ClusteringShape'
  BY <1>1, <1>2 DEF ClusteringInv, ClusteringShape, NoPlan
<1>4. \A u \in Sightings : Decided(u)' => Decided(u) /\ cdraft'[u] = cdraft[u] /\ ref'[u] = ref[u]
  BY <1>1, <1>2 DEF ClusteringInv, ClusteringShape, Decided, NoPlan
<1>5. \A u \in Sightings : cpc'[u] = "failed" => {u, ref'[u]} \cap Blamed # {}
  BY <1>1, <1>2 DEF ClusteringInv, ClusteringShape, SplitInv
<1> QED BY <1>2, <1>3, <1>4, <1>5, StepKeepsClusters

\* A transaction that the database ends had begun.
LEMMA AbortKeepsClusters ==
  ASSUME ClusteringInv, NEW t \in Sightings, Abort(t)
  PROVE  ClusteringInv'
<1>1. WaitedFor(t) # {}
  BY DEF Abort, InCycle
<1>2. cpc[t] # "absent"
  BY <1>1 DEF WaitedFor
<1>3. /\ cpc' = [cpc EXCEPT ![t] = "queued"] /\ cdraft' = [cdraft EXCEPT ![t] = NoPlan]
      /\ UNCHANGED <<present, ref, clusters, craced, anchored>>
  BY DEF Abort
<1>4. ClusteringShape'
  BY <1>2, <1>3 DEF ClusteringInv, ClusteringShape, NoPlan
<1>5. \A u \in Sightings : Decided(u)' => Decided(u) /\ cdraft'[u] = cdraft[u] /\ ref'[u] = ref[u]
  BY <1>3 DEF ClusteringInv, ClusteringShape, Decided, NoPlan
<1>6. \A u \in Sightings : cpc'[u] = "failed" => {u, ref'[u]} \cap Blamed # {}
  BY <1>3 DEF ClusteringInv, ClusteringShape, SplitInv
<1> QED BY <1>3, <1>4, <1>5, <1>6, StepKeepsClusters

\* The steps that only move a task on or lock rows.
LEMMA OthersKeepClusters ==
  ASSUME ClusteringInv, NEW t \in Sightings,
         Arrive(t) \/ StartStage(t) \/ WriteMember(t) \/ LockRow(t) \/ Retry(t) \/ Rerun(t)
  PROVE  ClusteringInv'
<1>1. UNCHANGED <<ref, cdraft, clusters, craced, anchored>>
  BY DEF Arrive, StartStage, WriteMember, LockRow, Retry, Rerun
<1>2. \E p : /\ cpc' = [cpc EXCEPT ![t] = p] /\ p \notin {"absent", "failed"}
             /\ p \in {"write", "lock", "store"} => cpc[t] \in {"write", "lock", "store"}
  BY DEF Arrive, StartStage, WriteMember, LockRow, Retry, Rerun
<1>3. present \subseteq present' /\ present' \subseteq present \cup {t} /\ (cpc[t] = "absent" => t \in present')
  BY DEF Arrive, StartStage, WriteMember, LockRow, Retry, Rerun
<1>4. ClusteringShape'
  BY <1>1, <1>2, <1>3 DEF ClusteringInv, ClusteringShape
<1>5. \A u \in Sightings : Decided(u)' => Decided(u) /\ cdraft'[u] = cdraft[u] /\ ref'[u] = ref[u]
  BY <1>1, <1>2 DEF ClusteringInv, ClusteringShape, Decided
<1>6. \A u \in Sightings : cpc'[u] = "failed" => {u, ref'[u]} \cap Blamed # {}
  BY <1>1, <1>2 DEF ClusteringInv, ClusteringShape, SplitInv
<1> QED BY <1>1, <1>4, <1>5, <1>6, StepKeepsClusters

\* No clusters at the start.
LEMMA ClusteringStart == ClusteringInit => ClusteringInv
<1> SUFFICES ASSUME ClusteringInit  PROVE ClusteringInv
  OBVIOUS
<1>1. \A r : ClustersOf(r) = {}
  BY DEF ClusteringInit, ClustersOf, Primary, MemberOf
<1>2. \A t \in Sightings : cpc[t] = "absent" /\ cdraft[t].kind = "none"
  BY DEF ClusteringInit, NoPlan
<1> QED BY <1>1, <1>2 DEF ClusteringInit, ClusteringInv, ClusteringShape, DraftsInv, SplitInv, InOne, Decided

\* A report is in two clusters, a cluster miscounts or a stage is stuck only on
\* account of a race that is recorded, or of a report that was a primary before
\* its own stage ran (_attach_to_cluster); the locks exclude none of the races.
THEOREM SplitsAreRaces == ClusteringSpec => []OnlyRacesSplit
<1>1. ClusteringInv => OnlyRacesSplit
  <2> SUFFICES ASSUME ClusteringInv  PROVE OnlyRacesSplit
    OBVIOUS
  <2>1. ASSUME NEW r \in present \ Blamed  PROVE Cardinality(ClustersOf(r)) <= 1
    BY <2>1, OneAtMost DEF ClusteringInv, SplitInv, InOne, ClusteringShape
  <2>2. ASSUME NEW c \in DOMAIN clusters, ({clusters[c].primary} \cup clusters[c].members) \cap Blamed = {}
        PROVE  clusters[c].count = Cardinality(clusters[c].members) + 1
    BY <2>2 DEF ClusteringInv, SplitInv, Reached, CountedRight
  <2>3. ASSUME NEW t \in present, cpc[t] = "failed"  PROVE {t, ref[t]} \cap Blamed # {}
    BY <2>3 DEF ClusteringInv, SplitInv, ClusteringShape
  <2> QED BY <2>1, <2>2, <2>3 DEF OnlyRacesSplit, Consistent
<1>2. ClusteringInv /\ [ClusteringNext]_clusteringVars => ClusteringInv'
  <2> SUFFICES ASSUME ClusteringInv, [ClusteringNext]_clusteringVars  PROVE ClusteringInv'
    OBVIOUS
  <2>1. CASE UNCHANGED clusteringVars
    <3>1. ClusteringShape' /\ \A u \in Sightings : Decided(u)' = Decided(u)
      BY <2>1 DEF clusteringVars, ClusteringInv, ClusteringShape, Decided
    <3> QED BY <2>1, <3>1, StepKeepsClusters DEF clusteringVars, ClusteringInv, SplitInv
  <2> QED BY <2>1, StoreKeepsClusters, LookUpKeepsClusters, StuckKeepsClusters, CompareKeepsClusters,
             AbortKeepsClusters, OthersKeepClusters DEF ClusteringNext, ClusteringStep
<1> QED BY <1>1, <1>2, ClusteringStart, PTL DEF ClusteringSpec

-----------------------------------------------------------------------------
(* What the locks do keep apart. *)

\* A row that is locked for update is locked by one task and shared by no
\* other; a task that is not running holds nothing; a task stores its pair
\* under the locks of both rows (handlers.py:217-233); and no two tasks have
\* written members to one cluster and not committed.
ClusterLocks ==
  /\ \A r, t, u \in Sightings : t \in cowner[r] /\ u \in cowner[r] \cup csharer[r] => t = u
  /\ \A t \in Sightings : cpc[t] \in {"absent", "queued", "failed", "done"} =>
       \A r \in Sightings : t \notin cowner[r] \cup csharer[r]
  /\ \A t \in Sightings : cpc[t] = "store" => cowner[t] = {t} /\ cowner[ref[t]] = {t}
  /\ \A t, u \in Sightings :
       /\ t # u /\ {cpc[t], cpc[u]} \subseteq {"lock", "store"}
       /\ cdraft[t].kind = "join" /\ cdraft[u].kind = "join"
       => cdraft[t].cluster # cdraft[u].cluster

LocksInv ==
  /\ ClusterLocks
  /\ ref \in [Sightings -> Sightings] /\ present \subseteq Sightings
  /\ \A t \in Sightings : cpc[t] # "absent" => t \in present
  /\ cpc = [t \in Sightings |-> cpc[t]] /\ cdraft = [t \in Sightings |-> cdraft[t]]
  /\ cowner \in [Sightings -> SUBSET Sightings] /\ csharer \in [Sightings -> SUBSET Sightings]

\* A task that ends, with or without success, gives all its locks back.
LEMMA EndFrees ==
  ASSUME LocksInv, NEW t \in Sightings, NEW p \in {"queued", "failed", "done"}, cpc' = [cpc EXCEPT ![t] = p],
         cowner' = [r \in Sightings |-> cowner[r] \ {t}], csharer' = [r \in Sightings |-> csharer[r] \ {t}],
         cpc[t] # "absent", UNCHANGED <<present, ref>>, cdraft' = [cdraft EXCEPT ![t] = NoPlan] \/ UNCHANGED cdraft
  PROVE  LocksInv'
<1>1. \A u \in Sightings \ {t} : cpc'[u] = cpc[u] /\ cdraft'[u] = cdraft[u]
  BY DEF LocksInv
<1>2. cpc'[t] = p
  BY DEF LocksInv
<1>3. \A r \in Sightings : cowner'[r] = cowner[r] \ {t} /\ csharer'[r] = csharer[r] \ {t}
  OBVIOUS
<1>4. \A r, v, u \in Sightings : v \in cowner'[r] /\ u \in cowner'[r] \cup csharer'[r] => v = u
  BY <1>3 DEF LocksInv, ClusterLocks
<1>5. \A v \in Sightings : cpc'[v] \in {"absent", "queued", "failed", "done"} =>
        \A r \in Sightings : v \notin cowner'[r] \cup csharer'[r]
  BY <1>1, <1>3 DEF LocksInv, ClusterLocks
<1>6. \A v \in Sightings : cpc'[v] = "store" => cowner'[v] = {v} /\ cowner'[ref'[v]] = {v}
  BY <1>1, <1>2, <1>3 DEF LocksInv, ClusterLocks
<1>7. \A v, u \in Sightings :
        /\ v # u /\ {cpc'[v], cpc'[u]} \subseteq {"lock", "store"}
        /\ cdraft'[v].kind = "join" /\ cdraft'[u].kind = "join"
        => cdraft'[v].cluster # cdraft'[u].cluster
  BY <1>1, <1>2 DEF LocksInv, ClusterLocks
<1>8. ClusterLocks'
  BY <1>4, <1>5, <1>6, <1>7 DEF ClusterLocks
<1>9. cowner' \in [Sightings -> SUBSET Sightings] /\ csharer' \in [Sightings -> SUBSET Sightings]
  BY DEF LocksInv
<1> QED BY <1>8, <1>9 DEF LocksInv

\* A step that takes no lock and writes to no cluster.
LEMMA MoveKeepsLocks ==
  ASSUME LocksInv, NEW t \in Sightings, NEW p, cpc' = [cpc EXCEPT ![t] = p], UNCHANGED <<cowner, csharer>>,
         p \notin {"store", "absent", "queued", "failed", "done"}, cpc[t] # "absent",
         ref' \in [Sightings -> Sightings], present' = present, cdraft' = [q \in Sightings |-> cdraft'[q]],
         \A u \in Sightings \ {t} : ref'[u] = ref[u] /\ cdraft'[u] = cdraft[u],
         p = "lock" => cdraft'[t].kind # "join"
  PROVE  LocksInv'
<1>1. \A u \in Sightings \ {t} : cpc'[u] = cpc[u]
  BY DEF LocksInv
<1>2. cpc'[t] = p
  BY DEF LocksInv
<1>3. \A v \in Sightings : cpc'[v] \in {"absent", "queued", "failed", "done"} =>
        \A r \in Sightings : v \notin cowner[r] \cup csharer[r]
  BY <1>1, <1>2 DEF LocksInv, ClusterLocks
<1>4. \A v \in Sightings : cpc'[v] = "store" => cowner[v] = {v} /\ cowner[ref'[v]] = {v}
  BY <1>1, <1>2 DEF LocksInv, ClusterLocks
<1>5. \A v, u \in Sightings :
        /\ v # u /\ {cpc'[v], cpc'[u]} \subseteq {"lock", "store"}
        /\ cdraft'[v].kind = "join" /\ cdraft'[u].kind = "join"
        => cdraft'[v].cluster # cdraft'[u].cluster
  BY <1>1, <1>2 DEF LocksInv, ClusterLocks
<1>6. ClusterLocks'
  BY <1>3, <1>4, <1>5 DEF LocksInv, ClusterLocks
<1>7. cpc' = [q \in Sightings |-> cpc'[q]]
  BY DEF LocksInv
<1> QED BY <1>6, <1>7 DEF LocksInv

\* Shares are taken of rows that nobody else has locked, and the cluster's row
\* when no other task has written to it.
LEMMA WriteKeepsLocks ==
  ASSUME LocksInv, NEW t \in Sightings, WriteMember(t) PROVE LocksInv'
<1>1. /\ cpc' = [cpc EXCEPT ![t] = "lock"] /\ UNCHANGED <<present, ref, cdraft, cowner>>
      /\ csharer' = [r \in Sightings |-> IF r \in RefersTo(t) THEN csharer[r] \cup {t} ELSE csharer[r]]
      /\ cpc[t] = "write" /\ CanWrite(t)
  BY DEF WriteMember
<1>2. \A u \in Sightings \ {t} : cpc'[u] = cpc[u]
  BY <1>1 DEF LocksInv
<1>3. cpc'[t] = "lock"
  BY <1>1 DEF LocksInv
<1>4. \A r \in Sightings : csharer'[r] = IF r \in RefersTo(t) THEN csharer[r] \cup {t} ELSE csharer[r]
  BY <1>1
<1>5. \A r \in RefersTo(t) : cowner[r] \subseteq {t}
  BY <1>1 DEF CanWrite, SharesOf
<1>6. \A r, v, u \in Sightings : v \in cowner[r] /\ u \in cowner[r] \cup csharer'[r] => v = u
  <2> SUFFICES ASSUME NEW r \in Sightings, NEW v \in cowner[r], NEW u \in cowner[r] \cup csharer'[r],
                      v \in Sightings, u \in Sightings
               PROVE  v = u
    OBVIOUS
  <2>1. CASE u \in cowner[r] \cup csharer[r]
    BY <2>1 DEF LocksInv, ClusterLocks
  <2>2. CASE u = t /\ r \in RefersTo(t)
    BY <1>5, <2>2
  <2> QED BY <1>4, <2>1, <2>2
<1>7. ASSUME NEW v \in Sightings, cpc'[v] \in {"absent", "queued", "failed", "done"}, NEW r \in Sightings
      PROVE  v \notin cowner[r] \cup csharer'[r]
  <2>1. v # t /\ cpc[v] \in {"absent", "queued", "failed", "done"}
    BY <1>2, <1>3, <1>7
  <2>2. v \notin cowner[r] \cup csharer[r]
    BY <2>1 DEF LocksInv, ClusterLocks
  <2> QED BY <1>4, <2>1, <2>2
<1>8. \A v \in Sightings : cpc'[v] = "store" => cowner[v] = {v} /\ cowner[ref[v]] = {v}
  BY <1>2, <1>3 DEF LocksInv, ClusterLocks
<1>9. ASSUME NEW u \in Sightings \ {t}, cpc[u] \in {"lock", "store"}, cdraft[u].kind = "join", cdraft[t].kind = "join"
      PROVE  cdraft[u].cluster # cdraft[t].cluster
  BY <1>1, <1>9 DEF CanWrite, Busy
<1>10. \A v, u \in Sightings :
        /\ v # u /\ {cpc'[v], cpc'[u]} \subseteq {"lock", "store"}
        /\ cdraft[v].kind = "join" /\ cdraft[u].kind = "join"
        => cdraft[v].cluster # cdraft[u].cluster
  BY <1>2, <1>9 DEF LocksInv, ClusterLocks
<1>11. ClusterLocks'
  BY <1>1, <1>6, <1>7, <1>8, <1>10 DEF ClusterLocks
<1>12. csharer' \in [Sightings -> SUBSET Sightings] /\ cpc' = [q \in Sightings |-> cpc'[q]]
  BY <1>1 DEF LocksInv
<1> QED BY <1>1, <1>11, <1>12 DEF LocksInv

\* A row is locked for update when nobody else locks or shares it.
LEMMA OwnKeepsLocks ==
  ASSUME LocksInv, NEW t \in Sightings, NEW p, cpc' = [cpc EXCEPT ![t] = p],
         p \in {"evaluate", "lock", "store"}, UNCHANGED <<present, ref, cdraft, csharer>>,
         NEW Row \in SUBSET Sightings, \A r \in Row : LocksOf(r, t),
         cowner' = [r \in Sightings |-> IF r \in Row THEN {t} ELSE cowner[r]],
         p \in {"lock", "store"} => cpc[t] = "lock", cpc[t] # "absent",
         p = "store" => cowner'[t] = {t} /\ cowner'[ref[t]] = {t}
  PROVE  LocksInv'
<1>1. \A u \in Sightings \ {t} : cpc'[u] = cpc[u]
  BY DEF LocksInv
<1>2. cpc'[t] = p
  BY DEF LocksInv
<1>3. \A r \in Sightings : cowner'[r] = IF r \in Row THEN {t} ELSE cowner[r]
  OBVIOUS
<1>4. \A r \in Row : cowner[r] \subseteq {t} /\ csharer[r] \subseteq {t}
  BY DEF LocksOf
<1>5. \A r, v, u \in Sightings : v \in cowner'[r] /\ u \in cowner'[r] \cup csharer[r] => v = u
  BY <1>3, <1>4 DEF LocksInv, ClusterLocks
<1>6. \A v \in Sightings : cpc'[v] \in {"absent", "queued", "failed", "done"} =>
        \A r \in Sightings : v \notin cowner'[r] \cup csharer[r]
  BY <1>1, <1>2, <1>3 DEF LocksInv, ClusterLocks
<1>7. ASSUME NEW v \in Sightings, cpc'[v] = "store"  PROVE cowner'[v] = {v} /\ cowner'[ref[v]] = {v}
  <2>1. CASE v = t
    BY <1>2, <1>7, <2>1
  <2>2. CASE v # t
    <3>1. cowner[v] = {v} /\ cowner[ref[v]] = {v} /\ ref[v] \in Sightings
      BY <1>1, <1>7, <2>2 DEF LocksInv, ClusterLocks
    <3>2. v \notin Row /\ ref[v] \notin Row
      BY <1>4, <2>2, <3>1
    <3> QED BY <1>3, <3>1, <3>2
  <2> QED BY <2>1, <2>2
<1>8. \A v, u \in Sightings :
        /\ v # u /\ {cpc'[v], cpc'[u]} \subseteq {"lock", "store"}
        /\ cdraft[v].kind = "join" /\ cdraft[u].kind = "join"
        => cdraft[v].cluster # cdraft[u].cluster
  BY <1>1, <1>2 DEF LocksInv, ClusterLocks
<1>9. ClusterLocks'
  <2>1. ref' = ref /\ cdraft' = cdraft /\ csharer' = csharer
    OBVIOUS
  <2>2. \A r, v, u \in Sightings : v \in cowner'[r] /\ u \in cowner'[r] \cup csharer'[r] => v = u
    BY <1>5, <2>1
  <2>3. \A v \in Sightings : cpc'[v] \in {"absent", "queued", "failed", "done"} =>
          \A r \in Sightings : v \notin cowner'[r] \cup csharer'[r]
    BY <1>6, <2>1
  <2>4. \A v \in Sightings : cpc'[v] = "store" => cowner'[v] = {v} /\ cowner'[ref'[v]] = {v}
    BY <1>7, <2>1
  <2>5. \A v, u \in Sightings :
          /\ v # u /\ {cpc'[v], cpc'[u]} \subseteq {"lock", "store"}
          /\ cdraft'[v].kind = "join" /\ cdraft'[u].kind = "join"
          => cdraft'[v].cluster # cdraft'[u].cluster
    BY <1>8, <2>1
  <2> QED BY <2>2, <2>3, <2>4, <2>5 DEF ClusterLocks
<1>10. cowner' \in [Sightings -> SUBSET Sightings] /\ cpc' = [q \in Sightings |-> cpc'[q]]
  BY DEF LocksInv
<1> QED BY <1>9, <1>10 DEF LocksInv

\* A stage starts with its report's row, or without a lock.
LEMMA StartKeepsLocks ==
  ASSUME LocksInv, NEW t \in Sightings, StartStage(t) PROVE LocksInv'
<1> DEFINE Row == IF t \in located THEN {} ELSE {t}
<1>1. PICK p : p = "evaluate" /\ cpc' = [cpc EXCEPT ![t] = p] /\ cpc[t] = "queued"
  BY DEF StartStage
<1>2. \A r \in Row : LocksOf(r, t)
  BY DEF StartStage
<1>3. cowner' = [r \in Sightings |-> IF r \in Row THEN {t} ELSE cowner[r]]
  <2>1. CASE t \in located
    <3>1. cowner' = cowner
      BY <2>1 DEF StartStage
    <3>2. cowner = [r \in Sightings |-> cowner[r]]
      BY DEF LocksInv
    <3> QED BY <2>1, <3>1, <3>2
  <2>2. CASE t \notin located
    BY <2>2 DEF StartStage, LocksInv
  <2> QED BY <2>1, <2>2
<1>4. Row \in SUBSET Sightings
  OBVIOUS
<1>5. UNCHANGED <<present, ref, cdraft, csharer>>
  BY DEF StartStage
<1>6. /\ p \in {"evaluate", "lock", "store"} /\ cpc[t] # "absent" /\ (p \in {"lock", "store"} => cpc[t] = "lock")
      /\ (p = "store" => cowner'[t] = {t} /\ cowner'[ref[t]] = {t})
  BY <1>1
<1> HIDE DEF Row
<1> QED BY <1>1, <1>2, <1>3, <1>4, <1>5, <1>6, OwnKeepsLocks

LEMMA LockKeepsLocks ==
  ASSUME LocksInv, NEW t \in Sightings, LockRow(t) PROVE LocksInv'
<1>1. PICK p \in {"lock", "store"} : cpc' = [cpc EXCEPT ![t] = p] /\ (p = "store" <=> NextRow(t) = {})
  BY DEF LockRow
<1>2. /\ UNCHANGED <<present, ref, cdraft, csharer>> /\ \A r \in NextRow(t) : LocksOf(r, t)
      /\ cowner' = [r \in Sightings |-> IF r \in NextRow(t) THEN {t} ELSE cowner[r]]
      /\ cpc[t] = "lock"
  BY DEF LockRow
<1>3. ref[t] \in Sightings
  BY DEF LocksInv
<1>4. NextRow(t) = {} => cowner[t] = {t} /\ cowner[ref[t]] = {t}
  BY DEF NextRow
<1>5. cowner' = [r \in Sightings |-> IF r \in NextRow(t) \cap Sightings THEN {t} ELSE cowner[r]]
  BY <1>2
<1>6. p = "store" => cowner'[t] = {t} /\ cowner'[ref[t]] = {t}
  BY <1>1, <1>2, <1>3, <1>4
<1> DEFINE Row == NextRow(t) \cap Sightings
<1>7. Row \in SUBSET Sightings /\ \A r \in Row : LocksOf(r, t)
  BY <1>2
<1>8. cowner' = [r \in Sightings |-> IF r \in Row THEN {t} ELSE cowner[r]]
  BY <1>5
<1> HIDE DEF Row
<1> QED BY <1>1, <1>2, <1>6, <1>7, <1>8, OwnKeepsLocks

\* A lookup that finds the report in a cluster already leaves nothing to write.
LEMMA LookKeepsLocks ==
  ASSUME LocksInv, NEW t \in Sightings, Compare(t) \/ LookUp(t) PROVE LocksInv'
<1>1. CASE Compare(t)
  <2>1. PICK r \in Sightings, p \in {"look", "lock"} : ref' = [ref EXCEPT ![t] = r] /\ cpc' = [cpc EXCEPT ![t] = p]
    BY <1>1 DEF Compare, Neighbourhood, InReach, BestMatch, LocksInv
  <2>2. cdraft' = [cdraft EXCEPT ![t] = NoPlan] /\ UNCHANGED <<present, cowner, csharer>>
    BY <1>1 DEF Compare
  <2>3. cdraft'[t].kind # "join" /\ \A u \in Sightings \ {t} : ref'[u] = ref[u] /\ cdraft'[u] = cdraft[u]
    BY <2>1, <2>2 DEF LocksInv, NoPlan
  <2>4. ref' \in [Sightings -> Sightings] /\ cdraft' = [q \in Sightings |-> cdraft'[q]] /\ present' = present /\ cpc[t] # "absent"
    BY <1>1, <2>1, <2>2 DEF LocksInv, Compare
  <2> QED BY <2>1, <2>2, <2>3, <2>4, MoveKeepsLocks
<1>2. CASE LookUp(t)
  <2>1. PICK p \in {"write", "lock"} : cpc' = [cpc EXCEPT ![t] = p] /\ (p = "lock" => Plan(t).kind = "keep")
    BY <1>2 DEF LookUp
  <2>2. cdraft' = [cdraft EXCEPT ![t] = Plan(t)] /\ UNCHANGED <<present, ref, cowner, csharer>>
    BY <1>2 DEF LookUp
  <2>3. \A u \in Sightings \ {t} : ref'[u] = ref[u] /\ cdraft'[u] = cdraft[u]
    BY <2>2 DEF LocksInv
  <2>4. cdraft'[t] = Plan(t) /\ cdraft' = [q \in Sightings |-> cdraft'[q]]
    BY <2>2 DEF LocksInv
  <2>5. p = "lock" => cdraft'[t].kind # "join"
    BY <2>1, <2>4
  <2>6. ref' \in [Sightings -> Sightings] /\ present' = present /\ cpc[t] # "absent"
    BY <1>2, <2>2 DEF LocksInv, LookUp
  <2> QED BY <2>1, <2>2, <2>3, <2>4, <2>5, <2>6, MoveKeepsLocks
<1> QED BY <1>1, <1>2

LEMMA RestKeepsLocks ==
  ASSUME LocksInv, NEW t \in Sightings, Arrive(t) \/ Retry(t) \/ Rerun(t) PROVE LocksInv'
<1>1. cpc' = [cpc EXCEPT ![t] = "queued"] /\ UNCHANGED <<ref, cdraft, cowner, csharer>>
  BY DEF Arrive, Retry, Rerun
<1>2. present' \subseteq Sightings
  BY DEF Arrive, Retry, Rerun, LocksInv
<1>3. \A r \in Sightings : t \notin cowner[r] \cup csharer[r]
  BY DEF Arrive, Retry, Rerun, LocksInv, ClusterLocks
<1>4. \A u \in Sightings : cpc'[u] # "absent" => u \in present'
  BY <1>1 DEF Arrive, Retry, Rerun, LocksInv
<1>5. \A u \in Sightings : cpc'[u] = IF u = t THEN "queued" ELSE cpc[u]
  BY <1>1 DEF LocksInv
<1>6. ClusterLocks'
  <2>1. ref' = ref /\ cdraft' = cdraft /\ csharer' = csharer /\ cowner' = cowner
    BY <1>1
  <2>2. \A v \in Sightings : cpc'[v] \in {"absent", "queued", "failed", "done"} =>
          \A r \in Sightings : v \notin cowner[r] \cup csharer[r]
    BY <1>3, <1>5 DEF LocksInv, ClusterLocks
  <2>3. \A v \in Sightings : cpc'[v] = "store" => cowner[v] = {v} /\ cowner[ref[v]] = {v}
    BY <1>5 DEF LocksInv, ClusterLocks
  <2>4. \A v, u \in Sightings :
          /\ v # u /\ {cpc'[v], cpc'[u]} \subseteq {"lock", "store"}
          /\ cdraft[v].kind = "join" /\ cdraft[u].kind = "join"
          => cdraft[v].cluster # cdraft[u].cluster
    BY <1>5 DEF LocksInv, ClusterLocks
  <2> QED BY <2>1, <2>2, <2>3, <2>4 DEF LocksInv, ClusterLocks
<1>7. cpc' = [u \in Sightings |-> cpc'[u]]
  BY <1>1 DEF LocksInv
<1> QED BY <1>1, <1>2, <1>4, <1>6, <1>7 DEF LocksInv

\* The locks of clustering exclude what they are there to exclude: two tasks
\* that write one row or one cluster in turns.  They do not make a task look
\* again under them, so splits are left to OnlyRacesSplit.
THEOREM ClustersAreLocked == ClusteringSpec => []ClusterLocks
<1>1. ClusteringInit => LocksInv
  BY DEF ClusteringInit, LocksInv, ClusterLocks, NoPlan
<1>2. LocksInv /\ [ClusteringNext]_clusteringVars => LocksInv'
  <2> SUFFICES ASSUME LocksInv, [ClusteringNext]_clusteringVars  PROVE LocksInv'
    OBVIOUS
  <2>1. CASE UNCHANGED clusteringVars
    BY <2>1 DEF clusteringVars, LocksInv, ClusterLocks
  <2>2. ASSUME NEW t \in Sightings, Stuck(t) \/ Store(t) \/ Abort(t)  PROVE LocksInv'
    <3>1. \E p \in {"queued", "failed", "done"} : cpc' = [cpc EXCEPT ![t] = p]
      BY <2>2 DEF Stuck, Store, Abort
    <3>2. /\ cowner' = [r \in Sightings |-> cowner[r] \ {t}] /\ csharer' = [r \in Sightings |-> csharer[r] \ {t}]
          /\ UNCHANGED <<present, ref>> /\ (cdraft' = [cdraft EXCEPT ![t] = NoPlan] \/ UNCHANGED cdraft)
      BY <2>2 DEF Stuck, Store, Abort
    <3>3. cpc[t] # "absent"
      BY <2>2 DEF Stuck, Store, Abort, InCycle, WaitedFor
    <3> QED BY <3>1, <3>2, <3>3, EndFrees
  <2> QED BY <2>1, <2>2, StartKeepsLocks, LookKeepsLocks, WriteKeepsLocks, LockKeepsLocks, RestKeepsLocks
          DEF ClusteringNext, ClusteringStep
<1>3. LocksInv => ClusterLocks
  BY DEF LocksInv
<1> QED BY <1>1, <1>2, <1>3, PTL DEF ClusteringSpec

=============================================================================
