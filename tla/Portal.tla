------------------------------- MODULE Portal -------------------------------
(***************************************************************************)
(* The portal while reports change: an operator walks the pages of the     *)
(* verification queue (api/v1/verification.py, get_verification_queue) and *)
(* the dashboard is computed (get_dashboard_summary).  A page is a count   *)
(* and a query, the dashboard three queries, each of them a statement that *)
(* sees what has been committed before it; ingestion, the pipeline and     *)
(* other operators commit in between.                                      *)
(***************************************************************************)
EXTENDS PortalQueries

CONSTANTS
  Rows,       \* the row each report arrives with
  Start,      \* reports stored at the start
  Scores,     \* credibility scores the pipeline assigns
  PageSize,   \* reports on a page of the queue
  MaxWrites,  \* bound: arrivals, decisions and assessments
  Filters,    \* filters of lists and charts
  Clusterings,\* contents of the cluster tables
  Links,      \* contents of the links of one report
  Advisories, \* the advisories stored
  Now         \* the time of the requests, within half an hour

\* What the columns that the queries compare may hold.
Row(r) ==
  /\ r.status \in {"PENDING", "UNDER_REVIEW", "VERIFIED", "REJECTED", "DUPLICATE"}
  /\ r.severity \in {"LOW", "MODERATE", "HIGH", "SEVERE"}
  /\ r.score \in 0 .. 100 /\ r.occurred \in 0 .. Forever /\ r.created \in 0 .. Forever

PortalAssumption ==
  /\ IsFiniteSet(DOMAIN Rows) /\ DOMAIN Rows \subseteq Nat /\ Start \subseteq DOMAIN Rows
  /\ (\A i \in DOMAIN Rows : Row(Rows[i])) /\ Scores \subseteq 0 .. 100
  /\ PageSize \in Nat \ {0} /\ MaxWrites \in Nat /\ Now \in Nat
  /\ \A c \in Clusterings : IsFiniteSet(c.members)
  /\ \A links \in Links :
       IsFiniteSet(DOMAIN links) /\ DOMAIN links \subseteq Nat /\ \A l \in DOMAIN links : links[l].score \in 0 .. 100
  /\ IsFiniteSet(DOMAIN Advisories) /\ DOMAIN Advisories \subseteq Nat
  /\ \A a \in DOMAIN Advisories : Advisories[a].until \in 0 .. Forever

VARIABLES
  table,     \* the reports stored
  writes,
  walk,      \* "none", "count", "page" or "done": where the operator's walk is
  page,      \* the page it fetches
  total,     \* the count of that page
  seen,      \* the reports it has been shown
  begun,     \* the queue as the walk began
  arrived,   \* history: reports arrived in the queue during the walk
  overtaken, \* history: one arrived between a count and its page
  disturbed, \* history: one left the queue, or two changed places
  dash,      \* "none", "categories", "diurnal" or "done"
  counts, categories, diurnal, \* the results of the three statements
  wrote      \* history: the table changed between them

walking == <<walk, page, total, seen, begun>>
causes == <<arrived, overtaken, disturbed>>
dashboard == <<dash, counts, categories, diurnal>>
portalVars == <<table, writes, walking, causes, dashboard, wrote>>

NoCounts == SummaryCounts(<<>>, Everything, Now)

PortalInit ==
  /\ table = [i \in Start |-> Rows[i]] /\ writes = 0
  /\ walk = "none" /\ page = 1 /\ total = 0 /\ seen = <<>> /\ begun = <<>>
  /\ arrived = FALSE /\ overtaken = FALSE /\ disturbed = FALSE
  /\ dash = "none" /\ counts = NoCounts /\ categories = <<>> /\ diurnal = <<>>
  /\ wrote = FALSE

Queue(t) == QueueOrder(t, "", "")

-----------------------------------------------------------------------------
(* The writers.                                                            *)
\* Every report of the one is in the other, in the same order.
Kept(old, new) ==
  /\ Range(old) \subseteq Range(new)
  /\ \A m, n \in DOMAIN old : m < n => \E k, l \in DOMAIN new : k < l /\ new[k] = old[m] /\ new[l] = old[n]

Commit(t) ==
  LET old == Queue(table)
      new == Queue(t)
      came == ~(Range(new) \subseteq Range(old)) IN
  /\ writes < MaxWrites /\ writes' = writes + 1
  /\ table' = t
  /\ arrived' = (arrived \/ (walk \in {"count", "page"} /\ came))
  /\ overtaken' = (overtaken \/ (walk = "page" /\ came))
  /\ disturbed' = (disturbed \/ (walk \in {"count", "page"} /\ ~Kept(old, new)))
  /\ wrote' = (wrote \/ dash \in {"categories", "diurnal"})
  /\ UNCHANGED <<walking, dashboard>>

IngestReport(i) ==
  i \notin DOMAIN table /\ Commit([j \in DOMAIN table \cup {i} |-> IF j = i THEN Rows[i] ELSE table[j]])

Decide(i) ==
  /\ i \in DOMAIN table
  /\ \E s \in {"VERIFIED", "REJECTED"} :
       table[i].status \in {"PENDING", "UNDER_REVIEW"} /\ Commit([table EXCEPT ![i].status = s])

Assess(i) ==
  /\ i \in DOMAIN table
  /\ \E s \in Scores : table[i].score # s /\ Commit([table EXCEPT ![i].score = s])

-----------------------------------------------------------------------------
(* The walk.                                                               *)
Begin ==
  /\ walk \in {"none", "done"} /\ walk' = "count"
  /\ page' = 1 /\ total' = 0 /\ seen' = <<>> /\ begun' = Queue(table)
  /\ arrived' = FALSE /\ overtaken' = FALSE /\ disturbed' = FALSE
  /\ UNCHANGED <<table, writes, dashboard, wrote>>

CountQueue ==
  /\ walk = "count" /\ walk' = "page"
  /\ total' = Cardinality(Queued(table, "", ""))
  /\ UNCHANGED <<table, writes, page, seen, begun, causes, dashboard, wrote>>

FetchPage ==
  LET p == Page(Queue(table), total, page, PageSize) IN
  /\ walk = "page"
  /\ seen' = seen \o p.items
  /\ IF p.hasNext THEN walk' = "count" /\ page' = page + 1
                  ELSE walk' = "done" /\ UNCHANGED page
  /\ UNCHANGED <<table, writes, total, begun, causes, dashboard, wrote>>

-----------------------------------------------------------------------------
(* The dashboard.                                                          *)
Summarise ==
  /\ dash \in {"none", "done"} /\ dash' = "categories"
  /\ counts' = SummaryCounts(table, Everything, Now)
  /\ categories' = <<>> /\ diurnal' = <<>> /\ wrote' = FALSE
  /\ UNCHANGED <<table, writes, walking, causes>>

Categorise ==
  /\ dash = "categories" /\ dash' = "diurnal"
  /\ categories' = CategoryCounts(table, Everything)
  /\ UNCHANGED <<table, writes, walking, causes, counts, diurnal, wrote>>

Distribute ==
  /\ dash = "diurnal" /\ dash' = "done"
  /\ diurnal' = DiurnalCounts(table, Everything)
  /\ UNCHANGED <<table, writes, walking, causes, counts, categories, wrote>>

Writers == \E i \in DOMAIN Rows : IngestReport(i) \/ Decide(i) \/ Assess(i)
Walk == Begin \/ CountQueue \/ FetchPage
Dashboard == Summarise \/ Categorise \/ Distribute

PortalNext == Writers \/ Walk \/ Dashboard

PortalSpec == PortalInit /\ [][PortalNext]_portalVars

-----------------------------------------------------------------------------
(* A walk over the queue misses a report that was in it from the beginning *)
(* only when one has left the queue or changed its place meanwhile, or has *)
(* arrived between a count and its page; and with no arrivals either, what *)
(* is shown is the queue, in its order and without repetition.             *)
WalkExplained ==
  walk = "done" =>
    /\ ~disturbed /\ ~overtaken => Range(begun) \subseteq Range(seen)
    /\ ~disturbed /\ ~arrived => seen = begun

Totals(f) == SumFunction([k \in DOMAIN f |-> f[k].total])
Verified(f) == SumFunction([k \in DOMAIN f |-> f[k].verified])

\* What each chart says of the same table: the charts by status, severity,
\* window and state agree, the one by day leaves out all days but its own.
ChartsAdd(f) ==
  LET n == SummaryCounts(table, f, Now)
      today == Now \div Day
      shown(range) == {i \in Aggregated(table, f) :
                         table[i].occurred \div Day \in today - TrendDays(range) + 1 .. today} IN
  /\ n.total = n.verified + n.pending + n.rejected + n.duplicate
  /\ n.total = n.severeHigh + n.moderate + n.low /\ n.severeHigh = n.severe + n.high
  /\ n.total = Totals(HourlyTrends(table, f)) /\ n.verified = Verified(HourlyTrends(table, f))
  /\ n.total = SumFunction(RegionalCounts(table, f))
  /\ \A range \in {"d7", "d30"} :
       Totals(DailyTrends(table, f, range, Now)) = Cardinality(shown(range))

(* The numbers of the dashboard add up, unless the table was written       *)
(* between its statements, and the charts of the analytics page agree.     *)
BreakdownsAdd ==
  dash = "done" =>
    /\ ~wrote => counts.total = SumFunction(categories) /\ counts.total = SumFunction(diurnal)
    /\ \A f \in Filters : ChartsAdd(f)
    /\ \A range \in {"h24", "h48", "d7", "d30"} :
         LET recent == [Everything EXCEPT !.from = TimeRange(range, 0, Now)] IN
         SummaryCounts(table, recent, Now).last24 = SummaryCounts(table, Everything, Now).last24

\* What some pages show, place by place.
OnPages(pages) ==
  [p \in UNION {{<<k, m>> : m \in DOMAIN pages[k]} : k \in DOMAIN pages} |-> pages[p[1]][p[2]]]

ListPages(f, column, up) ==
  [k \in 1 .. TotalPages(Cardinality(Listed(table, f)), PageSize) |->
     ListIncidents(table, f, column, up, k, PageSize).items]

ListsWhole(f) ==
  \A column \in {"occurred_at", "credibility_score", "created_at"}, up \in BOOLEAN :
    LET shown == OnPages(ListPages(f, column, up)) IN
    IsInjective(shown) /\ Range(shown) = Listed(table, f)

\* The pages hold each link once, and a contradiction is shown as one, and
\* nothing else is.
LinksShown(links, pages) ==
  LET shown == OnPages(pages) IN
  /\ IsInjective(shown) /\ {l.id : l \in Range(shown)} = DOMAIN links
  /\ {l.id : l \in {l \in Range(shown) : l.relationship = "CONTRADICTORY"}} =
       {l \in DOMAIN links : links[l].role = "CONTRADICTORY"}

LinksWhole(links) ==
  LET pages == 1 .. TotalPages(Cardinality(DOMAIN links), PageSize) IN
  /\ LinksShown(links, [k \in pages |-> EvidencePage(links, k, PageSize).items])
  /\ LinksShown(links, [k \in pages |-> ObservationPage(links, k, PageSize).items])

\* The detail and the cluster page of a report in one cluster at most.
ClusterShown(c) ==
  \A i \in DOMAIN table : \A p \in ClusterPage(i, table, c.clusters, c.members) :
    DetailCounts(i, c.clusters, c.members) = {[size |-> p.size, isRepresentative |-> p.representative = i]}

\* Advisories that have ended never displace one in force.
InForceFirst(limit) ==
  LET all == ForecastAdvisories(Advisories, FALSE, "", limit, Now)
      active == ForecastAdvisories(Advisories, TRUE, "", limit, Now) IN
  active = SubSeq(all, 1, Len(active))

\* A filter of what the map filters by, and as much as it shows.
MapShows(f) ==
  /\ f = [Everything EXCEPT !.statuses = f.statuses, !.box = f.box, !.hideDemo = f.hideDemo]
  /\ Cardinality(DOMAIN table) <= 500

NearbyTrusted ==
  \A i \in Range(NearbyIncidents(table, [i \in DOMAIN table |-> i], 25, {}, 50)) :
    /\ table[i].status \notin {"PENDING", "REJECTED", "DUPLICATE"}
    /\ table[i].status # "VERIFIED" => Label(table[i].score) \in {"HIGH", "VERY_HIGH"}

(* The same table looks the same from every page: the pages of a list hold *)
(* each of its reports once, the priorities divide the queue, the map has  *)
(* what the list has, what a readiness finds is shown with it (the list    *)
(* filters by the stage map, the pages also by the processing status: the  *)
(* converse does not hold), citizens see nothing near them but verified    *)
(* reports and credible ones, the pages of links hold each once and show   *)
(* the contradictions and no others as such, the two pages of a report say *)
(* the same of its cluster, and no advisory that has ended displaces one   *)
(* in force.                                                               *)
PagesAgree ==
  /\ \A f \in Filters :
       /\ ListsWhole(f)
       /\ MapShows(f) => Range(GeoIncidents(table, f, 0, 500, Now)) = Listed(table, f)
       /\ f.readiness # "" => \A i \in Listed(table, f) : ExtractReadiness(table[i]) = f.readiness
  /\ Queued(table, "HIGH", "") \cup Queued(table, "NORMAL", "") = Queued(table, "", "")
  /\ Queued(table, "HIGH", "") \cap Queued(table, "NORMAL", "") = {}
  /\ NearbyTrusted
  /\ \A links \in Links : LinksWhole(links)
  /\ \A limit \in 1 .. 3 : InForceFirst(limit)
  /\ \A c \in Clusterings : ClusterShown(c)

(* The pages agree on every table that is written.  It depends on the      *)
(* table alone and is looked at where nothing but writes has happened.     *)
TablesAgree == writes > 0 /\ walk = "none" /\ dash = "none" => PagesAgree
=============================================================================
