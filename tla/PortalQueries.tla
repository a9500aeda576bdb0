--------------------------- MODULE PortalQueries ---------------------------
(***************************************************************************)
(* The read side of services/incident_query_service.py: what the lists,    *)
(* pages, maps and charts of the portal show of a table of reports.        *)
(*                                                                         *)
(* A table maps identifiers, which are numbers, to rows.  Times are half   *)
(* hours since a midnight in UTC, scores are hundredths, coordinates are   *)
(* <<longitude, latitude>> in tenths of a degree, and "" is a NULL.  Of its *)
(* place a row keeps the states named in its words and then those whose    *)
(* envelope it lies in, each in the order they are looked up.              *)
(***************************************************************************)
EXTENDS Integers, Sequences, FiniteSets, SequencesExt

Hour == 2
Day == 48
Forever == 1000 * Day \* bound: no report occurs later
HourInKolkata(t) == ((t + 11) % Day) \div Hour \* UTC+5:30

Count(S, P(_)) == Cardinality({x \in S : P(x)})

-----------------------------------------------------------------------------
(* Columns as they are shown.                                              *)

ExtractCategory(r) ==
  IF r.category # "" THEN r.category ELSE IF r.reported # "" THEN r.reported ELSE "OTHER"

\* The stage map's readiness, or what the processing status amounts to.
ExtractReadiness(r) ==
  IF r.readiness # "" THEN r.readiness
  ELSE CASE r.processing = "COMPLETED" -> "INTELLIGENCE_READY"
         [] r.processing = "PARTIAL_INTELLIGENCE" -> "INTELLIGENCE_PARTIAL"
         [] r.processing = "FAILED" -> "INTELLIGENCE_FAILED"
         [] OTHER -> "INTELLIGENCE_PENDING"

Label(score) ==
  IF score >= 85 THEN "VERY_HIGH" ELSE IF score >= 70 THEN "HIGH"
  ELSE IF score >= 45 THEN "MODERATE" ELSE "LOW"

-----------------------------------------------------------------------------
(* Filters.  An absent one is "", {}, <<>> or an interval without bounds.  *)

Intersects(box, p) == box[1] <= p[1] /\ p[1] <= box[3] /\ box[2] <= p[2] /\ p[2] <= box[4]

Everything ==
  [category |-> "", severity |-> "", statuses |-> {}, readiness |-> "", least |-> 0, most |-> 100,
   from |-> 0, to |-> Forever, box |-> <<>>, hideDemo |-> FALSE]

InCategory(r, c) == r.reported = c \/ r.category = c

ListFilter(r, f) ==
  /\ f.hideDemo => ~r.demo
  /\ f.category # "" => InCategory(r, f.category)
  /\ f.severity # "" => r.severity = f.severity
  /\ f.statuses # {} => r.status \in f.statuses
  /\ f.readiness # "" => r.readiness = f.readiness
  /\ f.least <= r.score /\ r.score <= f.most
  /\ f.from <= r.occurred /\ r.occurred <= f.to
  /\ f.box # <<>> => Intersects(f.box, r.at)

\* Shared by the charts: no score, and "ALL" is no filter.
AggregationFilter(r, f) ==
  /\ f.hideDemo => ~r.demo
  /\ f.category \notin {"", "ALL"} => InCategory(r, f.category)
  /\ f.severity \notin {"", "ALL"} => r.severity = f.severity
  /\ f.statuses \notin {{}, {"ALL"}} => r.status \in f.statuses
  /\ f.from <= r.occurred /\ r.occurred <= f.to
  /\ f.box # <<>> => Intersects(f.box, r.at)

Aggregated(table, f) == {i \in DOMAIN table : AggregationFilter(table[i], f)}

\* The lower bound of a named range, unless one is given.
TimeRange(range, from, now) ==
  LET hours == [h24 |-> 24, h48 |-> 48, d7 |-> 7 * 24, d30 |-> 30 * 24] IN
  IF from # 0 THEN from
  ELSE IF range \in DOMAIN hours THEN now - hours[range] * Hour ELSE 0

-----------------------------------------------------------------------------
(* Lists and their pages.                                                  *)

\* Keys in descending order; the identifier is the last key of most.  Elements
\* with the same keys come in any order, here in that of their identifiers.
Precedes(j, k) == \E n \in DOMAIN j : j[n] > k[n] /\ \A m \in 1 .. n - 1 : j[m] = k[m]
Sooner(key, a, b) == Precedes(key[a], key[b]) \/ (key[a] = key[b] /\ a > b)

\* Each element stands where as many come sooner.
Ordered(S, key) ==
  LET sooner == [x \in S |-> Cardinality({y \in S : Sooner(key, y, x)})] IN
  [n \in 1 .. Cardinality(S) |-> CHOOSE x \in S : sooner[x] = n - 1]

\* Mutant of TotalPages: the last page counts only when it is full.
TotalPagesFull(total, size) == IF total < size THEN 1 ELSE total \div size

TotalPages(total, size) == IF total > 0 THEN (total + size - 1) \div size ELSE 1

\* The count was taken by a statement of its own.
Page(order, total, page, size) ==
  LET last == page * size IN
  [items |-> SubSeq(order, last - size + 1, IF last < Len(order) THEN last ELSE Len(order)),
   total |-> total,
   hasNext |-> page < TotalPages(total, size),
   hasPrev |-> page > 1]

Listed(table, f) == {i \in DOMAIN table : ListFilter(table[i], f)}

ListOrder(table, f, sortBy, ascending) ==
  LET column(i) == CASE sortBy = "credibility_score" -> table[i].score
                     [] sortBy = "created_at" -> table[i].created
                     [] OTHER -> table[i].occurred IN
  Ordered(Listed(table, f), [i \in DOMAIN table |-> <<IF ascending THEN -column(i) ELSE column(i), i>>])

ListIncidents(table, f, sortBy, ascending, page, size) ==
  Page(ListOrder(table, f, sortBy, ascending), Cardinality(Listed(table, f)), page, size)

SeverityRank(s) == CASE s = "SEVERE" -> 4 [] s = "HIGH" -> 3 [] s = "MODERATE" -> 2 [] s = "LOW" -> 1 [] OTHER -> 0

Queued(table, priority, category) ==
  {i \in DOMAIN table :
     /\ table[i].status \in {"PENDING", "UNDER_REVIEW"}
     /\ category # "" => InCategory(table[i], category)
     /\ priority = "HIGH" => table[i].severity \in {"SEVERE", "HIGH"}
     /\ priority = "NORMAL" => table[i].severity \in {"MODERATE", "LOW"}}

QueueOrder(table, priority, category) ==
  Ordered(Queued(table, priority, category),
          [i \in DOMAIN table |-> <<SeverityRank(table[i].severity), table[i].score, table[i].occurred, i>>])

EvidenceRelationship == {"SUPPORTING", "RELATED", "CONTEXTUAL", "CONTRADICTORY", "IRRELEVANT"}
ObservationRelationship ==
  {"CORROBORATING", "CONSISTENT", "WEAK", "CONTRADICTORY", "IRRELEVANT", "INSUFFICIENT_DATA"}

\* A page of the links of one report, by score; a stored role that is none of
\* the known ones is shown as the given one.
LinkPage(links, known, support, page, size) ==
  LET shown(l) == [id |-> l, relationship |-> IF links[l].role \in known THEN links[l].role ELSE support]
      p == Page(Ordered(DOMAIN links, [l \in DOMAIN links |-> <<links[l].score, l>>]),
                Cardinality(DOMAIN links), page, size) IN
  [p EXCEPT !.items = [k \in DOMAIN @ |-> shown(@[k])]]

EvidencePage(links, page, size) == LinkPage(links, EvidenceRelationship, "SUPPORTING", page, size)
ObservationPage(links, page, size) == LinkPage(links, ObservationRelationship, "CORROBORATING", page, size)

-----------------------------------------------------------------------------
(* One report and its cluster.  clusters maps a cluster to its primary and *)
(* its member_count; members is a set of [cluster, report, score].         *)

Memberships(i, members) == {m \in members : m.report = i}
NoCluster(i) == [size |-> 1, representative |-> i, members |-> <<i>>]

\* The detail page takes any membership there is.
DetailCounts(i, clusters, members) ==
  IF Memberships(i, members) = {} THEN {[size |-> 1, isRepresentative |-> TRUE]}
  ELSE {[size |-> clusters[m.cluster].count, isRepresentative |-> clusters[m.cluster].primary = i] :
          m \in Memberships(i, members)}

\* The cluster page fails on a second one.  It lists members: never the
\* primary, which is none of its own cluster and is shown as a singleton.
ClusterPage(i, table, clusters, members) ==
  LET c == (CHOOSE m \in Memberships(i, members) : TRUE).cluster
      score(j) == (CHOOSE m \in members : m.cluster = c /\ m.report = j).score
      of == {m.report : m \in {m \in members : m.cluster = c}} IN
  CASE Memberships(i, members) = {} -> {NoCluster(i)}
    [] Cardinality(Memberships(i, members)) = 1 ->
         {[size |-> clusters[c].count, representative |-> clusters[c].primary,
           members |-> Ordered(of, [j \in of |-> <<score(j), -table[j].occurred>>])]}
    [] OTHER -> {} \* MultipleResultsFound

-----------------------------------------------------------------------------
(* Maps.                                                                   *)

GeoIncidents(table, f, hours, limit, now) ==
  LET shown == {i \in DOMAIN table :
        /\ f.hideDemo => ~table[i].demo
        /\ f.box # <<>> => Intersects(f.box, table[i].at)
        /\ f.statuses # {} => table[i].status \in f.statuses
        /\ f.category # "" => table[i].reported = f.category
        /\ hours > 0 => table[i].occurred >= now - hours * Hour}
      order == Ordered(shown, [i \in shown |-> <<table[i].occurred, table[i].created>>]) IN
  SubSeq(order, 1, IF limit < Len(order) THEN limit ELSE Len(order))

\* Mutant of NearbyIncidents: reports under review are shown, credible or not.
NearbyIncidentsUnguarded(table, distance, radius, statuses, limit) ==
  LET near == {i \in DOMAIN table :
        /\ distance[i] <= radius
        /\ table[i].status \in IF statuses # {} THEN statuses ELSE {"VERIFIED", "UNDER_REVIEW"}}
      order == Ordered(near, [i \in near |-> <<-distance[i], table[i].occurred>>]) IN
  SubSeq(order, 1, IF limit < Len(order) THEN limit ELSE Len(order))

\* distance is from the citizen to each report, in kilometres.
NearbyIncidents(table, distance, radius, statuses, limit) ==
  LET near == {i \in DOMAIN table :
        /\ distance[i] <= radius
        /\ IF statuses # {} THEN table[i].status \in statuses
           ELSE \/ table[i].status = "VERIFIED"
                \/ table[i].status = "UNDER_REVIEW" /\ table[i].score >= 70}
      order == Ordered(near, [i \in near |-> <<-distance[i], table[i].occurred>>]) IN
  SubSeq(order, 1, IF limit < Len(order) THEN limit ELSE Len(order))

\* Advisories map identifiers to [hazard, until]; limit is 100 in the code.
ForecastAdvisories(advisories, activeOnly, hazard, limit, now) ==
  LET shown == {a \in DOMAIN advisories :
        /\ activeOnly => advisories[a].until >= now
        /\ hazard # "" => advisories[a].hazard = hazard}
      order == Ordered(shown, [a \in shown |-> <<advisories[a].until>>]) IN
  SubSeq(order, 1, IF limit < Len(order) THEN limit ELSE Len(order))

-----------------------------------------------------------------------------
(* Charts.                                                                 *)

\* The first statement of the dashboard.
SummaryCounts(table, f, now) ==
  LET S == Aggregated(table, f)
      status(Q) == Count(S, LAMBDA i : table[i].status \in Q)
      severity(Q) == Count(S, LAMBDA i : table[i].severity \in Q) IN
  [total |-> Cardinality(S),
   last24 |-> Count(S, LAMBDA i : table[i].occurred >= now - Day),
   verified |-> status({"VERIFIED"}),
   pending |-> status({"PENDING", "UNDER_REVIEW"}),
   rejected |-> status({"REJECTED"}),
   duplicate |-> status({"DUPLICATE"}),
   severeHigh |-> severity({"SEVERE", "HIGH"}),
   severe |-> severity({"SEVERE"}),
   high |-> severity({"HIGH"}),
   moderate |-> severity({"MODERATE"}),
   low |-> severity({"LOW"})]

\* The second: counts by category.
CategoryCounts(table, f) ==
  LET S == Aggregated(table, f) IN
  [c \in {ExtractCategory(table[i]) : i \in S} |-> Count(S, LAMBDA i : ExtractCategory(table[i]) = c)]

\* Mutant of DiurnalCounts: the windows exclude the hour they start with.
DiurnalCountsExclusive(table, f) ==
  LET S == Aggregated(table, f)
      hour(i) == HourInKolkata(table[i].occurred) IN
  [w \in {0, 6, 12, 18} |-> Count(S, LAMBDA i : w < hour(i) /\ hour(i) < w + 6)]

\* The third: counts by quarter of the day.
DiurnalCounts(table, f) ==
  LET S == Aggregated(table, f)
      hour(i) == HourInKolkata(table[i].occurred) IN
  [w \in {0, 6, 12, 18} |-> Count(S, LAMBDA i : w <= hour(i) /\ hour(i) < w + 6)]

\* By hour, in six windows of the day whatever the date.
HourlyTrends(table, f) ==
  LET S == Aggregated(table, f)
      in(i, w) == w <= HourInKolkata(table[i].occurred) /\ HourInKolkata(table[i].occurred) < w + 4 IN
  [w \in {0, 4, 8, 12, 16, 20} |->
     [total |-> Count(S, LAMBDA i : in(i, w)),
      verified |-> Count(S, LAMBDA i : in(i, w) /\ table[i].status = "VERIFIED")]]

TrendDays(range) == IF range = "d30" THEN 14 ELSE 7

\* By day of UTC, for the last days only: fewer than a range of 30 days has,
\* and of 7 days one less than they touch.
DailyTrends(table, f, range, now) ==
  LET S == Aggregated(table, f)
      today == now \div Day
      in(i, d) == table[i].occurred \div Day = d IN
  [d \in today - TrendDays(range) + 1 .. today |->
     [total |-> Count(S, LAMBDA i : in(i, d)),
      verified |-> Count(S, LAMBDA i : in(i, d) /\ table[i].status = "VERIFIED")]]

\* A state by the words of the place's name, else by the first envelope that
\* contains the point; envelopes overlap.
RegionOf(r) == Head(r.named \o r.around \o <<"OTHER">>)

RegionalCounts(table, f) ==
  LET S == Aggregated(table, f) IN
  [c \in {RegionOf(table[i]) : i \in S} |-> Count(S, LAMBDA i : RegionOf(table[i]) = c)]
=============================================================================
