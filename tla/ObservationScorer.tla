--------------------------- MODULE ObservationScorer ---------------------------
(***************************************************************************)
(* What a water-level reading is to a report                               *)
(* (intelligence/observation_scorer.py, observation_trend_analyzer.py).    *)
(* Scores are in ten-thousandths, times in minutes (before the incident:   *)
(* negative), levels in centimetres.                                       *)
(*                                                                         *)
(* A pair: [hazard : a category, metres : Nat or Unknown,                  *)
(*   minutes : Int or Undated, mentions : SUBSET Mentions,                 *)
(*   level : Int or NoLevel, danger : Int or NoLevel,                      *)
(*   urgent, flagged : BOOLEAN, trend : a trend, see Trend]                *)
(***************************************************************************)
EXTENDS Integers, Sequences

One == 10000
Unknown == -1
Undated == 1000000
NoLevel == 1000000
Hour == 60

Radius == 35000
Window == 24 * Hour
FullPrior == 4 * Hour
Fresh == 48 * Hour
Concurrent == 30
Thresholds == [CORROBORATING |-> 7000, CONSISTENT |-> 4500, WEAK |-> 2500]
Direct == {"FLOOD_WATERLOGGING", "URBAN_FLOOD"}
Indirect == {"HEAVY_RAINFALL", "CYCLONE"}
Incompatible == {"HEATWAVE", "DROUGHT", "COLDWAVE", "LIGHTNING", "THUNDERSTORM"}
Trust == 9200

Magnitude(n) == IF n < 0 THEN -n ELSE n
Least(a, b) == IF a < b THEN a ELSE b

(* The trend of one station: points is a sequence of [at, level], in time  *)
(* order, of the six hours before the incident.                            *)

Steady == 5         \* centimetres
GapMinutes == 2 * Hour

Trend(points) ==
  LET n == Len(points)
      delta == points[n].level - points[1].level
      span == points[n].at - points[1].at IN
  CASE n = 0 -> [way |-> "INSUFFICIENT_DATA", points |-> 0, delta |-> 0, rate |-> 0, gaps |-> FALSE]
    [] n = 1 -> [way |-> "SINGLE_POINT", points |-> 1, delta |-> 0, rate |-> 0, gaps |-> FALSE]
    [] n > 1 ->
         [way |-> IF Magnitude(delta) < Steady THEN "STEADY" ELSE IF delta > 0 THEN "RISING" ELSE "FALLING",
          points |-> n, delta |-> delta,
          rate |-> IF span > 0 THEN (delta * Hour) \div span ELSE 0,
          gaps |-> \E k \in 2 .. n : points[k].at - points[k - 1].at > GapMinutes]

\* The rate is in centimetres an hour: half a metre an hour is the most.
TrendScore(t) ==
  CASE t.way = "INSUFFICIENT_DATA" -> 0
    [] t.way = "SINGLE_POINT" -> 2500
    [] t.way = "STEADY" -> 4000
    [] t.way = "FALLING" -> 3000
    [] t.way = "RISING" -> Least(One, 6000 + 80 * Magnitude(t.rate))

(* The signals. *)

Spatial(p) == IF p.metres \in 0 .. Radius THEN One - (p.metres * One) \div Radius ELSE 0

\* After the incident the score decays by the factor 0.7 every eight hours
\* (linearly in between, where the code has the power).
Afterwards(m) ==
  LET marks == <<One, 7000, 4900, 3430>>
      k == m \div (8 * Hour) IN
  IF k = 3 THEN marks[4] ELSE marks[k + 1] - ((marks[k + 1] - marks[k + 2]) * (m % (8 * Hour))) \div (8 * Hour)

Temporal(p) ==
  LET m == p.minutes IN
  CASE m = Undated \/ Magnitude(m) > Window -> 0
    [] Magnitude(m) <= Concurrent -> One
    [] m \in -FullPrior .. -Concurrent - 1 -> One
    [] m \in -Window .. -FullPrior - 1 -> One - ((-m - FullPrior) * One) \div (Window - FullPrior)
    [] m \in Concurrent + 1 .. Window -> Afterwards(m)

Relevance(c) ==
  CASE c \in Incompatible -> 0 [] c \in Direct -> One [] c \in Indirect -> 5500 [] OTHER -> 3000

\* Only the place of the report ties it to a river; a name elsewhere, or of
\* another river of the basin, is weak.
Context(has) ==
  CASE "river in place" \in has -> One
    [] "river in place" \notin has /\ "river word in place" \in has -> 1500
    [] has \cap {"river in place", "river word in place"} = {} ->
         CASE "basin in place" \in has -> 5000
           [] "basin in place" \notin has /\ "district in place" \in has ->
                IF "drain" \in has THEN 2000 ELSE IF "river in title" \in has THEN 5500 ELSE 5000
           [] has \cap {"basin in place", "district in place"} = {} ->
                CASE "river in title" \in has -> 4000
                  [] "river in title" \notin has /\ "basin in title" \in has -> 3500
                  [] has \cap {"river in title", "basin in title"} = {} ->
                       IF has \cap {"state in place or title", "river or basin in text"} # {}
                       THEN 2000 ELSE 1000

Stale(p) == p.minutes # Undated /\ Magnitude(p.minutes) > Fresh
Outside(p) == p.minutes # Undated /\ Temporal(p) = 0
Placed(p) == p.metres # Unknown
TooFar(p) == Placed(p) /\ Spatial(p) = 0

(* Where the score comes from. *)

\* The first gate that holds decides, and with which score.
GateOf(p) ==
  CASE Relevance(p.hazard) = 0 -> <<"IRRELEVANT", 0>>
    [] Relevance(p.hazard) # 0 /\ p.level = NoLevel -> <<"INSUFFICIENT_DATA", 0>>
    [] Relevance(p.hazard) # 0 /\ p.level # NoLevel ->
         CASE Stale(p) -> <<"IRRELEVANT", 500>>
           [] ~Stale(p) /\ (Outside(p) \/ TooFar(p)) -> <<"IRRELEVANT", 0>>
           [] ~(Stale(p) \/ Outside(p) \/ TooFar(p)) ->
                IF Context(p.mentions) > 2000 THEN <<"open", 0>>
                ELSE IF ~Placed(p) THEN <<"INSUFFICIENT_DATA", 2000>>
                ELSE IF Spatial(p) < 1000 THEN <<"IRRELEVANT", 1000>>
                ELSE <<"open", 0>>

\* The river is known, near, now, quiet for five readings without a gap, and
\* a metre below danger while the report says otherwise.
Contradicts(p) ==
  /\ Context(p.mentions) >= 7000
  /\ Placed(p) /\ Spatial(p) >= 9000 /\ Temporal(p) >= 9000
  /\ p.trend.way \in {"STEADY", "FALLING"} /\ p.trend.points >= 5 /\ ~p.trend.gaps
  /\ Magnitude(p.trend.delta) <= 2
  /\ (p.flagged \/ (p.urgent /\ p.danger # NoLevel /\ p.level < p.danger - 100))

Sum(p) ==
  (20 * Spatial(p) + 15 * Temporal(p) + 15 * Relevance(p.hazard) + 20 * Context(p.mentions)
     + 20 * TrendScore(p.trend) + 5 * One + 5 * Trust) \div 100

Rising(p) == p.trend.way = "RISING"

\* Mutant of PlaceCap: a station without any reading passes for a series.
PlaceCapSingle(p) ==
  LET c == Context(p.mentions) IN
  CASE ~Placed(p) \/ c <= 1500 -> 3500
    [] Placed(p) /\ c = 2000 -> IF Spatial(p) >= 4000 /\ Rising(p) THEN 4800 ELSE 3500
    [] Placed(p) /\ c \in 2001 .. 5500 -> IF Spatial(p) < 4000 \/ p.trend.points = 1 THEN 3500 ELSE 6000
    [] Placed(p) /\ c > 5500 -> IF Rising(p) /\ p.trend.points >= 2 THEN One ELSE 6000

\* The most a pair may score, by what ties the station to the report.
PlaceCap(p) ==
  LET c == Context(p.mentions) IN
  CASE ~Placed(p) \/ c <= 1500 -> 3500
    [] Placed(p) /\ c = 2000 -> IF Spatial(p) >= 4000 /\ Rising(p) THEN 4800 ELSE 3500
    [] Placed(p) /\ c \in 2001 .. 5500 -> IF Spatial(p) < 4000 \/ p.trend.points <= 1 THEN 3500 ELSE 6000
    [] Placed(p) /\ c > 5500 -> IF Rising(p) /\ p.trend.points >= 2 THEN One ELSE 6000

HazardCap(p) == IF p.hazard \in Direct THEN One ELSE Thresholds["CORROBORATING"] - 100

Composite(p) == Least(Sum(p), Least(PlaceCap(p), HazardCap(p)))

Classify(s) ==
  CASE s >= Thresholds["CORROBORATING"] -> "CORROBORATING"
    [] s \in Thresholds["CONSISTENT"] .. Thresholds["CORROBORATING"] - 1 -> "CONSISTENT"
    [] s \in Thresholds["WEAK"] .. Thresholds["CONSISTENT"] - 1 -> "WEAK"
    [] s < Thresholds["WEAK"] -> "IRRELEVANT"

Assess(p) ==
  LET gate == GateOf(p) IN
  CASE gate[1] # "open" -> [relation |-> gate[1], score |-> gate[2]]
    [] gate[1] = "open" /\ Contradicts(p) -> [relation |-> "CONTRADICTORY", score |-> 5000]
    [] gate[1] = "open" /\ ~Contradicts(p) -> [relation |-> Classify(Composite(p)), score |-> Composite(p)]
=============================================================================
