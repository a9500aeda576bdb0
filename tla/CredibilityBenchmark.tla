------------------------ MODULE CredibilityBenchmark ------------------------
(***************************************************************************)
(* The synthetic benchmark of the scorer: sixty inputs with the interval   *)
(* the score must fall in and the policy cap that must apply               *)
(* (intelligence/credibility_evaluation_dataset.py). Cases that differ in  *)
(* one number are written as a set; names and descriptions are left out.   *)
(***************************************************************************)
EXTENDS CredibilityScorer

Complete == DOMAIN QualityWeight
From(family, trust, has) == [family |-> family, trust |-> trust, has |-> has]
Citizen == From("CITIZEN", 6000, Complete)
Official == From("OFFICIAL", 9000, Complete)

Articles(key, conf, weight, count, family, derived) ==
  [key |-> key, conf |-> conf, weight |-> weight, count |-> count, family |-> family, derived |-> derived]
News(key) == Articles(key, 8000, Unit, 1, "NEWS", FALSE)
Bulletin(conf) == Articles(8, conf, Unit, 1, "OFFICIAL", FALSE)
Posts(conf) == Articles(9, conf, Unit, 1, "SOCIAL", FALSE)

Gauge(key, score, weight) == [key |-> key, score |-> score, weight |-> weight, family |-> "SENSOR"]
Trend == Gauge(1, 8500, Unit)

Denials(n, score, sensor) == {[key |-> k, score |-> score, sensor |-> sensor] : k \in 1 .. n}

\* A case: report, members, groups, stations, contradictions; the least and
\* the greatest score and the cap.
Case(id, report, members, groups, stations, denials, low, high, cap) ==
  [id |-> id, low |-> low, high |-> high, cap |-> cap,
   in |-> [report |-> report, members |-> members, groups |-> groups,
           stations |-> stations, contradictions |-> denials, image |-> 0]]

Alone(id, report, low, high, cap) == Case(id, report, 1, {}, {}, {}, low, high, cap)

PriorCases ==
  {Alone(1, Citizen, 5950, 6050, 6500), Alone(2, Official, 8750, 8850, 8800),
   Alone(3, Official, 8750, 8850, 8800),
   Alone(4, From("CITIZEN", 7500, Complete), 6450, 6550, 6500),
   Alone(5, From("CITIZEN", 4000, Complete), 3950, 4050, 6500)}

IncompleteCases ==
  {Alone(6, From("CITIZEN", 6000, Complete \ {"coordinates"}), 5400, 5500, 6500),
   Alone(7, From("CITIZEN", 6000, Complete \ {"timestamp"}), 5500, 5600, 6500),
   Alone(8, From("CITIZEN", 6000, Complete \ {"description"}), 5700, 5800, 6500),
   Alone(9, From("CITIZEN", 6000, Complete \ {"location"}), 5600, 5700, 6500),
   Alone(10, From("OFFICIAL", 9000, {"timestamp"}), 6900, 7050, 8800)}

CrowdSizes == <<2, 3, 4, 5, 6, 8, 10, 15, 20, 50>>
CrowdCases ==
  {Case(10 + n, Citizen, CrowdSizes[n], {}, {}, {}, 6200, 7250, 8200) : n \in 1 .. 10}

OneDomainCases ==
  {Case(21, Citizen, 1, {News(1)}, {}, {}, 6800, 6900, CapMax),
   Case(22, Citizen, 1, {Articles(1, 8000, 3500, 1, "NEWS", FALSE)}, {}, {}, 6250, 6350, CapMax)}
    \cup {Case(c[1], Citizen, 1, {Articles(1, 8000, Unit, c[2], "NEWS", FALSE)}, {}, {}, 6900, 7100, CapMax) :
            c \in {<<23, 2>>, <<24, 5>>, <<25, 10>>, <<26, 20>>}}

DomainsCases ==
  {Case(27, Citizen, 1, {News(k) : k \in 1 .. 2}, {}, {}, 7300, 7400, CapMax),
   Case(28, Citizen, 1, {News(k) : k \in 1 .. 3}, {}, {}, 7650, 7750, CapMax),
   Case(29, Citizen, 1, {News(k) : k \in 1 .. 5}, {}, {}, 7900, 8000, CapMax),
   Case(30, Citizen, 1, {Articles(1, 8000, Unit, 10, "NEWS", FALSE)}, {}, {}, 7000, 7100, CapMax)}

OneStationCases ==
  {Case(31, Citizen, 1, {}, {Gauge(1, 6000, Unit)}, {}, 6700, 6800, 8500),
   Case(36, Citizen, 1, {}, {Gauge(1, 6000, 5000)}, {}, 6350, 6450, 8500),
   Case(37, Citizen, 1, {}, {Gauge(1, 6000, 2000)}, {}, 6100, 6200, 8500)}
    \cup {Case(c[1], Citizen, 1, {}, {Gauge(1, c[2], Unit)}, {}, 6850, 7150, 8500) :
            c \in {<<32, 7000>>, <<33, 7800>>, <<34, 8200>>, <<35, 8500>>}}

StationsCases ==
  {Case(38, Citizen, 1, {}, {Trend, Gauge(2, 7500, Unit)}, {}, 7500, 7600, 8500),
   Case(39, Citizen, 1, {}, {Trend, Gauge(2, 7500, Unit), Gauge(3, 7000, Unit)}, {}, 7700, 7850, 8500),
   Case(40, Citizen, 1, {}, {Trend, [Gauge(2, 8000, Unit) EXCEPT !.family = "OFFICIAL"]}, {},
        7600, 7700, CapMax)}

TwoFamiliesCases ==
  {Case(41, Citizen, 1, {Bulletin(9000)}, {}, {}, 6900, 7000, CapMax),
   Case(42, Citizen, 1, {}, {Trend}, {}, 7050, 7150, 8500),
   Case(43, Citizen, 1, {News(1)}, {}, {}, 6800, 6900, CapMax),
   Case(44, Citizen, 1, {Posts(6000)}, {}, {}, 6550, 6650, CapMax)}

ManyFamiliesCases ==
  {Case(45, Citizen, 1, {News(1), News(2)}, {Trend}, {}, 8500, 8650, CapMax),
   Case(46, Citizen, 1, {Bulletin(8500)}, {Trend}, {}, 8050, 8150, CapMax),
   Case(47, Citizen, 1, {News(1), Bulletin(8500)}, {Trend}, {}, 8700, 8800, CapMax),
   Case(48, Citizen, 1, {News(1), Bulletin(8500), Posts(7500)}, {Trend}, {}, 9150, 9250, CapMax)}

LineageCases ==
  {Case(49, Citizen, 1, {[News(1) EXCEPT !.derived = TRUE]}, {}, {}, 6750, 6850, 8200),
   Case(50, Official, 1, {News(1), News(2)}, {Trend}, {}, 9500, 9700, CapMax)}

ContradictedCases ==
  {Case(51, Citizen, 1, {}, {}, Denials(1, 9000, TRUE), 3250, 3350, 6500),
   Case(52, Official, 1, {}, {}, Denials(1, 9000, TRUE), 6250, 6350, 8800),
   Case(53, Citizen, 5, {}, {}, Denials(1, 9000, TRUE), 4100, 4250, 8200),
   Case(54, Citizen, 1, {}, {Gauge(1, 7000, 2000)}, {}, 6150, 6250, 8500),
   Alone(55, Citizen, 5950, 6050, 6500)}

StressCases ==
  {Case(56, Citizen, 1, {}, {}, Denials(10, 8500, FALSE), 1000, 1100, 6500),
   Alone(57, From("OFFICIAL", 9000, Complete \ {"coordinates"}), 8150, 8250, 8800),
   Case(58, From("CITIZEN", 4000, Complete), 1, {News(1), News(2)}, {Trend}, {}, 7800, 7900, CapMax),
   Case(59, Citizen, 3, {}, {}, {}, 6550, 6650, 8200),
   Case(60, Citizen, 3, {}, {}, {}, 6550, 6650, 8200)}

Cases ==
  UNION {PriorCases, IncompleteCases, CrowdCases, OneDomainCases, DomainsCases, OneStationCases,
         StationsCases, TwoFamiliesCases, ManyFamiliesCases, LineageCases, ContradictedCases, StressCases}

\* The cases whose scores run_synthetic_benchmark compares, in order.
Progression == <<1, 14, 35, 27, 45, 48>>
Scored(id) == Score((CHOOSE c \in Cases : c.id = id).in)

\* A case scores inside its interval under its cap, as run_synthetic_benchmark
\* demands of the scorer.
Passes(c) == Score(c.in) \in c.low .. c.high /\ PolicyCap(c.in) = c.cap

Ordered == \A n \in 1 .. 5 : Scored(Progression[n]) < Scored(Progression[n + 1])
=============================================================================
