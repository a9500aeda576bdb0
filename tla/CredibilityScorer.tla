-------------------------- MODULE CredibilityScorer --------------------------
(***************************************************************************)
(* What the scorer computes from the inputs of one incident and what the   *)
(* explanation says of it (intelligence/credibility_scorer.py and          *)
(* credibility_explanation_builder.py).                                    *)
(*                                                                         *)
(* Scores are integers in units of 1/10000, the precision the code rounds  *)
(* to; exp and log are tabulated for the counts that occur. The inputs are *)
(*   report          [trust, family, has]                                  *)
(*   members         reports in its duplicate cluster, with itself         *)
(*   groups          [key, count, conf, weight, family, derived]           *)
(*   stations        [key, score, weight, family]                          *)
(*   contradictions  [key, score, sensor]                                  *)
(*   image           adjustment for the images                             *)
(***************************************************************************)
EXTENDS Integers, Sequences, FiniteSets, FiniteSetsExt

CONSTANT PhysicalCap   \* cap on the observation signal, Unit when there is none

Unit == 10000

CapAssumption == PhysicalCap \in 0 .. Unit

------------------------------------------------------------------------------
(* Arithmetic of the scorer *)

Times(a, b) == (a * b) \div Unit
Least(a, b) == IF a <= b THEN a ELSE b
Greatest(a, b) == IF a >= b THEN a ELSE b

\* Diminishing returns: 1 - prod (1 - f[x]) over the x of its domain.
Together(f) ==
  Unit - MapThenFoldSet(Times, Unit, LAMBDA x : Unit - f[x], LAMBDA T : CHOOSE x \in T : TRUE, DOMAIN f)

\* 1 - exp(-(k - 1) / 3)
Crowd(k) ==
  CASE k <= 10 -> <<0, 2835, 4866, 6321, 7364, 8111, 8647, 9030, 9305, 9502>>[k]
    [] k = 15 -> 9906 [] k = 20 -> 9982 [] OTHER -> Unit
\* 1 + 0.2 ln(count)
Repetition(count) ==
  CASE count = 1 -> 10000 [] count = 2 -> 11386 [] count = 3 -> 12197
    [] count = 5 -> 13219 [] count = 10 -> 14605 [] OTHER -> 15991

------------------------------------------------------------------------------
(* The scorer *)

QualityWeight ==
  [coordinates |-> 3000, timestamp |-> 2500, location |-> 2000, description |-> 1500, category |-> 1000]

Baseline(report) ==
  LET quality == MapThenSumSet(LAMBDA part : QualityWeight[part], report.has)
  IN  Times(Greatest(1000, Least(9500, report.trust)), 7000 + Times(3000, quality))

Strength(g) == Times(g.conf, g.weight)

EvidenceSignal(groups) ==
  Together([g \in groups |-> Least(Unit, Times(Strength(g), Repetition(g.count))) \div 2])

ObservationSignal(stations) ==
  Least(PhysicalCap, Together([s \in stations |-> Times(6000, Times(s.score, s.weight))]))

Families(in) ==
  {in.report.family}
    \cup {g.family : g \in {h \in in.groups : ~h.derived /\ Strength(h) > 1000}}
    \cup {s.family : s \in {u \in in.stations : Times(u.score, u.weight) > 1000}}

Penalty(contradictions) ==
  Together([c \in contradictions |->
    Times(IF c.sensor THEN 6000 ELSE 4000, c.score)]) \div 2

CapMax == 9800

PolicyCap(in) ==
  LET crowd == Crowd(in.members) > 100
      evidence == EvidenceSignal(in.groups) > 100
      observed == ObservationSignal(in.stations) > 100
      families == Cardinality(Families(in))
  IN  IF ~(crowd \/ evidence \/ observed)
        THEN CASE in.report.family = "CITIZEN" -> 6500
               [] in.report.family = "OFFICIAL" -> 8800
               [] OTHER -> 7500
      ELSE IF families = 1 THEN 8200
      ELSE IF ~evidence /\ ~crowd /\ families = 2 THEN 8500
      ELSE CapMax

\* _compute_raw_signals
Positive(in) ==
  LET base == Baseline(in.report)
      support == Least(Unit, Times(3000, Crowd(in.members))
                             + EvidenceSignal(in.groups) \div 2 + ObservationSignal(in.stations) \div 2)
      diversity == Unit + 600 * (Cardinality(Families(in)) - 1)
  IN  base + Times(Unit - base, Least(Unit, Times(support, diversity)))

Clamp(score) == Greatest(0, Least(score, CapMax))

Raw(in) ==
  Clamp(Greatest(0, Least(Positive(in) - Penalty(in.contradictions), PolicyCap(in))) + in.image)

Thresholds == {4500, 5000, 6500, 7000, 8000, 8200, 8500, 8800}
MaxWeakLift == 300

IsWeak(g) == g.weight < Unit

\* What weak links may lift a score of strong to.
WeakLimit(strong) ==
  LET above == {t \in Thresholds : t > strong}
  IN  IF above # {} /\ strong + MaxWeakLift >= Min(above) THEN Min(above) - 1
      ELSE strong + MaxWeakLift

StrongOnly(in) == [in EXCEPT !.groups = {g \in @ : ~IsWeak(g)}]

\* score_incident
Score(in) ==
  LET full == Raw(in)
      strong == Raw(StrongOnly(in))
  IN  IF full <= strong \/ \A g \in in.groups : ~IsWeak(g) THEN full
      ELSE Least(full, WeakLimit(strong))

\* The structured explanation: its drivers and flags.
Explanation(in) ==
  [score |-> Score(in), families |-> Families(in),
   drivers |->
     {d \in {"trust", "crowd", "evidence", "observation", "diversity"} :
        CASE d = "trust" -> in.report.trust >= 5000
          [] d = "crowd" -> Crowd(in.members) > 2000
          [] d = "evidence" -> EvidenceSignal(in.groups) > 2000
          [] d = "observation" -> ObservationSignal(in.stations) > 2000
          [] d = "diversity" -> Cardinality(Families(in)) >= 2},
   flags |->
     {f \in {"contradicted", "capped", "isolated", "cross-quoted"} :
        CASE f = "contradicted" -> Penalty(in.contradictions) > 100
          [] f = "capped" -> /\ PolicyCap(in) < CapMax
                             /\ Positive(in) - Penalty(in.contradictions) > PolicyCap(in)
          [] f = "isolated" -> in.members = 1 /\ EvidenceSignal(in.groups) = 0
                                 /\ ObservationSignal(in.stations) = 0
          [] f = "cross-quoted" -> \E g \in in.groups : g.derived},
   missing |-> DOMAIN QualityWeight \ (in.report.has \cup {"category"})]
=============================================================================
