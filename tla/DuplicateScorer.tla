--------------------------- MODULE DuplicateScorer ---------------------------
(***************************************************************************)
(* Whether two reports tell of the same incident                           *)
(* (intelligence/duplicate_scorer.py, category_rules.py).  Scores are in   *)
(* ten-thousandths.  What the text processing yields is an input: the      *)
(* cosine similarity of the two texts, and whether the resolver put the    *)
(* reports in the same city, in different cities or in no city.            *)
(*                                                                         *)
(* A pair: [a, b : category codes, metres, seconds : Nat or Unknown,       *)
(*          text : 0 .. One, cities : "same", "other" or "open"]           *)
(***************************************************************************)
EXTENDS Integers

One == 10000
Unknown == -1

MaxMetres == 2500
MaxSeconds == 3 * 3600
SemanticThreshold == 5000
ConfirmedThreshold == 7500
PossibleThreshold == 5500
LeastText == 4000       \* below it no pair is confirmed
LeastCategory == 7000   \* for a match on text and hazard alone

\* A table over unordered pairs of different categories.
Related ==
  { <<{"FLOOD_WATERLOGGING", "HEAVY_RAINFALL"}, 7500>>,
    <<{"FLOOD_WATERLOGGING", "URBAN_FLOOD"}, 9000>>,
    <<{"HEAVY_RAINFALL", "URBAN_FLOOD"}, 8500>>,
    <<{"CYCLONE", "HEAVY_RAINFALL"}, 7000>>,
    <<{"CYCLONE", "FLOOD_WATERLOGGING"}, 6500>>,
    <<{"CYCLONE_STORM", "HEAVY_RAINFALL"}, 7500>>,
    <<{"CYCLONE_STORM", "FLOOD_WATERLOGGING"}, 7000>>,
    <<{"CYCLONE_STORM", "STRONG_WIND"}, 8500>>,
    <<{"HEAVY_RAINFALL", "LANDSLIDE"}, 6500>>,
    <<{"FLOOD_WATERLOGGING", "LANDSLIDE"}, 6000>>,
    <<{"THUNDERSTORM", "LIGHTNING"}, 8500>>,
    <<{"THUNDERSTORM", "HEAVY_RAINFALL"}, 8000>>,
    <<{"THUNDERSTORM_LIGHTNING", "HEAVY_RAINFALL"}, 8000>>,
    <<{"THUNDERSTORM_LIGHTNING", "STRONG_WIND"}, 8000>>,
    <<{"DUST_STORM", "STRONG_WIND"}, 8000>>,
    <<{"HEATWAVE", "DROUGHT"}, 7000>> }

\* Hazards that exclude each other.
Exclusive ==
  {{"HEATWAVE", c} : c \in {"FLOOD_WATERLOGGING", "HEAVY_RAINFALL", "COLDWAVE", "FOG"}}
    \cup {{"DROUGHT", c} : c \in {"FLOOD_WATERLOGGING", "HEAVY_RAINFALL", "LIGHTNING", "THUNDERSTORM",
                                  "CYCLONE", "URBAN_FLOOD", "CYCLONE_STORM"}}
    \cup {{"COLDWAVE", "FLOOD_WATERLOGGING"}, {"FOG", "DUST_STORM"}}

\* The entry of the matrix for a pair, if there is one.
Listed(p) == {r[2] : r \in {x \in Related : x[1] = p}} \cup (IF p \in Exclusive THEN {0} ELSE {})

Alias(c) == CASE c \in {"CYCLONE_GALE", "CYCLONE"} -> "CYCLONE_STORM"
              [] c = "EXTREME_HEAT" -> "HEATWAVE"
              [] OTHER -> c

Compatibility(a, b) ==
  LET aliased == {Alias(a), Alias(b)} IN
  CASE "" \in {a, b} -> 4000
    [] a = b -> One
    [] Listed({a, b}) # {} -> CHOOSE s \in Listed({a, b}) : TRUE
    [] Alias(a) = Alias(b) -> One
    [] Listed(aliased) # {} -> CHOOSE s \in Listed(aliased) : TRUE
    [] OTHER -> 3000

\* Linear decay from One at zero to nothing at the limit and beyond.
Decay(x, limit) == IF x \in 0 .. limit THEN One - (x * One) \div limit ELSE 0

\* The hard gates: one of them makes the pair distinct with no score at all.
Gated(p) ==
  \/ Compatibility(p.a, p.b) = 0
  \/ p.metres > MaxMetres
  \/ p.seconds > MaxSeconds
  \/ p.cities = "other"

Complete(p) == p.metres # Unknown /\ p.seconds # Unknown

Overall(p) ==
  LET category == Compatibility(p.a, p.b) IN
  IF Complete(p)
  THEN (35 * Decay(p.metres, MaxMetres) + 25 * Decay(p.seconds, MaxSeconds) + 25 * p.text + 15 * category) \div 100
  ELSE (60 * p.text + 40 * category) \div 100

\* Mutant of Decision: the least similarity of a confirmed duplicate is gone.
DecisionOnOverall(p) ==
  CASE Gated(p) -> "DISTINCT"
    [] Complete(p) /\ Overall(p) >= ConfirmedThreshold -> "DUPLICATE"
    [] Complete(p) /\ Overall(p) >= PossibleThreshold -> "POSSIBLE_MATCH"
    [] OTHER -> "DISTINCT"

Decision(p) ==
  CASE Gated(p) -> "DISTINCT"
    [] Complete(p) /\ Overall(p) >= ConfirmedThreshold /\ p.text >= LeastText -> "DUPLICATE"
    [] Complete(p) /\ Overall(p) >= PossibleThreshold -> "POSSIBLE_MATCH"
    [] ~Complete(p) /\ p.text >= SemanticThreshold /\ Compatibility(p.a, p.b) >= LeastCategory -> "POSSIBLE_MATCH"
    [] OTHER -> "DISTINCT"

Assess(p) == [decision |-> Decision(p), score |-> IF Gated(p) THEN 0 ELSE Overall(p)]
=============================================================================
