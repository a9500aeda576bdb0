---------------------------- MODULE EvidenceScorer ----------------------------
(***************************************************************************)
(* What an external item is to a report (intelligence/evidence_scorer.py). *)
(* Scores are in ten-thousandths, times in minutes.  What the text         *)
(* processing yields is an input: the similarity of the texts, how much of *)
(* the item is of the hazard, whether it is a denial, an advisory or about *)
(* a foreign place, and where the resolver puts each side (the spellings   *)
(* of one city are one name here).                                         *)
(*                                                                         *)
(* A pair: [inc, ev : [point : BOOLEAN, city, state : a name or ""],       *)
(*   metres, minutes : Nat or Unknown, text : 0 .. One,                    *)
(*   hazard : DOMAIN Relevance,                                            *)
(*   marks : SUBSET {"locality", "named", "foreign", "denial", "advisory"}]*)
(***************************************************************************)
EXTENDS Integers

One == 10000
Unknown == -1
Hour == 60

MaxMetres == 25000
MaxMinutes == 48 * Hour
Thresholds == [SUPPORTING |-> 6500, RELATED |-> 5000, CONTEXTUAL |-> 3500]
Denied == 8500

\* How much of the item's text is of the report's hazard: nothing when it is
\* of an excluded one or a metaphor, otherwise by the words it has of the
\* hazard's own list, or else of the weather in general.  A report of no
\* particular hazard is compared with four common words.
Relevance ==
  [excluded |-> 0, unrelated |-> 2000, weather |-> 5000, word |-> 8000, words |-> One,
   commonWord |-> 5000, commonWords |-> 7000]

BothKnown(a, b) == a # "" /\ b # ""
SameCity(p) == BothKnown(p.inc.city, p.ev.city) /\ p.inc.city = p.ev.city
OtherCity(p) == BothKnown(p.inc.city, p.ev.city) /\ p.inc.city # p.ev.city
SameState(p) == BothKnown(p.inc.state, p.ev.state) /\ p.inc.state = p.ev.state
OtherState(p) == BothKnown(p.inc.state, p.ev.state) /\ p.inc.state # p.ev.state

Entity(p) ==
  CASE SameCity(p) -> IF "locality" \in p.marks THEN One ELSE 8000
    [] OtherCity(p) -> 0
    [] ~SameCity(p) /\ ~OtherCity(p) /\ SameState(p) -> 6000
    [] ~SameCity(p) /\ ~OtherCity(p) /\ ~SameState(p) -> IF "named" \in p.marks THEN 8500 ELSE 5000

Spatial(p) ==
  IF p.metres \in 0 .. MaxMetres THEN One - (p.metres * One) \div MaxMetres ELSE 0

Temporal(p) ==
  LET m == p.minutes IN
  CASE m = Unknown -> 5000
    [] m \in 0 .. 2 * Hour -> One
    [] m \in 2 * Hour + 1 .. 24 * Hour -> One - (3000 * (m - 2 * Hour)) \div (22 * Hour)
    [] m \in 24 * Hour + 1 .. MaxMinutes -> 7000 - (4000 * (m - 24 * Hour)) \div (24 * Hour)
    [] m > MaxMinutes -> 0

\* Neither side has a point, something is known, and nothing of it agrees.
Unplaced(p) ==
  /\ ~p.inc.point /\ ~p.ev.point
  /\ \E s \in {p.inc.city, p.inc.state, p.ev.city, p.ev.state} : s # ""
  /\ ~SameCity(p) /\ ~SameState(p)

\* The hard gates: one of them makes the item irrelevant with no score.
Gated(p) ==
  \/ "foreign" \in p.marks \/ Relevance[p.hazard] = 0
  \/ p.metres > MaxMetres \/ OtherCity(p) \/ OtherState(p) \/ Unplaced(p)
  \/ p.minutes > MaxMinutes

\* An item that names no more than the report's state.
OfState(p) == p.ev.city = "" /\ SameState(p)
Contextual(p) == "advisory" \in p.marks \/ OfState(p)

\* One side has a point and the other no city to hold against it.
OneSided(p) == p.inc.point # p.ev.point /\ "" \in {p.inc.city, p.ev.city} /\ ~Contextual(p)

Overall(p) ==
  LET sum == (30 * p.text + 25 * Entity(p) + 20 * Temporal(p) + 15 * Relevance[p.hazard] + 10 * Spatial(p)) \div 100 IN
  CASE ~OneSided(p) -> sum
    [] OneSided(p) /\ sum > 1000 -> sum - 1000
    [] OneSided(p) /\ sum <= 1000 -> 0

Contradicts(p) == "denial" \in p.marks /\ Entity(p) >= 7000
Supports(p) ==
  Overall(p) >= Thresholds["SUPPORTING"] /\ p.text >= 3500 /\ Entity(p) >= 7000 /\ Temporal(p) >= 5000
Relates(p) == Overall(p) >= Thresholds["RELATED"] /\ (Entity(p) >= 5000 \/ p.text >= 4000)

Relationship(p) ==
  CASE Gated(p) -> "IRRELEVANT"
    [] ~Gated(p) /\ Contradicts(p) -> "CONTRADICTORY"
    [] ~Gated(p) /\ ~Contradicts(p) ->
         IF Contextual(p) /\ Overall(p) >= Thresholds["CONTEXTUAL"] THEN "CONTEXTUAL"
         ELSE IF Supports(p) THEN "SUPPORTING"
         ELSE IF Relates(p) THEN "RELATED"
         ELSE "IRRELEVANT"

Assess(p) ==
  [relation |-> Relationship(p),
   score |-> IF Gated(p) THEN 0 ELSE IF Contradicts(p) THEN Denied ELSE Overall(p)]
=============================================================================
