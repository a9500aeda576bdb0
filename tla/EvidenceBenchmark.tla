--------------------------- MODULE EvidenceBenchmark ---------------------------
(***************************************************************************)
(* The synthetic benchmark of the evidence scorer: sixty-five pairs of a   *)
(* report and an external item with the relationship expected of each      *)
(* (intelligence/evidence_evaluation_dataset.py).  A pair is written as    *)
(* the places of the two sides, the metres and minutes between them, the   *)
(* similarity the vectorizer finds between the texts, how much of the item *)
(* is of the report's hazard, and the marks of its text.                   *)
(***************************************************************************)
EXTENDS EvidenceScorer

StateOf ==
  [Mumbai |-> "Maharashtra", Thane |-> "Maharashtra", Pune |-> "Maharashtra",
   Bengaluru |-> "Karnataka", Shimoga |-> "Karnataka", Delhi |-> "Delhi",
   Chennai |-> "Tamil Nadu", Kolkata |-> "West Bengal", Kochi |-> "Kerala",
   Visakhapatnam |-> "Andhra Pradesh", Shimla |-> "Himachal Pradesh",
   Dehradun |-> "Uttarakhand", Kathmandu |-> "", Hyderabad |-> "Telangana",
   Guwahati |-> "Assam", Patna |-> "Bihar", Amritsar |-> "Punjab", Puri |-> "Odisha",
   Jaipur |-> "Rajasthan", Lucknow |-> "Uttar Pradesh"]

At(city) == [point |-> TRUE, city |-> city, state |-> StateOf[city]]
In(city) == [point |-> FALSE, city |-> city, state |-> StateOf[city]]
Statewide(state) == [point |-> FALSE, city |-> "", state |-> state]
Nowhere == Statewide("")
Anywhere == [point |-> TRUE, city |-> "", state |-> ""]

Pair(id, inc, ev, metres, minutes, text, hazard, marks, expected) ==
  [id |-> id, expected |-> expected,
   in |-> [inc |-> inc, ev |-> ev, metres |-> metres, minutes |-> minutes, text |-> text,
           hazard |-> hazard, marks |-> marks]]

\* Both sides have a point in the same city.
Near(id, city, metres, minutes, text, hazard, marks, expected) ==
  Pair(id, At(city), At(city), metres, minutes, text, hazard, marks, expected)

PairsTo9 ==
  {Near(1, "Mumbai", 0, 30, 6808, "words", {"locality"}, "SUPPORTING"),
   Near(2, "Mumbai", 0, 15, 4440, "words", {"locality"}, "SUPPORTING"),
   Near(3, "Bengaluru", 0, 10, 5165, "words", {"locality"}, "SUPPORTING"),
   Pair(4, At("Mumbai"), Nowhere, Unknown, 120, 3556, "word", {"advisory"}, "CONTEXTUAL"),
   Pair(5, At("Mumbai"), Nowhere, Unknown, 30, 1763, "words", {"foreign"}, "IRRELEVANT"),
   Pair(6, At("Mumbai"), At("Delhi"), 1144791, 20, 1830, "words", {}, "IRRELEVANT"),
   Near(7, "Mumbai", 5844, 3204000, 4069, "words", {}, "IRRELEVANT"),
   Pair(8, At("Mumbai"), Nowhere, Unknown, 15, 4, "excluded", {}, "IRRELEVANT"),
   Near(9, "Mumbai", 0, 30, 6330, "words", {"locality", "denial"}, "CONTRADICTORY")}

PairsTo18 ==
  {Near(10, "Mumbai", 4437, 45, 220, "weather", {}, "RELATED"),
   Near(11, "Chennai", 0, 30, 7084, "words", {}, "SUPPORTING"),
   Pair(12, At("Chennai"), At("Kolkata"), 1364385, 20, 3276, "words", {}, "IRRELEVANT"),
   Near(13, "Delhi", 0, 25, 6163, "words", {"locality"}, "SUPPORTING"),
   Near(14, "Delhi", 0, 15, 5094, "words", {"locality"}, "SUPPORTING"),
   Pair(15, At("Mumbai"), Nowhere, Unknown, 10, 0, "weather", {}, "IRRELEVANT"),
   Pair(16, Nowhere, Nowhere, Unknown, 30, 1491, "words", {}, "RELATED"),
   Near(17, "Kochi", 0, 40, 5994, "words", {}, "SUPPORTING"),
   Pair(18, Anywhere, At("Visakhapatnam"), 80151, 20, 4, "weather", {}, "IRRELEVANT")}

PairsTo27 ==
  {Near(19, "Shimla", 0, 45, 4458, "words", {}, "SUPPORTING"),
   Pair(20, At("Dehradun"), At("Kathmandu"), 765470, 15, 2139, "words", {"foreign"}, "IRRELEVANT"),
   Near(21, "Mumbai", 0, 30, 5461, "words", {"locality"}, "SUPPORTING"),
   Pair(22, At("Hyderabad"), Nowhere, Unknown, 10, 592, "weather", {}, "IRRELEVANT"),
   Pair(23, At("Thane"), Statewide("Maharashtra"), Unknown, 30, 325, "unrelated", {"advisory"}, "CONTEXTUAL"),
   Near(24, "Delhi", 0, 20, 8312, "word", {}, "SUPPORTING"),
   Near(25, "Mumbai", 0, 4680, 8563, "words", {"locality"}, "IRRELEVANT"),
   Near(26, "Mumbai", 0, 20, 6194, "words", {"locality"}, "SUPPORTING"),
   Near(27, "Mumbai", 0, 30, 4789, "unrelated", {"locality", "denial"}, "CONTRADICTORY")}

PairsTo35 ==
  {Pair(28, At("Guwahati"), At("Patna"), 662962, 20, 4007, "words", {}, "IRRELEVANT"),
   Near(29, "Bengaluru", 0, 25, 5631, "words", {"locality"}, "SUPPORTING"),
   Near(30, "Shimla", 0, 30, 4999, "words", {}, "SUPPORTING"),
   Pair(31, At("Amritsar"), Statewide("Punjab"), Unknown, 30, 1358, "words", {"foreign"}, "IRRELEVANT"),
   Near(32, "Mumbai", 0, 20, 4271, "word", {"locality"}, "SUPPORTING"),
   Near(33, "Pune", 0, 45, 959, "weather", {}, "RELATED"),
   Near(34, "Mumbai", 0, 15, 4566, "word", {"locality"}, "SUPPORTING"),
   Pair(35, At("Mumbai"), Nowhere, Unknown, 10, 2197, "excluded", {}, "IRRELEVANT")}

PairsTo44 ==
  {Pair(36, In("Mumbai"), At("Puri"), Unknown, 30, 4398, "words", {}, "IRRELEVANT"),
   Pair(37, In("Bengaluru"), Statewide("Goa"), Unknown, 30, 221, "weather", {}, "IRRELEVANT"),
   Pair(38, In("Mumbai"), At("Shimoga"), Unknown, 30, 2888, "words", {}, "IRRELEVANT"),
   Pair(39, In("Chennai"), At("Patna"), Unknown, 20, 4476, "words", {}, "IRRELEVANT"),
   Pair(40, In("Delhi"), At("Guwahati"), Unknown, 30, 2466, "word", {}, "IRRELEVANT"),
   Pair(41, In("Jaipur"), At("Kochi"), Unknown, 25, 2355, "words", {}, "IRRELEVANT"),
   Pair(42, In("Hyderabad"), At("Kolkata"), Unknown, 15, 701, "weather", {}, "IRRELEVANT"),
   Pair(43, In("Bengaluru"), At("Dehradun"), Unknown, 20, 3053, "unrelated", {}, "IRRELEVANT"),
   Pair(44, In("Pune"), Nowhere, Unknown, 30, 2570, "words", {}, "IRRELEVANT")}

PairsTo53 ==
  {Pair(45, In("Mumbai"), At("Lucknow"), Unknown, 25, 922, "word", {}, "IRRELEVANT"),
   Pair(46, At("Chennai"), Nowhere, Unknown, 15, 4048, "word", {}, "IRRELEVANT"),
   Pair(47, At("Mumbai"), Statewide("Odisha"), Unknown, 20, 1224, "word", {}, "IRRELEVANT"),
   Pair(48, At("Bengaluru"), Statewide("Assam"), Unknown, 15, 1694, "words", {}, "IRRELEVANT"),
   Pair(49, At("Kochi"), Statewide("Gujarat"), Unknown, 30, 255, "words", {}, "IRRELEVANT"),
   Pair(50, At("Bengaluru"), At("Shimoga"), 243685, 20, 1292, "words", {}, "IRRELEVANT"),
   Pair(51, In("Mumbai"), At("Mumbai"), Unknown, 20, 8422, "words", {"locality"}, "SUPPORTING"),
   Pair(52, In("Bengaluru"), At("Bengaluru"), Unknown, 20, 7190, "words", {}, "SUPPORTING"),
   Pair(53, In("Delhi"), At("Delhi"), Unknown, 15, 8479, "words", {"locality"}, "SUPPORTING")}

PairsTo62 ==
  {Pair(54, In("Chennai"), At("Chennai"), Unknown, 20, 7664, "words", {"locality"}, "SUPPORTING"),
   Pair(55, In("Kolkata"), At("Kolkata"), Unknown, 25, 8587, "words", {}, "SUPPORTING"),
   Pair(56, In("Mumbai"), At("Mumbai"), Unknown, 20, 5665, "word", {"locality"}, "SUPPORTING"),
   Pair(57, At("Mumbai"), Statewide("Maharashtra"), Unknown, 30, 330, "weather", {"advisory"}, "CONTEXTUAL"),
   Pair(58, At("Bengaluru"), Statewide("Karnataka"), Unknown, 30, 2193, "word", {}, "CONTEXTUAL"),
   Pair(59, At("Chennai"), Statewide("Tamil Nadu"), Unknown, 30, 1125, "weather", {}, "CONTEXTUAL"),
   Pair(60, At("Kochi"), Statewide("Kerala"), Unknown, 30, 1639, "word", {}, "CONTEXTUAL"),
   Near(61, "Mumbai", 5499, 20, 4823, "word", {}, "SUPPORTING"),
   Near(62, "Bengaluru", 0, 20, 7816, "words", {"locality"}, "SUPPORTING")}

PairsTo65 ==
  {Near(63, "Chennai", 0, 20, 8377, "word", {"locality"}, "SUPPORTING"),
   Near(64, "Kolkata", 5752, 25, 7296, "unrelated", {}, "SUPPORTING"),
   Near(65, "Hyderabad", 13623, 20, 8189, "word", {}, "SUPPORTING")}

Pairs == UNION {PairsTo9, PairsTo18, PairsTo27, PairsTo35, PairsTo44, PairsTo53, PairsTo62, PairsTo65}

\* The pair is related as run_evidence_benchmark_evaluation expects.
PairPasses(p) == Relationship(p.in) = p.expected
=============================================================================
