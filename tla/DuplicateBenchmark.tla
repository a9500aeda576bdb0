------------------------- MODULE DuplicateBenchmark -------------------------
(***************************************************************************)
(* The synthetic benchmark of the duplicate scorer: thirty pairs with the  *)
(* decision expected of each (intelligence/evaluation_dataset.py).  A pair *)
(* is written as its category codes, the distance of its points in metres, *)
(* the minutes between its times, and the similarity that the vectorizer   *)
(* finds between its two texts; the resolver finds no city in any of them, *)
(* since it takes coordinates or a location name before the text.          *)
(***************************************************************************)
EXTENDS DuplicateScorer

Pair(id, a, b, metres, minutes, text, expected) ==
  [id |-> id, expected |-> expected,
   in |-> [a |-> a, b |-> b, metres |-> metres,
           seconds |-> IF minutes = Unknown THEN Unknown ELSE 60 * minutes,
           text |-> text, cities |-> "open"]]

Flood(id, metres, minutes, text, expected) ==
  Pair(id, "FLOOD_WATERLOGGING", "FLOOD_WATERLOGGING", metres, minutes, text, expected)

NearAndFar ==
  {Flood(1, 115, 15, 8253, "DUPLICATE"),
   Flood(2, 69, 20, 8023, "DUPLICATE"),
   Flood(3, 0, 2880, 10000, "DISTINCT"),
   Flood(4, 1148095, 30, 9309, "DISTINCT"),
   Flood(5, 6567, 10, 6872, "DISTINCT"),
   Flood(6, 23692, 15, 2831, "DISTINCT"),
   Flood(7, 0, 390, 5571, "DISTINCT"),
   Pair(8, "THUNDERSTORM", "THUNDERSTORM", 11871, 15, 2325, "DISTINCT")}

Gaps ==
  {Pair(9, "HEAVY_RAINFALL", "LANDSLIDE", 46718, 60, 461, "DISTINCT"),
   Pair(10, "HEATWAVE", "FLOOD_WATERLOGGING", 0, 10, 705, "DISTINCT"),
   Flood(11, Unknown, 10, 10000, "POSSIBLE_MATCH"),
   Flood(12, 0, Unknown, 6946, "POSSIBLE_MATCH"),
   Pair(13, "THUNDERSTORM", "THUNDERSTORM", Unknown, Unknown, 10000, "POSSIBLE_MATCH"),
   Flood(14, 984508, 15, 3969, "DISTINCT"),
   Flood(15, Unknown, 15, 3509, "DISTINCT")}

Neighbours ==
  {Flood(16, 133, 10, 4794, "DUPLICATE"),
   Flood(17, 69, 25, 7822, "DUPLICATE"),
   Pair(18, "COLDWAVE", "HEATWAVE", 0, 10, 551, "DISTINCT"),
   Flood(19, 662962, 20, 9194, "DISTINCT"),
   Flood(20, 39, 15, 6692, "DUPLICATE"),
   Flood(21, 46, 15, 8497, "DUPLICATE"),
   Flood(22, 62, 15, 7902, "DUPLICATE"),
   Flood(23, 6928, 10, 4942, "DISTINCT")}

Hazards ==
  {Pair(24, "LIGHTNING", "DROUGHT", 0, 10, 553, "DISTINCT"),
   Flood(25, 59, 20, 7303, "DUPLICATE"),
   Flood(26, 27219, 15, 4711, "DISTINCT"),
   Flood(27, 102, 20, 8059, "DUPLICATE"),
   Pair(28, "CYCLONE", "LANDSLIDE", 80151, 30, 0, "DISTINCT"),
   Flood(29, 765470, 15, 5656, "DISTINCT"),
   Flood(30, Unknown, 30, 10000, "POSSIBLE_MATCH")}

Pairs == NearAndFar \cup Gaps \cup Neighbours \cup Hazards

\* The pair is decided as run_benchmark_evaluation expects.
PairPasses(p) == Decision(p.in) = p.expected
=============================================================================
