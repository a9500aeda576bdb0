------------------------------ MODULE Physical ------------------------------
(***************************************************************************)
(* What a physical observation says of an incident                         *)
(* (intelligence/physical_corroboration/evaluator.py, config.py and        *)
(* models.py).                                                             *)
(*                                                                         *)
(* An observation is a record [station, distance, gap, read]: whether it   *)
(* is of a ground station, its distance in km and its gap to the incident  *)
(* in tenths of an hour, and a function from the variables it measured to  *)
(* their values in tenths of the code's unit. Weights and contributions    *)
(* are in units of 1/10000.                                                *)
(***************************************************************************)
EXTENDS Integers, Sequences, FiniteSets, SequencesExt

NoObservation == [missing |-> TRUE]

Categories ==
  {"HEAVY_RAINFALL", "FLOOD_WATERLOGGING", "URBAN_FLOOD", "CYCLONE_STORM", "STRONG_WIND", "DUST_STORM",
   "FOG", "HEATWAVE", "THUNDERSTORM_LIGHTNING", "HAILSTORM", "LANDSLIDE", "DROUGHT", "OTHER"}

\* The variable a category is about when nothing was observed.
PrimaryVariable(category) ==
  CASE category = "LANDSLIDE" -> "rainfall_24h" [] category = "HEATWAVE" -> "max_temperature"
    [] category \in {"STRONG_WIND", "CYCLONE_STORM"} -> "wind_speed"
    [] category \in {"FOG", "DUST_STORM"} -> "visibility" [] category = "DROUGHT" -> "rainfall_72h"
    [] OTHER -> "rainfall_1h"

MaxDistance(o) == IF o.station THEN 25 ELSE 20

MaxGap(category) ==
  IF category \in {"HEAVY_RAINFALL", "FLOOD_WATERLOGGING", "URBAN_FLOOD", "LANDSLIDE", "HEATWAVE"}
    THEN 240 ELSE 30

------------------------------------------------------------------------------
(* Rules of the categories *)

Above(o, v, least) == v \in DOMAIN o.read /\ o.read[v] >= least
Below(o, v, most) == v \in DOMAIN o.read /\ o.read[v] <= most
\* Not measured, or at most, or at least.
NotAbove(o, v, most) == v \in DOMAIN o.read => o.read[v] <= most
NotBelow(o, v, least) == v \in DOMAIN o.read => o.read[v] >= least
Code(o, codes) == "weather_code" \in DOMAIN o.read /\ o.read["weather_code"] \in codes

\* "a or b" of the code: b stands in for an a that is missing or zero.
Either(o, a, b) ==
  IF a \in DOMAIN o.read /\ o.read[a] # 0 THEN a ELSE b

\* The signs for a category, in the order they are tried: the variable of
\* each and whether it holds.
Signs(category, o) ==
  CASE category = "HEAVY_RAINFALL" ->
         << <<"rainfall_24h", Above(o, "rainfall_24h", 645)>>, <<"rainfall_1h", Above(o, "rainfall_1h", 150)>> >>
    [] category = "FLOOD_WATERLOGGING" ->
         << <<"rainfall_24h", Above(o, "rainfall_24h", 645)>>, <<"water_level", Above(o, "water_level", 1)>> >>
    [] category = "URBAN_FLOOD" ->
         << <<"rainfall_1h", Above(o, "rainfall_1h", 200)>>, <<"rainfall_3h", Above(o, "rainfall_3h", 400)>> >>
    [] category = "CYCLONE_STORM" ->
         << <<"wind_speed", Above(o, "wind_speed", 620)>>, <<"wind_gusts", Above(o, "wind_gusts", 800)>>,
            <<"pressure", Below(o, "pressure", 9900)>> >>
    [] category = "STRONG_WIND" ->
         << <<"wind_speed", Above(o, "wind_speed", 500)>>, <<"wind_gusts", Above(o, "wind_gusts", 600)>> >>
    [] category = "DUST_STORM" ->
         << <<"visibility", Below(o, "visibility", 9999) /\ NotBelow(o, "wind_gusts", 400)>> >>
    [] category = "FOG" -> << <<"visibility", Below(o, "visibility", 5000)>> >>
    [] category = "HEATWAVE" ->
         << <<"temperature", Above(o, Either(o, "max_temperature", "temperature"), 400)>> >>
    [] category = "THUNDERSTORM_LIGHTNING" ->
         << <<Either(o, "weather_code", "rainfall_1h"),
              Code(o, {91, 92, 95, 96, 99}) \/ Above(o, "rainfall_1h", 150)>> >>
    [] category = "HAILSTORM" -> << <<"weather_code", Code(o, {89, 90, 96, 99})>> >>
    [] category = "LANDSLIDE" ->
         << <<"rainfall_72h", Above(o, Either(o, "rainfall_72h", "rainfall_24h"), 1000)>> >>
    [] OTHER -> <<>>

\* What speaks against a category, and of which variable.
CounterSign(category, o) ==
  CASE category = "HEAVY_RAINFALL" -> <<"rainfall_24h", Below(o, "rainfall_24h", 1)>>
    [] category = "CYCLONE_STORM" -> <<"wind_gusts", Below(o, "wind_gusts", 200) /\ NotAbove(o, "wind_speed", 150)>>
    [] category = "STRONG_WIND" -> <<"wind_gusts", Below(o, "wind_gusts", 200) /\ NotAbove(o, "wind_speed", 100)>>
    [] category = "DUST_STORM" -> <<"visibility", Above(o, "visibility", 60001) /\ NotAbove(o, "wind_gusts", 150)>>
    [] category = "FOG" -> <<"visibility", Above(o, "visibility", 30001) /\ NotAbove(o, "humidity", 699)>>
    [] category = "HEATWAVE" ->
         <<"temperature", Below(o, Either(o, "max_temperature", "temperature"), 320)>>
    [] OTHER -> <<"", FALSE>>

\* The variable of a neutral verdict.
PlainVariable(category, o) ==
  CASE category = "HEAVY_RAINFALL" -> IF "rainfall_24h" \in DOMAIN o.read THEN "rainfall_24h" ELSE ""
    [] category = "FLOOD_WATERLOGGING" -> "rainfall_24h" [] category = "URBAN_FLOOD" -> "rainfall_1h"
    [] category \in {"CYCLONE_STORM", "STRONG_WIND"} -> "wind_speed"
    [] category \in {"DUST_STORM", "FOG"} -> "visibility" [] category = "HEATWAVE" -> "temperature"
    [] category = "THUNDERSTORM_LIGHTNING" -> "weather_code" [] OTHER -> ""

------------------------------------------------------------------------------
(* The evaluation *)

Verdict(verdict, variable, status, weight, contribution) ==
  [verdict |-> verdict, variable |-> variable, status |-> status, weight |-> weight,
   contribution |-> contribution]

Neutral(variable, status) == Verdict("NEUTRAL", variable, status, 0, 0)

AtLeast(a, b) == IF a >= b THEN a ELSE b
AtMost(a, b) == IF a <= b THEN a ELSE b

\* Reliability of the source, less for distance and for the gap.
Weight(category, o) ==
  LET near == AtLeast(2000, 10000 - (10000 * o.distance) \div MaxDistance(o))
      recent == AtLeast(3000, 10000 - (10000 * o.gap) \div MaxGap(category))
      reliability == IF o.station THEN 10000 ELSE 6000
  IN  (((reliability * near) \div 10000) * recent) \div 10000

TotalCap == 1000

\* The verdict the rules give, before model data are kept from contradicting.
Ruling(category, o) ==
  LET holds == SelectSeq(Signs(category, o), LAMBDA sign : sign[2])
      counter == CounterSign(category, o)
  IN  IF holds # <<>> THEN <<"SUPPORTS", Head(holds)[1]>>
      ELSE IF counter[2] THEN <<"CONTRADICTS", counter[1]>>
      ELSE <<"NEUTRAL", PlainVariable(category, o)>>

\* Mutant of Evaluate: the verdict of a model stands whatever it is.
EvaluateModelsToo(category, o) ==
  LET ruling == Ruling(category, o)
      weight == Weight(category, o)
  IN  IF o = NoObservation THEN Neutral(PrimaryVariable(category), "NO_DATA")
      ELSE IF o.distance > MaxDistance(o) THEN Neutral("", "TOO_FAR")
      ELSE IF o.gap > MaxGap(category) THEN Neutral("", "STALE_DATA")
      ELSE Verdict(ruling[1], ruling[2], "OK", weight, 0)

\* evaluate
Evaluate(category, o) ==
  IF o = NoObservation THEN Neutral(PrimaryVariable(category), "NO_DATA")
  ELSE IF o.distance > MaxDistance(o) THEN Neutral("", "TOO_FAR")
  ELSE IF o.gap > MaxGap(category) THEN Neutral("", "STALE_DATA")
  ELSE IF category \in {"DROUGHT", "OTHER"} THEN Neutral("", "NOT_APPLICABLE")
  ELSE
    LET ruling == Ruling(category, o)
        verdict == IF ruling[1] = "CONTRADICTS" /\ ~o.station THEN "NEUTRAL" ELSE ruling[1]
        weight == Weight(category, o)
    IN  Verdict(verdict, ruling[2], "OK", weight,
          CASE verdict = "SUPPORTS" -> AtMost(TotalCap, (weight * 1000) \div 10000)
            [] verdict = "CONTRADICTS" -> -AtMost(TotalCap, (weight * 1200) \div 10000)
            [] OTHER -> 0)
=============================================================================
