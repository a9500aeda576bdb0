-------------------------- MODULE Assessment_proofs --------------------------
(***************************************************************************)
(* Machine-checked theorems about the three ways an incident is assessed:  *)
(* PhysicalService for any incidents, cells, weather and limits,           *)
(* Credibility for any finite cluster and any facts, Forensics for any     *)
(* images, pictures, reports and workers.                                  *)
(***************************************************************************)
EXTENDS PhysicalService, Credibility, Forensics, FiniteSetTheorems, SequenceTheorems,
        WellFoundedInduction, TLAPS

------------------------------------------------------------------------------
(* One flight per cell *)

Leads(i, c) == pc[i] = "lead" /\ CellOf[i] = c

FlightOfLeader ==
  \A c \in Cells :
    /\ \A i, j \in Incidents : Leads(i, c) /\ Leads(j, c) => i = j
    /\ \A i \in Incidents : Leads(i, c) => flight[c] = mine[i]
    /\ flight[c] # 0 => \E i \in Incidents : Leads(i, c)

\* The map of flights names the fetch of the one leader of a cell; leaders and
\* followers have a future.
FlightInv ==
  /\ \A i \in Incidents : pc[i] \in {"lead", "follow"} => mine[i] # 0
  /\ FlightOfLeader

\* The types and the map of flights hold at the start.
LEMMA PhysicalStart ==
  ASSUME PhysicalAssumption, PhysicalInit
  PROVE  TypeOK /\ FlightInv
<1>1. TypeOK
  BY DEF PhysicalAssumption, PhysicalInit, TypeOK, Results, Result, Flights, Definitive, Transient
<1>2. FlightInv
  BY DEF PhysicalInit, FlightInv, FlightOfLeader, Leads, Cells
<1> QED BY <1>1, <1>2

\* A result is one, as are its parts; an incident is of a cell.
LEMMA ResultTypes ==
  /\ \A i \in Incidents : CellOf[i] \in Cells /\ Result("OK", i) \in Results
  /\ \A s \in {"pending", Definitive, Transient} : Result(s, Nobody) \in Results
  /\ \A r \in Results : r.of \in Incidents \cup {Nobody}
  /\ \A r \in Results : r.status = "pending" => [r EXCEPT !.status = "cancelled"] \in Results
  /\ \A r \in Results : [r EXCEPT !.status = r.status] = r
  BY DEF Results, Result, Cells, Definitive, Transient

\* A leader settles with a result.
LEMMA SettleTypes ==
  ASSUME TypeOK, NEW i \in Incidents, NEW result \in Results, Settle(i, result)
  PROVE  /\ future' \in [Flights -> Results]
         /\ got' \in [Incidents -> Results]
         /\ pc' \in [Incidents -> {"idle", "lead", "follow", "have", "done", "cancelled"}]
  BY DEF Settle, TypeOK

\* Every step keeps the types.
LEMMA PhysicalTypes ==
  ASSUME PhysicalAssumption, TypeOK, FlightInv, [PhysicalNext]_physicalVars
  PROVE  TypeOK'
<1> USE ResultTypes
<1>1. ASSUME NEW i \in Incidents, Hit(i)  PROVE TypeOK'
  BY <1>1 DEF Hit, TypeOK
<1>2. ASSUME NEW i \in Incidents, Follow(i)  PROVE TypeOK'
  BY <1>2 DEF Follow, Miss, TypeOK
<1>3. ASSUME NEW i \in Incidents, Lead(i)  PROVE TypeOK'
  <2>1. used + 1 \in Flights /\ used + 1 \in 0 .. MaxFlights /\ 0 \in 0 .. MaxAttempts - 1
    BY <1>3 DEF Lead, StartFlight, TypeOK, Flights, PhysicalAssumption
  <2>2. flight' \in [Cells -> Flights \cup {0}] /\ mine' \in [Incidents -> Flights \cup {0}]
    BY <1>3, <2>1 DEF Lead, Miss, StartFlight, TypeOK
  <2>3. pc' \in [Incidents -> {"idle", "lead", "follow", "have", "done", "cancelled"}]
    BY <1>3 DEF Lead, Miss, StartFlight, TypeOK
  <2>4. attempt' \in [Incidents -> 0 .. MaxAttempts - 1]
    BY <1>3, <2>1 DEF Lead, StartFlight, TypeOK
  <2> QED BY <1>3, <2>1, <2>2, <2>3, <2>4 DEF Lead, StartFlight, TypeOK
<1>4. ASSUME NEW i \in Incidents, Land(i)
      PROVE  flight' \in [Cells -> Flights \cup {0}] /\ attempt' \in [Incidents -> 0 .. MaxAttempts - 1]
  BY <1>4 DEF Land, TypeOK, PhysicalAssumption
<1>5. ASSUME NEW i \in Incidents, Observed(i)  PROVE TypeOK'
  BY <1>4, <1>5, SettleTypes DEF Observed, TypeOK
<1>6. ASSUME NEW i \in Incidents, Refused(i)  PROVE TypeOK'
  BY <1>4, <1>6, SettleTypes DEF Refused, TypeOK
<1>7. ASSUME NEW i \in Incidents, Retry(i)  PROVE TypeOK'
  BY <1>7 DEF Retry, TypeOK, PhysicalAssumption
<1>8. ASSUME NEW i \in Incidents, GiveUp(i)  PROVE TypeOK'
  BY <1>4, <1>8, SettleTypes DEF GiveUp, TypeOK
<1>9. ASSUME NEW i \in Incidents, Wake(i)  PROVE TypeOK'
  <2>1. mine[i] \in Flights
    BY <1>9 DEF Wake, TypeOK, FlightInv
  <2>2. got' \in [Incidents -> Results]
    BY <1>9, <2>1 DEF Wake, TypeOK
  <2>3. pc' \in [Incidents -> {"idle", "lead", "follow", "have", "done", "cancelled"}]
    BY <1>9 DEF Wake, TypeOK
  <2> QED BY <1>9, <2>2, <2>3 DEF Wake, TypeOK
<1>10. ASSUME NEW i \in Incidents, CancelLeader(i)  PROVE TypeOK'
  BY <1>4, <1>10 DEF CancelLeader, TypeOK, FlightInv, PhysicalAssumption
<1>11. ASSUME NEW i \in Incidents, CancelFollower(i)  PROVE TypeOK'
  <2>1. mine[i] \in Flights
    BY <1>11 DEF CancelFollower, TypeOK, FlightInv
  <2>2. future' \in [Flights -> Results]
    BY <1>11, <2>1 DEF CancelFollower, TypeOK, Results
  <2> QED BY <1>11, <2>2 DEF CancelFollower, TypeOK, PhysicalAssumption
<1>12. ASSUME NEW i \in Incidents, Persist(i)  PROVE TypeOK'
  <2>1. rows' = [j \in Incidents |-> rows'[j]]
    BY <1>12 DEF Persist, TypeOK
  <2> QED BY <1>12, <2>1 DEF Persist, TypeOK
<1>13. ASSUME NEW c \in Cells, Expire(c)  PROVE TypeOK'
  BY <1>13 DEF Expire, TypeOK, PhysicalAssumption
<1>14. CASE UNCHANGED physicalVars
  BY <1>14 DEF physicalVars, TypeOK
<1> QED BY <1>1, <1>2, <1>3, <1>5, <1>6, <1>7, <1>8, <1>9, <1>10, <1>11, <1>12, <1>13, <1>14 DEF PhysicalNext

\* The actions that leave the leaders and the map of flights alone.
LEMMA FlightsAlone ==
  ASSUME TypeOK, FlightInv, NEW i \in Incidents, pc[i] # "lead", UNCHANGED flight,
         \E s \in {"idle", "follow", "have", "done", "cancelled"} : pc' = [pc EXCEPT ![i] = s],
         \A j \in Incidents \ {i} : mine'[j] = mine[j],
         pc'[i] = "follow" => mine'[i] # 0
  PROVE  FlightInv'
<1>1. \A j \in Incidents, c \in Cells : (pc[j] = "lead") = (pc'[j] = "lead") /\ (pc[j] = "lead" => j # i)
  BY DEF TypeOK
<1>2. \A j \in Incidents : pc'[j] \in {"lead", "follow"} => mine'[j] # 0
  BY <1>1 DEF FlightInv, TypeOK
<1>3. FlightOfLeader'
  BY <1>1 DEF FlightInv, FlightOfLeader, Leads
<1> QED BY <1>2, <1>3 DEF FlightInv

\* The actions that end the flight of a leader.
LEMMA FlightLands ==
  ASSUME TypeOK, FlightInv, NEW i \in Incidents, pc[i] = "lead", Land(i), UNCHANGED mine,
         \E s \in {"have", "done", "cancelled"} : pc' = [pc EXCEPT ![i] = s]
  PROVE  FlightInv'
<1>1. \A j \in Incidents : pc'[j] = IF j = i THEN pc'[i] ELSE pc[j]
  BY DEF TypeOK
<1>2. pc'[i] \notin {"lead", "follow"}
  BY DEF TypeOK
<1>3. \A j \in Incidents : pc'[j] \in {"lead", "follow"} => mine'[j] # 0
  BY <1>1, <1>2 DEF FlightInv
<1>4. \A c \in Cells : flight'[c] = IF c = CellOf[i] THEN 0 ELSE flight[c]
  BY DEF Land, TypeOK
<1>5. \A j \in Incidents, c \in Cells : Leads(j, c)' <=> Leads(j, c) /\ j # i
  BY <1>1, <1>2 DEF Leads
<1>6. \A j \in Incidents : Leads(j, CellOf[i]) => j = i
  BY ResultTypes DEF FlightInv, FlightOfLeader, Leads
<1>7. FlightOfLeader'
  <2> SUFFICES ASSUME NEW c \in Cells
               PROVE  /\ \A j, k \in Incidents : Leads(j, c)' /\ Leads(k, c)' => j = k
                      /\ \A j \in Incidents : Leads(j, c)' => flight'[c] = mine'[j]
                      /\ flight'[c] # 0 => \E j \in Incidents : Leads(j, c)'
    BY DEF FlightOfLeader
  <2>1. CASE c = CellOf[i]
    BY <1>4, <1>5, <1>6, <2>1
  <2>2. CASE c # CellOf[i]
    BY <1>4, <1>5, <2>2 DEF FlightInv, FlightOfLeader, Leads
  <2> QED BY <2>1, <2>2
<1> QED BY <1>3, <1>7 DEF FlightInv

\* Every step keeps the map of flights.
LEMMA PhysicalFlights ==
  ASSUME PhysicalAssumption, TypeOK, FlightInv, [PhysicalNext]_physicalVars
  PROVE  FlightInv'
<1>1. ASSUME NEW i \in Incidents, Hit(i)  PROVE FlightInv'
  <2>1. pc' = [pc EXCEPT ![i] = "have"] /\ pc[i] # "lead" /\ UNCHANGED <<flight, mine>>
    BY <1>1 DEF Hit
  <2>2. pc'[i] # "follow"
    BY <2>1 DEF TypeOK
  <2> QED BY <2>1, <2>2, FlightsAlone
<1>2. ASSUME NEW i \in Incidents, Follow(i)  PROVE FlightInv'
  <2>1. mine'[i] # 0 /\ \A j \in Incidents \ {i} : mine'[j] = mine[j]
    BY <1>2, ResultTypes DEF Follow, TypeOK
  <2> QED BY <1>2, <2>1, FlightsAlone DEF Follow, Miss
<1>3. ASSUME NEW i \in Incidents, Lead(i)  PROVE FlightInv'
  <2>1. \A j \in Incidents : /\ pc'[j] = IF j = i THEN "lead" ELSE pc[j]
                             /\ mine'[j] = IF j = i THEN used + 1 ELSE mine[j]
    BY <1>3 DEF Lead, StartFlight, TypeOK
  <2>2. \A c \in Cells : flight'[c] = IF c = CellOf[i] THEN used + 1 ELSE flight[c]
    BY <1>3 DEF Lead, StartFlight, TypeOK
  <2>3. used + 1 # 0
    BY DEF TypeOK, PhysicalAssumption
  <2>4. \A j \in Incidents : ~ Leads(j, CellOf[i])
    BY <1>3, ResultTypes DEF Lead, FlightInv, FlightOfLeader, Leads
  <2>5. \A j \in Incidents, c \in Cells : Leads(j, c)' <=> Leads(j, c) \/ (j = i /\ c = CellOf[i])
    BY <1>3, <2>1 DEF Leads, Lead, Miss
  <2>6. FlightOfLeader'
    <3> SUFFICES ASSUME NEW c \in Cells
                 PROVE  /\ \A j, k \in Incidents : Leads(j, c)' /\ Leads(k, c)' => j = k
                        /\ \A j \in Incidents : Leads(j, c)' => flight'[c] = mine'[j]
                        /\ flight'[c] # 0 => \E j \in Incidents : Leads(j, c)'
      BY DEF FlightOfLeader
    <3>1. CASE c = CellOf[i]
      BY <2>1, <2>2, <2>4, <2>5, <3>1
    <3>2. CASE c # CellOf[i]
      <4>1. \A j \in Incidents : Leads(j, c)' <=> Leads(j, c)
        BY <2>5, <3>2
      <4>2. \A j \in Incidents : Leads(j, c) => mine'[j] = mine[j]
        BY <2>1, <3>2 DEF Leads
      <4> QED BY <2>2, <3>2, <4>1, <4>2 DEF FlightInv, FlightOfLeader
    <3> QED BY <3>1, <3>2
  <2> QED BY <2>1, <2>3, <2>6 DEF FlightInv
<1>4. ASSUME NEW i \in Incidents, NEW result, Settle(i, result)
      PROVE  \E s \in {"have", "done", "cancelled"} : pc' = [pc EXCEPT ![i] = s]
  BY <1>4 DEF Settle
<1>5. ASSUME NEW i \in Incidents, Observed(i)  PROVE FlightInv'
  BY <1>4, <1>5, FlightLands DEF Observed
<1>6. ASSUME NEW i \in Incidents, Refused(i)  PROVE FlightInv'
  BY <1>4, <1>6, FlightLands DEF Refused
<1>7. ASSUME NEW i \in Incidents, Retry(i)  PROVE FlightInv'
  BY <1>7 DEF Retry, FlightInv, FlightOfLeader, Leads
<1>8. ASSUME NEW i \in Incidents, GiveUp(i)  PROVE FlightInv'
  BY <1>4, <1>8, FlightLands DEF GiveUp
<1>9. ASSUME NEW i \in Incidents, Wake(i)  PROVE FlightInv'
  <2>1. \E s \in {"idle", "follow", "have", "done", "cancelled"} : pc' = [pc EXCEPT ![i] = s]
    BY <1>9 DEF Wake
  <2>2. pc[i] = "follow" /\ mine' = mine /\ flight' = flight /\ mine[i] # 0
    BY <1>9 DEF Wake, FlightInv
  <2> QED BY <2>1, <2>2, FlightsAlone
<1>10. ASSUME NEW i \in Incidents, CancelLeader(i)  PROVE FlightInv'
  BY <1>10, FlightLands DEF CancelLeader
<1>11. ASSUME NEW i \in Incidents, CancelFollower(i)  PROVE FlightInv'
  BY <1>11, FlightsAlone DEF CancelFollower, TypeOK
<1>12. ASSUME NEW i \in Incidents, Persist(i)  PROVE FlightInv'
  <2>1. pc'[i] # "follow" /\ \A j \in Incidents \ {i} : mine'[j] = mine[j]
    BY <1>12 DEF Persist, TypeOK
  <2> QED BY <1>12, <2>1, FlightsAlone DEF Persist
<1>13. ASSUME NEW c \in Cells, Expire(c)  PROVE FlightInv'
  BY <1>13 DEF Expire, FlightInv, FlightOfLeader, Leads
<1>14. CASE UNCHANGED physicalVars
  BY <1>14 DEF physicalVars, FlightInv, FlightOfLeader, Leads
<1> QED BY <1>1, <1>2, <1>3, <1>5, <1>6, <1>7, <1>8, <1>9, <1>10, <1>11, <1>12, <1>13, <1>14 DEF PhysicalNext

\* The state of a cell and its leaders, and with it the property.
LEMMA FlightsFollow ==
  ASSUME FlightInv
  PROVE  OneFlightPerCell
<1> SUFFICES ASSUME NEW c \in Cells
             PROVE  LET leaders == {i \in Incidents : pc[i] = "lead" /\ CellOf[i] = c}
                    IN  /\ Cardinality(leaders) <= 1
                        /\ (flight[c] # 0 <=> leaders # {})
                        /\ \A i \in leaders : flight[c] = mine[i]
  BY DEF OneFlightPerCell
<1> DEFINE leaders == {i \in Incidents : pc[i] = "lead" /\ CellOf[i] = c}
<1>1. \A i \in leaders : flight[c] = mine[i] /\ flight[c] # 0
  BY DEF FlightInv, FlightOfLeader, Leads
<1>2. flight[c] # 0 => leaders # {}
  BY DEF FlightInv, FlightOfLeader, Leads
<1>3. Cardinality(leaders) <= 1
  <2>1. CASE leaders = {}
    BY <2>1, FS_EmptySet
  <2>2. CASE leaders # {}
    <3>1. PICK i \in leaders : TRUE
      BY <2>2
    <3>2. leaders = {i}
      BY <3>1 DEF FlightInv, FlightOfLeader, Leads
    <3>3. Cardinality({i}) = 1
      BY FS_Singleton
    <3> HIDE DEF leaders
    <3> QED BY <3>2, <3>3
  <2> QED BY <2>1, <2>2
<1> QED BY <1>1, <1>2, <1>3

\* One provider call per cell at a time (the single-flight map of
\* providers/cache.py), whoever is cancelled and whatever a provider answers.
THEOREM FlightsAreSingle ==
  ASSUME PhysicalAssumption
  PROVE  PhysicalSpec => [](TypeOK /\ OneFlightPerCell)
<1>1. PhysicalInit => TypeOK /\ FlightInv
  BY PhysicalStart
<1>2. TypeOK /\ FlightInv /\ [PhysicalNext]_physicalVars => TypeOK' /\ FlightInv'
  BY PhysicalTypes, PhysicalFlights
<1>3. TypeOK /\ FlightInv => OneFlightPerCell
  BY FlightsFollow
<1> QED BY <1>1, <1>2, <1>3, PTL DEF PhysicalSpec

------------------------------------------------------------------------------
(* Verdicts rest on observations in range *)

\* An observation as a provider returns it.
IsObservation(o) == o.station \in BOOLEAN /\ o.distance \in Nat /\ o.gap \in Nat

\* The product of two weights in units of 1/10000, and a share of one.
LEMMA Shares ==
  /\ \A a, b \in Nat : (a * b) \div 10000 \in Nat
  /\ \A a \in Nat : AtMost(TotalCap, a) \in 0 .. TotalCap
<1>1. ASSUME NEW a \in Nat, NEW b \in Nat  PROVE (a * b) \div 10000 \in Nat
  <2>1. a * b \in Nat
    OBVIOUS
  <2> QED BY <2>1
<1>2. ASSUME NEW a \in Nat  PROVE AtMost(TotalCap, a) \in 0 .. TotalCap
  BY DEF AtMost, TotalCap
<1> QED BY <1>1, <1>2

\* A weight is no less than nothing.
LEMMA WeightIsNatural ==
  ASSUME NEW category, NEW o, IsObservation(o)
  PROVE  Weight(category, o) \in Nat
<1> DEFINE near == AtLeast(2000, 10000 - (10000 * o.distance) \div MaxDistance(o))
           recent == AtLeast(3000, 10000 - (10000 * o.gap) \div MaxGap(category))
           reliability == IF o.station THEN 10000 ELSE 6000
<1>1. near \in Nat
  BY DEF IsObservation, MaxDistance, AtLeast
<1>2. recent \in Nat
  BY DEF IsObservation, MaxGap, AtLeast
<1>3. reliability \in Nat
  OBVIOUS
<1>4. Weight(category, o) = (((reliability * near) \div 10000) * recent) \div 10000
  BY DEF Weight
<1> HIDE DEF near, recent, reliability
<1> QED BY <1>1, <1>2, <1>3, <1>4, Shares

\* A verdict for or against a category rests on an observation in range.
LEMMA EvaluateGrounded ==
  ASSUME NEW category \in Categories, NEW o, IsObservation(o), o # NoObservation,
         Evaluate(category, o).verdict # "NEUTRAL"
  PROVE  /\ o.distance <= MaxDistance(o) /\ o.gap <= MaxGap(category)
         /\ Evaluate(category, o).verdict = "CONTRADICTS" =>
              o.station /\ category \notin {"FLOOD_WATERLOGGING", "URBAN_FLOOD"}
         /\ Evaluate(category, o).contribution \in -TotalCap .. TotalCap
<1> DEFINE ruling == Ruling(category, o)
           verdict == IF ruling[1] = "CONTRADICTS" /\ ~o.station THEN "NEUTRAL" ELSE ruling[1]
           weight == Weight(category, o)
           contribution == CASE verdict = "SUPPORTS" -> AtMost(TotalCap, (weight * 1000) \div 10000)
                             [] verdict = "CONTRADICTS" -> -AtMost(TotalCap, (weight * 1200) \div 10000)
                             [] OTHER -> 0
<1>1. o.distance <= MaxDistance(o) /\ o.gap <= MaxGap(category)
  <2>1. ~(o.distance > MaxDistance(o)) /\ ~(o.gap > MaxGap(category))
    BY DEF Evaluate, Neutral, Verdict
  <2> QED BY <2>1 DEF IsObservation, MaxDistance, MaxGap
<1>2. /\ Evaluate(category, o).verdict = verdict
      /\ Evaluate(category, o).contribution = contribution
  BY DEF Evaluate, Neutral, Verdict
<1>3. verdict = "CONTRADICTS" => o.station /\ category \notin {"FLOOD_WATERLOGGING", "URBAN_FLOOD"}
  <2>1. ruling[1] = "CONTRADICTS" => CounterSign(category, o)[2]
    BY DEF Ruling
  <2>2. category \in {"FLOOD_WATERLOGGING", "URBAN_FLOOD"} => ~CounterSign(category, o)[2]
    BY DEF CounterSign
  <2> QED BY <2>1, <2>2
<1>4. contribution \in -TotalCap .. TotalCap
  <2>1. weight \in Nat
    BY WeightIsNatural
  <2> HIDE DEF verdict, weight
  <2>2. (weight * 1000) \div 10000 \in Nat /\ (weight * 1200) \div 10000 \in Nat
    BY <2>1, Shares
  <2>3. /\ AtMost(TotalCap, (weight * 1000) \div 10000) \in 0 .. TotalCap
        /\ AtMost(TotalCap, (weight * 1200) \div 10000) \in 0 .. TotalCap
    BY <2>2, Shares
  <2>4. TotalCap \in Nat
    BY DEF TotalCap
  <2> QED BY <2>3, <2>4
<1> HIDE DEF verdict, contribution
<1> QED BY <1>1, <1>2, <1>3, <1>4

\* What a provider returns is an observation, at its place and at another.
LEMMA ObservationShape ==
  ASSUME PhysicalAssumption, NEW i \in Incidents, Observation(i) # NoObservation
  PROVE  /\ IsObservation(Observation(i))
         /\ IsObservation([Observation(i) EXCEPT !.distance = Apart])
<1>1. CASE provider = "OPEN_METEO"
  BY <1>1 DEF Observation, OpenMeteo, IsObservation, PhysicalAssumption
<1>2. CASE provider # "OPEN_METEO"
  <2> DEFINE station(read) == [station |-> TRUE, distance |-> 1, gap |-> 0, read |-> read]
             wet == [rainfall_1h |-> 785, rainfall_24h |-> 1420, wind_speed |-> 820, temperature |-> 275]
             dry == [rainfall_1h |-> 0, rainfall_24h |-> 0, wind_speed |-> 50, wind_gusts |-> 80,
                     temperature |-> 210, max_temperature |-> 230]
  <2>1. Observation(i) \in {station(wet), station(dry), NoObservation}
    BY <1>2 DEF Observation, Fixture
  <2>2. PICK read : Observation(i) = [station |-> TRUE, distance |-> 1, gap |-> 0, read |-> read]
    <3> HIDE DEF wet, dry
    <3> QED BY <2>1
  <2> QED BY <2>2 DEF IsObservation, PhysicalAssumption
<1> QED BY <1>1, <1>2

\* A result that says OK carries an observation of an incident.
Sound(result) == result.status = "OK" => result.of # Nobody /\ Observation(result.of) # NoObservation

SoundInv ==
  /\ \A c \in Cells : cached[c] # Nobody => Observation(cached[c]) # NoObservation
  /\ \A f \in Flights : Sound(future[f])
  /\ \A i \in Incidents : Sound(got[i])

\* What a row with a verdict rests on.
Grounded(i, judged, of) ==
  judged.verdict # "NEUTRAL" =>
    /\ of # Nobody
    /\ LET o == Seen(i, Result("OK", of))
       IN  /\ o.distance <= MaxDistance(o) /\ o.gap <= MaxGap(CategoryOf[i])
           /\ judged.verdict = "CONTRADICTS" =>
                o.station /\ CategoryOf[i] \notin {"FLOOD_WATERLOGGING", "URBAN_FLOOD"}
    /\ judged.contribution \in -TotalCap .. TotalCap

\* A sound result is judged on grounds.
LEMMA JudgedGrounded ==
  ASSUME PhysicalAssumption, NEW i \in Incidents, NEW result \in Results, Sound(result)
  PROVE  Grounded(i, Judged(i, result), result.of)
<1> DEFINE o == Seen(i, result)
           verdict == Evaluate(CategoryOf[i], o)
<1>1. CASE result.status # "OK"
  <2>1. o = NoObservation
    BY <1>1 DEF Seen
  <2>2. verdict = Neutral(PrimaryVariable(CategoryOf[i]), "NO_DATA")
    BY <2>1 DEF Evaluate
  <2>3. Judged(i, result) = [verdict EXCEPT !.status = result.status]
    BY <1>1 DEF Judged
  <2>4. Judged(i, result).verdict = "NEUTRAL"
    BY <2>2, <2>3 DEF Neutral, Verdict
  <2> QED BY <2>4 DEF Grounded
<1>2. CASE result.status = "OK"
  <2>1. result.of \in Incidents /\ result.of # Nobody /\ Observation(result.of) # NoObservation
    BY <1>2, ResultTypes DEF Sound
  <2>2. Judged(i, result) = verdict
    BY <1>2 DEF Judged
  <2>3. o = Seen(i, Result("OK", result.of))
    BY <1>2 DEF Seen, Result
  <2>4. IsObservation(o)
    BY <1>2, <2>1, ObservationShape DEF Seen
  <2>5. CategoryOf[i] \in Categories
    BY DEF PhysicalAssumption
  <2>6. verdict.verdict # "NEUTRAL" => o # NoObservation
    BY DEF Evaluate, Neutral, Verdict
  <2> HIDE DEF o, verdict
  <2>7. verdict.verdict # "NEUTRAL" =>
          /\ o.distance <= MaxDistance(o) /\ o.gap <= MaxGap(CategoryOf[i])
          /\ verdict.verdict = "CONTRADICTS" =>
               o.station /\ CategoryOf[i] \notin {"FLOOD_WATERLOGGING", "URBAN_FLOOD"}
          /\ verdict.contribution \in -TotalCap .. TotalCap
    BY <2>4, <2>5, <2>6, EvaluateGrounded DEF verdict
  <2> QED BY <2>1, <2>2, <2>3, <2>7 DEF Grounded
<1> QED BY <1>1, <1>2

GroundedInv == \A i \in Incidents : \A k \in DOMAIN rows[i] : Grounded(i, rows[i][k], k[2])

\* A settled future and the leader's result are sound if the result is.
LEMMA SettleSound ==
  ASSUME TypeOK, SoundInv, UNCHANGED provider, NEW i \in Incidents, NEW result, Sound(result), Settle(i, result)
  PROVE  /\ \A f \in Flights : Sound(future[f])'
         /\ \A j \in Incidents : Sound(got[j])'
<1>1. \A r : Sound(r) => (r.status = "OK" => r.of # Nobody /\ Observation(r.of)' # NoObservation)
  BY DEF Sound, Observation, OpenMeteo
<1>2. \A f \in Flights : future'[f] \in {future[f], result}
  BY DEF Settle, TypeOK
<1>3. \A j \in Incidents : got'[j] \in {got[j], result}
  BY DEF Settle, TypeOK
<1>4. \A f \in Flights : Sound(future'[f])
  BY <1>2 DEF SoundInv
<1>5. \A j \in Incidents : Sound(got'[j])
  BY <1>3 DEF SoundInv
<1> QED BY <1>1, <1>4, <1>5 DEF Sound

\* Observations, and with them grounds, do not change with the state.
LEMMA GroundsStay ==
  ASSUME UNCHANGED provider
  PROVE  /\ \A i : Observation(i)' = Observation(i)
         /\ \A i, r : Seen(i, r)' = Seen(i, r) /\ Judged(i, r)' = Judged(i, r)
         /\ \A i, judged, of : Grounded(i, judged, of)' <=> Grounded(i, judged, of)
<1>1. \A i : Observation(i)' = Observation(i)
  BY DEF Observation, OpenMeteo
<1>2. \A i, r : Seen(i, r)' = Seen(i, r)
  BY <1>1 DEF Seen
<1>3. \A i, r : Judged(i, r)' = Judged(i, r)
  BY <1>2 DEF Judged
<1>4. \A i, judged, of : Grounded(i, judged, of)' <=> Grounded(i, judged, of)
  BY <1>2 DEF Grounded
<1> QED BY <1>1, <1>2, <1>3, <1>4

\* Every step keeps results sound.
LEMMA PhysicalSound ==
  ASSUME PhysicalAssumption, TypeOK, FlightInv, SoundInv, [PhysicalNext]_physicalVars
  PROVE  SoundInv'
<1> DEFINE CacheSound == \A c \in Cells : cached[c] # Nobody => Observation(cached[c]) # NoObservation
           FutureSound == \A f \in Flights : Sound(future[f])
           GotSound == \A i \in Incidents : Sound(got[i])
<1>1. UNCHANGED provider
  BY DEF PhysicalNext, physicalVars, Hit, Follow, Lead, StartFlight, Observed, Refused, Retry, GiveUp,
         Wake, CancelLeader, CancelFollower, Persist, Expire
<1>2. (\A i : Observation(i)' = Observation(i)) /\ (\A r : Sound(r)' <=> Sound(r))
  BY <1>1, GroundsStay DEF Sound
<1>3. UNCHANGED cached => CacheSound'
  BY <1>2 DEF SoundInv
<1>4. UNCHANGED future => FutureSound'
  BY <1>2 DEF SoundInv
<1>5. UNCHANGED got => GotSound'
  BY <1>2 DEF SoundInv
<1>6. CacheSound /\ FutureSound /\ GotSound
  BY DEF SoundInv
<1>7. SoundInv' <=> CacheSound' /\ FutureSound' /\ GotSound'
  BY DEF SoundInv
<1>8. \A s \in {"pending", Definitive, Transient} : Sound(Result(s, Nobody))
  BY DEF Sound, Result, Definitive, Transient
<1>9. \A i \in Incidents : \A r : got' = [got EXCEPT ![i] = r] /\ Sound(r) => GotSound'
  <2> SUFFICES ASSUME NEW i \in Incidents, NEW r, got' = [got EXCEPT ![i] = r], Sound(r), NEW j \in Incidents
               PROVE  Sound(got'[j])
    BY <1>2
  <2>1. got'[j] \in {got[j], r}
    BY DEF TypeOK
  <2> QED BY <1>6, <2>1
<1>10. ASSUME NEW i \in Incidents, Observed(i)  PROVE SoundInv'
  <2>1. Sound(Result("OK", i))
    BY <1>10 DEF Sound, Result, Observed, PhysicalAssumption
  <2>2. FutureSound' /\ GotSound'
    BY <1>1, <1>10, <2>1, SettleSound DEF Observed
  <2>3. CacheSound'
    <3> SUFFICES ASSUME NEW c \in Cells, cached'[c] # Nobody
                 PROVE  Observation(cached'[c]) # NoObservation
      BY <1>2
    <3>1. cached'[c] \in {cached[c], i} /\ Observation(i) # NoObservation
      BY <1>10 DEF Observed, TypeOK
    <3> QED BY <1>6, <3>1
  <2> QED BY <1>7, <2>2, <2>3
<1>11. ASSUME NEW i \in Incidents, Refused(i) \/ GiveUp(i)  PROVE SoundInv'
  <2>1. FutureSound' /\ GotSound'
    BY <1>1, <1>8, <1>11, SettleSound DEF Refused, GiveUp
  <2> QED BY <1>3, <1>7, <1>11, <2>1 DEF Refused, GiveUp
<1>12. ASSUME NEW i \in Incidents, Hit(i)  PROVE SoundInv'
  <2>1. CellOf[i] \in Cells
    BY ResultTypes
  <2>2. Sound(Result("OK", cached[CellOf[i]]))
    BY <1>6, <1>12, <2>1 DEF Hit, Sound, Result
  <2> QED BY <1>3, <1>4, <1>7, <1>9, <1>12, <2>2 DEF Hit
<1>13. ASSUME NEW i \in Incidents, Wake(i)  PROVE SoundInv'
  <2>1. mine[i] \in Flights
    BY <1>13 DEF Wake, TypeOK, FlightInv
  <2>2. GotSound'
    <3>1. CASE UNCHANGED got
      BY <1>5, <3>1
    <3>2. CASE got' = [got EXCEPT ![i] = future[mine[i]]]
      BY <1>6, <1>9, <2>1, <3>2
    <3> QED BY <1>13, <3>1, <3>2 DEF Wake
  <2> QED BY <1>3, <1>4, <1>7, <1>13, <2>2 DEF Wake
<1>14. ASSUME NEW i \in Incidents, CancelFollower(i)  PROVE SoundInv'
  <2>1. FutureSound'
    <3> SUFFICES ASSUME NEW f \in Flights
                 PROVE  Sound(future'[f])
      BY <1>2
    <3>1. \/ future'[f] = future[f]
          \/ future'[f] = [future[f] EXCEPT !.status = IF @ = "pending" THEN "cancelled" ELSE @]
      BY <1>14 DEF CancelFollower, TypeOK
    <3>2. /\ future[f] \in Results /\ future'[f].of = future[f].of
          /\ future'[f].status = "OK" => future[f].status = "OK"
      BY <3>1 DEF TypeOK, Results
    <3> QED BY <1>6, <3>2 DEF Sound
  <2> QED BY <1>3, <1>5, <1>7, <1>14, <2>1 DEF CancelFollower
<1>15. ASSUME NEW i \in Incidents, Persist(i)  PROVE SoundInv'
  BY <1>3, <1>4, <1>7, <1>8, <1>9, <1>15 DEF Persist
<1>16. ASSUME NEW c \in Cells, Expire(c)  PROVE SoundInv'
  <2>1. CacheSound'
    <3> SUFFICES ASSUME NEW d \in Cells, cached'[d] # Nobody
                 PROVE  Observation(cached'[d]) # NoObservation
      BY <1>2
    <3>1. cached'[d] = cached[d]
      BY <1>16 DEF Expire, TypeOK
    <3> QED BY <1>6, <3>1
  <2> QED BY <1>4, <1>5, <1>7, <1>16, <2>1 DEF Expire
<1>17. ASSUME NEW i \in Incidents, Follow(i) \/ Lead(i) \/ Retry(i) \/ CancelLeader(i)  PROVE SoundInv'
  BY <1>3, <1>4, <1>5, <1>7, <1>17 DEF Follow, Lead, StartFlight, Retry, CancelLeader
<1>18. CASE UNCHANGED physicalVars
  BY <1>3, <1>4, <1>5, <1>7, <1>18 DEF physicalVars
<1> HIDE DEF CacheSound, FutureSound, GotSound
<1> QED BY <1>10, <1>11, <1>12, <1>13, <1>14, <1>15, <1>16, <1>17, <1>18 DEF PhysicalNext

\* Every step keeps the rows on their grounds; only Persist writes one.
LEMMA PhysicalGrounded ==
  ASSUME PhysicalAssumption, TypeOK, SoundInv, GroundedInv, [PhysicalNext]_physicalVars
  PROVE  GroundedInv'
<1>1. UNCHANGED provider
  BY DEF PhysicalNext, physicalVars, Hit, Follow, Lead, StartFlight, Observed, Refused, Retry, GiveUp,
         Wake, CancelLeader, CancelFollower, Persist, Expire
<1>2. UNCHANGED rows => GroundedInv'
  BY <1>1, GroundsStay DEF GroundedInv
<1>3. ASSUME NEW i \in Incidents, Persist(i)  PROVE GroundedInv'
  <2> SUFFICES ASSUME NEW j \in Incidents, NEW k \in DOMAIN rows'[j]
               PROVE  Grounded(j, rows'[j][k], k[2])
    BY <1>1, GroundsStay DEF GroundedInv
  <2>1. CASE j # i
    <3>1. rows'[j] = rows[j]
      BY <1>3, <2>1 DEF Persist, TypeOK
    <3> QED BY <3>1 DEF GroundedInv
  <2>2. CASE j = i
    <3> DEFINE key == RowKey(i, got[i])
    <3>1. rows'[i] = [l \in DOMAIN rows[i] \cup {key} |-> IF l = key THEN Judged(i, got[i]) ELSE rows[i][l]]
      BY <1>3 DEF Persist, TypeOK
    <3>2. got[i] \in Results /\ Sound(got[i])
      BY DEF TypeOK, SoundInv
    <3>3. key[2] = got[i].of
      BY DEF RowKey
    <3>4. CASE k = key
      BY <2>2, <3>1, <3>2, <3>3, <3>4, JudgedGrounded
    <3>5. CASE k # key
      <4>1. k \in DOMAIN rows[i] /\ rows'[i][k] = rows[i][k]
        BY <2>2, <3>1, <3>5
      <4> QED BY <2>2, <4>1 DEF GroundedInv
    <3> QED BY <3>4, <3>5
  <2> QED BY <2>1, <2>2
<1> QED
  BY <1>2, <1>3 DEF PhysicalNext, physicalVars, Hit, Follow, Lead, StartFlight, Observed, Refused, Retry, GiveUp,
                    Wake, CancelLeader, CancelFollower, Expire

\* A row of incident_physical_corroborations that speaks for or against an
\* incident rests on an observation in range of that incident, whichever incident
\* it was fetched for; floods are never contradicted, models contradict nothing.
THEOREM RowsAreGrounded ==
  ASSUME PhysicalAssumption
  PROVE  PhysicalSpec => []VerdictsAreGrounded
<1> DEFINE Inv == TypeOK /\ FlightInv /\ SoundInv /\ GroundedInv
<1>1. PhysicalInit => Inv
  <2> SUFFICES ASSUME PhysicalInit
               PROVE  Inv
    OBVIOUS
  <2>1. SoundInv
    BY DEF PhysicalInit, SoundInv, Sound, Result
  <2>2. GroundedInv
    BY DEF PhysicalInit, GroundedInv
  <2> QED BY <2>1, <2>2, PhysicalStart
<1>2. Inv /\ [PhysicalNext]_physicalVars => Inv'
  BY PhysicalTypes, PhysicalFlights, PhysicalSound, PhysicalGrounded
<1>3. Inv => VerdictsAreGrounded
  BY DEF GroundedInv, Grounded, VerdictsAreGrounded
<1> QED BY <1>1, <1>2, <1>3, PTL DEF PhysicalSpec

------------------------------------------------------------------------------
(* A score is that of the facts in the database *)

Fresh(r, i, F) == r.score = Score(Inputs(i, F)) /\ r.explained = Explanation(Inputs(i, F))

IsRow(r) == DOMAIN r = {"score", "explained", "stale", "by"}

CredibilityShape ==
  /\ phase \in [Tasks -> {"idle", "collect", "score", "flush", "commit", "done"}]
  /\ todo \in [Tasks -> Seq(Cluster)]
  /\ DOMAIN view = Tasks
  /\ DOMAIN row = Cluster
  /\ DOMAIN pend = Tasks /\ \A t \in Tasks : DOMAIN pend[t] = Cluster

\* A row in the database is excused or that of the facts there.
RowInv ==
  \A i \in Cluster :
    /\ IsRow(row[i])
    /\ i \in unscored \/ i \in blind \/ row[i].by = "image" \/ Fresh(row[i], i, arrived)

\* A flushed row is that of the facts its transaction sees.
PendInv ==
  \A t \in Tasks, i \in Cluster :
    /\ ~Open(t) => pend[t][i] = Unset
    /\ i \in Flushed(t) =>
         /\ IsRow(pend[t][i])
         /\ pend[t][i].stale \/ i \in blind \/ pend[t][i].by = "image" \/ Fresh(pend[t][i], i, Visible(t))

\* What has been read, and what has been found unchanged since.
ViewInv ==
  \A t \in Tasks :
    /\ phase[t] \in {"score", "flush"} =>
         todo[t] # <<>> /\ view[t] \subseteq Facts(Head(todo[t]), Visible(t))
    /\ phase[t] = "flush" =>
         \/ Head(todo[t]) \in blind \/ Path(t) = "image"
         \/ Inputs(Head(todo[t]), view[t]) = Inputs(Head(todo[t]), Visible(t))

\* An incident of an open transaction is still to be scored or was reached.
TodoInv ==
  \A t \in Tasks :
    /\ phase[t] = "commit" => todo[t] = <<>>
    /\ Open(t) => \A i \in Concerns(t) : pend[t][i] # Unset \/ \E n \in 1 .. Len(todo[t]) : todo[t][n] = i

CredibilityInv == CredibilityShape /\ RowInv /\ PendInv /\ ViewInv /\ TodoInv

\* An incident's inputs are those of its own facts.
LEMMA InputsOfFacts ==
  /\ \A i, F, G : Facts(i, F) = Facts(i, G) => Inputs(i, F) = Inputs(i, G)
  /\ \A i, F : Facts(i, Facts(i, F)) = Facts(i, F)
  /\ \A i, F, G : F \subseteq Facts(i, G) => Facts(i, F) = F
<1>1. ASSUME NEW i, NEW F, NEW G, Facts(i, F) = Facts(i, G)
      PROVE  Inputs(i, F) = Inputs(i, G)
  BY <1>1 DEF Inputs
<1>2. \A i, F : Facts(i, Facts(i, F)) = Facts(i, F)
  BY DEF Facts
<1>3. \A i, F, G : F \subseteq Facts(i, G) => Facts(i, F) = F
  BY DEF Facts
<1> QED BY <1>1, <1>2, <1>3

\* Inputs with one fingerprint and one set of image verdicts are the same.
LEMMA FingerprintDecides ==
  ASSUME NEW i, NEW F, NEW G, Fingerprint(i, F) = Fingerprint(i, G),
         OfSort(Facts(i, F), "image") = OfSort(Facts(i, G), "image")
  PROVE  Inputs(i, F) = Inputs(i, G)
<1> DEFINE Part(H) == [report |-> SourceOf[i], members |-> 1 + Cardinality(OfSort(Facts(i, H), "member")),
       groups |-> Groups(Facts(i, H)), stations |-> Stations(Facts(i, H)),
       contradictions |-> Contradictions(Facts(i, H))]
<1> DEFINE Image(H) == IF ImageEnabled THEN ImageAdjustment(Facts(i, H)) ELSE 0
<1>1. \A H : Inputs(i, H) = [report |-> Part(H).report, members |-> Part(H).members, groups |-> Part(H).groups,
                             stations |-> Part(H).stations, contradictions |-> Part(H).contradictions,
                             image |-> Image(H)]
  BY DEF Inputs
<1>2. Image(F) = Image(G)
  BY DEF ImageAdjustment
<1> HIDE DEF Part, Image
<1>3. \A H : Fingerprint(i, H) = [report |-> Part(H).report, members |-> Part(H).members, groups |-> Part(H).groups,
                             stations |-> Part(H).stations, contradictions |-> Part(H).contradictions,
                             image |-> 0]
  BY <1>1 DEF Fingerprint
<1> QED BY <1>1, <1>2, <1>3

\* SetToSeq lists a finite set.
LEMMA SetToSeqLists ==
  ASSUME NEW S, IsFiniteSet(S)
  PROVE  /\ SetToSeq(S) \in Seq(S)
         /\ \A x \in S : \E n \in 1 .. Len(SetToSeq(S)) : SetToSeq(S)[n] = x
<1> DEFINE n == Cardinality(S)
           f == SetToSeq(S)
<1>1. n \in Nat /\ ExistsBijection(1 .. n, S)
  BY FS_CardinalityType
<1>2. \E g \in [1 .. n -> S] : IsInjective(g)
  BY <1>1 DEF ExistsBijection, Bijection, Injection
<1>3. f \in [1 .. n -> S] /\ IsInjective(f)
  BY <1>2 DEF SetToSeq
<1>4. f \in Injection(1 .. n, S)
  BY <1>3 DEF Injection
<1>5. Cardinality(1 .. n) = n /\ IsFiniteSet(1 .. n)
  BY <1>1, FS_Interval
<1>6. f \in Surjection(1 .. n, S)
  BY <1>4, <1>5, FS_Injection
<1>7. \A x \in S : \E k \in 1 .. n : f[k] = x
  BY <1>6 DEF Surjection
<1> HIDE DEF f, n
<1>8. f \in Seq(S) /\ Len(f) = n
  BY <1>1, <1>3
<1> QED BY <1>7, <1>8 DEF f

\* The first incident of a list, and the others.
LEMMA HeadAndTail ==
  ASSUME NEW s \in Seq(Cluster), s # <<>>
  PROVE  /\ Head(s) \in Cluster /\ Tail(s) \in Seq(Cluster)
         /\ Len(s) = 1 => Tail(s) = <<>>
         /\ \A x : (\E n \in 1 .. Len(s) : s[n] = x)
              => x = Head(s) \/ \E n \in 1 .. Len(Tail(s)) : Tail(s)[n] = x
<1>1. /\ Head(s) \in Cluster /\ Tail(s) \in Seq(Cluster)
      /\ Len(Tail(s)) = Len(s) - 1 /\ Head(s) = s[1]
      /\ \A n \in 1 .. Len(s) - 1 : Tail(s)[n] = s[n + 1]
  OBVIOUS
<1>2. Len(s) = 1 => Tail(s) = <<>>
  <2>1. \A q \in Seq(Cluster) : Len(q) = 0 => q = <<>>
    BY EmptySeq
  <2>2. Len(s) = 1 => Len(Tail(s)) = 0
    BY <1>1
  <2> QED BY <1>1, <2>1, <2>2
<1>3. ASSUME NEW n \in 1 .. Len(s), s[n] # Head(s)
      PROVE  \E k \in 1 .. Len(Tail(s)) : Tail(s)[k] = s[n]
  <2>1. n - 1 \in 1 .. Len(Tail(s)) /\ Tail(s)[n - 1] = s[n]
    BY <1>1, <1>3
  <2> QED BY <2>1
<1> QED BY <1>1, <1>2, <1>3

\* Neither of the marks is a row, and a marked or rescored row is one.
LEMMA RowShapes ==
  /\ ~IsRow(Unset) /\ ~IsRow(Skipped)
  /\ \A in, w : IsRow(ScoredRow(in, w)) /\ ~ScoredRow(in, w).stale
                /\ ScoredRow(in, w).score = Score(in) /\ ScoredRow(in, w).explained = Explanation(in)
  /\ \A i, F, w : Fresh(ScoredRow(Inputs(i, F), w), i, F)
  /\ \A r : IsRow(r) => IsRow([r EXCEPT !.stale = TRUE]) /\ [r EXCEPT !.stale = TRUE].stale
  /\ \A r, x : IsRow(r) => IsRow([r EXCEPT !.score = x, !.by = "image"])
                           /\ [r EXCEPT !.score = x, !.by = "image"].by = "image"
<1>1. DOMAIN Unset = {"unset"} /\ DOMAIN Skipped = {"skipped"}
  BY DEF Unset, Skipped
<1>2. \A in, w : DOMAIN ScoredRow(in, w) = {"score", "explained", "stale", "by"}
  BY DEF ScoredRow
<1>3. \A in, w : ~ScoredRow(in, w).stale
                /\ ScoredRow(in, w).score = Score(in) /\ ScoredRow(in, w).explained = Explanation(in)
  BY DEF ScoredRow
<1>4. ASSUME NEW r, IsRow(r)
      PROVE  IsRow([r EXCEPT !.stale = TRUE]) /\ [r EXCEPT !.stale = TRUE].stale
  BY <1>4 DEF IsRow
<1>5. ASSUME NEW r, NEW x, IsRow(r)
      PROVE  IsRow([r EXCEPT !.score = x, !.by = "image"]) /\ [r EXCEPT !.score = x, !.by = "image"].by = "image"
  BY <1>5 DEF IsRow
<1>6. "unset" \notin {"score", "explained", "stale", "by"} /\ "skipped" \notin {"score", "explained", "stale", "by"}
  OBVIOUS
<1>7. \A i, F, w : Fresh(ScoredRow(Inputs(i, F), w), i, F)
  BY <1>3 DEF Fresh
<1> QED BY <1>1, <1>2, <1>3, <1>4, <1>5, <1>6, <1>7 DEF IsRow

LEMMA CredibilityStart ==
  ASSUME ItemsAssumption, CredibilityInit
  PROVE  CredibilityInv
<1>1. CredibilityShape
  BY DEF CredibilityInit, CredibilityShape
<1>2. RowInv
  BY RowShapes DEF CredibilityInit, RowInv, Fresh
<1>3. PendInv /\ ViewInv /\ TodoInv
  BY DEF CredibilityInit, PendInv, ViewInv, TodoInv, Open, Flushed
<1> QED BY <1>1, <1>2, <1>3 DEF CredibilityInv

LEMMA StartKeeps ==
  ASSUME ItemsAssumption, CredibilityInv, NEW t \in Tasks, Start(t)
  PROVE  CredibilityInv'
<1>1. Concerns(t) \subseteq Cluster /\ IsFiniteSet(Concerns(t))
  BY FS_Subset DEF ItemsAssumption, Concerns, Tasks
<1>2. /\ SetToSeq(Concerns(t)) \in Seq(Cluster)
      /\ \A i \in Concerns(t) : \E n \in 1 .. Len(SetToSeq(Concerns(t))) : SetToSeq(Concerns(t))[n] = i
  BY <1>1, SetToSeqLists
<1>3. CredibilityShape'
  BY <1>2 DEF Start, CredibilityInv, CredibilityShape
<1>4. RowInv'
  BY DEF Start, CredibilityInv, RowInv, Fresh
<1>5. PendInv'
  BY DEF Start, CredibilityInv, CredibilityShape, PendInv, Open, Flushed, Fresh, Visible
<1>6. ViewInv'
  BY DEF Start, CredibilityInv, CredibilityShape, ViewInv, Visible
<1>7. TodoInv'
  <2>1. todo'[t] = SetToSeq(Concerns(t)) /\ phase'[t] = "collect"
    BY DEF Start, CredibilityInv, CredibilityShape
  <2>2. \A u \in Tasks \ {t} : todo'[u] = todo[u] /\ phase'[u] = phase[u]
    BY DEF Start, CredibilityInv, CredibilityShape
  <2>3. pend' = pend
    BY DEF Start
  <2> QED BY <1>2, <2>1, <2>2, <2>3 DEF CredibilityInv, TodoInv, Open
<1> QED BY <1>3, <1>4, <1>5, <1>6, <1>7 DEF CredibilityInv

LEMMA CollectKeeps ==
  ASSUME CredibilityInv, NEW t \in Tasks, Collect(t)
  PROVE  CredibilityInv'
<1>1. CredibilityShape'
  BY DEF Collect, CredibilityInv, CredibilityShape
<1>2. RowInv'
  BY DEF Collect, CredibilityInv, RowInv, Fresh
<1>3. PendInv'
  BY DEF Collect, CredibilityInv, CredibilityShape, PendInv, Open, Flushed, Fresh, Visible
<1>4. ViewInv'
  BY DEF Collect, CredibilityInv, CredibilityShape, ViewInv, Visible
<1>5. TodoInv'
  BY DEF Collect, CredibilityInv, CredibilityShape, TodoInv, Open
<1> QED BY <1>1, <1>2, <1>3, <1>4, <1>5 DEF CredibilityInv

\* Facts that were not missed and an equal fingerprint make equal inputs.
LEMMA NothingMissed ==
  ASSUME CredibilityInv, NEW t \in Tasks, Recheck(t), ~Missed(t, Head(todo[t])), Path(t) # "image"
  PROVE  Inputs(Head(todo[t]), view[t]) = Inputs(Head(todo[t]), Visible(t))
<1> DEFINE i == Head(todo[t])
<1>1. view[t] \subseteq Facts(i, Visible(t))
  BY DEF Recheck, CredibilityInv, ViewInv
<1> HIDE DEF i
<1>2. Facts(i, view[t]) = view[t]
  BY <1>1, InputsOfFacts
<1>3. CASE Path(t) # "stage"
  <2>1. view[t] = Facts(i, Visible(t))
    BY <1>1, <1>3 DEF Missed, i
  <2> QED BY <2>1, <1>2, InputsOfFacts DEF i
<1>4. CASE Path(t) = "stage"
  <2>1. Fingerprint(i, Facts(i, Visible(t))) = Fingerprint(i, view[t])
    BY <1>4 DEF Recheck, Unchanged, i
  <2>2. OfSort(view[t], "image") = OfSort(Facts(i, Visible(t)), "image")
    BY <1>1, <1>4 DEF Missed, OfSort, i
  <2>3. Facts(i, Facts(i, Visible(t))) = Facts(i, Visible(t))
    BY InputsOfFacts
  <2>4. Inputs(i, Facts(i, Visible(t))) = Inputs(i, view[t])
    BY <2>1, <2>2, <2>3, <1>2, FingerprintDecides
  <2>5. Inputs(i, Facts(i, Visible(t))) = Inputs(i, Visible(t))
    BY <2>3, InputsOfFacts
  <2> QED BY <2>4, <2>5 DEF i
<1> QED BY <1>3, <1>4

LEMMA RecheckKeeps ==
  ASSUME CredibilityInv, NEW t \in Tasks, Recheck(t)
  PROVE  CredibilityInv'
<1>1. blind \subseteq blind' /\ (Missed(t, Head(todo[t])) => Head(todo[t]) \in blind')
  BY DEF Recheck
<1>2. CredibilityShape'
  BY DEF Recheck, CredibilityInv, CredibilityShape
<1>3. RowInv'
  BY <1>1 DEF Recheck, CredibilityInv, RowInv, Fresh
<1>4. PendInv'
  BY <1>1 DEF Recheck, CredibilityInv, CredibilityShape, PendInv, Open, Flushed, Fresh, Visible
<1>5. ViewInv'
  BY <1>1, NothingMissed DEF Recheck, CredibilityInv, CredibilityShape, ViewInv, Visible
<1>6. TodoInv'
  BY DEF Recheck, CredibilityInv, CredibilityShape, TodoInv, Open
<1> QED BY <1>2, <1>3, <1>4, <1>5, <1>6 DEF CredibilityInv

\* On to the next incident, the first of the list being reached.
LEMMA AdvanceKeeps ==
  ASSUME ItemsAssumption, CredibilityInv, NEW t \in Tasks, todo[t] # <<>>, Open(t), Advance(t),
         \A u \in Tasks \ {t} : pend'[u] = pend[u],
         \A i \in Cluster : pend[t][i] # Unset => pend'[t][i] # Unset,
         pend'[t][Head(todo[t])] # Unset
  PROVE  TodoInv' /\ Head(todo[t]) \in Cluster /\ phase'[t] \in {"collect", "commit"}
         /\ phase' \in [Tasks -> {"idle", "collect", "score", "flush", "commit", "done"}]
         /\ todo' \in [Tasks -> Seq(Cluster)]
         /\ \A u \in Tasks \ {t} : todo'[u] = todo[u] /\ phase'[u] = phase[u]
<1>1. todo[t] \in Seq(Cluster)
  BY DEF CredibilityInv, CredibilityShape
<1>2. \A u \in Tasks \ {t} : todo'[u] = todo[u] /\ phase'[u] = phase[u]
  BY DEF Advance, CredibilityInv, CredibilityShape
<1>3. todo'[t] = Tail(todo[t]) /\ phase'[t] = IF Len(todo[t]) = 1 THEN "commit" ELSE "collect"
  BY DEF Advance, CredibilityInv, CredibilityShape
<1>4. phase' \in [Tasks -> {"idle", "collect", "score", "flush", "commit", "done"}]
      /\ todo' \in [Tasks -> Seq(Cluster)]
  BY <1>1, HeadAndTail DEF Advance, CredibilityInv, CredibilityShape
<1>5. phase'[t] = "commit" => todo'[t] = <<>>
  BY <1>1, <1>3, HeadAndTail
<1>6. ASSUME NEW i \in Concerns(t)
      PROVE  pend'[t][i] # Unset \/ \E n \in 1 .. Len(todo'[t]) : todo'[t][n] = i
  <2>1. i \in Cluster
    BY DEF ItemsAssumption, Concerns, Tasks
  <2>2. pend[t][i] # Unset \/ \E n \in 1 .. Len(todo[t]) : todo[t][n] = i
    BY DEF CredibilityInv, TodoInv
  <2>3. CASE pend[t][i] # Unset
    BY <2>1, <2>3
  <2>4. CASE \E n \in 1 .. Len(todo[t]) : todo[t][n] = i
    <3>1. i = Head(todo[t]) \/ \E n \in 1 .. Len(Tail(todo[t])) : Tail(todo[t])[n] = i
      BY <1>1, <2>4, HeadAndTail
    <3> QED BY <3>1, <1>3
  <2> QED BY <2>2, <2>3, <2>4
<1>7. TodoInv'
  BY <1>2, <1>5, <1>6 DEF CredibilityInv, TodoInv, Open
<1> QED BY <1>1, <1>2, <1>3, <1>4, <1>7, HeadAndTail

\* A row is made for the first incident: the facts seen decide it, unless a
\* fact was missed or the image service writes it.
LEMMA NewRowIsFresh ==
  ASSUME CredibilityInv, NEW t \in Tasks, phase[t] = "flush"
  PROVE  /\ IsRow(NewRow(t, Head(todo[t])))
         /\ \/ Head(todo[t]) \in blind
            \/ NewRow(t, Head(todo[t])).by = "image"
            \/ Fresh(NewRow(t, Head(todo[t])), Head(todo[t]), Visible(t))
<1> DEFINE i == Head(todo[t])
<1>a. todo[t] \in Seq(Cluster) /\ todo[t] # <<>>
  BY DEF CredibilityInv, CredibilityShape, ViewInv
<1>b. i \in Cluster
  BY <1>a, HeadAndTail
<1>c. phase[t] = "flush" /\ i = Head(todo[t])
  OBVIOUS
<1> HIDE DEF i
<1>1. IsRow(Current(t, i))
  <2>1. IsRow(row[i])
    BY <1>b DEF CredibilityInv, RowInv
  <2>2. i \in Flushed(t) => IsRow(pend[t][i])
    BY <1>b DEF CredibilityInv, PendInv
  <2> QED BY <2>1, <2>2 DEF Current
<1>2. Path(t) = "image" => IsRow(NewRow(t, i)) /\ NewRow(t, i).by = "image"
  <2> SUFFICES ASSUME Path(t) = "image"  PROVE IsRow(NewRow(t, i)) /\ NewRow(t, i).by = "image"
    OBVIOUS
  <2>1. NewRow(t, i) = [Current(t, i) EXCEPT !.score = Clamp(Score(Inputs(i, view[t])) + ImageAdjustment(view[t])), !.by = "image"]
    BY DEF NewRow
  <2> DEFINE x == Clamp(Score(Inputs(i, view[t])) + ImageAdjustment(view[t]))
             c == Current(t, i)
  <2> HIDE DEF x, c
  <2>2. NewRow(t, i) = [c EXCEPT !.score = x, !.by = "image"] /\ IsRow(c)
    BY <2>1, <1>1 DEF x, c
  <2>3. IsRow([c EXCEPT !.score = x, !.by = "image"]) /\ [c EXCEPT !.score = x, !.by = "image"].by = "image"
    BY <2>2, RowShapes, Zenon
  <2> QED BY <2>2, <2>3, Zenon
<1>3. Path(t) # "image" => IsRow(NewRow(t, i)) /\ (i \in blind \/ Fresh(NewRow(t, i), i, Visible(t)))
  <2> SUFFICES ASSUME Path(t) # "image"
               PROVE  IsRow(NewRow(t, i)) /\ (i \in blind \/ Fresh(NewRow(t, i), i, Visible(t)))
    OBVIOUS
  <2>1. NewRow(t, i) = ScoredRow(Inputs(i, view[t]), Path(t))
    BY DEF NewRow
  <2>2. i \in blind \/ Inputs(i, view[t]) = Inputs(i, Visible(t))
    BY <1>c DEF CredibilityInv, ViewInv
  <2>3. IsRow(NewRow(t, i)) /\ Fresh(NewRow(t, i), i, view[t])
    <3>1. IsRow(ScoredRow(Inputs(i, view[t]), Path(t))) /\ Fresh(ScoredRow(Inputs(i, view[t]), Path(t)), i, view[t])
      BY RowShapes, Zenon
    <3> QED BY <2>1, <3>1, Zenon
  <2> QED BY <2>2, <2>3 DEF Fresh
<1> QED BY <1>2, <1>3 DEF i

LEMMA StoreKeeps ==
  ASSUME ItemsAssumption, CredibilityInv, NEW t \in Tasks, Store(t)
  PROVE  CredibilityInv'
<1> DEFINE i == Head(todo[t])
<1>1. todo[t] # <<>> /\ Open(t) /\ Advance(t)
  BY DEF Store, CredibilityInv, ViewInv, Open
<1>2. i \in Cluster
  BY <1>1, HeadAndTail DEF CredibilityInv, CredibilityShape
<1>3. /\ pend'[t][i] = NewRow(t, i)
      /\ \A j \in Cluster : j # i => pend'[t][j] = pend[t][j]
      /\ \A u \in Tasks \ {t} : pend'[u] = pend[u]
      /\ DOMAIN pend' = Tasks /\ \A u \in Tasks : DOMAIN pend'[u] = Cluster
  BY <1>2 DEF Store, CredibilityInv, CredibilityShape
<1>4. IsRow(NewRow(t, i)) /\ (i \in blind \/ NewRow(t, i).by = "image" \/ Fresh(NewRow(t, i), i, Visible(t)))
  BY NewRowIsFresh DEF Store
<1>5. UNCHANGED <<arrived, row, view, blind, unscored>>
  BY DEF Store
<1> HIDE DEF i
<1>b. pend'[t][Head(todo[t])] # Unset /\ \A j \in Cluster : pend[t][j] # Unset => pend'[t][j] # Unset
  BY <1>2, <1>3, <1>4, RowShapes DEF i
<1>6. /\ TodoInv' /\ phase'[t] \in {"collect", "commit"}
      /\ phase' \in [Tasks -> {"idle", "collect", "score", "flush", "commit", "done"}]
      /\ todo' \in [Tasks -> Seq(Cluster)]
      /\ \A u \in Tasks \ {t} : todo'[u] = todo[u] /\ phase'[u] = phase[u]
  BY <1>1, <1>3, <1>b, AdvanceKeeps
<1>7. CredibilityShape'
  BY <1>3, <1>5, <1>6 DEF CredibilityInv, CredibilityShape
<1>8. RowInv'
  BY <1>5 DEF CredibilityInv, RowInv, Fresh
<1>9. PendInv'
  <2>1. ASSUME NEW u \in Tasks \ {t}, NEW j \in Cluster
        PROVE  /\ ~Open(u)' => pend'[u][j] = Unset
               /\ (j \in Flushed(u))' =>
                    /\ IsRow(pend'[u][j])
                    /\ pend'[u][j].stale \/ j \in blind' \/ pend'[u][j].by = "image" \/ Fresh(pend'[u][j], j, Visible(u)')
    <3>1. pend'[u] = pend[u] /\ phase'[u] = phase[u] /\ Visible(u)' = Visible(u) /\ blind' = blind
      BY <1>3, <1>5, <1>6 DEF Visible
    <3> QED BY <3>1 DEF CredibilityInv, PendInv, Open, Flushed, Fresh
  <2>2. Open(t)'
    BY <1>6 DEF Open
  <2>3. ASSUME NEW j \in Cluster, (j \in Flushed(t))'
        PROVE  /\ IsRow(pend'[t][j])
               /\ pend'[t][j].stale \/ j \in blind' \/ pend'[t][j].by = "image" \/ Fresh(pend'[t][j], j, Visible(t)')
    <3>1. CASE j = i
      BY <3>1, <1>3, <1>4, <1>5 DEF Fresh, Visible
    <3>2. CASE j # i
      BY <3>2, <2>3, <1>3, <1>5 DEF CredibilityInv, PendInv, Flushed, Fresh, Visible
    <3> QED BY <3>1, <3>2
  <2> QED BY <2>1, <2>2, <2>3 DEF PendInv
<1>10. ViewInv'
  BY <1>5, <1>6 DEF CredibilityInv, ViewInv, Visible
<1> QED BY <1>6, <1>7, <1>8, <1>9, <1>10 DEF CredibilityInv

\* What a step of t leaves alone of the other transactions.
LEMMA OthersKeep ==
  ASSUME CredibilityInv, NEW t \in Tasks, UNCHANGED <<arrived, row, view, blind, unscored>>,
         \A u \in Tasks \ {t} : pend'[u] = pend[u] /\ phase'[u] = phase[u] /\ todo'[u] = todo[u]
  PROVE  /\ RowInv'
         /\ \A u \in Tasks \ {t}, j \in Cluster :
              /\ ~Open(u)' => pend'[u][j] = Unset
              /\ (j \in Flushed(u))' =>
                   /\ IsRow(pend'[u][j])
                   /\ pend'[u][j].stale \/ j \in blind' \/ pend'[u][j].by = "image" \/ Fresh(pend'[u][j], j, Visible(u)')
         /\ phase'[t] \notin {"score", "flush"} => ViewInv'
<1>1. RowInv'
  BY DEF CredibilityInv, RowInv, Fresh
<1>2. ASSUME NEW u \in Tasks \ {t}, NEW j \in Cluster
      PROVE  /\ ~Open(u)' => pend'[u][j] = Unset
             /\ (j \in Flushed(u))' =>
                  /\ IsRow(pend'[u][j])
                  /\ pend'[u][j].stale \/ j \in blind' \/ pend'[u][j].by = "image" \/ Fresh(pend'[u][j], j, Visible(u)')
  <2>1. pend'[u] = pend[u] /\ phase'[u] = phase[u] /\ Visible(u)' = Visible(u) /\ blind' = blind
    BY DEF Visible
  <2> QED BY <2>1 DEF CredibilityInv, PendInv, Open, Flushed, Fresh
<1>3. phase'[t] \notin {"score", "flush"} => ViewInv'
  BY DEF CredibilityInv, ViewInv, Visible
<1> QED BY <1>1, <1>2, <1>3

\* The first incident is reached without a score.
LEMMA SkipKeeps ==
  ASSUME ItemsAssumption, CredibilityInv, NEW t \in Tasks, todo[t] # <<>>, Open(t), Advance(t),
         pend' = [pend EXCEPT ![t][Head(todo[t])] = Skipped],
         UNCHANGED <<arrived, row, view, blind, unscored>>
  PROVE  CredibilityInv'
<1> DEFINE i == Head(todo[t])
<1>2. i \in Cluster
  BY HeadAndTail DEF CredibilityInv, CredibilityShape
<1>3. /\ pend'[t][i] = Skipped
      /\ \A j \in Cluster : j # i => pend'[t][j] = pend[t][j]
      /\ \A u \in Tasks \ {t} : pend'[u] = pend[u]
      /\ DOMAIN pend' = Tasks /\ \A u \in Tasks : DOMAIN pend'[u] = Cluster
  BY <1>2 DEF CredibilityInv, CredibilityShape
<1>b. pend'[t][i] # Unset /\ \A j \in Cluster : pend[t][j] # Unset => pend'[t][j] # Unset
  BY <1>2, <1>3 DEF Unset, Skipped
<1>6. /\ TodoInv' /\ phase'[t] \in {"collect", "commit"}
      /\ phase' \in [Tasks -> {"idle", "collect", "score", "flush", "commit", "done"}]
      /\ todo' \in [Tasks -> Seq(Cluster)]
      /\ \A u \in Tasks \ {t} : todo'[u] = todo[u] /\ phase'[u] = phase[u]
  BY <1>3, <1>b, AdvanceKeeps
<1>7. CredibilityShape'
  BY <1>3, <1>6 DEF CredibilityInv, CredibilityShape
<1> HIDE DEF i
<1>8. ASSUME NEW j \in Cluster, (j \in Flushed(t))'
      PROVE  /\ IsRow(pend'[t][j])
             /\ pend'[t][j].stale \/ j \in blind' \/ pend'[t][j].by = "image" \/ Fresh(pend'[t][j], j, Visible(t)')
  <2>1. j # i
    BY <1>3, <1>8 DEF Flushed
  <2>2. pend'[t][j] = pend[t][j] /\ j \in Flushed(t)
    BY <2>1, <1>3, <1>8 DEF Flushed
  <2>3. Visible(t)' = Visible(t) /\ blind' = blind
    BY DEF Visible
  <2> QED BY <2>2, <2>3 DEF CredibilityInv, PendInv, Fresh
<1>9. PendInv' /\ RowInv' /\ ViewInv'
  BY <1>3, <1>6, <1>8, OthersKeep DEF PendInv, Open
<1> QED BY <1>6, <1>7, <1>9 DEF CredibilityInv

LEMMA EngineFailsKeeps ==
  ASSUME ItemsAssumption, CredibilityInv, NEW t \in Tasks, EngineFails(t)
  PROVE  CredibilityInv'
<1> DEFINE i == Head(todo[t])
<1>1. todo[t] # <<>> /\ Open(t) /\ Advance(t) /\ UNCHANGED <<arrived, row, view, blind, unscored>>
  BY DEF EngineFails, Open
<1>2. i \in Cluster
  BY <1>1, HeadAndTail DEF CredibilityInv, CredibilityShape
<1>3. /\ pend'[t][i] = [row[i] EXCEPT !.stale = TRUE]
      /\ \A j \in Cluster : j # i => pend'[t][j] = IF j \in Flushed(t) THEN Skipped ELSE pend[t][j]
      /\ \A u \in Tasks \ {t} : pend'[u] = pend[u]
      /\ DOMAIN pend' = Tasks /\ \A u \in Tasks : DOMAIN pend'[u] = Cluster
  BY <1>2 DEF EngineFails, CredibilityInv, CredibilityShape
<1>4. IsRow(pend'[t][i]) /\ pend'[t][i].stale
  <2>1. IsRow(row[i])
    BY <1>2 DEF CredibilityInv, RowInv
  <2>2. IsRow([row[i] EXCEPT !.stale = TRUE]) /\ [row[i] EXCEPT !.stale = TRUE].stale
    BY <2>1, RowShapes, Zenon
  <2> QED BY <1>3, <2>2, Zenon
<1> HIDE DEF i
<1>b. pend'[t][i] # Unset /\ \A j \in Cluster : pend[t][j] # Unset => pend'[t][j] # Unset
  <2>1. Skipped # Unset
    BY DEF Unset, Skipped
  <2>2. pend'[t][i] # Unset
    BY <1>4, RowShapes
  <2> QED BY <2>1, <2>2, <1>3
<1>6. /\ TodoInv' /\ phase'[t] \in {"collect", "commit"}
      /\ phase' \in [Tasks -> {"idle", "collect", "score", "flush", "commit", "done"}]
      /\ todo' \in [Tasks -> Seq(Cluster)]
      /\ \A u \in Tasks \ {t} : todo'[u] = todo[u] /\ phase'[u] = phase[u]
  BY <1>1, <1>3, <1>b, AdvanceKeeps DEF i
<1>7. CredibilityShape'
  BY <1>1, <1>3, <1>6 DEF CredibilityInv, CredibilityShape
<1>8. ASSUME NEW j \in Cluster, (j \in Flushed(t))'
      PROVE  IsRow(pend'[t][j]) /\ pend'[t][j].stale
  <2>1. pend'[t][j] \notin {Unset, Skipped}
    BY <1>8 DEF Flushed
  <2>2. j # i => pend[t][j] \notin {Unset, Skipped} /\ j \notin Flushed(t)
    BY <1>3, <2>1
  <2>3. j = i
    BY <2>2 DEF Flushed
  <2> QED BY <2>3, <1>4
<1>9. PendInv' /\ RowInv' /\ ViewInv'
  BY <1>1, <1>3, <1>6, <1>8, OthersKeep DEF PendInv, Open
<1> QED BY <1>6, <1>7, <1>9 DEF CredibilityInv

\* A committed fact is one of an incident that no other transaction has scored,
\* or the incident is blind.
LEMMA CommitIsSeen ==
  ASSUME ItemsAssumption, CredibilityInv, NEW t \in Tasks, CommitScores(t), NEW j \in Cluster
  PROVE  /\ j \notin Concerns(t) => Facts(j, arrived') = Facts(j, arrived)
         /\ \A u \in Tasks \ {t} :
              /\ Visible(u) \subseteq Visible(u)'
              /\ \/ Facts(j, Visible(u)') = Facts(j, Visible(u))
                 \/ ~Holds(u, j)
                 \/ j \in blind'
<1>1. arrived' = Visible(t)
  BY DEF CommitScores
<1>2. CASE t \notin Items
  <2>1. arrived' = arrived
    BY <1>1, <1>2 DEF Visible
  <2>2. \A u \in Tasks : Visible(u)' = Visible(u)
    BY <2>1 DEF Visible
  <2> QED BY <2>1, <2>2
<1>3. CASE t \in Items
  <2>1. arrived' = arrived \cup {t} /\ Concerns(t) = ItemOf[t].of
    BY <1>1, <1>3 DEF Visible, Concerns, ItemsAssumption
  <2>2. j \notin Concerns(t) => Facts(j, arrived') = Facts(j, arrived)
    BY <2>1 DEF Facts
  <2>3. ASSUME NEW u \in Tasks \ {t}
        PROVE  /\ Visible(u) \subseteq Visible(u)'
               /\ Facts(j, Visible(u)') = Facts(j, Visible(u)) \/ ~Holds(u, j) \/ j \in blind'
    <3>1. Visible(u)' = Visible(u) \cup {t}
      BY <2>1 DEF Visible
    <3>2. j \notin Concerns(t) => Facts(j, Visible(u)') = Facts(j, Visible(u))
      BY <3>1, <2>1 DEF Facts
    <3>3. j \in Concerns(t) /\ Holds(u, j) => j \in blind'
      BY <1>3 DEF CommitScores
    <3> QED BY <3>1, <3>2, <3>3
  <2> QED BY <2>2, <2>3
<1> QED BY <1>2, <1>3

LEMMA CommitKeepsRows ==
  ASSUME ItemsAssumption, CredibilityInv, NEW t \in Tasks, CommitScores(t)
  PROVE  RowInv'
<1>1. SUFFICES ASSUME NEW i \in Cluster
               PROVE  /\ IsRow(row'[i])
                      /\ i \in unscored' \/ i \in blind' \/ row'[i].by = "image" \/ Fresh(row'[i], i, arrived')
  BY DEF RowInv
<1>2. row'[i] = Current(t, i) /\ arrived' = Visible(t) /\ blind \subseteq blind'
  BY DEF CommitScores
<1>3. CASE i \in Flushed(t)
  <2>1. row'[i] = pend[t][i]
    BY <1>2, <1>3 DEF Current
  <2>2. pend[t][i].stale => i \in unscored'
    BY <1>3 DEF CommitScores
  <2> QED BY <1>2, <1>3, <2>1, <2>2 DEF CredibilityInv, PendInv
<1>4. CASE i \notin Flushed(t)
  <2>1. row'[i] = row[i] /\ (i \in unscored => i \in unscored')
    BY <1>2, <1>4 DEF Current, CommitScores
  <2>2. i \in Concerns(t) => i \in unscored'
    <3>1. phase[t] = "commit" /\ Open(t) /\ todo[t] = <<>>
      BY DEF CommitScores, CredibilityInv, TodoInv, Open
    <3>2. i \in Concerns(t) => pend[t][i] # Unset
      BY <3>1 DEF CredibilityInv, TodoInv
    <3>3. i \in Concerns(t) => pend[t][i] = Skipped
      BY <3>2, <1>4 DEF Flushed
    <3> QED BY <3>3 DEF CommitScores
  <2>3. i \notin Concerns(t) => Inputs(i, arrived') = Inputs(i, arrived)
    BY CommitIsSeen, InputsOfFacts
  <2> QED BY <1>2, <2>1, <2>2, <2>3 DEF CredibilityInv, RowInv, Fresh
<1> QED BY <1>3, <1>4

LEMMA CommitKeeps ==
  ASSUME ItemsAssumption, CredibilityInv, NEW t \in Tasks, CommitScores(t)
  PROVE  CredibilityInv'
<1>1. /\ phase'[t] = "done" /\ pend'[t] = [i \in Cluster |-> Unset]
      /\ \A u \in Tasks \ {t} : phase'[u] = phase[u] /\ pend'[u] = pend[u] /\ view'[u] = view[u]
      /\ todo' = todo /\ blind \subseteq blind'
  BY DEF CommitScores, CredibilityInv, CredibilityShape
<1>2. CredibilityShape'
  BY DEF CommitScores, CredibilityInv, CredibilityShape
<1>3. PendInv'
  <2>1. \A j \in Cluster : pend'[t][j] = Unset
    BY <1>1
  <2>2. ASSUME NEW u \in Tasks \ {t}, NEW j \in Cluster, ~Open(u)'
        PROVE  pend'[u][j] = Unset
    BY <1>1, <2>2 DEF CredibilityInv, PendInv, Open
  <2>3. ASSUME NEW u \in Tasks \ {t}, NEW j \in Cluster, (j \in Flushed(u))'
        PROVE  /\ IsRow(pend'[u][j])
               /\ pend'[u][j].stale \/ j \in blind' \/ pend'[u][j].by = "image" \/ Fresh(pend'[u][j], j, Visible(u)')
    <3>1. pend'[u] = pend[u] /\ j \in Flushed(u)
      BY <1>1, <2>3 DEF Flushed
    <3>2. Holds(u, j)
      BY <3>1 DEF CredibilityInv, PendInv, Holds, Flushed
    <3>3. j \in blind' \/ Inputs(j, Visible(u)') = Inputs(j, Visible(u))
      BY <3>2, CommitIsSeen, InputsOfFacts
    <3> QED BY <1>1, <3>1, <3>3 DEF CredibilityInv, PendInv, Fresh
  <2> QED BY <2>1, <2>2, <2>3 DEF PendInv, Flushed
<1>4. ViewInv'
  <2>1. SUFFICES ASSUME NEW u \in Tasks \ {t}, phase[u] \in {"score", "flush"}
                 PROVE  /\ todo[u] # <<>> /\ view[u] \subseteq Facts(Head(todo[u]), Visible(u)')
                        /\ phase[u] = "flush" =>
                             \/ Head(todo[u]) \in blind' \/ Path(u) = "image"
                             \/ Inputs(Head(todo[u]), view[u]) = Inputs(Head(todo[u]), Visible(u)')
    BY <1>1 DEF ViewInv
  <2>2. todo[u] # <<>> /\ Head(todo[u]) \in Cluster
    BY <2>1, HeadAndTail DEF CredibilityInv, CredibilityShape, ViewInv
  <2>3. view[u] \subseteq Facts(Head(todo[u]), Visible(u)')
    <3>1. view[u] \subseteq Facts(Head(todo[u]), Visible(u))
      BY <2>1 DEF CredibilityInv, ViewInv
    <3>2. Visible(u) \subseteq Visible(u)'
      BY <2>2, CommitIsSeen
    <3> QED BY <3>1, <3>2 DEF Facts
  <2>4. phase[u] = "flush" => Holds(u, Head(todo[u]))
    BY DEF Holds, Open
  <2>5. phase[u] = "flush" =>
          Head(todo[u]) \in blind' \/ Inputs(Head(todo[u]), Visible(u)') = Inputs(Head(todo[u]), Visible(u))
    BY <2>2, <2>4, CommitIsSeen, InputsOfFacts
  <2> QED BY <1>1, <2>2, <2>3, <2>5 DEF CredibilityInv, ViewInv
<1>5. TodoInv'
  BY <1>1 DEF CredibilityInv, TodoInv, Open
<1> QED BY <1>2, <1>3, <1>4, <1>5, CommitKeepsRows DEF CredibilityInv

LEMMA CredibilityStep ==
  ASSUME ItemsAssumption, CredibilityInv, [CredibilityNext]_credibilityVars
  PROVE  CredibilityInv'
<1>1. ASSUME NEW t \in Tasks, SkipStale(t)  PROVE CredibilityInv'
  <2>1. todo[t] # <<>> /\ Open(t)
    BY <1>1 DEF SkipStale, CredibilityInv, ViewInv, Open
  <2> QED BY <1>1, <2>1, SkipKeeps DEF SkipStale
<1>2. ASSUME NEW t \in Tasks, StageFails(t)  PROVE CredibilityInv'
  BY <1>2, SkipKeeps DEF StageFails, Open
<1>3. CASE UNCHANGED credibilityVars
  <2>1. /\ arrived' = arrived /\ row' = row /\ phase' = phase /\ todo' = todo /\ view' = view
        /\ pend' = pend /\ blind' = blind /\ unscored' = unscored
    BY <1>3 DEF credibilityVars
  <2>2. CredibilityShape' /\ RowInv'
    BY <2>1 DEF CredibilityInv, CredibilityShape, RowInv, Fresh
  <2>3. PendInv'
    BY <2>1 DEF CredibilityInv, PendInv, Open, Flushed, Fresh, Visible
  <2>4. ViewInv'
    BY <2>1 DEF CredibilityInv, ViewInv, Visible
  <2>5. TodoInv'
    BY <2>1 DEF CredibilityInv, TodoInv, Open
  <2> QED BY <2>2, <2>3, <2>4, <2>5 DEF CredibilityInv
<1> QED BY <1>1, <1>2, <1>3, StartKeeps, CollectKeeps, RecheckKeeps, StoreKeeps, EngineFailsKeeps, CommitKeeps
        DEF CredibilityNext

\* When no transaction is open, the stored score and explanation of an
\* incident are those of the facts in the database, with the exceptions that
\* CurrentUnlessBlind names: compare-before-write, the row locks and the
\* engine's rollback admit no other.
THEOREM ScoresAreCurrent ==
  ASSUME ItemsAssumption
  PROVE  CredibilitySpec => []CurrentUnlessBlind
<1>1. CredibilityInv => CurrentUnlessBlind
  BY DEF CredibilityInv, RowInv, CurrentUnlessBlind, Fresh
<1> QED BY <1>1, CredibilityStart, CredibilityStep, PTL DEF CredibilitySpec

------------------------------------------------------------------------------
(* Folds over finite sets *)

\* A set of natural numbers has a least one.
LEMMA LeastNumber ==
  ASSUME NEW S \in SUBSET Nat, S # {}
  PROVE  \E m \in S : \A k \in S : m <= k
<1>1. PICK m \in S : \A k \in S : ~(<<k, m>> \in OpToRel(<, Nat))
  BY NatLessThanWellFounded, WFMin, Zenon
<1>2. \A k \in S : ~(k < m)
  BY <1>1, Zenon DEF OpToRel
<1> QED BY <1>2

\* A minimal one of some sets.
LEMMA SmallestSet ==
  ASSUME NEW D, IsFiniteSet(D), NEW S \in SUBSET SUBSET D, S # {}
  PROVE  \E m \in S : \A k \in S : k \subseteq m => k = m
<1> DEFINE sizes == {Cardinality(s) : s \in S}
<1>1. \A s \in S : IsFiniteSet(s) /\ Cardinality(s) \in Nat
  BY FS_Subset, FS_CardinalityType
<1>2. sizes \in SUBSET Nat /\ sizes # {}
  BY <1>1
<1>3. PICK n \in sizes : \A k \in sizes : n <= k
  BY <1>2, LeastNumber, Zenon
<1>4. PICK m \in S : n = Cardinality(m)
  OBVIOUS
<1>5. ASSUME NEW k \in S, k \subseteq m
      PROVE  k = m
  <2>1. Cardinality(m) <= Cardinality(k) /\ Cardinality(k) <= Cardinality(m)
    BY <1>1, <1>3, <1>4, <1>5, FS_Subset
  <2>2. Cardinality(k) = Cardinality(m)
    BY <1>1, <2>1
  <2> QED BY <1>1, <1>5, <2>2, FS_Subset
<1> QED BY <1>5

\* Folding a set from b, an element at a time: step[x] is what x does.
Element(s) == CHOOSE x \in s : TRUE
Remaining(s) == s \ {Element(s)}
Folding(g, b, step, U) ==
  g = [s \in SUBSET U |-> IF s = {} THEN b ELSE step[Element(s)][g[Remaining(s)]]]

\* A set has fewer elements without one of its own.
LEMMA RestIsLess ==
  ASSUME NEW s, s # {}
  PROVE  Element(s) \in s /\ Remaining(s) \subseteq s /\ Remaining(s) # s
<1>1. Element(s) \in s
  BY DEF Element
<1> QED BY <1>1 DEF Remaining

\* Two foldings of one set agree,
LEMMA FoldingsAgree ==
  ASSUME NEW D, IsFiniteSet(D), NEW b, NEW step, NEW g, NEW h, NEW U \in SUBSET D, NEW V \in SUBSET D,
         Folding(g, b, step, U), Folding(h, b, step, V), NEW s \in SUBSET (U \cap V)
  PROVE  g[s] = h[s]
<1> DEFINE B == {t \in SUBSET (U \cap V) : g[t] # h[t]}
<1>1. SUFFICES ASSUME B # {}  PROVE FALSE
  OBVIOUS
<1>2. PICK m \in B : \A k \in B : k \subseteq m => k = m
  <2>1. B \in SUBSET SUBSET D
    OBVIOUS
  <2> HIDE DEF B
  <2> QED BY <1>1, <2>1, SmallestSet
<1>3. m \in SUBSET U /\ m \in SUBSET V /\ g[m] # h[m]
  OBVIOUS
<1>4. g[m] = IF m = {} THEN b ELSE step[Element(m)][g[Remaining(m)]]
  BY <1>3, Zenon DEF Folding
<1>5. h[m] = IF m = {} THEN b ELSE step[Element(m)][h[Remaining(m)]]
  BY <1>3, Zenon DEF Folding
<1>6. m # {}
  BY <1>3, <1>4, <1>5
<1>7. g[Remaining(m)] = h[Remaining(m)]
  BY <1>2, <1>3, <1>6, RestIsLess
<1> QED BY <1>3, <1>4, <1>5, <1>6, <1>7

\* and every finite set has one.
LEMMA FoldingExists ==
  ASSUME NEW D, IsFiniteSet(D), NEW b, NEW step
  PROVE  \E g : Folding(g, b, step, D)
<1> DEFINE B == {U \in SUBSET D : ~\E g : Folding(g, b, step, U)}
<1>1. SUFFICES ASSUME B # {}  PROVE FALSE
  OBVIOUS
<1>2. PICK T \in B : \A U \in B : U \subseteq T => U = T
  <2>1. B \in SUBSET SUBSET D
    OBVIOUS
  <2> HIDE DEF B
  <2> QED BY <1>1, <2>1, SmallestSet
<1> DEFINE part(U) == CHOOSE g : Folding(g, b, step, U)
           h == [s \in SUBSET T |-> IF s = {} THEN b ELSE step[Element(s)][part(Remaining(s))[Remaining(s)]]]
<1>3. ASSUME NEW U, U \subseteq T, U # T
      PROVE  Folding(part(U), b, step, U)
  <2>1. \E g : Folding(g, b, step, U)
    BY <1>2, <1>3
  <2> QED BY <2>1, Zenon
<1>4. ASSUME NEW s \in SUBSET T, s # {}
      PROVE  Remaining(s) \subseteq T /\ Remaining(s) # T /\ Remaining(s) \subseteq s
  BY <1>4, RestIsLess
<1> HIDE DEF part
<1>5. ASSUME NEW u \in SUBSET T, u # T
      PROVE  h[u] = part(u)[u]
  <2>1. Folding(part(u), b, step, u)
    BY <1>3, <1>5
  <2>2. part(u)[u] = IF u = {} THEN b ELSE step[Element(u)][part(u)[Remaining(u)]]
    BY <2>1, Zenon DEF Folding
  <2>3. h[u] = IF u = {} THEN b ELSE step[Element(u)][part(Remaining(u))[Remaining(u)]]
    OBVIOUS
  <2>4. ASSUME u # {}
        PROVE  part(u)[Remaining(u)] = part(Remaining(u))[Remaining(u)]
    <3>1. Remaining(u) \subseteq u /\ Remaining(u) \subseteq T /\ Remaining(u) # T
      BY <1>4, <2>4
    <3>2. Folding(part(Remaining(u)), b, step, Remaining(u))
      BY <1>3, <3>1
    <3>3. u \in SUBSET D /\ Remaining(u) \in SUBSET D /\ Remaining(u) \in SUBSET (u \cap Remaining(u))
      BY <3>1
    <3> QED BY <2>1, <3>2, <3>3, FoldingsAgree
  <2> QED BY <2>2, <2>3, <2>4
<1>6. Folding(h, b, step, T)
  <2>1. ASSUME NEW s \in SUBSET T, s # {}
        PROVE  h[Remaining(s)] = part(Remaining(s))[Remaining(s)]
    BY <1>4, <1>5, <2>1
  <2>2. h = [s \in SUBSET T |-> IF s = {} THEN b ELSE step[Element(s)][h[Remaining(s)]]]
    BY <2>1
  <2> QED BY <2>2, Zenon DEF Folding
<1> QED BY <1>6

\* A folding stays in a set that no step leaves.
LEMMA FoldingStays ==
  ASSUME NEW D, IsFiniteSet(D), NEW b, NEW step, NEW g, Folding(g, b, step, D),
         NEW Values, b \in Values, \A x \in D, v \in Values : step[x][v] \in Values,
         NEW s \in SUBSET D
  PROVE  g[s] \in Values
<1> DEFINE B == {t \in SUBSET D : g[t] \notin Values}
<1>1. SUFFICES ASSUME B # {}  PROVE FALSE
  OBVIOUS
<1>2. PICK m \in B : \A k \in B : k \subseteq m => k = m
  <2>1. B \in SUBSET SUBSET D
    OBVIOUS
  <2> HIDE DEF B
  <2> QED BY <1>1, <2>1, SmallestSet
<1>3. m \in SUBSET D /\ g[m] \notin Values
  OBVIOUS
<1>4. g[m] = IF m = {} THEN b ELSE step[Element(m)][g[Remaining(m)]]
  BY <1>3, Zenon DEF Folding
<1>5. m # {}
  BY <1>3, <1>4
<1>6. Element(m) \in D /\ g[Remaining(m)] \in Values
  BY <1>2, <1>3, <1>5, RestIsLess
<1> QED BY <1>3, <1>4, <1>5, <1>6

------------------------------------------------------------------------------
(* Scores are on their scale *)

LEMMA UnitIsNumber == Unit \in Nat /\ Unit > 0
  BY DEF Unit

\* A part of a part is a part.
LEMMA TimesBounds ==
  /\ \A a, b \in 0 .. Unit : Times(a, b) \in 0 .. Unit
  /\ \A a, b \in Nat : Times(a, b) \in Nat
<1>1. ASSUME NEW a \in 0 .. Unit, NEW b \in 0 .. Unit
      PROVE  Times(a, b) \in 0 .. Unit
  <2>1. a * b \in Nat /\ a * b <= Unit * b /\ Unit * b <= Unit * Unit
    BY UnitIsNumber
  <2>2. \A n \in Nat : n <= Unit * Unit => n \div Unit \in 0 .. Unit
    BY UnitIsNumber
  <2> QED BY <2>1, <2>2, UnitIsNumber DEF Times
<1>2. ASSUME NEW a \in Nat, NEW b \in Nat
      PROVE  Times(a, b) \in Nat
  <2>1. a * b \in Nat
    OBVIOUS
  <2> QED BY <2>1, UnitIsNumber DEF Times
<1> QED BY <1>1, <1>2

\* The products that Together takes, as a folding.
Multiplying(g, f, U) ==
  g = [s \in SUBSET U |-> IF s = {} THEN Unit ELSE Times(Unit - f[Element(s)], g[Remaining(s)])]

Dampen(f) == [x \in DOMAIN f |-> [v \in 0 .. Unit |-> Times(Unit - f[x], v)]]

LEMMA DampenStays ==
  ASSUME NEW f, \A x \in DOMAIN f : f[x] \in 0 .. Unit
  PROVE  \A x \in DOMAIN f, v \in 0 .. Unit :
           Dampen(f)[x][v] = Times(Unit - f[x], v) /\ Dampen(f)[x][v] \in 0 .. Unit
<1>1. \A x \in DOMAIN f : Unit - f[x] \in 0 .. Unit
  BY UnitIsNumber
<1> QED BY <1>1, TimesBounds DEF Dampen

LEMMA MultiplyingExists ==
  ASSUME NEW f, IsFiniteSet(DOMAIN f), \A x \in DOMAIN f : f[x] \in 0 .. Unit
  PROVE  \E g : Multiplying(g, f, DOMAIN f)
<1>1. PICK g : Folding(g, Unit, Dampen(f), DOMAIN f)
  BY FoldingExists
<1>2. Unit \in 0 .. Unit
  BY UnitIsNumber
<1>3. \A s \in SUBSET DOMAIN f : g[s] \in 0 .. Unit
  <2> DEFINE parts == 0 .. Unit
             step == Dampen(f)
  <2>1. Unit \in parts /\ \A x \in DOMAIN f, v \in parts : step[x][v] \in parts
    BY <1>2, DampenStays
  <2>2. Folding(g, Unit, step, DOMAIN f)
    BY <1>1
  <2> HIDE DEF parts, step
  <2>3. \A s \in SUBSET DOMAIN f : g[s] \in parts
    BY <2>1, <2>2, FoldingStays
  <2> QED BY <2>3 DEF parts
<1>4. \A s \in SUBSET DOMAIN f :
        s # {} => Dampen(f)[Element(s)][g[Remaining(s)]] = Times(Unit - f[Element(s)], g[Remaining(s)])
  BY <1>3, DampenStays, RestIsLess
<1>5. g = [s \in SUBSET DOMAIN f |-> IF s = {} THEN Unit ELSE Dampen(f)[Element(s)][g[Remaining(s)]]]
  BY <1>1, Zenon DEF Folding
<1>6. g = [s \in SUBSET DOMAIN f |-> IF s = {} THEN Unit ELSE Times(Unit - f[Element(s)], g[Remaining(s)])]
  BY <1>4, <1>5
<1> QED BY <1>6, Zenon DEF Multiplying

\* What is put together from parts of the unit is such a part.
LEMMA TogetherBounds ==
  ASSUME NEW f, IsFiniteSet(DOMAIN f), \A x \in DOMAIN f : f[x] \in 0 .. Unit
  PROVE  Together(f) \in 0 .. Unit
<1> DEFINE c == CHOOSE g : Multiplying(g, f, DOMAIN f)
<1>1. Multiplying(c, f, DOMAIN f)
  BY MultiplyingExists, Zenon
<1>2. Together(f) = Unit - c[DOMAIN f]
  BY DEF Together, MapThenFoldSet, Multiplying, Element, Remaining
<1> HIDE DEF c
<1> DEFINE B == {t \in SUBSET DOMAIN f : c[t] \notin 0 .. Unit}
<1>3. ASSUME B # {}  PROVE FALSE
  <2>1. PICK m \in B : \A k \in B : k \subseteq m => k = m
    <3>1. B \in SUBSET SUBSET DOMAIN f
      OBVIOUS
    <3> HIDE DEF B
    <3> QED BY <1>3, <3>1, SmallestSet
  <2>2. m \in SUBSET DOMAIN f /\ c[m] \notin 0 .. Unit
    OBVIOUS
  <2>3. c[m] = IF m = {} THEN Unit ELSE Times(Unit - f[Element(m)], c[Remaining(m)])
    BY <1>1, <2>2, Zenon DEF Multiplying
  <2>4. m # {}
    BY <2>2, <2>3, UnitIsNumber
  <2>5. Element(m) \in DOMAIN f /\ c[Remaining(m)] \in 0 .. Unit
    BY <2>1, <2>2, <2>4, RestIsLess
  <2>6. Unit - f[Element(m)] \in 0 .. Unit
    BY <2>5, UnitIsNumber
  <2> QED BY <2>2, <2>3, <2>4, <2>5, <2>6, TimesBounds
<1>4. c[DOMAIN f] \in 0 .. Unit
  BY <1>3
<1> QED BY <1>2, <1>4, UnitIsNumber

\* The sum that MapThenSumSet takes, as a folding.
Totalling(g, f, U) ==
  g = [s \in SUBSET U |-> IF s = {} THEN 0 ELSE f[Element(s)] + g[Remaining(s)]]

Raise(f, U) == [x \in U |-> [v \in Nat |-> f[x] + v]]

LEMMA TotallingExists ==
  ASSUME NEW U, IsFiniteSet(U), NEW f, \A x \in U : f[x] \in Nat
  PROVE  \E g : Totalling(g, f, U)
<1> DEFINE step == Raise(f, U)
<1>1. PICK g : Folding(g, 0, step, U)
  BY FoldingExists
<1>2. \A x \in U, v \in Nat : step[x][v] = f[x] + v /\ step[x][v] \in Nat
  BY DEF Raise
<1> HIDE DEF step
<1>3. \A s \in SUBSET U : g[s] \in Nat
  BY <1>1, <1>2, FoldingStays
<1>4. \A s \in SUBSET U : s # {} => step[Element(s)][g[Remaining(s)]] = f[Element(s)] + g[Remaining(s)]
  BY <1>2, <1>3, RestIsLess
<1>5. g = [s \in SUBSET U |-> IF s = {} THEN 0 ELSE step[Element(s)][g[Remaining(s)]]]
  BY <1>1, Zenon DEF Folding
<1>6. g = [s \in SUBSET U |-> IF s = {} THEN 0 ELSE f[Element(s)] + g[Remaining(s)]]
  BY <1>4, <1>5
<1> QED BY <1>6, Zenon DEF Totalling

\* The quality of a report is a number.
LEMMA QualityIsNatural ==
  ASSUME NEW has \in SUBSET DOMAIN QualityWeight
  PROVE  MapThenSumSet(LAMBDA part : QualityWeight[part], has) \in Nat
<1> DEFINE c == CHOOSE g : Totalling(g, QualityWeight, has)
<1>1. \A x \in has : QualityWeight[x] \in Nat
  BY DEF QualityWeight
<1>2. IsFiniteSet(has)
  <2>1. DOMAIN QualityWeight = {"coordinates", "timestamp", "location", "description", "category"}
    BY DEF QualityWeight
  <2>2. IsFiniteSet(DOMAIN QualityWeight)
    <3>1. /\ IsFiniteSet({"coordinates"} \cup {"timestamp"})
          /\ IsFiniteSet({"location"} \cup {"description"}) /\ IsFiniteSet({"category"})
      BY FS_Singleton, FS_Union, Zenon
    <3>2. IsFiniteSet((({"coordinates"} \cup {"timestamp"}) \cup ({"location"} \cup {"description"})) \cup {"category"})
      BY <3>1, FS_Union, Zenon
    <3>3. DOMAIN QualityWeight
            = (({"coordinates"} \cup {"timestamp"}) \cup ({"location"} \cup {"description"})) \cup {"category"}
      BY <2>1
    <3> QED BY <3>2, <3>3
  <2> QED BY <2>2, FS_Subset
<1>3. Totalling(c, QualityWeight, has)
  BY <1>1, <1>2, TotallingExists, Zenon
<1>4. MapThenSumSet(LAMBDA part : QualityWeight[part], has) = c[has]
  BY DEF MapThenSumSet, MapThenFoldSet, Totalling, Element, Remaining
<1> HIDE DEF c
<1> DEFINE B == {t \in SUBSET has : c[t] \notin Nat}
<1>5. ASSUME B # {}  PROVE FALSE
  <2>1. PICK m \in B : \A k \in B : k \subseteq m => k = m
    <3>1. B \in SUBSET SUBSET has
      OBVIOUS
    <3> HIDE DEF B
    <3> QED BY <1>2, <1>5, <3>1, SmallestSet
  <2>2. m \in SUBSET has /\ c[m] \notin Nat
    OBVIOUS
  <2>3. c[m] = IF m = {} THEN 0 ELSE QualityWeight[Element(m)] + c[Remaining(m)]
    BY <1>3, <2>2, Zenon DEF Totalling
  <2>4. m # {}
    BY <2>2, <2>3
  <2>5. QualityWeight[Element(m)] \in Nat /\ c[Remaining(m)] \in Nat
    BY <1>1, <2>1, <2>2, <2>4, RestIsLess
  <2> QED BY <2>2, <2>3, <2>4, <2>5
<1> QED BY <1>4, <1>5

\* The greatest of some parts of the unit is one of them.
LEMMA GreatestPart ==
  ASSUME NEW S \in SUBSET (0 .. Unit), S # {}
  PROVE  Max(S) \in S
<1> DEFINE T == {Unit - x : x \in S}
<1>1. T \in SUBSET Nat /\ T # {}
  <2>1. \A x \in S : Unit - x \in Nat
    BY UnitIsNumber
  <2> QED BY <2>1
<1>2. PICK m \in T : \A k \in T : m <= k
  <2> HIDE DEF T
  <2> QED BY <1>1, LeastNumber, Zenon
<1>3. PICK x \in S : m = Unit - x
  OBVIOUS
<1>4. \A y \in S : x >= y
  <2>1. SUFFICES ASSUME NEW y \in S  PROVE x >= y
    OBVIOUS
  <2>2. m <= Unit - y
    BY <1>2
  <2> QED BY <1>3, <2>2, UnitIsNumber
<1> QED BY <1>4, Zenon DEF Max

\* Inputs whose confidences, weights and scores are parts of the unit.
OnScale(in) ==
  /\ in.report.trust \in 0 .. Unit /\ in.report.has \subseteq DOMAIN QualityWeight
  /\ in.members \in Nat \ {0} /\ in.image \in Int
  /\ IsFiniteSet(in.groups) /\ \A g \in in.groups : g.conf \in 0 .. Unit /\ g.weight \in 0 .. Unit
  /\ IsFiniteSet(in.stations) /\ \A s \in in.stations : s.score \in 0 .. Unit /\ s.weight \in 0 .. Unit
  /\ IsFiniteSet(in.contradictions) /\ \A c \in in.contradictions : c.score \in 0 .. Unit

LEMMA TablesAreNumbers ==
  /\ \A k \in Nat \ {0} : Crowd(k) \in Nat
  /\ \A count : Repetition(count) \in Nat
<1>1. ASSUME NEW k \in Nat \ {0}  PROVE Crowd(k) \in Nat
  <2>1. CASE k <= 10
    <3>1. k \in 1 .. 10
      BY <2>1
    <3>2. <<0, 2835, 4866, 6321, 7364, 8111, 8647, 9030, 9305, 9502>>[k] \in Nat
      BY <3>1
    <3> QED BY <2>1, <3>2 DEF Crowd
  <2>2. CASE ~(k <= 10)
    BY <2>2 DEF Crowd, Unit
  <2> QED BY <2>1, <2>2
<1>2. ASSUME NEW count  PROVE Repetition(count) \in Nat
  BY DEF Repetition
<1> QED BY <1>1, <1>2

LEMMA Halves == \A a \in 0 .. Unit : a \div 2 \in 0 .. Unit
  BY UnitIsNumber

LEMMA SmallParts == 6000 \in 0 .. Unit /\ 4000 \in 0 .. Unit /\ 3000 \in 0 .. Unit
<1>1. 6000 <= Unit /\ 4000 <= Unit /\ 3000 <= Unit
  BY DEF Unit
<1> QED BY <1>1, UnitIsNumber

LEMMA LeastIsPart == \A a \in Nat : Least(Unit, a) \in 0 .. Unit
  BY UnitIsNumber DEF Least

\* The values of a function on a finite set are finitely many.
LEMMA FinitelyMany ==
  ASSUME NEW f, IsFiniteSet(DOMAIN f)
  PROVE  IsFiniteSet({f[x] : x \in DOMAIN f})
<1>1. [x \in DOMAIN f |-> f[x]] \in Surjection(DOMAIN f, {f[x] : x \in DOMAIN f})
  BY DEF Surjection
<1> QED BY <1>1, FS_Surjection

\* The signals are parts of the unit.
LEMMA EvidenceIsPart ==
  ASSUME NEW in, OnScale(in), NEW G \in SUBSET in.groups
  PROVE  EvidenceSignal(G) \in 0 .. Unit
<1> DEFINE f == [g \in G |-> Least(Unit, Times(Strength(g), Repetition(g.count))) \div 2]
<1>1. IsFiniteSet(DOMAIN f)
  BY FS_Subset DEF OnScale
<1>2. ASSUME NEW g \in G  PROVE f[g] \in 0 .. Unit
  <2>1. Strength(g) \in 0 .. Unit
    BY TimesBounds DEF OnScale, Strength
  <2>2. Times(Strength(g), Repetition(g.count)) \in Nat
    <3>1. Strength(g) \in Nat /\ Repetition(g.count) \in Nat
      BY <2>1, TablesAreNumbers, UnitIsNumber
    <3> QED BY <3>1, TimesBounds
  <2>3. Least(Unit, Times(Strength(g), Repetition(g.count))) \in 0 .. Unit
    BY <2>2, LeastIsPart
  <2>4. f[g] = Least(Unit, Times(Strength(g), Repetition(g.count))) \div 2
    OBVIOUS
  <2> QED BY <2>3, <2>4, Halves
<1>3. EvidenceSignal(G) = Together(f)
  BY DEF EvidenceSignal
<1>4. \A g \in DOMAIN f : f[g] \in 0 .. Unit
  BY <1>2
<1> HIDE DEF f
<1> QED BY <1>1, <1>3, <1>4, TogetherBounds

LEMMA ObservationIsPart ==
  ASSUME CapAssumption, NEW in, OnScale(in)
  PROVE  ObservationSignal(in.stations) \in 0 .. Unit
<1> DEFINE f == [s \in in.stations |-> Times(6000, Times(s.score, s.weight))]
<1>1. IsFiniteSet(DOMAIN f)
  BY DEF OnScale
<1>2. ASSUME NEW s \in DOMAIN f  PROVE f[s] \in 0 .. Unit
  <2>1. Times(s.score, s.weight) \in 0 .. Unit
    BY TimesBounds DEF OnScale
  <2>2. f[s] = Times(6000, Times(s.score, s.weight))
    OBVIOUS
  <2> HIDE DEF f
  <2> QED BY <2>1, <2>2, TimesBounds, SmallParts
<1>3. ObservationSignal(in.stations) = Least(PhysicalCap, Together(f))
  BY DEF ObservationSignal
<1> HIDE DEF f
<1>4. Together(f) \in 0 .. Unit
  BY <1>1, <1>2, TogetherBounds
<1> QED BY <1>3, <1>4, UnitIsNumber DEF Least, CapAssumption

LEMMA PenaltyIsPart ==
  ASSUME NEW in, OnScale(in)
  PROVE  Penalty(in.contradictions) \in 0 .. Unit
<1> DEFINE f == [c \in in.contradictions |-> Times(IF c.sensor THEN 6000 ELSE 4000, c.score)]
<1>1. IsFiniteSet(DOMAIN f)
  BY DEF OnScale
<1>2. ASSUME NEW c \in DOMAIN f  PROVE f[c] \in 0 .. Unit
  <2>1. c.score \in 0 .. Unit
    BY DEF OnScale
  <2>2. PICK w \in 0 .. Unit : w = IF c.sensor THEN 6000 ELSE 4000
    BY SmallParts
  <2>3. f[c] = Times(w, c.score)
    BY <2>2
  <2> HIDE DEF f
  <2> QED BY <2>1, <2>3, TimesBounds
<1>3. Penalty(in.contradictions) = Together(f) \div 2
  BY DEF Penalty
<1> HIDE DEF f
<1> QED BY <1>1, <1>2, <1>3, TogetherBounds, Halves

LEMMA FamiliesAreCounted ==
  ASSUME NEW in, OnScale(in)
  PROVE  Cardinality(Families(in)) \in Nat
<1> DEFINE gs == {h \in in.groups : ~h.derived /\ Strength(h) > 1000}
           us == {u \in in.stations : Times(u.score, u.weight) > 1000}
           A == {g.family : g \in gs}
           B == {s.family : s \in us}
<1>1. IsFiniteSet(gs) /\ IsFiniteSet(us)
  BY FS_Subset DEF OnScale
<1>2. IsFiniteSet(A) /\ IsFiniteSet(B)
  <2> DEFINE fam(S) == [x \in S |-> x.family]
  <2>1. IsFiniteSet({fam(gs)[x] : x \in DOMAIN fam(gs)}) /\ IsFiniteSet({fam(us)[x] : x \in DOMAIN fam(us)})
    <3>1. IsFiniteSet(DOMAIN fam(gs)) /\ IsFiniteSet(DOMAIN fam(us))
      BY <1>1
    <3> HIDE DEF fam
    <3> QED BY <3>1, FinitelyMany
  <2>2. A = {fam(gs)[x] : x \in DOMAIN fam(gs)} /\ B = {fam(us)[x] : x \in DOMAIN fam(us)}
    <3> HIDE DEF gs, us
    <3> QED OBVIOUS
  <2> QED BY <2>1, <2>2
<1>3. Families(in) = {in.report.family} \cup A \cup B
  BY DEF Families
<1> HIDE DEF A, B
<1>4. IsFiniteSet({in.report.family} \cup A \cup B)
  BY <1>2, FS_Singleton, FS_Union
<1> QED BY <1>3, <1>4, FS_CardinalityType

\* A product of numbers is a number.
LEMMA TimesIsInteger == \A a, b \in Int : Times(a, b) \in Int
<1>1. SUFFICES ASSUME NEW a \in Int, NEW b \in Int  PROVE Times(a, b) \in Int
  OBVIOUS
<1>2. a * b \in Int
  OBVIOUS
<1> QED BY <1>2, UnitIsNumber DEF Times

LEMMA ClampBounds == \A n \in Int : Clamp(n) \in 0 .. CapMax /\ Clamp(n) <= Greatest(0, n)
  BY DEF Clamp, Greatest, Least, CapMax

LEMMA BaselineIsInteger ==
  ASSUME NEW in, OnScale(in)
  PROVE  Baseline(in.report) \in Int
<1>1. PICK quality \in Nat : quality = MapThenSumSet(LAMBDA part : QualityWeight[part], in.report.has)
  BY QualityIsNatural DEF OnScale
<1>2. Greatest(1000, Least(9500, in.report.trust)) \in Int
  BY UnitIsNumber DEF Greatest, Least, OnScale
<1>3. 7000 + Times(3000, quality) \in Int
  BY <1>1, TimesIsInteger
<1>4. Baseline(in.report) = Times(Greatest(1000, Least(9500, in.report.trust)), 7000 + Times(3000, quality))
  BY <1>1 DEF Baseline
<1> QED BY <1>2, <1>3, <1>4, TimesIsInteger

LEMMA PositiveIsInteger ==
  ASSUME CapAssumption, NEW in, OnScale(in)
  PROVE  Positive(in) \in Int
<1>1. PICK base \in Int : base = Baseline(in.report)
  BY BaselineIsInteger
<1>2. PICK crowd \in Int : crowd = Times(3000, Crowd(in.members))
  <2>1. Crowd(in.members) \in Int
    BY TablesAreNumbers DEF OnScale
  <2> QED BY <2>1, TimesIsInteger
<1>3. PICK e \in Int, o \in Int : e = EvidenceSignal(in.groups) /\ o = ObservationSignal(in.stations)
  <2>1. EvidenceSignal(in.groups) \in 0 .. Unit /\ ObservationSignal(in.stations) \in 0 .. Unit
    BY EvidenceIsPart, ObservationIsPart
  <2> QED BY <2>1, UnitIsNumber
<1>4. PICK n \in Int : n = Cardinality(Families(in))
  BY FamiliesAreCounted
<1>5. PICK support \in Int : support = Least(Unit, crowd + e \div 2 + o \div 2)
  BY <1>2, <1>3, UnitIsNumber DEF Least
<1>6. PICK diversity \in Int : diversity = Unit + 600 * (n - 1)
  BY <1>4, UnitIsNumber
<1>7. Least(Unit, Times(support, diversity)) \in Int
  BY TimesIsInteger, UnitIsNumber DEF Least
<1>8. Times(Unit - base, Least(Unit, Times(support, diversity))) \in Int
  BY <1>7, TimesIsInteger, UnitIsNumber
<1>9. Positive(in) = base + Times(Unit - base, Least(Unit, Times(support, diversity)))
  BY <1>1, <1>2, <1>3, <1>4, <1>5, <1>6 DEF Positive
<1> QED BY <1>8, <1>9

LEMMA PolicyCaps == \A in : PolicyCap(in) \in {6500, 8800, 7500, 8200, 8500, CapMax}
  BY DEF PolicyCap

\* A score before the limit on weak links is on the scale,
LEMMA RawBounds ==
  ASSUME CapAssumption, NEW in, OnScale(in)
  PROVE  Raw(in) \in 0 .. CapMax
<1>1. PICK p \in Int : p = Positive(in)
  BY PositiveIsInteger
<1>2. PICK q \in Int : q = Penalty(in.contradictions)
  BY PenaltyIsPart, UnitIsNumber
<1>3. PICK c \in Int : c = PolicyCap(in)
  BY PolicyCaps DEF CapMax
<1>4. Greatest(0, Least(p - q, c)) + in.image \in Int
  BY DEF Greatest, Least, OnScale
<1>5. Raw(in) = Clamp(Greatest(0, Least(p - q, c)) + in.image)
  BY <1>1, <1>2, <1>3 DEF Raw
<1> QED BY <1>4, <1>5, ClampBounds

\* as is that of the strong links alone.
LEMMA StrongIsOnScale ==
  ASSUME NEW in, OnScale(in), DOMAIN in = {"report", "members", "groups", "stations", "contradictions", "image"},
         in = [k \in DOMAIN in |-> in[k]]
  PROVE  /\ OnScale(StrongOnly(in))
         /\ (\A g \in in.groups : ~IsWeak(g)) => StrongOnly(in) = in
<1>1. StrongOnly(in).groups = {g \in in.groups : ~IsWeak(g)}
  BY DEF StrongOnly
<1>2. /\ StrongOnly(in).report = in.report /\ StrongOnly(in).members = in.members
      /\ StrongOnly(in).stations = in.stations /\ StrongOnly(in).contradictions = in.contradictions
      /\ StrongOnly(in).image = in.image
  BY DEF StrongOnly
<1>3. IsFiniteSet({g \in in.groups : ~IsWeak(g)})
  BY FS_Subset DEF OnScale
<1>4. OnScale(StrongOnly(in))
  BY <1>1, <1>2, <1>3 DEF OnScale
<1>5. ASSUME \A g \in in.groups : ~IsWeak(g)
      PROVE  StrongOnly(in) = in
  <2>1. {g \in in.groups : ~IsWeak(g)} = in.groups
    BY <1>5
  <2>2. StrongOnly(in) = [in EXCEPT !.groups = in.groups]
    BY <2>1 DEF StrongOnly
  <2> QED BY <2>2
<1> QED BY <1>4, <1>5

\* The limit on weak links is above the strong score, by 0.03 at most, and
\* below the next threshold.
LEMMA WeakLimitHolds ==
  ASSUME NEW strong \in Nat
  PROVE  /\ WeakLimit(strong) \in Nat /\ strong <= WeakLimit(strong) /\ WeakLimit(strong) <= strong + MaxWeakLift
         /\ \A t \in Thresholds : ~(strong < t /\ t <= WeakLimit(strong))
<1> DEFINE above == {t \in Thresholds : t > strong}
<1>1. above \in SUBSET Nat
  BY DEF Thresholds
<1>2. MaxWeakLift \in Nat
  BY DEF MaxWeakLift
<1>3. \A t \in Thresholds : t \in Nat
  BY DEF Thresholds
<1>4. CASE above = {}
  <2>1. WeakLimit(strong) = strong + MaxWeakLift
    BY <1>4 DEF WeakLimit
  <2>2. \A t \in Thresholds : ~(strong < t)
    BY <1>3, <1>4
  <2> QED BY <2>1, <2>2, <1>2
<1>5. CASE above # {}
  <2>1. \E m \in above : \A k \in above : m <= k
    <3> HIDE DEF above
    <3> QED BY <1>1, <1>5, LeastNumber, Zenon
  <2>2. PICK m : m = Min(above) /\ m \in above /\ \A k \in above : m <= k
    <3> HIDE DEF above
    <3> QED BY <2>1, Zenon DEF Min
  <2>3. WeakLimit(strong) = IF strong + MaxWeakLift >= m THEN m - 1 ELSE strong + MaxWeakLift
    BY <1>5, <2>2 DEF WeakLimit
  <2>4. m \in Nat /\ m > strong
    BY <1>3, <2>2
  <2>5. \A t \in Thresholds : strong < t => m <= t
    BY <2>2, <1>3
  <2> HIDE DEF above
  <2> QED BY <1>2, <1>3, <2>3, <2>4, <2>5
<1> QED BY <1>4, <1>5

\* The parts of the inputs of an incident.
Parts == {"report", "members", "groups", "stations", "contradictions", "image"}

\* No score is above that of the strong links by more than 0.03, none is
\* lifted across a threshold, and all are on the scale.
LEMMA ScoreHolds ==
  ASSUME CapAssumption, NEW in, OnScale(in), DOMAIN in = Parts, in = [k \in DOMAIN in |-> in[k]]
  PROVE  /\ Score(in) \in 0 .. CapMax
         /\ Score(in) > Raw(StrongOnly(in)) =>
              /\ Score(in) <= Raw(StrongOnly(in)) + MaxWeakLift
              /\ \A t \in Thresholds : ~(Raw(StrongOnly(in)) < t /\ t <= Score(in))
<1>1. CapMax \in Nat /\ MaxWeakLift \in Nat /\ \A t \in Thresholds : t \in Nat
  BY DEF CapMax, MaxWeakLift, Thresholds
<1>2. OnScale(StrongOnly(in)) /\ ((\A g \in in.groups : ~IsWeak(g)) => StrongOnly(in) = in)
  BY StrongIsOnScale DEF Parts
<1>3. PICK full \in 0 .. CapMax : full = Raw(in)
  BY RawBounds
<1>4. PICK strong \in 0 .. CapMax : strong = Raw(StrongOnly(in))
  BY <1>2, RawBounds
<1>5. strong \in Nat
  BY <1>1
<1>6. PICK limit \in Nat : limit = WeakLimit(strong) /\ strong <= limit /\ limit <= strong + MaxWeakLift
                           /\ \A t \in Thresholds : ~(strong < t /\ t <= limit)
  BY <1>5, WeakLimitHolds
<1>7. CASE full <= strong \/ \A g \in in.groups : ~IsWeak(g)
  <2>1. Score(in) = full
    BY <1>3, <1>4, <1>7 DEF Score
  <2>2. full <= strong
    <3>1. (\A g \in in.groups : ~IsWeak(g)) => full = strong
      BY <1>2, <1>3, <1>4
    <3> QED BY <1>1, <1>7, <3>1
  <2> QED BY <1>1, <1>4, <2>1, <2>2
<1>8. CASE ~(full <= strong \/ \A g \in in.groups : ~IsWeak(g))
  <2>1. Score(in) = Least(full, limit)
    BY <1>3, <1>4, <1>6, <1>8, Zenon DEF Score
  <2>2. Score(in) \in 0 .. CapMax /\ Score(in) <= limit
    BY <1>1, <2>1 DEF Least
  <2> HIDE DEF Thresholds
  <2>3. \A t \in Thresholds : ~(strong < t /\ t <= Score(in))
    BY <1>1, <1>6, <2>2
  <2>4. Score(in) <= strong + MaxWeakLift
    BY <1>1, <1>6, <2>2
  <2> QED BY <1>4, <2>2, <2>3, <2>4
<1> QED BY <1>7, <1>8

LEMMA WeightsArePart ==
  /\ \A role : RoleWeight(role) \in 0 .. Unit
  /\ \A relation : RelationWeight(relation) \in 0 .. Unit
  /\ \A x : PhysicalWeight(x) \in 0 .. Unit
  /\ \A x : StationWeight(x) \in 0 .. Unit
<1>1. {0, 2000, 3500, 5000, 6000, Unit} \subseteq 0 .. Unit
  <2>1. 2000 <= Unit /\ 3500 <= Unit /\ 5000 <= Unit /\ 6000 <= Unit
    BY DEF Unit
  <2> QED BY <2>1, UnitIsNumber
<1>2. ASSUME NEW role  PROVE RoleWeight(role) \in {0, 2000, 3500, Unit}
  BY DEF RoleWeight
<1>3. ASSUME NEW relation  PROVE RelationWeight(relation) \in {0, 2000, 5000, Unit}
  BY DEF RelationWeight
<1>4. ASSUME NEW x  PROVE PhysicalWeight(x) \in {0, 6000, Unit}
  BY DEF PhysicalWeight
<1>5. ASSUME NEW x  PROVE StationWeight(x) \in {0, 2000, 5000, 6000, Unit}
  BY <1>3, <1>4 DEF StationWeight
<1> QED BY <1>1, <1>2, <1>3, <1>4, <1>5

\* The buckets of finitely many links are finitely many, with parts of the unit.
LEMMA GroupsOnScale ==
  ASSUME ScaleAssumption, NEW F \in SUBSET Items
  PROVE  IsFiniteSet(Groups(F)) /\ \A g \in Groups(F) : g.conf \in 0 .. Unit /\ g.weight \in 0 .. Unit
<1> DEFINE links == OfSort(F, "link")
           f == [x \in links |-> Group(ItemOf[x].key, links)]
<1>1. IsFiniteSet(links) /\ \A x \in links : ItemOf[x].conf \in 0 .. Unit
  <2>1. links \subseteq Items /\ \A x \in links : ItemOf[x].sort = "link"
    BY DEF OfSort
  <2> QED BY <2>1, FS_Subset DEF ScaleAssumption
<1>2. Groups(F) \subseteq {f[x] : x \in DOMAIN f}
  BY DEF Groups
<1>3. IsFiniteSet({f[x] : x \in DOMAIN f})
  <2>1. IsFiniteSet(DOMAIN f)
    BY <1>1
  <2> HIDE DEF f
  <2> QED BY <2>1, FinitelyMany
<1>4. ASSUME NEW x \in links
      PROVE  f[x].conf \in 0 .. Unit /\ f[x].weight \in 0 .. Unit
  <2> DEFINE L == {y \in links : ItemOf[y].key = ItemOf[x].key}
             C == {ItemOf[y].conf : y \in L}
             W == {RoleWeight(ItemOf[y].role) : y \in L}
  <2>1. x \in L
    OBVIOUS
  <2>2. C \in SUBSET (0 .. Unit) /\ C # {}
    BY <1>1, <2>1
  <2>3. W \in SUBSET (0 .. Unit) /\ W # {}
    BY <2>1, WeightsArePart
  <2>4. f[x].conf = Max(C) /\ f[x].weight = Max(W)
    BY DEF Group
  <2> HIDE DEF C, W, f
  <2> QED BY <2>2, <2>3, <2>4, GreatestPart
<1> HIDE DEF f
<1>5. \A g \in {f[x] : x \in DOMAIN f} : g.conf \in 0 .. Unit /\ g.weight \in 0 .. Unit
  BY <1>4 DEF f
<1> QED BY <1>2, <1>3, <1>5, FS_Subset

LEMMA StationsOnScale ==
  ASSUME ScaleAssumption, NEW F \in SUBSET Items
  PROVE  IsFiniteSet(Stations(F)) /\ \A s \in Stations(F) : s.score \in 0 .. Unit /\ s.weight \in 0 .. Unit
<1> DEFINE readings == OfSort(F, "reading") \cup {x \in OfSort(F, "physical") : PhysicalWeight(x) > 0}
           At(key) == {x \in readings : ItemOf[x].key = key}
           Bucket(k) == [key |-> k, family |-> "SENSOR",
                         score |-> Max({ItemOf[x].score : x \in At(k)}),
                         weight |-> Max({StationWeight(x) : x \in At(k)})]
           f == [x \in readings |-> Bucket(ItemOf[x].key)]
<1>1. IsFiniteSet(readings) /\ \A x \in readings : ItemOf[x].score \in 0 .. Unit
  <2>1. readings \subseteq Items /\ \A x \in readings : ItemOf[x].sort \in {"reading", "physical"}
    BY DEF OfSort
  <2> HIDE DEF readings
  <2> QED BY <2>1, FS_Subset DEF ScaleAssumption
<1>2. Stations(F) \subseteq {Bucket(k) : k \in {ItemOf[x].key : x \in readings}}
  BY DEF Stations
<1>a. {Bucket(k) : k \in {ItemOf[x].key : x \in readings}} = {f[x] : x \in DOMAIN f}
  <2> HIDE DEF readings, Bucket
  <2> QED OBVIOUS
<1>3. IsFiniteSet({f[x] : x \in DOMAIN f})
  <2>1. IsFiniteSet(DOMAIN f)
    BY <1>1
  <2> HIDE DEF f
  <2> QED BY <2>1, FinitelyMany
<1>4. ASSUME NEW x \in readings
      PROVE  f[x].score \in 0 .. Unit /\ f[x].weight \in 0 .. Unit
  <2> DEFINE L == At(ItemOf[x].key)
             C == {ItemOf[y].score : y \in L}
             W == {StationWeight(y) : y \in L}
  <2>1. f[x].score = Max(C) /\ f[x].weight = Max(W)
    <3> HIDE DEF readings
    <3> QED OBVIOUS
  <2>2. x \in L /\ L \subseteq readings
    <3> HIDE DEF readings
    <3> QED OBVIOUS
  <2> HIDE DEF L, readings
  <2>3. C \in SUBSET (0 .. Unit) /\ C # {}
    BY <1>1, <2>2
  <2>4. W \in SUBSET (0 .. Unit) /\ W # {}
    BY <2>2, WeightsArePart
  <2> HIDE DEF C, W, f
  <2> QED BY <2>1, <2>3, <2>4, GreatestPart
<1>5. \A s \in {f[x] : x \in DOMAIN f} : s.score \in 0 .. Unit /\ s.weight \in 0 .. Unit
  <2>1. DOMAIN f = readings
    OBVIOUS
  <2> HIDE DEF f, readings
  <2> QED BY <1>4, <2>1
<1> HIDE DEF f, readings, Bucket
<1> QED BY <1>2, <1>a, <1>3, <1>5, FS_Subset

LEMMA ContradictionsOnScale ==
  ASSUME ItemsAssumption, ScaleAssumption, NEW F \in SUBSET Items
  PROVE  IsFiniteSet(Contradictions(F)) /\ \A c \in Contradictions(F) : c.score \in 0 .. Unit
<1> DEFINE Y == {y \in F :
     \/ ItemOf[y].sort = "link" /\ ItemOf[y].role = "CONTRADICTORY"
     \/ ItemOf[y].sort = "reading" /\ ItemOf[y].relation = "CONTRADICTORY"
     \/ ItemOf[y].sort = "physical" /\ ItemOf[y].verdict = "CONTRADICTS" /\ ItemOf[y].station}
           f == [x \in Y |-> [key |-> x, score |-> ItemOf[x].score, sensor |-> ItemOf[x].sort # "link"]]
<1>1. IsFiniteSet(Y) /\ \A x \in Y : ItemOf[x].score \in 0 .. Unit
  <2>1. Y \subseteq Items /\ \A x \in Y : ItemOf[x].sort \in {"link", "reading", "physical"}
    OBVIOUS
  <2> HIDE DEF Y
  <2> QED BY <2>1, FS_Subset DEF ScaleAssumption
<1>2. Contradictions(F) = {[key |-> x, score |-> ItemOf[x].score, sensor |-> ItemOf[x].sort # "link"] : x \in Y}
  BY DEF Contradictions
<1> HIDE DEF Y
<1>3. Contradictions(F) = {f[x] : x \in DOMAIN f}
  BY <1>2
<1>4. \A x \in DOMAIN f : f[x].score \in 0 .. Unit
  BY <1>1
<1>5. IsFiniteSet(DOMAIN f)
  BY <1>1
<1> HIDE DEF f
<1> QED BY <1>3, <1>4, <1>5, FinitelyMany

LEMMA AdjustmentIsInteger == \A F : ImageAdjustment(F) \in Int
  BY DEF ImageAdjustment, ImageCap

\* What the collector reads is on the scale.
LEMMA InputsOnScale ==
  ASSUME ItemsAssumption, ScaleAssumption, NEW i \in Cluster, NEW F \in SUBSET Items
  PROVE  OnScale(Inputs(i, F)) /\ DOMAIN Inputs(i, F) = Parts
         /\ Inputs(i, F) = [k \in DOMAIN Inputs(i, F) |-> Inputs(i, F)[k]]
<1> DEFINE facts == Facts(i, F)
           in == Inputs(i, F)
<1>1. facts \in SUBSET Items
  BY DEF Facts
<1> HIDE DEF facts
<1>2. in = [report |-> SourceOf[i], members |-> 1 + Cardinality(OfSort(facts, "member")),
            groups |-> Groups(facts), stations |-> Stations(facts), contradictions |-> Contradictions(facts),
            image |-> IF ImageEnabled THEN ImageAdjustment(facts) ELSE 0]
  BY DEF Inputs, facts
<1>3. Cardinality(OfSort(facts, "member")) \in Nat
  BY <1>1, FS_Subset, FS_CardinalityType DEF OfSort, ScaleAssumption
<1> HIDE DEF in
<1>4. /\ in.report = SourceOf[i] /\ in.members = 1 + Cardinality(OfSort(facts, "member"))
      /\ in.groups = Groups(facts) /\ in.stations = Stations(facts) /\ in.contradictions = Contradictions(facts)
      /\ in.image = IF ImageEnabled THEN ImageAdjustment(facts) ELSE 0
  BY <1>2
<1>5. in.image \in Int
  BY <1>4, AdjustmentIsInteger
<1>6. in.members \in Nat \ {0}
  BY <1>3, <1>4
<1>7. SourceOf[i].trust \in 0 .. Unit /\ SourceOf[i].has \subseteq DOMAIN QualityWeight
  BY DEF ScaleAssumption
<1>8. OnScale(in)
  BY <1>1, <1>4, <1>5, <1>6, <1>7, GroupsOnScale, StationsOnScale, ContradictionsOnScale DEF OnScale
<1>9. DOMAIN in = Parts /\ in = [k \in DOMAIN in |-> in[k]]
  BY <1>2 DEF Parts
<1> QED BY <1>8, <1>9 DEF in

------------------------------------------------------------------------------
(* The types of Credibility *)

\* A row has a score on the scale and a stale mark.
IsScored(r) == r.score \in 0 .. CapMax /\ r.stale \in BOOLEAN

\* Transactions read facts and flush rows.
ScoredInv ==
  /\ \A t \in Tasks : view[t] \subseteq Items
  /\ \A t \in Tasks : \A i \in Flushed(t) : IsScored(pend[t][i])

LEMMA VisibleAreItems ==
  ASSUME CredibilityTypeOK, NEW t \in Tasks
  PROVE  Visible(t) \subseteq Items /\ \A i : Facts(i, Visible(t)) \subseteq Items
  BY DEF Visible, Facts, CredibilityTypeOK

LEMMA ScoresStart ==
  ASSUME ItemsAssumption, ScaleAssumption, CapAssumption, CredibilityInit
  PROVE  CredibilityTypeOK /\ ScoredInv
<1>1. arrived \in SUBSET Items
  BY DEF CredibilityInit
<1>2. \A i \in Cluster : row[i] = ScoredRow(Inputs(i, arrived), "stage")
  BY DEF CredibilityInit
<1>3. \A i \in Cluster : Score(Inputs(i, arrived)) \in 0 .. CapMax
  BY <1>1, InputsOnScale, ScoreHolds
<1>4. \A i \in Cluster : row[i].score \in 0 .. CapMax /\ row[i].stale \in BOOLEAN
  <2>1. \A in : ScoredRow(in, "stage").score = Score(in) /\ ScoredRow(in, "stage").stale = FALSE
    BY DEF ScoredRow
  <2> QED BY <1>2, <1>3, <2>1
<1>5. transactions \in 0 .. MaxTransactions /\ failures \in 0 .. MaxFailures
  <2>1. MaxTransactions \in Nat /\ MaxFailures \in Nat
    BY DEF ScaleAssumption
  <2>2. transactions \in {0, MaxTransactions} /\ failures = 0
    BY DEF CredibilityInit
  <2> QED BY <2>1, <2>2
<1>6. CredibilityTypeOK
  BY <1>1, <1>4, <1>5 DEF CredibilityTypeOK, CredibilityInit
<1>7. ScoredInv
  BY DEF ScoredInv, CredibilityInit, Flushed, IsScored
<1> QED BY <1>6, <1>7

\* The row made for an incident is scored.
LEMMA NewRowIsScored ==
  ASSUME ItemsAssumption, ScaleAssumption, CapAssumption, CredibilityInv, CredibilityTypeOK, ScoredInv,
         NEW t \in Tasks, NEW i \in Cluster
  PROVE  IsScored(NewRow(t, i))
<1>1. PICK n \in 0 .. CapMax : n = Score(Inputs(i, view[t]))
  <2>1. view[t] \in SUBSET Items
    BY DEF ScoredInv, IsScored
  <2> QED BY <2>1, InputsOnScale, ScoreHolds
<1>2. IsRow(Current(t, i)) /\ Current(t, i).stale \in BOOLEAN
  BY DEF Current, CredibilityInv, RowInv, PendInv, ScoredInv, CredibilityTypeOK, IsScored
<1>3. CASE Path(t) = "image"
  <2>1. PICK m : m = Clamp(n + ImageAdjustment(view[t]))
    OBVIOUS
  <2>2. n + ImageAdjustment(view[t]) \in Int
    BY <1>1, AdjustmentIsInteger DEF CapMax
  <2>3. m \in 0 .. CapMax
    BY <2>1, <2>2, ClampBounds
  <2>4. NewRow(t, i) = [Current(t, i) EXCEPT !.score = m, !.by = "image"]
    BY <1>1, <1>3, <2>1 DEF NewRow
  <2>5. PICK c : c = Current(t, i)
    OBVIOUS
  <2>6. NewRow(t, i).score = m /\ NewRow(t, i).stale = c.stale
    BY <1>2, <2>4, <2>5 DEF IsRow
  <2> QED BY <1>2, <2>3, <2>5, <2>6 DEF IsScored
<1>4. CASE Path(t) # "image"
  <2>1. NewRow(t, i) = ScoredRow(Inputs(i, view[t]), Path(t))
    BY <1>4 DEF NewRow
  <2>2. NewRow(t, i).score = n /\ NewRow(t, i).stale = FALSE
    BY <1>1, <2>1 DEF ScoredRow
  <2> QED BY <2>2 DEF IsScored
<1> QED BY <1>3, <1>4

\* Steps that write no row.
LEMMA ReadsKeepScores ==
  ASSUME CredibilityTypeOK, ScoredInv, CredibilityShape, NEW t \in Tasks, t \in DOMAIN phase,
         row' = row /\ arrived' = arrived /\ pend' = pend /\ lock' = lock,
         \A u \in Tasks : view'[u] \subseteq Items,
         \E p \in {"idle", "collect", "score", "flush", "commit", "done"} : phase' = [phase EXCEPT ![t] = p],
         blind' \subseteq Cluster, unscored' = unscored,
         transactions' \in 0 .. MaxTransactions, failures' = failures
  PROVE  CredibilityTypeOK' /\ ScoredInv'
<1>1. phase' \in [Tasks -> {"idle", "collect", "score", "flush", "commit", "done"}]
  BY DEF CredibilityTypeOK
<1>2. CredibilityTypeOK'
  BY <1>1 DEF CredibilityTypeOK
<1>3. ScoredInv'
  BY DEF ScoredInv, Flushed, IsScored
<1> QED BY <1>2, <1>3

\* A step of t to the next incident that puts a row or a mark in place for it.
LEMMA MarksKeepScores ==
  ASSUME CredibilityTypeOK, ScoredInv, CredibilityShape, NEW t \in Tasks,
         row' = row /\ arrived' = arrived /\ view' = view /\ blind' = blind /\ unscored' = unscored,
         transactions' = transactions, failures' \in 0 .. MaxFailures,
         lock' \in [Cluster -> Tasks \cup {Unlocked}], Advance(t),
         \A u \in Tasks \ {t} : pend'[u] = pend[u],
         \A i \in Cluster : pend'[t][i] \in {Unset, Skipped, pend[t][i]} \/ IsScored(pend'[t][i])
  PROVE  CredibilityTypeOK' /\ ScoredInv'
<1>1. phase' \in [Tasks -> {"idle", "collect", "score", "flush", "commit", "done"}]
  BY DEF CredibilityTypeOK, Advance
<1>2. CredibilityTypeOK'
  BY <1>1 DEF CredibilityTypeOK
<1>3. \A u \in Tasks \ {t} : Flushed(u)' = Flushed(u)
  BY DEF Flushed
<1>4. ASSUME NEW i \in Cluster, (i \in Flushed(t))'
      PROVE  IsScored(pend'[t][i])
  <2>1. CASE pend'[t][i] = pend[t][i]
    BY <1>4, <2>1 DEF Flushed, ScoredInv, IsScored
  <2> QED BY <1>4, <2>1 DEF Flushed
<1>5. ScoredInv'
  BY <1>3, <1>4 DEF ScoredInv, Flushed, IsScored
<1> QED BY <1>2, <1>5

LEMMA TypesStep ==
  ASSUME ItemsAssumption, ScaleAssumption, CapAssumption, CredibilityInv, CredibilityTypeOK, ScoredInv,
         [CredibilityNext]_credibilityVars
  PROVE  CredibilityTypeOK' /\ ScoredInv'
<1> USE DEF CredibilityInv
<1>0. CredibilityShape /\ \A t \in Tasks : t \in DOMAIN phase
  BY DEF CredibilityShape
<1>n. MaxTransactions \in Nat /\ MaxFailures \in Nat /\ transactions \in 0 .. MaxTransactions
  BY DEF ScaleAssumption, CredibilityTypeOK
<1>1. ASSUME NEW t \in Tasks, Start(t)  PROVE CredibilityTypeOK' /\ ScoredInv'
  <2>1. transactions' \in 0 .. MaxTransactions
    BY <1>1, <1>n DEF Start
  <2>2. blind' \subseteq Cluster /\ \A u \in Tasks : view'[u] \subseteq Items
    BY <1>1 DEF Start, CredibilityTypeOK, ScoredInv, IsScored
  <2> QED BY <1>0, <1>1, <2>1, <2>2, ReadsKeepScores DEF Start
<1>2. ASSUME NEW t \in Tasks, Collect(t)  PROVE CredibilityTypeOK' /\ ScoredInv'
  <2>1. \A u \in Tasks : view'[u] \subseteq Items
    BY <1>0, <1>2, VisibleAreItems DEF Collect, CredibilityShape, ScoredInv, IsScored
  <2>2. blind' \subseteq Cluster
    BY <1>2 DEF Collect, CredibilityTypeOK
  <2> QED BY <1>0, <1>2, <1>n, <2>1, <2>2, ReadsKeepScores DEF Collect
<1>3. ASSUME NEW t \in Tasks, Recheck(t)  PROVE CredibilityTypeOK' /\ ScoredInv'
  <2>1. Head(todo[t]) \in Cluster
    BY <1>0, <1>3, HeadAndTail DEF Recheck, ViewInv, CredibilityShape
  <2>2. blind' \subseteq Cluster /\ \A u \in Tasks : view'[u] \subseteq Items
    BY <1>3, <2>1 DEF Recheck, CredibilityTypeOK, ScoredInv, IsScored
  <2> QED BY <1>0, <1>3, <1>n, <2>2, ReadsKeepScores DEF Recheck
<1>4. ASSUME NEW t \in Tasks, Store(t)  PROVE CredibilityTypeOK' /\ ScoredInv'
  <2>1. Head(todo[t]) \in Cluster
    BY <1>0, <1>4, HeadAndTail DEF Store, ViewInv, CredibilityShape
  <2>2. IsScored(NewRow(t, Head(todo[t])))
    BY <2>1, NewRowIsScored
  <2>3. /\ lock' \in [Cluster -> Tasks \cup {Unlocked}] /\ \A u \in Tasks \ {t} : pend'[u] = pend[u]
        /\ \A i \in Cluster : pend'[t][i] = IF i = Head(todo[t]) THEN NewRow(t, i) ELSE pend[t][i]
    BY <1>0, <1>4 DEF Store, CredibilityTypeOK, CredibilityShape
  <2>4. \A i \in Cluster : pend'[t][i] \in {Unset, Skipped, pend[t][i]} \/ IsScored(pend'[t][i])
    BY <2>2, <2>3
  <2>5. failures' \in 0 .. MaxFailures
    BY <1>4 DEF Store, CredibilityTypeOK
  <2> QED BY <1>0, <1>4, <2>3, <2>4, <2>5, MarksKeepScores DEF Store
<1>5. ASSUME NEW t \in Tasks, SkipStale(t) \/ StageFails(t)  PROVE CredibilityTypeOK' /\ ScoredInv'
  <2>1. /\ pend' = [pend EXCEPT ![t][Head(todo[t])] = Skipped] /\ Advance(t)
        /\ UNCHANGED <<arrived, row, lock, view, blind, unscored, transactions>>
    BY <1>5 DEF SkipStale, StageFails
  <2>2. /\ \A u \in Tasks \ {t} : pend'[u] = pend[u]
        /\ \A i \in Cluster : pend'[t][i] \in {Unset, Skipped, pend[t][i]} \/ IsScored(pend'[t][i])
    BY <1>0, <2>1 DEF CredibilityShape
  <2>3. failures' \in 0 .. MaxFailures /\ lock' \in [Cluster -> Tasks \cup {Unlocked}]
    BY <1>5, <1>n DEF SkipStale, StageFails, CredibilityTypeOK
  <2> QED BY <1>0, <2>1, <2>2, <2>3, MarksKeepScores
<1>6. ASSUME NEW t \in Tasks, EngineFails(t)  PROVE CredibilityTypeOK' /\ ScoredInv'
  <2>1. \A u \in Tasks \ {t} : pend'[u] = pend[u]
    BY <1>0, <1>6 DEF EngineFails, CredibilityShape
  <2>2. \A i \in Cluster : pend'[t][i] = IF i = Head(todo[t]) THEN [row[i] EXCEPT !.stale = TRUE]
                                          ELSE IF i \in Flushed(t) THEN Skipped ELSE pend[t][i]
    BY <1>0, <1>6 DEF EngineFails, CredibilityShape
  <2>3. ASSUME NEW i \in Cluster  PROVE IsScored([row[i] EXCEPT !.stale = TRUE])
    <3>1. IsRow(row[i]) /\ row[i].score \in 0 .. CapMax
      BY DEF RowInv, CredibilityTypeOK
    <3>2. PICK r : r = row[i]
      OBVIOUS
    <3>3. [r EXCEPT !.stale = TRUE].score = r.score /\ [r EXCEPT !.stale = TRUE].stale = TRUE
      BY <3>1, <3>2 DEF IsRow
    <3> QED BY <3>1, <3>2, <3>3 DEF IsScored
  <2>4. \A i \in Cluster : pend'[t][i] \in {Unset, Skipped, pend[t][i]} \/ IsScored(pend'[t][i])
    BY <2>2, <2>3
  <2>5. failures' \in 0 .. MaxFailures /\ lock' \in [Cluster -> Tasks \cup {Unlocked}]
    BY <1>6, <1>n DEF EngineFails, CredibilityTypeOK
  <2> QED BY <1>0, <1>6, <2>1, <2>4, <2>5, MarksKeepScores DEF EngineFails
<1>7. ASSUME NEW t \in Tasks, CommitScores(t)  PROVE CredibilityTypeOK' /\ ScoredInv'
  <2>1. arrived' \subseteq Items
    BY <1>7, VisibleAreItems DEF CommitScores
  <2>2. \A i \in Cluster : row'[i].score \in 0 .. CapMax /\ row'[i].stale \in BOOLEAN
    BY <1>7 DEF CommitScores, Current, CredibilityTypeOK, ScoredInv, IsScored
  <2>3. lock' \in [Cluster -> Tasks \cup {Unlocked}]
    BY <1>7 DEF CommitScores, CredibilityTypeOK
  <2>4. phase' \in [Tasks -> {"idle", "collect", "score", "flush", "commit", "done"}]
    BY <1>7 DEF CommitScores, CredibilityTypeOK
  <2>5. blind' \subseteq Cluster
    BY <1>7 DEF CommitScores, CredibilityTypeOK, Concerns, ItemsAssumption
  <2>6. unscored' \subseteq Cluster
    BY <1>7 DEF CommitScores, CredibilityTypeOK
  <2>7. CredibilityTypeOK'
    BY <1>7, <2>1, <2>2, <2>3, <2>4, <2>5, <2>6 DEF CommitScores, CredibilityTypeOK
  <2>8. /\ \A i \in Cluster : pend'[t][i] = Unset
        /\ \A u \in Tasks \ {t} : pend'[u] = pend[u]
        /\ \A u \in Tasks : view'[u] \subseteq Items
    BY <1>0, <1>7 DEF CommitScores, CredibilityShape, ScoredInv, IsScored
  <2>9. ScoredInv'
    BY <2>8 DEF ScoredInv, Flushed, IsScored
  <2> QED BY <2>7, <2>9
<1>8. CASE UNCHANGED credibilityVars
  BY <1>8 DEF credibilityVars, CredibilityTypeOK, ScoredInv, Flushed, IsScored
<1> QED BY <1>1, <1>2, <1>3, <1>4, <1>5, <1>6, <1>7, <1>8 DEF CredibilityNext

\* Whatever facts arrive and however their transactions interleave and fail,
\* a stored score is between 0 and 0.98 and an incident's marks and locks are
\* of its cluster and of its transactions.
THEOREM ScoresAreBounded ==
  ASSUME ItemsAssumption, ScaleAssumption, CapAssumption
  PROVE  CredibilitySpec => []CredibilityTypeOK
<1> DEFINE Inv == CredibilityInv /\ CredibilityTypeOK /\ ScoredInv
<1>1. CredibilityInit => Inv
  BY CredibilityStart, ScoresStart
<1>2. Inv /\ [CredibilityNext]_credibilityVars => Inv'
  BY CredibilityStep, TypesStep
<1>3. Inv => CredibilityTypeOK
  OBVIOUS
<1> QED BY <1>1, <1>2, <1>3, PTL DEF CredibilitySpec

\* Links that only relate to an incident or give context lift its score by at
\* most 0.03 over that of its other facts, and never to a threshold of the
\* verification queue that those do not reach: whatever the facts are.
THEOREM WeakLinksDecideNothing ==
  ASSUME ItemsAssumption, ScaleAssumption, CapAssumption
  PROVE  CredibilitySpec => []WeakNeverDecides
<1>1. CredibilityTypeOK => WeakNeverDecides
  <2>1. SUFFICES ASSUME arrived \in SUBSET Items, NEW i \in Cluster
                 PROVE  LET in == Inputs(i, arrived)
                            strong == Raw(StrongOnly(in))
                        IN  Score(in) > strong =>
                              /\ Score(in) <= strong + MaxWeakLift
                              /\ \A t \in Thresholds : ~(strong < t /\ t <= Score(in))
    BY DEF WeakNeverDecides, CredibilityTypeOK
  <2> QED BY <2>1, InputsOnScale, ScoreHolds
<1> QED BY <1>1, ScoresAreBounded, PTL

------------------------------------------------------------------------------
(* Reused pictures are found *)

\* The reports a picture is said to be reused from have it or one like it.
Evidenced(m, matched) ==
  \A r \in matched :
    /\ r # ReportOf[m]
    /\ \/ PictureOf[m] = Black
       \/ \E n \in Images(r) : PictureOf[n] = PictureOf[m] \/ PictureOf[n] \in Near[PictureOf[m]]

IsHash(x) ==
  /\ x.media \in Media /\ x.report = ReportOf[x.media] /\ x.hash \in {Zero, HashOf(PictureOf[x.media])}
  /\ \E v \in Workers : x.id = <<x.media, v>>

IsFinding(f) ==
  /\ f.media \in Media /\ f.report = ReportOf[f.media] /\ ~f.simulated /\ Evidenced(f.media, f.matched)
  /\ \E v \in Workers : f.id = <<f.media, v>>

IsDemo(f) == f.simulated /\ f.media \notin Media

RunShape(w) ==
  /\ run[w] = [report |-> run[w].report, todo |-> run[w].todo, hashes |-> run[w].hashes, findings |-> run[w].findings]
  /\ run[w].report \in Reports \cup {NoReport}
  /\ run[w].report = NoReport => run[w] = Idle
  /\ run[w].todo \subseteq Images(run[w].report)
  /\ \A x \in run[w].hashes : IsHash(x) /\ x.report = run[w].report /\ x.media \notin run[w].todo
  /\ \A f \in run[w].findings : IsFinding(f) /\ f.report = run[w].report /\ f.media \notin run[w].todo
  /\ \A m \in Images(run[w].report) \ run[w].todo :
       /\ \E x \in run[w].hashes : x.media = m
       /\ \E f \in run[w].findings : f.media = m

RowsInv ==
  /\ DOMAIN run = Workers /\ DOMAIN excuse = Media
  /\ \A w \in Workers : RunShape(w)
  /\ \A x \in hashes : IsHash(x)
  /\ \A f \in findings : IsDemo(f) \/ IsFinding(f)

\* One row of an image in its report's transaction, one in the database, and
\* they are the same row.
OneRow(m, committed, own) ==
  /\ \A x, y \in committed : x.media = m /\ y.media = m => x = y
  /\ \A x, y \in own : x.media = m /\ y.media = m => x = y
  /\ \A x \in own, y \in committed : x.media = m /\ y.media = m => x.id = y.id

SingleInv ==
  \A m \in Media : ReportOf[m] \notin overlapped =>
    /\ \A v, w \in Running(ReportOf[m]) : v = w
    /\ \A w \in Running(ReportOf[m]) : OneRow(m, hashes, run[w].hashes) /\ OneRow(m, findings, run[w].findings)
    /\ OneRow(m, hashes, {}) /\ OneRow(m, findings, {})

\* The rows of an image's last analysis.
HashesNow(m) ==
  {x \in hashes : x.media = m /\ \A w \in Running(ReportOf[m]) : m \in run[w].todo}
    \cup UNION {{x \in run[w].hashes : x.media = m} : w \in Running(ReportOf[m])}
FindingsNow(m) ==
  {f \in findings : f.media = m /\ \A w \in Running(ReportOf[m]) : m \in run[w].todo}
    \cup UNION {{f \in run[w].findings : f.media = m} : w \in Running(ReportOf[m])}

Plain(m) == ReportOf[m] \notin overlapped /\ excuse[m] = {}

KnownInv ==
  \A m \in Media : Plain(m) /\ FindingsNow(m) # {} => \E x \in HashesNow(m) : x.hash = HashOf(PictureOf[m])

\* Images of which one is a use of the other's picture far away.
Alike(a, b) ==
  LET p == PictureOf[a]  q == PictureOf[b] IN
    /\ ReportOf[a] # ReportOf[b] /\ PlaceOf[ReportOf[a]] # PlaceOf[ReportOf[b]]
    /\ p # Corrupt /\ q # Corrupt
    /\ p = q \/ (p # Black /\ q # Black /\ q \in Near[p] /\ PrefixOf[p] = PrefixOf[q])

PairInv ==
  \A a, b \in Media : Plain(a) /\ Plain(b) /\ Alike(a, b) =>
    \A f \in FindingsNow(a), g \in FindingsNow(b) : ReportOf[b] \in f.matched \/ ReportOf[a] \in g.matched

ForensicsInv == RowsInv /\ SingleInv /\ KnownInv /\ PairInv

LEMMA ForensicsStart ==
  ASSUME ForensicsAssumption, ForensicsInit
  PROVE  ForensicsInv
<1>1. \A w \in Workers : run[w] = Idle
  BY DEF ForensicsInit
<1>2. Images(NoReport) = {}
  BY DEF Images, ForensicsAssumption
<1>3. RowsInv
  BY <1>1, <1>2 DEF ForensicsInit, RowsInv, RunShape, Idle
<1>a. \A r \in Reports : Running(r) = {}
  BY <1>1 DEF Running, Idle, ForensicsAssumption
<1>4. SingleInv
  BY <1>a DEF ForensicsInit, SingleInv, OneRow, ForensicsAssumption
<1>5. \A m \in Media : FindingsNow(m) = {}
  BY <1>a DEF ForensicsInit, FindingsNow, ForensicsAssumption
<1>6. KnownInv /\ PairInv
  BY <1>5 DEF KnownInv, PairInv
<1> QED BY <1>3, <1>4, <1>6 DEF ForensicsInv

\* What one analysis does: a row of the hash and a row of the finding of image
\* m, new or in the place of those there were.
Analysed(w, m, hash, matched, h, f) ==
  /\ IsHash(h) /\ h.media = m /\ h.hash = hash
  /\ IsFinding(f) /\ f.media = m /\ f.matched = matched
  /\ (\E x \in SeesHashes(w) : x.media = m) => \E x \in SeesHashes(w) : x.media = m /\ h.id = x.id
  /\ (\E x \in SeesFindings(w) : x.media = m) => \E x \in SeesFindings(w) : x.media = m /\ f.id = x.id
  /\ run'[w] = [report |-> run[w].report, todo |-> run[w].todo \ {m},
                hashes |-> {x \in run[w].hashes : x.id # h.id} \cup {h},
                findings |-> {x \in run[w].findings : x.id # f.id} \cup {f}]
  /\ \A v \in Workers \ {w} : run'[v] = run[v]
  /\ \A n \in Media \ {m} : excuse'[n] = excuse[n]
  /\ DOMAIN run' = Workers /\ DOMAIN excuse' = Media

\* All that a transaction reads of the hashes are of some image.
LEMMA SeenAreRows ==
  ASSUME RowsInv, NEW w \in Workers
  PROVE  /\ \A x \in SeesHashes(w) : IsHash(x)
         /\ \A f \in SeesFindings(w) : IsDemo(f) \/ IsFinding(f)
  BY DEF RowsInv, RunShape, SeesHashes, SeesFindings, Written

\* A match of a picture is of a report that has it or one like it.
LEMMA MatchIsEvidence ==
  ASSUME ForensicsAssumption, NEW m \in Media, PictureOf[m] # Corrupt, NEW matches,
         \A x \in matches : IsHash(x) /\ Similar(HashOf(PictureOf[m]), x)
  PROVE  Evidenced(m, Reuse(ReportOf[m], matches).matched)
<1> SUFFICES ASSUME NEW x \in matches, Distant(ReportOf[m], x)
             PROVE  /\ x.report # ReportOf[m]
                    /\ \/ PictureOf[m] = Black
                       \/ \E n \in Images(x.report) :
                             PictureOf[n] = PictureOf[m] \/ PictureOf[n] \in Near[PictureOf[m]]
  BY DEF Evidenced, Reuse
<1>1. x.report # ReportOf[m]
  BY DEF Distant
<1>2. IsHash(x) /\ Similar(HashOf(PictureOf[m]), x)
  OBVIOUS
<1>3. SUFFICES ASSUME PictureOf[m] # Black
               PROVE  \E n \in Images(x.report) :
                         PictureOf[n] = PictureOf[m] \/ PictureOf[n] \in Near[PictureOf[m]]
  BY <1>1
<1>4. PictureOf[m] \in Pictures /\ HashOf(PictureOf[m]) = PictureOf[m]
  BY <1>3 DEF ForensicsAssumption, HashOf
<1>5. x.hash = PictureOf[m] \/ x.hash \in Near[PictureOf[m]]
  BY <1>2, <1>4 DEF Similar, SameHash
<1>6. x.hash \in Pictures
  BY <1>4, <1>5 DEF ForensicsAssumption
<1>7. x.hash # Zero
  BY <1>6 DEF ForensicsAssumption
<1>8. x.hash = PictureOf[x.media] /\ x.media \in Images(x.report)
  BY <1>2, <1>7 DEF IsHash, HashOf, Images
<1> QED BY <1>5, <1>8

LEMMA AnalyseDoes ==
  ASSUME ForensicsAssumption, RowsInv, NEW w \in Workers, NEW m \in Media, m \in run[w].todo,
         NEW picture \in {PictureOf[m], Corrupt}, NEW why, Analyse(w, m, picture, why)
  PROVE  \E candidates \in Lookups(w, HashOf(picture)) : \E h, f :
           /\ Analysed(w, m, HashOf(picture),
                IF picture = Corrupt THEN {}
                ELSE Reuse(ReportOf[m], {x \in candidates : Similar(HashOf(picture), x)}).matched, h, f)
           /\ excuse'[m] = {} =>
                /\ why = {} /\ candidates = Pruned(w, HashOf(picture))
                /\ \A v \in Workers \ {w} : \A x \in run[v].hashes : ~Similar(HashOf(picture), x)
<1> DEFINE hash == HashOf(picture)
           hidden == {v \in Workers \ {w} : \E x \in run[v].hashes : Similar(hash, x)}
           Matches(candidates) == {x \in candidates : Similar(hash, x)}
           Matched(candidates) == IF picture = Corrupt THEN {} ELSE Reuse(ReportOf[m], Matches(candidates)).matched
<1>1. PICK candidates \in Lookups(w, hash) :
        LET checks == Decoded(picture, m, Matches(candidates))
        IN \E h \in Upsert(SeesHashes(w), m, HashRow(m, hash, w)),
              f \in Upsert(SeesFindings(w), m, FindingRow(m, w, checks, Matched(candidates))) :
             /\ run' = [run EXCEPT ![w].todo = @ \ {m},
                                   ![w].hashes = {x \in @ : x.id # h.id} \cup {h},
                                   ![w].findings = {x \in @ : x.id # f.id} \cup {f}]
             /\ excuse' = [excuse EXCEPT ![m] =
                  why \cup (IF hidden # {} THEN {"concurrent"} ELSE {})
                      \cup (IF candidates # Pruned(w, hash) THEN {"truncated"} ELSE {})]
  BY DEF Analyse
<1>2. PICK checks, h, f :
        /\ h \in Upsert(SeesHashes(w), m, HashRow(m, hash, w))
        /\ f \in Upsert(SeesFindings(w), m, FindingRow(m, w, checks, Matched(candidates)))
        /\ run' = [run EXCEPT ![w].todo = @ \ {m},
                              ![w].hashes = {x \in @ : x.id # h.id} \cup {h},
                              ![w].findings = {x \in @ : x.id # f.id} \cup {f}]
        /\ excuse' = [excuse EXCEPT ![m] =
             why \cup (IF hidden # {} THEN {"concurrent"} ELSE {})
                 \cup (IF candidates # Pruned(w, hash) THEN {"truncated"} ELSE {})]
  BY <1>1
<1>3. candidates \subseteq SeesHashes(w) /\ \A x \in Matches(candidates) : IsHash(x) /\ Similar(hash, x)
  BY SeenAreRows DEF Lookups, Pruned
<1>4. Evidenced(m, Matched(candidates))
  BY <1>3, MatchIsEvidence DEF Evidenced
<1>5. DOMAIN run = Workers /\ DOMAIN excuse = Media
      /\ run[w] = [report |-> run[w].report, todo |-> run[w].todo, hashes |-> run[w].hashes, findings |-> run[w].findings]
  BY DEF RowsInv, RunShape
<1> HIDE DEF hash, hidden, Matches, Matched
<1>6. IsHash(HashRow(m, hash, w)) /\ IsFinding(FindingRow(m, w, checks, Matched(candidates)))
  BY <1>4 DEF IsHash, IsFinding, HashRow, FindingRow, hash, HashOf
<1>7. /\ IsHash(h) /\ h.media = m /\ h.hash = hash
      /\ (\E x \in SeesHashes(w) : x.media = m) => \E x \in SeesHashes(w) : x.media = m /\ h.id = x.id
  <2>1. CASE \E x \in SeesHashes(w) : x.media = m
    <3>1. PICK x \in SeesHashes(w) : x.media = m /\ h = [HashRow(m, hash, w) EXCEPT !.id = x.id, !.at = x.at]
      BY <1>2, <2>1 DEF Upsert
    <3>2. h = [id |-> x.id, media |-> m, report |-> ReportOf[m], hash |-> hash, at |-> x.at]
      BY <3>1 DEF HashRow
    <3>3. IsHash(x)
      BY SeenAreRows
    <3> QED BY <3>1, <3>2, <3>3, <1>6 DEF IsHash, HashRow
  <2>2. CASE ~ \E x \in SeesHashes(w) : x.media = m
    <3>1. h = HashRow(m, hash, w)
      BY <1>2, <2>2 DEF Upsert
    <3> QED BY <3>1, <2>2, <1>6 DEF HashRow
  <2> QED BY <2>1, <2>2
<1>8. /\ IsFinding(f) /\ f.media = m /\ f.matched = Matched(candidates)
      /\ (\E x \in SeesFindings(w) : x.media = m) => \E x \in SeesFindings(w) : x.media = m /\ f.id = x.id
  <2>1. CASE \E x \in SeesFindings(w) : x.media = m
    <3>1. PICK x \in SeesFindings(w) :
            x.media = m /\ f = [FindingRow(m, w, checks, Matched(candidates)) EXCEPT !.id = x.id, !.at = x.at]
      BY <1>2, <2>1 DEF Upsert
    <3>2. f = [id |-> x.id, media |-> m, report |-> ReportOf[m], at |-> x.at, checks |-> checks,
               matched |-> Matched(candidates), overall |-> Overall(checks), simulated |-> FALSE]
      BY <3>1 DEF FindingRow
    <3>3. IsFinding(x)
      BY <3>1, SeenAreRows DEF IsDemo
    <3>4. /\ f.media = m /\ f.report = ReportOf[m] /\ f.matched = Matched(candidates) /\ f.simulated = FALSE
          /\ f.id = x.id
      BY <3>2
    <3>5. \E v \in Workers : f.id = <<m, v>>
      BY <3>1, <3>3, <3>4 DEF IsFinding
    <3>6. IsFinding(f)
      BY <3>4, <3>5, <1>4 DEF IsFinding
    <3> QED BY <3>1, <3>4, <3>6
  <2>2. CASE ~ \E x \in SeesFindings(w) : x.media = m
    <3>1. f = FindingRow(m, w, checks, Matched(candidates))
      BY <1>2, <2>2 DEF Upsert
    <3>2. FindingRow(m, w, checks, Matched(candidates)).media = m
          /\ FindingRow(m, w, checks, Matched(candidates)).matched = Matched(candidates)
      BY DEF FindingRow
    <3> QED BY <3>1, <3>2, <2>2, <1>6
  <2> QED BY <2>1, <2>2
<1>9. /\ run'[w] = [report |-> run[w].report, todo |-> run[w].todo \ {m},
                    hashes |-> {x \in run[w].hashes : x.id # h.id} \cup {h},
                    findings |-> {x \in run[w].findings : x.id # f.id} \cup {f}]
      /\ \A v \in Workers \ {w} : run'[v] = run[v]
      /\ DOMAIN run' = Workers
  BY <1>2, <1>5
<1>10. /\ \A n \in Media \ {m} : excuse'[n] = excuse[n]
       /\ DOMAIN excuse' = Media
       /\ excuse'[m] = {} => why = {} /\ hidden = {} /\ candidates = Pruned(w, hash)
  BY <1>2, <1>5
<1>11. Analysed(w, m, hash, Matched(candidates), h, f)
  BY <1>7, <1>8, <1>9, <1>10 DEF Analysed
<1>12. excuse'[m] = {} =>
                /\ why = {} /\ candidates = Pruned(w, hash)
                /\ \A v \in Workers \ {w} : \A x \in run[v].hashes : ~Similar(hash, x)
  BY <1>10 DEF hidden
<1> QED BY <1>11, <1>12 DEF hash, Matched, Matches

\* An analysis changes the rows of its image and of no other.
LEMMA OwnRows ==
  ASSUME RowsInv, NEW w \in Workers, NEW m \in Media, m \in run[w].todo,
         NEW hash, NEW matched, NEW h, NEW f, Analysed(w, m, hash, matched, h, f)
  PROVE  /\ \A n \in Media \ {m} :
              /\ {x \in run'[w].hashes : x.media = n} = {x \in run[w].hashes : x.media = n}
              /\ {x \in run'[w].findings : x.media = n} = {x \in run[w].findings : x.media = n}
         /\ {x \in run'[w].hashes : x.media = m} = {h} /\ {x \in run'[w].findings : x.media = m} = {f}
         /\ \A r : Running(r)' = Running(r)
         /\ run[w].report = ReportOf[m]
<1>1. /\ h.media = m /\ f.media = m
      /\ run'[w].hashes = {x \in run[w].hashes : x.id # h.id} \cup {h}
      /\ run'[w].findings = {x \in run[w].findings : x.id # f.id} \cup {f}
      /\ run'[w].report = run[w].report
      /\ \A v \in Workers \ {w} : run'[v] = run[v]
  BY DEF Analysed
<1>2. (\E v \in Workers : h.id = <<m, v>>) /\ (\E v \in Workers : f.id = <<m, v>>)
  BY <1>1 DEF Analysed, IsHash, IsFinding
<1>3. RunShape(w)
  BY DEF RowsInv
<1>4. \A x \in run[w].hashes : x.media # m /\ x.id # h.id
  BY <1>2, <1>3 DEF RunShape, IsHash
<1>5. \A x \in run[w].findings : x.media # m /\ x.id # f.id
  BY <1>2, <1>3 DEF RunShape, IsFinding
<1>6. run'[w].hashes = run[w].hashes \cup {h} /\ run'[w].findings = run[w].findings \cup {f}
  BY <1>1, <1>4, <1>5
<1>7. \A r : Running(r)' = Running(r)
  BY <1>1 DEF Running
<1>8. run[w].report = ReportOf[m]
  BY <1>3 DEF RunShape, Images
<1> QED BY <1>1, <1>4, <1>5, <1>6, <1>7, <1>8

LEMMA AnalysedRows ==
  ASSUME ForensicsAssumption, RowsInv, SingleInv, NEW w \in Workers, NEW m \in Media, m \in run[w].todo,
         NEW hash \in {Zero, HashOf(PictureOf[m])}, NEW matched, NEW h, NEW f, Analysed(w, m, hash, matched, h, f),
         UNCHANGED <<hashes, findings, overlapped>>
  PROVE  RowsInv' /\ SingleInv'
<1>1. /\ \A n \in Media \ {m} :
              /\ {x \in run'[w].hashes : x.media = n} = {x \in run[w].hashes : x.media = n}
              /\ {x \in run'[w].findings : x.media = n} = {x \in run[w].findings : x.media = n}
      /\ {x \in run'[w].hashes : x.media = m} = {h} /\ {x \in run'[w].findings : x.media = m} = {f}
      /\ \A r : Running(r)' = Running(r)
      /\ run[w].report = ReportOf[m]
  BY OwnRows
<1>2. /\ IsHash(h) /\ h.media = m /\ h.hash = hash
      /\ IsFinding(f) /\ f.media = m /\ f.matched = matched
      /\ run'[w] = [report |-> run[w].report, todo |-> run[w].todo \ {m},
                hashes |-> {x \in run[w].hashes : x.id # h.id} \cup {h},
                findings |-> {x \in run[w].findings : x.id # f.id} \cup {f}]
      /\ \A v \in Workers \ {w} : run'[v] = run[v]
      /\ DOMAIN run' = Workers /\ DOMAIN excuse' = Media
  BY DEF Analysed
<1>3. \A x : IsHash(x)' <=> IsHash(x)
  BY DEF IsHash
<1>4. \A x : IsFinding(x)' <=> IsFinding(x)
  BY DEF IsFinding, Evidenced
<1>5. ASSUME NEW v \in Workers  PROVE RunShape(v)'
  <2>1. RunShape(v)
    BY DEF RowsInv
  <2>2. CASE v # w
    <3>1. run'[v] = run[v]
      BY <1>2, <2>2
    <3> QED BY <2>1, <3>1, <1>3, <1>4 DEF RunShape
  <2>3. CASE v = w
    <3>1. /\ run'[w].report = run[w].report /\ run'[w].todo = run[w].todo \ {m}
          /\ run'[w].hashes = {x \in run[w].hashes : x.id # h.id} \cup {h}
          /\ run'[w].findings = {x \in run[w].findings : x.id # f.id} \cup {f}
      BY <1>2
    <3>2. run'[w] = [report |-> run'[w].report, todo |-> run'[w].todo, hashes |-> run'[w].hashes, findings |-> run'[w].findings]
      BY <1>2
    <3>3. run'[w].report \in Reports
      BY <1>1, <3>1 DEF ForensicsAssumption
    <3>4. run'[w].todo \subseteq Images(run'[w].report)
      BY <2>1, <2>3, <3>1 DEF RunShape
    <3>5. h.report = run'[w].report /\ f.report = run'[w].report
      BY <1>1, <1>2, <3>1 DEF IsHash, IsFinding
    <3>6. \A x \in run'[w].hashes : IsHash(x) /\ x.report = run'[w].report /\ x.media \notin run'[w].todo
      BY <1>2, <2>1, <2>3, <3>1, <3>5 DEF RunShape
    <3>7. \A x \in run'[w].findings : IsFinding(x) /\ x.report = run'[w].report /\ x.media \notin run'[w].todo
      BY <1>2, <2>1, <2>3, <3>1, <3>5 DEF RunShape
    <3>8. ASSUME NEW n \in Images(run'[w].report) \ run'[w].todo
          PROVE  (\E x \in run'[w].hashes : x.media = n) /\ \E x \in run'[w].findings : x.media = n
      <4>1. CASE n = m
        BY <4>1, <1>2, <3>1
      <4>2. CASE n # m
        <5>1. n \in Media \ {m} /\ n \in Images(run[w].report) \ run[w].todo
          BY <3>1, <4>2 DEF Images
        <5>2. (\E x \in run[w].hashes : x.media = n) /\ \E x \in run[w].findings : x.media = n
          BY <5>1, <2>1, <2>3 DEF RunShape
        <5> QED BY <5>1, <5>2, <1>1
      <4> QED BY <4>1, <4>2
    <3>9. NoReport \notin Reports
      BY DEF ForensicsAssumption
    <3> QED BY <2>3, <3>2, <3>3, <3>4, <3>6, <3>7, <3>8, <3>9, <1>3, <1>4 DEF RunShape, Images
  <2> QED BY <2>2, <2>3
<1>6. RowsInv'
  BY <1>2, <1>3, <1>4, <1>5 DEF RowsInv, IsDemo
<1>7. ASSUME NEW n \in Media, ReportOf[n] \notin overlapped
      PROVE  /\ \A u, v \in Running(ReportOf[n]) : u = v
             /\ \A v \in Running(ReportOf[n]) : OneRow(n, hashes, run'[v].hashes) /\ OneRow(n, findings, run'[v].findings)
             /\ OneRow(n, hashes, {}) /\ OneRow(n, findings, {})
  <2>1. /\ \A u, v \in Running(ReportOf[n]) : u = v
        /\ \A v \in Running(ReportOf[n]) : OneRow(n, hashes, run[v].hashes) /\ OneRow(n, findings, run[v].findings)
        /\ OneRow(n, hashes, {}) /\ OneRow(n, findings, {})
    BY <1>7 DEF SingleInv
  <2>2. ASSUME NEW v \in Running(ReportOf[n])
        PROVE  OneRow(n, hashes, run'[v].hashes) /\ OneRow(n, findings, run'[v].findings)
    <3>1. CASE v # w
      <4>1. run'[v] = run[v]
        BY <1>2, <3>1 DEF Running
      <4> QED BY <2>1, <4>1
    <3>2. CASE v = w /\ n # m
      <4>1. {x \in run'[w].hashes : x.media = n} = {x \in run[w].hashes : x.media = n}
        BY <1>1, <3>2
      <4>2. {x \in run'[w].findings : x.media = n} = {x \in run[w].findings : x.media = n}
        BY <1>1, <3>2
      <4>3. OneRow(n, hashes, run[w].hashes) /\ OneRow(n, findings, run[w].findings)
        BY <2>1, <3>2
      <4>4. OneRow(n, hashes, run'[w].hashes)
        BY <4>1, <4>3 DEF OneRow
      <4>5. OneRow(n, findings, run'[w].findings)
        BY <4>2, <4>3 DEF OneRow
      <4> QED BY <3>2, <4>4, <4>5
    <3>3. CASE v = w /\ n = m
      <4>1. \A y \in hashes : y.media = m => y.id = h.id
        <5>1. SUFFICES ASSUME NEW y \in hashes, y.media = m  PROVE y.id = h.id
          OBVIOUS
        <5>2. y \in SeesHashes(w)
          <6>1. \A x \in run[w].hashes : x.media # m
            BY DEF RowsInv, RunShape
          <6>2. IsHash(y) /\ \A x \in run[w].hashes : IsHash(x)
            BY DEF RowsInv, RunShape
          <6>3. \A x \in run[w].hashes : x.id # y.id
            BY <5>1, <6>1, <6>2 DEF IsHash
          <6> QED BY <6>3 DEF SeesHashes, Written
        <5>3. PICK z \in SeesHashes(w) : z.media = m /\ h.id = z.id
          BY <5>1, <5>2 DEF Analysed
        <5>4. z \in hashes
          BY <5>3 DEF SeesHashes, Written, RowsInv, RunShape
        <5> QED BY <5>1, <5>3, <5>4, <2>1, <3>3 DEF OneRow
      <4>2. \A y \in findings : y.media = m => y.id = f.id
        <5>1. SUFFICES ASSUME NEW y \in findings, y.media = m  PROVE y.id = f.id
          OBVIOUS
        <5>2. y \in SeesFindings(w)
          <6>1. \A x \in run[w].findings : x.media # m
            BY DEF RowsInv, RunShape
          <6>2. IsFinding(y) /\ \A x \in run[w].findings : IsFinding(x)
            BY <5>1 DEF RowsInv, RunShape, IsDemo
          <6>3. \A x \in run[w].findings : x.id # y.id
            BY <5>1, <6>1, <6>2 DEF IsFinding
          <6> QED BY <6>3 DEF SeesFindings, Written
        <5>3. PICK z \in SeesFindings(w) : z.media = m /\ f.id = z.id
          BY <5>1, <5>2 DEF Analysed
        <5>4. z \in findings
          BY <5>3 DEF SeesFindings, Written, RowsInv, RunShape
        <5> QED BY <5>1, <5>3, <5>4, <2>1, <3>3 DEF OneRow
      <4>3. OneRow(m, hashes, run'[w].hashes)
        BY <1>1, <2>1, <3>3, <4>1 DEF OneRow
      <4>4. OneRow(m, findings, run'[w].findings)
        BY <1>1, <2>1, <3>3, <4>2 DEF OneRow
      <4> QED BY <3>3, <4>3, <4>4
    <3> QED BY <3>1, <3>2, <3>3
  <2> QED BY <2>1, <2>2
<1>8. SingleInv'
  BY <1>1, <1>7 DEF SingleInv, OneRow
<1> QED BY <1>6, <1>8

LEMMA AnalysedNow ==
  ASSUME RowsInv, SingleInv, NEW w \in Workers, NEW m \in Media, m \in run[w].todo,
         NEW hash, NEW matched, NEW h, NEW f, Analysed(w, m, hash, matched, h, f),
         UNCHANGED <<hashes, findings>>
  PROVE  /\ \A n \in Media \ {m} : HashesNow(n)' = HashesNow(n) /\ FindingsNow(n)' = FindingsNow(n)
         /\ ReportOf[m] \notin overlapped => HashesNow(m)' = {h} /\ FindingsNow(m)' = {f}
<1>1. /\ \A n \in Media \ {m} :
              /\ {x \in run'[w].hashes : x.media = n} = {x \in run[w].hashes : x.media = n}
              /\ {x \in run'[w].findings : x.media = n} = {x \in run[w].findings : x.media = n}
      /\ {x \in run'[w].hashes : x.media = m} = {h} /\ {x \in run'[w].findings : x.media = m} = {f}
      /\ \A r : Running(r)' = Running(r)
      /\ run[w].report = ReportOf[m]
  BY OwnRows
<1>2. run'[w].todo = run[w].todo \ {m} /\ \A v \in Workers \ {w} : run'[v] = run[v]
  BY DEF Analysed
<1>3. ASSUME NEW n \in Media \ {m}
      PROVE  HashesNow(n)' = HashesNow(n) /\ FindingsNow(n)' = FindingsNow(n)
  <2>1. \A v \in Workers : (n \in run'[v].todo <=> n \in run[v].todo)
    BY <1>2
  <2>2. \A v \in Workers : /\ {x \in run'[v].hashes : x.media = n} = {x \in run[v].hashes : x.media = n}
                           /\ {x \in run'[v].findings : x.media = n} = {x \in run[v].findings : x.media = n}
    BY <1>1, <1>2
  <2>3. Running(ReportOf[n])' = Running(ReportOf[n]) /\ Running(ReportOf[n]) \subseteq Workers
    BY <1>1 DEF Running
  <2>4. HashesNow(n)' = HashesNow(n)
    BY <2>1, <2>2, <2>3 DEF HashesNow
  <2>5. FindingsNow(n)' = FindingsNow(n)
    BY <2>1, <2>2, <2>3 DEF FindingsNow
  <2> QED BY <2>4, <2>5
<1>4. ASSUME ReportOf[m] \notin overlapped
      PROVE  HashesNow(m)' = {h} /\ FindingsNow(m)' = {f}
  <2>1. Running(ReportOf[m]) = {w}
    BY <1>1, <1>4 DEF SingleInv, Running
  <2>2. Running(ReportOf[m])' = {w} /\ m \notin run'[w].todo
    BY <1>1, <1>2, <2>1
  <2>3. HashesNow(m)' = {h}
    BY <1>1, <2>2 DEF HashesNow
  <2>4. FindingsNow(m)' = {f}
    BY <1>1, <2>2 DEF FindingsNow
  <2> QED BY <2>3, <2>4
<1> QED BY <1>3, <1>4

\* A picture whose analysis has no excuse finds the uses that are committed,
\* and there is no other use.
LEMMA UseIsMatched ==
  ASSUME ForensicsAssumption, RowsInv, KnownInv, NEW w \in Workers, NEW a \in Media, NEW b \in Media,
         b \in run[w].todo, Alike(a, b), Plain(a), FindingsNow(a) # {},
         \A v \in Workers \ {w} : \A x \in run[v].hashes : ~Similar(HashOf(PictureOf[b]), x)
  PROVE  ReportOf[a] \in
           Reuse(ReportOf[b], {x \in Pruned(w, HashOf(PictureOf[b])) : Similar(HashOf(PictureOf[b]), x)}).matched
<1> DEFINE p == PictureOf[a]
           q == PictureOf[b]
           hash == HashOf(q)
<1>1. PICK x \in HashesNow(a) : x.hash = HashOf(p)
  BY DEF KnownInv
<1>2. run[w].report = ReportOf[b]
  BY DEF RowsInv, RunShape, Images
<1>3. x.media = a /\ (x \in hashes \/ \E v \in Running(ReportOf[a]) : x \in run[v].hashes)
  BY <1>1 DEF HashesNow
<1>4. IsHash(x) /\ x.report = ReportOf[a]
  BY <1>3 DEF RowsInv, RunShape, IsHash, Running
<1>5. /\ p \in Pictures \cup {Black} /\ q \in Pictures \cup {Black}
      /\ p = q \/ (p # Black /\ q # Black /\ p \in Near[q] /\ PrefixOf[p] = PrefixOf[q])
      /\ PlaceOf[ReportOf[a]] # PlaceOf[ReportOf[b]] /\ ReportOf[a] # ReportOf[b]
  BY DEF Alike, ForensicsAssumption
<1> HIDE DEF p, q
<1>6. Similar(hash, x) /\ (SameHash(hash, x) \/ PrefixOfHash(x.hash) = PrefixOfHash(hash))
  <2>1. CASE p = q
    BY <1>1, <2>1 DEF Similar, SameHash
  <2>2. CASE p # q
    <3>1. p \in Pictures /\ q \in Pictures /\ p \in Near[q] /\ PrefixOf[p] = PrefixOf[q]
      BY <1>5, <2>2
    <3>2. p \notin {Zero, Corrupt, Black} /\ q \notin {Zero, Corrupt, Black}
      BY <3>1 DEF ForensicsAssumption
    <3>3. x.hash = p /\ hash = q
      BY <1>1, <3>2 DEF HashOf
    <3> QED BY <3>1, <3>2, <3>3 DEF Similar, PrefixOfHash
  <2> QED BY <2>1, <2>2
<1>7. x \in hashes
  <2>1. ASSUME NEW v \in Running(ReportOf[a]), x \in run[v].hashes  PROVE FALSE
    <3>1. v \in Workers \ {w}
      BY <1>2, <1>5 DEF Running
    <3> QED BY <2>1, <3>1, <1>6 DEF q
  <2> QED BY <1>3, <2>1
<1>8. x \in SeesHashes(w)
  <2>1. ASSUME NEW y \in run[w].hashes  PROVE y.id # x.id
    <3>1. IsHash(y) /\ y.report = ReportOf[b]
      BY <1>2 DEF RowsInv, RunShape
    <3>2. y.media # x.media
      BY <3>1, <1>3, <1>5 DEF IsHash
    <3> QED BY <3>1, <3>2, <1>4 DEF IsHash
  <2> QED BY <1>7, <2>1 DEF SeesHashes, Written
<1>9. x \in {y \in Pruned(w, hash) : Similar(hash, y)}
  BY <1>6, <1>8 DEF Pruned
<1>10. Distant(ReportOf[b], x)
  BY <1>4, <1>5 DEF Distant
<1> QED BY <1>4, <1>9, <1>10 DEF Reuse, q

LEMMA AnalyseKeeps ==
  ASSUME ForensicsAssumption, ForensicsInv, NEW w \in Workers, NEW m \in Media, m \in run[w].todo,
         NEW picture \in {PictureOf[m], Corrupt}, NEW why, Analyse(w, m, picture, why),
         picture # PictureOf[m] => why # {},
         UNCHANGED <<hashes, findings, overlapped>>
  PROVE  ForensicsInv'
<1> DEFINE hash == HashOf(picture)
           Matched(candidates) == IF picture = Corrupt THEN {}
                ELSE Reuse(ReportOf[m], {x \in candidates : Similar(HashOf(picture), x)}).matched
<1>1. PICK candidates \in Lookups(w, hash) : \E h, f :
           /\ Analysed(w, m, hash, Matched(candidates), h, f)
           /\ excuse'[m] = {} =>
                /\ why = {} /\ candidates = Pruned(w, hash)
                /\ \A v \in Workers \ {w} : \A x \in run[v].hashes : ~Similar(hash, x)
  BY AnalyseDoes DEF ForensicsInv
<1> DEFINE matched == Matched(candidates)
<1>2. PICK h, f :
           /\ Analysed(w, m, hash, matched, h, f)
           /\ excuse'[m] = {} =>
                /\ why = {} /\ candidates = Pruned(w, hash)
                /\ \A v \in Workers \ {w} : \A x \in run[v].hashes : ~Similar(hash, x)
  BY <1>1
<1>3. hash \in {Zero, HashOf(PictureOf[m])}
  BY DEF HashOf
<1>4. excuse'[m] = {} =>
        /\ picture = PictureOf[m] /\ hash = HashOf(PictureOf[m])
        /\ PictureOf[m] # Corrupt => matched =
             Reuse(ReportOf[m], {x \in Pruned(w, HashOf(PictureOf[m])) : Similar(HashOf(PictureOf[m]), x)}).matched
        /\ \A v \in Workers \ {w} : \A x \in run[v].hashes : ~Similar(HashOf(PictureOf[m]), x)
  BY <1>2
<1> HIDE DEF hash, matched
<1>5. RowsInv' /\ SingleInv'
  BY <1>2, <1>3, AnalysedRows DEF ForensicsInv
<1>6. /\ \A n \in Media \ {m} : HashesNow(n)' = HashesNow(n) /\ FindingsNow(n)' = FindingsNow(n)
      /\ ReportOf[m] \notin overlapped => HashesNow(m)' = {h} /\ FindingsNow(m)' = {f}
  BY <1>2, AnalysedNow DEF ForensicsInv
<1>7. h.hash = hash /\ f.matched = matched /\ \A n \in Media \ {m} : excuse'[n] = excuse[n]
  BY <1>2 DEF Analysed
<1>8. \A n \in Media \ {m} : Plain(n)' <=> Plain(n)
  BY <1>7 DEF Plain
<1>9. Plain(m)' => ReportOf[m] \notin overlapped /\ excuse'[m] = {}
  BY DEF Plain
<1>10. KnownInv'
  <2>1. ASSUME NEW n \in Media, Plain(n)', FindingsNow(n)' # {}
        PROVE  \E x \in HashesNow(n)' : x.hash = HashOf(PictureOf[n])
    <3>1. CASE n = m
      BY <3>1, <2>1, <1>4, <1>6, <1>7, <1>9
    <3>2. CASE n # m
      BY <3>2, <2>1, <1>6, <1>8 DEF ForensicsInv, KnownInv
    <3> QED BY <3>1, <3>2
  <2> QED BY <2>1 DEF KnownInv
<1>11. ASSUME NEW a \in Media, Plain(m)', Plain(a), a # m, Alike(a, m) \/ Alike(m, a), FindingsNow(a) # {}
       PROVE  ReportOf[a] \in matched
  <2>1. Alike(a, m) /\ PictureOf[m] # Corrupt
    BY <1>11 DEF Alike, ForensicsAssumption
  <2>2. KnownInv /\ RowsInv
    BY DEF ForensicsInv
  <2> QED BY <1>4, <1>9, <1>11, <2>1, <2>2, UseIsMatched
<1>12. PairInv'
  <2>1. ASSUME NEW a \in Media, NEW b \in Media, Plain(a)', Plain(b)', Alike(a, b),
               NEW g \in FindingsNow(a)', NEW k \in FindingsNow(b)'
        PROVE  ReportOf[b] \in g.matched \/ ReportOf[a] \in k.matched
    <3>1. a # b
      BY <2>1 DEF Alike
    <3>2. CASE a # m /\ b # m
      BY <2>1, <3>2, <1>6, <1>8 DEF ForensicsInv, PairInv
    <3>3. CASE a = m
      <4>1. b # m /\ Plain(b) /\ FindingsNow(b) # {} /\ g = f
        BY <2>1, <3>1, <3>3, <1>6, <1>8, <1>9
      <4> QED BY <2>1, <3>3, <4>1, <1>7, <1>11
    <3>4. CASE b = m
      <4>1. a # m /\ Plain(a) /\ FindingsNow(a) # {} /\ k = f
        BY <2>1, <3>1, <3>4, <1>6, <1>8, <1>9
      <4> QED BY <2>1, <3>4, <4>1, <1>7, <1>11
    <3> QED BY <3>2, <3>3, <3>4
  <2>2. \A a, b : Alike(a, b)' <=> Alike(a, b)
    BY DEF Alike
  <2> QED BY <2>1, <2>2 DEF PairInv
<1> QED BY <1>5, <1>10, <1>12 DEF ForensicsInv

\* The rows of the last analysis are those of the running transactions and, of
\* images these have not reached, those of the database.
LEMMA NowOfSame ==
  ASSUME NEW n \in Media, Running(ReportOf[n])' = Running(ReportOf[n]),
         \A v \in Running(ReportOf[n]) : run'[v] = run[v],
         {x \in hashes' : x.media = n} = {x \in hashes : x.media = n},
         {x \in findings' : x.media = n} = {x \in findings : x.media = n}
  PROVE  HashesNow(n)' = HashesNow(n) /\ FindingsNow(n)' = FindingsNow(n)
<1>1. \A v \in Running(ReportOf[n]) : (n \in run'[v].todo) = (n \in run[v].todo)
  OBVIOUS
<1>2. HashesNow(n)' = HashesNow(n)
  <2>1. UNION {{x \in run'[v].hashes : x.media = n} : v \in Running(ReportOf[n])}
          = UNION {{x \in run[v].hashes : x.media = n} : v \in Running(ReportOf[n])}
    OBVIOUS
  <2> QED BY <1>1, <2>1 DEF HashesNow
<1>3. FindingsNow(n)' = FindingsNow(n)
  <2>1. UNION {{x \in run'[v].findings : x.media = n} : v \in Running(ReportOf[n])}
          = UNION {{x \in run[v].findings : x.media = n} : v \in Running(ReportOf[n])}
    OBVIOUS
  <2> QED BY <1>1, <2>1 DEF FindingsNow
<1> QED BY <1>2, <1>3

\* Rows that do not change, and excuses that stay, keep what is known.
LEMMA NowKeeps ==
  ASSUME KnownInv, PairInv,
         \A n \in Media : Plain(n)' => Plain(n) /\ HashesNow(n)' = HashesNow(n) /\ FindingsNow(n)' = FindingsNow(n)
  PROVE  KnownInv' /\ PairInv'
<1>1. KnownInv'
  BY DEF KnownInv
<1>2. \A a, b : Alike(a, b)' <=> Alike(a, b)
  BY DEF Alike
<1>3. PairInv'
  BY <1>2 DEF PairInv
<1> QED BY <1>1, <1>3

LEMMA RowShapesKept ==
  /\ \A x : IsHash(x)' <=> IsHash(x)
  /\ \A x : IsFinding(x)' <=> IsFinding(x)
  /\ \A x : IsDemo(x)' <=> IsDemo(x)
  /\ \A r : Images(r)' = Images(r)
  /\ \A n, C, O : OneRow(n, C, O)' <=> OneRow(n, C, O)
  BY DEF IsHash, IsFinding, Evidenced, IsDemo, Images, OneRow

LEMMA StartRunKeeps ==
  ASSUME ForensicsAssumption, ForensicsInv, NEW w \in Workers, NEW r \in Reports, StartRun(w, r)
  PROVE  ForensicsInv'
<1>1. /\ run[w] = Idle /\ run'[w] = [report |-> r, todo |-> Images(r), hashes |-> {}, findings |-> {}]
      /\ \A v \in Workers \ {w} : run'[v] = run[v]
      /\ DOMAIN run' = Workers
      /\ hashes' = hashes /\ findings' = findings /\ excuse' = excuse
      /\ overlapped \subseteq overlapped' /\ (r \notin overlapped' => Running(r) = {})
  BY DEF StartRun, Idle, ForensicsInv, RowsInv
<1>2. run[w].report = NoReport /\ NoReport \notin Reports /\ \A n \in Media : ReportOf[n] \in Reports
  BY <1>1 DEF Idle, ForensicsAssumption
<1>3. RowsInv'
  <2>1. \A v \in Workers : RunShape(v)'
    <3>1. RunShape(w)'
      BY <1>1, <1>2, RowShapesKept DEF RunShape
    <3>2. ASSUME NEW v \in Workers \ {w}  PROVE RunShape(v)'
      <4>1. RunShape(v) /\ run'[v] = run[v]
        BY <1>1 DEF ForensicsInv, RowsInv
      <4> QED BY <4>1, RowShapesKept DEF RunShape
    <3> QED BY <3>1, <3>2
  <2> QED BY <1>1, <2>1, RowShapesKept DEF ForensicsInv, RowsInv
<1>4. ASSUME NEW q \in Reports, q # r
      PROVE  Running(q)' = Running(q) /\ w \notin Running(q)
  BY <1>1, <1>2, <1>4 DEF Running
<1>5. r \notin overlapped' => Running(r)' = {w} /\ Running(r) = {}
  BY <1>1 DEF Running
<1>6. SingleInv'
  <2>1. SUFFICES ASSUME NEW n \in Media, ReportOf[n] \notin overlapped'
                 PROVE  /\ \A v, u \in Running(ReportOf[n])' : v = u
                        /\ \A v \in Running(ReportOf[n])' : OneRow(n, hashes, run'[v].hashes) /\ OneRow(n, findings, run'[v].findings)
                        /\ OneRow(n, hashes, {}) /\ OneRow(n, findings, {})
    BY <1>1, RowShapesKept DEF SingleInv
  <2>2. /\ \A v, u \in Running(ReportOf[n]) : v = u
        /\ \A v \in Running(ReportOf[n]) : OneRow(n, hashes, run[v].hashes) /\ OneRow(n, findings, run[v].findings)
        /\ OneRow(n, hashes, {}) /\ OneRow(n, findings, {})
    BY <1>1, <2>1 DEF ForensicsInv, SingleInv
  <2>3. CASE ReportOf[n] = r
    <3>1. run'[w].hashes = {} /\ run'[w].findings = {}
      BY <1>1
    <3> QED BY <1>5, <2>1, <2>2, <2>3, <3>1
  <2>4. CASE ReportOf[n] # r
    <3>1. Running(ReportOf[n])' = Running(ReportOf[n]) /\ \A v \in Running(ReportOf[n]) : run'[v] = run[v]
      BY <1>1, <1>2, <1>4, <2>4 DEF Running
    <3> QED BY <2>2, <3>1
  <2> QED BY <2>3, <2>4
<1>7. ASSUME NEW n \in Media, Plain(n)'
      PROVE  Plain(n) /\ HashesNow(n)' = HashesNow(n) /\ FindingsNow(n)' = FindingsNow(n)
  <2>1. Plain(n) /\ ReportOf[n] \notin overlapped'
    BY <1>1, <1>7 DEF Plain
  <2>2. CASE ReportOf[n] = r
    <3>1. Running(ReportOf[n])' = {w} /\ Running(ReportOf[n]) = {} /\ n \in run'[w].todo
          /\ run'[w].hashes = {} /\ run'[w].findings = {}
      BY <1>1, <1>5, <2>1, <2>2 DEF Images
    <3>2. HashesNow(n)' = HashesNow(n)
      BY <1>1, <3>1 DEF HashesNow
    <3>3. FindingsNow(n)' = FindingsNow(n)
      BY <1>1, <3>1 DEF FindingsNow
    <3> QED BY <2>1, <3>2, <3>3
  <2>3. CASE ReportOf[n] # r
    <3>1. Running(ReportOf[n])' = Running(ReportOf[n]) /\ \A v \in Running(ReportOf[n]) : run'[v] = run[v]
      BY <1>1, <1>2, <1>4, <2>3 DEF Running
    <3> QED BY <1>1, <2>1, <3>1, NowOfSame
  <2> QED BY <2>2, <2>3
<1>8. KnownInv' /\ PairInv'
  BY <1>7, NowKeeps DEF ForensicsInv
<1> QED BY <1>3, <1>6, <1>8 DEF ForensicsInv

\* A worker that has stopped.
LEMMA StoppedRuns ==
  ASSUME ForensicsAssumption, RowsInv, NEW w \in Workers, run' = [run EXCEPT ![w] = Idle]
  PROVE  /\ \A v \in Workers : RunShape(v)'
         /\ run'[w] = Idle /\ \A v \in Workers \ {w} : run'[v] = run[v]
         /\ DOMAIN run' = Workers
         /\ \A q \in Reports : Running(q)' = Running(q) \ {w}
<1>1. run'[w] = Idle /\ (\A v \in Workers \ {w} : run'[v] = run[v]) /\ DOMAIN run' = Workers
  BY DEF RowsInv
<1>2. Idle.report = NoReport /\ NoReport \notin Reports /\ Images(NoReport) = {}
  BY DEF Idle, ForensicsAssumption, Images
<1>3. RunShape(w)'
  BY <1>1, <1>2, RowShapesKept DEF RunShape, Idle
<1>4. ASSUME NEW v \in Workers \ {w}  PROVE RunShape(v)'
  <2>1. RunShape(v) /\ run'[v] = run[v]
    BY <1>1 DEF RowsInv
  <2> QED BY <2>1, RowShapesKept DEF RunShape
<1>5. \A q \in Reports : Running(q)' = Running(q) \ {w}
  BY <1>1, <1>2 DEF Running
<1> QED BY <1>1, <1>3, <1>4, <1>5

LEMMA RollbackKeeps ==
  ASSUME ForensicsAssumption, ForensicsInv, NEW w \in Workers, Rollback(w)
  PROVE  ForensicsInv'
<1>1. /\ \A v \in Workers : RunShape(v)'
      /\ run'[w] = Idle /\ \A v \in Workers \ {w} : run'[v] = run[v]
      /\ DOMAIN run' = Workers
      /\ \A q \in Reports : Running(q)' = Running(q) \ {w}
  BY StoppedRuns DEF Rollback, ForensicsInv
<1>2. /\ hashes' = hashes /\ findings' = findings /\ overlapped' = overlapped
      /\ DOMAIN excuse' = Media
      /\ \A n \in Media : /\ ReportOf[n] = run[w].report => excuse'[n] # {}
                          /\ ReportOf[n] # run[w].report => excuse'[n] = excuse[n]
  BY DEF Rollback, ForensicsInv, RowsInv
<1>3. \A n \in Media : ReportOf[n] \in Reports
  BY DEF ForensicsAssumption
<1>4. RowsInv'
  BY <1>1, <1>2, RowShapesKept DEF ForensicsInv, RowsInv
<1>5. SingleInv'
  <2>1. ASSUME NEW n \in Media, ReportOf[n] \notin overlapped
        PROVE  /\ \A v, u \in Running(ReportOf[n])' : v = u
               /\ \A v \in Running(ReportOf[n])' : OneRow(n, hashes, run'[v].hashes) /\ OneRow(n, findings, run'[v].findings)
               /\ OneRow(n, hashes, {}) /\ OneRow(n, findings, {})
    <3>1. \A v \in Running(ReportOf[n])' : v \in Running(ReportOf[n]) /\ run'[v] = run[v]
      BY <1>1, <1>3 DEF Running
    <3> QED BY <2>1, <3>1 DEF ForensicsInv, SingleInv
  <2> QED BY <1>2, <2>1, RowShapesKept DEF SingleInv
<1>6. ASSUME NEW n \in Media, Plain(n)'
      PROVE  Plain(n) /\ HashesNow(n)' = HashesNow(n) /\ FindingsNow(n)' = FindingsNow(n)
  <2>1. ReportOf[n] # run[w].report /\ Plain(n)
    BY <1>2, <1>6 DEF Plain
  <2>2. Running(ReportOf[n])' = Running(ReportOf[n]) /\ \A v \in Running(ReportOf[n]) : run'[v] = run[v]
    BY <1>1, <1>3, <2>1 DEF Running
  <2> QED BY <1>2, <2>1, <2>2, NowOfSame
<1>7. KnownInv' /\ PairInv'
  BY <1>6, NowKeeps DEF ForensicsInv
<1> QED BY <1>4, <1>5, <1>7 DEF ForensicsInv

\* A commit keeps the rows of other reports' images, and of the transaction's
\* images leaves the transaction's rows alone.
LEMMA CommittedRows ==
  ASSUME RowsInv, NEW w \in Workers, run[w] # Idle, run[w].todo = {}
  PROVE  /\ \A n \in Media : ReportOf[n] # run[w].report =>
              /\ {x \in Written(w, hashes, run[w].hashes) : x.media = n} = {x \in hashes : x.media = n}
              /\ {x \in Written(w, findings, run[w].findings) : x.media = n} = {x \in findings : x.media = n}
         /\ \A n \in Media : ReportOf[n] = run[w].report =>
              /\ OneRow(n, hashes, run[w].hashes) =>
                   {x \in Written(w, hashes, run[w].hashes) : x.media = n} = {x \in run[w].hashes : x.media = n}
              /\ OneRow(n, findings, run[w].findings) =>
                   {x \in Written(w, findings, run[w].findings) : x.media = n} = {x \in run[w].findings : x.media = n}
<1>1. /\ \A x \in run[w].hashes : IsHash(x) /\ x.report = run[w].report
      /\ \A x \in run[w].findings : IsFinding(x) /\ x.report = run[w].report
      /\ \A x \in hashes : IsHash(x)
      /\ \A x \in findings : x.media \in Media => IsFinding(x)
  BY DEF RowsInv, RunShape, IsDemo
<1>2. ASSUME NEW n \in Media, ReportOf[n] # run[w].report
      PROVE  /\ {x \in Written(w, hashes, run[w].hashes) : x.media = n} = {x \in hashes : x.media = n}
             /\ {x \in Written(w, findings, run[w].findings) : x.media = n} = {x \in findings : x.media = n}
  <2>1. \A x \in hashes, y \in run[w].hashes : x.media = n => y.media # n /\ y.id # x.id
    BY <1>1, <1>2 DEF IsHash
  <2>2. \A x \in findings, y \in run[w].findings : x.media = n => y.media # n /\ y.id # x.id
    BY <1>1, <1>2 DEF IsFinding
  <2>3. (\A y \in run[w].hashes : y.media # n) /\ (\A y \in run[w].findings : y.media # n)
    BY <1>1, <1>2 DEF IsHash, IsFinding
  <2>4. {x \in Written(w, hashes, run[w].hashes) : x.media = n} = {x \in hashes : x.media = n}
    BY <2>1, <2>3 DEF Written
  <2>5. {x \in Written(w, findings, run[w].findings) : x.media = n} = {x \in findings : x.media = n}
    BY <2>2, <2>3 DEF Written
  <2> QED BY <2>4, <2>5
<1>3. ASSUME NEW n \in Media, ReportOf[n] = run[w].report
      PROVE  /\ \E x \in run[w].hashes : x.media = n
             /\ \E x \in run[w].findings : x.media = n
  BY <1>3 DEF RowsInv, RunShape, Images
<1>4. ASSUME NEW n \in Media, ReportOf[n] = run[w].report, OneRow(n, hashes, run[w].hashes)
      PROVE  {x \in Written(w, hashes, run[w].hashes) : x.media = n} = {x \in run[w].hashes : x.media = n}
  BY <1>3, <1>4 DEF OneRow, Written
<1>5. ASSUME NEW n \in Media, ReportOf[n] = run[w].report, OneRow(n, findings, run[w].findings)
      PROVE  {x \in Written(w, findings, run[w].findings) : x.media = n} = {x \in run[w].findings : x.media = n}
  BY <1>3, <1>5 DEF OneRow, Written
<1> QED BY <1>2, <1>4, <1>5

LEMMA CommitKeepsFindings ==
  ASSUME ForensicsAssumption, ForensicsInv, NEW w \in Workers, Commit(w)
  PROVE  ForensicsInv'
<1>1. /\ \A v \in Workers : RunShape(v)'
      /\ run'[w] = Idle /\ \A v \in Workers \ {w} : run'[v] = run[v]
      /\ DOMAIN run' = Workers
      /\ \A q \in Reports : Running(q)' = Running(q) \ {w}
  BY StoppedRuns DEF Commit, ForensicsInv
<1>2. /\ hashes' = Written(w, hashes, run[w].hashes) /\ findings' = Written(w, findings, run[w].findings)
      /\ excuse' = excuse /\ overlapped' = overlapped /\ run[w] # Idle /\ run[w].todo = {}
  BY DEF Commit
<1>3. \A n \in Media : ReportOf[n] \in Reports
  BY DEF ForensicsAssumption
<1>4. RowsInv'
  <2>1. /\ \A x \in hashes' : IsHash(x)
        /\ \A f \in findings' : IsDemo(f) \/ IsFinding(f)
    BY <1>2 DEF ForensicsInv, RowsInv, RunShape, Written
  <2> QED BY <1>1, <1>2, <2>1, RowShapesKept DEF ForensicsInv, RowsInv
<1>5. /\ \A n \in Media : ReportOf[n] # run[w].report =>
              /\ {x \in hashes' : x.media = n} = {x \in hashes : x.media = n}
              /\ {x \in findings' : x.media = n} = {x \in findings : x.media = n}
      /\ \A n \in Media : ReportOf[n] = run[w].report /\ ReportOf[n] \notin overlapped =>
              /\ {x \in hashes' : x.media = n} = {x \in run[w].hashes : x.media = n}
              /\ {x \in findings' : x.media = n} = {x \in run[w].findings : x.media = n}
  <2>1. \A n \in Media : ReportOf[n] = run[w].report /\ ReportOf[n] \notin overlapped =>
          OneRow(n, hashes, run[w].hashes) /\ OneRow(n, findings, run[w].findings)
    BY DEF ForensicsInv, SingleInv, Running
  <2> QED BY <1>2, <2>1, CommittedRows DEF ForensicsInv
<1>6. \A n \in Media : ReportOf[n] # run[w].report =>
        Running(ReportOf[n])' = Running(ReportOf[n]) /\ \A v \in Running(ReportOf[n]) : run'[v] = run[v]
  BY <1>1, <1>3 DEF Running
<1>7. \A n \in Media : ReportOf[n] = run[w].report /\ ReportOf[n] \notin overlapped =>
        Running(ReportOf[n]) = {w} /\ Running(ReportOf[n])' = {}
  <2>1. \A n \in Media : ReportOf[n] = run[w].report /\ ReportOf[n] \notin overlapped => Running(ReportOf[n]) = {w}
    BY DEF ForensicsInv, SingleInv, Running
  <2> QED BY <1>1, <1>3, <2>1
<1>8. SingleInv'
  <2>1. SUFFICES ASSUME NEW n \in Media, ReportOf[n] \notin overlapped
                 PROVE  /\ \A v, u \in Running(ReportOf[n])' : v = u
                        /\ \A v \in Running(ReportOf[n])' : OneRow(n, hashes', run'[v].hashes) /\ OneRow(n, findings', run'[v].findings)
                        /\ OneRow(n, hashes', {}) /\ OneRow(n, findings', {})
    BY <1>2, RowShapesKept DEF SingleInv
  <2>2. /\ \A v, u \in Running(ReportOf[n]) : v = u
        /\ \A v \in Running(ReportOf[n]) : OneRow(n, hashes, run[v].hashes) /\ OneRow(n, findings, run[v].findings)
        /\ OneRow(n, hashes, {}) /\ OneRow(n, findings, {})
    BY <2>1 DEF ForensicsInv, SingleInv
  <2>3. CASE ReportOf[n] = run[w].report
    <3>1. w \in Running(ReportOf[n]) /\ Running(ReportOf[n])' = {}
      BY <1>7, <2>1, <2>3 DEF Running
    <3>2. OneRow(n, hashes', {})
      BY <1>5, <2>1, <2>2, <2>3, <3>1 DEF OneRow
    <3>3. OneRow(n, findings', {})
      BY <1>5, <2>1, <2>2, <2>3, <3>1 DEF OneRow
    <3> QED BY <3>1, <3>2, <3>3
  <2>4. CASE ReportOf[n] # run[w].report
    <3>1. {x \in hashes' : x.media = n} = {x \in hashes : x.media = n}
          /\ {x \in findings' : x.media = n} = {x \in findings : x.media = n}
      BY <1>5, <2>4
    <3>2. \A own : (OneRow(n, hashes, own) => OneRow(n, hashes', own)) /\ (OneRow(n, findings, own) => OneRow(n, findings', own))
      BY <3>1 DEF OneRow
    <3>3. Running(ReportOf[n])' = Running(ReportOf[n]) /\ \A v \in Running(ReportOf[n]) : run'[v] = run[v]
      BY <1>6, <2>4
    <3> QED BY <2>2, <3>2, <3>3
  <2> QED BY <2>3, <2>4
<1>9. ASSUME NEW n \in Media, Plain(n)'
      PROVE  Plain(n) /\ HashesNow(n)' = HashesNow(n) /\ FindingsNow(n)' = FindingsNow(n)
  <2>1. Plain(n) /\ ReportOf[n] \notin overlapped
    BY <1>2, <1>9 DEF Plain
  <2>2. CASE ReportOf[n] # run[w].report
    BY <1>5, <1>6, <2>1, <2>2, NowOfSame
  <2>3. CASE ReportOf[n] = run[w].report
    <3>1. Running(ReportOf[n]) = {w} /\ Running(ReportOf[n])' = {} /\ n \notin run[w].todo
      BY <1>2, <1>7, <2>1, <2>3
    <3>2. HashesNow(n)' = {x \in hashes' : x.media = n} /\ HashesNow(n) = {x \in run[w].hashes : x.media = n}
      BY <3>1 DEF HashesNow
    <3>3. FindingsNow(n)' = {x \in findings' : x.media = n} /\ FindingsNow(n) = {x \in run[w].findings : x.media = n}
      BY <3>1 DEF FindingsNow
    <3> QED BY <1>5, <2>1, <2>3, <3>2, <3>3
  <2> QED BY <2>2, <2>3
<1>10. KnownInv' /\ PairInv'
  BY <1>9, NowKeeps DEF ForensicsInv
<1> QED BY <1>4, <1>8, <1>10 DEF ForensicsInv

LEMMA DemoKeeps ==
  ASSUME ForensicsAssumption, ForensicsInv, NEW r \in Reports, NEW s, Demo(r, s)
  PROVE  ForensicsInv'
<1> DEFINE demo == [id |-> <<MadeUp, faults>>, media |-> MadeUp, report |-> r, at |-> now,
                    checks |-> DemoChecks(s),
                    matched |-> IF s = "REUSED_IMAGE" THEN Reports \ {r} ELSE {},
                    overall |-> IF s = "NO_EXIF" THEN "NEUTRAL" ELSE "CONTRADICTS", simulated |-> TRUE]
<1>0. findings' = findings \cup {demo} /\ IsDemo(demo)
  BY DEF Demo, IsDemo, ForensicsAssumption
<1>1. PICK f : findings' = findings \cup {f} /\ IsDemo(f)
  BY <1>0
<1>2. run' = run /\ hashes' = hashes /\ excuse' = excuse /\ overlapped' = overlapped
  BY DEF Demo
<1>3. RowsInv'
  <2>1. \A v \in Workers : RunShape(v)'
    BY <1>2, RowShapesKept DEF ForensicsInv, RowsInv, RunShape
  <2> QED BY <1>1, <1>2, <2>1, RowShapesKept DEF ForensicsInv, RowsInv
<1>4. \A q : Running(q)' = Running(q)
  BY <1>2 DEF Running
<1>5. \A n \in Media : {x \in findings' : x.media = n} = {x \in findings : x.media = n}
  BY <1>1 DEF IsDemo
<1>6. SingleInv'
  <2>1. \A n \in Media : \A own : OneRow(n, findings, own) => OneRow(n, findings', own)
    BY <1>5 DEF OneRow
  <2> QED BY <1>2, <1>4, <2>1, RowShapesKept DEF ForensicsInv, SingleInv
<1>7. \A n \in Media : Plain(n)' => Plain(n) /\ HashesNow(n)' = HashesNow(n) /\ FindingsNow(n)' = FindingsNow(n)
  BY <1>2, <1>4, <1>5, NowOfSame DEF Plain
<1> QED BY <1>3, <1>6, <1>7, NowKeeps DEF ForensicsInv

LEMMA ForensicsStep ==
  ASSUME ForensicsAssumption, ForensicsInv, [ForensicsNext]_forensicsVars
  PROVE  ForensicsInv'
<1>1. ASSUME NEW w \in Workers, NEW m \in Media, Process(w, m)  PROVE ForensicsInv'
  BY <1>1, AnalyseKeeps DEF Process
<1>2. ASSUME NEW w \in Workers, NEW m \in Media, FetchFails(w, m)  PROVE ForensicsInv'
  BY <1>2, AnalyseKeeps DEF FetchFails
<1>3. ASSUME UNCHANGED <<run, hashes, findings, excuse, overlapped>>  PROVE ForensicsInv'
  <2>1. RowsInv'
    <3>1. \A v \in Workers : RunShape(v)'
      BY <1>3, RowShapesKept DEF ForensicsInv, RowsInv, RunShape
    <3> QED BY <1>3, <3>1, RowShapesKept DEF ForensicsInv, RowsInv
  <2>2. \A q : Running(q)' = Running(q)
    BY <1>3 DEF Running
  <2>3. SingleInv'
    BY <1>3, <2>2, RowShapesKept DEF ForensicsInv, SingleInv
  <2>4. \A n \in Media : Plain(n)' => Plain(n) /\ HashesNow(n)' = HashesNow(n) /\ FindingsNow(n)' = FindingsNow(n)
    BY <1>3, <2>2, NowOfSame DEF Plain
  <2> QED BY <2>1, <2>3, <2>4, NowKeeps DEF ForensicsInv
<1>4. Day \/ UNCHANGED forensicsVars => UNCHANGED <<run, hashes, findings, excuse, overlapped>>
  BY DEF Day, forensicsVars
<1> QED BY <1>1, <1>2, <1>3, <1>4, StartRunKeeps, CommitKeepsFindings, RollbackKeeps, DemoKeeps DEF ForensicsNext

\* Two far uses of one picture that were analysed without an excuse are named
\* by one of the findings, and a finding accuses only reports that have the
\* picture or one like it, or holds a black picture against them.
THEOREM ReuseIsFoundOnEvidence ==
  ASSUME ForensicsAssumption
  PROVE  ForensicsSpec => []ReuseIsJudged
<1>1. ASSUME ForensicsInv  PROVE ReuseIsJudged
  <2>1. \A f \in Real : f \in findings /\ IsFinding(f)
    BY <1>1 DEF Real, ForensicsInv, RowsInv, IsDemo
  <2>2. AccusedOnEvidence
    BY <2>1 DEF AccusedOnEvidence, IsFinding, Evidenced
  <2>3. ReuseIsFound
    <3>1. SUFFICES ASSUME NEW f \in Real, NEW g \in Real, Alike(f.media, g.media),
                          excuse[f.media] = {}, excuse[g.media] = {},
                          \A w \in Workers : run[w].report \notin {f.report, g.report},
                          {f.report, g.report} \cap overlapped = {}
                   PROVE  g.report \in f.matched \/ f.report \in g.matched
      BY <2>1 DEF ReuseIsFound, Alike, IsFinding
    <3>2. /\ f.media \in Media /\ f.report = ReportOf[f.media] /\ g.media \in Media /\ g.report = ReportOf[g.media]
      BY <2>1 DEF IsFinding
    <3>3. Plain(f.media) /\ Plain(g.media) /\ Running(f.report) = {} /\ Running(g.report) = {}
      BY <3>1, <3>2 DEF Plain, Running
    <3>4. f \in FindingsNow(f.media) /\ g \in FindingsNow(g.media)
      BY <2>1, <3>2, <3>3 DEF FindingsNow
    <3> QED BY <1>1, <3>1, <3>2, <3>3, <3>4 DEF ForensicsInv, PairInv
  <2> QED BY <2>2, <2>3 DEF ReuseIsJudged
<1> QED BY <1>1, ForensicsStart, ForensicsStep, PTL DEF ForensicsSpec
=============================================================================
