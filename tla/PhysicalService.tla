--------------------------- MODULE PhysicalService ---------------------------
(***************************************************************************)
(* Corroboration of incidents with physical observations: the single-      *)
(* flight cache of grid cells and hours (providers/cache.py), the retries  *)
(* of a provider (providers/base.py, open_meteo.py, fixture_provider.py)   *)
(* and the rows the service keeps (service.py).                            *)
(*                                                                         *)
(* A cell is a square of 0.25 degrees in one hour. asyncio.Lock is never   *)
(* held across an await, so looking for a flight and joining it is one     *)
(* step. Cancelling a task cancels the future it waits on.                 *)
(***************************************************************************)
EXTENDS Physical

CONSTANTS
  Incidents,
  CategoryOf, CellOf,   \* of each incident
  WeatherOf,            \* of each incident: the values at its place and hour
  Apart,                \* km between two incidents of a cell
  MaxAttempts,          \* attempts of a provider at one fetch
  MaxFlights,           \* bound: fetches
  MaxCancels,           \* bound: cancelled tasks
  MaxExpiries           \* bound: times an entry outlives its hour

Nobody == "nobody"

PhysicalAssumption ==
  /\ \A i \in Incidents : CategoryOf[i] \in Categories
  /\ Nobody \notin Incidents /\ Apart \in Nat
  /\ MaxAttempts \in Nat \ {0} /\ MaxFlights \in Nat /\ MaxCancels \in Nat /\ MaxExpiries \in Nat

Cells == {CellOf[i] : i \in Incidents}
Flights == 1 .. MaxFlights

\* NO_DATA, PROVIDER_RATE_LIMITED and MALFORMED_DATA are not tried again,
\* PROVIDER_ERROR and TIMEOUT are: one of each kind stands for the others.
Definitive == "PROVIDER_RATE_LIMITED"
Transient == "TIMEOUT"

VARIABLES
  provider,  \* "OPEN_METEO", or "DEMO_FIXTURE" for demonstrations
  cached,    \* of a cell: the incident its observation was made for, or Nobody
  flight,    \* of a cell: the future of the fetch in flight, or 0
  future,    \* of a future: "pending", "cancelled" or its result
  pc,        \* "idle", "lead", "follow", "have", "done" or "cancelled"
  mine,      \* the future of a task that leads or follows
  attempt,   \* failed attempts of a leader
  got,       \* the result a task has to evaluate
  rows,      \* the rows of each incident: a function from keys to verdicts
  used,      \* futures created
  orphans,   \* history: futures whose leader was cancelled
  cancels, expiries

physicalVars == <<provider, cached, flight, future, pc, mine, attempt, got, rows, used, orphans, cancels, expiries>>

Result(status, incident) == [status |-> status, of |-> incident]

PhysicalInit ==
  /\ provider \in {"OPEN_METEO", "DEMO_FIXTURE"}
  /\ cached = [c \in Cells |-> Nobody]
  /\ flight = [c \in Cells |-> 0]
  /\ future = [f \in Flights |-> Result("pending", Nobody)]
  /\ pc = [i \in Incidents |-> "idle"]
  /\ mine = [i \in Incidents |-> 0]
  /\ attempt = [i \in Incidents |-> 0]
  /\ got = [i \in Incidents |-> Result("pending", Nobody)]
  /\ rows = [i \in Incidents |-> <<>>]
  /\ used = 0 /\ orphans = {} /\ cancels = 0 /\ expiries = 0

------------------------------------------------------------------------------
(* The providers *)

\* The variables Open-Meteo is asked for.
OpenMeteoVariables ==
  {"rainfall_1h", "temperature", "max_temperature", "wind_speed", "wind_gusts", "visibility",
   "pressure", "humidity"}

\* The grid point next to the incident in the nearest hour.
OpenMeteo(i) ==
  [station |-> FALSE, distance |-> 2, gap |-> 5,
   read |-> [v \in DOMAIN WeatherOf[i] \cap OpenMeteoVariables |-> WeatherOf[i][v]]]

\* The station of the fixture says what its scenario for the category says.
Fixture(category) ==
  LET station(read) == [station |-> TRUE, distance |-> 1, gap |-> 0, read |-> read]
  IN  CASE category \in {"HEAVY_RAINFALL", "CYCLONE_STORM", "URBAN_FLOOD", "FLOOD_WATERLOGGING"} ->
             station([rainfall_1h |-> 785, rainfall_24h |-> 1420, wind_speed |-> 820, temperature |-> 275])
        [] category \in {"STRONG_WIND", "HEATWAVE", "HAILSTORM"} ->
             station([rainfall_1h |-> 0, rainfall_24h |-> 0, wind_speed |-> 50, wind_gusts |-> 80,
                      temperature |-> 210, max_temperature |-> 230])
        [] OTHER -> NoObservation

Observation(i) == IF provider = "OPEN_METEO" THEN OpenMeteo(i) ELSE Fixture(CategoryOf[i])

------------------------------------------------------------------------------
(* get_or_fetch *)

Hit(i) ==
  /\ pc[i] \in {"idle", "done"} /\ cached[CellOf[i]] # Nobody
  /\ pc' = [pc EXCEPT ![i] = "have"]
  /\ got' = [got EXCEPT ![i] = Result("OK", cached[CellOf[i]])]
  /\ UNCHANGED <<provider, cached, flight, future, mine, attempt, rows, used, orphans, cancels, expiries>>

Miss(i) == pc[i] \in {"idle", "done"} /\ cached[CellOf[i]] = Nobody

Follow(i) ==
  /\ Miss(i) /\ flight[CellOf[i]] # 0
  /\ pc' = [pc EXCEPT ![i] = "follow"]
  /\ mine' = [mine EXCEPT ![i] = flight[CellOf[i]]]
  /\ UNCHANGED <<provider, cached, flight, future, attempt, got, rows, used, orphans, cancels, expiries>>

StartFlight(i) ==
  /\ used < MaxFlights
  /\ used' = used + 1
  /\ pc' = [pc EXCEPT ![i] = "lead"]
  /\ mine' = [mine EXCEPT ![i] = used + 1]
  /\ flight' = [flight EXCEPT ![CellOf[i]] = used + 1]
  /\ attempt' = [attempt EXCEPT ![i] = 0]
  /\ UNCHANGED <<provider, cached, future, got, rows, orphans, cancels, expiries>>

\* Mutant of Lead: the flights are not looked at.
LeadAnyway(i) == Miss(i) /\ StartFlight(i)

Lead(i) == Miss(i) /\ flight[CellOf[i]] = 0 /\ StartFlight(i)

\* Mutant of Settle: the future is left to the garbage collector.
SettleQuietly(i, result) ==
  /\ future' = future
  /\ pc' = [pc EXCEPT ![i] = "have"]
  /\ got' = [got EXCEPT ![i] = result]

\* The leader publishes its result. Its future may have been cancelled under
\* it: set_result raises, twice, and the leader's caller gets the exception.
Settle(i, result) ==
  IF future[mine[i]].status = "cancelled"
    THEN /\ pc' = [pc EXCEPT ![i] = "done"] /\ UNCHANGED <<future, got>>
    ELSE /\ future' = [future EXCEPT ![mine[i]] = result]
         /\ pc' = [pc EXCEPT ![i] = "have"]
         /\ got' = [got EXCEPT ![i] = result]

Land(i) ==
  /\ flight' = [flight EXCEPT ![CellOf[i]] = 0]
  /\ attempt' = [attempt EXCEPT ![i] = 0]

\* The provider answers; only an observation is cached.
Observed(i) ==
  /\ pc[i] = "lead" /\ Observation(i) # NoObservation
  /\ cached' = [cached EXCEPT ![CellOf[i]] = i]
  /\ Settle(i, Result("OK", i)) /\ Land(i)
  /\ UNCHANGED <<provider, mine, rows, used, orphans, cancels, expiries>>

\* The statuses a provider does not try again for.
Refused(i) ==
  /\ pc[i] = "lead"
  /\ Settle(i, Result(Definitive, Nobody))
  /\ Land(i)
  /\ UNCHANGED <<provider, cached, mine, rows, used, orphans, cancels, expiries>>

Retry(i) ==
  /\ pc[i] = "lead" /\ attempt[i] + 1 < MaxAttempts
  /\ attempt' = [attempt EXCEPT ![i] = @ + 1]
  /\ UNCHANGED <<provider, cached, flight, future, pc, mine, got, rows, used, orphans, cancels, expiries>>

GiveUp(i) ==
  /\ pc[i] = "lead" /\ attempt[i] + 1 = MaxAttempts
  /\ Settle(i, Result(Transient, Nobody))
  /\ Land(i)
  /\ UNCHANGED <<provider, cached, mine, rows, used, orphans, cancels, expiries>>

\* A follower is resumed once its future is settled or cancelled; it raises
\* CancelledError in the second case.
Wake(i) ==
  /\ pc[i] = "follow" /\ future[mine[i]].status # "pending"
  /\ IF future[mine[i]].status = "cancelled"
       THEN pc' = [pc EXCEPT ![i] = "cancelled"] /\ UNCHANGED got
       ELSE pc' = [pc EXCEPT ![i] = "have"] /\ got' = [got EXCEPT ![i] = future[mine[i]]]
  /\ UNCHANGED <<provider, cached, flight, future, mine, attempt, rows, used, orphans, cancels, expiries>>

\* CancelledError is no Exception: the handler that settles the future does
\* not run, the flight is taken off the map.
CancelLeader(i) ==
  /\ pc[i] = "lead" /\ cancels < MaxCancels
  /\ cancels' = cancels + 1
  /\ pc' = [pc EXCEPT ![i] = "cancelled"]
  /\ orphans' = orphans \cup {mine[i]}
  /\ Land(i)
  /\ UNCHANGED <<provider, cached, future, mine, got, rows, used, expiries>>

CancelFollower(i) ==
  /\ pc[i] = "follow" /\ cancels < MaxCancels
  /\ cancels' = cancels + 1
  /\ pc' = [pc EXCEPT ![i] = "cancelled"]
  /\ future' = [future EXCEPT ![mine[i]].status = IF @ = "pending" THEN "cancelled" ELSE @]
  /\ UNCHANGED <<provider, cached, flight, mine, attempt, got, rows, used, orphans, expiries>>

Expire(c) ==
  /\ cached[c] # Nobody /\ expiries < MaxExpiries
  /\ expiries' = expiries + 1
  /\ cached' = [cached EXCEPT ![c] = Nobody]
  /\ UNCHANGED <<provider, flight, future, pc, mine, attempt, got, rows, used, orphans, cancels>>

------------------------------------------------------------------------------
(* corroborate_incident *)

\* The observation a result carries, as seen from incident i.
Seen(i, result) ==
  IF result.status # "OK" THEN NoObservation
  ELSE IF result.of = i THEN Observation(i)
  ELSE [Observation(result.of) EXCEPT !.distance = Apart]

\* The verdict with the provider's own status where it failed.
Judged(i, result) ==
  LET verdict == Evaluate(CategoryOf[i], Seen(i, result))
  IN  IF result.status = "OK" THEN verdict ELSE [verdict EXCEPT !.status = result.status]

\* One row per variable, source and time of observation; the time is the
\* incident's own when there is no observation.
RowKey(i, result) == <<Judged(i, result).variable, result.of>>

Persist(i) ==
  /\ pc[i] = "have"
  /\ rows' = [rows EXCEPT ![i] =
       [k \in DOMAIN @ \cup {RowKey(i, got[i])} |->
          IF k = RowKey(i, got[i]) THEN Judged(i, got[i]) ELSE @[k]]]
  /\ pc' = [pc EXCEPT ![i] = "done"]
  /\ got' = [got EXCEPT ![i] = Result("pending", Nobody)]
  /\ mine' = [mine EXCEPT ![i] = 0]
  /\ UNCHANGED <<provider, cached, flight, future, attempt, used, orphans, cancels, expiries>>

PhysicalNext ==
  \/ \E i \in Incidents :
       \/ Hit(i) \/ Follow(i) \/ Lead(i) \/ Observed(i) \/ Refused(i) \/ Retry(i) \/ GiveUp(i)
       \/ Wake(i) \/ CancelLeader(i) \/ CancelFollower(i) \/ Persist(i)
  \/ \E c \in Cells : Expire(c)

\* wait_for bounds every attempt and the event loop resumes settled tasks.
Fairness ==
  \A i \in Incidents :
    /\ WF_physicalVars(Observed(i) \/ Refused(i) \/ Retry(i) \/ GiveUp(i))
    /\ WF_physicalVars(Wake(i))

PhysicalSpec == PhysicalInit /\ [][PhysicalNext]_physicalVars /\ Fairness

------------------------------------------------------------------------------
(* Properties *)

Results == [status : {"pending", "cancelled", "OK", Definitive, Transient}, of : Incidents \cup {Nobody}]

TypeOK ==
  /\ provider \in {"OPEN_METEO", "DEMO_FIXTURE"}
  /\ cached \in [Cells -> Incidents \cup {Nobody}]
  /\ flight \in [Cells -> Flights \cup {0}]
  /\ future \in [Flights -> Results]
  /\ pc \in [Incidents -> {"idle", "lead", "follow", "have", "done", "cancelled"}]
  /\ mine \in [Incidents -> Flights \cup {0}]
  /\ attempt \in [Incidents -> 0 .. MaxAttempts - 1]
  /\ got \in [Incidents -> Results]
  /\ rows = [i \in Incidents |-> rows[i]]
  /\ used \in 0 .. MaxFlights /\ orphans \subseteq Flights
  /\ cancels \in 0 .. MaxCancels /\ expiries \in 0 .. MaxExpiries

\* One provider call per cell at a time, whoever is cancelled, and the map of
\* flights holds exactly the calls that run.
OneFlightPerCell ==
  \A c \in Cells :
    LET leaders == {i \in Incidents : pc[i] = "lead" /\ CellOf[i] = c}
    IN  /\ Cardinality(leaders) <= 1
        /\ (flight[c] # 0 <=> leaders # {})
        /\ \A i \in leaders : flight[c] = mine[i]

\* A row that speaks for or against an incident rests on an observation in
\* range of that incident, whichever incident it was fetched for; floods are
\* never contradicted and models contradict nothing, whoever filled the cache.
VerdictsAreGrounded ==
  \A i \in Incidents : \A k \in DOMAIN rows[i] :
    LET row == rows[i][k]
    IN  row.verdict # "NEUTRAL" =>
          /\ k[2] # Nobody
          /\ LET o == Seen(i, Result("OK", k[2]))
             IN  /\ o.distance <= MaxDistance(o) /\ o.gap <= MaxGap(CategoryOf[i])
                 /\ row.verdict = "CONTRADICTS" =>
                      o.station /\ CategoryOf[i] \notin {"FLOOD_WATERLOGGING", "URBAN_FLOOD"}
          /\ row.contribution \in -TotalCap .. TotalCap

\* "Exactly one provider call [...] and serve all subsequent queries": a task
\* that follows a fetch is answered, unless that fetch was cancelled.
FollowersAreAnswered ==
  \A i \in Incidents :
    (pc[i] = "follow") ~> (pc[i] # "follow" \/ mine[i] \in orphans)
=============================================================================
