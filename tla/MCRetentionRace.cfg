\* An operator verifies a report while a retention cycle runs.
SPECIFICATION AllSpec
CONSTANTS
  Sightings <- MCReports
  Assessed <- MCMatches
  Distance <- MCDistance
  WithinReach <- MCEverywhere
  Limit = 2
  Before <- MCBefore
  Twice = {1}
  Reports = {r1, r2}
  Requests = {q1, q2}
  Outcomes = {"COMPLETED"}
  Ids = {"a", "b"}
  Workers = {"w1", "w2"}
  MaxDeliveries = 5
  BatchSize = 1
  MaxFaults = 1
  Records = {r1, r2}
  Incidents = {"r1", "r2"}
  Items <- MCItems
  ByReport <- MCPairs
  ByItem <- MCPairs
  Assessment <- MCAssessment
  Superseded <- MCSuperseded
  Ahead <- MCAhead
  Readings <- MCReadings
  TopN = 1
  MaxDecisions = 1
  Rows <- MCRows
  Start = {1, 2, 3}
  Scores = {75}
  PageSize = 2
  MaxWrites = 3
  Filters <- MCFilters
  Clusterings <- MCClusterings
  Links <- MCLinks
  Advisories <- MCAdvisories
  Now <- MCNow
INVARIANTS VerifiedAreArchived
CHECK_DEADLOCK FALSE
