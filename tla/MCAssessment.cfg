\* Three incidents of one weather cell with one cancellation and one expiry;
\* a cluster of two reports; three pictures and two workers.
SPECIFICATION AllSpec
CONSTANTS
  Incidents <- MCIncidents
  CategoryOf <- MCCategoryOf
  CellOf <- MCCellOf
  WeatherOf <- MCWeatherOf
  Apart = 12
  MaxAttempts = 2
  MaxFlights = 2
  MaxCancels = 1
  MaxExpiries = 1
  Cluster <- MCCluster
  SourceOf <- MCSourceOf
  Items <- MCItems
  ItemOf <- MCItemOf
  Recomputes = {"recompute"}
  ImageEnabled = TRUE
  PhysicalCap = 10000
  Starts <- MCStarts
  MaxTransactions = 2
  MaxFailures = 1
  Reports = {"delhi", "mumbai"}
  Media <- MCMedia
  ReportOf <- MCReportOf
  PictureOf <- MCPictureOf
  ExifGap <- MCExifGap
  ExifKm <- MCExifKm
  OccurredAt <- MCOccurredAt
  PlaceOf <- MCPlaceOf
  Pictures <- MCPictures
  PrefixOf <- MCPrefixOf
  Near <- MCNear
  Workers = {"w1", "w2"}
  Limit = 1
  MaxDays = 1
  MaxRuns = 3
  MaxFaults = 1
INVARIANTS CurrentUnlessBlind LinksCountFairly OneFlightPerCell VerdictsAreGrounded ReuseIsJudged
PROPERTIES FollowersAreAnswered
CHECK_DEADLOCK FALSE
