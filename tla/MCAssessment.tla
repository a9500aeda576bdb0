---------------------------- MODULE MCAssessment ----------------------------
(***************************************************************************)
(* How an incident is assessed: the credibility of two clustered reports   *)
(* with ten facts (Credibility), three incidents of one weather cell       *)
(* (PhysicalService) and pictures of reports 48 hours and 50 km apart      *)
(* (Forensics). The three do not interact at this level, they share the    *)
(* database's rows: a behaviour is one of the component it starts with.    *)
(***************************************************************************)
EXTENDS PhysicalService, Credibility, Forensics

MCCluster == {"citizen", "official"}
MCSources == [citizen |-> [trust |-> 6000, family |-> "CITIZEN", has |-> {"coordinates", "timestamp", "description"}],
              official |-> [trust |-> 9500, family |-> "OFFICIAL", has |-> {"coordinates", "timestamp", "description", "location", "category"}]]
MCSourceOf == MCSources
MCLink(of, key, role, conf, fam, der) ==
  [sort |-> "link", of |-> of, key |-> key, role |-> role, conf |-> conf, score |-> conf,
   family |-> fam, derived |-> der]
MCFacts == [
  support |-> MCLink({"citizen"}, "paper", "SUPPORTING", 5000, "NEWS", FALSE),
  related |-> MCLink({"citizen"}, "paper", "RELATED", 9000, "NEWS", TRUE),
  context |-> MCLink({"citizen"}, "paper", "CONTEXTUAL", 2000, "NEWS", FALSE),
  debunk |-> MCLink({"citizen"}, "blog", "CONTRADICTORY", 7000, "SOCIAL", FALSE),
  bulletin |-> MCLink({"official"}, "imd", "SUPPORTING", 8000, "OFFICIAL", FALSE),
  gauge |-> [sort |-> "reading", of |-> {"citizen"}, key |-> "s1", relation |-> "CORROBORATING", score |-> 8000],
  grid |-> [sort |-> "physical", of |-> {"citizen"}, key |-> "om", verdict |-> "SUPPORTS", station |-> FALSE, score |-> 6000],
  station |-> [sort |-> "physical", of |-> {"official"}, key |-> "aws", verdict |-> "CONTRADICTS", station |-> TRUE, score |-> 6000],
  twin |-> [sort |-> "member", of |-> {"citizen", "official"}],
  photo |-> [sort |-> "image", of |-> {"citizen"}, verdict |-> "CONTRADICTS"]]

\* (TLC evaluates an operator that replaces a constant at every use, and a
\* definition that it refers to once.)
MCItemOf == MCFacts
MCItems == DOMAIN MCFacts
MCStarts == {{}, {"support", "twin"}}

------------------------------------------------------------------------------
MCCells ==
  [category |-> [storm |-> "CYCLONE_STORM", flood |-> "FLOOD_WATERLOGGING", wind |-> "STRONG_WIND"],
   \* Tenths: calm at the wind report, a storm and no rain at the others.
   weather |-> [storm |-> [wind_speed |-> 700, rainfall_1h |-> 0, pressure |-> 9850],
                flood |-> [wind_speed |-> 700, rainfall_1h |-> 0, pressure |-> 9850],
                wind |-> [wind_speed |-> 80, rainfall_1h |-> 0, wind_gusts |-> 100]],
   cell |-> [storm |-> "a cell", flood |-> "a cell", wind |-> "a cell"]]
MCIncidents == DOMAIN MCCells.cell
MCCategoryOf == MCCells.category
MCCellOf == MCCells.cell
MCWeatherOf == MCCells.weather

------------------------------------------------------------------------------
MCImages ==
  [report |-> [front |-> "delhi", sign |-> "mumbai", night |-> "mumbai"],
   picture |-> [front |-> "street", sign |-> "cropped street", night |-> "black"],
   gap |-> [front |-> 2, sign |-> 30, night |-> 5],
   km |-> [front |-> 3, sign |-> -1, night |-> 20],
   at |-> [delhi |-> -1, mumbai |-> 0],
   place |-> [delhi |-> "north", mumbai |-> "west"],
   prefix |-> ("street" :> "7f1" @@ "cropped street" :> "7f1"),
   near |-> ("street" :> {"cropped street"} @@ "cropped street" :> {"street"})]
MCMedia == DOMAIN MCImages.report
MCReportOf == MCImages.report
MCPictureOf == MCImages.picture
MCExifGap == MCImages.gap
MCExifKm == MCImages.km
MCOccurredAt == MCImages.at
MCPlaceOf == MCImages.place
MCPictures == DOMAIN MCImages.near
MCPrefixOf == MCImages.prefix
MCNear == MCImages.near

ASSUME ItemsAssumption /\ ScaleAssumption /\ CapAssumption
ASSUME PhysicalAssumption
ASSUME ForensicsAssumption

------------------------------------------------------------------------------
VARIABLE focus

all == <<focus, credibilityVars, physicalVars, forensicsVars>>

\* The component of the behaviour starts anywhere it can, the others idle.
AllInit ==
  /\ focus \in {"credibility", "physical", "forensics"}
  /\ (focus = "credibility" \/ arrived = {}) /\ CredibilityInit
  /\ PhysicalInit /\ (focus # "physical" => provider = "OPEN_METEO")
  /\ ForensicsInit

Scoring(A) == focus = "credibility" /\ A /\ UNCHANGED <<focus, physicalVars, forensicsVars>>
Observing(A) == focus = "physical" /\ A /\ UNCHANGED <<focus, credibilityVars, forensicsVars>>
Examining(A) == focus = "forensics" /\ A /\ UNCHANGED <<focus, credibilityVars, physicalVars>>

AllNext == Scoring(CredibilityNext) \/ Observing(PhysicalNext) \/ Examining(ForensicsNext)

\* The fairness of PhysicalService.
AllFairness ==
  \A i \in Incidents :
    /\ WF_all(Observing(Observed(i) \/ Refused(i) \/ Retry(i) \/ GiveUp(i)))
    /\ WF_all(Observing(Wake(i)))

AllSpec == AllInit /\ [][AllNext]_all /\ AllFairness

------------------------------------------------------------------------------
\* Facts are looked at once for each state of the scores: weak links decide
\* nothing and supporting facts lower nothing.
LinksCountFairly == focus = "credibility" => WeakNeverDecides /\ SupportNeverLowers
=============================================================================
