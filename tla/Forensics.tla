------------------------------ MODULE Forensics ------------------------------
(***************************************************************************)
(* Forensic checks of the images of reports: the pure checks of            *)
(* image_forensics.py and the transactions of image_forensics_service.py   *)
(* that look for other uses of a picture, keep its hash and its finding    *)
(* and announce the verdict.                                               *)
(*                                                                         *)
(* A picture is a model value with a prefix of its perceptual hash and a   *)
(* set of pictures within the Hamming threshold; "corrupt" cannot be       *)
(* decoded, and a black picture hashes to zeros, which is also what is     *)
(* stored when there is no hash. Times of upload and of incidents count    *)
(* periods of 48 hours, places are 50 km and more apart when they differ.  *)
(***************************************************************************)
EXTENDS Integers, FiniteSets, FiniteSetsExt

CONSTANTS
  Reports, Media,
  ReportOf, PictureOf,     \* of each image
  ExifGap, ExifKm,         \* of each image: hours and km between EXIF and report, or Missing
  OccurredAt, PlaceOf,     \* of each report
  Pictures, PrefixOf, Near,\* of each picture: hash prefix and near pictures
  Workers,
  Limit,                   \* rows one lookup loads (100 in the code)
  MaxDays, MaxRuns, MaxFaults \* bounds

Missing == -1
Zero == "zeros"            \* the stored hash of nothing
Corrupt == "corrupt"
Black == "black"           \* its hash is zeros
MadeUp == "made up"        \* the image of a demonstration
NoReport == "none"

ForensicsAssumption ==
  /\ Limit \in Nat \ {0} /\ MaxDays \in Nat /\ MaxRuns \in Nat /\ MaxFaults \in Nat
  /\ \A m \in Media : ReportOf[m] \in Reports /\ PictureOf[m] \in Pictures \cup {Corrupt, Black}
  /\ MadeUp \notin Media /\ NoReport \notin Reports
  /\ Pictures \cap {Zero, Corrupt, Black} = {}
  /\ \A p \in Pictures : Near[p] \subseteq Pictures
  /\ \A p \in Pictures, q \in Pictures : (p \in Near[q]) = (q \in Near[p])

------------------------------------------------------------------------------
(* The checks *)

\* Within the support bound a value supports, beyond the other it contradicts,
\* and a missing one is neutral (rule P1).
Compare(value, support, contradict) ==
  IF value = Missing THEN "NEUTRAL"
  ELSE IF value <= support THEN "SUPPORTS"
  ELSE IF value > contradict THEN "CONTRADICTS"
  ELSE "NEUTRAL"

ExifTime(hours) == Compare(hours, 3, 24)
ExifPlace(km) == Compare(km, 15, 50)

\* Mutant of Distant: the places are not compared.
DistantInTime(report, match) ==
  /\ match.report # report
  /\ (match.at - OccurredAt[report]) \notin -1 .. 1

\* A use of the picture in another report far in time or place: the time of
\* the other use is the upload of its image.
Distant(report, match) ==
  /\ match.report # report
  /\ \/ (match.at - OccurredAt[report]) \notin -1 .. 1
     \/ PlaceOf[match.report] # PlaceOf[report]

Reuse(report, matches) ==
  LET distant == {x.report : x \in {y \in matches : Distant(report, y)}}
  IN [verdict |-> IF distant # {} THEN "CONTRADICTS" ELSE "NEUTRAL", matched |-> distant]

Count(verdicts, verdict) == Cardinality({c \in DOMAIN verdicts : verdicts[c] = verdict})

Overall(verdicts) ==
  IF Count(verdicts, "CONTRADICTS") > 0 THEN "CONTRADICTS"
  ELSE IF Count(verdicts, "SUPPORTS") >= 2 THEN "SUPPORTS"
  ELSE "NEUTRAL"

\* A picture that cannot be decoded, or too large, has no checks at all.
NoChecks == [time |-> "NEUTRAL", place |-> "NEUTRAL", reuse |-> "NEUTRAL"]

Checks(m, matches) ==
  [time |-> ExifTime(ExifGap[m]), place |-> ExifPlace(ExifKm[m]),
   reuse |-> Reuse(ReportOf[m], matches).verdict]

\* The verdict on a report from its findings: the service and the collector of
\* credibility inputs each have this rule.
Summary(verdicts) ==
  IF "CONTRADICTS" \in verdicts THEN "CONTRADICTS"
  ELSE IF verdicts = {"SUPPORTS"} THEN "SUPPORTS"
  ELSE "NEUTRAL"

------------------------------------------------------------------------------
VARIABLES
  now,        \* periods of 48 hours
  hashes,     \* committed rows of image_hashes
  findings,   \* committed rows of incident_image_findings
  run,        \* of a worker: its transaction, or Idle
  announced,  \* of a report: the verdict of its last event
  excuse,     \* history, of an image: why its last analysis may have missed a use
  overlapped, \* history: reports analysed by two workers at a time
  runs,
  faults      \* failures and demonstrations

forensicsVars == <<now, hashes, findings, run, announced, excuse, overlapped, runs, faults>>

Idle == [report |-> NoReport, todo |-> {}, hashes |-> {}, findings |-> {}]

ForensicsInit ==
  /\ now = 0
  /\ hashes = {} /\ findings = {}
  /\ run = [w \in Workers |-> Idle]
  /\ announced = [r \in Reports |-> "none"]
  /\ excuse = [m \in Media |-> {}]
  /\ overlapped = {}
  /\ runs = 0 /\ faults = 0

Images(r) == {m \in Media : ReportOf[m] = r}
Running(r) == {w \in Workers : run[w].report = r}

\* What a worker reads: the committed rows as it has changed them.
Written(w, committed, own) == {x \in committed : \A y \in own : y.id # x.id} \cup own
SeesHashes(w) == Written(w, hashes, run[w].hashes)
SeesFindings(w) == Written(w, findings, run[w].findings)

\* run_incident_image_forensics loads the report; one without images returns.
StartRun(w, r) ==
  /\ run[w] = Idle /\ runs < MaxRuns /\ Images(r) # {}
  /\ runs' = runs + 1
  /\ run' = [run EXCEPT ![w] = [Idle EXCEPT !.report = r, !.todo = Images(r)]]
  /\ overlapped' = IF Running(r) # {} THEN overlapped \cup {r} ELSE overlapped
  /\ UNCHANGED <<now, hashes, findings, announced, excuse, faults>>

\* The hash of what was read: nothing was read when the store failed.
HashOf(picture) == IF picture \in {Corrupt, Black} THEN Zero ELSE picture
PrefixOfHash(hash) == IF hash = Zero THEN Zero ELSE PrefixOf[hash]

\* lookup_candidate_matches: some Limit rows of the prefix, of which those
\* within the threshold count.
SameHash(hash, x) == x.hash = hash
Pruned(w, hash) == {x \in SeesHashes(w) : SameHash(hash, x) \/ PrefixOfHash(x.hash) = PrefixOfHash(hash)}
Lookups(w, hash) ==
  LET rows == Pruned(w, hash) IN
    {x \in SUBSET rows : Cardinality(x) = Min({Limit, Cardinality(rows)})}
Similar(hash, x) == SameHash(hash, x) \/ (hash # Zero /\ x.hash \in Near[hash])

\* A row is updated if there is one of the image, else inserted.
Upsert(rows, m, row) ==
  IF \E x \in rows : x.media = m
  THEN {[row EXCEPT !.id = x.id, !.at = x.at] : x \in {y \in rows : y.media = m}}
  ELSE {row}

HashRow(m, hash, w) == [id |-> <<m, w>>, media |-> m, report |-> ReportOf[m], hash |-> hash, at |-> now]
FindingRow(m, w, checks, matched) ==
  [id |-> <<m, w>>, media |-> m, report |-> ReportOf[m], at |-> now, checks |-> checks,
   matched |-> matched, overall |-> Overall(checks), simulated |-> FALSE]

\* process_report_media with the bytes read: the matches count only for a
\* picture that was decoded.
Decoded(picture, m, matches) == IF picture = Corrupt THEN NoChecks ELSE Checks(m, matches)

Analyse(w, m, picture, why) ==
  LET hash == HashOf(picture)
      hidden == {v \in Workers \ {w} : \E x \in run[v].hashes : Similar(hash, x)}
  IN \E rows \in Lookups(w, hash) :
       LET matches == {x \in rows : Similar(hash, x)}
           checks == Decoded(picture, m, matches)
           matched == IF picture = Corrupt THEN {} ELSE Reuse(ReportOf[m], matches).matched
       IN \E h \in Upsert(SeesHashes(w), m, HashRow(m, hash, w)),
             f \in Upsert(SeesFindings(w), m, FindingRow(m, w, checks, matched)) :
            /\ run' = [run EXCEPT ![w].todo = @ \ {m},
                                  ![w].hashes = {x \in @ : x.id # h.id} \cup {h},
                                  ![w].findings = {x \in @ : x.id # f.id} \cup {f}]
            /\ excuse' = [excuse EXCEPT ![m] =
                 why \cup (IF hidden # {} THEN {"concurrent"} ELSE {})
                     \cup (IF rows # Pruned(w, hash) THEN {"truncated"} ELSE {})]

Process(w, m) ==
  /\ m \in run[w].todo
  /\ Analyse(w, m, PictureOf[m], {})
  /\ UNCHANGED <<now, hashes, findings, announced, overlapped, runs, faults>>

\* The object store fails: the image is analysed as empty bytes.
FetchFails(w, m) ==
  /\ m \in run[w].todo /\ faults < MaxFaults
  /\ faults' = faults + 1
  /\ Analyse(w, m, Corrupt, {"unread"})
  /\ UNCHANGED <<now, hashes, findings, announced, overlapped, runs>>

\* The verdict on the report is that of the findings of this run.
Commit(w) ==
  /\ run[w] # Idle /\ run[w].todo = {}
  /\ hashes' = Written(w, hashes, run[w].hashes)
  /\ findings' = Written(w, findings, run[w].findings)
  /\ announced' = [announced EXCEPT ![run[w].report] = Summary({f.overall : f \in run[w].findings})]
  /\ run' = [run EXCEPT ![w] = Idle]
  /\ UNCHANGED <<now, excuse, overlapped, runs, faults>>

\* What happened to the images whose rows were rolled back is unknown.
Rollback(w) ==
  /\ run[w] # Idle /\ faults < MaxFaults
  /\ faults' = faults + 1
  /\ excuse' = [m \in Media |-> IF ReportOf[m] = run[w].report THEN excuse[m] \cup {"unread"} ELSE excuse[m]]
  /\ run' = [run EXCEPT ![w] = Idle]
  /\ UNCHANGED <<now, hashes, findings, announced, overlapped, runs>>

------------------------------------------------------------------------------
(* Demonstrations (image_forensics_demo_fixtures.py) *)

DemoChecks(scenario) ==
  CASE scenario = "REUSED_IMAGE" -> [time |-> "SUPPORTS", place |-> "SUPPORTS", reuse |-> "CONTRADICTS"]
    [] scenario = "EXIF_TIME_MISMATCH" -> [time |-> "CONTRADICTS", place |-> "NEUTRAL", reuse |-> "SUPPORTS"]
    [] scenario = "NO_EXIF" -> [time |-> "NEUTRAL", place |-> "NEUTRAL", reuse |-> "SUPPORTS"]

\* A finding for an image made up for the report; any other report is named.
Demo(r, scenario) ==
  /\ faults < MaxFaults
  /\ faults' = faults + 1
  /\ findings' = findings \cup
       {[id |-> <<MadeUp, faults>>, media |-> MadeUp, report |-> r, at |-> now,
         checks |-> DemoChecks(scenario),
         matched |-> IF scenario = "REUSED_IMAGE" THEN Reports \ {r} ELSE {},
         overall |-> IF scenario = "NO_EXIF" THEN "NEUTRAL" ELSE "CONTRADICTS", simulated |-> TRUE]}
  /\ announced' = [announced EXCEPT ![r] = IF scenario = "NO_EXIF" THEN "NEUTRAL" ELSE "CONTRADICTS"]
  /\ UNCHANGED <<now, hashes, run, excuse, overlapped, runs>>

Day ==
  /\ now < MaxDays
  /\ now' = now + 1
  /\ UNCHANGED <<hashes, findings, run, announced, excuse, overlapped, runs, faults>>

ForensicsNext ==
  \/ \E w \in Workers, r \in Reports : StartRun(w, r)
  \/ \E w \in Workers, m \in Media : Process(w, m) \/ FetchFails(w, m)
  \/ \E w \in Workers : Commit(w) \/ Rollback(w)
  \/ \E r \in Reports, s \in {"REUSED_IMAGE", "EXIF_TIME_MISMATCH", "NO_EXIF"} : Demo(r, s)
  \/ Day

ForensicsSpec == ForensicsInit /\ [][ForensicsNext]_forensicsVars

------------------------------------------------------------------------------
Real == {f \in findings : ~f.simulated}

\* Two images of one picture, or of near pictures that share the prefix of the
\* index, on reports far apart in place: once both have been analysed one of the
\* findings says so, unless an analysis could not read its image, saw only part
\* of the candidates or ran while the other was not committed.
ReuseIsFound ==
  \A f, g \in Real :
    LET p == PictureOf[f.media]  q == PictureOf[g.media] IN
    (/\ f.report # g.report /\ PlaceOf[f.report] # PlaceOf[g.report]
     /\ p # Corrupt /\ q # Corrupt
     /\ p = q \/ (p # Black /\ q # Black /\ q \in Near[p] /\ PrefixOf[p] = PrefixOf[q])
     /\ excuse[f.media] = {} /\ excuse[g.media] = {}
     /\ \A w \in Workers : run[w].report \notin {f.report, g.report}
     /\ {f.report, g.report} \cap overlapped = {})
      => g.report \in f.matched \/ f.report \in g.matched

\* A report is said to reuse a picture only of another report, and only if that
\* has one that is the same or near: pictures stored without a hash accuse nobody but a black
\* picture, whose own hash is zeros.
AccusedOnEvidence ==
  \A f \in Real : \A r \in f.matched :
   /\ r # f.report
   /\ \/ PictureOf[f.media] = Black
      \/ \E m \in Images(r) : PictureOf[m] = PictureOf[f.media] \/ PictureOf[m] \in Near[PictureOf[f.media]]

\* Reused pictures are found, and only those are held against a report.
ReuseIsJudged == ReuseIsFound /\ AccusedOnEvidence
==============================================================================
