-------------------------- MODULE TestReportProofs --------------------------
(***************************************************************************)
(* Theorems about TestReport: Reports for any number of runs, retries and  *)
(* restarts, Diagnostics for any causes, metrics and thresholds, and       *)
(* CallQuality for any number of calls, page size and sizes of batches.    *)
(***************************************************************************)
EXTENDS TestReport, FiniteSetTheorems, SequenceTheorems, TLAPS

-----------------------------------------------------------------------------
(***************************************************************************)
(* Reports and their upload.                                               *)
(***************************************************************************)

ReportsSafety == ReportsInit /\ [][ReportsNext]_repVars

\* Who is uploading has a run's report to upload.
HoldsWhatItUploads ==
    \A u \in Uploader : pc[u] \in {"taken", "posting", "waiting"} => holds[u] \in Run

UploadIInv == UploadInv /\ HoldsWhatItUploads /\ DOMAIN pc = Uploader \cup Hardware

\* What telling the tracker changes, and that it stays well-formed.
LEMMA SetKeeps ==
    ASSUME TypeOK, NEW u \in Uploader, NEW st \in Statuses, Set(u, st)
    PROVE  /\ tracker'.id = tracker.id /\ tracker'.state = st
           /\ status' \in [Report -> Statuses] /\ mixed' \subseteq Run \cup {None}
           /\ tracker.id \in mixed' \/ holds[u] = tracker.id
           /\ \A r \in Report : \/ status'[r] = status[r] /\ (r \in mixed => r \in mixed')
                                \/ status'[r] = st /\ (r \in mixed' \/ holds[u] = r)
<1>1. tracker' = [tracker EXCEPT !.state = st]
  BY DEF Set
<1>2. tracker'.id = tracker.id /\ tracker'.state = st
  <2> QED BY <1>1
<1>0. PICK shown : shown = tracker.id
  OBVIOUS
<1>a. /\ shown \in Run \cup {None} /\ status \in [Report -> Statuses] /\ mixed \subseteq Run \cup {None}
      /\ None \notin Report
  BY <1>0, ReportsAssumption DEF TypeOK, Report
<1>b. /\ mixed' = IF shown # holds[u] THEN mixed \cup {shown} ELSE mixed \ {shown}
      /\ status' = IF shown = None THEN status ELSE [status EXCEPT ![shown] = st]
  BY <1>0 DEF Set
<1>3. /\ status' \in [Report -> Statuses] /\ mixed' \subseteq Run \cup {None}
      /\ shown \in mixed' \/ holds[u] = shown
  BY <1>a, <1>b
<1>4. ASSUME NEW r \in Report
      PROVE  \/ status'[r] = status[r] /\ (r \in mixed => r \in mixed')
             \/ status'[r] = st /\ (r \in mixed' \/ holds[u] = r)
  <2>1. CASE r = shown
    BY <1>3, <1>a, <1>b, <2>1
  <2>2. CASE r # shown
    BY <1>a, <1>b, <2>2
  <2> QED BY <2>1, <2>2
<1>5. tracker.id \in mixed' \/ holds[u] = tracker.id
  BY <1>0, <1>3
<1> QED BY <1>2, <1>3, <1>4, <1>5

LEMMA InitUploadIInv == ReportsInit => UploadIInv
<1> SUFFICES ASSUME ReportsInit PROVE UploadIInv
  OBVIOUS
<1> USE ReportsAssumption DEF ReportsInit, NoReport, Statuses
<1>1. TypeOK
  BY DEF TypeOK, Uploader
<1>2. UploadedIsThere /\ ShownIsThere /\ UploadingIsAlive
  BY DEF UploadedIsThere, ShownIsThere, UploadingIsAlive
<1>3. HoldsWhatItUploads
  BY DEF HoldsWhatItUploads, Uploader
<1> QED BY <1>1, <1>2, <1>3 DEF UploadIInv, UploadInv

\* An uploader that returns has said how its upload went.
LEMMA ReturnKeeps ==
    ASSUME UploadIInv, NEW u \in Uploader, NEW st \in Statuses, Set(u, st), st # "uploading",
           NEW from, Returns(u, from), UNCHANGED <<runner, rep, saved, key, restarts>>,
           collector \subseteq collector', collector' \subseteq Report,
           st = "uploaded" => holds[u] \in collector'
    PROVE  UploadIInv'
<1> USE DEF UploadIInv, UploadInv
<1>1. /\ tracker'.id = tracker.id /\ tracker'.state = st
      /\ status' \in [Report -> Statuses] /\ mixed' \subseteq Run \cup {None}
      /\ tracker.id \in mixed' \/ holds[u] = tracker.id
      /\ \A r \in Report : \/ status'[r] = status[r] /\ (r \in mixed => r \in mixed')
                           \/ status'[r] = st /\ (r \in mixed' \/ holds[u] = r)
  BY SetKeeps
<1>2. DOMAIN pc' = DOMAIN pc /\ holds' \in [Uploader -> Run \cup {None}] /\ attempt' \in [Uploader -> 0..Retries]
  BY ReportsAssumption DEF Returns, Moves, TypeOK
<1>3. TypeOK'
  BY <1>1, <1>2 DEF TypeOK
<1>4. UploadedIsThere' /\ ShownIsThere'
  BY <1>1 DEF UploadedIsThere, ShownIsThere
<1>5. UploadingIsAlive'
  BY <1>1 DEF UploadingIsAlive
<1>6. HoldsWhatItUploads'
  BY <1>2 DEF HoldsWhatItUploads, Returns, Moves, TypeOK, Uploader
<1> QED BY <1>2, <1>3, <1>4, <1>5, <1>6

\* One that goes on is still alive.
LEMMA GoOnKeeps ==
    ASSUME UploadIInv, NEW u \in Uploader, Set(u, "uploading"),
           pc[u] \in {"taken", "posting", "waiting"}, NEW place \in {"posting", "waiting"}, pc' = [pc EXCEPT ![u] = place],
           UNCHANGED <<runner, rep, holds, saved, key, restarts>>, attempt' \in [Uploader -> 0..Retries],
           collector \subseteq collector', collector' \subseteq Report
    PROVE  UploadIInv'
<1> USE DEF UploadIInv, UploadInv
<1>1. /\ tracker'.id = tracker.id /\ tracker'.state = "uploading"
      /\ status' \in [Report -> Statuses] /\ mixed' \subseteq Run \cup {None}
      /\ tracker.id \in mixed' \/ holds[u] = tracker.id
      /\ \A r \in Report : \/ status'[r] = status[r] /\ (r \in mixed => r \in mixed')
                           \/ status'[r] = "uploading"
  BY SetKeeps DEF Statuses
<1>2. DOMAIN pc' = DOMAIN pc /\ pc'[u] = place
  BY DEF Uploader
<1>3. TypeOK'
  BY <1>1 DEF TypeOK, Statuses
<1>4. UploadedIsThere' /\ ShownIsThere'
  BY <1>1 DEF UploadedIsThere, ShownIsThere
<1>5. UploadingIsAlive'
  BY <1>1, <1>2 DEF UploadingIsAlive
<1>6. HoldsWhatItUploads'
  BY <1>2 DEF HoldsWhatItUploads
<1> QED BY <1>2, <1>3, <1>4, <1>5, <1>6

LEMMA UploadStepKeeps == \A u \in Uploader : UploadIInv /\ UploadStep(u) => UploadIInv'
<1> SUFFICES ASSUME NEW u \in Uploader, UploadIInv, UploadStep(u) PROVE UploadIInv'
  OBVIOUS
<1>0. /\ TypeOK /\ UploadedIsThere /\ ShownIsThere /\ UploadingIsAlive /\ HoldsWhatItUploads
      /\ DOMAIN pc = Uploader \cup Hardware
      /\ holds[u] \in Run \cup {None} /\ collector \subseteq Report /\ Run \subseteq Report
  BY DEF UploadIInv, UploadInv, TypeOK, Report
<1>1. CASE TakeReport(u)
  <2> USE <1>1 DEF TakeReport, Moves, tracked
  <2>1. TypeOK' /\ UploadedIsThere' /\ ShownIsThere'
    BY <1>0 DEF TypeOK, UploadedIsThere, ShownIsThere
  <2>2. UploadingIsAlive'
    <3>1. \A v \in Uploader : pc[v] \in {"posting", "waiting"} => pc'[v] = pc[v] /\ holds'[v] = holds[v]
      BY <1>0 DEF TypeOK, Uploader
    <3> QED BY <1>0, <3>1 DEF UploadingIsAlive
  <2>3. HoldsWhatItUploads'
    BY <1>0 DEF HoldsWhatItUploads, TypeOK
  <2> QED BY <1>0, <2>1, <2>2, <2>3 DEF UploadIInv, UploadInv
<1>2. CASE NoKey(u)
  BY <1>0, <1>2, ReturnKeeps DEF NoKey, Statuses
<1>3. CASE BeginAttempt(u)
  BY <1>0, <1>3, GoOnKeeps DEF BeginAttempt, TypeOK
<1>4. CASE Rejected(u)
  BY <1>0, <1>4, ReturnKeeps DEF Rejected, Statuses
<1>5. pc[u] = "posting" => holds[u] \in Report
  BY <1>0 DEF HoldsWhatItUploads, Report
<1>6. CASE Uploaded(u)
  <2>1. pc[u] = "posting" /\ collector' = collector \cup {holds[u]}
    BY <1>6 DEF Uploaded, Returns, Moves
  <2>2. collector \subseteq collector' /\ collector' \subseteq Report /\ holds[u] \in collector'
    BY <1>0, <1>5, <2>1
  <2> QED BY <1>6, <2>2, ReturnKeeps DEF Uploaded, Statuses
<1>7. CASE NoAnswer(u) /\ TryAgain(u)
  <2>1. pc[u] = "posting" /\ AfterNoAnswer(u) = "uploading"
    BY <1>7 DEF TryAgain, Moves, AfterNoAnswer
  <2>2. collector \subseteq collector' /\ collector' \subseteq Report
    BY <1>0, <1>5, <1>7, <2>1 DEF NoAnswer
  <2>3. attempt' \in [Uploader -> 0..Retries]
    <3>1. attempt \in [Uploader -> 0..Retries] /\ attempt[u] < Retries
      BY <1>0, <1>7 DEF TypeOK, TryAgain
    <3>2. attempt[u] + 1 \in 0..Retries
      BY <3>1, ReportsAssumption
    <3> QED BY <3>1, <3>2, <1>7 DEF TryAgain
  <2>4. Set(u, "uploading") /\ pc' = [pc EXCEPT ![u] = "waiting"]
    BY <1>7, <2>1 DEF NoAnswer, TryAgain, Moves
  <2>5. UNCHANGED <<runner, rep, holds, saved, key, restarts>>
    BY <1>7 DEF NoAnswer, TryAgain
  <2> QED BY <2>1, <2>2, <2>3, <2>4, <2>5, GoOnKeeps
<1>8. CASE NoAnswer(u) /\ attempt[u] = Retries /\ Returns(u, "posting")
  <2>1. pc[u] = "posting" /\ AfterNoAnswer(u) = "failed"
    BY <1>8, ReportsAssumption DEF Returns, Moves, AfterNoAnswer
  <2>2. collector \subseteq collector' /\ collector' \subseteq Report
    BY <1>0, <1>5, <1>8, <2>1 DEF NoAnswer
  <2>3. Set(u, "failed") /\ UNCHANGED <<runner, rep, saved, key, restarts>>
    BY <1>8, <2>1 DEF NoAnswer
  <2> QED BY <1>8, <2>2, <2>3, ReturnKeeps DEF Statuses
<1> QED
  BY <1>1, <1>2, <1>3, <1>4, <1>6, <1>7, <1>8 DEF UploadStep, NoAnswer

\* A step of the run, of a request or of the settings that leaves the uploads alone:
\* what is uploading keeps uploading, and its report.
LEMMA OthersStepKeeps ==
    ASSUME UploadIInv, ReportsNext, ~ \E u \in Uploader : UploadStep(u)
    PROVE  UploadIInv'
<1>0. /\ TypeOK /\ UploadedIsThere /\ ShownIsThere /\ UploadingIsAlive /\ HoldsWhatItUploads
      /\ DOMAIN pc = Uploader \cup Hardware
  BY DEF UploadIInv, UploadInv
<1> DEFINE Same == /\ \A u \in Uploader :
                        pc'[u] \in {"taken", "posting", "waiting"} => pc'[u] = pc[u] /\ holds'[u] = holds[u]
                   /\ DOMAIN pc' = DOMAIN pc
           Told == \/ tracker'.state \notin {"uploading", "uploaded"}
                   \/ /\ tracker' = tracker /\ mixed' = mixed
                      /\ \A u \in Uploader : pc[u] \in {"posting", "waiting"} => pc'[u] = pc[u] /\ holds'[u] = holds[u]
           Listed == \A r \in Report :
                         /\ r \in mixed => r \in mixed'
                         /\ \/ status'[r] # "uploaded"
                            \/ status'[r] = status[r]
                            \/ r \in collector' \cup mixed'
           Holds == TypeOK' /\ Same /\ Told /\ Listed /\ collector \subseteq collector'
<1>1. Holds => UploadIInv'
  <2> SUFFICES ASSUME TypeOK', Same, Told, Listed, collector \subseteq collector'
               PROVE  UploadIInv'
    OBVIOUS
  <2>1. UploadedIsThere'
    BY <1>0 DEF UploadedIsThere
  <2>2. ShownIsThere'
    BY <1>0 DEF ShownIsThere
  <2>3. UploadingIsAlive'
    BY <1>0 DEF UploadingIsAlive
  <2>4. HoldsWhatItUploads'
    BY <1>0 DEF HoldsWhatItUploads
  <2> QED BY <1>0, <2>1, <2>2, <2>3, <2>4 DEF UploadIInv, UploadInv
<1> SUFFICES Holds
  BY <1>1
<1>2. Run \subseteq Uploader /\ Run \subseteq Report /\ Retry \subseteq Uploader /\ Hardware \subseteq Report
  BY DEF Uploader, Report
<1>3. Hardware \cap Uploader = {}
  BY ReportsAssumption DEF Uploader
<1>n. None \notin Report
  BY ReportsAssumption DEF Report
<1>4. ASSUME NEW r \in Run, \/ StartRun(r) \/ GatherFails(r) \/ BeginRun(r) \/ RunEnds(r)
                             \/ GiveUp(r) \/ SaveReport(r) \/ NoteNotUploaded(r)
      PROVE  Holds
  <2>1. CASE StartRun(r) \/ GatherFails(r) \/ RunEnds(r)
    <3>1. /\ UNCHANGED <<runner, tracker, status, mixed, rep, holds, attempt, saved, collector, key, restarts>>
          /\ \E to \in {"gathering", "done", "finishing"} : pc' = [pc EXCEPT ![r] = to]
          /\ pc[r] \in {"idle", "gathering", "running"}
      BY <2>1 DEF StartRun, GatherFails, RunEnds, Moves, tracked
    <3>2. TypeOK'
      BY <1>0, <3>1 DEF TypeOK
    <3>3. Same /\ Told /\ Listed
      BY <1>0, <1>2, <3>1
    <3> QED BY <3>1, <3>2, <3>3
  <2>2. CASE BeginRun(r) \/ GiveUp(r)
    <3>0. PICK st \in {"none", "failed"} : Clear(st)
      BY <2>2 DEF BeginRun, GiveUp
    <3>1. /\ tracker'.id = None /\ tracker'.state = st
          /\ mixed' = mixed \ {None} /\ status' = status
      BY <3>0 DEF Clear, NoReport
    <3>2. /\ UNCHANGED <<rep, holds, attempt, saved, collector, key, restarts>>
          /\ runner' \in {runner, r}
          /\ \E to \in {"running", "done"} : pc' = [pc EXCEPT ![r] = to]
          /\ pc[r] \in {"gathering", "finishing"}
      BY <2>2 DEF BeginRun, GiveUp, Moves
    <3>3. TypeOK'
      BY <1>0, <3>1, <3>2 DEF TypeOK, Statuses
    <3>4. Same /\ Told /\ Listed
      BY <1>0, <1>2, <1>n, <3>1, <3>2
    <3> QED BY <3>2, <3>3, <3>4
  <2>3. CASE SaveReport(r)
    <3> USE <2>3 DEF SaveReport, Moves
    <3>1. tracker'.id = r /\ tracker'.state = "saved"
      OBVIOUS
    <3>2. TypeOK'
      BY <1>0, <1>2, <3>1 DEF TypeOK, Statuses
    <3>3. Same /\ Told /\ Listed
      BY <1>0, <1>2, <3>1
    <3> QED BY <3>2, <3>3
  <2>4. CASE NoteNotUploaded(r)
    <3> USE <2>4 DEF NoteNotUploaded, Moves
    <3>1. PICK shown : shown = tracker.id
      OBVIOUS
    <3>2. PICK st \in Statuses : st = tracker.state
      BY <1>0 DEF TypeOK
    <3>3. /\ shown \in Run \cup {None} /\ st = "uploaded" => shown \in collector \/ shown \in mixed
      BY <1>0, <3>1, <3>2 DEF TypeOK, ShownIsThere
    <3>4. status' = IF shown = None THEN status ELSE [status EXCEPT ![shown] = st]
      BY <3>1, <3>2
    <3>5. status' \in [Report -> Statuses]
      BY <1>0, <3>4 DEF TypeOK
    <3>6. TypeOK'
      BY <1>0, <3>5 DEF TypeOK
    <3>7. Listed
      BY <1>0, <3>3, <3>4 DEF TypeOK
    <3>8. Same /\ Told
      BY <1>0, <1>2
    <3> QED BY <3>6, <3>7, <3>8
  <2> QED BY <1>4, <2>1, <2>2, <2>3, <2>4
<1>5. ASSUME NEW q \in Retry, AcceptRetry(q)
      PROVE  Holds
  <2> USE <1>5 DEF AcceptRetry, Moves, tracked
  <2>1. TypeOK'
    BY <1>0 DEF TypeOK
  <2>2. Same /\ Told /\ Listed
    BY <1>0, <1>2
  <2> QED BY <2>1, <2>2
<1>6. ASSUME NEW h \in Hardware, HardwareReport(h) \/ HardwareSent(h)
      PROVE  Holds
  <2>1. CASE HardwareReport(h)
    <3> USE <2>1 DEF HardwareReport, Moves, tracked
    <3>1. TypeOK'
      BY <1>0, <1>2 DEF TypeOK
    <3>2. Same /\ Told /\ Listed
      BY <1>0, <1>3
    <3> QED BY <3>1, <3>2
  <2>2. CASE HardwareSent(h)
    <3>0. PICK st \in {"failed", "uploaded", "saved"} :
              /\ status' = [status EXCEPT ![h] = st]
              /\ collector' = IF st = "uploaded" THEN collector \cup {h} ELSE collector
      BY <2>2 DEF HardwareSent
    <3> USE <2>2, <3>0 DEF HardwareSent, Moves
    <3>1. collector \subseteq collector' /\ collector' \subseteq Report
      BY <1>0, <1>2 DEF TypeOK
    <3>2. TypeOK'
      BY <1>0, <3>1 DEF TypeOK, Statuses
    <3>3. Same /\ Told
      BY <1>0, <1>3
    <3>4. Listed
      BY <1>0 DEF TypeOK
    <3> QED BY <3>1, <3>2, <3>3, <3>4
  <2> QED BY <1>6, <2>1, <2>2
<1>7. ASSUME NEW r \in Report, Delete(r)
      PROVE  Holds
  <2> USE <1>7 DEF Delete
  <2>1. TypeOK'
    BY <1>0 DEF TypeOK, Statuses
  <2>2. Same /\ Told
    OBVIOUS
  <2>3. Listed
    BY <1>0 DEF TypeOK
  <2> QED BY <2>1, <2>2, <2>3
<1>8. CASE SetKey
  <2> USE <1>8 DEF SetKey, tracked
  <2>1. TypeOK'
    BY <1>0 DEF TypeOK
  <2> QED BY <2>1
<1>9. CASE Restart
  <2>1. restarts' \in 0..MaxRestarts
    BY <1>0, <1>9, ReportsAssumption DEF Restart, TypeOK
  <2>2. key' \in BOOLEAN
    BY <1>0, <1>9 DEF Restart, TypeOK
  <2>3. /\ tracker'.id = None /\ tracker'.state = "none" /\ rep' = None /\ runner' = None
        /\ holds' \in [Uploader -> Run \cup {None}] /\ attempt' \in [Uploader -> 0..Retries]
        /\ mixed' = mixed \ {None} /\ UNCHANGED <<status, saved, collector>>
    BY <1>9, ReportsAssumption DEF Restart, Clear, NoReport
  <2>4. TypeOK'
    BY <1>0, <2>1, <2>2, <2>3 DEF TypeOK, Statuses
  <2>5. Told /\ Listed /\ collector \subseteq collector'
    BY <1>n, <2>3
  <2>6. pc' = [p \in Uploader \cup Hardware |-> IF pc[p] = "idle" THEN "idle" ELSE "done"]
    BY <1>9 DEF Restart
  <2>7. DOMAIN pc' = DOMAIN pc /\ \A u \in Uploader : pc'[u] \in {"idle", "done"}
    BY <1>0, <2>6
  <2> QED BY <2>4, <2>5, <2>7
<1> QED BY <1>4, <1>5, <1>6, <1>7, <1>8, <1>9 DEF ReportsNext

\* What the tracker says of uploads is so, for any runs with their resets of it,
\* retries and restarts (reporthandlers.go:57-59, 141-200; testrunhandlers.go:164-166):
\* UploadInv, with its exception, an upload of another report that was the last to tell.
THEOREM UploadsAreTold == ReportsSpec => []UploadInv
<1>1. ReportsInit => UploadIInv
  BY InitUploadIInv
<1>2. UploadIInv /\ [ReportsNext]_repVars => UploadIInv'
  <2>1. CASE UNCHANGED repVars
    BY <2>1 DEF UploadIInv, UploadInv, TypeOK, UploadedIsThere, ShownIsThere, UploadingIsAlive,
                HoldsWhatItUploads, repVars
  <2> QED BY <2>1, UploadStepKeeps, OthersStepKeeps
<1>3. UploadIInv => UploadInv
  BY DEF UploadIInv
<1> QED BY <1>1, <1>2, <1>3, PTL DEF ReportsSpec

-----------------------------------------------------------------------------
(***************************************************************************)
(* The diagnosis of a test.                                                *)
(***************************************************************************)

DiagSpec == DiagInit /\ [][DiagNext]_diagVars

\* The counters never go back, and a stop lies between the last sample and now.
CountersInOrder ==
    \A c \in Cause :
        /\ start[c] <= prev[c] /\ prev[c] <= health[c]
        /\ phase \in {"cooldown", "reported"} =>
              /\ unsampled[c] <= atStop[c] /\ start[c] <= atStop[c] - unsampled[c]
              /\ atStop[c] <= health[c]

\* A cause has begun when a sample before the stop found failures of this test.
BegunWhenSeen ==
    \A c \in Cause :
        /\ started[c] = IF c \in firstFailure THEN 1 ELSE 0
        /\ c \in firstFailure <=>
              start[c] < IF phase \in {"baseline", "load"} THEN prev[c] ELSE atStop[c] - unsampled[c]

\* The result is that of the counters, which have stopped counting.
ResultOfCounters ==
    phase = "reported" =>
        \A c \in Cause : /\ failures[c].count = health[c] - start[c]
                         /\ failures[c].afterStop = health[c] - atStop[c]
                         /\ failures[c].first <=> c \in firstFailure /\ health[c] # start[c]

\* The last n of the readings s were all over the threshold.
EndsOver(s, n) ==
    /\ s \in Seq(BOOLEAN) /\ Len(s) <= SaturatedSamples /\ n <= Len(s)
    /\ \A i \in DOMAIN s : i > Len(s) - n => s[i]

\* A streak counts the last readings, and the first full one ends the load.
StreaksAreReadings ==
    /\ DOMAIN lastReads = Metric
    /\ \A m \in Metric : EndsOver(lastReads[m], saturated[m])
    /\ stopReason = "none" => \A m \in Metric : saturated[m] < SaturatedSamples
    /\ stopReason \in Metric => saturated[stopReason] = SaturatedSamples

DiagIInv ==
    DiagTypeOK /\ CountersInOrder /\ BegunWhenSeen /\ ResultOfCounters /\ StreaksAreReadings

LEMMA DiagInvFollows == DiagIInv => DiagnosisInv
<1> SUFFICES ASSUME DiagIInv PROVE DiagnosisInv
  OBVIOUS
<1>0. DiagTypeOK /\ CountersInOrder /\ BegunWhenSeen /\ ResultOfCounters /\ StreaksAreReadings
  BY DEF DiagIInv
<1>1. CauseStartsOnce
  BY <1>0 DEF BegunWhenSeen, CauseStartsOnce
<1>2. FirstAtIsRight
  <2> SUFFICES ASSUME phase = "reported", NEW c \in Cause
               PROVE  failures[c].first <=> failures[c].count - failures[c].afterStop > unsampled[c]
    BY DEF FirstAtIsRight
  <2>1. health[c] \in Nat /\ start[c] \in Nat /\ atStop[c] \in Nat /\ unsampled[c] \in Nat
    BY <1>0, DiagnosticsAssumption DEF DiagTypeOK
  <2>2. failures[c].first <=> c \in firstFailure /\ health[c] # start[c]
    BY <1>0 DEF ResultOfCounters
  <2>3. failures[c].count - failures[c].afterStop = atStop[c] - start[c]
    BY <1>0, <2>1 DEF ResultOfCounters
  <2>4. c \in firstFailure <=> start[c] < atStop[c] - unsampled[c]
    BY <1>0 DEF BegunWhenSeen
  <2>5. start[c] <= atStop[c] - unsampled[c] /\ atStop[c] <= health[c]
    BY <1>0 DEF CountersInOrder
  <2> QED BY <2>1, <2>2, <2>3, <2>4, <2>5
<1>3. StopIsSustained
  <2> SUFFICES ASSUME stopReason \in Metric
               PROVE  /\ Len(lastReads[stopReason]) = SaturatedSamples
                      /\ \A i \in DOMAIN lastReads[stopReason] : lastReads[stopReason][i]
    BY DEF StopIsSustained
  <2>1. EndsOver(lastReads[stopReason], SaturatedSamples)
    BY <1>0 DEF StreaksAreReadings
  <2>2. PICK s : s = lastReads[stopReason]
    OBVIOUS
  <2>3. s \in Seq(BOOLEAN) /\ Len(s) = SaturatedSamples /\ \A i \in DOMAIN s : s[i]
    BY <2>1, <2>2, DiagnosticsAssumption DEF EndsOver
  <2> QED BY <2>2, <2>3
<1> QED BY <1>0, <1>1, <1>2, <1>3 DEF DiagnosisInv

\* One more reading: the streak goes on or begins anew.
LEMMA OneMoreReading ==
    ASSUME NEW s, NEW n \in Nat, n < SaturatedSamples, EndsOver(s, n), NEW b \in BOOLEAN
    PROVE  EndsOver(LastOnes(Append(s, b)), IF b THEN n + 1 ELSE 0)
<1>0. SaturatedSamples \in Nat \ {0} /\ s \in Seq(BOOLEAN)
  BY DiagnosticsAssumption DEF EndsOver
<1>1. PICK a \in Seq(BOOLEAN) : a = Append(s, b)
  BY <1>0, AppendProperties
<1>2. /\ Len(a) = Len(s) + 1 /\ a[Len(a)] = b /\ n <= Len(s)
      /\ \A i \in 1..Len(s) : i > Len(s) - n => a[i]
  BY <1>0, <1>1 DEF EndsOver
<1>3. EndsOver(a, IF b THEN n + 1 ELSE 0) \/ Len(a) > SaturatedSamples
  BY <1>0, <1>1, <1>2 DEF EndsOver
<1>4. CASE Len(a) > SaturatedSamples
  <2>0. a # << >>
    BY <1>0, <1>4
  <2>1. PICK t \in Seq(BOOLEAN) : t = Tail(a)
    BY <2>0, HeadTailProperties, Zenon
  <2>2. Len(t) = Len(s) /\ \A i \in 1..Len(t) : t[i] = a[i + 1]
    BY <1>0, <1>1, <1>2, <2>1
  <2>3. Len(s) = SaturatedSamples
    BY <1>0, <1>2, <1>4 DEF EndsOver
  <2>4. EndsOver(t, IF b THEN n + 1 ELSE 0)
    BY <1>0, <1>2, <2>1, <2>2, <2>3 DEF EndsOver
  <2> QED BY <1>1, <1>4, <2>1, <2>4 DEF LastOnes
<1> QED BY <1>1, <1>3, <1>4 DEF LastOnes

LEMMA InitDiagIInv == DiagInit => DiagIInv
<1> SUFFICES ASSUME DiagInit PROVE DiagIInv
  OBVIOUS
<1> USE DiagnosticsAssumption DEF DiagInit, Zero
<1>0. \A c \in Cause : health[c] \in 0..1 /\ start[c] = health[c] /\ prev[c] = health[c]
  OBVIOUS
<1>1. DiagTypeOK
  BY DEF DiagTypeOK, NoFailures
<1>2. CountersInOrder /\ BegunWhenSeen /\ ResultOfCounters
  BY <1>0 DEF CountersInOrder, BegunWhenSeen, ResultOfCounters
<1>3. StreaksAreReadings
  <2>1. EndsOver(<< >>, 0)
    BY DEF EndsOver
  <2>2. /\ DOMAIN lastReads = Metric /\ stopReason \notin Metric
        /\ \A m \in Metric : lastReads[m] = << >> /\ saturated[m] = 0
    BY DEF Metric
  <2> QED BY <2>1, <2>2 DEF StreaksAreReadings
<1> QED BY <1>1, <1>2, <1>3 DEF DiagIInv

\* A sample looks at the counters: what it diagnoses, it remembers.
LEMMA DiagnoseKeeps ==
    ASSUME DiagIInv, phase \in {"load", "cooldown"}, Diagnose,
           UNCHANGED <<phase, health, start, atStop, unsampled>>
    PROVE  /\ prev' \in [Cause -> 0..MaxFailures] /\ firstFailure' \subseteq Cause
           /\ started' \in [Cause -> Nat]
           /\ CountersInOrder' /\ BegunWhenSeen'
<1>0. DiagTypeOK /\ CountersInOrder /\ BegunWhenSeen
  BY DEF DiagIInv
<1>1. /\ prev' = health /\ firstFailure' = firstFailure \cup {c \in Diagnosed : Begins(c)}
      /\ started' = [c \in Cause |-> IF c \in {d \in Diagnosed : Begins(d)} THEN started[c] + 1
                                                                            ELSE started[c]]
  BY DEF Diagnose
<1>2. Diagnosed \subseteq Cause /\ (phase = "cooldown" => Diagnosed = {}) /\ (phase = "load" => Diagnosed = Cause)
  BY DEF Diagnosed
<1>3. /\ prev' \in [Cause -> 0..MaxFailures] /\ firstFailure' \subseteq Cause
      /\ started' \in [Cause -> Nat]
  BY <1>0, <1>1, <1>2 DEF DiagTypeOK
<1>4. ASSUME NEW c \in Cause
      PROVE  health[c] \in Nat /\ start[c] \in Nat /\ prev[c] \in Nat /\ start[c] <= prev[c] /\ prev[c] <= health[c]
  BY <1>0, DiagnosticsAssumption DEF DiagTypeOK, CountersInOrder
<1>5. CountersInOrder'
  BY <1>0, <1>1, <1>4 DEF CountersInOrder
<1>6. BegunWhenSeen'
  <2> SUFFICES ASSUME NEW c \in Cause
               PROVE  /\ started'[c] = IF c \in firstFailure' THEN 1 ELSE 0
                      /\ c \in firstFailure' <=>
                           start[c] < IF phase \in {"baseline", "load"} THEN prev'[c]
                                                                        ELSE atStop[c] - unsampled[c]
    BY DEF BegunWhenSeen
  <2>1. /\ started[c] = IF c \in firstFailure THEN 1 ELSE 0
        /\ c \in firstFailure <=>
              start[c] < IF phase \in {"baseline", "load"} THEN prev[c] ELSE atStop[c] - unsampled[c]
    BY <1>0 DEF BegunWhenSeen
  <2>2. CASE phase = "cooldown"
    BY <1>1, <1>2, <2>1, <2>2
  <2>3. CASE phase = "load"
    <3>1. c \in firstFailure <=> start[c] < prev[c]
      BY <2>1, <2>3
    <3>2. c \in firstFailure' <=> c \in firstFailure \/ Begins(c)
      BY <1>1, <1>2, <2>3
    <3>3. Begins(c) <=> start[c] < health[c] /\ c \notin firstFailure
      BY <1>4, <3>1 DEF Begins
    <3>4. started'[c] = IF Begins(c) THEN started[c] + 1 ELSE started[c]
      BY <1>1, <1>2, <2>3
    <3>5. prev'[c] = health[c]
      BY <1>1
    <3>6. c \in firstFailure' <=> start[c] < prev'[c]
      BY <1>4, <3>1, <3>2, <3>3, <3>5
    <3>7. started'[c] = IF c \in firstFailure' THEN 1 ELSE 0
      BY <2>1, <3>2, <3>3, <3>4
    <3> QED BY <2>3, <3>6, <3>7
  <2> QED BY <2>2, <2>3
<1> QED BY <1>3, <1>5, <1>6

LEMMA LoadSampleKeeps == DiagIInv /\ LoadSample => DiagIInv'
<1> SUFFICES ASSUME DiagIInv, LoadSample PROVE DiagIInv'
  OBVIOUS
<1>0. DiagTypeOK /\ ResultOfCounters /\ StreaksAreReadings
  BY DEF DiagIInv
<1>1. /\ phase = "load" /\ stopReason = "none" /\ samples' = samples + 1 /\ samples < MaxSamples /\ Diagnose
      /\ UNCHANGED <<phase, health, start, atStop, failures, unsampled>>
  BY DEF LoadSample
<1>2. PICK r \in Readings :
        /\ saturated' = [m \in Metric |-> IF m \in Looked(r) THEN Streak(m, r.over) ELSE saturated[m]]
        /\ lastReads' = [m \in Metric |->
                IF m \in Looked(r) THEN LastOnes(Append(lastReads[m], m \in r.over)) ELSE lastReads[m]]
        /\ LET full == {m \in Metric : Full(saturated'[m])}
           IN  IF full = {} THEN UNCHANGED stopReason ELSE stopReason' \in full
  BY DEF LoadSample
<1>3. /\ prev' \in [Cause -> 0..MaxFailures] /\ firstFailure' \subseteq Cause
      /\ started' \in [Cause -> Nat] /\ CountersInOrder' /\ BegunWhenSeen'
  BY <1>1, DiagnoseKeeps
<1>4. \A m \in Metric : /\ saturated[m] \in Nat /\ saturated[m] < SaturatedSamples
                        /\ EndsOver(lastReads[m], saturated[m])
  BY <1>0, <1>1 DEF DiagTypeOK, StreaksAreReadings
<1>5. \A m \in Metric : /\ saturated'[m] \in 0..SaturatedSamples
                        /\ EndsOver(lastReads'[m], saturated'[m])
  <2> TAKE m \in Metric
  <2>1. CASE m \in Looked(r)
    <3>0. (m \in r.over) \in BOOLEAN
      OBVIOUS
    <3>1. PICK b \in BOOLEAN : b = (m \in r.over)
      BY <3>0, Zenon
    <3>2. PICK n \in Nat : n = saturated[m] /\ n < SaturatedSamples
      BY <1>4
    <3>3. PICK s : s = lastReads[m]
      OBVIOUS
    <3>4. EndsOver(s, n)
      BY <1>4, <3>2, <3>3
    <3>5. EndsOver(LastOnes(Append(s, b)), IF b THEN n + 1 ELSE 0)
      BY <3>2, <3>4, OneMoreReading
    <3>6. saturated'[m] = IF b THEN n + 1 ELSE 0
      BY <1>2, <2>1, <3>1, <3>2 DEF Streak
    <3>7. lastReads'[m] = LastOnes(Append(s, b))
      BY <1>2, <2>1, <3>1, <3>3
    <3>8. EndsOver(lastReads'[m], saturated'[m])
      BY <3>5, <3>6, <3>7, Zenon
    <3> QED BY <3>2, <3>6, <3>8, DiagnosticsAssumption
  <2>2. CASE m \notin Looked(r)
    <3>1. saturated'[m] = saturated[m] /\ lastReads'[m] = lastReads[m]
      BY <1>2, <2>2
    <3>2. EndsOver(lastReads'[m], saturated'[m])
      BY <1>4, <3>1, Zenon
    <3> QED BY <1>4, <3>1, <3>2, DiagnosticsAssumption
  <2> QED BY <2>1, <2>2
<1>6. /\ stopReason' = "none" => \A m \in Metric : saturated'[m] < SaturatedSamples
      /\ stopReason' \in Metric => saturated'[stopReason'] = SaturatedSamples
      /\ stopReason' \in Metric \cup {"none"}
  <2> DEFINE full == {m \in Metric : Full(saturated'[m])}
  <2>1. IF full = {} THEN UNCHANGED stopReason ELSE stopReason' \in full
    BY <1>2
  <2>2. \A m \in Metric : m \in full <=> saturated'[m] = SaturatedSamples
    BY <1>5, DiagnosticsAssumption DEF Full
  <2>3. "none" \notin Metric
    BY DiagnosticsAssumption DEF Metric
  <2>4. CASE full = {}
    <3>1. stopReason' = "none"
      BY <1>1, <2>1, <2>4
    <3>2. \A m \in Metric : saturated'[m] < SaturatedSamples
      BY <1>5, <2>2, <2>4, DiagnosticsAssumption
    <3> QED BY <2>3, <3>1, <3>2
  <2>5. CASE full # {}
    <3>1. stopReason' \in Metric /\ saturated'[stopReason'] = SaturatedSamples
      BY <2>1, <2>2, <2>5
    <3> QED BY <2>3, <3>1
  <2> QED BY <2>4, <2>5
<1>7. saturated' \in [Metric -> 0..SaturatedSamples] /\ DOMAIN lastReads' = Metric
  <2>1. DOMAIN saturated' = Metric /\ DOMAIN lastReads' = Metric
    BY <1>2
  <2>2. saturated' = [m \in Metric |-> saturated'[m]]
    BY <1>2
  <2> QED BY <1>5, <2>1, <2>2
<1>8. DiagTypeOK'
  BY <1>0, <1>1, <1>3, <1>6, <1>7, DiagnosticsAssumption DEF DiagTypeOK
<1>9. StreaksAreReadings'
  BY <1>5, <1>6, <1>7 DEF StreaksAreReadings
<1>10. ResultOfCounters'
  BY <1>1 DEF ResultOfCounters
<1> QED BY <1>3, <1>8, <1>9, <1>10 DEF DiagIInv

LEMMA DiagStepKeeps == DiagIInv /\ [DiagNext]_diagVars => DiagIInv'
<1> SUFFICES ASSUME DiagIInv, [DiagNext]_diagVars PROVE DiagIInv'
  OBVIOUS
<1>0. DiagTypeOK /\ CountersInOrder /\ BegunWhenSeen /\ ResultOfCounters /\ StreaksAreReadings
  BY DEF DiagIInv
<1>n. \A c \in Cause : /\ health[c] \in Nat /\ start[c] \in Nat /\ prev[c] \in Nat /\ atStop[c] \in Nat
                       /\ unsampled[c] \in Nat /\ health[c] <= MaxFailures
                       /\ start[c] <= prev[c] /\ prev[c] <= health[c]
  BY <1>0, DiagnosticsAssumption DEF DiagTypeOK, CountersInOrder
<1>1. ASSUME NEW c \in Cause, CallFails(c) PROVE DiagIInv'
  <2>1. /\ phase # "reported" /\ health[c] < MaxFailures /\ health' = [health EXCEPT ![c] = @ + 1]
        /\ UNCHANGED <<phase, samples, start, atStop, sampled, stopReason, failures, unsampled>>
    BY <1>1 DEF CallFails
  <2>2. health' \in [Cause -> 0..MaxFailures] /\ \A d \in Cause : health[d] <= health'[d]
    BY <1>0, <1>n, <2>1, DiagnosticsAssumption DEF DiagTypeOK
  <2>n. \A d \in Cause : health'[d] \in Nat
    BY <2>2, DiagnosticsAssumption
  <2>3. DiagTypeOK'
    BY <1>0, <2>1, <2>2 DEF DiagTypeOK, sampled
  <2>4. CountersInOrder'
    <3> SUFFICES ASSUME NEW d \in Cause
                 PROVE  /\ start[d] <= prev[d] /\ prev[d] <= health'[d]
                        /\ phase \in {"cooldown", "reported"} =>
                              /\ unsampled[d] <= atStop[d] /\ start[d] <= atStop[d] - unsampled[d]
                              /\ atStop[d] <= health'[d]
      BY <2>1 DEF CountersInOrder, sampled
    <3> QED BY <1>0, <1>n, <2>2, <2>n DEF CountersInOrder
  <2>5. BegunWhenSeen'
    BY <1>0, <2>1 DEF BegunWhenSeen, sampled
  <2>6. ResultOfCounters'
    BY <2>1 DEF ResultOfCounters
  <2>7. StreaksAreReadings'
    BY <1>0, <2>1 DEF StreaksAreReadings, sampled
  <2> QED BY <2>3, <2>4, <2>5, <2>6, <2>7 DEF DiagIInv
<1>2. CASE BaselineOver
  <2> USE <1>0, <1>2 DEF BaselineOver, sampled
  <2>1. DiagTypeOK'
    BY DEF DiagTypeOK
  <2>2. CountersInOrder' /\ ResultOfCounters'
    BY DEF CountersInOrder, ResultOfCounters
  <2>3. BegunWhenSeen' /\ StreaksAreReadings'
    BY DEF BegunWhenSeen, StreaksAreReadings
  <2> QED BY <2>1, <2>2, <2>3 DEF DiagIInv
<1>3. CASE LoadSample
  BY <1>3, LoadSampleKeeps
<1>4. CASE IdleSample
  <2>1. phase = "cooldown" /\ Diagnose
        /\ UNCHANGED <<phase, samples, health, start, atStop, saturated, lastReads, stopReason, failures, unsampled>>
    BY <1>4 DEF IdleSample
  <2>2. /\ prev' \in [Cause -> 0..MaxFailures] /\ firstFailure' \subseteq Cause
        /\ started' \in [Cause -> Nat] /\ CountersInOrder' /\ BegunWhenSeen'
    BY <2>1, DiagnoseKeeps
  <2>3. DiagTypeOK'
    BY <1>0, <2>1, <2>2 DEF DiagTypeOK
  <2>4. ResultOfCounters' /\ StreaksAreReadings'
    BY <1>0, <2>1 DEF ResultOfCounters, StreaksAreReadings
  <2> QED BY <2>2, <2>3, <2>4 DEF DiagIInv
<1>5. CASE StopPlacing
  <2>1. /\ phase = "load" /\ phase' = "cooldown" /\ atStop' = health
        /\ stopReason' = IF stopReason = "none" THEN "other" ELSE stopReason
        /\ unsampled' = [c \in Cause |-> health[c] - prev[c]]
        /\ UNCHANGED <<samples, health, start, sampled, failures>>
    BY <1>5 DEF StopPlacing
  <2>2. ASSUME NEW c \in Cause
        PROVE  /\ unsampled'[c] = health[c] - prev[c] /\ unsampled'[c] \in 0..MaxFailures
               /\ atStop'[c] = health[c] /\ atStop'[c] - unsampled'[c] = prev[c]
    <3>1. unsampled'[c] = health[c] - prev[c] /\ atStop'[c] = health[c]
      BY <2>1
    <3> QED BY <1>n, <3>1, DiagnosticsAssumption
  <2>3. unsampled' \in [Cause -> 0..MaxFailures]
    BY <2>1, <2>2
  <2>4. DiagTypeOK'
    BY <1>0, <2>1, <2>3 DEF DiagTypeOK, sampled
  <2>5. CountersInOrder'
    <3> SUFFICES ASSUME NEW c \in Cause
                 PROVE  /\ start[c] <= prev[c] /\ prev[c] <= health[c] /\ unsampled'[c] <= atStop'[c]
                        /\ start[c] <= atStop'[c] - unsampled'[c] /\ atStop'[c] <= health[c]
      BY <2>1 DEF CountersInOrder, sampled
    <3> QED BY <1>n, <2>2
  <2>6. BegunWhenSeen'
    <3> SUFFICES ASSUME NEW c \in Cause
                 PROVE  /\ started[c] = IF c \in firstFailure THEN 1 ELSE 0
                        /\ c \in firstFailure <=> start[c] < atStop'[c] - unsampled'[c]
      BY <2>1 DEF BegunWhenSeen, sampled
    <3>1. /\ started[c] = IF c \in firstFailure THEN 1 ELSE 0
          /\ c \in firstFailure <=> start[c] < prev[c]
      BY <1>0, <2>1 DEF BegunWhenSeen
    <3> QED BY <2>2, <3>1
  <2>7. ResultOfCounters'
    BY <2>1 DEF ResultOfCounters
  <2>8. StreaksAreReadings'
    <3>1. "none" # "other" /\ "other" \notin Metric
      BY DiagnosticsAssumption DEF Metric
    <3> QED BY <1>0, <2>1, <3>1 DEF StreaksAreReadings, sampled
  <2> QED BY <2>4, <2>5, <2>6, <2>7, <2>8 DEF DiagIInv
<1>6. CASE FinishDiagnostics
  <2>1. /\ phase = "cooldown" /\ phase' = "reported"
        /\ failures' = [c \in Cause |-> [count |-> health[c] - start[c], afterStop |-> health[c] - atStop[c],
                                         first |-> c \in firstFailure /\ health[c] # start[c]]]
        /\ UNCHANGED <<samples, health, start, atStop, sampled, stopReason, unsampled>>
    BY <1>6 DEF FinishDiagnostics
  <2>2. DiagTypeOK'
    BY <1>0, <2>1 DEF DiagTypeOK, sampled
  <2>3. CountersInOrder'
    BY <1>0, <2>1 DEF CountersInOrder, sampled
  <2>4. BegunWhenSeen' /\ StreaksAreReadings'
    BY <1>0, <2>1 DEF BegunWhenSeen, StreaksAreReadings, sampled
  <2>5. ResultOfCounters'
    BY <2>1 DEF ResultOfCounters, sampled
  <2> QED BY <2>2, <2>3, <2>4, <2>5 DEF DiagIInv
<1>7. CASE UNCHANGED diagVars
  <2> USE <1>0, <1>7 DEF diagVars, sampled
  <2>1. DiagTypeOK'
    BY DEF DiagTypeOK
  <2>2. CountersInOrder' /\ ResultOfCounters'
    BY DEF CountersInOrder, ResultOfCounters
  <2>3. BegunWhenSeen' /\ StreaksAreReadings'
    BY DEF BegunWhenSeen, StreaksAreReadings
  <2> QED BY <2>1, <2>2, <2>3 DEF DiagIInv
<1> QED BY <1>1, <1>2, <1>3, <1>4, <1>5, <1>6, <1>7 DEF DiagNext

\* The diagnosis of a test is true of its samples and failures, for any causes,
\* metrics and thresholds (diagnostics.go:40-60, runner.go:160-170): DiagnosisInv.
THEOREM DiagnosisIsTrue == DiagSpec => []DiagnosisInv
<1> QED BY InitDiagIInv, DiagStepKeeps, DiagInvFollows, PTL DEF DiagSpec

-----------------------------------------------------------------------------
(***************************************************************************)
(* What the call records say of the calls.                                 *)
(***************************************************************************)

QualitySpec == QualityInit /\ [][QualityNext]_qualityVars

\* How many of the rows R are newer than c.
NewerIn(R, c) == Cardinality({d \in R : d > c})

\* A recording that was available when the reading began has been read as such, or is
\* on a page still to come: CDRs written meanwhile only push it further back.
ReadOrToCome ==
    /\ began \subseteq converted
    /\ out \subseteq [call : CallNo, available : BOOLEAN]
    /\ IF polling = "read" THEN polls < MaxPolls ELSE began = {}
    /\ \A c \in began : \/ [call |-> c, available |-> TRUE] \in out
                        \/ page > 0 /\ NewerIn(Rows, c) >= (page - 1) * PageSize

\* Once finish has filled in what is missing, no poll is running or begun.
PollsAreOver == missing # NotYet => polling = "done"

\* The chunks so far end where the next one starts.
ChunksSoFar ==
    /\ report \in {NotYet} \cup [stage : {"chunks", "done"}, n : Nat \ {0}, start : Nat, chunks : Seq(Nat \X Nat)]
    /\ report.stage = "chunks" =>
          IF report.start = 0 THEN report.chunks = << >>
          ELSE /\ report.chunks # << >>
               /\ Last(report.chunks)[2] = IF report.start > report.n THEN report.n ELSE report.start

LEMMA NewerProperties ==
    ASSUME NEW R \in SUBSET Int, IsFiniteSet(R), NEW c \in Int
    PROVE  /\ NewerIn(R, c) \in Nat
           /\ c \in R => NewerIn(R, c) < Cardinality(R)
           /\ \A e \in Int : e <= c => NewerIn(R, c) <= NewerIn(R, e)
           /\ \A Q \in SUBSET R : NewerIn(Q, c) <= NewerIn(R, c)
<1> DEFINE After(Q, x) == {d \in Q : d > x}
<1>1. \A Q \in SUBSET R : \A x : /\ IsFiniteSet(After(Q, x)) /\ Cardinality(After(Q, x)) \in Nat
  <2> TAKE Q \in SUBSET R
  <2> TAKE x
  <2>1. After(Q, x) \in SUBSET R
    OBVIOUS
  <2> QED BY <2>1, FS_Subset, FS_CardinalityType
<1>2. NewerIn(R, c) \in Nat
  BY <1>1 DEF NewerIn
<1>3. ASSUME c \in R PROVE NewerIn(R, c) < Cardinality(R)
  <2>1. After(R, c) \in SUBSET R /\ c \notin After(R, c)
    OBVIOUS
  <2>2. Cardinality(After(R, c)) <= Cardinality(R) /\ Cardinality(After(R, c)) # Cardinality(R)
    BY <1>3, <2>1, FS_Subset
  <2>3. Cardinality(After(R, c)) \in Nat /\ Cardinality(R) \in Nat
    BY <1>1, FS_CardinalityType
  <2> QED BY <2>2, <2>3 DEF NewerIn
<1>4. ASSUME NEW e \in Int, e <= c PROVE NewerIn(R, c) <= NewerIn(R, e)
  <2>0. \A d \in R : d > c => d > e
    BY <1>4
  <2>1. After(R, c) \in SUBSET After(R, e)
    BY <2>0
  <2> QED BY <1>1, <2>1, FS_Subset DEF NewerIn
<1>5. ASSUME NEW Q \in SUBSET R PROVE NewerIn(Q, c) <= NewerIn(R, c)
  <2>1. After(Q, c) \in SUBSET After(R, c)
    OBVIOUS
  <2> QED BY <1>1, <2>1, FS_Subset DEF NewerIn
<1> QED BY <1>2, <1>3, <1>4, <1>5

\* All CDRs are finitely many, at most those of the test and the older ones.
LEMMA RowsFinite ==
    ASSUME NEW w \in SUBSET CallNo, NEW R, R = w \cup (1 - Older)..0
    PROVE  /\ R \in SUBSET Int /\ IsFiniteSet(R)
           /\ Cardinality(R) \in Nat /\ Cardinality(R) <= N + Older
<1> DEFINE All == (1 - Older)..N
<1>1. R \in SUBSET All
  BY CallQualityAssumption DEF CallNo
<1>2. IsFiniteSet(All) /\ Cardinality(All) = IF 1 - Older > N THEN 0 ELSE N - (1 - Older) + 1
  BY FS_Interval, CallQualityAssumption
<1>3. IsFiniteSet(R) /\ Cardinality(R) <= Cardinality(All)
  BY <1>1, <1>2, FS_Subset
<1>4. Cardinality(R) \in Nat
  BY <1>3, FS_CardinalityType
<1>5. Cardinality(All) <= N + Older
  BY <1>2, CallQualityAssumption
<1>6. Cardinality(All) \in Int
  BY <1>2, CallQualityAssumption
<1>7. All \in SUBSET Int
  OBVIOUS
<1> HIDE DEF All
<1> QED BY <1>1, <1>3, <1>4, <1>5, <1>6, <1>7, CallQualityAssumption

LEMMA PagesBound ==
    ASSUME NEW p \in Nat, NEW size \in Nat \ {0}, NEW m \in Nat, p * size < m
    PROVE  p <= m \div size
<1> DEFINE q == m \div size
           rest == m % size
<1>1. q \in Nat /\ rest \in 0..(size - 1) /\ m = size * q + rest
  OBVIOUS
<1> HIDE DEF q, rest
<1> SUFFICES ASSUME p > q PROVE FALSE
  BY <1>1 DEF q
<1>2. p * size >= (q + 1) * size
  BY <1>1
<1>3. (q + 1) * size = size * q + size
  BY <1>1
<1>4. p * size \in Nat /\ (q + 1) * size \in Nat /\ size * q \in Nat
  BY <1>1
<1> QED BY <1>1, <1>2, <1>3, <1>4

LEMMA ReadPageKeeps ==
    ASSUME QualityTypeOK, ReadOrToCome, ReadPage
    PROVE  QualityTypeOK' /\ ReadOrToCome'
<1>0. /\ polling = "read" /\ page > 0 /\ out' = Kept(PageRows(page))
      /\ page' = IF LastPage(PageRows(page)) THEN 0 ELSE page + 1
      /\ UNCHANGED <<written, converted, polling, cdrs, firstAvail, polls, stopped, missing, promised,
                     began, match, report>>
  BY DEF ReadPage
<1>1. page \in Nat /\ page \in 0..(1 + (N + Older) \div PageSize) /\ PageSize \in Nat \ {0}
      /\ N + Older \in Nat /\ (N + Older) \div PageSize \in Nat
  BY CallQualityAssumption DEF QualityTypeOK
<1>2. /\ Rows \in SUBSET Int /\ IsFiniteSet(Rows)
      /\ Cardinality(Rows) \in Nat /\ Cardinality(Rows) <= N + Older
  BY RowsFinite DEF QualityTypeOK, Rows
<1>3. ~LastPage(PageRows(page)) => page <= (N + Older) \div PageSize
  <2> SUFFICES ASSUME ~LastPage(PageRows(page)) PROVE page <= (N + Older) \div PageSize
    OBVIOUS
  <2>1. page * PageSize < Cardinality(Rows)
    BY <1>1, <1>2 DEF LastPage
  <2>2. page * PageSize < N + Older
    BY <1>1, <1>2, <2>1
  <2> QED BY <1>1, <2>2, PagesBound
<1>4. page' \in 0..(1 + (N + Older) \div PageSize)
  BY <1>0, <1>1, <1>3
<1>5. QualityTypeOK'
  BY <1>0, <1>4 DEF QualityTypeOK
<1>6. out \subseteq out' /\ out' \subseteq [call : CallNo, available : BOOLEAN]
  <2>1. \A c \in PageRows(page) : c > 0 => c \in CallNo
    <3>1. \A c \in Rows : c > 0 => c \in written
      BY CallQualityAssumption DEF Rows
    <3> QED BY <3>1 DEF PageRows, QualityTypeOK
  <2>2. ASSUME NEW c \in CallNo
        PROVE  [call |-> c, available |-> c \in converted] \in [call : CallNo, available : BOOLEAN]
    <3>1. PICK b \in BOOLEAN : b <=> c \in converted
      OBVIOUS
    <3>2. b = (c \in converted)
      BY <3>1
    <3>3. [call |-> c, available |-> b] \in [call : CallNo, available : BOOLEAN]
      OBVIOUS
    <3> QED BY <3>2, <3>3
  <2>3. {[call |-> c, available |-> c \in converted] : c \in {x \in PageRows(page) : x > 0}}
           \subseteq [call : CallNo, available : BOOLEAN]
    BY <2>1, <2>2
  <2> QED BY <1>0, <2>3 DEF Kept, ReadOrToCome
<1>7. ASSUME NEW c \in began
      PROVE  \/ [call |-> c, available |-> TRUE] \in out'
             \/ page' > 0 /\ NewerIn(Rows, c) >= (page' - 1) * PageSize
  <2>1. c \in converted /\ c \in Rows /\ c \in Int /\ c > 0
    BY CallQualityAssumption DEF ReadOrToCome, QualityTypeOK, Rows, CallNo
  <2>2. CASE [call |-> c, available |-> TRUE] \in out
    BY <1>6, <2>2
  <2>3. CASE NewerIn(Rows, c) >= (page - 1) * PageSize
    <3>1. /\ NewerIn(Rows, c) \in Nat /\ NewerIn(Rows, c) < Cardinality(Rows)
          /\ \A e \in Int : e <= c => NewerIn(Rows, c) <= NewerIn(Rows, e)
      BY <1>2, <2>1, NewerProperties
    <3>2. page * PageSize \in Nat
      BY <1>1
    <3>3. CASE NewerIn(Rows, c) < page * PageSize
      <4>1. c \in PageRows(page)
        BY <2>1, <2>3, <3>3 DEF PageRows, NewerIn
      <4>2. (c \in converted) = TRUE
        BY <2>1
      <4>3. [call |-> c, available |-> TRUE] \in Kept(PageRows(page))
        BY <2>1, <4>1, <4>2 DEF Kept
      <4> QED BY <1>0, <4>3
    <3>4. CASE NewerIn(Rows, c) >= page * PageSize
      <4>1. ~(page * PageSize >= Cardinality(Rows))
        BY <1>2, <3>1, <3>2, <3>4
      <4>2. ASSUME NEW e \in PageRows(page), e <= 0 PROVE FALSE
        <5>1. e \in Int /\ NewerIn(Rows, e) < page * PageSize
          BY <1>2 DEF PageRows, NewerIn
        <5>2. NewerIn(Rows, c) <= NewerIn(Rows, e)
          BY <2>1, <3>1, <4>2, <5>1
        <5>3. NewerIn(Rows, e) \in Nat
          BY <1>2, <5>1, NewerProperties
        <5> QED BY <3>1, <3>2, <3>4, <5>1, <5>2, <5>3
      <4>3. ~LastPage(PageRows(page))
        BY <4>1, <4>2 DEF LastPage
      <4>4. page' = page + 1
        BY <1>0, <4>3
      <4>5. page' > 0 /\ page' - 1 = page
        BY <1>1, <4>4
      <4> QED BY <3>4, <4>5
    <3> QED BY <3>1, <3>2, <3>3, <3>4
  <2> QED BY <2>2, <2>3 DEF ReadOrToCome
<1>8. Rows' = Rows
  BY <1>0 DEF Rows
<1>9. ReadOrToCome'
  <2>1. \A c \in began' : \/ [call |-> c, available |-> TRUE] \in out'
                          \/ page' > 0 /\ NewerIn(Rows', c) >= (page' - 1) * PageSize
    BY <1>0, <1>7, <1>8
  <2> QED BY <1>0, <1>6, <2>1 DEF ReadOrToCome
<1> QED BY <1>5, <1>9

\* CDRs and recordings appear while pages are read.
LEMMA PBXwareKeeps ==
    ASSUME QualityTypeOK, ReadOrToCome, written \subseteq written', converted \subseteq converted',
           converted' \subseteq written', written' \subseteq CallNo,
           UNCHANGED <<polling, page, out, cdrs, firstAvail, polls, stopped, began>>
    PROVE  QualityTypeOK' /\ ReadOrToCome'
<1>1. QualityTypeOK'
  BY DEF QualityTypeOK
<1>2. Rows \in SUBSET Rows'
  BY DEF Rows
<1>3. Rows' \in SUBSET Int /\ IsFiniteSet(Rows')
  <2>1. written' \in SUBSET CallNo /\ Rows' = written' \cup (1 - Older)..0
    BY DEF Rows
  <2> QED BY ONLY <2>1, RowsFinite
<1>4. ASSUME NEW c \in began
      PROVE  \/ [call |-> c, available |-> TRUE] \in out
             \/ page > 0 /\ NewerIn(Rows', c) >= (page - 1) * PageSize
  <2>1. c \in Int
    BY CallQualityAssumption DEF ReadOrToCome, QualityTypeOK, CallNo
  <2>2. Rows \in SUBSET Int /\ IsFiniteSet(Rows)
    BY <1>2, <1>3, FS_Subset
  <2>3. NewerIn(Rows, c) \in Nat /\ NewerIn(Rows', c) \in Nat
    BY <1>3, <2>1, <2>2, NewerProperties
  <2>4. NewerIn(Rows, c) <= NewerIn(Rows', c)
    BY <1>2, <1>3, <2>1, NewerProperties
  <2>5. (page - 1) * PageSize \in Int
    BY CallQualityAssumption DEF QualityTypeOK
  <2>6. \/ [call |-> c, available |-> TRUE] \in out
        \/ page > 0 /\ NewerIn(Rows, c) >= (page - 1) * PageSize
    BY DEF ReadOrToCome
  <2> QED BY <2>3, <2>4, <2>5, <2>6
<1>5. ReadOrToCome'
  <2>1. \A c \in began' : \/ [call |-> c, available |-> TRUE] \in out'
                          \/ page' > 0 /\ NewerIn(Rows', c) >= (page' - 1) * PageSize
    BY <1>4
  <2> QED BY <2>1 DEF ReadOrToCome
<1> QED BY <1>1, <1>5

PollerIInv ==
    QualityTypeOK /\ ReadOrToCome /\ NothingMissed /\ MissingIsFinal /\ PollsAreOver

LEMMA PollerKeeps == PollerIInv /\ QualityNext => PollerIInv'
<1> SUFFICES ASSUME PollerIInv, QualityNext PROVE PollerIInv'
  OBVIOUS
<1>0. QualityTypeOK /\ ReadOrToCome /\ NothingMissed /\ MissingIsFinal /\ PollsAreOver
  BY DEF PollerIInv
<1> USE <1>0
<1>1. ASSUME NEW c \in CallNo, WriteCDR(c) \/ Convert(c) PROVE PollerIInv'
  <2>1. /\ written \subseteq written' /\ converted \subseteq converted'
        /\ converted' \subseteq written' /\ written' \subseteq CallNo
        /\ UNCHANGED <<poller, stopped, missing, promised, began>>
    BY <1>1 DEF WriteCDR, Convert, QualityTypeOK
  <2>2. QualityTypeOK' /\ ReadOrToCome'
    BY <2>1, PBXwareKeeps DEF poller
  <2>3. NothingMissed' /\ MissingIsFinal' /\ PollsAreOver'
    BY <2>1 DEF NothingMissed, MissingIsFinal, PollsAreOver, poller
  <2> QED BY <2>2, <2>3 DEF PollerIInv
<1>2. CASE BeginPoll
  <2>1. /\ polling = "wait" /\ polls < MaxPolls /\ polling' = "read" /\ page' = 1 /\ out' = {} /\ began' = converted
        /\ UNCHANGED <<written, converted, cdrs, firstAvail, polls, stopped, missing, promised>>
    BY <1>2 DEF BeginPoll
  <2>2. (N + Older) \div PageSize \in Nat
    BY CallQualityAssumption
  <2>3. QualityTypeOK'
    BY <2>1, <2>2 DEF QualityTypeOK
  <2>4. \A c \in began' : page' > 0 /\ NewerIn(Rows', c) >= (page' - 1) * PageSize
    <3> TAKE c \in began'
    <3>1. written \in SUBSET CallNo /\ Rows = written \cup (1 - Older)..0
      BY DEF QualityTypeOK, Rows
    <3>2. Rows \in SUBSET Int /\ IsFiniteSet(Rows)
      BY ONLY <3>1, RowsFinite
    <3>3. c \in Int
      BY <2>1, CallQualityAssumption DEF QualityTypeOK, CallNo
    <3>4. NewerIn(Rows, c) \in Nat
      BY <3>2, <3>3, NewerProperties
    <3>5. Rows' = Rows /\ (page' - 1) * PageSize = 0
      BY <2>1, CallQualityAssumption DEF Rows
    <3> QED BY <2>1, <3>4, <3>5
  <2>5. ReadOrToCome'
    BY <2>1, <2>4 DEF ReadOrToCome
  <2>6. NothingMissed' /\ MissingIsFinal' /\ PollsAreOver'
    BY <2>1 DEF NothingMissed, MissingIsFinal, PollsAreOver
  <2> QED BY <2>3, <2>5, <2>6 DEF PollerIInv
<1>3. CASE ReadPage
  <2>1. QualityTypeOK' /\ ReadOrToCome'
    BY <1>3, ReadPageKeeps
  <2>2. NothingMissed' /\ MissingIsFinal' /\ PollsAreOver'
    BY <1>3 DEF ReadPage, NothingMissed, MissingIsFinal, PollsAreOver
  <2> QED BY <2>1, <2>2 DEF PollerIInv
<1>4. CASE ReadFails
  <2>1. /\ polling = "read" /\ polling' = "wait" /\ page' = 0 /\ out' = {} /\ began' = {} /\ polls' = polls + 1
        /\ UNCHANGED <<written, converted, cdrs, firstAvail, stopped, missing, promised>>
    BY <1>4 DEF ReadFails
  <2>n. polls' \in 0..MaxPolls
    BY <2>1, CallQualityAssumption DEF QualityTypeOK, ReadOrToCome
  <2>m. (N + Older) \div PageSize \in Nat
    BY CallQualityAssumption
  <2>0. QualityTypeOK'
    BY <2>1, <2>n, <2>m DEF QualityTypeOK
  <2>2. QualityTypeOK' /\ ReadOrToCome'
    BY <2>0, <2>1 DEF ReadOrToCome
  <2>3. NothingMissed' /\ MissingIsFinal' /\ PollsAreOver'
    BY <2>1 DEF NothingMissed, MissingIsFinal, PollsAreOver
  <2> QED BY <2>2, <2>3 DEF PollerIInv
<1>5. CASE MergePoll
  <2>1. /\ polling = "read" /\ page = 0 /\ polling' = "wait" /\ out' = {} /\ began' = {}
        /\ cdrs' = cdrs \cup {r.call : r \in out} /\ firstAvail' = firstAvail \cup NowAvailable
        /\ promised' = promised \cup began /\ polls' = polls + 1
        /\ UNCHANGED <<written, converted, page, stopped, missing>>
    BY <1>5 DEF MergePoll
  <2>2. \A r \in out : r.call \in CallNo
    BY DEF ReadOrToCome
  <2>3. cdrs' \subseteq CallNo /\ firstAvail' \subseteq cdrs'
    BY <2>1, <2>2 DEF QualityTypeOK, NowAvailable
  <2>n. polls' \in 0..MaxPolls
    BY <2>1, CallQualityAssumption DEF QualityTypeOK, ReadOrToCome
  <2>4. QualityTypeOK' /\ ReadOrToCome'
    BY <2>1, <2>3, <2>n DEF QualityTypeOK, ReadOrToCome
  <2>5. began \subseteq NowAvailable
    <3> SUFFICES ASSUME NEW c \in began PROVE c \in NowAvailable
      OBVIOUS
    <3>1. [call |-> c, available |-> TRUE] \in out
      BY <2>1 DEF ReadOrToCome
    <3> QED BY <3>1 DEF NowAvailable
  <2>6. NothingMissed'
    BY <2>1, <2>5 DEF NothingMissed
  <2>7. MissingIsFinal' /\ PollsAreOver'
    BY <2>1 DEF MissingIsFinal, PollsAreOver
  <2> QED BY <2>4, <2>6, <2>7 DEF PollerIInv
<1>6. CASE CloseStop
  <2>1. stopped' = TRUE /\ UNCHANGED <<written, converted, poller, missing, promised, began>>
    BY <1>6 DEF CloseStop
  <2>2. QualityTypeOK' /\ ReadOrToCome'
    BY <2>1 DEF QualityTypeOK, ReadOrToCome, poller, Rows
  <2>3. NothingMissed' /\ MissingIsFinal' /\ PollsAreOver'
    BY <2>1 DEF NothingMissed, MissingIsFinal, PollsAreOver, poller
  <2> QED BY <2>2, <2>3 DEF PollerIInv
<1>7. CASE PollerEnds
  <2>1. /\ polling = "wait" /\ polling' = "done"
        /\ UNCHANGED <<written, converted, page, out, cdrs, firstAvail, polls, stopped, missing, promised, began>>
    BY <1>7 DEF PollerEnds
  <2>2. QualityTypeOK' /\ ReadOrToCome'
    BY <2>1 DEF QualityTypeOK, ReadOrToCome, Rows
  <2>3. NothingMissed' /\ MissingIsFinal' /\ PollsAreOver'
    BY <2>1 DEF NothingMissed, MissingIsFinal, PollsAreOver
  <2> QED BY <2>2, <2>3 DEF PollerIInv
<1>8. CASE FillIn
  <2>1. /\ polling = "done" /\ missing' = [stage |-> "done", calls |-> cdrs \ firstAvail]
        /\ UNCHANGED <<written, converted, poller, stopped, promised, began>>
    BY <1>8 DEF FillIn, PollerDone
  <2>2. QualityTypeOK' /\ ReadOrToCome'
    BY <2>1 DEF QualityTypeOK, ReadOrToCome, poller, Rows
  <2>3. NothingMissed' /\ MissingIsFinal' /\ PollsAreOver'
    BY <2>1 DEF NothingMissed, MissingIsFinal, PollsAreOver, poller
  <2> QED BY <2>2, <2>3 DEF PollerIInv
<1>9. CASE LookUpMOS \/ ReportBatch \/ NextChunk
  <2>1. UNCHANGED <<written, converted, poller, stopped, missing, promised, began>>
    BY <1>9 DEF LookUpMOS, ReportBatch, NextChunk
  <2>2. QualityTypeOK' /\ ReadOrToCome'
    BY <2>1 DEF QualityTypeOK, ReadOrToCome, poller, Rows
  <2>3. NothingMissed' /\ MissingIsFinal' /\ PollsAreOver'
    BY <2>1 DEF NothingMissed, MissingIsFinal, PollsAreOver, poller
  <2> QED BY <2>2, <2>3 DEF PollerIInv
<1> QED BY <1>1, <1>2, <1>3, <1>4, <1>5, <1>6, <1>7, <1>8, <1>9 DEF QualityNext

\* A call's own CDR is nearer to its start than any other call's of the extension.
LEMMA OwnIsNearest ==
    ASSUME NEW skew \in [CallNo -> 0..Skew], NEW c \in CallNo, NEW e \in CallNo, e # c
    PROVE  Distance(c, c, skew) < Distance(c, e, skew)
<1>1. /\ Gap \in Nat /\ Skew \in Nat /\ Gap > 2 * Skew /\ c \in Int /\ e \in Int
      /\ skew[c] \in Nat /\ skew[c] <= Skew /\ skew[e] \in Nat /\ skew[e] <= Skew
  BY CallQualityAssumption DEF CallNo
<1>2. PICK d \in Int : d = e - c
  BY <1>1
<1>3. d >= 1 \/ d <= -1
  BY <1>1, <1>2
<1>4. d >= 1 => Gap * d >= Gap
  BY <1>1, <1>2
<1>5. d <= -1 => Gap * d <= -Gap
  BY <1>1, <1>2
<1>6. PICK g \in Int : g = Gap * d
  BY <1>1
<1>7. Distance(c, c, skew) = skew[c]
  <2>1. c - c = 0 /\ Gap * 0 = 0
    BY <1>1
  <2> QED BY <1>1, <2>1 DEF Distance
<1>8. Distance(c, e, skew) = IF g + skew[e] < 0 THEN -(g + skew[e]) ELSE g + skew[e]
  BY <1>2, <1>6 DEF Distance
<1> QED BY <1>1, <1>3, <1>4, <1>5, <1>6, <1>7, <1>8

LEMMA QualityKeeps == PollerIInv /\ OwnQuality /\ QualityNext => OwnQuality'
<1> SUFFICES ASSUME PollerIInv, OwnQuality, QualityNext PROVE OwnQuality'
  OBVIOUS
<1>1. CASE UNCHANGED match
  BY <1>1 DEF OwnQuality
<1>2. CASE LookUpMOS
  <2>1. PICK skew \in [CallNo -> 0..Skew], found \in [CallNo -> CallNo \cup {0}] :
          /\ \A c \in CallNo : IF written = {} THEN found[c] = 0 ELSE found[c] \in Candidates(c, written, skew)
          /\ match' = [stage |-> "done", of |-> found, read |-> written]
    BY <1>2 DEF LookUpMOS
  <2> SUFFICES ASSUME NEW c \in CallNo, c \in written PROVE found[c] = c
    BY <2>1 DEF OwnQuality
  <2>2. found[c] \in Candidates(c, written, skew)
    BY <2>1
  <2>3. found[c] \in written /\ Distance(c, found[c], skew) <= Distance(c, c, skew)
    BY <2>2 DEF Candidates
  <2>4. found[c] \in CallNo
    BY <2>3 DEF PollerIInv, QualityTypeOK
  <2>5. PICK e \in CallNo : e = found[c]
    BY <2>4
  <2>6. Distance(c, c, skew) \in Int /\ Distance(c, e, skew) \in Int
    BY CallQualityAssumption DEF Distance, CallNo
  <2>7. e # c => Distance(c, c, skew) < Distance(c, e, skew)
    BY OwnIsNearest
  <2> QED BY <2>3, <2>5, <2>6, <2>7
<1> QED
  BY <1>1, <1>2 DEF QualityNext, WriteCDR, Convert, BeginPoll, ReadPage, ReadFails, MergePoll, CloseStop,
                    PollerEnds, FillIn, ReportBatch, NextChunk

LEMMA ChunkSizePositive == ASSUME NEW n \in Nat \ {0} PROVE chunkSizeFor(n) \in Nat \ {0}
<1>1. n \div 5 \in Nat /\ ((n \div 5) + 12) \div 25 \in Nat
  OBVIOUS
<1> QED BY <1>1 DEF chunkSizeFor

\* Chunks that follow each other from call 1 on.
InARow(chunks) ==
    \A i \in DOMAIN chunks :
        /\ chunks[i][1] = IF i = 1 THEN 1 ELSE chunks[i - 1][2] + 1
        /\ chunks[i][1] <= chunks[i][2]

LEMMA OneMoreChunk ==
    ASSUME NEW s \in Seq(Nat \X Nat), InARow(s), NEW from \in Nat, NEW to \in Nat, from < to,
           IF from = 0 THEN s = << >> ELSE s # << >> /\ Last(s)[2] = from
    PROVE  LET t == Append(s, <<from + 1, to>>)
           IN  t \in Seq(Nat \X Nat) /\ t # << >> /\ InARow(t) /\ Last(t)[2] = to
<1> DEFINE new == <<from + 1, to>>
<1>0. new \in Nat \X Nat /\ new[1] = from + 1 /\ new[2] = to
  OBVIOUS
<1> HIDE DEF new
<1>1. PICK t \in Seq(Nat \X Nat) : t = Append(s, new)
  BY <1>0, AppendProperties
<1>2. /\ t # << >> /\ Len(t) = Len(s) + 1 /\ \A i \in 1..Len(s) : t[i] = s[i]
      /\ t[Len(s) + 1] = new /\ Len(s) \in Nat
  BY <1>0, <1>1, AppendProperties, LenProperties
<1>3. Last(t)[2] = to
  BY <1>0, <1>2 DEF Last
<1>4. InARow(t)
  <2>d. DOMAIN s = 1..Len(s) /\ DOMAIN t = 1..Len(t)
    BY LenProperties
  <2> SUFFICES ASSUME NEW i \in 1..Len(t)
               PROVE  /\ t[i][1] = IF i = 1 THEN 1 ELSE t[i - 1][2] + 1
                      /\ t[i][1] <= t[i][2]
    BY <2>d, Zenon DEF InARow
  <2>1. CASE i \in 1..Len(s)
    <3>1. /\ s[i][1] = IF i = 1 THEN 1 ELSE s[i - 1][2] + 1
          /\ s[i][1] <= s[i][2]
      BY <2>d, <2>1, Zenon DEF InARow
    <3>2. i # 1 => i - 1 \in 1..Len(s)
      BY <1>2, <2>1
    <3> QED BY <1>2, <2>1, <3>1, <3>2
  <2>2. CASE i = Len(s) + 1
    <3>1. t[i][1] = from + 1 /\ t[i][2] = to
      BY <1>0, <1>2, <2>2
    <3>2. CASE from = 0
      <4>1. Len(s) = 0
        BY <3>2
      <4> QED BY <2>2, <3>1, <3>2, <4>1
    <3>3. CASE from # 0
      <4>1. s # << >> /\ s[Len(s)][2] = from
        BY <3>3 DEF Last
      <4>2. Len(s) \in 1..Len(s)
        BY <4>1, EmptySeq
      <4>3. i - 1 = Len(s) /\ i # 1
        BY <1>2, <2>2, <4>2
      <4>4. t[i - 1] = s[Len(s)]
        BY <1>2, <4>2, <4>3
      <4>5. t[i - 1][2] = from
        BY <4>1, <4>4, Zenon
      <4> QED BY <3>1, <4>3, <4>5
    <3> QED BY <3>2, <3>3
  <2> QED BY <1>2, <2>1, <2>2
<1> QED BY <1>1, <1>2, <1>3, <1>4 DEF new

LEMMA ChunksKeep == ChunksCover /\ ChunksSoFar /\ QualityNext => ChunksCover' /\ ChunksSoFar'
<1> SUFFICES ASSUME ChunksCover, ChunksSoFar, QualityNext PROVE ChunksCover' /\ ChunksSoFar'
  OBVIOUS
<1>1. CASE UNCHANGED report
  BY <1>1 DEF ChunksCover, ChunksSoFar
<1>2. CASE ReportBatch
  <2>1. PICK n \in Nat \ {0} : report' = Begin(n)
    BY <1>2, CallQualityAssumption DEF ReportBatch
  <2>2. Begin(n) \in [stage : {"chunks", "done"}, n : Nat \ {0}, start : Nat, chunks : Seq(Nat \X Nat)]
    BY EmptySeq DEF Begin
  <2>3. /\ report'.stage = "chunks" /\ report'.start = 0 /\ report'.chunks = << >>
    BY <2>1 DEF Begin
  <2>4. ChunksSoFar'
    BY <2>1, <2>2, <2>3 DEF ChunksSoFar
  <2>5. ChunksCover'
    BY <2>3 DEF ChunksCover
  <2> QED BY <2>4, <2>5
<1>3. CASE NextChunk
  <2> DEFINE R == [stage : {"chunks", "done"}, n : Nat \ {0}, start : Nat, chunks : Seq(Nat \X Nat)]
  <2>0. report.stage = "chunks" /\ report \in {NotYet} \cup R
    BY <1>3 DEF NextChunk, ChunksSoFar
  <2>n. NotYet.stage # "chunks"
    BY DEF NotYet
  <2>1. report.stage = "chunks" /\ report # NotYet /\ report \in R
    <3> HIDE DEF R
    <3> QED BY <2>0, <2>n
  <2>2. PICK n \in Nat \ {0}, st \in Nat, s \in Seq(Nat \X Nat) :
           n = report.n /\ st = report.start /\ s = report.chunks
    BY <2>1
  <2>3. PICK size \in Nat \ {0} : size = chunkSizeFor(n)
    BY ChunkSizePositive
  <2>4. InARow(s)
    BY <2>1, <2>2 DEF ChunksCover, InARow
  <2>5. IF st = 0 THEN s = << >> ELSE s # << >> /\ Last(s)[2] = IF st > n THEN n ELSE st
    BY <2>1, <2>2 DEF ChunksSoFar
  <2> DEFINE end == IF st + size > n THEN n ELSE st + size
  <2>6. report' = IF size >= n /\ st = 0
                  THEN [report EXCEPT !.stage = "done", !.chunks = << <<1, n>> >>]
                  ELSE IF st < n
                  THEN [report EXCEPT !.start = @ + size, !.chunks = Append(@, <<st + 1, end>>)]
                  ELSE [report EXCEPT !.stage = "done"]
    BY <1>3, <2>2, <2>3 DEF NextChunk
  <2>7. ASSUME report' \in R, report'.n = n, InARow(report'.chunks),
               report'.stage = "chunks" =>
                  IF report'.start = 0 THEN report'.chunks = << >>
                  ELSE /\ report'.chunks # << >>
                       /\ Last(report'.chunks)[2] = IF report'.start > n THEN n ELSE report'.start,
               report'.stage = "done" => Last(report'.chunks)[2] = n
        PROVE  ChunksCover' /\ ChunksSoFar'
    <3>1. ChunksCover'
      BY <2>7 DEF ChunksCover, InARow
    <3>2. ChunksSoFar'
      BY <2>7 DEF ChunksSoFar
    <3> QED BY <3>1, <3>2
  <2>8. CASE size >= n /\ st = 0
    <3>0. PICK pair \in Nat \X Nat : pair = <<1, n>>
      OBVIOUS
    <3>1. PICK t \in Seq(Nat \X Nat) : t = << <<1, n>> >>
      <4>1. <<pair>> \in Seq(Nat \X Nat)
        OBVIOUS
      <4> QED BY <3>0, <4>1, Zenon
    <3>2. Len(t) = 1 /\ t[1] = <<1, n>>
      BY <3>1
    <3>3. InARow(t) /\ Last(t)[2] = n
      BY <3>2 DEF InARow, Last
    <3>4. report' = [report EXCEPT !.stage = "done", !.chunks = t]
      BY <2>6, <2>8, <3>1
    <3>5. report' \in R /\ report'.n = n /\ report'.stage = "done" /\ report'.chunks = t
      BY <2>1, <2>2, <3>4
    <3> QED BY <2>7, <3>3, <3>5
  <2>9. CASE ~(size >= n /\ st = 0) /\ st < n
    <3>1. end \in Nat /\ st < end
      BY <2>9
    <3> HIDE DEF end
    <3>2. IF st = 0 THEN s = << >> ELSE s # << >> /\ Last(s)[2] = st
      BY <2>5, <2>9
    <3>3. PICK t : t = Append(s, <<st + 1, end>>)
      OBVIOUS
    <3>4. t \in Seq(Nat \X Nat) /\ t # << >> /\ InARow(t) /\ Last(t)[2] = end
      BY <2>4, <3>1, <3>2, <3>3, OneMoreChunk
    <3>5. report' = [report EXCEPT !.start = st + size, !.chunks = t]
      BY <2>2, <2>6, <2>9, <3>3
    <3>0. PICK next \in Nat : next = st + size
      OBVIOUS
    <3>6. report' \in R /\ report'.n = n /\ report'.stage = "chunks" /\ report'.chunks = t
          /\ report'.start = st + size
      BY <2>1, <2>2, <3>0, <3>4, <3>5
    <3>7. end = IF st + size > n THEN n ELSE st + size
      BY DEF end
    <3> QED BY <2>7, <3>4, <3>6, <3>7
  <2>10. CASE ~(size >= n /\ st = 0) /\ ~(st < n)
    <3>1. report' = [report EXCEPT !.stage = "done"]
      BY <2>6, <2>10
    <3>2. report' \in R /\ report'.n = n /\ report'.stage = "done" /\ report'.chunks = s
      BY <2>1, <2>2, <3>1
    <3>3. Last(s)[2] = n
      BY <2>5, <2>10
    <3> QED BY <2>4, <2>7, <3>2, <3>3
  <2> QED BY <2>8, <2>9, <2>10
<1> QED
  BY <1>1, <1>2, <1>3 DEF QualityNext, WriteCDR, Convert, BeginPoll, ReadPage, ReadFails, MergePoll, CloseStop,
                          PollerEnds, FillIn, LookUpMOS

\* Recordings and quality are found for the calls they belong to, for any number of
\* calls, page size and batch (runner.go:820-900, cdr.go:100-180): QualityInv.
THEOREM QualityIsOwn == QualitySpec => []QualityInv
<1> DEFINE IInv == PollerIInv /\ OwnQuality /\ ChunksCover /\ ChunksSoFar
<1>1. QualityInit => IInv
  <2> SUFFICES ASSUME QualityInit PROVE IInv
    OBVIOUS
  <2> USE DEF QualityInit
  <2>0. (N + Older) \div PageSize \in Nat
    BY CallQualityAssumption
  <2>1. QualityTypeOK
    <3>1. page \in 0..(1 + (N + Older) \div PageSize) /\ polls \in 0..MaxPolls
      BY <2>0, CallQualityAssumption
    <3> QED BY <3>1 DEF QualityTypeOK
  <2>2. ReadOrToCome /\ NothingMissed /\ MissingIsFinal /\ PollsAreOver
    BY DEF ReadOrToCome, NothingMissed, MissingIsFinal, PollsAreOver
  <2>3. OwnQuality /\ ChunksCover /\ ChunksSoFar
    BY DEF OwnQuality, ChunksCover, ChunksSoFar, NotYet
  <2> QED BY <2>1, <2>2, <2>3 DEF PollerIInv
<1>2. IInv /\ [QualityNext]_qualityVars => IInv'
  <2>1. CASE UNCHANGED qualityVars
    BY <2>1 DEF PollerIInv, QualityTypeOK, ReadOrToCome, NothingMissed, MissingIsFinal, PollsAreOver,
                OwnQuality, ChunksCover, ChunksSoFar, qualityVars, poller, Rows
  <2> QED BY <2>1, PollerKeeps, QualityKeeps, ChunksKeep
<1>3. IInv => QualityInv
  BY DEF QualityInv, PollerIInv
<1> HIDE DEF IInv
<1> QED BY <1>1, <1>2, <1>3, PTL DEF QualitySpec

-----------------------------------------------------------------------------
\* All three of a behaviour of TestReport.
COROLLARY TestReportInvariants == Spec => [](DiagnosisInv /\ QualityInv /\ UploadInv)
<1>1. Init => DiagInit /\ QualityInit /\ ReportsInit
  BY DEF Init
<1>2. [Next]_vars => [DiagNext]_diagVars /\ [QualityNext]_qualityVars /\ [ReportsNext]_repVars
  BY DEF Next, vars, Measure, LookUp, MakeReport
<1>3. Spec => DiagSpec /\ QualitySpec /\ ReportsSpec
  BY <1>1, <1>2, PTL DEF Spec, DiagSpec, QualitySpec, ReportsSpec
<1> QED BY <1>3, DiagnosisIsTrue, QualityIsOwn, UploadsAreTold, PTL
=============================================================================
