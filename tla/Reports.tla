------------------------------ MODULE Reports ------------------------------
(***************************************************************************)
(* Reports of test runs and their upload to DT Collector                   *)
(* (cmd/gui/reporthandlers.go, internal/dtcollector).  A run's goroutine   *)
(* and every accepted "Retry upload" upload what the tracker holds as its  *)
(* report and tell the tracker how it went, whatever it holds by then.     *)
(* A report is named by the run, or the hardware request, that made it.    *)
(***************************************************************************)
EXTENDS Naturals, FiniteSets

CONSTANTS
    Run,            \* test runs
    Standard,       \* those of the standard profile, the one that is uploaded
    Retry,          \* requests to upload the report now
    Hardware,       \* requests for a hardware report
    None,
    Retries,        \* length of uploadRetries, 4 in the code
    MaxRestarts     \* bound: restarts of the process

ASSUME ReportsAssumption ==
    /\ IsFiniteSet(Run) /\ IsFiniteSet(Retry) /\ IsFiniteSet(Hardware) /\ Standard \subseteq Run
    /\ Run \cap Retry = {} /\ Run \cap Hardware = {} /\ Retry \cap Hardware = {}
    /\ None \notin Run \cup Retry \cup Hardware
    /\ Retries \in Nat /\ MaxRestarts \in Nat

Report == Run \cup Hardware
Uploader == Run \cup Retry
Statuses == {"none", "saved", "uploading", "uploaded", "failed"}

VARIABLES
    pc,
    runner,         \* a.testRunner: the run started last
    tracker,        \* a.reports.state: the report and how its upload goes
    rep,            \* a.reports.rep
    holds, attempt, \* what each uploader uploads, and its failed attempts
    saved,          \* reports/<id>.json
    status,         \* reports/<id>.upload.json
    collector,      \* what DT Collector has
    key,            \* an upload key is set
    mixed,          \* history: reports, or None for a tracker without one, whose
                    \* state was last told by the upload of another report
    restarts

tracked == <<tracker, status, mixed>>
repVars == <<pc, runner, tracker, rep, holds, attempt, saved, status, collector, key, mixed, restarts>>
-----------------------------------------------------------------------------
NoReport == [id |-> None, state |-> "none"]

ReportsInit ==
    /\ pc = [p \in Uploader \cup Hardware |-> "idle"]
    /\ runner = None /\ tracker = NoReport /\ rep = None
    /\ holds = [u \in Uploader |-> None] /\ attempt = [u \in Uploader |-> 0]
    /\ saved = {} /\ status = [r \in Report |-> "none"]
    /\ collector = {}
    /\ key \in BOOLEAN
    /\ mixed = {} /\ restarts = 0

Moves(p, from, to) == pc[p] = from /\ pc' = [pc EXCEPT ![p] = to]

\* reportTracker.set: the state, in memory and next to the report.
Set(u, st) ==
    /\ tracker' = [tracker EXCEPT !.state = st]
    /\ mixed' = IF tracker.id # holds[u] THEN mixed \cup {tracker.id} ELSE mixed \ {tracker.id}
    /\ status' = IF tracker.id = None THEN status ELSE [status EXCEPT ![tracker.id] = st]

\* Mutant: only the report is taken out of the state.
Clear_KeepsState(st) ==
    /\ tracker' = [tracker EXCEPT !.id = None]
    /\ mixed' = mixed \ {None}
    /\ UNCHANGED status

\* The tracker is set anew, to no report: nothing is written, and nothing is told of it yet.
Clear(st) ==
    /\ tracker' = [NoReport EXCEPT !.state = st]
    /\ mixed' = mixed \ {None}
    /\ UNCHANGED status

\* Of the run started last alone, from its Run to the end of it: not while it is
\* prepared, not while its results and report are written, and no upload counts.
testRunning == runner # None /\ pc[runner] = "running"

\* handleTestRunStart looks, and gathers the environment without the mutex.
StartRun(r) ==
    /\ ~testRunning
    /\ Moves(r, "idle", "gathering")
    /\ UNCHANGED <<runner, tracked, rep, holds, attempt, saved, collector, key, restarts>>

GatherFails(r) ==
    /\ Moves(r, "gathering", "done")
    /\ UNCHANGED <<runner, tracked, rep, holds, attempt, saved, collector, key, restarts>>

\* The runner is the one of the Monitoring tab, which shows no report from now on.
\* Whatever is uploading goes on, and a.reports.rep stays.
BeginRun(r) ==
    /\ Moves(r, "gathering", "running")
    /\ runner' = r
    /\ Clear("none")
    /\ UNCHANGED <<rep, holds, attempt, saved, collector, key, restarts>>

\* Runner.Run is over: a new run may start before saveRun and finishRun of this one.
RunEnds(r) ==
    /\ Moves(r, "running", "finishing")
    /\ UNCHANGED <<runner, tracked, rep, holds, attempt, saved, collector, key, restarts>>

\* finishRun of a run that was cancelled or failed, or whose report could not be
\* built or written: the report before it is no longer shown.
GiveUp(r) ==
    /\ Moves(r, "finishing", "done")
    /\ \E st \in {"none", "failed"} : Clear(st)
    /\ UNCHANGED <<runner, rep, holds, attempt, saved, collector, key, restarts>>

\* finishRun of a complete run: built, saved, and the tracker's report.
SaveReport(r) ==
    /\ Moves(r, "finishing", IF r \in Standard THEN "upload" ELSE "noting")
    /\ saved' = saved \cup {r}
    /\ rep' = r
    /\ tracker' = [id |-> r, state |-> "saved"]
    /\ UNCHANGED <<runner, mixed, status, holds, attempt, collector, key, restarts>>

\* Why another profile's report is not uploaded is noted with what the tracker shows.
NoteNotUploaded(r) ==
    /\ Moves(r, "noting", "done")
    /\ status' = IF tracker.id = None THEN status ELSE [status EXCEPT ![tracker.id] = tracker.state]
    /\ UNCHANGED <<runner, tracker, mixed, rep, holds, attempt, saved, collector, key, restarts>>

\* handleReportUpload; the state is set by the goroutine it starts.
AcceptRetry(q) ==
    /\ pc[q] = "idle"
    /\ tracker.id \in Standard /\ tracker.state \notin {"uploading", "uploaded"}
    /\ Moves(q, "idle", "upload")
    /\ UNCHANGED <<runner, tracked, rep, holds, attempt, saved, collector, key, restarts>>

\* uploadReport: the report, then the key.
TakeReport(u) ==
    /\ Moves(u, "upload", IF rep = None THEN "done" ELSE "taken")
    /\ holds' = [holds EXCEPT ![u] = rep]
    /\ UNCHANGED <<runner, tracked, rep, attempt, saved, collector, key, restarts>>

\* uploadReport returns.
Returns(u, from) ==
    /\ Moves(u, from, "done")
    /\ holds' = [holds EXCEPT ![u] = None]
    /\ attempt' = [attempt EXCEPT ![u] = 0]

NoKey(u) ==
    /\ ~key /\ Returns(u, "taken")
    /\ Set(u, "saved")
    /\ UNCHANGED <<runner, rep, saved, collector, key, restarts>>

BeginAttempt(u) ==
    /\ pc[u] = "taken" => key
    /\ pc[u] \in {"taken", "waiting"} /\ pc' = [pc EXCEPT ![u] = "posting"]
    /\ Set(u, "uploading")
    /\ UNCHANGED <<runner, rep, holds, attempt, saved, collector, key, restarts>>

Uploaded(u) ==
    /\ Returns(u, "posting")
    /\ collector' = collector \cup {holds[u]}
    /\ Set(u, "uploaded")
    /\ UNCHANGED <<runner, rep, saved, key, restarts>>

\* Mutant: a rejected upload returns without telling.
Rejected_Silent(u) ==
    /\ Returns(u, "posting")
    /\ UNCHANGED <<runner, tracked, rep, saved, collector, key, restarts>>

\* A wrong key, or a report the collector does not accept.
Rejected(u) ==
    /\ Returns(u, "posting")
    /\ Set(u, "failed")
    /\ UNCHANGED <<runner, rep, saved, collector, key, restarts>>

\* Mutant: the attempt that was not answered is taken for an upload.
AfterNoAnswer_Uploaded(u) == "uploaded"

AfterNoAnswer(u) == IF attempt[u] < Retries THEN "uploading" ELSE "failed"

\* Mutant: the attempts are not counted.
TryAgain_Uncounted(u) ==
    Moves(u, "posting", "waiting") /\ UNCHANGED <<holds, attempt>>

\* Mutant: one attempt more than uploadRetries has waits for.
TryAgain_OneMore(u) ==
    /\ attempt[u] <= Retries /\ Moves(u, "posting", "waiting")
    /\ attempt' = [attempt EXCEPT ![u] = @ + 1]
    /\ UNCHANGED holds

TryAgain(u) ==
    /\ attempt[u] < Retries /\ Moves(u, "posting", "waiting")
    /\ attempt' = [attempt EXCEPT ![u] = @ + 1]
    /\ UNCHANGED holds

\* No answer, or the collector's trouble; it may have the report all the same.
NoAnswer(u) ==
    /\ TryAgain(u) \/ (attempt[u] = Retries /\ Returns(u, "posting"))
    /\ collector' \in {collector, collector \cup {holds[u]}}
    /\ Set(u, AfterNoAnswer(u))
    /\ UNCHANGED <<runner, rep, saved, key, restarts>>

\* handleHardwareReport, one at a time; uploaded once, not through the tracker.
HardwareReport(h) ==
    /\ pc[h] = "idle"
    /\ \A g \in Hardware : pc[g] # "sending"
    /\ \/ Moves(h, "idle", "done") /\ UNCHANGED saved
       \/ Moves(h, "idle", "sending") /\ saved' = saved \cup {h}
    /\ UNCHANGED <<runner, tracked, rep, holds, attempt, collector, key, restarts>>

HardwareSent(h) ==
    /\ Moves(h, "sending", "done")
    /\ \E st \in (IF key THEN {"failed", "uploaded"} ELSE {"saved"}) :
        /\ status' = [status EXCEPT ![h] = st]
        /\ collector' = IF st = "uploaded" THEN collector \cup {h} ELSE collector
    /\ UNCHANGED <<runner, tracker, mixed, rep, holds, attempt, saved, key, restarts>>

\* handleDeleteReport; the tracker, and an upload about to start, still have it.
Delete(r) ==
    /\ r \in saved
    /\ ~(tracker.id = r /\ tracker.state = "uploading")
    /\ saved' = saved \ {r}
    /\ status' = [status EXCEPT ![r] = "none"]
    /\ UNCHANGED <<pc, runner, tracker, mixed, rep, holds, attempt, collector, key, restarts>>

\* Settings: the key is entered, or taken away.
SetKey ==
    /\ key' = ~key
    /\ UNCHANGED <<pc, runner, tracked, rep, holds, attempt, saved, collector, restarts>>

\* handleFinishWipe, after which the process restarts, or it crashes.
Restart ==
    /\ restarts < MaxRestarts
    /\ restarts' = restarts + 1
    /\ \/ UNCHANGED key
       \/ key' = FALSE /\ tracker.state # "uploading" /\ ~testRunning
    /\ pc' = [p \in Uploader \cup Hardware |-> IF pc[p] = "idle" THEN "idle" ELSE "done"]
    /\ Clear("none") /\ runner' = None /\ rep' = None
    /\ holds' = [u \in Uploader |-> None] /\ attempt' = [u \in Uploader |-> 0]
    /\ UNCHANGED <<saved, collector>>

UploadStep(u) ==
    \/ TakeReport(u) \/ NoKey(u) \/ BeginAttempt(u)
    \/ Uploaded(u) \/ Rejected(u) \/ NoAnswer(u)

ReportsNext ==
    \/ \E r \in Run :
           \/ StartRun(r) \/ GatherFails(r) \/ BeginRun(r) \/ RunEnds(r)
           \/ GiveUp(r) \/ SaveReport(r) \/ NoteNotUploaded(r)
    \/ \E q \in Retry : AcceptRetry(q)
    \/ \E u \in Uploader : UploadStep(u)
    \/ \E h \in Hardware : HardwareReport(h) \/ HardwareSent(h)
    \/ \E r \in Report : Delete(r)
    \/ SetKey
    \/ Restart

\* An upload's goroutine runs on: requests time out and waits elapse.
ReportsSpec ==
    /\ ReportsInit /\ [][ReportsNext]_repVars
    /\ \A u \in Uploader : WF_repVars(UploadStep(u))
-----------------------------------------------------------------------------
TypeOK ==
    /\ runner \in Run \cup {None}
    /\ tracker.id \in Run \cup {None} /\ tracker.state \in Statuses
    /\ rep \in Run \cup {None}
    /\ holds \in [Uploader -> Run \cup {None}]
    /\ attempt \in [Uploader -> 0..Retries]
    /\ saved \subseteq Report /\ collector \subseteq Report
    /\ status \in [Report -> Statuses]
    /\ key \in BOOLEAN /\ mixed \subseteq Run \cup {None} /\ restarts \in 0..MaxRestarts

\* "Previous Reports ... knows whether it was uploaded, across restarts"
\* (reporthandlers.go:57-59): DT Collector has what is listed as uploaded, unless
\* the last to tell was the upload of another report, which a new run, its reset
\* of the tracker or its report does not stop.
UploadedIsThere ==
    \A r \in Report : status[r] = "uploaded" => r \in collector \/ r \in mixed

\* The Monitoring tab says "uploaded" of the report it shows when DT Collector has
\* it, with the same exception, and otherwise of no report: after a reset only an
\* upload from before it can make it say so.
ShownIsThere ==
    tracker.state = "uploaded" => tracker.id \in collector \/ tracker.id \in mixed

\* The tab never says "uploading", which refuses retries, deletion and the wipe,
\* when no upload is left that would say something else, and an upload of the
\* report it names unless another's was the last to tell.
UploadingIsAlive ==
    tracker.state = "uploading" =>
        \E u \in Uploader :
            /\ pc[u] \in {"posting", "waiting"}
            /\ holds[u] = tracker.id \/ tracker.id \in mixed

\* What the Monitoring tab says of uploads is so (reporthandlers.go:57-59, 141-200;
\* testrunhandlers.go:164-166).
UploadInv == TypeOK /\ UploadedIsThere /\ ShownIsThere /\ UploadingIsAlive

\* An upload ends, after at most Retries + 1 attempts (reporthandlers.go:26-27, 170-176).
UploadEnds == []<>(\A u \in Uploader : pc[u] \notin {"upload", "taken", "posting", "waiting"})
=============================================================================
