---------------------------- MODULE Diagnostics ----------------------------
(***************************************************************************)
(* One test of a run as its samples tell it: how calls failed, where each  *)
(* cause began, and when a saturated metric stops the test                 *)
(* (internal/testrun: runner.go, diagnostics.go, monitor.go).  Failures    *)
(* are counted by the session's calls, whenever they happen; the runner    *)
(* looks at the counters every few seconds.  Readings of the host and the  *)
(* VPSs come from Prometheus and may fail.                                 *)
(***************************************************************************)
EXTENDS Integers, Sequences, FiniteSets

CONSTANTS
    Cause,              \* kinds of failed calls: rejected_503, dropped, no_audio...
    HostMetric, VPSMetric,      \* what stops a test when it saturates
    SaturatedSamples,   \* 3 in the code
    MaxFailures,        \* bound: failures of each cause
    MaxSamples          \* bound: samples while calls are placed

ASSUME DiagnosticsAssumption ==
    /\ IsFiniteSet(Cause) /\ IsFiniteSet(HostMetric) /\ IsFiniteSet(VPSMetric)
    /\ HostMetric \cap VPSMetric = {} /\ {"none", "other"} \cap (HostMetric \cup VPSMetric) = {}
    /\ SaturatedSamples \in Nat \ {0}
    /\ MaxFailures \in Nat \ {0} /\ MaxSamples \in Nat

Metric == HostMetric \cup VPSMetric

VARIABLES
    phase,          \* of the test
    samples,        \* taken while calls were being placed
    health,         \* session.Health(): failed calls by cause
    start, prev,    \* health when the test started, and at the last sample
    atStop,         \* health when the test stopped placing calls
    firstFailure,   \* causes that have their FirstAt
    started,        \* failures_started events of each cause
    saturated,      \* stop metric -> samples in a row over its threshold
    stopReason,
    failures,       \* the result: what it says of each cause
    lastReads,      \* history: the last SaturatedSamples readings of each metric
    unsampled       \* history: failures between the last sample and the stop

sampled == <<prev, firstFailure, started, saturated, lastReads>>
diagVars == <<phase, samples, health, start, atStop, sampled, stopReason, failures, unsampled>>
-----------------------------------------------------------------------------
Zero == [c \in Cause |-> 0]
NoFailures == [c \in Cause |-> [count |-> 0, afterStop |-> 0, first |-> FALSE]]

\* newDiag; failures of earlier tests are on the counters already.
DiagInit ==
    /\ phase = "baseline" /\ samples = 0
    /\ health \in [Cause -> 0..1] /\ start = health /\ prev = health
    /\ atStop = Zero /\ firstFailure = {} /\ started = Zero
    /\ saturated = [m \in Metric |-> 0]
    /\ stopReason = "none" /\ failures = NoFailures
    /\ lastReads = [m \in Metric |-> << >>] /\ unsampled = Zero

\* The session's calls, and those another batch left running.
CallFails(c) ==
    /\ phase # "reported" /\ health[c] < MaxFailures
    /\ health' = [health EXCEPT ![c] = @ + 1]
    /\ UNCHANGED <<phase, samples, start, atStop, sampled, stopReason, failures, unsampled>>

\* Mutant: a cause starts again with every sample that finds more of it.
Begins_EachTime(c) == health[c] > start[c] /\ prev[c] < health[c]

\* diagnoseSample: the first sample that finds failures of this test.
Begins(c) == health[c] > start[c] /\ prev[c] <= start[c]

\* Mutant: failures after the stop are diagnosed like those before it.
Diagnosed_Always == Cause

\* Not after the stop.
Diagnosed == IF phase = "load" THEN Cause ELSE {}

\* diagnoseSample.
Diagnose ==
    LET new == {c \in Diagnosed : Begins(c)}
    IN  /\ firstFailure' = firstFailure \cup new
        /\ started' = [c \in Cause |-> IF c \in new THEN started[c] + 1 ELSE started[c]]
        /\ prev' = health

\* Mutant: a sample below the threshold does not break the series.
Streak_Kept(m, over) == IF m \in over THEN saturated[m] + 1 ELSE saturated[m]

Streak(m, over) == IF m \in over THEN saturated[m] + 1 ELSE 0

\* Mutant: one sample more than saturatedSamples.
Full_More(n) == n > SaturatedSamples

Full(n) == n >= SaturatedSamples

LastOnes(s) == IF Len(s) > SaturatedSamples THEN Tail(s) ELSE s

\* The metrics a sample finds over their threshold, and the readings that failed.
\* A host that could not be read looks idle; the VPSs are then not looked at.
Readings ==
    {r \in [over : SUBSET Metric, unread : SUBSET {"host", "vps"}] :
        /\ "host" \in r.unread => r.over \cap HostMetric = {}
        /\ "vps" \in r.unread => r.over \cap VPSMetric = {}}

Looked(r) == IF "vps" \in r.unread THEN HostMetric ELSE Metric

\* SampleLocal, SampleHost, SampleVPS and the checks that end a test; after the
\* first that does, no other is made.
LoadSample ==
    /\ phase = "load" /\ stopReason = "none" /\ samples < MaxSamples
    /\ samples' = samples + 1
    /\ Diagnose
    /\ \E r \in Readings :
        /\ saturated' = [m \in Metric |-> IF m \in Looked(r) THEN Streak(m, r.over) ELSE saturated[m]]
        /\ lastReads' = [m \in Metric |->
                IF m \in Looked(r) THEN LastOnes(Append(lastReads[m], m \in r.over)) ELSE lastReads[m]]
        /\ LET full == {m \in Metric : Full(saturated'[m])}
           IN  IF full = {} THEN UNCHANGED stopReason ELSE stopReason' \in full
    /\ UNCHANGED <<phase, health, start, atStop, failures, unsampled>>

\* Samples of the cooldown.
IdleSample ==
    /\ phase = "cooldown"
    /\ Diagnose
    /\ UNCHANGED <<phase, samples, health, start, atStop, saturated, lastReads, stopReason, failures, unsampled>>

BaselineOver ==
    /\ phase = "baseline" /\ phase' = "load"
    /\ UNCHANGED <<samples, health, start, atStop, sampled, stopReason, failures, unsampled>>

\* runRamp or runRolling returned: a metric saturated, or the calls are done, or the
\* run was cancelled while it waited for the next sample.
StopPlacing ==
    /\ phase = "load" /\ phase' = "cooldown"
    /\ atStop' = health
    /\ stopReason' = IF stopReason = "none" THEN "other" ELSE stopReason
    /\ unsampled' = [c \in Cause |-> health[c] - prev[c]]
    /\ UNCHANGED <<samples, health, start, sampled, failures>>

\* finishDiagnostics, after the cooldown.
FinishDiagnostics ==
    /\ phase = "cooldown" /\ phase' = "reported"
    /\ failures' = [c \in Cause |-> [count |-> health[c] - start[c], afterStop |-> health[c] - atStop[c],
                                     first |-> c \in firstFailure /\ health[c] # start[c]]]
    /\ UNCHANGED <<samples, health, start, atStop, sampled, stopReason, unsampled>>

DiagNext ==
    \/ \E c \in Cause : CallFails(c)
    \/ BaselineOver \/ LoadSample \/ StopPlacing \/ IdleSample \/ FinishDiagnostics
-----------------------------------------------------------------------------
DiagTypeOK ==
    /\ phase \in {"baseline", "load", "cooldown", "reported"} /\ samples \in 0..MaxSamples
    /\ \A f \in {health, start, prev, atStop, unsampled} : f \in [Cause -> 0..MaxFailures]
    /\ firstFailure \subseteq Cause
    /\ started \in [Cause -> Nat]
    /\ saturated \in [Metric -> 0..SaturatedSamples]
    /\ stopReason \in Metric \cup {"none", "other"}

\* A report tells once where a cause began (EvFailuresStarted: "a failure cause
\* appeared"), however many samples find more of it.
CauseStartsOnce == \A c \in Cause : started[c] <= 1

\* "A cause seen only after the stop has no FirstAt" (diagnostics.go:54), and only
\* such a cause, or one that no sample saw before the stop, has none.
FirstAtIsRight ==
    phase = "reported" =>
        \A c \in Cause : LET f == failures[c]
                         IN  f.first <=> f.count - f.afterStop > unsampled[c]

\* "sustained this many samples (15s) before stopping" (runner.go:168): the last
\* readings of the metric that ended a test were all over its threshold.
StopIsSustained ==
    stopReason \in Metric =>
        /\ Len(lastReads[stopReason]) = SaturatedSamples
        /\ \A i \in DOMAIN lastReads[stopReason] : lastReads[stopReason][i]

\* The diagnosis of a test is true of the samples and failures it came from
\* (diagnostics.go:40-60, runner.go:160-170).
DiagnosisInv == DiagTypeOK /\ CauseStartsOnce /\ FirstAtIsRight /\ StopIsSustained
=============================================================================
