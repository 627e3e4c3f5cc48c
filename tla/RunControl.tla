----------------------------- MODULE RunControl -----------------------------
(***************************************************************************)
(* The test script and the dashboard on one connected pair: the handlers   *)
(* that start, cancel, dial and stop (cmd/gui), the Runner's tests         *)
(* (internal/testrun/runner.go), and the calls of the session they share.  *)
(*                                                                         *)
(* Each start request makes a runner of its own; pc[r] is where the two    *)
(* are.  Calls are counted, not named: queued ones wait for their turn in  *)
(* the ramp or are being dialed, active ones are answered.                 *)
(***************************************************************************)
EXTENDS Naturals, Sequences, FiniteSets, FiniteSetsExt

CONSTANTS
    Run,            \* start requests, and the runners they make
    Dial,           \* dial requests for the same pair
    NoRun,
    Mode,           \* recording modes
    Tests,          \* the profile: a sequence of [mode, recording]
    Target,         \* calls a test wants at once
    Chunks,         \* chunks of calls in a rolling test
    MaxStops,       \* bound: uses of the dashboard's Stop
    Failures,       \* whether requests to PBXware may fail
    SlowHangups     \* whether calls may outlast the two minutes after Stop

ASSUME RunControlAssumption ==
    /\ NoRun \notin Run /\ "off" \in Mode
    /\ IsFiniteSet(Run) /\ IsFiniteSet(Dial) /\ Run \cap Dial = {}
    /\ Target \in Nat \ {0} /\ Chunks \in Nat \ {0} /\ MaxStops \in Nat
    /\ Failures \in BOOLEAN /\ SlowHangups \in BOOLEAN

Owner == Run \cup Dial

ASSUME TestsAssumption ==
    Tests \in Seq([mode : {"ramp", "rolling"}, recording : Mode])

VARIABLES
    testRunner,     \* a.testRunner
    pc,             \* where each request and its runner are
    test,           \* TestIndex
    chunk,          \* chunks the rolling test has placed
    want,           \* calls the ramp started
    doneBefore,     \* calls decided at the last baseline sample
    foreign,        \* history: calls of others decided since
    reason,         \* why the current test stops
    results,        \* the StopReason of each finished test
    cancelled,      \* runners whose context is cancelled
    dpc,            \* where each dial request is
    queued, active, \* calls of each owner
    doomed,         \* queued calls whose stop channel is closed
    decided,        \* TotalCallsAnswered + TotalCallsFailed of the session
    held,           \* owners that prepared the trunk and have not released it
    recording,      \* the recording mode PBXware is set to
    recordingBy,    \* history: the run that set it last, NoRun if the dashboard did
    stops           \* uses of Stop so far

runVars == <<test, chunk, want, doneBefore, foreign, reason, results>>
callVars == <<queued, active, doomed, decided>>
setting == <<recording, recordingBy>>
vars == <<testRunner, pc, runVars, cancelled, dpc, callVars, held, setting, stops>>
-----------------------------------------------------------------------------
\* Status().Running.
Running(r) == pc[r] \in {"session", "next", "recording", "preparing", "baseline", "sampled",
                         "placing", "ramp", "hold", "rolling", "stopping", "draining",
                         "cooldown", "ending"}

testRunning == testRunner # NoRun /\ Running(testRunner)

\* len(snap.ActiveCalls), whoever placed them.
Concurrent == MapThenSumSet(LAMBDA o : active[o], Owner)

Dispatched(r) == decided >= doneBefore[r] + want[r]

Moves(r, from, to) == pc[r] = from /\ pc' = [pc EXCEPT ![r] = to]

Init ==
    /\ testRunner = NoRun
    /\ pc = [r \in Run |-> "idle"]
    /\ test = [r \in Run |-> 0] /\ chunk = [r \in Run |-> 0]
    /\ want = [r \in Run |-> 0] /\ doneBefore = [r \in Run |-> 0]
    /\ foreign = [r \in Run |-> 0]
    /\ reason = [r \in Run |-> "none"] /\ results = [r \in Run |-> << >>]
    /\ cancelled = {}
    /\ dpc = [d \in Dial |-> "idle"]
    /\ queued = [o \in Owner |-> 0] /\ active = [o \in Owner |-> 0]
    /\ doomed = [o \in Owner |-> 0] /\ decided = 0
    /\ held = {}
    /\ recording \in Mode /\ recordingBy = NoRun
    /\ stops = 0
-----------------------------------------------------------------------------
(* handleTestRunStart and its goroutine.                                   *)

StartRequest(r) ==
    /\ ~testRunning
    /\ Moves(r, "idle", "gathering")
    /\ UNCHANGED <<testRunner, runVars, cancelled, dpc, callVars, held, setting, stops>>

GatherFails(r) ==
    /\ Failures
    /\ Moves(r, "gathering", "over")
    /\ UNCHANGED <<testRunner, runVars, cancelled, dpc, callVars, held, setting, stops>>

Gathered(r) ==
    /\ Moves(r, "gathering", "created")
    /\ testRunner' = r
    /\ UNCHANGED <<runVars, cancelled, dpc, callVars, held, setting, stops>>

\* Run sets Running, and asks for the pair's session.
Begin(r) ==
    /\ Moves(r, "created", "session")
    /\ UNCHANGED <<testRunner, runVars, cancelled, dpc, callVars, held, setting, stops>>

SessionReady(r) ==
    /\ \/ Moves(r, "session", "next")
       \/ Failures /\ Moves(r, "session", "ending")
    /\ UNCHANGED <<testRunner, runVars, cancelled, dpc, callVars, held, setting, stops>>

\* Mutant: one test too many.
NextTest_OffByOne(r) ==
    /\ IF r \in cancelled \/ test[r] > Len(Tests)
       THEN Moves(r, "next", "ending") /\ UNCHANGED test
       ELSE Moves(r, "next", "recording") /\ test' = [test EXCEPT ![r] = @ + 1]
    /\ UNCHANGED <<testRunner, chunk, want, doneBefore, foreign, reason, results, cancelled, dpc,
                   callVars, held, setting, stops>>

NextTest(r) ==
    /\ IF r \in cancelled \/ test[r] = Len(Tests)
       THEN Moves(r, "next", "ending") /\ UNCHANGED test
       ELSE Moves(r, "next", "recording") /\ test' = [test EXCEPT ![r] = @ + 1]
    /\ UNCHANGED <<testRunner, chunk, want, doneBefore, foreign, reason, results, cancelled, dpc,
                   callVars, held, setting, stops>>

\* Mutant: a cancelled run leaves recording as it is.
RecordingOff_UnlessCancelled(r) ==
    /\ Moves(r, "wrapping", "over")
    /\ recording' = IF r \in cancelled THEN recording ELSE "off"
    /\ recordingBy' = r
    /\ UNCHANGED <<testRunner, runVars, cancelled, dpc, callVars, held, stops>>

\* Run's deferred function: not Running any more, then recording off.
EndRun(r) ==
    /\ Moves(r, "ending", "wrapping")
    /\ UNCHANGED <<testRunner, runVars, cancelled, dpc, callVars, held, setting, stops>>

RecordingOff(r) ==
    /\ Moves(r, "wrapping", "over")
    /\ \/ recording' = "off" /\ recordingBy' = r
       \/ Failures /\ UNCHANGED setting
    /\ UNCHANGED <<testRunner, runVars, cancelled, dpc, callVars, held, stops>>
-----------------------------------------------------------------------------
(* runTest.                                                                *)

\* The test is over before it placed a call.
GivesUp(r, from, why) ==
    /\ Moves(r, from, "next")
    /\ results' = [results EXCEPT ![r] = Append(@, why)]
    /\ UNCHANGED <<testRunner, test, chunk, want, doneBefore, foreign, reason, cancelled, dpc,
                   callVars, stops>>

\* Mutant: a test without recording leaves the setting alone.
SetRecording_OnlyOn(r) ==
    /\ Moves(r, "recording", "preparing")
    /\ recording' = IF Tests[test[r]].recording = "off" THEN recording
                    ELSE Tests[test[r]].recording
    /\ recordingBy' = r
    /\ UNCHANGED <<testRunner, runVars, cancelled, dpc, callVars, held, stops>>

SetRecording(r) ==
    \/ /\ Moves(r, "recording", "preparing")
       /\ recording' = Tests[test[r]].recording /\ recordingBy' = r
       /\ UNCHANGED <<testRunner, runVars, cancelled, dpc, callVars, held, stops>>
    \/ /\ Failures
       /\ GivesUp(r, "recording", "error")
       /\ \/ UNCHANGED setting
          \/ recording' = Tests[test[r]].recording /\ recordingBy' = r
       /\ UNCHANGED held

\* TrunkCodec models what happens inside.
PrepareTrunk(r) ==
    \/ /\ Moves(r, "preparing", "baseline")
       /\ held' = held \cup {r}
       /\ UNCHANGED <<testRunner, runVars, cancelled, dpc, callVars, setting, stops>>
    \/ /\ Failures
       /\ GivesUp(r, "preparing", "error")
       /\ UNCHANGED <<held, setting>>

\* Mutant: the count before the first test serves them all.
BaselineSample_FirstOnly(r) ==
    /\ Moves(r, "baseline", "sampled")
    /\ doneBefore' = [doneBefore EXCEPT ![r] = IF test[r] = 1 THEN decided ELSE @]
    /\ foreign' = [foreign EXCEPT ![r] = 0]
    /\ UNCHANGED <<testRunner, test, chunk, want, reason, results, cancelled, dpc,
                   callVars, held, setting, stops>>

\* The last sample of the idle baseline.
BaselineSample(r) ==
    /\ Moves(r, "baseline", "sampled")
    /\ doneBefore' = [doneBefore EXCEPT ![r] = decided]
    /\ foreign' = [foreign EXCEPT ![r] = 0]
    /\ UNCHANGED <<testRunner, test, chunk, want, reason, results, cancelled, dpc,
                   callVars, held, setting, stops>>

\* Mutant: a run cancelled in the baseline does not release the trunk.
BaselineOver_KeepsTrunk(r) ==
    \/ /\ Moves(r, "sampled", "placing")
       /\ chunk' = [chunk EXCEPT ![r] = 0]
       /\ UNCHANGED <<testRunner, test, want, doneBefore, foreign, reason, results, cancelled, dpc,
                      callVars, held, setting, stops>>
    \/ /\ r \in cancelled
       /\ GivesUp(r, "sampled", "cancelled")
       /\ UNCHANGED <<held, setting>>

BaselineOver(r) ==
    \/ /\ Moves(r, "sampled", "placing")
       /\ chunk' = [chunk EXCEPT ![r] = 0]
       /\ UNCHANGED <<testRunner, test, want, doneBefore, foreign, reason, results, cancelled, dpc,
                      callVars, held, setting, stops>>
    \/ /\ r \in cancelled
       /\ GivesUp(r, "sampled", "cancelled")
       /\ held' = held \ {r}
       /\ UNCHANGED setting

\* AddCalls takes as many of the n calls as there are free pairs.
AddsCalls(o, n) ==
    /\ queued' = [queued EXCEPT ![o] = @ + n]
    /\ UNCHANGED <<active, doomed, decided>>

Ends(r, from, why) ==
    /\ Moves(r, from, "stopping")
    /\ reason' = [reason EXCEPT ![r] = why]
    /\ UNCHANGED <<testRunner, test, chunk, want, doneBefore, foreign, results, cancelled, dpc,
                   held, setting, stops>>

\* Mutant: waits for the target even if fewer calls could be started.
PlaceRamp_WantsTarget(r) ==
    /\ pc[r] = "placing" /\ Tests[test[r]].mode = "ramp"
    /\ \E n \in 0..Target :
         \/ /\ n = 0
            /\ Ends(r, "placing", "error")
            /\ UNCHANGED callVars
         \/ /\ n > 0
            /\ Moves(r, "placing", "ramp")
            /\ AddsCalls(r, n)
            /\ want' = [want EXCEPT ![r] = Target]
            /\ UNCHANGED <<testRunner, test, chunk, doneBefore, foreign, reason, results, cancelled,
                           dpc, held, setting, stops>>

PlaceRamp(r) ==
    /\ pc[r] = "placing" /\ Tests[test[r]].mode = "ramp"
    /\ \E n \in 0..Target :
         \/ /\ n = 0
            /\ Ends(r, "placing", "error")
            /\ UNCHANGED callVars
         \/ /\ n > 0
            /\ Moves(r, "placing", "ramp")
            /\ AddsCalls(r, n)
            /\ want' = [want EXCEPT ![r] = n]
            /\ UNCHANGED <<testRunner, test, chunk, doneBefore, foreign, reason, results, cancelled,
                           dpc, held, setting, stops>>

\* What the sample of a ramp leads to, beyond going on.
RampSample(r) ==
    \/ /\ Concurrent >= Target \/ (Dispatched(r) /\ Concurrent > 0)
       /\ Moves(r, "ramp", "hold")
       /\ UNCHANGED <<testRunner, runVars, cancelled, dpc, callVars, held, setting, stops>>
    \/ /\ Dispatched(r) /\ Concurrent = 0
       /\ \E from \in {"ramp", "hold"} : Ends(r, from, "target_not_reached")
       /\ UNCHANGED callVars

HoldOver(r) ==
    /\ Ends(r, "hold", IF Concurrent >= Target THEN "target_reached" ELSE "target_not_reached")
    /\ UNCHANGED callVars

\* One chunk of a rolling test; AddCalls may find no free pair.
PlaceChunk(r) ==
    /\ pc[r] \in {"placing", "rolling"} /\ Tests[test[r]].mode = "rolling"
    /\ chunk[r] < Chunks
    /\ \E from \in {"placing", "rolling"}, n \in 0..1 :
         Moves(r, from, "rolling") /\ AddsCalls(r, n)
    /\ chunk' = [chunk EXCEPT ![r] = @ + 1]
    /\ UNCHANGED <<testRunner, test, want, doneBefore, foreign, reason, results, cancelled, dpc,
                   held, setting, stops>>

\* MaxConcurrent, the most of any sample, may or may not be close to Target.
RollingOver(r) ==
    /\ chunk[r] = Chunks
    /\ \E why \in {"target_reached", "target_not_reached"} : Ends(r, "rolling", why)
    /\ UNCHANGED callVars

\* A sample finds the host, a VPS or SwarmDialer at its limit.
Saturated(r) ==
    /\ \E from \in {"ramp", "hold", "rolling"} : Ends(r, from, "saturated")
    /\ UNCHANGED callVars

\* Mutant: the wait of a ramp does not look at the context.
Cancelled_OnlyRolling(r) ==
    /\ r \in cancelled
    /\ Ends(r, "rolling", "cancelled")
    /\ UNCHANGED callVars

\* sleepCtx returned false.
Cancelled(r) ==
    /\ r \in cancelled
    /\ \E from \in {"ramp", "hold", "rolling"} : Ends(r, from, "cancelled")
    /\ UNCHANGED callVars

\* sess.Stop: no queued call of any owner needs to be dialed any more.
StopCalls(r) ==
    /\ Moves(r, "stopping", "draining")
    /\ doomed' = queued
    /\ UNCHANGED <<testRunner, runVars, cancelled, dpc, queued, active, decided, held,
                   setting, stops>>

\* Mutant: the trunk is released without waiting for the batches.
Drained_AtOnce(r) ==
    /\ Moves(r, "draining", "cooldown")
    /\ held' = held \ {r}
    /\ UNCHANGED <<testRunner, runVars, cancelled, dpc, callVars, setting, stops>>

\* Every batch is done, or two minutes are over: release the trunk.
Drained(r) ==
    /\ Moves(r, "draining", "cooldown")
    /\ queued[r] + active[r] = 0 \/ SlowHangups
    /\ held' = held \ {r}
    /\ UNCHANGED <<testRunner, runVars, cancelled, dpc, callVars, setting, stops>>

\* The cooldown is over or cut short; the result is appended.
CooldownOver(r) ==
    /\ Moves(r, "cooldown", "next")
    /\ results' = [results EXCEPT ![r] = Append(@, reason[r])]
    /\ UNCHANGED <<testRunner, test, chunk, want, doneBefore, foreign, reason, cancelled, dpc,
                   callVars, held, setting, stops>>
-----------------------------------------------------------------------------
(* The dashboard.                                                          *)

Cancel ==
    /\ testRunner # NoRun
    /\ cancelled' = cancelled \cup {testRunner}
    /\ UNCHANGED <<testRunner, pc, runVars, dpc, callVars, held, setting, stops>>

GuiStop ==
    /\ stops < MaxStops
    /\ stops' = stops + 1
    /\ doomed' = queued
    /\ UNCHANGED <<testRunner, pc, runVars, cancelled, dpc, queued, active, decided, held,
                   setting>>

\* handleRecordingToggle is not refused while a test runs, and the page offers it.
ToggleRecording ==
    /\ recording' \in Mode /\ recordingBy' = NoRun
    /\ UNCHANGED <<testRunner, pc, runVars, cancelled, dpc, callVars, held, stops>>

DialMoves(d, from, to) == dpc[d] = from /\ dpc' = [dpc EXCEPT ![d] = to]

\* handleDial looks at testRunning once, at its start.
DialRequest(d) ==
    /\ ~testRunning
    /\ DialMoves(d, "idle", "preparing")
    /\ UNCHANGED <<testRunner, pc, runVars, cancelled, callVars, held, setting, stops>>

DialPrepared(d) ==
    /\ \/ DialMoves(d, "preparing", "ready") /\ held' = held \cup {d}
       \/ Failures /\ DialMoves(d, "preparing", "done") /\ UNCHANGED held
    /\ UNCHANGED <<testRunner, pc, runVars, cancelled, callVars, setting, stops>>

DialAdds(d) ==
    /\ DialMoves(d, "ready", "calling")
    /\ \E n \in 0..1 : AddsCalls(d, n)
    /\ UNCHANGED <<testRunner, pc, runVars, cancelled, held, setting, stops>>

\* onBatchDone, or handleDial itself when no call was started.
DialReleases(d) ==
    /\ DialMoves(d, "calling", "done")
    /\ queued[d] + active[d] = 0
    /\ held' = held \ {d}
    /\ UNCHANGED <<testRunner, pc, runVars, cancelled, callVars, setting, stops>>
-----------------------------------------------------------------------------
(* The calls; Session models what each of them does.                       *)

\* Being dialed, or waiting for its turn: only the latter heeds a closed stop
\* channel, so a doomed call may still be answered or fail.
LeavesQueue(o) ==
    /\ queued[o] > 0
    /\ queued' = [queued EXCEPT ![o] = @ - 1]
    /\ \E n \in {doomed[o], doomed[o] - 1} \cap (0..queued'[o]) :
         doomed' = [doomed EXCEPT ![o] = n]
    /\ UNCHANGED <<testRunner, pc, test, chunk, want, doneBefore, reason, results, cancelled, dpc,
                   held, setting, stops>>

\* The session's totals do not say whose call was answered or has failed.
IsDecided(o) ==
    /\ LeavesQueue(o)
    /\ decided' = decided + 1
    /\ foreign' = [r \in Run |-> IF r # o /\ pc[r] \in {"sampled", "placing", "ramp", "hold"}
                                  THEN foreign[r] + 1 ELSE foreign[r]]

AnswerCall(o) ==
    /\ IsDecided(o)
    /\ active' = [active EXCEPT ![o] = @ + 1]

FailCall(o) ==
    /\ IsDecided(o)
    /\ UNCHANGED active

CancelCall(o) ==
    /\ doomed[o] > 0
    /\ LeavesQueue(o)
    /\ doomed'[o] = doomed[o] - 1
    /\ UNCHANGED <<active, decided, foreign>>

EndCall(o) ==
    /\ active[o] > 0
    /\ active' = [active EXCEPT ![o] = @ - 1]
    /\ UNCHANGED <<testRunner, pc, runVars, cancelled, dpc, queued, doomed, decided, held,
                   setting, stops>>

CallStep(o) == AnswerCall(o) \/ FailCall(o) \/ CancelCall(o) \/ EndCall(o)
-----------------------------------------------------------------------------
RunnerStep(r) ==
    \/ GatherFails(r) \/ Gathered(r) \/ Begin(r) \/ SessionReady(r) \/ NextTest(r)
    \/ SetRecording(r) \/ PrepareTrunk(r) \/ BaselineSample(r) \/ BaselineOver(r)
    \/ PlaceRamp(r) \/ RampSample(r) \/ HoldOver(r) \/ PlaceChunk(r) \/ RollingOver(r)
    \/ Cancelled(r) \/ StopCalls(r) \/ Drained(r) \/ CooldownOver(r)
    \/ EndRun(r) \/ RecordingOff(r)

DialStep(d) == DialPrepared(d) \/ DialAdds(d) \/ DialReleases(d)

Next ==
    \/ \E r \in Run : StartRequest(r) \/ RunnerStep(r) \/ Saturated(r)
    \/ \E d \in Dial : DialRequest(d) \/ DialStep(d)
    \/ \E o \in Owner : CallStep(o)
    \/ Cancel \/ GuiStop \/ ToggleRecording

Safety == Init /\ [][Next]_vars

\* Goroutines run, timers fire, requests and calls come to an end; nobody has
\* to start, stop or cancel anything, and no limit has to be reached.
Spec ==
    /\ Safety
    /\ \A r \in Run : WF_vars(RunnerStep(r))
    /\ \A d \in Dial : WF_vars(DialStep(d))
    /\ \A o \in Owner : WF_vars(CallStep(o))
-----------------------------------------------------------------------------
Reason == {"none", "error", "cancelled", "saturated", "target_reached", "target_not_reached"}

TypeOK ==
    /\ testRunner \in Run \cup {NoRun}
    /\ \A r \in Run : Running(r) \/ pc[r] \in {"idle", "gathering", "created", "wrapping", "over"}
    /\ test \in [Run -> 0..Len(Tests)] /\ chunk \in [Run -> 0..Chunks]
    /\ want \in [Run -> 0..Target] /\ doneBefore \in [Run -> Nat]
    /\ foreign \in [Run -> Nat] /\ reason \in [Run -> Reason]
    /\ \A r \in Run : results[r] \in Seq(Reason) /\ Len(results[r]) <= test[r]
    /\ cancelled \subseteq Run
    /\ dpc \in [Dial -> {"idle", "preparing", "ready", "calling", "done"}]
    /\ queued \in [Owner -> Nat] /\ active \in [Owner -> Nat] /\ doomed \in [Owner -> Nat]
    /\ decided \in Nat
    /\ held \subseteq Owner
    /\ recording \in Mode /\ recordingBy \in Run \cup {NoRun}
    /\ stops \in 0..MaxStops

\* Nobody's calls cross a trunk they have not prepared or have already released
\* to another codec, on any path through a test; and a run that is over holds
\* none ("the caller must call release exactly once", trunkcodec.go:45-46).
CallsHoldTheTrunk ==
    /\ \A o \in Owner : queued[o] + active[o] > 0 => o \in held
    /\ \A r \in Run : pc[r] \in {"next", "ending", "wrapping", "over"} => r \notin held

\* "every call has been dialed" (runner.go:695) is concluded from the session's
\* totals, which have others' calls too: no more of the run's own are still waiting
\* than calls of a dial let in before it, or of another run, were decided instead.
DispatchedMeansDialed ==
    \A r \in Run : pc[r] \in {"ramp", "hold"} /\ Dispatched(r) => queued[r] <= foreign[r]

\* Whatever runs overlapped or were cancelled, recording is off when the last of
\* them has wrapped up, or as the dashboard's toggle set it after all of them.
RecordingOffAtRest ==
    (\A r \in Run : pc[r] \in {"idle", "over"}) => recording = "off" \/ recordingBy = NoRun

\* While a test places calls PBXware records them as the test says, unless the
\* dashboard's toggle, which is not refused, or another run has set it since.
RecordingAsAsked ==
    \A r \in Run : /\ pc[r] \in {"baseline", "sampled", "placing", "ramp", "hold", "rolling",
                                 "stopping", "draining"}
                   /\ recordingBy = r
                   => recording = Tests[test[r]].recording

\* What a test relies on while it runs is right: the trunk its calls cross, what it
\* concludes of their dialing, and how they are recorded (runner.go:533-712,
\* testrunhandlers.go:57-77).
RunInv == TypeOK /\ CallsHoldTheTrunk /\ DispatchedMeansDialed /\ RecordingAsAsked

\* "Only one run at a time; manual dialing is refused while it runs ..., so
\* nothing else disturbs the measurements" (testrunhandlers.go:128-129): no call
\* of another run or of the dashboard runs while a test places its own.  This is
\* not so: a dial that was let in before the run began adds its batch during it.
Undisturbed ==
    \A r \in Run : pc[r] \in {"ramp", "hold", "rolling"} =>
        \A o \in Owner \ {r} : queued[o] + active[o] = 0

\* A run that has started ends, recording off, with nobody's help: runRamp
\* "waits until they all run at once ..., or a stop condition hits"
\* (runner.go:664-665).
EveryRunEnds == \A r \in Run : pc[r] = "created" ~> pc[r] = "over"

\* It does as long as the dashboard's Stop leaves its calls alone, however few
\* of them start, whatever fails and whether or not the target is reached.
RunEndsUnlessStopped ==
    \A r \in Run : pc[r] = "created" ~> (pc[r] = "over" \/ stops > 0)

\* Cancel "stops the run" (runner.go:307), whatever it was doing and whatever
\* the dashboard did to its calls.
CancelEndsRun == \A r \in Run : r \in cancelled ~> pc[r] = "over"
=============================================================================
