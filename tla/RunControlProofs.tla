-------------------------- MODULE RunControlProofs --------------------------
(***************************************************************************)
(* Theorems about RunControl, for any test script, any number of runs and  *)
(* dial requests, any Target, Chunks and MaxStops.                         *)
(***************************************************************************)
EXTENDS RunControl, TLAPS

Label == {"idle", "gathering", "created", "session", "next", "recording", "preparing",
          "baseline", "sampled", "placing", "ramp", "hold", "rolling", "stopping", "draining",
          "cooldown", "ending", "wrapping", "over"}

\* What the proofs need of the types.
CallTypes ==
    /\ pc \in [Run -> Label]
    /\ dpc \in [Dial -> {"idle", "preparing", "ready", "calling", "done"}]
    /\ queued \in [Owner -> Nat] /\ active \in [Owner -> Nat] /\ doomed \in [Owner -> Nat]
    /\ decided \in Nat
    /\ held \subseteq Owner

\* From the trunk's preparation to its release a run may have calls.
Placing == {"placing", "ramp", "hold", "rolling", "stopping", "draining"}

\* Who may have calls, and that they hold the trunk.
TrunkInv ==
    /\ \A r \in Run : /\ pc[r] \in Placing \cup {"baseline", "sampled"} <=> r \in held
                      /\ pc[r] \notin Placing \ {"placing"} => queued[r] = 0 /\ active[r] = 0
    /\ \A d \in Dial : /\ dpc[d] \in {"ready", "calling"} <=> d \in held
                       /\ dpc[d] # "calling" => queued[d] = 0 /\ active[d] = 0

TrunkIInv == CallTypes /\ TrunkInv

LEMMA InitTrunkIInv == Init => TrunkIInv
BY RunControlAssumption DEF Init, TrunkIInv, CallTypes, TrunkInv, Label, Placing, Owner

\* The steps of a run that keep the calls of all owners as they are.
LEMMA NextTrunkIInv ==
    ASSUME ~SlowHangups, TrunkIInv, [Next]_vars
    PROVE  TrunkIInv'
<1> USE RunControlAssumption
    DEF TrunkIInv, CallTypes, TrunkInv, Label, Placing, Owner, Moves, DialMoves, callVars
<1>1. ASSUME NEW r \in Run, StartRequest(r) \/ GatherFails(r) \/ Gathered(r) \/ Begin(r)
                            \/ SessionReady(r) \/ NextTest(r) \/ EndRun(r) \/ RecordingOff(r)
      PROVE  TrunkIInv'
  <2>1. CASE StartRequest(r) \/ GatherFails(r) \/ Gathered(r) \/ Begin(r)
    BY <2>1 DEF StartRequest, GatherFails, Gathered, Begin
  <2>2. CASE SessionReady(r)
    BY <2>2 DEF SessionReady
  <2>3. CASE NextTest(r)
    <3>1. PICK to \in {"ending", "recording"} : Moves(r, "next", to) /\ UNCHANGED <<dpc, callVars, held>>
      BY <2>3 DEF NextTest
    <3> QED BY <3>1
  <2>4. CASE EndRun(r) \/ RecordingOff(r)
    BY <2>4 DEF EndRun, RecordingOff
  <2> QED BY <1>1, <2>1, <2>2, <2>3, <2>4
<1>2. ASSUME NEW r \in Run, SetRecording(r) \/ PrepareTrunk(r) \/ BaselineSample(r)
      PROVE  TrunkIInv'
  <2>1. ASSUME NEW from \in {"recording", "preparing"}, NEW to \in {"preparing", "next"},
               Moves(r, from, to), UNCHANGED <<dpc, callVars, held>>
        PROVE  TrunkIInv'
    BY <2>1
  <2>2. CASE SetRecording(r)
    BY <2>1, <2>2 DEF SetRecording, GivesUp
  <2>3. CASE Moves(r, "preparing", "baseline") /\ held' = held \cup {r} /\ UNCHANGED <<dpc, callVars>>
    BY <2>3
  <2>4. CASE PrepareTrunk(r)
    BY <2>1, <2>3, <2>4 DEF PrepareTrunk, GivesUp
  <2>5. CASE BaselineSample(r)
    BY <2>5 DEF BaselineSample
  <2> QED BY <1>2, <2>2, <2>4, <2>5
<1>3. ASSUME NEW r \in Run, BaselineOver(r)
      PROVE  TrunkIInv'
  BY <1>3 DEF BaselineOver, GivesUp
<1>4. ASSUME NEW r \in Run, PlaceRamp(r)
      PROVE  TrunkIInv'
  BY <1>4 DEF PlaceRamp, AddsCalls, Ends
<1>5. ASSUME NEW r \in Run, PlaceChunk(r)
      PROVE  TrunkIInv'
  BY <1>5 DEF PlaceChunk, AddsCalls
<1>6. ASSUME NEW r \in Run, RampSample(r) \/ HoldOver(r) \/ RollingOver(r) \/ Cancelled(r) \/ Saturated(r)
      PROVE  TrunkIInv'
  BY <1>6 DEF RampSample, HoldOver, RollingOver, Cancelled, Saturated, Ends
<1>7. ASSUME NEW r \in Run, StopCalls(r)
      PROVE  TrunkIInv'
  BY <1>7 DEF StopCalls
<1>8. ASSUME NEW r \in Run, Drained(r) \/ CooldownOver(r)
      PROVE  TrunkIInv'
  <2>1. CASE Drained(r)
    <3>1. queued[r] + active[r] = 0
      BY <2>1, Zenon DEF Drained
    <3>2. queued[r] = 0 /\ active[r] = 0
      BY <3>1
    <3> QED BY <2>1, <3>2 DEF Drained
  <2>2. CASE CooldownOver(r)
    BY <2>2 DEF CooldownOver
  <2> QED BY <1>8, <2>1, <2>2
<1>9. ASSUME NEW d \in Dial, DialRequest(d) \/ DialPrepared(d)
      PROVE  TrunkIInv'
  BY <1>9 DEF DialRequest, DialPrepared
<1>10. ASSUME NEW d \in Dial, DialAdds(d) \/ DialReleases(d)
       PROVE  TrunkIInv'
  BY <1>10 DEF DialAdds, DialReleases, AddsCalls
<1>11. ASSUME NEW o \in Owner, AnswerCall(o) \/ FailCall(o) \/ CancelCall(o)
       PROVE  TrunkIInv'
  BY <1>11 DEF AnswerCall, FailCall, CancelCall, IsDecided, LeavesQueue
<1>12. ASSUME NEW o \in Owner, EndCall(o)
       PROVE  TrunkIInv'
  BY <1>12 DEF EndCall
<1>13. CASE Cancel \/ GuiStop \/ ToggleRecording
  BY <1>13 DEF Cancel, GuiStop, ToggleRecording
<1>14. CASE UNCHANGED vars
  BY <1>14 DEF vars
<1> QED
  BY <1>1, <1>2, <1>3, <1>4, <1>5, <1>6, <1>7, <1>8, <1>9, <1>10, <1>11, <1>12, <1>13, <1>14
  DEF Next, RunnerStep, DialStep, CallStep

LEMMA TrunkInvariant == ~SlowHangups => (Safety => []TrunkIInv)
<1> SUFFICES ASSUME ~SlowHangups
             PROVE  Safety => []TrunkIInv
  OBVIOUS
<1>1. TrunkIInv /\ [Next]_vars => TrunkIInv'
  BY NextTrunkIInv
<1> QED BY <1>1, InitTrunkIInv, PTL DEF Safety

\* Where every call is hung up within the two minutes of Drained, nobody's calls
\* cross a trunk they have not prepared or have given back, and a run that is over
\* holds none, however many runs and dials overlap, fail or are cancelled.
THEOREM TrunkAlwaysHeld == ~SlowHangups => (Safety => []CallsHoldTheTrunk)
<1>1. TrunkIInv => CallsHoldTheTrunk
  BY RunControlAssumption DEF TrunkIInv, TrunkInv, CallTypes, Placing, Owner, CallsHoldTheTrunk
<1> QED BY <1>1, TrunkInvariant, PTL
-----------------------------------------------------------------------------
(***************************************************************************)
(* Recording.                                                              *)
(***************************************************************************)

\* From the first test's SetRecording to its last step a run will set it off again.
WillSetOff(r) == pc[r] \notin {"idle", "gathering", "created", "over"}

RecordingInv ==
    /\ pc \in [Run -> Label]
    /\ recording # "off" => recordingBy = NoRun \/ \E r \in Run : WillSetOff(r)

LEMMA NextRecordingInv ==
    ASSUME ~Failures, RecordingInv, [Next]_vars
    PROVE  RecordingInv'
<1> USE DEF RecordingInv, WillSetOff, Label, Moves, setting
<1>1. ASSUME NEW r \in Run, RecordingOff(r)
      PROVE  RecordingInv'
  <2>1. recording' = "off"
    BY <1>1, Zenon DEF RecordingOff
  <2> QED BY <1>1, <2>1 DEF RecordingOff
<1>2. ASSUME NEW r \in Run, SetRecording(r)
      PROVE  RecordingInv'
  <2>1. pc'[r] \in {"preparing", "next"} /\ pc' \in [Run -> Label]
    BY <1>2 DEF SetRecording, GivesUp
  <2> QED BY <2>1
<1>3. ASSUME NEW r \in Run, UNCHANGED setting, pc' \in [Run -> Label],
             \A q \in Run : WillSetOff(q) => WillSetOff(q)'
      PROVE  RecordingInv'
  BY <1>3
<1>4. ASSUME NEW r \in Run, StartRequest(r) \/ GatherFails(r) \/ Gathered(r) \/ Begin(r)
                            \/ SessionReady(r) \/ NextTest(r) \/ EndRun(r)
      PROVE  RecordingInv'
  <2>1. CASE StartRequest(r) \/ GatherFails(r) \/ Gathered(r) \/ Begin(r)
    BY <1>3, <2>1 DEF StartRequest, GatherFails, Gathered, Begin
  <2>2. CASE SessionReady(r)
    BY <1>3, <2>2 DEF SessionReady
  <2>3. CASE NextTest(r)
    <3>1. PICK to \in {"ending", "recording"} : Moves(r, "next", to) /\ UNCHANGED setting
      BY <2>3 DEF NextTest
    <3> QED BY <1>3, <3>1
  <2>4. CASE EndRun(r)
    BY <1>3, <2>4 DEF EndRun
  <2> QED BY <1>4, <2>1, <2>2, <2>3, <2>4
<1>5. ASSUME NEW r \in Run, PrepareTrunk(r) \/ BaselineSample(r) \/ BaselineOver(r) \/ PlaceRamp(r)
      PROVE  RecordingInv'
  <2>1. CASE PrepareTrunk(r) \/ BaselineSample(r)
    BY <1>3, <2>1 DEF PrepareTrunk, BaselineSample, GivesUp
  <2>2. CASE BaselineOver(r)
    BY <1>3, <2>2 DEF BaselineOver, GivesUp
  <2>3. CASE PlaceRamp(r)
    BY <1>3, <2>3 DEF PlaceRamp, Ends
  <2> QED BY <1>5, <2>1, <2>2, <2>3
<1>6. ASSUME NEW r \in Run, RampSample(r) \/ HoldOver(r) \/ PlaceChunk(r) \/ RollingOver(r)
                            \/ Cancelled(r) \/ Saturated(r)
      PROVE  RecordingInv'
  <2>1. CASE RampSample(r) \/ HoldOver(r)
    BY <1>3, <2>1 DEF RampSample, HoldOver, Ends
  <2>2. CASE PlaceChunk(r)
    BY <1>3, <2>2 DEF PlaceChunk
  <2>3. CASE RollingOver(r) \/ Cancelled(r) \/ Saturated(r)
    BY <1>3, <2>3 DEF RollingOver, Cancelled, Saturated, Ends
  <2> QED BY <1>6, <2>1, <2>2, <2>3
<1>7. ASSUME NEW r \in Run, StopCalls(r) \/ Drained(r) \/ CooldownOver(r)
      PROVE  RecordingInv'
  <2>1. CASE StopCalls(r) BY <1>3, <2>1 DEF StopCalls
  <2>2. CASE Drained(r) BY <1>3, <2>2 DEF Drained
  <2>3. CASE CooldownOver(r) BY <1>3, <2>3 DEF CooldownOver
  <2> QED BY <1>7, <2>1, <2>2, <2>3
<1>8. CASE ToggleRecording
  BY <1>8 DEF ToggleRecording
<1>9. CASE UNCHANGED <<pc, setting>>
  BY <1>9
<1> QED
  BY <1>1, <1>2, <1>4, <1>5, <1>6, <1>7, <1>8, <1>9
  DEF Next, RunnerStep, DialStep, CallStep, Cancel, GuiStop, DialRequest, DialPrepared, DialAdds,
      DialReleases, AnswerCall, FailCall, CancelCall, IsDecided, LeavesQueue, EndCall, vars

\* Where PBXware accepts the change, recording is off when no run is under way, in
\* whatever order runs that overlapped and the dashboard's toggle set it, unless
\* the toggle was the last.
THEOREM RecordingAlwaysOffAtRest == ~Failures => (Safety => []RecordingOffAtRest)
<1> SUFFICES ASSUME ~Failures
             PROVE  Safety => []RecordingOffAtRest
  OBVIOUS
<1>1. Init => RecordingInv
  BY DEF Init, RecordingInv, Label
<1>2. RecordingInv /\ [Next]_vars => RecordingInv'
  BY NextRecordingInv
<1>3. RecordingInv => RecordingOffAtRest
  BY DEF RecordingInv, WillSetOff, RecordingOffAtRest
<1> QED BY <1>1, <1>2, <1>3, PTL DEF Safety
-----------------------------------------------------------------------------
(***************************************************************************)
(* What a run reads, with others' calls in the session's counts.           *)
(***************************************************************************)

\* A test's result is appended when it is over, so there is one for each.
ResultsInv ==
    \A r \in Run :
        /\ results[r] \in Seq(Reason)
        /\ Len(results[r]) =
             IF pc[r] \in Placing \cup {"recording", "preparing", "baseline", "sampled", "cooldown"}
             THEN test[r] - 1 ELSE test[r]

TestTypes ==
    /\ testRunner \in Run \cup {NoRun}
    /\ test \in [Run -> 0..Len(Tests)] /\ chunk \in [Run -> 0..Chunks]
    /\ want \in [Run -> 0..Target] /\ doneBefore \in [Run -> Nat]
    /\ foreign \in [Run -> Nat] /\ reason \in [Run -> Reason]
    /\ DOMAIN results = Run
    /\ cancelled \subseteq Run
    /\ recording \in Mode /\ recordingBy \in Run \cup {NoRun}
    /\ stops \in 0..MaxStops

LEMMA InitTypes == Init => TestTypes /\ ResultsInv
<1> SUFFICES ASSUME Init
             PROVE  TestTypes /\ ResultsInv
  OBVIOUS
<1> USE RunControlAssumption, TestsAssumption DEF Init
<1>1. Len(Tests) \in Nat /\ 0 \in 0..Len(Tests) /\ 0 \in 0..Chunks /\ 0 \in 0..Target /\ 0 \in 0..MaxStops
  OBVIOUS
<1>2. TestTypes
  BY <1>1 DEF TestTypes, Reason
<1>3. << >> \in Seq(Reason) /\ Len(<< >>) = 0
  OBVIOUS
<1>4. ResultsInv
  BY <1>3 DEF ResultsInv, Placing
<1> QED BY <1>2, <1>4

\* What a step of a run does to its place in the script and to its results.
LEMMA NextResultsInv ==
    ASSUME CallTypes, TestTypes, ResultsInv, [Next]_vars
    PROVE  ResultsInv'
<1> USE DEF CallTypes, TestTypes, ResultsInv, Label, Placing, Moves, runVars
<1>1. ASSUME NEW r \in Run, NEW why \in Reason, NEW from \in {"recording", "preparing", "sampled"},
             GivesUp(r, from, why)
      PROVE  ResultsInv'
  <2>1. Append(results[r], why) \in Seq(Reason) /\ Len(Append(results[r], why)) = Len(results[r]) + 1
    BY <1>1
  <2>2. /\ pc' = [pc EXCEPT ![r] = "next"] /\ pc[r] = from /\ test' = test
        /\ results' = [results EXCEPT ![r] = Append(results[r], why)]
    BY <1>1 DEF GivesUp
  <2>3. Len(results'[r]) = test'[r]
    <3>1. results'[r] = Append(results[r], why) /\ test'[r] = test[r]
      BY <2>2
    <3>2. Len(results[r]) = test[r] - 1 /\ test[r] \in Int
      BY <2>2, TestsAssumption
    <3> HIDE DEF ResultsInv, TestTypes, CallTypes
    <3> QED BY <2>1, <3>1, <3>2
  <2>4. \A q \in Run \ {r} : pc'[q] = pc[q] /\ results'[q] = results[q]
    BY <2>2
  <2> QED BY <2>1, <2>2, <2>3, <2>4
<1>2. ASSUME NEW r \in Run, CooldownOver(r)
      PROVE  ResultsInv'
  <2>1. /\ reason[r] \in Reason
        /\ Append(results[r], reason[r]) \in Seq(Reason)
        /\ Len(Append(results[r], reason[r])) = Len(results[r]) + 1
    OBVIOUS
  <2>2. /\ pc' = [pc EXCEPT ![r] = "next"] /\ pc[r] = "cooldown" /\ test' = test
        /\ results' = [results EXCEPT ![r] = Append(results[r], reason[r])]
    BY <1>2 DEF CooldownOver
  <2>3. Len(results'[r]) = test'[r]
    <3>1. results'[r] = Append(results[r], reason[r]) /\ test'[r] = test[r]
      BY <2>2
    <3>2. Len(results[r]) = test[r] - 1 /\ test[r] \in Int
      BY <2>2, TestsAssumption
    <3> HIDE DEF ResultsInv, TestTypes, CallTypes
    <3> QED BY <2>1, <3>1, <3>2
  <2>4. \A q \in Run \ {r} : pc'[q] = pc[q] /\ results'[q] = results[q]
    BY <2>2
  <2> QED BY <2>1, <2>2, <2>3, <2>4
<1>3. ASSUME NEW r \in Run, NextTest(r)
      PROVE  ResultsInv'
  <2>1. UNCHANGED results
    BY <1>3 DEF NextTest
  <2>2. CASE Moves(r, "next", "ending") /\ UNCHANGED test
    BY <2>1, <2>2
  <2>3. CASE Moves(r, "next", "recording") /\ test' = [test EXCEPT ![r] = @ + 1]
    <3>1. /\ pc[r] = "next" /\ pc'[r] = "recording"
          /\ test'[r] = test[r] + 1 /\ results'[r] = results[r]
      BY <2>1, <2>3
    <3>2. results[r] \in Seq(Reason) /\ Len(results[r]) = test[r] /\ test[r] \in 0..Len(Tests)
      BY <3>1
    <3>3. Len(results[r]) = test[r] + 1 - 1
      <4> PICK t \in Nat : t = test[r]
        BY <3>2, TestsAssumption
      <4>1. t + 1 - 1 = t
        BY ONLY t \in Nat
      <4> QED BY ONLY <4>1, <3>2, t = test[r]
    <3>4. \A q \in Run \ {r} : pc'[q] = pc[q] /\ test'[q] = test[q] /\ results'[q] = results[q]
      BY <2>1, <2>3
    <3>5. ASSUME NEW q \in Run
          PROVE  /\ results'[q] \in Seq(Reason)
                 /\ Len(results'[q]) =
                      IF pc'[q] \in Placing \cup {"recording", "preparing", "baseline", "sampled",
                                                 "cooldown"}
                      THEN test'[q] - 1 ELSE test'[q]
      <4>1. CASE q = r
        <5> HIDE DEF ResultsInv, TestTypes, CallTypes
        <5> QED BY <3>1, <3>2, <3>3, <4>1
      <4>2. CASE q # r
        <5>1. pc'[q] = pc[q] /\ test'[q] = test[q] /\ results'[q] = results[q]
          BY <3>4, <4>2
        <5> HIDE DEF TestTypes, CallTypes
        <5> QED BY <5>1
      <4> QED BY <4>1, <4>2
    <3> HIDE DEF TestTypes, CallTypes, Placing
    <3> QED BY <3>5
  <2> QED BY <1>3, <2>2, <2>3 DEF NextTest
<1>4. ASSUME NEW r \in Run, UNCHANGED <<test, results>>,
             NEW from \in Label, NEW to \in Label, Moves(r, from, to),
             from \in Placing \cup {"recording", "preparing", "baseline", "sampled", "cooldown"} <=>
             to \in Placing \cup {"recording", "preparing", "baseline", "sampled", "cooldown"}
      PROVE  ResultsInv'
  BY <1>4
<1>5. ASSUME NEW r \in Run, StartRequest(r) \/ GatherFails(r) \/ Gathered(r) \/ Begin(r)
                            \/ SessionReady(r) \/ EndRun(r) \/ RecordingOff(r)
      PROVE  ResultsInv'
  BY <1>4, <1>5
  DEF StartRequest, GatherFails, Gathered, Begin, SessionReady, EndRun, RecordingOff
<1>6. ASSUME NEW r \in Run, SetRecording(r) \/ PrepareTrunk(r) \/ BaselineSample(r) \/ BaselineOver(r)
      PROVE  ResultsInv'
  BY <1>1, <1>4, <1>6 DEF SetRecording, PrepareTrunk, BaselineSample, BaselineOver, Reason
<1>7. ASSUME NEW r \in Run, PlaceRamp(r) \/ RampSample(r) \/ HoldOver(r) \/ PlaceChunk(r)
                            \/ RollingOver(r) \/ Cancelled(r) \/ Saturated(r)
      PROVE  ResultsInv'
  <2>1. CASE PlaceRamp(r)
    <3>1. PICK to \in {"ramp", "stopping"} : Moves(r, "placing", to) /\ UNCHANGED <<test, results>>
      BY <2>1 DEF PlaceRamp, Ends
    <3> QED BY <1>4, <3>1
  <2>2. CASE RampSample(r) \/ HoldOver(r)
    <3>1. PICK from \in {"ramp", "hold"}, to \in {"hold", "stopping"} :
                 Moves(r, from, to) /\ UNCHANGED <<test, results>>
      BY <2>2 DEF RampSample, HoldOver, Ends
    <3> QED BY <1>4, <3>1
  <2>3. CASE PlaceChunk(r) BY <1>4, <2>3 DEF PlaceChunk
  <2>4. CASE RollingOver(r) \/ Cancelled(r) \/ Saturated(r)
    <3>1. PICK from \in {"ramp", "hold", "rolling"} :
                 Moves(r, from, "stopping") /\ UNCHANGED <<test, results>>
      BY <2>4 DEF RollingOver, Cancelled, Saturated, Ends
    <3> QED BY <1>4, <3>1
  <2> QED BY <1>7, <2>1, <2>2, <2>3, <2>4
<1>8. ASSUME NEW r \in Run, StopCalls(r) \/ Drained(r)
      PROVE  ResultsInv'
  BY <1>4, <1>8 DEF StopCalls, Drained
<1>9. CASE UNCHANGED <<pc, test, results>>
  BY <1>9
<1> QED
  BY <1>2, <1>3, <1>5, <1>6, <1>7, <1>8, <1>9
  DEF Next, RunnerStep, DialStep, CallStep, Cancel, GuiStop, DialRequest, DialPrepared, DialAdds,
      DialReleases, AnswerCall, FailCall, CancelCall, IsDecided, LeavesQueue, EndCall,
      ToggleRecording, vars

LEMMA NextTestTypes ==
    ASSUME CallTypes, TestTypes, \A r \in Run : pc[r] = "recording" => test[r] # 0, [Next]_vars
    PROVE  TestTypes'
<1> USE RunControlAssumption
    DEF CallTypes, TestTypes, Label, Moves, runVars, setting, Reason
<1>1. ASSUME NEW r \in Run, SetRecording(r)
      PROVE  TestTypes'
  <2>1. test[r] \in DOMAIN Tests /\ "error" \in Reason
    BY <1>1, TestsAssumption DEF SetRecording, GivesUp
  <2>2. recording' \in Mode /\ recordingBy' \in Run \cup {NoRun}
    <3>1. \A i \in DOMAIN Tests : Tests[i] \in [mode : {"ramp", "rolling"}, recording : Mode]
      <4>1. ASSUME NEW S, NEW s \in Seq(S), NEW i \in DOMAIN s
            PROVE  s[i] \in S
        OBVIOUS
      <4> QED BY <4>1, TestsAssumption, Zenon
    <3>2. Tests[test[r]].recording \in Mode
      BY <2>1, <3>1
    <3> QED BY <1>1, <3>2 DEF SetRecording
  <2>3. UNCHANGED <<testRunner, test, chunk, want, doneBefore, foreign, reason, cancelled, stops>>
    BY <1>1 DEF SetRecording, GivesUp
  <2>4. DOMAIN results' = Run
    BY <1>1 DEF SetRecording, GivesUp
  <2> QED BY <2>2, <2>3, <2>4
<1>2. ASSUME NEW r \in Run, NextTest(r)
      PROVE  TestTypes'
  <2>1. UNCHANGED <<testRunner, chunk, want, doneBefore, foreign, reason, results, cancelled,
                   setting, stops>>
    BY <1>2 DEF NextTest
  <2>2. CASE UNCHANGED test
    BY <2>1, <2>2
  <2>3. CASE test[r] # Len(Tests) /\ test' = [test EXCEPT ![r] = @ + 1]
    <3>1. test[r] \in 0..Len(Tests) /\ Len(Tests) \in Nat
      BY TestsAssumption
    <3>2. test[r] + 1 \in 0..Len(Tests)
      <4> PICK t \in Nat, n \in Nat : t = test[r] /\ n = Len(Tests) /\ t <= n
        BY <3>1
      <4>1. t + 1 <= n
        BY ONLY <2>3, t \in Nat, n \in Nat, t = test[r], n = Len(Tests), t <= n
      <4> QED BY ONLY <4>1, t \in Nat, n \in Nat, t = test[r], n = Len(Tests)
    <3>3. test' \in [Run -> 0..Len(Tests)]
      BY <2>3, <3>2
    <3> QED BY <2>1, <3>3
  <2> QED BY <1>2, <2>2, <2>3 DEF NextTest
<1>3. ASSUME NEW r \in Run, GatherFails(r) \/ Gathered(r) \/ Begin(r) \/ SessionReady(r) \/ EndRun(r)
                            \/ StartRequest(r)
      PROVE  TestTypes'
  BY <1>3 DEF GatherFails, Gathered, Begin, SessionReady, EndRun, StartRequest
<1>4. ASSUME NEW r \in Run, RecordingOff(r) \/ PrepareTrunk(r) \/ BaselineSample(r) \/ BaselineOver(r)
      PROVE  TestTypes'
  <2>1. CASE RecordingOff(r) BY <2>1 DEF RecordingOff
  <2>2. CASE PrepareTrunk(r) BY <2>2 DEF PrepareTrunk, GivesUp
  <2>3. CASE BaselineSample(r) BY <2>3 DEF BaselineSample
  <2>4. CASE BaselineOver(r)
    <3>1. /\ UNCHANGED <<testRunner, test, want, doneBefore, foreign, reason, cancelled, setting,
                        stops>>
          /\ chunk' = chunk \/ chunk' = [chunk EXCEPT ![r] = 0]
          /\ DOMAIN results' = Run
      BY <2>4 DEF BaselineOver, GivesUp
    <3>2. 0 \in 0..Chunks
      OBVIOUS
    <3>3. chunk' \in [Run -> 0..Chunks]
      BY <3>1, <3>2
    <3> QED BY <3>1, <3>3
  <2> QED BY <1>4, <2>1, <2>2, <2>3, <2>4
<1>5. ASSUME NEW r \in Run, NEW from, NEW why \in Reason, Ends(r, from, why)
      PROVE  TestTypes'
  BY <1>5 DEF Ends
<1>6. ASSUME NEW r \in Run, PlaceRamp(r)
      PROVE  TestTypes'
  <2>1. CASE Ends(r, "placing", "error")
    BY <1>5, <2>1
  <2>2. ASSUME NEW n \in 0..Target, want' = [want EXCEPT ![r] = n],
               UNCHANGED <<testRunner, test, chunk, doneBefore, foreign, reason, results,
                           cancelled, setting, stops>>
        PROVE  TestTypes'
    BY <2>2
  <2> QED BY <1>6, <2>1, <2>2 DEF PlaceRamp
<1>7. ASSUME NEW r \in Run, RampSample(r) \/ HoldOver(r) \/ RollingOver(r) \/ Cancelled(r) \/ Saturated(r)
      PROVE  TestTypes'
  <2>1. CASE HoldOver(r) \/ RollingOver(r) \/ Cancelled(r) \/ Saturated(r)
    <3>1. PICK why \in Reason : /\ reason' = [reason EXCEPT ![r] = why]
                                /\ UNCHANGED <<testRunner, test, chunk, want, doneBefore, foreign,
                                               results, cancelled, setting, stops>>
      BY <2>1 DEF HoldOver, RollingOver, Cancelled, Saturated, Ends
    <3> QED BY <3>1
  <2>2. CASE RampSample(r)
    BY <1>5, <2>2 DEF RampSample
  <2> QED BY <1>7, <2>1, <2>2
<1>8. ASSUME NEW r \in Run, PlaceChunk(r)
      PROVE  TestTypes'
  <2>1. chunk[r] \in 0..Chunks /\ chunk[r] < Chunks /\ chunk' = [chunk EXCEPT ![r] = @ + 1]
    BY <1>8 DEF PlaceChunk
  <2>2. chunk[r] + 1 \in 0..Chunks
    <3> HIDE DEF CallTypes, TestTypes
    <3> QED BY <2>1
  <2>3. chunk' \in [Run -> 0..Chunks]
    BY <2>1, <2>2
  <2> QED BY <1>8, <2>3 DEF PlaceChunk
<1>9. ASSUME NEW r \in Run, StopCalls(r) \/ Drained(r) \/ CooldownOver(r)
      PROVE  TestTypes'
  BY <1>9 DEF StopCalls, Drained, CooldownOver
<1>10. CASE Cancel \/ GuiStop \/ ToggleRecording
  <2>1. UNCHANGED <<testRunner, test, chunk, want, doneBefore, foreign, reason, results>>
    BY <1>10 DEF Cancel, GuiStop, ToggleRecording
  <2>2. CASE Cancel
    BY <2>1, <2>2 DEF Cancel, testRunning
  <2>3. CASE GuiStop
    <3>1. UNCHANGED <<cancelled, setting>> /\ stops < MaxStops /\ stops' = stops + 1
      BY <2>3 DEF GuiStop
    <3>2. stops' \in 0..MaxStops
      <4>1. stops \in 0..MaxStops /\ MaxStops \in Nat
        BY RunControlAssumption
      <4> QED BY ONLY <4>1, <3>1
    <3> QED BY <2>1, <3>1, <3>2
  <2>4. CASE ToggleRecording
    BY <2>1, <2>4 DEF ToggleRecording
  <2> QED BY <1>10, <2>2, <2>3, <2>4
<1>11. ASSUME NEW o \in Owner, AnswerCall(o) \/ FailCall(o)
       PROVE  TestTypes'
  <2>1. /\ foreign' = [q \in Run |-> IF q # o /\ pc[q] \in {"sampled", "placing", "ramp", "hold"}
                                      THEN foreign[q] + 1 ELSE foreign[q]]
        /\ UNCHANGED <<testRunner, test, chunk, want, doneBefore, reason, results, cancelled,
                       setting, stops>>
    BY <1>11, Zenon DEF AnswerCall, FailCall, IsDecided, LeavesQueue
  <2>2. foreign \in [Run -> Nat]
    OBVIOUS
  <2>3. foreign' \in [Run -> Nat]
    <3> HIDE DEF CallTypes, TestTypes
    <3> QED BY <2>1, <2>2
  <2> QED BY <2>1, <2>3
<1>12. CASE UNCHANGED <<testRunner, runVars, cancelled, setting, stops>>
  BY <1>12
<1>13. ASSUME NEW o \in Owner, CancelCall(o)
       PROVE  TestTypes'
  BY <1>12, <1>13 DEF CancelCall, LeavesQueue
<1> QED
  BY <1>1, <1>2, <1>3, <1>4, <1>6, <1>7, <1>8, <1>9, <1>10, <1>11, <1>12, <1>13
  DEF Next, RunnerStep, DialStep, CallStep, DialRequest, DialPrepared, DialAdds,
      DialReleases, EndCall, vars

LEMMA TypeInvariant == ~SlowHangups => (Safety => [](TrunkIInv /\ TestTypes /\ ResultsInv))
<1> SUFFICES ASSUME ~SlowHangups
             PROVE  Safety => [](TrunkIInv /\ TestTypes /\ ResultsInv)
  OBVIOUS
<1>1. TrunkIInv /\ TestTypes /\ ResultsInv /\ [Next]_vars => (TrunkIInv /\ TestTypes /\ ResultsInv)'
  <2> SUFFICES ASSUME TrunkIInv, TestTypes, ResultsInv, [Next]_vars
               PROVE  (TrunkIInv /\ TestTypes /\ ResultsInv)'
    OBVIOUS
  <2>1. \A r \in Run : pc[r] = "recording" => test[r] # 0
    <3> SUFFICES ASSUME NEW r \in Run, pc[r] = "recording", test[r] = 0
                 PROVE  FALSE
      OBVIOUS
    <3>1. results[r] \in Seq(Reason) /\ Len(results[r]) = 0 - 1
      BY DEF ResultsInv, Placing
    <3> QED BY <3>1
  <2> QED BY <2>1, NextTrunkIInv, NextTestTypes, NextResultsInv DEF TrunkIInv
<1> QED BY <1>1, InitTrunkIInv, InitTypes, PTL DEF Safety

\* A ramp's calls, and the others' decided meanwhile, are what the session decides
\* from its baseline on.
RampInv ==
    \A r \in Run :
        /\ pc[r] \in {"sampled", "placing"} => decided = doneBefore[r] + foreign[r]
        /\ pc[r] \in {"ramp", "hold"} =>
               decided + queued[r] <= doneBefore[r] + want[r] + foreign[r]

Ramping == {"sampled", "placing", "ramp", "hold"}

LEMMA NextRampInv ==
    ASSUME TrunkIInv, TestTypes, RampInv, [Next]_vars
    PROVE  RampInv'
<1>0. /\ pc \in [Run -> Label]
      /\ queued \in [Owner -> Nat] /\ decided \in Nat /\ doneBefore \in [Run -> Nat]
      /\ foreign \in [Run -> Nat] /\ want \in [Run -> Nat] /\ Run \subseteq Owner
      /\ \A r \in Run : pc[r] \in {"sampled", "placing"} => queued[r] = 0
  <2>1. pc \in [Run -> Label] /\ queued \in [Owner -> Nat] /\ decided \in Nat /\ Run \subseteq Owner
    BY DEF TrunkIInv, CallTypes, Owner
  <2>2. doneBefore \in [Run -> Nat] /\ foreign \in [Run -> Nat] /\ want \in [Run -> Nat]
    BY RunControlAssumption DEF TestTypes
  <2>3. \A r \in Run : pc[r] \in {"sampled", "placing"} => queued[r] = 0
    BY DEF TrunkIInv, TrunkInv, Placing
  <2> QED BY <2>1, <2>2, <2>3
<1> USE <1>0 DEF RampInv, Ramping, Moves, callVars, runVars
<1>1. ASSUME NEW r \in Run, pc'[r] \notin Ramping, \A q \in Run \ {r} : pc'[q] = pc[q],
             UNCHANGED <<decided, doneBefore, want, foreign>>,
             \A q \in Run \ {r} : queued'[q] = queued[q]
      PROVE  RampInv'
  BY <1>1
<1>2. ASSUME NEW r \in Run, BaselineSample(r)
      PROVE  RampInv'
  <2>1. /\ pc'[r] = "sampled" /\ doneBefore'[r] = decided /\ foreign'[r] = 0
        /\ \A q \in Run \ {r} : /\ pc'[q] = pc[q] /\ doneBefore'[q] = doneBefore[q]
                                /\ foreign'[q] = foreign[q]
        /\ UNCHANGED <<decided, queued, want>>
    BY <1>2 DEF BaselineSample
  <2> QED BY <2>1
<1>3. ASSUME NEW r \in Run, BaselineOver(r)
      PROVE  RampInv'
  <2>1. CASE GivesUp(r, "sampled", "cancelled")
    BY <1>1, <2>1 DEF GivesUp
  <2>2. CASE Moves(r, "sampled", "placing") /\ UNCHANGED <<want, doneBefore, foreign, callVars>>
    BY <2>2
  <2> QED BY <1>3, <2>1, <2>2 DEF BaselineOver
<1>4. ASSUME NEW r \in Run, NEW from, NEW why, Ends(r, from, why), UNCHANGED callVars
      PROVE  RampInv'
  BY <1>1, <1>4 DEF Ends
<1>5. ASSUME NEW r \in Run, PlaceRamp(r)
      PROVE  RampInv'
  <2>1. ASSUME NEW n \in 0..Target, Moves(r, "placing", "ramp"), AddsCalls(r, n),
               want' = [want EXCEPT ![r] = n], UNCHANGED <<doneBefore, foreign>>
        PROVE  RampInv'
    <3>1. queued[r] = 0 /\ decided = doneBefore[r] + foreign[r]
      BY <2>1
    <3>2. /\ pc'[r] = "ramp" /\ queued'[r] = n /\ want'[r] = n
          /\ \A q \in Run \ {r} : pc'[q] = pc[q] /\ queued'[q] = queued[q] /\ want'[q] = want[q]
          /\ UNCHANGED decided
      BY <2>1, <3>1 DEF AddsCalls
    <3> QED BY <2>1, <3>1, <3>2
  <2> QED BY <1>4, <1>5, <2>1 DEF PlaceRamp
<1>6. ASSUME NEW r \in Run, RampSample(r)
      PROVE  RampInv'
  <2>1. CASE Moves(r, "ramp", "hold") /\ UNCHANGED <<runVars, callVars>>
    BY <2>1
  <2> QED BY <1>4, <1>6, <2>1 DEF RampSample
<1>7. ASSUME NEW o \in Owner, AnswerCall(o) \/ FailCall(o)
      PROVE  RampInv'
  <2>1. /\ queued[o] > 0 /\ queued' = [queued EXCEPT ![o] = @ - 1] /\ decided' = decided + 1
        /\ UNCHANGED <<pc, want, doneBefore>>
        /\ foreign' = [r \in Run |-> IF r # o /\ pc[r] \in {"sampled", "placing", "ramp", "hold"}
                                      THEN foreign[r] + 1 ELSE foreign[r]]
    BY <1>7 DEF AnswerCall, FailCall, IsDecided, LeavesQueue
  <2> SUFFICES ASSUME NEW r \in Run, pc[r] \in Ramping
               PROVE  /\ pc[r] \in {"sampled", "placing"} => decided' = doneBefore[r] + foreign'[r]
                      /\ pc[r] \in {"ramp", "hold"} =>
                             decided' + queued'[r] <= doneBefore[r] + want[r] + foreign'[r]
    BY <2>1
  <2>2. /\ pc[r] \in {"sampled", "placing"} => decided = doneBefore[r] + foreign[r] /\ queued[r] = 0
        /\ pc[r] \in {"ramp", "hold"} =>
               decided + queued[r] <= doneBefore[r] + want[r] + foreign[r]
    OBVIOUS
  <2>3. /\ decided \in Nat /\ queued[r] \in Nat /\ want[r] \in Nat /\ doneBefore[r] \in Nat
        /\ foreign[r] \in Nat
    OBVIOUS
  <2>4. CASE r = o
    <3>1. queued[r] > 0 /\ queued'[r] = queued[r] - 1 /\ foreign'[r] = foreign[r]
      BY <2>1, <2>4
    <3> HIDE DEF RampInv
    <3> QED BY <2>1, <2>2, <2>3, <3>1
  <2>5. CASE r # o
    <3>1. queued'[r] = queued[r] /\ foreign'[r] = foreign[r] + 1
      BY <2>1, <2>5
    <3> HIDE DEF RampInv
    <3> QED BY <2>1, <2>2, <2>3, <3>1
  <2> QED BY <2>4, <2>5
<1>8. ASSUME NEW o \in Owner, CancelCall(o)
      PROVE  RampInv'
  <2>1. /\ queued[o] > 0 /\ queued' = [queued EXCEPT ![o] = @ - 1]
        /\ UNCHANGED <<pc, want, doneBefore, foreign, decided>>
    BY <1>8 DEF CancelCall, LeavesQueue
  <2> QED BY <2>1
<1>9. ASSUME NEW d \in Dial, DialStep(d) \/ DialRequest(d)
      PROVE  RampInv'
  <2>1. /\ UNCHANGED <<pc, want, doneBefore, foreign, decided>>
        /\ \A r \in Run : queued'[r] = queued[r]
    BY <1>9, RunControlAssumption
    DEF DialStep, DialRequest, DialPrepared, DialAdds, DialReleases, AddsCalls, DialMoves
  <2> QED BY <2>1
<1>10. CASE UNCHANGED <<pc, want, doneBefore, foreign, decided, queued>>
  BY <1>10
<1>11. ASSUME NEW r \in Run, HoldOver(r) \/ RollingOver(r) \/ Cancelled(r) \/ Saturated(r)
       PROVE  RampInv'
  BY <1>4, <1>11 DEF HoldOver, RollingOver, Cancelled, Saturated
<1>12. ASSUME NEW r \in Run, StartRequest(r) \/ GatherFails(r) \/ Gathered(r) \/ Begin(r)
                             \/ SessionReady(r) \/ EndRun(r) \/ RecordingOff(r)
       PROVE  RampInv'
  BY <1>1, <1>12
  DEF StartRequest, GatherFails, Gathered, Begin, SessionReady, EndRun, RecordingOff
<1>13. ASSUME NEW r \in Run, NextTest(r)
       PROVE  RampInv'
  <2>1. PICK to \in {"ending", "recording"} :
               Moves(r, "next", to) /\ UNCHANGED <<want, doneBefore, foreign, callVars>>
    BY <1>13 DEF NextTest
  <2> QED BY <1>1, <2>1
<1>14. ASSUME NEW r \in Run, SetRecording(r) \/ PrepareTrunk(r)
       PROVE  RampInv'
  BY <1>1, <1>14 DEF SetRecording, PrepareTrunk, GivesUp
<1>15. ASSUME NEW r \in Run, PlaceChunk(r)
       PROVE  RampInv'
  BY <1>1, <1>15 DEF PlaceChunk, AddsCalls
<1>16. ASSUME NEW r \in Run, StopCalls(r) \/ Drained(r) \/ CooldownOver(r)
       PROVE  RampInv'
  BY <1>1, <1>16 DEF StopCalls, Drained, CooldownOver
<1> QED
  BY <1>2, <1>3, <1>5, <1>6, <1>7, <1>8, <1>9, <1>10, <1>11, <1>12, <1>13, <1>14, <1>15, <1>16
  DEF Next, RunnerStep, CallStep, Cancel, GuiStop, ToggleRecording, EndCall, vars

\* The tests' steps during which PBXware records as the test asked.
Recorded == Placing \cup {"preparing", "baseline", "sampled"}

RecordedInv ==
    \A r \in Run : pc[r] \in Recorded /\ recordingBy = r => recording = Tests[test[r]].recording

LEMMA NextRecordedInv ==
    ASSUME CallTypes, TestTypes, RecordedInv, [Next]_vars
    PROVE  RecordedInv'
<1>0. /\ pc \in [Run -> Label] /\ test \in [Run -> 0..Len(Tests)] /\ NoRun \notin Run
  BY RunControlAssumption DEF CallTypes, TestTypes
<1> USE <1>0 DEF RecordedInv, Recorded, Placing, Moves, runVars, setting
<1>1. ASSUME NEW r \in Run, pc'[r] \in Recorded => pc[r] \in Recorded,
             \A q \in Run \ {r} : pc'[q] = pc[q], UNCHANGED <<test, setting>>
      PROVE  RecordedInv'
  BY <1>1
<1>2. ASSUME NEW r \in Run, SetRecording(r)
      PROVE  RecordedInv'
  <2>1. CASE UNCHANGED setting /\ GivesUp(r, "recording", "error")
    BY <1>1, <2>1 DEF GivesUp
  <2>2. CASE recording' = Tests[test[r]].recording /\ recordingBy' = r /\ UNCHANGED test
    BY <2>2
  <2> QED BY <1>2, <2>1, <2>2 DEF SetRecording, GivesUp
<1>3. ASSUME NEW r \in Run, RecordingOff(r)
      PROVE  RecordedInv'
  <2>1. pc' = [pc EXCEPT ![r] = "over"] /\ UNCHANGED test
    BY <1>3 DEF RecordingOff
  <2>2. UNCHANGED setting \/ recordingBy' = r
    BY <1>3 DEF RecordingOff
  <2> QED BY <2>1, <2>2
<1>4. ASSUME NEW r \in Run, NEW from \in Recorded, NEW why, Ends(r, from, why)
      PROVE  RecordedInv'
  BY <1>1, <1>4 DEF Ends
<1>5. ASSUME NEW r \in Run, PrepareTrunk(r) \/ BaselineSample(r) \/ BaselineOver(r)
      PROVE  RecordedInv'
  BY <1>1, <1>5 DEF PrepareTrunk, BaselineSample, BaselineOver, GivesUp
<1>6. ASSUME NEW r \in Run, PlaceRamp(r) \/ PlaceChunk(r) \/ RampSample(r) \/ HoldOver(r)
      PROVE  RecordedInv'
  <2>1. CASE PlaceRamp(r) BY <1>1, <1>4, <2>1 DEF PlaceRamp
  <2>2. CASE PlaceChunk(r) BY <1>1, <2>2 DEF PlaceChunk
  <2>3. CASE RampSample(r) BY <1>1, <1>4, <2>3 DEF RampSample
  <2>4. CASE HoldOver(r) BY <1>4, <2>4 DEF HoldOver
  <2> QED BY <1>6, <2>1, <2>2, <2>3, <2>4
<1>7. ASSUME NEW r \in Run, RollingOver(r) \/ Cancelled(r) \/ Saturated(r)
      PROVE  RecordedInv'
  BY <1>4, <1>7 DEF RollingOver, Cancelled, Saturated
<1>8. ASSUME NEW r \in Run, StartRequest(r) \/ GatherFails(r) \/ Gathered(r) \/ Begin(r)
                            \/ SessionReady(r) \/ EndRun(r)
      PROVE  RecordedInv'
  BY <1>1, <1>8 DEF StartRequest, GatherFails, Gathered, Begin, SessionReady, EndRun
<1>9. ASSUME NEW r \in Run, NextTest(r)
      PROVE  RecordedInv'
  <2>1. PICK to \in {"ending", "recording"} : Moves(r, "next", to) /\ UNCHANGED setting
    BY <1>9 DEF NextTest
  <2>2. \A q \in Run \ {r} : test'[q] = test[q]
    BY <1>9 DEF NextTest
  <2> QED BY <2>1, <2>2
<1>10. ASSUME NEW r \in Run, StopCalls(r) \/ Drained(r) \/ CooldownOver(r)
       PROVE  RecordedInv'
  BY <1>1, <1>10 DEF StopCalls, Drained, CooldownOver
<1>11. CASE ToggleRecording
  BY <1>11 DEF ToggleRecording
<1>12. CASE UNCHANGED <<pc, test, setting>>
  BY <1>12
<1> QED
  BY <1>2, <1>3, <1>5, <1>6, <1>7, <1>8, <1>9, <1>10, <1>11, <1>12
  DEF Next, RunnerStep, DialStep, CallStep, Cancel, GuiStop, DialRequest, DialPrepared, DialAdds,
      DialReleases, AnswerCall, FailCall, CancelCall, IsDecided, LeavesQueue, EndCall, vars

\* However runs and dials overlap, where calls are hung up within two minutes: a test's
\* calls cross a trunk it holds, its ramp never takes calls for dialed of which more
\* are waiting than others' were counted in their place, and PBXware records them as
\* it says unless the toggle or another run has set it since.
THEOREM RunReadsRight == ~SlowHangups => (Safety => []RunInv)
<1> SUFFICES ASSUME ~SlowHangups
             PROVE  Safety => []RunInv
  OBVIOUS
<1>1. Init => RampInv /\ RecordedInv
  BY DEF Init, RampInv, RecordedInv, Recorded, Placing
<1>2. TrunkIInv /\ TestTypes /\ RampInv /\ RecordedInv /\ [Next]_vars => RampInv' /\ RecordedInv'
  BY NextRampInv, NextRecordedInv DEF TrunkIInv
<1>3. TrunkIInv /\ TestTypes /\ ResultsInv /\ RampInv /\ RecordedInv /\ CallsHoldTheTrunk => RunInv
  <2> SUFFICES ASSUME TrunkIInv, TestTypes, ResultsInv, RampInv, RecordedInv, CallsHoldTheTrunk
               PROVE  RunInv
    OBVIOUS
  <2> USE DEF TrunkIInv, CallTypes, TestTypes, Label
  <2>1. \A r \in Run : results[r] \in Seq(Reason) /\ Len(results[r]) <= test[r]
    BY DEF ResultsInv
  <2>2. \A r \in Run : Running(r) \/ pc[r] \in {"idle", "gathering", "created", "wrapping", "over"}
    BY DEF Running
  <2>3. TypeOK
    BY <2>1, <2>2 DEF TypeOK
  <2>4. DispatchedMeansDialed
    <3> SUFFICES ASSUME NEW r \in Run, pc[r] \in {"ramp", "hold"},
                        decided >= doneBefore[r] + want[r]
                 PROVE  queued[r] <= foreign[r]
      BY DEF DispatchedMeansDialed, Dispatched
    <3>1. /\ decided \in Nat /\ queued[r] \in Nat /\ doneBefore[r] \in Nat /\ want[r] \in Nat
          /\ foreign[r] \in Nat
          /\ decided + queued[r] <= doneBefore[r] + want[r] + foreign[r]
      BY RunControlAssumption DEF RampInv, Owner
    <3> HIDE DEF TrunkIInv, CallTypes, TestTypes
    <3> QED BY <3>1
  <2>5. RecordingAsAsked
    BY DEF RecordedInv, Recorded, RecordingAsAsked, Placing
  <2> QED BY <2>3, <2>4, <2>5 DEF RunInv
<1> QED BY <1>1, <1>2, <1>3, TypeInvariant, TrunkAlwaysHeld, PTL DEF Safety
=============================================================================
