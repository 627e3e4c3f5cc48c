---------------------------- MODULE MCRunControl ----------------------------
EXTENDS RunControl, TLC

\* Both kinds of test, one recorded and one not.
RollingThenRamp == <<[mode |-> "rolling", recording |-> "stereo"],
                     [mode |-> "ramp", recording |-> "off"]>>

\* A single test.
OneRamp == <<[mode |-> "ramp", recording |-> "stereo"]>>

\* Neither which run recorded last, or how, nor counts that are never read again
\* tell states apart for the properties of run_overlap.
Unread(r) == pc[r] \notin {"sampled", "placing", "ramp", "hold"}
OverlapView ==
    <<testRunner, pc, test, chunk, reason, results, cancelled, dpc, queued, active, doomed, held, stops,
      [r \in Run |-> IF Unread(r) THEN 0 ELSE want[r]],
      [r \in Run |-> IF Unread(r) THEN 0 ELSE decided - doneBefore[r]],
      recording = "off", recordingBy = NoRun>>

RunSymmetry == Permutations(Run)
=============================================================================
