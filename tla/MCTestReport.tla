---------------------------- MODULE MCTestReport ----------------------------
(***************************************************************************)
(* Instance of TestReport: two runs, the first of the standard profile,    *)
(* and batches around the borders of chunkSizeFor.                         *)
(***************************************************************************)
EXTENDS TestReport

BatchSizes == {1, 25, 26, 62, 63, 500}

\* The hardware report, which shares the key and the files with the runs' alone, is
\* made with at most one of the runs.
HardwareWithOneRun ==
    (\A h \in Hardware : pc[h] = "idle") \/ Cardinality({r \in Run : pc[r] # "idle"}) <= 1
=============================================================================
