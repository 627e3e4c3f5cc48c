----------------------------- MODULE TestReport -----------------------------
(***************************************************************************)
(* A test run from its samples to its report: how a test is measured, what *)
(* PBXware's call records say of its calls, and what becomes of the run's  *)
(* report.  The three share no state (a test's bookkeeping ends with       *)
(* runTest, whose result finishRun is given), so a behaviour follows one   *)
(* of them.                                                                *)
(***************************************************************************)
EXTENDS Diagnostics, CallQuality, Reports

VARIABLE part

vars == <<diagVars, qualityVars, repVars, part>>

Init ==
    /\ part \in {"measured", "looked up", "reported"}
    /\ DiagInit /\ QualityInit /\ ReportsInit
    /\ part # "measured" => health = Zero
    /\ part # "reported" => ~key

Measure == part = "measured" /\ DiagNext /\ UNCHANGED <<part, qualityVars, repVars>>

LookUp == part = "looked up" /\ QualityNext /\ UNCHANGED <<part, diagVars, repVars>>

MakeReport == part = "reported" /\ ReportsNext /\ UNCHANGED <<part, diagVars, qualityVars>>

Next == Measure \/ LookUp \/ MakeReport

Spec ==
    /\ Init /\ [][Next]_vars
    /\ \A u \in Uploader : WF_repVars(UploadStep(u))
=============================================================================
