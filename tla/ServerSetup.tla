---------------------------- MODULE ServerSetup ----------------------------
(***************************************************************************)
(* What the application sets up on other machines: PBXware instances       *)
(* (Provision) and the SERVERware host they run on (HostSetup), and later  *)
(* the recording settings of those instances (Recording).  These share no  *)
(* state, so a behaviour follows one of them.                              *)
(***************************************************************************)
EXTENDS Provision, HostSetup, Recording

VARIABLE part

vars == <<provVars, hostVars, recVars, part>>

Init ==
    /\ part \in {"provision", "host", "recording"}
    /\ ProvisionInit /\ HostInit /\ RecordingInit
    /\ part # "provision" => ~multi /\ taken = {} /\ foreign = {}
    /\ part # "host" => \A v \in VPS : engine[v] = "lxc" /\ here[v] /\ ~record[v].big
    /\ part # "recording" => ramDisk = {}

ProvisionServers == part = "provision" /\ ProvisionNext /\ UNCHANGED <<part, hostVars, recVars>>

SetUpHost == part = "host" /\ HostNext /\ UNCHANGED <<part, provVars, recVars>>

SetRecordings == part = "recording" /\ RecordingNext /\ UNCHANGED <<part, provVars, hostVars>>

Next == ProvisionServers \/ SetUpHost \/ SetRecordings

Spec == Init /\ [][Next]_vars
=============================================================================
