----------------------------- MODULE Recording -----------------------------
(***************************************************************************)
(* Call recording on the PBXware instances of a dialer section             *)
(* (cmd/gui/recording.go), set by the dashboard's toggle and by the test   *)
(* runner (testEnv.SetRecording), which do the same: two requests to each  *)
(* instance in turn, so that writes interleave with each other, with reads *)
(* and with failures.                                                      *)
(***************************************************************************)
EXTENDS Naturals, Sequences

CONSTANTS
    Server, MultiTenant,    \* the instances, and which have tenants
    Toggle, Look,           \* requests to set and to read
    Section,                \* the instances that requests may be about
    MaxFaults               \* bound: failing requests to PBXware

ASSUME RecordingAssumption ==
    /\ MultiTenant \subseteq Server /\ Toggle \cap Look = {} /\ MaxFaults \in Nat
    /\ Section \subseteq {<<s>> : s \in Server} \cup {p \in Server \X Server : p[1] # p[2]}

VARIABLES
    enabled, stereo,    \* what PBXware has set
    ramDisk,            \* instances that can record in stereo
    request,            \* requests: where they are and what PBXware answered
    disturbed,          \* history: requests with another's write on their targets
    refused

recVars == <<enabled, stereo, ramDisk, request, disturbed, refused>>
-----------------------------------------------------------------------------
Both == [enabled |-> TRUE, stereo |-> TRUE]
Off == [enabled |-> FALSE, stereo |-> FALSE]

RecordingInit ==
    /\ enabled = [s \in Server |-> FALSE] /\ stereo = [s \in Server |-> FALSE]
    /\ ramDisk \in SUBSET Server
    /\ request = [q \in Toggle \cup Look |-> [at |-> "idle", on |-> <<>>, i |-> 1, want |-> Off, got |-> Both]]
    /\ disturbed = {} /\ refused = 0

Target(q) == request[q].on[request[q].i]
Ends(q, place) == request' = [request EXCEPT ![q].at = place]

\* Mutants, here and below: stereo is asked for though recording is off; only
\* the last instance's answer counts; a write goes on after a failure.
Wanted_AsAsked(on, both) == [enabled |-> on, stereo |-> both]

\* Stereo never makes sense with recording itself off; the runner's modes
\* (off, mono, stereo) come to the same.
Wanted(on, both) == [enabled |-> on, stereo |-> on /\ both]

Combined_LastOnly(before, field, answer) == [before EXCEPT ![field] = answer]

\* On for the section only if on for every instance.
Combined(before, field, answer) == [before EXCEPT ![field] = @ /\ answer]

StartToggle(q, targets, on, both) ==
    /\ request[q].at = "idle"
    /\ request' = [request EXCEPT ![q].at = "enable", ![q].on = targets, ![q].want = Wanted(on, both)]
    /\ UNCHANGED <<enabled, stereo, ramDisk, disturbed, refused>>

StartLook(k, targets) ==
    /\ request[k].at = "idle"
    /\ request' = [request EXCEPT ![k].at = "read", ![k].on = targets]
    /\ UNCHANGED <<enabled, stereo, ramDisk, disturbed, refused>>

Busy(q) == request[q].at \notin {"idle", "done", "failed"}

\* q writes to instance s while others are at work on it.
Disturbs(q, s) ==
    disturbed' = disturbed \cup
        {o \in (Toggle \cup Look) \ {q} : Busy(o) /\ \E i \in 1..Len(request[o].on) : request[o].on[i] = s}

\* The next instance, or the answer.
Onwards(q, place, got) ==
    LET more == request[q].i < Len(request[q].on) IN
    request' = [request EXCEPT ![q].at = IF more THEN place ELSE "done",
                       ![q].i = IF more THEN @ + 1 ELSE @, ![q].got = got]

\* applyRecordingSettings: recording itself, then stereo, which an instance
\* without the RAM disk accepts and leaves as it is.
SetEnabled(q) ==
    /\ request[q].at = "enable"
    /\ enabled' = [enabled EXCEPT ![Target(q)] = request[q].want.enabled]
    /\ request' = [request EXCEPT ![q].at = "stereo", ![q].got = Combined(@, "enabled", request[q].want.enabled)]
    /\ Disturbs(q, Target(q))
    /\ UNCHANGED <<stereo, ramDisk, refused>>

Honoured(q) == request[q].want.stereo => Target(q) \in ramDisk

SetStereo(q) ==
    /\ request[q].at = "stereo"
    /\ stereo' = IF Honoured(q) THEN [stereo EXCEPT ![Target(q)] = request[q].want.stereo] ELSE stereo
    /\ Onwards(q, "enable", Combined(request[q].got, "stereo", stereo'[Target(q)]))
    /\ Disturbs(q, Target(q))
    /\ UNCHANGED <<enabled, ramDisk, refused>>

AfterFault_GoesOn(q) == Onwards(q, "enable", request[q].got)

AfterFault(q) == Ends(q, "failed")

\* A request fails, carried out or not: the rest is not tried.
SetFails(q) ==
    /\ request[q].at \in {"enable", "stereo"} /\ refused < MaxFaults
    /\ refused' = refused + 1
    /\ \/ UNCHANGED <<enabled, stereo, disturbed>>
       \/ /\ request[q].at = "enable" /\ enabled' = [enabled EXCEPT ![Target(q)] = request[q].want.enabled]
          /\ Disturbs(q, Target(q)) /\ UNCHANGED stereo
       \/ /\ request[q].at = "stereo" /\ Honoured(q)
          /\ stereo' = [stereo EXCEPT ![Target(q)] = request[q].want.stereo]
          /\ Disturbs(q, Target(q)) /\ UNCHANGED enabled
    /\ AfterFault(q)
    /\ UNCHANGED ramDisk

\* readRecordingStatus: one record, or the tenant's and then the system's.
ReadBoth(k) ==
    /\ request[k].at = "read" /\ Target(k) \notin MultiTenant
    /\ Onwards(k, "read", Combined(Combined(request[k].got, "enabled", enabled[Target(k)]), "stereo", stereo[Target(k)]))
    /\ UNCHANGED <<enabled, stereo, ramDisk, disturbed, refused>>

ReadTenant(k) ==
    /\ request[k].at = "read" /\ Target(k) \in MultiTenant
    /\ request' = [request EXCEPT ![k].at = "read system", ![k].got = Combined(@, "enabled", enabled[Target(k)])]
    /\ UNCHANGED <<enabled, stereo, ramDisk, disturbed, refused>>

ReadSystem(k) ==
    /\ request[k].at = "read system"
    /\ Onwards(k, "read", Combined(request[k].got, "stereo", stereo[Target(k)]))
    /\ UNCHANGED <<enabled, stereo, ramDisk, disturbed, refused>>

ReadFails(k) ==
    /\ request[k].at \in {"read", "read system"} /\ refused < MaxFaults
    /\ refused' = refused + 1 /\ Ends(k, "failed")
    /\ UNCHANGED <<enabled, stereo, ramDisk, disturbed>>

RecordingNext ==
    \/ \E q \in Toggle :
         \/ \E targets \in Section, on, both \in BOOLEAN : StartToggle(q, targets, on, both)
         \/ SetEnabled(q) \/ SetStereo(q) \/ SetFails(q)
    \/ \E k \in Look :
         \/ \E targets \in Section : StartLook(k, targets)
         \/ ReadBoth(k) \/ ReadTenant(k) \/ ReadSystem(k) \/ ReadFails(k)
-----------------------------------------------------------------------------
OnIn(flag, targets) == \A i \in 1..Len(targets) : flag[targets[i]]
Shows(q) == request[q].at # "done" /\ request'[q].at = "done" /\ q \notin disturbed

\* "The PATCH responses are the source of truth, not the request"
\* (recording.go:237-239) and "a half-enabled remote pair shows as off"
\* (recording.go:93-95): what the dashboard shows after a toggle or a read is
\* what every instance of the section has, unless another write came between.
ShownIsSet ==
    [][\A q \in Toggle \cup Look : Shows(q) =>
         /\ request'[q].got.enabled = OnIn(enabled', request[q].on)
         /\ request'[q].got.stereo = OnIn(stereo', request[q].on)]_recVars

\* "one toggle turns both on" (recording.go:95), also after a toggle that failed
\* between the two: an answered toggle leaves every instance as was asked.
ToggleReachesAll ==
    [][\A q \in Toggle : Shows(q) =>
         \A i \in 1..Len(request[q].on) :
            LET s == request[q].on[i] IN
            /\ enabled'[s] = request[q].want.enabled
            /\ stereo'[s] = (request[q].want.stereo /\ s \in ramDisk)]_recVars

\* An answer to a toggle or a look is what PBXware has set (recording.go:93-112,
\* 168-245).
AnswersAreTrue == ShownIsSet /\ ToggleReachesAll

\* "stereo never makes sense with recording itself off" (recording.go:179): once
\* writes have ended, unless two overlapped or one failed, no instance has it so.
NoStereoAlone ==
    (\A q \in Toggle : ~Busy(q)) /\ refused = 0 /\ disturbed \cap Toggle = {} =>
        \A s \in Server : stereo[s] => enabled[s]
=============================================================================
