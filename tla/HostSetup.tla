----------------------------- MODULE HostSetup -----------------------------
(***************************************************************************)
(* Connecting SERVERware and restarting the PBXware VPSs through it        *)
(* (internal/wizard/serverware.go and restart.go, internal/serverware).    *)
(* Any number of connect and restart jobs may overlap: the handlers refuse *)
(* neither.  A VPS is edited by reading its record and sending the whole   *)
(* record back, and it has the RAM disk of its record only from its next   *)
(* start on.                                                               *)
(***************************************************************************)
EXTENDS Naturals, Sequences

CONSTANTS
    VPS,            \* the PBXware instances' VPSs
    Order,          \* the order the store lists the instances in
    Connect,        \* connect jobs
    Restart,        \* restart jobs
    Lists           \* the instances a restart may be asked for (server_ids)

ASSUME HostAssumption ==
    /\ Order \in Seq(VPS) /\ Order # <<>>
    /\ \A v \in VPS : \E i \in 1..Len(Order) : Order[i] = v
    /\ \A i, k \in 1..Len(Order) : Order[i] = Order[k] => i = k
    /\ \A l \in Lists : l \in Seq(VPS) /\ Len(l) > 0

VARIABLES
    engine, here,           \* lxc or not, and whether on SwarmDialer's host
    record, disk,           \* SERVERware's record of a VPS, and its RAM disk
    vps,                    \* "up", "down" or busy, "booting" (not PBXware)
    asked,                  \* VPSs with a restart accepted and not begun
    connect,                \* each connect job: its step, VPS and what it read
    raised,                 \* its progress.restart: what the GUI offers to restart
    saved,                  \* a connection is in the store
    restart,                \* each restart job: its step, list and place in it
    undone,                 \* history: VPSs whose record an overlapping edit overwrote
    unlisted,               \* history: raised by a job that failed before it said so
    stray,                  \* history: restarts nobody is sure to wait for (see below)
    due                     \* history: VPSs asked to restart with a raised record

recordVars == <<engine, here, record, undone>>
vpsVars == <<disk, vps, asked>>
connectVars == <<connect, raised, saved, unlisted>>
restartVars == <<restart, stray, due>>
hostVars == <<recordVars, vpsVars, connectVars, restartVars>>
-----------------------------------------------------------------------------
Record == [big : BOOLEAN, metrics : BOOLEAN]
IsLXC(v) == engine[v] = "lxc"

HostInit ==
    /\ engine \in [VPS -> {"lxc", "kvm"}] /\ here \in [VPS -> BOOLEAN]
    /\ record \in [VPS -> [big : BOOLEAN, metrics : {FALSE}]]
    /\ disk = [v \in VPS |-> record[v].big]
    /\ vps = [v \in VPS |-> "up"] /\ asked = {}
    /\ connect = [c \in Connect |-> [step |-> "none", i |-> 1, read |-> record[Order[1]]]]
    /\ raised = [c \in Connect |-> {}] /\ saved = FALSE
    /\ restart = [q \in Restart |-> [step |-> "none", list |-> Order, i |-> 1, minute |-> FALSE]]
    /\ undone = {} /\ unlisted = {} /\ stray = {} /\ due = [q \in Restart |-> {}]

At(c, step) == connect[c].step = step
Cur(c) == Order[connect[c].i]
Enters(c, step) == connect' = [connect EXCEPT ![c].step = step]

\* The keys and the hosts are checked, then the VPSs of the instances.
StartConnect(c) ==
    /\ At(c, "none")
    /\ Enters(c, IF \A v \in VPS : here[v] THEN "metrics" ELSE "failed")
    /\ UNCHANGED <<recordVars, vpsVars, raised, saved, unlisted, restartVars>>

\* A request to SERVERware or Prometheus fails, or what it waits for does not
\* come in time.
ConnectFails(c) ==
    /\ connect[c].step \in {"metrics", "put metrics", "metrics applied",
                            "disk", "put disk", "disk applied"}
    /\ Enters(c, "failed")
    /\ unlisted' = IF At(c, "disk applied") THEN unlisted \cup {Cur(c)} ELSE unlisted
    /\ UNCHANGED <<recordVars, vpsVars, raised, saved, restartVars>>

\* Mutants, here and below: the last VPS is left out; a raised disk is not
\* listed; a VPS that shows as running is taken as restarted at once.
NextVPS_LastLeft(c, step, then) ==
    connect' = [connect EXCEPT ![c] =
        IF @.i + 1 < Len(Order) THEN [@ EXCEPT !.step = step, !.i = connect[c].i + 1]
                                ELSE [@ EXCEPT !.step = then, !.i = 1]]

NextVPS(c, step, then) ==
    connect' = [connect EXCEPT ![c] =
        IF @.i < Len(Order) THEN [@ EXCEPT !.step = step, !.i = connect[c].i + 1]
                            ELSE [@ EXCEPT !.step = then, !.i = 1]]

\* editVPS: the record is read, and sent back unless it needs no change.  (The
\* RAM disk's size was read once before, by GetVPS.)
ReadsRecord(c, put) ==
    /\ connect' = [connect EXCEPT ![c] = [@ EXCEPT !.step = put, !.read = record[Cur(c)]]]
    /\ UNCHANGED <<recordVars, raised>>

SkipMetrics(c) ==
    /\ At(c, "metrics") /\ (IsLXC(Cur(c)) => record[Cur(c)].metrics)
    /\ NextVPS(c, "metrics", "disk")
    /\ UNCHANGED <<recordVars, raised>>

ReadMetrics(c) ==
    /\ At(c, "metrics") /\ IsLXC(Cur(c)) /\ ~record[Cur(c)].metrics
    /\ ReadsRecord(c, "put metrics")

\* SERVERware may have taken a record whose answer is lost: ConnectFails after it.
Puts(c, rec, then) ==
    /\ record' = [record EXCEPT ![Cur(c)] = rec]
    /\ undone' = IF record[Cur(c)] = connect[c].read THEN undone ELSE undone \cup {Cur(c)}
    /\ Enters(c, then)
    /\ UNCHANGED <<engine, here, raised>>

PutMetrics(c) ==
    At(c, "put metrics") /\ Puts(c, [connect[c].read EXCEPT !.metrics = TRUE], "metrics applied")

MetricsApplied(c) ==
    /\ At(c, "metrics applied") /\ record[Cur(c)].metrics
    /\ NextVPS(c, "metrics", "disk")
    /\ UNCHANGED <<recordVars, raised>>

\* The record's size, not that of the running VPS's disk.
BigEnough(v) == record[v].big

SkipDisk(c) ==
    /\ At(c, "disk") /\ (IsLXC(Cur(c)) => BigEnough(Cur(c)))
    /\ NextVPS(c, "disk", "save")
    /\ UNCHANGED <<recordVars, raised>>

ReadDisk(c) ==
    /\ At(c, "disk") /\ IsLXC(Cur(c)) /\ ~BigEnough(Cur(c))
    /\ ReadsRecord(c, "put disk")

PutDisk(c) ==
    At(c, "put disk") /\ Puts(c, [connect[c].read EXCEPT !.big = TRUE], "disk applied")

DiskApplied_NotListed(c) ==
    /\ At(c, "disk applied") /\ BigEnough(Cur(c))
    /\ NextVPS(c, "disk", "save")
    /\ UNCHANGED <<recordVars, raised>>

DiskApplied(c) ==
    /\ At(c, "disk applied") /\ BigEnough(Cur(c))
    /\ raised' = [raised EXCEPT ![c] = @ \cup {Cur(c)}]
    /\ NextVPS(c, "disk", "save")
    /\ UNCHANGED recordVars

SetsUp(c) ==
    /\ \/ SkipMetrics(c) \/ ReadMetrics(c) \/ PutMetrics(c) \/ MetricsApplied(c)
       \/ SkipDisk(c) \/ ReadDisk(c) \/ PutDisk(c) \/ DiskApplied(c)
    /\ UNCHANGED <<vpsVars, saved, unlisted, restartVars>>

SaveConnection(c) ==
    /\ At(c, "save")
    /\ \/ saved' = TRUE /\ Enters(c, "done")
       \/ UNCHANGED saved /\ Enters(c, "failed")
    /\ UNCHANGED <<recordVars, vpsVars, raised, unlisted, restartVars>>
-----------------------------------------------------------------------------
(* RestartPBXware, of the instances asked for in turn                      *)

RAt(q, step) == restart[q].step = step
RCur(q) == restart[q].list[restart[q].i]
RGoes(q, step) == restart' = [restart EXCEPT ![q].step = step]
Waits(q) == restart[q].step \in {"begin", "running", "answering"}

\* Its PBXware is up, and nothing is to change that.
Quiet(v) == vps[v] = "up" /\ v \notin asked

\* The handler asks for a saved connection and for instances it knows.
StartRestart(q) ==
    /\ RAt(q, "none") /\ saved
    /\ \E l \in Lists :
         restart' = [restart EXCEPT ![q] = [@ EXCEPT !.step = "ask", !.list = l]]
    /\ UNCHANGED <<recordVars, vpsVars, connectVars, stray, due>>

\* RestartVPS: accepted at once, carried out later.  A VPS that another restart
\* has not left yet is a stray: one job may take the other's restart for its own.
AskRestart(q) ==
    /\ RAt(q, "ask")
    /\ asked' = asked \cup {RCur(q)}
    /\ stray' = IF Quiet(RCur(q)) THEN stray ELSE stray \cup {RCur(q)}
    /\ due' = IF BigEnough(RCur(q)) THEN [due EXCEPT ![q] = @ \cup {RCur(q)}] ELSE due
    /\ RGoes(q, "begin")
    /\ UNCHANGED <<recordVars, disk, vps, connectVars>>

\* A poll that finds the VPS with a task, or not running.
SeenDown(q) ==
    /\ RAt(q, "begin") /\ vps[RCur(q)] = "down"
    /\ RGoes(q, "running")
    /\ UNCHANGED <<recordVars, vpsVars, connectVars, stray, due>>

\* startBy is past.  A restart that SERVERware has not begun by then is a stray.
MinuteOver(q) ==
    /\ RAt(q, "begin") /\ ~restart[q].minute
    /\ restart' = [restart EXCEPT ![q].minute = TRUE]
    /\ stray' = IF RCur(q) \in asked THEN stray \cup {RCur(q)} ELSE stray
    /\ UNCHANGED <<recordVars, vpsVars, connectVars, due>>

AssumedDone_AtOnce(q) ==
    /\ RAt(q, "begin") /\ vps[RCur(q)] # "down"
    /\ RGoes(q, "answering")
    /\ UNCHANGED <<recordVars, vpsVars, connectVars, stray, due>>

\* A VPS that shows as running after the minute is taken as restarted.
AssumedDone(q) ==
    /\ RAt(q, "begin") /\ restart[q].minute /\ vps[RCur(q)] # "down"
    /\ RGoes(q, "answering")
    /\ UNCHANGED <<recordVars, vpsVars, connectVars, stray, due>>

SeenRunning(q) ==
    /\ RAt(q, "running") /\ vps[RCur(q)] # "down"
    /\ RGoes(q, "answering")
    /\ UNCHANGED <<recordVars, vpsVars, connectVars, stray, due>>

\* waitPBXwareUp: the API and Asterisk answer.
Answers(q) ==
    /\ RAt(q, "answering") /\ vps[RCur(q)] = "up"
    /\ restart' = [restart EXCEPT ![q] =
         IF @.i < Len(@.list) THEN [@ EXCEPT !.step = "ask", !.i = restart[q].i + 1, !.minute = FALSE]
                              ELSE [@ EXCEPT !.step = "done", !.minute = FALSE]]
    /\ UNCHANGED <<recordVars, vpsVars, connectVars, stray, due>>

\* A request fails, also one that SERVERware carries out, or a wait is too long.
RestartFails(q) ==
    /\ \/ RAt(q, "ask") /\ UNCHANGED <<asked, stray>>
       \/ /\ RAt(q, "ask") /\ asked' = asked \cup {RCur(q)}
          /\ stray' = stray \cup {RCur(q)}
       \/ /\ Waits(q) /\ UNCHANGED asked
          /\ stray' = IF Quiet(RCur(q)) THEN stray ELSE stray \cup {RCur(q)}
    /\ RGoes(q, "failed")
    /\ UNCHANGED <<recordVars, disk, vps, connectVars, due>>
-----------------------------------------------------------------------------
(* SERVERware and the VPS.  A VPS starts with the RAM disk of its record.  *)

Becomes(v, from, to) == vps[v] = from /\ vps' = [vps EXCEPT ![v] = to]

VPSStep(v) ==
    /\ \/ /\ v \in asked /\ \E from \in {"up", "booting"} : Becomes(v, from, "down")
          /\ asked' = asked \ {v} /\ UNCHANGED <<disk, stray>>
       \/ Becomes(v, "down", "booting") /\ disk' = [disk EXCEPT ![v] = record[v].big]
          /\ UNCHANGED <<asked, stray>>
       \/ /\ Becomes(v, "booting", "up") /\ UNCHANGED <<asked, disk>>
          /\ stray' = IF v \in asked THEN stray ELSE stray \ {v}
    /\ UNCHANGED <<recordVars, connectVars, restart, due>>

ConnectStep(c) == StartConnect(c) \/ ConnectFails(c) \/ SetsUp(c) \/ SaveConnection(c)

RestartStep(q) ==
    \/ StartRestart(q) \/ AskRestart(q) \/ SeenDown(q) \/ MinuteOver(q) \/ AssumedDone(q)
    \/ SeenRunning(q) \/ Answers(q) \/ RestartFails(q)

HostNext ==
    \/ \E c \in Connect : ConnectStep(c)
    \/ \E q \in Restart : RestartStep(q)
    \/ \E v \in VPS : VPSStep(v)
-----------------------------------------------------------------------------
\* serverware.go:104-113: a connection is saved only when all VPSs are on one host
\* and, if LXC, have their metrics on and their record's RAM disk raised; unless
\* another connect job sent back a record it had read before (undone).
ConnectedIsSetUp ==
    saved => \A v \in VPS : /\ here[v]
                            /\ IsLXC(v) /\ v \notin undone => record[v].metrics /\ record[v].big

\* serverware.go:109-111, 261-266: once a connect job succeeds, each LXC VPS that still
\* runs with a small RAM disk is among those some job offers to restart, or is about
\* to, unless a job that raised it failed before it said so.
SmallIsOffered ==
    (\E c \in Connect : At(c, "done")) =>
        \A v \in VPS \ (undone \cup unlisted) :
            IsLXC(v) /\ ~disk[v] =>
                \E c \in Connect : v \in raised[c] \/ (At(c, "disk applied") /\ Cur(c) = v)

\* restart.go:28-31, "one PBXware instance is always up while the other restarts": a
\* PBXware that is down, or about to be, is the one a restart job waits for, so each
\* job has one down at a time.  Excepted are restarts that began more than a minute
\* after they were accepted (client.go:269-283), that met another of the same VPS, or
\* whose job failed (stray).
OneIsUp ==
    \A v \in VPS \ stray : Quiet(v) \/ \E q \in Restart : Waits(q) /\ RCur(q) = v

\* restart.go:28-34: a VPS whose record was raised when a job asked to restart it has
\* that RAM disk once the job has gone on from it, with the same exceptions.
RestartApplies ==
    \A q \in Restart : \A v \in due[q] \ (stray \cup undone) :
        disk[v] \/ (Waits(q) /\ RCur(q) = v)

\* Connecting and restarting do what they report, whatever jobs overlap and fail
\* (serverware.go:104-281, restart.go:28-76).
HostInv == ConnectedIsSetUp /\ SmallIsOffered /\ OneIsUp /\ RestartApplies
=============================================================================
