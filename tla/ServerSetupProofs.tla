------------------------- MODULE ServerSetupProofs -------------------------
(***************************************************************************)
(* Theorems about ServerSetup, part by part: the SERVERware host, the      *)
(* recording settings and provisioning.                                    *)
(***************************************************************************)
EXTENDS ServerSetup, FiniteSetTheorems, WellFoundedInduction, TLAPS

-----------------------------------------------------------------------------
(***************************************************************************)
(* The SERVERware host.  A connect job has set up the VPSs it is past, and *)
(* a restart nobody is at fault for has a job that waits for it.           *)
(***************************************************************************)

HostSpec == HostInit /\ [][HostNext]_hostVars

Places == 1..Len(Order)
ConnectSteps == {"none", "metrics", "put metrics", "metrics applied",
                 "disk", "put disk", "disk applied", "save", "done", "failed"}
RestartSteps == {"none", "ask", "begin", "running", "answering", "done", "failed"}

RestartJob ==
    {r \in [step : RestartSteps, list : Seq(VPS), i : Nat, minute : BOOLEAN] :
        r.i \in 1..Len(r.list) /\ (r.step = "none" => r.i = 1)}

HostTypes ==
    /\ record \in [VPS -> Record] /\ disk \in [VPS -> BOOLEAN]
    /\ vps \in [VPS -> {"up", "down", "booting"}] /\ asked \subseteq VPS
    /\ connect \in [Connect -> [step : ConnectSteps, i : Places, read : Record]]
    /\ raised \in [Connect -> SUBSET VPS]
    /\ restart \in [Restart -> RestartJob]
    /\ due \in [Restart -> SUBSET VPS]

\* The connect job is past the place k, with the metrics or with the disk.
MetricsOn(c, k) ==
    \/ connect[c].step \in {"metrics", "put metrics", "metrics applied"} /\ k < connect[c].i
    \/ connect[c].step \in {"disk", "put disk", "disk applied", "save", "done"}

DiskRaised(c, k) ==
    \/ connect[c].step \in {"disk", "put disk", "disk applied"} /\ k < connect[c].i
    \/ connect[c].step \in {"save", "done"}

ConnectOf(c) ==
    /\ At(c, "none") => connect[c].i = 1
    /\ connect[c].step \notin {"none", "failed"} => \A v \in VPS : here[v]
    /\ \A k \in Places : IsLXC(Order[k]) /\ Order[k] \notin undone =>
         /\ MetricsOn(c, k) => record[Order[k]].metrics
         /\ DiskRaised(c, k) => record[Order[k]].big

ConnectInv == (\A c \in Connect : ConnectOf(c)) /\ ConnectedIsSetUp

\* A raised disk the VPS does not run with yet is listed, or about to be.
Listing(c, v) == v \in raised[c] \/ (At(c, "disk applied") /\ Cur(c) = v)

OfferedInv ==
    \A v \in VPS \ (undone \cup unlisted) :
        record[v].big /\ ~disk[v] => \E c \in Connect : Listing(c, v)

\* An accepted restart, and a VPS that is not up, have a job that waits for them.
AsksFor(q, v) == RAt(q, "begin") /\ ~restart[q].minute /\ RCur(q) = v
WaitsFor(q, v) == Waits(q) /\ RCur(q) = v

AwaitedInv ==
    /\ \A q \in Restart : restart[q].step \in {"none", "ask"} => ~restart[q].minute
    /\ \A v \in VPS \ stray :
         /\ v \in asked => vps[v] = "up" /\ \E q \in Restart : AsksFor(q, v)
         /\ vps[v] # "up" => \E q \in Restart : WaitsFor(q, v)

\* A VPS that is to have a raised disk has it, or a restart before it.
Under(q, v) ==
    \/ v \in asked /\ AsksFor(q, v)
    \/ vps[v] = "down" /\ WaitsFor(q, v) /\ ~RAt(q, "answering")

DueInv ==
    \A q \in Restart : \A v \in due[q] \ undone :
        /\ record[v].big
        /\ v \in asked \/ vps[v] = "down" \/ disk[v]
        /\ v \in stray \/ disk[v] \/ Under(q, v)

HostIInv == HostTypes /\ ConnectInv /\ OfferedInv /\ AwaitedInv /\ DueInv

LEMMA Orders ==
    /\ Len(Order) \in Nat /\ 1 \in Places /\ Places \subseteq Nat
    /\ \A i \in Places : Order[i] \in VPS
    /\ \A v \in VPS : \E i \in Places : Order[i] = v
    /\ \A i, k \in Places : Order[i] = Order[k] => i = k
BY HostAssumption DEF Places

LEMMA InitHostIInv == HostInit => HostIInv
<1> SUFFICES ASSUME HostInit PROVE HostIInv
  OBVIOUS
<1>1. record \in [VPS -> Record] /\ disk \in [VPS -> BOOLEAN]
  BY DEF HostInit, Record
<1>2. record[Order[1]] \in Record
  BY <1>1, Orders
<1>3. connect \in [Connect -> [step : ConnectSteps, i : Places, read : Record]]
  BY <1>2, Orders DEF HostInit, ConnectSteps
<1>4. Order \in Seq(VPS) /\ 1 \in 1..Len(Order)
  BY HostAssumption, Orders DEF Places
<1>5. restart \in [Restart -> RestartJob]
  BY <1>4 DEF HostInit, RestartSteps, RestartJob
<1>6. HostTypes
  BY <1>1, <1>3, <1>5 DEF HostInit, HostTypes
<1>7. ConnectInv
  BY DEF HostInit, ConnectInv, ConnectOf, At, MetricsOn, DiskRaised, ConnectedIsSetUp
<1>8. OfferedInv /\ AwaitedInv /\ DueInv
  BY <1>1 DEF HostInit, OfferedInv, AwaitedInv, DueInv, Record
<1> QED BY <1>6, <1>7, <1>8 DEF HostIInv

\* What a step of a connect job does to its place.
LEMMA NextPlace ==
    ASSUME HostTypes, NEW c \in Connect, NEW step, NEW then, NextVPS(c, step, then)
    PROVE  /\ \A d \in Connect \ {c} : connect'[d] = connect[d]
           /\ \/ /\ connect[c].i < Len(Order)
                 /\ connect'[c] = [step |-> step, i |-> connect[c].i + 1, read |-> connect[c].read]
                 /\ connect'[c].step = step /\ connect'[c].i = connect[c].i + 1
              \/ /\ ~(connect[c].i < Len(Order))
                 /\ connect'[c] = [step |-> then, i |-> 1, read |-> connect[c].read]
                 /\ connect'[c].step = then /\ connect'[c].i = 1
           /\ connect' = [d \in Connect |-> connect'[d]]
<1> DEFINE place == IF connect[c].i < Len(Order)
                      THEN [connect[c] EXCEPT !.step = step, !.i = connect[c].i + 1]
                      ELSE [connect[c] EXCEPT !.step = then, !.i = 1]
<1>1. connect' = [connect EXCEPT ![c] = place]
  BY Zenon DEF NextVPS
<1>2. connect[c] = [step |-> connect[c].step, i |-> connect[c].i, read |-> connect[c].read]
  BY DEF HostTypes
<1>3. \/ /\ connect[c].i < Len(Order)
         /\ place = [step |-> step, i |-> connect[c].i + 1, read |-> connect[c].read]
      \/ /\ ~(connect[c].i < Len(Order))
         /\ place = [step |-> then, i |-> 1, read |-> connect[c].read]
  BY <1>2
<1> HIDE DEF place
<1>4. connect'[c] = place /\ \A d \in Connect \ {c} : connect'[d] = connect[d]
  BY <1>1 DEF HostTypes
<1>5. connect' = [d \in Connect |-> connect'[d]]
  BY <1>1 DEF HostTypes
<1> QED BY <1>3, <1>4, <1>5

LEMMA Entering ==
    ASSUME HostTypes, NEW c \in Connect, NEW step, Enters(c, step)
    PROVE  /\ \A d \in Connect \ {c} : connect'[d] = connect[d]
           /\ connect'[c] = [step |-> step, i |-> connect[c].i, read |-> connect[c].read]
           /\ connect'[c].step = step /\ connect'[c].i = connect[c].i
           /\ connect' = [d \in Connect |-> connect'[d]]
BY DEF HostTypes, Enters

LEMMA Reading ==
    ASSUME HostTypes, NEW c \in Connect, NEW put, ReadsRecord(c, put)
    PROVE  /\ \A d \in Connect \ {c} : connect'[d] = connect[d]
           /\ connect'[c].step = put /\ connect'[c].i = connect[c].i
<1> DEFINE place == [connect[c] EXCEPT !.step = put, !.read = record[Cur(c)]]
<1>1. connect' = [connect EXCEPT ![c] = place]
  BY Zenon DEF ReadsRecord
<1>2. connect[c] \in [step : ConnectSteps, i : Places, read : Record]
  BY DEF HostTypes
<1>3. place.step = put /\ place.i = connect[c].i
  BY <1>2
<1> HIDE DEF place
<1> QED BY <1>1, <1>3 DEF HostTypes

LEMMA PlaceOf ==
    ASSUME HostTypes, NEW c \in Connect
    PROVE  /\ connect[c].i \in Places /\ Cur(c) \in VPS /\ Cur(c) = Order[connect[c].i]
           /\ connect[c].step \in ConnectSteps /\ connect[c].read \in Record
           /\ connect[c].i < Len(Order) => connect[c].i + 1 \in Places
           /\ \A k \in Places : /\ k < connect[c].i + 1 <=> k < connect[c].i \/ k = connect[c].i
                                /\ ~(connect[c].i < Len(Order)) => k < connect[c].i \/ k = connect[c].i
                                /\ ~(k < 1)
<1>1. connect[c].i \in Places /\ connect[c].step \in ConnectSteps /\ connect[c].read \in Record
  BY DEF HostTypes
<1>2. Cur(c) \in VPS /\ Cur(c) = Order[connect[c].i]
  BY <1>1, Orders DEF Cur
<1> QED BY <1>1, <1>2, Orders DEF Places

\* What a restart job's step does to its place.
LEMMA RGoing ==
    ASSUME HostTypes, NEW q \in Restart, NEW step, RGoes(q, step)
    PROVE  /\ \A p \in Restart \ {q} : restart'[p] = restart[p]
           /\ restart'[q] = [restart[q] EXCEPT !.step = step]
           /\ restart'[q].step = step /\ restart'[q].minute = restart[q].minute
           /\ RCur(q)' = RCur(q)
           /\ restart' = [p \in Restart |-> restart'[p]]
<1>1. restart[q] \in RestartJob /\ restart = [p \in Restart |-> restart[p]]
  BY DEF HostTypes
<1>2. restart' = [restart EXCEPT ![q] = [restart[q] EXCEPT !.step = step]]
  BY <1>1 DEF RGoes
<1>3. restart'[q] = [restart[q] EXCEPT !.step = step] /\ \A p \in Restart \ {q} : restart'[p] = restart[p]
  BY <1>1, <1>2
<1>4. /\ restart'[q].step = step /\ restart'[q].minute = restart[q].minute
      /\ restart'[q].i = restart[q].i /\ restart'[q].list = restart[q].list
  BY <1>1, <1>3 DEF RestartJob
<1>5. restart' = [p \in Restart |-> restart'[p]]
  BY <1>1, <1>2
<1> QED BY <1>3, <1>4, <1>5 DEF RCur

LEMMA ConnectTypes ==
    ASSUME HostTypes, NEW c \in Connect, ConnectStep(c)
    PROVE  HostTypes'
<1>0. /\ connect[c].i \in Places /\ Cur(c) \in VPS /\ connect[c].read \in Record /\ 1 \in Places
      /\ connect[c].i < Len(Order) => connect[c].i + 1 \in Places
  BY PlaceOf, Orders
<1>1. ASSUME NEW job \in [step : ConnectSteps, i : Places, read : Record], connect'[c] = job,
             \A d \in Connect \ {c} : connect'[d] = connect[d],
             connect' = [d \in Connect |-> connect'[d]]
      PROVE  connect' \in [Connect -> [step : ConnectSteps, i : Places, read : Record]]
  BY <1>1 DEF HostTypes
<1>2. ASSUME NEW step \in ConnectSteps, Enters(c, step)
      PROVE  connect' \in [Connect -> [step : ConnectSteps, i : Places, read : Record]]
  <2>1. connect'[c] = [step |-> step, i |-> connect[c].i, read |-> connect[c].read]
    BY <1>2, Entering
  <2>2. connect'[c] \in [step : ConnectSteps, i : Places, read : Record]
    BY <1>0, <1>2, <2>1
  <2> QED BY <1>1, <1>2, <2>2, Entering
<1>3. ASSUME NEW step \in ConnectSteps, NEW then \in ConnectSteps, NextVPS(c, step, then)
      PROVE  connect' \in [Connect -> [step : ConnectSteps, i : Places, read : Record]]
  <2>1. \/ /\ connect[c].i < Len(Order)
           /\ connect'[c] = [step |-> step, i |-> connect[c].i + 1, read |-> connect[c].read]
        \/ connect'[c] = [step |-> then, i |-> 1, read |-> connect[c].read]
    BY <1>3, NextPlace
  <2>2. connect'[c] \in [step : ConnectSteps, i : Places, read : Record]
    BY <1>0, <2>1
  <2> QED BY <1>1, <1>3, <2>2, NextPlace
<1>4. CASE StartConnect(c) \/ ConnectFails(c) \/ SaveConnection(c)
  <2>1. PICK step \in {"metrics", "failed", "done"} : Enters(c, step)
    BY <1>4 DEF StartConnect, ConnectFails, SaveConnection
  <2>2. connect' \in [Connect -> [step : ConnectSteps, i : Places, read : Record]]
    BY <1>2, <2>1 DEF ConnectSteps
  <2>3. UNCHANGED <<record, disk, vps, asked, raised, restart, due>>
    BY <1>4 DEF StartConnect, ConnectFails, SaveConnection, recordVars, vpsVars, restartVars
  <2> QED BY <2>2, <2>3 DEF HostTypes
<1>5. CASE SetsUp(c)
  <2>1. UNCHANGED <<disk, vps, asked, restart, due>>
    BY <1>5 DEF SetsUp, vpsVars, restartVars
  <2>2. ASSUME NEW rec \in Record, NEW step \in ConnectSteps, Puts(c, rec, step)
        PROVE  HostTypes'
    <3>1. record' \in [VPS -> Record] /\ UNCHANGED raised
      BY <1>0, <2>2 DEF Puts, HostTypes
    <3> QED BY <1>2, <2>1, <2>2, <3>1 DEF Puts, HostTypes
  <2>3. ASSUME NEW step \in ConnectSteps, ReadsRecord(c, step)
        PROVE  HostTypes'
    <3>1. record[Cur(c)] \in Record
      BY <1>0 DEF HostTypes
    <3>2. connect' \in [Connect -> [step : ConnectSteps, i : Places, read : Record]]
      BY <2>3, <3>1 DEF ReadsRecord, HostTypes
    <3> QED BY <2>1, <2>3, <3>2 DEF ReadsRecord, HostTypes, recordVars
  <2>4. ASSUME NEW step \in ConnectSteps, NEW then \in ConnectSteps, NextVPS(c, step, then),
               UNCHANGED recordVars, raised' \in [Connect -> SUBSET VPS]
        PROVE  HostTypes'
    BY <1>3, <2>1, <2>4 DEF HostTypes, recordVars
  <2>5. CASE SkipMetrics(c) \/ MetricsApplied(c) \/ SkipDisk(c) \/ DiskApplied(c)
    <3>1. UNCHANGED recordVars /\ raised' \in [Connect -> SUBSET VPS]
      BY <1>0, <2>5 DEF SkipMetrics, MetricsApplied, SkipDisk, DiskApplied, HostTypes
    <3> QED BY <2>4, <2>5, <3>1
         DEF SkipMetrics, MetricsApplied, SkipDisk, DiskApplied, ConnectSteps
  <2>6. CASE ReadMetrics(c) \/ ReadDisk(c)
    BY <2>3, <2>6 DEF ReadMetrics, ReadDisk, ConnectSteps
  <2>7. CASE PutMetrics(c) \/ PutDisk(c)
    <3>1. [connect[c].read EXCEPT !.metrics = TRUE] \in Record /\ [connect[c].read EXCEPT !.big = TRUE] \in Record
      BY <1>0 DEF Record
    <3> QED BY <2>2, <2>7, <3>1 DEF PutMetrics, PutDisk, ConnectSteps
  <2> QED BY <1>5, <2>5, <2>6, <2>7 DEF SetsUp
<1> QED BY <1>4, <1>5 DEF ConnectStep

LEMMA RestartTypes ==
    ASSUME HostTypes, NEW q \in Restart, RestartStep(q)
    PROVE  HostTypes'
<1>0. restart[q] \in RestartJob /\ RCur(q) \in VPS
  BY DEF HostTypes, RestartJob, RCur
<1>1. /\ restart[q].step \in RestartSteps /\ restart[q].list \in Seq(VPS) /\ restart[q].minute \in BOOLEAN
      /\ restart[q].i \in 1..Len(restart[q].list) /\ restart[q].i \in Nat /\ Len(restart[q].list) \in Nat
      /\ restart[q] = [step |-> restart[q].step, list |-> restart[q].list, i |-> restart[q].i,
                       minute |-> restart[q].minute]
  BY <1>0 DEF RestartJob
<1>2. ASSUME NEW job \in RestartJob, restart' = [restart EXCEPT ![q] = job]
      PROVE  restart' \in [Restart -> RestartJob]
  BY <1>2 DEF HostTypes
<1>3. ASSUME NEW step \in RestartSteps \ {"none"}, RGoes(q, step)
      PROVE  restart' \in [Restart -> RestartJob]
  <2>1. restart' = [restart EXCEPT ![q] = [restart[q] EXCEPT !.step = step]]
    BY <1>3 DEF RGoes, HostTypes
  <2>2. [restart[q] EXCEPT !.step = step] \in RestartJob
    BY <1>1, <1>3 DEF RestartJob
  <2> QED BY <1>2, <2>1, <2>2
<1>4. UNCHANGED <<record, disk, vps, connect, raised>>
  BY DEF RestartStep, StartRestart, AskRestart, SeenDown, MinuteOver, AssumedDone, SeenRunning, Answers,
     RestartFails, recordVars, vpsVars, connectVars
<1>5. asked' \subseteq VPS /\ due' \in [Restart -> SUBSET VPS]
  BY <1>0 DEF HostTypes, RestartStep, StartRestart, AskRestart, SeenDown, MinuteOver, AssumedDone,
     SeenRunning, Answers, RestartFails, vpsVars
<1>6. restart' \in [Restart -> RestartJob]
  <2>1. CASE StartRestart(q)
    <3>1. PICK l \in Lists : restart' = [restart EXCEPT ![q] = [restart[q] EXCEPT !.step = "ask", !.list = l]]
      BY <2>1 DEF StartRestart
    <3>2. l \in Seq(VPS) /\ Len(l) \in Nat /\ Len(l) > 0
      BY HostAssumption
    <3>3. restart[q].i = 1
      BY <1>0, <2>1 DEF StartRestart, RAt, RestartJob
    <3>4. restart[q].i \in 1..Len(l)
      BY <3>2, <3>3
    <3>5. [restart[q] EXCEPT !.step = "ask", !.list = l] \in RestartJob
      BY <1>0, <1>1, <3>2, <3>4 DEF RestartJob, RestartSteps
    <3> QED BY <1>2, <3>1, <3>5
  <2>2. CASE MinuteOver(q)
    <3>1. restart' = [restart EXCEPT ![q] = [restart[q] EXCEPT !.minute = TRUE]]
      BY <2>2 DEF MinuteOver, HostTypes
    <3>2. [restart[q] EXCEPT !.minute = TRUE] \in RestartJob
      BY <1>0, <1>1 DEF RestartJob
    <3> QED BY <1>2, <3>1, <3>2
  <2>3. CASE Answers(q)
    <3> DEFINE job == IF restart[q].i < Len(restart[q].list)
                      THEN [restart[q] EXCEPT !.step = "ask", !.i = restart[q].i + 1, !.minute = FALSE]
                      ELSE [restart[q] EXCEPT !.step = "done", !.minute = FALSE]
    <3>1. restart' = [restart EXCEPT ![q] = job]
      BY <2>3, Zenon DEF Answers
    <3>2. PICK step \in {"ask", "done"}, i \in 1..Len(restart[q].list) :
            job = [step |-> step, list |-> restart[q].list, i |-> i, minute |-> FALSE]
      <4>1. CASE restart[q].i < Len(restart[q].list)
        <5>1. job = [step |-> "ask", list |-> restart[q].list, i |-> restart[q].i + 1, minute |-> FALSE]
          BY <1>1, <4>1
        <5>2. restart[q].i + 1 \in 1..Len(restart[q].list)
          BY <1>1, <4>1
        <5> QED BY <5>1, <5>2
      <4>2. CASE ~(restart[q].i < Len(restart[q].list))
        <5>1. job = [step |-> "done", list |-> restart[q].list, i |-> restart[q].i, minute |-> FALSE]
          BY <1>1, <4>2
        <5> QED BY <1>1, <5>1
      <4> QED BY <4>1, <4>2
    <3> HIDE DEF job
    <3>3. [step |-> step, list |-> restart[q].list, i |-> i, minute |-> FALSE] \in RestartJob
      BY <1>1 DEF RestartJob, RestartSteps
    <3> QED BY <1>2, <3>1, <3>2, <3>3
  <2>4. CASE AskRestart(q) \/ SeenDown(q) \/ AssumedDone(q) \/ SeenRunning(q) \/ RestartFails(q)
    BY <1>3, <2>4 DEF AskRestart, SeenDown, AssumedDone, SeenRunning, RestartFails, RestartSteps
  <2> QED BY <2>1, <2>2, <2>3, <2>4 DEF RestartStep
<1> QED BY <1>4, <1>5, <1>6 DEF HostTypes

LEMMA NextHostTypes == HostTypes /\ [HostNext]_hostVars => HostTypes'
<1> SUFFICES ASSUME HostTypes, [HostNext]_hostVars PROVE HostTypes'
  OBVIOUS
<1>1. ASSUME NEW v \in VPS, VPSStep(v) PROVE HostTypes'
  <2>1. UNCHANGED <<record, connect, raised, restart, due>>
    BY <1>1 DEF VPSStep, recordVars, connectVars
  <2>2. vps' \in [VPS -> {"up", "down", "booting"}] /\ asked' \subseteq VPS
    BY <1>1 DEF VPSStep, Becomes, HostTypes
  <2>3. disk' \in [VPS -> BOOLEAN]
    <3>1. record[v].big \in BOOLEAN
      BY DEF HostTypes, Record
    <3>2. UNCHANGED disk \/ disk' = [disk EXCEPT ![v] = record[v].big]
      BY <1>1 DEF VPSStep
    <3> QED BY <3>1, <3>2 DEF HostTypes
  <2> QED BY <2>1, <2>2, <2>3 DEF HostTypes
<1>2. CASE UNCHANGED hostVars
  BY <1>2 DEF HostTypes, hostVars, recordVars, vpsVars, connectVars, restartVars
<1> QED BY <1>1, <1>2, ConnectTypes, RestartTypes DEF HostNext

\* Only an overlapping edit takes a setting back.
LEMMA RecordGains ==
    ASSUME HostTypes, [HostNext]_hostVars
    PROVE  /\ undone \subseteq undone' /\ UNCHANGED <<engine, here>>
           /\ \A v \in VPS \ undone' : /\ record[v].metrics => record'[v].metrics
                                       /\ record[v].big => record'[v].big
<1>1. CASE UNCHANGED recordVars
  BY <1>1 DEF recordVars
<1>2. ASSUME NEW c \in Connect, PutMetrics(c) \/ PutDisk(c)
      PROVE  /\ undone \subseteq undone' /\ UNCHANGED <<engine, here>>
             /\ \A v \in VPS \ undone' : /\ record[v].metrics => record'[v].metrics
                                         /\ record[v].big => record'[v].big
  <2>1. PICK rec : /\ rec = [connect[c].read EXCEPT !.metrics = TRUE] \/ rec = [connect[c].read EXCEPT !.big = TRUE]
                   /\ record' = [record EXCEPT ![Cur(c)] = rec]
                   /\ undone' = IF record[Cur(c)] = connect[c].read THEN undone ELSE undone \cup {Cur(c)}
                   /\ UNCHANGED <<engine, here>>
    BY <1>2 DEF PutMetrics, PutDisk, Puts
  <2>2. Cur(c) \in VPS /\ connect[c].read \in Record
    BY PlaceOf
  <2>3. /\ connect[c].read.metrics => rec.metrics
        /\ connect[c].read.big => rec.big
    BY <2>1, <2>2 DEF Record
  <2>4. record'[Cur(c)] = rec /\ \A v \in VPS \ {Cur(c)} : record'[v] = record[v]
    BY <2>1, <2>2 DEF HostTypes
  <2> QED BY <2>1, <2>3, <2>4
<1>3. ASSUME NEW c \in Connect, ConnectStep(c), ~PutMetrics(c), ~PutDisk(c)
      PROVE  UNCHANGED recordVars
  BY <1>3 DEF ConnectStep, StartConnect, ConnectFails, SaveConnection, SetsUp, SkipMetrics, ReadMetrics,
     MetricsApplied, SkipDisk, ReadDisk, DiskApplied, ReadsRecord
<1>4. ASSUME NEW q \in Restart, RestartStep(q) PROVE UNCHANGED recordVars
  BY <1>4 DEF RestartStep, StartRestart, AskRestart, SeenDown, MinuteOver, AssumedDone, SeenRunning,
     Answers, RestartFails
<1>5. ASSUME NEW v \in VPS, VPSStep(v) PROVE UNCHANGED recordVars
  BY <1>5 DEF VPSStep
<1>6. CASE UNCHANGED hostVars
  BY <1>1, <1>6 DEF hostVars
<1> QED BY <1>1, <1>2, <1>3, <1>4, <1>5, <1>6 DEF HostNext

LEMMA NextConnectInv ==
    ASSUME HostTypes, ConnectInv, [HostNext]_hostVars
    PROVE  ConnectInv'
<1>0. /\ UNCHANGED <<engine, here>> /\ undone \subseteq undone'
      /\ \A k \in Places : Order[k] \in VPS
      /\ \A k \in Places : Order[k] \notin undone' =>
           /\ Order[k] \notin undone
           /\ record[Order[k]].metrics => record'[Order[k]].metrics
           /\ record[Order[k]].big => record'[Order[k]].big
  BY RecordGains, Orders
<1>1. ASSUME NEW d \in Connect, connect'[d] = connect[d]
      PROVE  ConnectOf(d)'
  <2>1. ConnectOf(d)
    BY DEF ConnectInv
  <2> QED BY <1>0, <1>1, <2>1 DEF ConnectOf, At, MetricsOn, DiskRaised, IsLXC
<1>2. ASSUME NEW c \in Connect, SetsUp(c) PROVE ConnectOf(c)'
  <2>0. /\ ConnectOf(c) /\ Cur(c) = Order[connect[c].i] /\ connect[c].i \in Places
        /\ \A k \in Places : /\ k < connect[c].i + 1 <=> k < connect[c].i \/ k = connect[c].i
                             /\ ~(connect[c].i < Len(Order)) => k < connect[c].i \/ k = connect[c].i
                             /\ ~(k < 1)
    BY PlaceOf DEF ConnectInv
  <2>1. CASE SkipMetrics(c) \/ MetricsApplied(c)
    <3>1. /\ NextVPS(c, "metrics", "disk") /\ UNCHANGED <<record, undone>>
          /\ connect[c].step \in {"metrics", "metrics applied"}
          /\ IsLXC(Cur(c)) => record[Cur(c)].metrics
      BY <2>1 DEF SkipMetrics, MetricsApplied, At, recordVars
    <3>2. \/ connect'[c].step = "metrics" /\ connect'[c].i = connect[c].i + 1
          \/ ~(connect[c].i < Len(Order)) /\ connect'[c].step = "disk" /\ connect'[c].i = 1
      BY <3>1, NextPlace
    <3> QED BY <1>0, <2>0, <3>1, <3>2 DEF ConnectOf, At, MetricsOn, DiskRaised, IsLXC
  <2>2. CASE SkipDisk(c) \/ DiskApplied(c)
    <3>1. /\ NextVPS(c, "disk", "save") /\ UNCHANGED <<record, undone>>
          /\ connect[c].step \in {"disk", "disk applied"}
          /\ IsLXC(Cur(c)) => record[Cur(c)].big
      BY <2>2 DEF SkipDisk, DiskApplied, At, BigEnough, recordVars
    <3>2. \/ connect'[c].step = "disk" /\ connect'[c].i = connect[c].i + 1
          \/ ~(connect[c].i < Len(Order)) /\ connect'[c].step = "save" /\ connect'[c].i = 1
      BY <3>1, NextPlace
    <3> QED BY <1>0, <2>0, <3>1, <3>2 DEF ConnectOf, At, MetricsOn, DiskRaised, IsLXC
  <2>3. CASE ReadMetrics(c) \/ ReadDisk(c)
    <3>1. PICK s \in {"metrics", "disk"} : connect[c].step = s /\ connect'[c].i = connect[c].i
                /\ \/ s = "metrics" /\ connect'[c].step = "put metrics"
                   \/ s = "disk" /\ connect'[c].step = "put disk"
      BY <2>3, Reading DEF ReadMetrics, ReadDisk, At
    <3> QED BY <1>0, <2>0, <3>1 DEF ConnectOf, At, MetricsOn, DiskRaised, IsLXC
  <2>4. CASE PutMetrics(c)
    <3>1. connect[c].step = "put metrics" /\ Enters(c, "metrics applied")
      BY <2>4 DEF PutMetrics, Puts, At
    <3>2. connect'[c].step = "metrics applied" /\ connect'[c].i = connect[c].i
      BY <3>1, Entering
    <3> QED BY <1>0, <2>0, <3>1, <3>2 DEF ConnectOf, At, MetricsOn, DiskRaised, IsLXC
  <2>5. CASE PutDisk(c)
    <3>1. connect[c].step = "put disk" /\ Enters(c, "disk applied")
      BY <2>5 DEF PutDisk, Puts, At
    <3>2. connect'[c].step = "disk applied" /\ connect'[c].i = connect[c].i
      BY <3>1, Entering
    <3> QED BY <1>0, <2>0, <3>1, <3>2 DEF ConnectOf, At, MetricsOn, DiskRaised, IsLXC
  <2> QED BY <1>2, <2>1, <2>2, <2>3, <2>4, <2>5 DEF SetsUp
<1>3. ASSUME NEW c \in Connect, ConnectStep(c) PROVE ConnectOf(c)'
  <2>1. CASE StartConnect(c)
    <3>1. PICK s \in {"metrics", "failed"} : /\ Enters(c, s) /\ connect[c].step = "none"
                                             /\ s = "metrics" => \A v \in VPS : here[v]
      BY <2>1, Zenon DEF StartConnect, At
    <3>2. connect[c].i = 1
      BY <3>1 DEF ConnectInv, ConnectOf, At
    <3>3. connect'[c].step = s
      BY <3>1, Entering
    <3>4. s = "metrics" => connect'[c].i = 1
      BY <3>1, <3>2, Entering
    <3> QED BY <1>0, <3>1, <3>3, <3>4, PlaceOf DEF ConnectOf, At, MetricsOn, DiskRaised, IsLXC
  <2>2. CASE ConnectFails(c)
    <3>1. connect'[c].step = "failed"
      BY <2>2, Entering DEF ConnectFails
    <3> QED BY <3>1 DEF ConnectOf, At, MetricsOn, DiskRaised
  <2>3. CASE SaveConnection(c)
    <3>1. connect'[c].step \in {"done", "failed"} /\ connect[c].step = "save" /\ ConnectOf(c)
      BY <2>3, Entering DEF SaveConnection, At, ConnectInv
    <3> QED BY <1>0, <3>1 DEF ConnectOf, At, MetricsOn, DiskRaised, IsLXC
  <2> QED BY <1>2, <1>3, <2>1, <2>2, <2>3 DEF ConnectStep
<1>4. ASSUME NEW c \in Connect, SaveConnection(c) PROVE ConnectedIsSetUp'
  <2>1. /\ \A v \in VPS : here[v]
        /\ \A k \in Places : IsLXC(Order[k]) /\ Order[k] \notin undone =>
             record[Order[k]].metrics /\ record[Order[k]].big
    BY <1>4 DEF SaveConnection, At, ConnectInv, ConnectOf, MetricsOn, DiskRaised
  <2>2. UNCHANGED <<record, undone>>
    BY <1>4 DEF SaveConnection, recordVars
  <2> QED BY <1>0, <2>1, <2>2, Orders DEF ConnectedIsSetUp, IsLXC
<1>5. ASSUME UNCHANGED saved PROVE ConnectedIsSetUp'
  <2>1. \A v \in VPS : v \notin undone' => /\ v \notin undone
                                           /\ record[v].metrics => record'[v].metrics
                                           /\ record[v].big => record'[v].big
    BY RecordGains
  <2> QED BY <1>0, <1>5, <2>1 DEF ConnectInv, ConnectedIsSetUp, IsLXC
<1>6. ASSUME NEW c \in Connect, ConnectStep(c), NEW d \in Connect \ {c}
      PROVE  connect'[d] = connect[d]
  BY <1>6, NextPlace, Entering, Reading DEF ConnectStep, StartConnect, ConnectFails, SaveConnection, SetsUp,
     SkipMetrics, ReadMetrics, PutMetrics, MetricsApplied, SkipDisk, ReadDisk, PutDisk, DiskApplied, Puts
<1>7. ASSUME NEW c \in Connect, ConnectStep(c) PROVE ConnectInv'
  <2>1. ConnectedIsSetUp'
    BY <1>4, <1>5, <1>7 DEF ConnectStep, StartConnect, ConnectFails, SetsUp
  <2> QED BY <1>1, <1>3, <1>6, <1>7, <2>1 DEF ConnectInv
<1>8. ASSUME UNCHANGED <<connect, saved>> PROVE ConnectInv'
  BY <1>1, <1>5, <1>8 DEF ConnectInv
<1>9. ASSUME NEW q \in Restart, RestartStep(q) PROVE UNCHANGED <<connect, saved>>
  BY <1>9 DEF RestartStep, StartRestart, AskRestart, SeenDown, MinuteOver, AssumedDone, SeenRunning,
     Answers, RestartFails, connectVars
<1>10. ASSUME NEW v \in VPS, VPSStep(v) PROVE UNCHANGED <<connect, saved>>
  BY <1>10 DEF VPSStep, connectVars
<1>11. CASE UNCHANGED hostVars
  BY <1>8, <1>11 DEF hostVars, connectVars
<1> QED BY <1>7, <1>8, <1>9, <1>10, <1>11 DEF HostNext

LEMMA NextOfferedInv ==
    ASSUME HostTypes, OfferedInv, [HostNext]_hostVars
    PROVE  OfferedInv'
<1> SUFFICES ASSUME NEW v \in VPS, v \notin undone', v \notin unlisted', record'[v].big, ~disk'[v]
             PROVE  \E c \in Connect : Listing(c, v)'
  BY DEF OfferedInv
<1>1. ASSUME NEW c \in Connect, ConnectStep(c) PROVE \E d \in Connect : Listing(d, v)'
  <2>0. /\ UNCHANGED disk /\ undone \subseteq undone'
        /\ \A d \in Connect \ {c} : connect'[d] = connect[d]
    BY <1>1, NextPlace, Entering, Reading, RecordGains
       DEF ConnectStep, StartConnect, ConnectFails, SaveConnection, SetsUp, SkipMetrics, ReadMetrics,
       PutMetrics, MetricsApplied, SkipDisk, ReadDisk, PutDisk, DiskApplied, Puts, vpsVars
  <2>3. UNCHANGED raised \/ raised' = [raised EXCEPT ![c] = @ \cup {Cur(c)}]
    BY <1>1 DEF ConnectStep, StartConnect, ConnectFails, SaveConnection, SetsUp, SkipMetrics, ReadMetrics,
       PutMetrics, MetricsApplied, SkipDisk, ReadDisk, PutDisk, DiskApplied, ReadsRecord, Puts
  <2>4. UNCHANGED unlisted \/ unlisted' = unlisted \cup {Cur(c)}
    BY <1>1 DEF ConnectStep, StartConnect, ConnectFails, SaveConnection, SetsUp
  <2>5. \A d \in Connect : raised[d] \subseteq raised'[d]
    BY <2>3 DEF HostTypes
  <2>1. CASE record[v].big
    <3>1. PICK d \in Connect : Listing(d, v)
      BY <2>0, <2>1, <2>4 DEF OfferedInv
    <3>2. CASE d # c \/ v \in raised[c]
      BY <2>0, <2>5, <3>1, <3>2 DEF Listing, At, Cur
    <3>3. CASE d = c /\ At(c, "disk applied") /\ Cur(c) = v
      <4>1. ~ConnectFails(c)
        BY <3>3 DEF ConnectFails
      <4>2. DiskApplied(c)
        BY <1>1, <3>3, <4>1 DEF ConnectStep, StartConnect, SaveConnection, SetsUp, SkipMetrics, ReadMetrics,
           PutMetrics, MetricsApplied, SkipDisk, ReadDisk, PutDisk, At
      <4>3. v \in raised'[c]
        BY <3>3, <4>2 DEF DiskApplied, HostTypes
      <4> QED BY <4>3 DEF Listing
    <3> QED BY <3>1, <3>2, <3>3 DEF Listing
  <2>2. CASE ~record[v].big
    <3>1. PICK rec, then : Puts(c, rec, then) /\ (PutMetrics(c) \/ PutDisk(c))
      BY <1>1, <2>2 DEF ConnectStep, StartConnect, ConnectFails, SaveConnection, SetsUp, SkipMetrics,
         ReadMetrics, PutMetrics, MetricsApplied, SkipDisk, ReadDisk, PutDisk, DiskApplied, ReadsRecord,
         recordVars
    <3>2. Cur(c) = v /\ record[v] = connect[c].read
      BY <2>2, <3>1 DEF Puts, HostTypes
    <3>3. ~PutMetrics(c)
      BY <2>2, <3>2, PlaceOf DEF PutMetrics, Puts, HostTypes, Record
    <3>4. Enters(c, "disk applied")
      BY <3>1, <3>3 DEF PutDisk, Puts
    <3>5. connect'[c].step = "disk applied" /\ connect'[c].i = connect[c].i
      BY <3>4, Entering
    <3> QED BY <3>2, <3>5 DEF Listing, At, Cur
  <2> QED BY <2>1, <2>2
<1>2. ASSUME UNCHANGED <<recordVars, connectVars>>, ~disk[v]
      PROVE  \E d \in Connect : Listing(d, v)'
  BY <1>2 DEF OfferedInv, Listing, At, Cur, recordVars, connectVars
<1>3. ASSUME NEW q \in Restart, RestartStep(q) PROVE UNCHANGED <<recordVars, connectVars, disk>>
  BY <1>3 DEF RestartStep, StartRestart, AskRestart, SeenDown, MinuteOver, AssumedDone, SeenRunning,
     Answers, RestartFails, vpsVars
<1>4. ASSUME NEW w \in VPS, VPSStep(w) PROVE UNCHANGED <<recordVars, connectVars>> /\ ~disk[v]
  <2>1. UNCHANGED <<recordVars, connectVars>> /\ (UNCHANGED disk \/ disk' = [disk EXCEPT ![w] = record[w].big])
    BY <1>4 DEF VPSStep
  <2>2. record' = record
    BY <2>1 DEF recordVars
  <2> QED BY <2>1, <2>2 DEF HostTypes
<1>5. CASE UNCHANGED hostVars
  BY <1>2, <1>5 DEF hostVars, vpsVars
<1> QED BY <1>1, <1>2, <1>3, <1>4, <1>5 DEF HostNext

\* What the steps of a restart job leave alone, and what they add.
LEMMA RestartPlaces ==
    ASSUME HostTypes, NEW q \in Restart, RestartStep(q)
    PROVE  /\ \A p \in Restart \ {q} : restart'[p] = restart[p]
           /\ UNCHANGED <<record, undone, disk, vps>> /\ stray \subseteq stray'
           /\ asked \subseteq asked' /\ (~RAt(q, "ask") => UNCHANGED asked)
           /\ \A p \in Restart : ~RAt(q, "ask") \/ p # q => due'[p] = due[p]
<1>1. \A p \in Restart \ {q} : restart'[p] = restart[p]
  BY RGoing DEF RestartStep, StartRestart, AskRestart, SeenDown, MinuteOver, AssumedDone, SeenRunning,
     Answers, RestartFails, HostTypes
<1>2. UNCHANGED <<record, undone, disk, vps>> /\ stray \subseteq stray' /\ asked \subseteq asked'
      /\ (~RAt(q, "ask") => UNCHANGED <<asked, due>>)
  BY DEF RestartStep, StartRestart, AskRestart, SeenDown, MinuteOver, AssumedDone, SeenRunning,
     Answers, RestartFails, recordVars, vpsVars
<1>3. \A p \in Restart \ {q} : due'[p] = due[p]
  BY DEF RestartStep, StartRestart, AskRestart, SeenDown, MinuteOver, AssumedDone, SeenRunning,
     Answers, RestartFails, HostTypes
<1> QED BY <1>1, <1>2, <1>3

\* Where the steps of a restart job take it.
LEMMA RestartGoes ==
    ASSUME HostTypes, NEW q \in Restart
    PROVE  /\ StartRestart(q) => RAt(q, "none") /\ restart'[q].step = "ask" /\ restart'[q].minute = restart[q].minute
           /\ AskRestart(q) => /\ RAt(q, "ask") /\ restart'[q].step = "begin"
                               /\ restart'[q].minute = restart[q].minute /\ RCur(q)' = RCur(q)
           /\ SeenDown(q) => /\ RAt(q, "begin") /\ restart'[q].step = "running" /\ RCur(q)' = RCur(q)
           /\ MinuteOver(q) => RAt(q, "begin") /\ restart'[q].step = "begin" /\ RCur(q)' = RCur(q)
           /\ AssumedDone(q) => /\ RAt(q, "begin") /\ restart[q].minute
                                /\ restart'[q].step = "answering" /\ RCur(q)' = RCur(q)
           /\ SeenRunning(q) => RAt(q, "running") /\ restart'[q].step = "answering" /\ RCur(q)' = RCur(q)
           /\ Answers(q) => /\ RAt(q, "answering") /\ ~restart'[q].minute /\ restart'[q].step \in {"ask", "done"}
           /\ RestartFails(q) => restart'[q].step = "failed" /\ (RAt(q, "ask") \/ Waits(q))
<1>1. restart[q] \in RestartJob /\ restart = [p \in Restart |-> restart[p]]
  BY DEF HostTypes
<1>2. StartRestart(q) => RAt(q, "none") /\ restart'[q].step = "ask" /\ restart'[q].minute = restart[q].minute
  BY <1>1 DEF StartRestart, RestartJob
<1>3. MinuteOver(q) => RAt(q, "begin") /\ restart'[q].step = "begin" /\ RCur(q)' = RCur(q)
  BY <1>1 DEF MinuteOver, RAt, RCur, RestartJob
<1>4. Answers(q) => /\ RAt(q, "answering") /\ ~restart'[q].minute /\ restart'[q].step \in {"ask", "done"}
  <2> SUFFICES ASSUME Answers(q)
               PROVE  RAt(q, "answering") /\ ~restart'[q].minute /\ restart'[q].step \in {"ask", "done"}
    OBVIOUS
  <2> DEFINE job == IF restart[q].i < Len(restart[q].list)
                    THEN [restart[q] EXCEPT !.step = "ask", !.i = restart[q].i + 1, !.minute = FALSE]
                    ELSE [restart[q] EXCEPT !.step = "done", !.minute = FALSE]
  <2>1. restart' = [restart EXCEPT ![q] = job] /\ RAt(q, "answering")
    BY Zenon DEF Answers
  <2>2. ~job.minute /\ job.step \in {"ask", "done"}
    BY <1>1 DEF RestartJob
  <2> HIDE DEF job
  <2>3. restart'[q] = job
    BY <1>1, <2>1
  <2> QED BY <2>1, <2>2, <2>3
<1>5. AssumedDone(q) => RAt(q, "begin") /\ restart[q].minute
  BY DEF AssumedDone
<1> QED BY <1>2, <1>3, <1>4, <1>5, RGoing
     DEF AskRestart, SeenDown, AssumedDone, SeenRunning, RestartFails

LEMMA NextAwaitedInv ==
    ASSUME HostTypes, AwaitedInv, [HostNext]_hostVars
    PROVE  AwaitedInv'
<1>1. ASSUME NEW q \in Restart, RestartStep(q) PROVE AwaitedInv'
  <2>0. /\ \A p \in Restart \ {q} : restart'[p] = restart[p] /\ RCur(p)' = RCur(p)
        /\ UNCHANGED vps /\ stray \subseteq stray' /\ asked \subseteq asked'
    BY <1>1, RestartPlaces DEF RCur
  <2>1. ASSUME NEW p \in Restart, restart'[p].step \in {"none", "ask"} PROVE ~restart'[p].minute
    BY <1>1, <2>0, <2>1, RestartGoes DEF RestartStep, AwaitedInv, RAt
  <2>2. ASSUME NEW v \in VPS, v \notin stray', v \in asked'
        PROVE  vps'[v] = "up" /\ \E p \in Restart : AsksFor(p, v)'
    <3>1. CASE v \in asked
      <4>1. PICK p \in Restart : AsksFor(p, v) /\ vps[v] = "up"
        BY <2>0, <2>2, <3>1 DEF AwaitedInv
      <4>2. CASE p # q
        BY <2>0, <4>1, <4>2 DEF AsksFor, RAt
      <4>3. CASE p = q
        <5>1. RAt(q, "begin") /\ RCur(q) = v /\ ~restart[q].minute
          BY <4>1, <4>3 DEF AsksFor
        <5>2. ~StartRestart(q) /\ ~AskRestart(q) /\ ~SeenRunning(q) /\ ~Answers(q) /\ ~AssumedDone(q)
          BY <5>1 DEF StartRestart, AskRestart, SeenRunning, Answers, AssumedDone, RAt
        <5>3. ~SeenDown(q) /\ ~MinuteOver(q)
          BY <2>2, <3>1, <4>1, <5>1 DEF SeenDown, MinuteOver
        <5>4. ~RestartFails(q)
          BY <2>2, <3>1, <5>1 DEF RestartFails, RAt, Quiet
        <5> QED BY <1>1, <5>2, <5>3, <5>4 DEF RestartStep
      <4> QED BY <4>2, <4>3
    <3>2. CASE v \notin asked
      <4>1. AskRestart(q) /\ v = RCur(q) /\ Quiet(v)
        BY <1>1, <2>2, <3>2 DEF RestartStep, StartRestart, AskRestart, SeenDown, MinuteOver, AssumedDone,
           SeenRunning, Answers, RestartFails, vpsVars
      <4>2. AsksFor(q, v)'
        BY <4>1, RestartGoes DEF AsksFor, RAt, AwaitedInv
      <4> QED BY <2>0, <4>1, <4>2 DEF Quiet
    <3> QED BY <3>1, <3>2
  <2>3. ASSUME NEW v \in VPS, v \notin stray', vps'[v] # "up"
        PROVE  \E p \in Restart : WaitsFor(p, v)'
    <3>1. PICK p \in Restart : WaitsFor(p, v) /\ vps[v] # "up"
      BY <2>0, <2>3 DEF AwaitedInv
    <3>2. CASE p # q
      BY <2>0, <3>1, <3>2 DEF WaitsFor, Waits
    <3>3. CASE p = q
      <4>1. Waits(q) /\ RCur(q) = v
        BY <3>1, <3>3 DEF WaitsFor
      <4>2. ~StartRestart(q) /\ ~AskRestart(q)
        BY <4>1 DEF StartRestart, AskRestart, Waits, RAt
      <4>3. ~Answers(q)
        BY <3>1, <4>1 DEF Answers
      <4>4. ~RestartFails(q)
        BY <2>3, <3>1, <4>1 DEF RestartFails, Waits, RAt, Quiet
      <4>5. WaitsFor(q, v)'
        BY <1>1, <4>1, <4>2, <4>3, <4>4, RestartGoes DEF RestartStep, WaitsFor, Waits
      <4> QED BY <4>5
    <3> QED BY <3>2, <3>3
  <2> QED BY <2>1, <2>2, <2>3 DEF AwaitedInv
<1>2. ASSUME NEW w \in VPS, VPSStep(w) PROVE AwaitedInv'
  <2>0. UNCHANGED restart /\ \A v \in VPS \ {w} : vps'[v] = vps[v] /\ (v \in asked' <=> v \in asked)
                                                 /\ (v \in stray' <=> v \in stray)
    BY <1>2 DEF VPSStep, Becomes, HostTypes
  <2>1. \/ /\ w \in asked /\ vps'[w] = "down" /\ w \notin asked' /\ UNCHANGED stray
        \/ /\ vps[w] = "down" /\ vps'[w] = "booting" /\ UNCHANGED <<asked, stray>>
        \/ /\ vps[w] = "booting" /\ vps'[w] = "up" /\ UNCHANGED asked
           /\ w \in asked => UNCHANGED stray
    BY <1>2 DEF VPSStep, Becomes, HostTypes
  <2>2. \A p \in Restart, v \in VPS : /\ AsksFor(p, v)' <=> AsksFor(p, v)
                                      /\ WaitsFor(p, v)' <=> WaitsFor(p, v)
                                      /\ AsksFor(p, v) => WaitsFor(p, v)
    BY <2>0 DEF AsksFor, WaitsFor, Waits, RAt, RCur
  <2>3. ASSUME NEW v \in VPS \ {w}, v \notin stray'
        PROVE  /\ v \in asked' => vps'[v] = "up" /\ \E q \in Restart : AsksFor(q, v)'
               /\ vps'[v] # "up" => \E q \in Restart : WaitsFor(q, v)'
    <3>1. /\ v \in asked => vps[v] = "up" /\ \E q \in Restart : AsksFor(q, v)
          /\ vps[v] # "up" => \E q \in Restart : WaitsFor(q, v)
      BY <2>0, <2>3 DEF AwaitedInv
    <3> QED BY <2>0, <2>2, <2>3, <3>1
  <2>4. ASSUME w \notin stray'
        PROVE  /\ w \in asked' => vps'[w] = "up" /\ \E q \in Restart : AsksFor(q, w)'
               /\ vps'[w] # "up" => \E q \in Restart : WaitsFor(q, w)'
    <3>1. w \notin stray => /\ w \in asked => vps[w] = "up" /\ \E q \in Restart : AsksFor(q, w)
                            /\ vps[w] # "up" => \E q \in Restart : WaitsFor(q, w)
      BY DEF AwaitedInv
    <3> QED BY <2>1, <2>2, <2>4, <3>1
  <2> QED BY <2>0, <2>3, <2>4 DEF AwaitedInv
<1>3. ASSUME UNCHANGED <<vpsVars, restartVars>> PROVE AwaitedInv'
  BY <1>3 DEF AwaitedInv, AsksFor, WaitsFor, Waits, RAt, RCur, vpsVars, restartVars
<1>4. ASSUME NEW c \in Connect, ConnectStep(c) PROVE UNCHANGED <<vpsVars, restartVars>>
  BY <1>4 DEF ConnectStep, StartConnect, ConnectFails, SetsUp, SaveConnection
<1>5. CASE UNCHANGED hostVars
  BY <1>3, <1>5 DEF hostVars
<1> QED BY <1>1, <1>2, <1>3, <1>4, <1>5 DEF HostNext

LEMMA NextDueInv ==
    ASSUME HostTypes, AwaitedInv, DueInv, [HostNext]_hostVars
    PROVE  DueInv'
<1> SUFFICES ASSUME NEW p \in Restart, NEW v \in due'[p], v \notin undone'
             PROVE  /\ record'[v].big
                    /\ v \in asked' \/ vps'[v] = "down" \/ disk'[v]
                    /\ v \in stray' \/ disk'[v] \/ Under(p, v)'
  BY DEF DueInv
<1>0. v \in VPS /\ v \notin undone /\ (record[v].big => record'[v].big)
  BY RecordGains, NextHostTypes DEF HostTypes
<1> DEFINE Kept == /\ v \in asked \/ vps[v] = "down" \/ disk[v]
                   /\ v \in stray \/ disk[v] \/ Under(p, v)
<1>1. ASSUME v \in due[p] PROVE record[v].big /\ record'[v].big /\ Kept
  BY <1>0, <1>1 DEF DueInv
<1>2. ASSUME NEW q \in Restart, RestartStep(q), v \in due[p]
      PROVE  /\ v \in asked' \/ vps'[v] = "down" \/ disk'[v]
             /\ v \in stray' \/ disk'[v] \/ Under(p, v)'
  <2>0. /\ \A r \in Restart \ {q} : restart'[r] = restart[r] /\ RCur(r)' = RCur(r)
        /\ UNCHANGED <<vps, disk>> /\ stray \subseteq stray' /\ asked \subseteq asked'
    BY <1>2, RestartPlaces DEF RCur
  <2>1. CASE v \in stray \/ disk[v] \/ p # q
    BY <1>1, <1>2, <2>0, <2>1 DEF Under, AsksFor, WaitsFor, Waits, RAt
  <2>2. CASE Under(q, v) /\ p = q /\ v \notin stray'
    <3>1. Waits(q) /\ RCur(q) = v /\ ~RAt(q, "answering") /\ ~Quiet(v)
      BY <2>2 DEF Under, AsksFor, WaitsFor, Waits, RAt, Quiet
    <3>2. ~StartRestart(q) /\ ~AskRestart(q) /\ ~Answers(q)
      BY <3>1 DEF StartRestart, AskRestart, Answers, Waits, RAt
    <3>3. ~RestartFails(q)
      BY <2>2, <3>1 DEF RestartFails, Waits, RAt
    <3>4. ~AssumedDone(q) /\ ~SeenRunning(q)
      BY <2>2, <3>1 DEF AssumedDone, SeenRunning, Under, AsksFor, RAt
    <3>5. vps[v] = "down"
      BY <1>2, <2>2, <3>1, <3>2, <3>3, <3>4 DEF RestartStep, SeenDown, MinuteOver, Under
    <3>6. WaitsFor(q, v)' /\ ~RAt(q, "answering")'
      BY <1>2, <3>1, <3>2, <3>3, <3>4, RestartGoes DEF RestartStep, WaitsFor, Waits, RAt
    <3> QED BY <2>0, <2>2, <3>5, <3>6 DEF Under
  <2> QED BY <1>1, <1>2, <2>0, <2>1, <2>2
<1>3. ASSUME NEW q \in Restart, RestartStep(q), v \notin due[p]
      PROVE  /\ record'[v].big
             /\ v \in asked' \/ vps'[v] = "down" \/ disk'[v]
             /\ v \in stray' \/ disk'[v] \/ Under(p, v)'
  <2>1. p = q /\ AskRestart(q) /\ v = RCur(q) /\ record[v].big
    <3>1. p = q /\ RAt(q, "ask") /\ ~UNCHANGED due
      BY <1>3, RestartPlaces
    <3>2. AskRestart(q)
      BY <1>3, <3>1 DEF RestartStep, StartRestart, SeenDown, MinuteOver, AssumedDone, SeenRunning,
         Answers, RestartFails
    <3>3. BigEnough(RCur(q)) /\ due' = [due EXCEPT ![q] = @ \cup {RCur(q)}]
      BY <3>1, <3>2 DEF AskRestart
    <3>4. v = RCur(q)
      BY <1>3, <3>1, <3>3 DEF HostTypes
    <3> QED BY <3>1, <3>2, <3>3, <3>4 DEF BigEnough
  <2>2. v \in asked'
    BY <2>1 DEF AskRestart
  <2>3. AsksFor(q, v)'
    BY <2>1, RestartGoes DEF AsksFor, RAt, AwaitedInv
  <2> QED BY <1>0, <2>1, <2>2, <2>3 DEF Under
<1>4. ASSUME NEW w \in VPS, VPSStep(w)
      PROVE  /\ v \in due[p]
             /\ v \in asked' \/ vps'[v] = "down" \/ disk'[v]
             /\ v \in stray' \/ disk'[v] \/ Under(p, v)'
  <2>0. /\ v \in due[p] /\ UNCHANGED <<restart, record>>
        /\ v # w => /\ vps'[v] = vps[v] /\ disk'[v] = disk[v]
                    /\ v \in asked' <=> v \in asked
                    /\ v \in stray' <=> v \in stray
    BY <1>0, <1>4 DEF VPSStep, Becomes, HostTypes, recordVars
  <2>1. CASE v # w
    BY <1>1, <2>0, <2>1 DEF Under, AsksFor, WaitsFor, Waits, RAt, RCur
  <2>2. CASE v = w
    <3>1. \/ /\ vps[v] \in {"up", "booting"} /\ vps'[v] = "down" /\ UNCHANGED <<disk, stray>>
          \/ disk'[v] = record[v].big
          \/ /\ vps[v] = "booting" /\ vps'[v] = "up" /\ UNCHANGED <<asked, disk>>
             /\ v \in asked => UNCHANGED stray
      BY <1>0, <1>4, <2>2 DEF VPSStep, Becomes, HostTypes
    <3>2. AsksFor(p, v) => WaitsFor(p, v)' /\ ~RAt(p, "answering")' /\ AsksFor(p, v)'
      BY <2>0 DEF AsksFor, WaitsFor, Waits, RAt, RCur
    <3> QED BY <1>1, <2>0, <3>1, <3>2 DEF Under
  <2> QED BY <2>0, <2>1, <2>2
<1>5. ASSUME UNCHANGED <<vpsVars, restartVars>>
      PROVE  /\ v \in due[p]
             /\ v \in asked' \/ vps'[v] = "down" \/ disk'[v]
             /\ v \in stray' \/ disk'[v] \/ Under(p, v)'
  <2>1. v \in due[p]
    BY <1>5 DEF restartVars
  <2> QED BY <1>1, <1>5, <2>1 DEF Under, AsksFor, WaitsFor, Waits, RAt, RCur, vpsVars, restartVars
<1>6. ASSUME NEW c \in Connect, ConnectStep(c) PROVE UNCHANGED <<vpsVars, restartVars>>
  BY <1>6 DEF ConnectStep, StartConnect, ConnectFails, SetsUp, SaveConnection
<1>7. CASE UNCHANGED hostVars
  BY <1>1, <1>5, <1>7 DEF hostVars
<1> QED BY <1>1, <1>2, <1>3, <1>4, <1>5, <1>6, <1>7 DEF HostNext

\* Any number of overlapping connect and restart jobs: HostInv (serverware.go:104-281,
\* restart.go:28-76), with its exceptions only: edits that crossed, jobs that failed,
\* and restarts that crossed, were begun late or were left.
THEOREM HostAsReported == HostSpec => []HostInv
<1>1. HostIInv /\ [HostNext]_hostVars => HostIInv'
  BY NextHostTypes, NextConnectInv, NextOfferedInv, NextAwaitedInv, NextDueInv DEF HostIInv
<1>2. HostIInv => HostInv
  <2> SUFFICES ASSUME HostIInv PROVE HostInv
    OBVIOUS
  <2>1. ConnectedIsSetUp
    BY DEF HostIInv, ConnectInv
  <2>2. SmallIsOffered
    <3> SUFFICES ASSUME NEW d \in Connect, At(d, "done"),
                        NEW v \in VPS \ (undone \cup unlisted), IsLXC(v), ~disk[v]
                 PROVE  \E c \in Connect : Listing(c, v)
      BY DEF SmallIsOffered, Listing
    <3>1. PICK k \in Places : Order[k] = v
      BY Orders
    <3>2. record[v].big
      BY <3>1 DEF HostIInv, ConnectInv, ConnectOf, DiskRaised, At
    <3> QED BY <3>2 DEF HostIInv, OfferedInv
  <2>3. OneIsUp
    BY DEF HostIInv, AwaitedInv, OneIsUp, Quiet, AsksFor, WaitsFor, Waits, RAt
  <2>4. RestartApplies
    BY DEF HostIInv, DueInv, Under, RestartApplies, AsksFor, WaitsFor, Waits, RAt
  <2> QED BY <2>1, <2>2, <2>3, <2>4 DEF HostInv
<1> QED BY InitHostIInv, <1>1, <1>2, PTL DEF HostSpec
-----------------------------------------------------------------------------
(***************************************************************************)
(* Recording settings.  What a request has had answered of its instances   *)
(* is so still, unless another's write has disturbed it.                   *)
(***************************************************************************)

RecordingSpec == RecordingInit /\ [][RecordingNext]_recVars

Requests == Toggle \cup Look
Flags == [enabled : BOOLEAN, stereo : BOOLEAN]
AnswerSteps == {"idle", "enable", "stereo", "read", "read system", "done", "failed"}
Request == [at : AnswerSteps, on : Section \cup {<<>>}, i : Nat, want : Flags, got : Flags]

ServerTypes ==
    /\ enabled \in [Server -> BOOLEAN] /\ stereo \in [Server -> BOOLEAN] /\ ramDisk \subseteq Server
    /\ \A s \in Server : stereo[s] => s \in ramDisk
    /\ refused \in Nat

\* A request that is under way is about instances of a section.
RequestTypes ==
    /\ request \in [Requests -> Request]
    /\ \A q \in Requests :
         /\ request[q].at = "idle" => request[q].i = 1 /\ request[q].got = Both
         /\ Busy(q) => request[q].on \in Section /\ request[q].i \in 1..Len(request[q].on)
         /\ request[q].at \in {"enable", "stereo"} => q \in Toggle
         /\ request[q].at \in {"read", "read system"} => q \in Look
         /\ request[q].want.stereo => request[q].want.enabled

Targets(q) == 1..Len(request[q].on)

\* The answers so far are what the first n instances, of stereo the first m,
\* have set; and if q sets them, they have what it wants.
SoFar(q, n, m) ==
    /\ request[q].got.enabled <=> \A k \in Targets(q) : k <= n => enabled[request[q].on[k]]
    /\ request[q].got.stereo <=> \A k \in Targets(q) : k <= m => stereo[request[q].on[k]]
    /\ q \in Toggle =>
         /\ \A k \in Targets(q) : k <= n => (enabled[request[q].on[k]] <=> request[q].want.enabled)
         /\ \A k \in Targets(q) : k <= m =>
              (stereo[request[q].on[k]] <=> request[q].want.stereo /\ request[q].on[k] \in ramDisk)

SoStill(q) ==
    SoFar(q, IF request[q].at \in {"stereo", "read system"} THEN request[q].i ELSE request[q].i - 1, request[q].i - 1)

SeenInv == \A q \in Requests : Busy(q) /\ q \notin disturbed => SoStill(q)

\* An instance that has stereo alone is about to have it off.
PendingInv ==
    refused = 0 /\ disturbed \cap Toggle = {} =>
        \A s \in Server : stereo[s] /\ ~enabled[s] =>
            \E q \in Toggle : request[q].at = "stereo" /\ Target(q) = s /\ ~request[q].want.stereo

RecInv == ServerTypes /\ RequestTypes /\ SeenInv /\ PendingInv

LEMMA Counting == 1 - 1 = 0 /\ \A n \in Nat : n + 1 \in Nat /\ n + 1 # 0 /\ (n + 1 = 1 => n = 0) /\ (n + 1) - 1 = n
OBVIOUS

LEMMA SectionsAre ==
    ASSUME NEW t \in Section
    PROVE  /\ Len(t) \in Nat /\ 1 \in 1..Len(t) /\ \A k \in 1..Len(t) : t[k] \in Server
           /\ \A k, n \in 1..Len(t) : t[k] = t[n] => k = n
<1>1. CASE \E x \in Server : t = <<x>>
  BY <1>1
<1>2. CASE \E x, y \in Server : x # y /\ t = <<x, y>>
  BY <1>2
<1> QED BY <1>1, <1>2, RecordingAssumption

LEMMA CombinedIs ==
    ASSUME NEW f \in Flags, NEW v \in BOOLEAN
    PROVE  /\ Combined(f, "enabled", v) \in Flags /\ Combined(f, "stereo", v) \in Flags
           /\ Combined(f, "enabled", v).enabled = (f.enabled /\ v) /\ Combined(f, "enabled", v).stereo = f.stereo
           /\ Combined(f, "stereo", v).stereo = (f.stereo /\ v) /\ Combined(f, "stereo", v).enabled = f.enabled
<1>1. Combined(f, "enabled", v) \in Flags /\ Combined(f, "stereo", v) \in Flags
  BY DEF Combined, Flags
<1>2. Combined(f, "enabled", v).enabled = (f.enabled /\ v) /\ Combined(f, "enabled", v).stereo = f.stereo
  BY DEF Combined, Flags
<1>3. Combined(f, "stereo", v).stereo = (f.stereo /\ v) /\ Combined(f, "stereo", v).enabled = f.enabled
  BY DEF Combined, Flags
<1> QED BY <1>1, <1>2, <1>3

\* Request q comes to place, at its index-th instance and with got; the others
\* stay where they are.
Comes(q, place, index, got) ==
    /\ \A o \in Requests : o # q => request'[o] = request[o]
    /\ request' \in [Requests -> Request]
    /\ request'[q].at = place /\ request'[q].on = request[q].on /\ request'[q].i = index
    /\ request'[q].want = request[q].want /\ request'[q].got = got

LEMMA RequestFields ==
    ASSUME RequestTypes, NEW q \in Requests
    PROVE  /\ request[q] \in Request /\ request[q].got \in Flags /\ request[q].want \in Flags /\ request[q].i \in Nat
           /\ request[q].want.enabled \in BOOLEAN /\ request[q].want.stereo \in BOOLEAN
<1>1. request[q] \in Request
  BY DEF RequestTypes
<1>2. request[q].got \in Flags /\ request[q].want \in Flags /\ request[q].i \in Nat
  BY <1>1 DEF Request
<1> QED BY <1>1, <1>2 DEF Flags

LEMMA EndsComes ==
    ASSUME RequestTypes, NEW q \in Requests, NEW place \in AnswerSteps, Ends(q, place)
    PROVE  Comes(q, place, request[q].i, request[q].got)
<1>1. request'[q] = [request[q] EXCEPT !.at = place]
  BY DEF Ends, RequestTypes
<1>2. request[q] \in Request
  BY RequestFields
<1>3. request'[q] \in Request
  BY <1>1, <1>2 DEF Request
<1>4. request' \in [Requests -> Request] /\ \A o \in Requests : o # q => request'[o] = request[o]
  BY <1>3 DEF Ends, RequestTypes
<1> QED BY <1>1, <1>2, <1>4 DEF Comes, Request

LEMMA OnwardsComes ==
    ASSUME RequestTypes, NEW q \in Requests, NEW place \in AnswerSteps, NEW got \in Flags, Onwards(q, place, got)
    PROVE  /\ request[q].i < Len(request[q].on) => Comes(q, place, request[q].i + 1, got)
           /\ ~(request[q].i < Len(request[q].on)) => Comes(q, "done", request[q].i, got)
<1> DEFINE more == request[q].i < Len(request[q].on)
           to == IF more THEN place ELSE "done"
           index == IF more THEN request[q].i + 1 ELSE request[q].i
<1>0. request[q] \in Request /\ to \in AnswerSteps /\ index \in Nat
  <2>1. request[q] \in Request /\ request[q].i \in Nat
    BY RequestFields
  <2>2. to \in AnswerSteps
    BY DEF AnswerSteps
  <2>3. request[q].i + 1 \in Nat
    BY <2>1
  <2> QED BY <2>1, <2>2, <2>3
<1>1. request' = [request EXCEPT ![q].at = to, ![q].i = index, ![q].got = got]
  BY DEF Onwards
<1> HIDE DEF to, index
<1>2. request'[q] = [request[q] EXCEPT !.at = to, !.i = index, !.got = got]
  BY <1>1 DEF RequestTypes
<1>3. request'[q] \in Request
  BY <1>0, <1>2 DEF Request
<1>4. request' \in [Requests -> Request] /\ \A o \in Requests : o # q => request'[o] = request[o]
  BY <1>1, <1>3 DEF RequestTypes
<1>5. Comes(q, to, index, got)
  BY <1>0, <1>2, <1>4 DEF Comes, Request
<1> QED BY <1>5 DEF to, index

\* A first request to an instance, with recording itself.
LEMMA FirstComes ==
    ASSUME RequestTypes, NEW q \in Requests, NEW place \in AnswerSteps, NEW v \in BOOLEAN,
           request' = [request EXCEPT ![q].at = place, ![q].got = Combined(@, "enabled", v)]
    PROVE  Comes(q, place, request[q].i, Combined(request[q].got, "enabled", v))
<1> DEFINE got == Combined(request[q].got, "enabled", v)
<1>0. request[q] \in Request /\ got \in Flags
  BY RequestFields, CombinedIs
<1>1. request' = [request EXCEPT ![q].at = place, ![q].got = got]
  OBVIOUS
<1> HIDE DEF got
<1>2. request'[q] = [request[q] EXCEPT !.at = place, !.got = got]
  BY <1>1 DEF RequestTypes
<1>3. request'[q] \in Request
  <2>1. ASSUME NEW r \in Request PROVE [r EXCEPT !.at = place, !.got = got] \in Request
    BY <1>0 DEF Request
  <2> QED BY <1>0, <1>2, <2>1
<1>4. request' \in [Requests -> Request] /\ \A o \in Requests : o # q => request'[o] = request[o]
  BY <1>1, <1>3 DEF RequestTypes
<1>5. Comes(q, place, request[q].i, got)
  BY <1>0, <1>2, <1>4 DEF Comes, Request
<1> QED BY <1>5 DEF got

\* What a step of q leaves others with: their answers stand, unless it wrote to
\* one of their instances and so has disturbed them.
Leaves(q) ==
    /\ \A o \in Requests : o # q => request'[o] = request[o]
    /\ disturbed \subseteq disturbed' /\ UNCHANGED ramDisk
    /\ \A o \in Requests : o # q /\ Busy(o) /\ o \notin disturbed' =>
         \A k \in Targets(o) : /\ enabled'[request[o].on[k]] = enabled[request[o].on[k]]
                               /\ stereo'[request[o].on[k]] = stereo[request[o].on[k]]

\* A write to one flag of s, that disturbs who it should.
Writes(q, s) ==
    /\ \A x \in Server : x # s => enabled'[x] = enabled[x] /\ stereo'[x] = stereo[x]
    /\ Disturbs(q, s)

LEMMA WritesLeave ==
    ASSUME RequestTypes, NEW q \in Requests, NEW s \in Server, Writes(q, s), UNCHANGED ramDisk,
           \A o \in Requests : o # q => request'[o] = request[o]
    PROVE  Leaves(q)
<1> SUFFICES ASSUME NEW o \in Requests, o # q, Busy(o), o \notin disturbed', NEW k \in Targets(o)
             PROVE  /\ enabled'[request[o].on[k]] = enabled[request[o].on[k]]
                    /\ stereo'[request[o].on[k]] = stereo[request[o].on[k]]
  BY DEF Leaves, Writes, Disturbs
<1>1. request[o].on[k] \in Server
  BY SectionsAre DEF RequestTypes, Targets
<1>2. request[o].on[k] # s
  BY DEF Writes, Disturbs, Requests, Targets
<1> QED BY <1>1, <1>2 DEF Writes

LEMMA LeavesSeen ==
    ASSUME NEW q \in Requests, Leaves(q), NEW o \in Requests, o # q, Busy(o) /\ o \notin disturbed => SoStill(o)
    PROVE  (Busy(o) /\ o \notin disturbed => SoStill(o))'
<1> SUFFICES ASSUME Busy(o)', o \notin disturbed' PROVE SoStill(o)'
  OBVIOUS
<1>1. request'[o] = request[o] /\ UNCHANGED ramDisk
  BY DEF Leaves
<1>2. Busy(o) /\ SoStill(o)
  BY <1>1 DEF Busy, Leaves
<1>3. \A k \in Targets(o) : /\ enabled'[request[o].on[k]] = enabled[request[o].on[k]]
                            /\ stereo'[request[o].on[k]] = stereo[request[o].on[k]]
  BY <1>2 DEF Leaves
<1>4. Targets(o)' = Targets(o)
  BY <1>1 DEF Targets
<1>5. ASSUME NEW n, NEW m, SoFar(o, n, m)
      PROVE  SoFar(o, n, m)'
  BY <1>1, <1>3, <1>4, <1>5 DEF SoFar
<1> QED BY <1>1, <1>2, <1>5 DEF SoStill

\* What the requests of a section look at, and where one that is under way is.
LEMMA UnderWay ==
    ASSUME ServerTypes, RequestTypes, NEW q \in Requests, Busy(q)
    PROVE  /\ request[q].i \in Targets(q) /\ Len(request[q].on) \in Nat
           /\ Target(q) = request[q].on[request[q].i] /\ Target(q) \in Server
           /\ \A k \in Targets(q) : request[q].on[k] \in Server
           /\ \A k \in Targets(q) : request[q].on[k] = Target(q) => k = request[q].i
           /\ enabled[Target(q)] \in BOOLEAN /\ stereo[Target(q)] \in BOOLEAN
<1>1. request[q].on \in Section /\ request[q].i \in Targets(q)
  BY DEF RequestTypes, Targets
<1>2. /\ Len(request[q].on) \in Nat /\ \A k \in Targets(q) : request[q].on[k] \in Server
      /\ \A k, n \in Targets(q) : request[q].on[k] = request[q].on[n] => k = n
  BY <1>1, SectionsAre DEF Targets
<1>3. Target(q) = request[q].on[request[q].i] /\ Target(q) \in Server
  BY <1>1, <1>2 DEF Target
<1> QED BY <1>1, <1>2, <1>3 DEF ServerTypes

\* The actions: what each writes, where it leaves its request.
LEMMA SetEnabledDoes ==
    ASSUME ServerTypes, RequestTypes, NEW q \in Requests, q \in Toggle, SetEnabled(q)
    PROVE  /\ Comes(q, "stereo", request[q].i, Combined(request[q].got, "enabled", request[q].want.enabled))
           /\ Writes(q, Target(q)) /\ UNCHANGED <<stereo, ramDisk, refused>>
           /\ enabled' \in [Server -> BOOLEAN] /\ enabled'[Target(q)] = request[q].want.enabled
           /\ \A s \in Server : s # Target(q) => enabled'[s] = enabled[s]
<1>1. Busy(q)
  BY DEF SetEnabled, Busy
<1>2. Target(q) \in Server /\ request[q].want.enabled \in BOOLEAN
  BY <1>1, UnderWay, RequestFields
<1>3. Comes(q, "stereo", request[q].i, Combined(request[q].got, "enabled", request[q].want.enabled))
  <2>1. "stereo" \in AnswerSteps
    BY DEF AnswerSteps
  <2>2. request' = [request EXCEPT ![q].at = "stereo", ![q].got = Combined(@, "enabled", request[q].want.enabled)]
    BY DEF SetEnabled
  <2> QED BY <1>2, <2>1, <2>2, FirstComes
<1>4. /\ enabled' \in [Server -> BOOLEAN] /\ enabled'[Target(q)] = request[q].want.enabled
      /\ \A s \in Server : s # Target(q) => enabled'[s] = enabled[s]
  BY <1>2 DEF SetEnabled, ServerTypes
<1> QED BY <1>3, <1>4 DEF SetEnabled, Writes

LEMMA SetStereoDoes ==
    ASSUME ServerTypes, RequestTypes, NEW q \in Requests, q \in Toggle, SetStereo(q)
    PROVE  LET got == Combined(request[q].got, "stereo", stereo'[Target(q)]) IN
           /\ request[q].i < Len(request[q].on) => Comes(q, "enable", request[q].i + 1, got)
           /\ ~(request[q].i < Len(request[q].on)) => Comes(q, "done", request[q].i, got)
           /\ Writes(q, Target(q)) /\ UNCHANGED <<enabled, ramDisk, refused>>
           /\ stereo' \in [Server -> BOOLEAN] /\ (stereo'[Target(q)] <=> request[q].want.stereo /\ Target(q) \in ramDisk)
           /\ \A s \in Server : s # Target(q) => stereo'[s] = stereo[s]
<1> DEFINE got == Combined(request[q].got, "stereo", stereo'[Target(q)])
<1>1. Busy(q)
  BY DEF SetStereo, Busy
<1>2. Target(q) \in Server /\ request[q].want.stereo \in BOOLEAN /\ request[q].got \in Flags
  BY <1>1, UnderWay, RequestFields
<1>3. /\ stereo' \in [Server -> BOOLEAN] /\ \A s \in Server : s # Target(q) => stereo'[s] = stereo[s]
      /\ stereo'[Target(q)] <=> request[q].want.stereo /\ Target(q) \in ramDisk
  <2>1. CASE Honoured(q)
    <3>1. stereo' = [stereo EXCEPT ![Target(q)] = request[q].want.stereo]
      BY <2>1 DEF SetStereo
    <3> QED BY <1>2, <2>1, <3>1 DEF Honoured, ServerTypes
  <2>2. CASE ~Honoured(q)
    <3>1. stereo' = stereo
      BY <2>2 DEF SetStereo
    <3> QED BY <1>2, <2>2, <3>1 DEF Honoured, ServerTypes
  <2> QED BY <2>1, <2>2
<1>4. got \in Flags
  BY <1>2, <1>3, CombinedIs
<1>5. Onwards(q, "enable", got)
  BY DEF SetStereo
<1>6. /\ request[q].i < Len(request[q].on) => Comes(q, "enable", request[q].i + 1, got)
      /\ ~(request[q].i < Len(request[q].on)) => Comes(q, "done", request[q].i, got)
  <2>1. "enable" \in AnswerSteps
    BY DEF AnswerSteps
  <2> HIDE DEF got
  <2> QED BY <1>4, <1>5, <2>1, OnwardsComes
<1>7. Writes(q, Target(q)) /\ UNCHANGED <<enabled, ramDisk, refused>>
  BY <1>3 DEF SetStereo, Writes
<1> QED BY <1>3, <1>6, <1>7

LEMMA SetFailsDoes ==
    ASSUME ServerTypes, RequestTypes, NEW q \in Requests, SetFails(q)
    PROVE  /\ Comes(q, "failed", request[q].i, request[q].got) /\ Leaves(q)
           /\ enabled' \in [Server -> BOOLEAN] /\ stereo' \in [Server -> BOOLEAN]
           /\ \A s \in Server : stereo'[s] => s \in ramDisk
           /\ UNCHANGED ramDisk /\ refused' = refused + 1
<1>1. Busy(q)
  BY DEF SetFails, Busy
<1>2. Target(q) \in Server /\ request[q].want.enabled \in BOOLEAN /\ request[q].want.stereo \in BOOLEAN
  BY <1>1, UnderWay, RequestFields
<1>3. Comes(q, "failed", request[q].i, request[q].got)
  <2>1. "failed" \in AnswerSteps
    BY DEF AnswerSteps
  <2>2. Ends(q, "failed")
    BY DEF SetFails, AfterFault
  <2> QED BY <2>1, <2>2, EndsComes
<1>4. \A o \in Requests : o # q => request'[o] = request[o]
  BY <1>3 DEF Comes
<1>5. UNCHANGED ramDisk /\ refused' = refused + 1
  BY DEF SetFails
<1>6. CASE UNCHANGED <<enabled, stereo, disturbed>>
  BY <1>3, <1>4, <1>5, <1>6 DEF Leaves, ServerTypes
<1>7. CASE /\ request[q].at = "enable" /\ enabled' = [enabled EXCEPT ![Target(q)] = request[q].want.enabled]
           /\ Disturbs(q, Target(q)) /\ UNCHANGED stereo
  <2>1. enabled' \in [Server -> BOOLEAN] /\ Writes(q, Target(q))
    BY <1>2, <1>7 DEF ServerTypes, Writes
  <2>2. Leaves(q)
    BY <1>2, <1>4, <1>5, <2>1, WritesLeave
  <2> QED BY <1>3, <1>5, <1>7, <2>1, <2>2 DEF ServerTypes
<1>8. CASE /\ request[q].at = "stereo" /\ Honoured(q)
           /\ stereo' = [stereo EXCEPT ![Target(q)] = request[q].want.stereo]
           /\ Disturbs(q, Target(q)) /\ UNCHANGED enabled
  <2>1. stereo' \in [Server -> BOOLEAN] /\ Writes(q, Target(q)) /\ \A s \in Server : stereo'[s] => s \in ramDisk
    BY <1>2, <1>8 DEF ServerTypes, Writes, Honoured
  <2>2. Leaves(q)
    BY <1>2, <1>4, <1>5, <2>1, WritesLeave
  <2> QED BY <1>3, <1>5, <1>8, <2>1, <2>2 DEF ServerTypes
<1> QED BY <1>6, <1>7, <1>8 DEF SetFails

LEMMA ReadBothDoes ==
    ASSUME ServerTypes, RequestTypes, NEW k \in Requests, ReadBoth(k)
    PROVE  LET got == Combined(Combined(request[k].got, "enabled", enabled[Target(k)]), "stereo", stereo[Target(k)]) IN
           /\ request[k].i < Len(request[k].on) => Comes(k, "read", request[k].i + 1, got)
           /\ ~(request[k].i < Len(request[k].on)) => Comes(k, "done", request[k].i, got)
<1> DEFINE got == Combined(Combined(request[k].got, "enabled", enabled[Target(k)]), "stereo", stereo[Target(k)])
<1>1. Busy(k)
  BY DEF ReadBoth, Busy
<1>2. request[k].got \in Flags /\ enabled[Target(k)] \in BOOLEAN /\ stereo[Target(k)] \in BOOLEAN
  BY <1>1, UnderWay, RequestFields
<1>3. Onwards(k, "read", got) /\ "read" \in AnswerSteps
  BY DEF ReadBoth, AnswerSteps
<1>4. got \in Flags
  BY <1>2, CombinedIs
<1> HIDE DEF got
<1>5. /\ request[k].i < Len(request[k].on) => Comes(k, "read", request[k].i + 1, got)
      /\ ~(request[k].i < Len(request[k].on)) => Comes(k, "done", request[k].i, got)
  BY <1>3, <1>4, OnwardsComes
<1> QED BY <1>5 DEF got

LEMMA ReadSystemDoes ==
    ASSUME ServerTypes, RequestTypes, NEW k \in Requests, ReadSystem(k)
    PROVE  LET got == Combined(request[k].got, "stereo", stereo[Target(k)]) IN
           /\ request[k].i < Len(request[k].on) => Comes(k, "read", request[k].i + 1, got)
           /\ ~(request[k].i < Len(request[k].on)) => Comes(k, "done", request[k].i, got)
<1> DEFINE got == Combined(request[k].got, "stereo", stereo[Target(k)])
<1>1. Busy(k)
  BY DEF ReadSystem, Busy
<1>2. request[k].got \in Flags /\ enabled[Target(k)] \in BOOLEAN /\ stereo[Target(k)] \in BOOLEAN
  BY <1>1, UnderWay, RequestFields
<1>3. Onwards(k, "read", got) /\ "read" \in AnswerSteps
  BY DEF ReadSystem, AnswerSteps
<1>4. got \in Flags
  BY <1>2, CombinedIs
<1> HIDE DEF got
<1>5. /\ request[k].i < Len(request[k].on) => Comes(k, "read", request[k].i + 1, got)
      /\ ~(request[k].i < Len(request[k].on)) => Comes(k, "done", request[k].i, got)
  BY <1>3, <1>4, OnwardsComes
<1> QED BY <1>5 DEF got

LEMMA ReadTenantDoes ==
    ASSUME ServerTypes, RequestTypes, NEW k \in Requests, ReadTenant(k)
    PROVE  Comes(k, "read system", request[k].i, Combined(request[k].got, "enabled", enabled[Target(k)]))
<1>1. Busy(k)
  BY DEF ReadTenant, Busy
<1>2. enabled[Target(k)] \in BOOLEAN
  BY <1>1, UnderWay
<1>3. "read system" \in AnswerSteps
  BY DEF AnswerSteps
<1>4. request' = [request EXCEPT ![k].at = "read system", ![k].got = Combined(@, "enabled", enabled[Target(k)])]
  BY DEF ReadTenant
<1> QED BY <1>2, <1>3, <1>4, FirstComes

\* A request begins: where it is, of what.
Begins(q, place, targets) ==
    /\ \A o \in Requests : o # q => request'[o] = request[o]
    /\ request' \in [Requests -> Request] /\ request[q].at = "idle"
    /\ request'[q].at = place /\ request'[q].on = targets /\ request'[q].i = request[q].i
    /\ request'[q].got = request[q].got

LEMMA StartToggleDoes ==
    ASSUME RequestTypes, NEW q \in Requests, NEW targets \in Section, NEW on \in BOOLEAN, NEW both \in BOOLEAN,
           StartToggle(q, targets, on, both)
    PROVE  Begins(q, "enable", targets) /\ (request'[q].want.stereo => request'[q].want.enabled)
<1> DEFINE want == Wanted(on, both)
<1>1. want \in Flags /\ (want.stereo => want.enabled)
  BY DEF Wanted, Flags
<1>2. request' = [request EXCEPT ![q].at = "enable", ![q].on = targets, ![q].want = want] /\ request[q].at = "idle"
  BY DEF StartToggle
<1> HIDE DEF want
<1>3. request'[q] = [request[q] EXCEPT !.at = "enable", !.on = targets, !.want = want] /\ request[q] \in Request
  BY <1>2 DEF RequestTypes
<1>4. request'[q] \in Request
  <2>1. ASSUME NEW r \in Request PROVE [r EXCEPT !.at = "enable", !.on = targets, !.want = want] \in Request
    BY <1>1 DEF Request, AnswerSteps
  <2> QED BY <1>3, <2>1
<1>5. request' \in [Requests -> Request] /\ \A o \in Requests : o # q => request'[o] = request[o]
  BY <1>2, <1>4 DEF RequestTypes
<1>6. /\ request'[q].at = "enable" /\ request'[q].on = targets /\ request'[q].i = request[q].i
      /\ request'[q].got = request[q].got /\ request'[q].want = want
  BY <1>3 DEF Request
<1> QED BY <1>1, <1>2, <1>5, <1>6 DEF Begins

LEMMA StartLookDoes ==
    ASSUME RequestTypes, NEW q \in Requests, NEW targets \in Section, StartLook(q, targets)
    PROVE  Begins(q, "read", targets) /\ request'[q].want = request[q].want
<1>2. request' = [request EXCEPT ![q].at = "read", ![q].on = targets] /\ request[q].at = "idle"
  BY DEF StartLook
<1>3. request'[q] = [request[q] EXCEPT !.at = "read", !.on = targets] /\ request[q] \in Request
  BY <1>2 DEF RequestTypes
<1>4. request'[q] \in Request
  <2>1. ASSUME NEW r \in Request PROVE [r EXCEPT !.at = "read", !.on = targets] \in Request
    BY DEF Request, AnswerSteps
  <2> QED BY <1>3, <2>1
<1>5. request' \in [Requests -> Request] /\ \A o \in Requests : o # q => request'[o] = request[o]
  BY <1>2, <1>4 DEF RequestTypes
<1>6. /\ request'[q].at = "read" /\ request'[q].on = targets /\ request'[q].i = request[q].i
      /\ request'[q].got = request[q].got /\ request'[q].want = request[q].want
  BY <1>3 DEF Request
<1> QED BY <1>2, <1>5, <1>6 DEF Begins

-----------------------------------------------------------------------------
\* The steps of one request.
ToggleStep(q) == SetEnabled(q) \/ SetStereo(q) \/ SetFails(q)
LookStep(k) == ReadBoth(k) \/ ReadTenant(k) \/ ReadSystem(k) \/ ReadFails(k)

LEMMA InitRecInv == RecordingInit => RecInv
<1> SUFFICES ASSUME RecordingInit PROVE RecInv
  OBVIOUS
<1>1. ServerTypes
  BY DEF RecordingInit, ServerTypes
<1>2. Both \in Flags /\ Off \in Flags /\ Off.stereo = FALSE
  BY DEF Both, Off, Flags
<1>3. [at |-> "idle", on |-> <<>>, i |-> 1, want |-> Off, got |-> Both] \in Request
  BY <1>2 DEF Request, AnswerSteps
<1>4. \A q \in Requests : request[q] = [at |-> "idle", on |-> <<>>, i |-> 1, want |-> Off, got |-> Both]
  BY DEF RecordingInit, Requests
<1>5. RequestTypes
  <2>1. request \in [Requests -> Request]
    BY <1>3 DEF RecordingInit, Requests
  <2>2. ASSUME NEW q \in Requests
        PROVE  request[q].at = "idle" /\ request[q].i = 1 /\ request[q].got = Both /\ ~request[q].want.stereo
    BY <1>2, <1>4
  <2> QED BY <2>1, <2>2 DEF RequestTypes, Busy
<1>6. SeenInv
  BY <1>4 DEF SeenInv, Busy
<1>7. PendingInv
  BY DEF PendingInv, RecordingInit
<1> QED BY <1>1, <1>5, <1>6, <1>7 DEF RecInv

LEMMA NextServerTypes == RecInv /\ [RecordingNext]_recVars => ServerTypes'
<1> SUFFICES ASSUME ServerTypes, RequestTypes, [RecordingNext]_recVars PROVE ServerTypes'
  BY DEF RecInv
<1>1. ASSUME NEW q \in Toggle, SetEnabled(q) PROVE ServerTypes'
  BY <1>1, SetEnabledDoes DEF ServerTypes, Requests
<1>2. ASSUME NEW q \in Toggle, SetStereo(q) PROVE ServerTypes'
  <2>1. q \in Requests /\ Busy(q)
    BY <1>2 DEF Requests, SetStereo, Busy
  <2>2. Target(q) \in Server
    BY <2>1, UnderWay
  <2>3. /\ stereo' \in [Server -> BOOLEAN] /\ (stereo'[Target(q)] => Target(q) \in ramDisk)
        /\ \A s \in Server : s # Target(q) => stereo'[s] = stereo[s]
        /\ UNCHANGED <<enabled, ramDisk, refused>>
    BY <1>2, <2>1, SetStereoDoes
  <2> QED BY <2>3 DEF ServerTypes
<1>3. ASSUME NEW q \in Toggle, SetFails(q) PROVE ServerTypes'
  <2>1. q \in Requests /\ refused + 1 \in Nat
    BY DEF Requests, ServerTypes
  <2> QED BY <1>3, <2>1, SetFailsDoes DEF ServerTypes
<1>4. CASE UNCHANGED <<enabled, stereo, ramDisk>> /\ refused' \in {refused, refused + 1}
  <2>1. refused' \in Nat
    BY <1>4 DEF ServerTypes
  <2> QED BY <1>4, <2>1 DEF ServerTypes
<1>5. ASSUME NEW q \in Toggle, NEW targets, NEW on, NEW both, StartToggle(q, targets, on, both)
      PROVE  ServerTypes'
  BY <1>4, <1>5 DEF StartToggle
<1>6. ASSUME NEW k \in Look, NEW targets, StartLook(k, targets)
      PROVE  ServerTypes'
  BY <1>4, <1>6 DEF StartLook
<1>7. ASSUME NEW k \in Look, LookStep(k)
      PROVE  ServerTypes'
  BY <1>4, <1>7 DEF LookStep, ReadBoth, ReadTenant, ReadSystem, ReadFails
<1>8. CASE UNCHANGED recVars
  BY <1>4, <1>8 DEF recVars
<1> QED BY <1>1, <1>2, <1>3, <1>5, <1>6, <1>7, <1>8 DEF RecordingNext, LookStep

LEMMA ComesTyped ==
    ASSUME ServerTypes, RequestTypes, NEW q \in Requests, NEW place, NEW index, NEW got, Busy(q), Comes(q, place, index, got),
           place # "idle", place \in {"done", "failed"} \/ index \in Targets(q),
           place \in {"enable", "stereo"} => q \in Toggle, place \in {"read", "read system"} => q \in Look
    PROVE  RequestTypes'
<1>1. request[q].on \in Section
  BY DEF RequestTypes
<1>2. ASSUME NEW o \in Requests, o # q
      PROVE  /\ request'[o].at = "idle" => request'[o].i = 1 /\ request'[o].got = Both
             /\ Busy(o)' => request'[o].on \in Section /\ request'[o].i \in 1..Len(request'[o].on)
             /\ request'[o].at \in {"enable", "stereo"} => o \in Toggle
             /\ request'[o].at \in {"read", "read system"} => o \in Look
             /\ request'[o].want.stereo => request'[o].want.enabled
  <2>1. request'[o] = request[o]
    BY <1>2 DEF Comes
  <2> QED BY <2>1 DEF RequestTypes, Busy
<1>3. /\ request'[q].at # "idle" /\ (Busy(q)' => request'[q].on \in Section /\ request'[q].i \in 1..Len(request'[q].on))
      /\ request'[q].at \in {"enable", "stereo"} => q \in Toggle
      /\ request'[q].at \in {"read", "read system"} => q \in Look
      /\ request'[q].want.stereo => request'[q].want.enabled
  BY <1>1 DEF Comes, RequestTypes, Busy, Targets
<1>4. request' \in [Requests -> Request]
  BY DEF Comes
<1> QED BY <1>2, <1>3, <1>4 DEF RequestTypes

LEMMA BeginsTyped ==
    ASSUME RequestTypes, NEW q \in Requests, NEW place, NEW targets \in Section, Begins(q, place, targets),
           request'[q].want.stereo => request'[q].want.enabled,
           \/ q \in Toggle /\ place = "enable"
           \/ q \in Look /\ place = "read"
    PROVE  RequestTypes'
<1>1. request'[q].i = 1 /\ 1 \in 1..Len(targets)
  BY SectionsAre DEF Begins, RequestTypes
<1>2. ASSUME NEW o \in Requests, o # q
      PROVE  /\ request'[o].at = "idle" => request'[o].i = 1 /\ request'[o].got = Both
             /\ Busy(o)' => request'[o].on \in Section /\ request'[o].i \in 1..Len(request'[o].on)
             /\ request'[o].at \in {"enable", "stereo"} => o \in Toggle
             /\ request'[o].at \in {"read", "read system"} => o \in Look
             /\ request'[o].want.stereo => request'[o].want.enabled
  <2>1. request'[o] = request[o]
    BY <1>2 DEF Begins
  <2> QED BY <2>1 DEF RequestTypes, Busy
<1>3. /\ request'[q].at # "idle" /\ request'[q].on \in Section /\ request'[q].i \in 1..Len(request'[q].on)
      /\ request'[q].at \in {"enable", "stereo"} => q \in Toggle
      /\ request'[q].at \in {"read", "read system"} => q \in Look
  BY <1>1 DEF Begins
<1>4. request' \in [Requests -> Request]
  BY DEF Begins
<1> QED BY <1>2, <1>3, <1>4 DEF RequestTypes

LEMMA NextRequestTypes == RecInv /\ [RecordingNext]_recVars => RequestTypes'
<1> SUFFICES ASSUME ServerTypes, RequestTypes, [RecordingNext]_recVars PROVE RequestTypes'
  BY DEF RecInv
<1>0. /\ Toggle \subseteq Requests /\ Look \subseteq Requests
      /\ \A q \in Requests : Busy(q) => request[q].i \in Targets(q)
                                        /\ (request[q].i < Len(request[q].on) => request[q].i + 1 \in Targets(q))
  <2>1. ASSUME NEW q \in Requests, Busy(q)
        PROVE  request[q].i \in Targets(q) /\ (request[q].i < Len(request[q].on) => request[q].i + 1 \in Targets(q))
    <3>1. request[q].i \in Targets(q) /\ Len(request[q].on) \in Nat
      BY <2>1, UnderWay
    <3> QED BY <3>1 DEF Targets
  <2> QED BY <2>1 DEF Requests
<1>1. ASSUME NEW q \in Toggle, SetEnabled(q) PROVE RequestTypes'
  <2>1. Busy(q)
    BY <1>1 DEF SetEnabled, Busy
  <2>2. PICK got : Comes(q, "stereo", request[q].i, got)
    BY <1>0, <1>1, SetEnabledDoes
  <2> QED BY <1>0, <2>1, <2>2, ComesTyped
<1>2. ASSUME NEW q \in Toggle, SetStereo(q) PROVE RequestTypes'
  <2>1. Busy(q)
    BY <1>2 DEF SetStereo, Busy
  <2>2. PICK got : /\ request[q].i < Len(request[q].on) => Comes(q, "enable", request[q].i + 1, got)
                   /\ ~(request[q].i < Len(request[q].on)) => Comes(q, "done", request[q].i, got)
    BY <1>0, <1>2, SetStereoDoes
  <2> QED BY <1>0, <2>1, <2>2, ComesTyped
<1>3. ASSUME NEW q \in Toggle, SetFails(q) PROVE RequestTypes'
  <2>1. Busy(q)
    BY <1>3 DEF SetFails, Busy
  <2> QED BY <1>0, <1>3, <2>1, SetFailsDoes, ComesTyped
<1>4. ASSUME NEW q \in Toggle, NEW targets \in Section, NEW on \in BOOLEAN, NEW both \in BOOLEAN,
             StartToggle(q, targets, on, both)
      PROVE  RequestTypes'
  <2>1. q \in Requests
    BY <1>0
  <2>2. Begins(q, "enable", targets) /\ (request'[q].want.stereo => request'[q].want.enabled)
    BY <1>4, <2>1, StartToggleDoes
  <2> QED BY <2>1, <2>2, BeginsTyped
<1>5. ASSUME NEW k \in Look, NEW targets \in Section, StartLook(k, targets)
      PROVE  RequestTypes'
  <2>1. k \in Requests
    BY <1>0
  <2>2. Begins(k, "read", targets) /\ (request'[k].want.stereo => request'[k].want.enabled)
    BY <1>5, <2>1, StartLookDoes DEF RequestTypes
  <2> QED BY <2>1, <2>2, BeginsTyped
<1>6. ASSUME NEW k \in Look, ReadBoth(k) \/ ReadSystem(k) PROVE RequestTypes'
  <2>1. Busy(k)
    BY <1>6 DEF ReadBoth, ReadSystem, Busy
  <2>2. PICK got : /\ request[k].i < Len(request[k].on) => Comes(k, "read", request[k].i + 1, got)
                   /\ ~(request[k].i < Len(request[k].on)) => Comes(k, "done", request[k].i, got)
    BY <1>0, <1>6, ReadBothDoes, ReadSystemDoes
  <2> QED BY <1>0, <2>1, <2>2, ComesTyped
<1>7. ASSUME NEW k \in Look, ReadTenant(k) PROVE RequestTypes'
  <2>1. Busy(k)
    BY <1>7 DEF ReadTenant, Busy
  <2>2. PICK got : Comes(k, "read system", request[k].i, got)
    BY <1>0, <1>7, ReadTenantDoes
  <2> QED BY <1>0, <2>1, <2>2, ComesTyped
<1>8. ASSUME NEW k \in Look, ReadFails(k) PROVE RequestTypes'
  <2>1. Busy(k) /\ Ends(k, "failed") /\ "failed" \in AnswerSteps
    BY <1>8 DEF ReadFails, Busy, AnswerSteps
  <2>2. Comes(k, "failed", request[k].i, request[k].got)
    BY <1>0, <2>1, EndsComes
  <2> QED BY <1>0, <2>1, <2>2, ComesTyped
<1>9. CASE UNCHANGED recVars
  BY <1>9 DEF recVars, RequestTypes, Busy
<1> QED BY <1>1, <1>2, <1>3, <1>4, <1>5, <1>6, <1>7, <1>8, <1>9 DEF RecordingNext

\* With the answer of the instance it is at, what a request has had answered is
\* so of one instance more.
LEMMA SetEnabledSeen ==
    ASSUME ServerTypes, RequestTypes, NEW q \in Requests, q \in Toggle, SetEnabled(q),
           SoFar(q, request[q].i - 1, request[q].i - 1)
    PROVE  SoFar(q, request[q].i, request[q].i - 1)'
<1> DEFINE i == request[q].i
           on == request[q].on
           want == request[q].want
<1>1. Busy(q)
  BY DEF SetEnabled, Busy
<1>2. /\ i \in 1..Len(on) /\ Len(on) \in Nat /\ Target(q) = on[i] /\ on[i] \in Server
      /\ \A k \in 1..Len(on) : on[k] \in Server /\ (on[k] = on[i] => k = i)
  BY <1>1, UnderWay DEF Targets
<1>0. \A k \in 1..Len(on) : (k <= i <=> (k <= i - 1 \/ k = i)) /\ ~(i <= i - 1)
  BY <1>2
<1>3. request[q].got \in Flags /\ request[q].got.enabled \in BOOLEAN /\ want.enabled \in BOOLEAN
  BY RequestFields DEF Flags
<1>4. /\ enabled'[on[i]] = want.enabled /\ UNCHANGED <<stereo, ramDisk>>
      /\ \A k \in 1..Len(on) : k <= i - 1 => enabled'[on[k]] = enabled[on[k]]
  BY <1>0, <1>2, SetEnabledDoes
<1>5. /\ request'[q].on = on /\ request'[q].i = i /\ request'[q].want = want
      /\ request'[q].got.enabled = (request[q].got.enabled /\ want.enabled)
      /\ request'[q].got.stereo = request[q].got.stereo
  <2>1. Comes(q, "stereo", i, Combined(request[q].got, "enabled", want.enabled))
    BY SetEnabledDoes
  <2>2. /\ Combined(request[q].got, "enabled", want.enabled).enabled = (request[q].got.enabled /\ want.enabled)
        /\ Combined(request[q].got, "enabled", want.enabled).stereo = request[q].got.stereo
    BY <1>3, CombinedIs
  <2> QED BY <2>1, <2>2 DEF Comes
<1>6. (request[q].got.enabled /\ enabled'[on[i]]) <=> \A k \in 1..Len(on) : k <= i => enabled'[on[k]]
  <2>1. request[q].got.enabled <=> \A k \in 1..Len(on) : k <= i - 1 => enabled[on[k]]
    BY DEF SoFar, Targets
  <2>2. enabled'[on[i]] \in BOOLEAN
    BY <1>3, <1>4
  <2> QED BY <1>0, <1>2, <1>3, <1>4, <2>1, <2>2
<1>7. \A k \in 1..Len(on) : k <= i => (enabled'[on[k]] <=> want.enabled)
  BY <1>0, <1>2, <1>4 DEF SoFar, Targets
<1> QED BY <1>4, <1>5, <1>6, <1>7 DEF SoFar, Targets

LEMMA SetStereoSeen ==
    ASSUME ServerTypes, RequestTypes, NEW q \in Requests, q \in Toggle, SetStereo(q),
           SoFar(q, request[q].i, request[q].i - 1)
    PROVE  /\ request'[q].on = request[q].on /\ request'[q].want = request[q].want
           /\ \/ request[q].i < Len(request[q].on) /\ request'[q].at = "enable" /\ request'[q].i = request[q].i + 1
              \/ ~(request[q].i < Len(request[q].on)) /\ request'[q].at = "done" /\ request'[q].i = request[q].i
           /\ \A n : n = request[q].i => SoFar(q, n, n)'
<1> DEFINE i == request[q].i
           on == request[q].on
           want == request[q].want
<1>1. Busy(q)
  BY DEF SetStereo, Busy
<1>2. /\ i \in 1..Len(on) /\ Len(on) \in Nat /\ Target(q) = on[i] /\ on[i] \in Server
      /\ \A k \in 1..Len(on) : on[k] \in Server /\ (on[k] = on[i] => k = i)
  BY <1>1, UnderWay DEF Targets
<1>0. \A k \in 1..Len(on) : (k <= i <=> (k <= i - 1 \/ k = i)) /\ ~(i <= i - 1)
  BY <1>2
<1>3. request[q].got \in Flags /\ request[q].got.stereo \in BOOLEAN
  BY RequestFields DEF Flags
<1>4. /\ stereo'[on[i]] \in BOOLEAN /\ UNCHANGED <<enabled, ramDisk>>
      /\ stereo'[on[i]] <=> want.stereo /\ on[i] \in ramDisk
      /\ \A k \in 1..Len(on) : k <= i - 1 => stereo'[on[k]] = stereo[on[k]]
  BY <1>0, <1>2, SetStereoDoes
<1>5. Combined(request[q].got, "stereo", stereo'[on[i]]).stereo = (request[q].got.stereo /\ stereo'[on[i]])
      /\ Combined(request[q].got, "stereo", stereo'[on[i]]).enabled = request[q].got.enabled
  BY <1>3, <1>4, CombinedIs
<1>6. /\ i < Len(on) => Comes(q, "enable", i + 1, Combined(request[q].got, "stereo", stereo'[on[i]]))
      /\ ~(i < Len(on)) => Comes(q, "done", i, Combined(request[q].got, "stereo", stereo'[on[i]]))
  BY <1>0, <1>2, SetStereoDoes
<1>7. /\ request'[q].on = on /\ request'[q].want = want
      /\ request'[q].got.stereo = (request[q].got.stereo /\ stereo'[on[i]])
      /\ request'[q].got.enabled = request[q].got.enabled
  BY <1>5, <1>6 DEF Comes
<1>8. (request[q].got.stereo /\ stereo'[on[i]]) <=> \A k \in 1..Len(on) : k <= i => stereo'[on[k]]
  <2>1. request[q].got.stereo <=> \A k \in 1..Len(on) : k <= i - 1 => stereo[on[k]]
    BY DEF SoFar, Targets
  <2> QED BY <1>0, <1>2, <1>3, <1>4, <2>1
<1>9. \A k \in 1..Len(on) : k <= i => (stereo'[on[k]] <=> want.stereo /\ on[k] \in ramDisk)
  BY <1>0, <1>2, <1>4 DEF SoFar, Targets
<1>10. \A n : n = i => SoFar(q, n, n)'
  BY <1>4, <1>7, <1>8, <1>9 DEF SoFar, Targets
<1>11. \/ i < Len(on) /\ request'[q].at = "enable" /\ request'[q].i = i + 1
       \/ ~(i < Len(on)) /\ request'[q].at = "done" /\ request'[q].i = i
  BY <1>6 DEF Comes
<1> QED BY <1>7, <1>10, <1>11

LEMMA ReadBothSeen ==
    ASSUME ServerTypes, RequestTypes, NEW q \in Requests, q \in Look, ReadBoth(q),
           SoFar(q, request[q].i - 1, request[q].i - 1)
    PROVE  /\ request'[q].on = request[q].on
           /\ \/ request[q].i < Len(request[q].on) /\ request'[q].at = "read" /\ request'[q].i = request[q].i + 1
              \/ ~(request[q].i < Len(request[q].on)) /\ request'[q].at = "done" /\ request'[q].i = request[q].i
           /\ \A n : n = request[q].i => SoFar(q, n, n)'
<1> DEFINE i == request[q].i
           on == request[q].on
           got == Combined(Combined(request[q].got, "enabled", enabled[on[i]]), "stereo", stereo[on[i]])
<1>1. Busy(q) /\ q \notin Toggle
  BY RecordingAssumption DEF ReadBoth, Busy
<1>2. /\ i \in 1..Len(on) /\ Len(on) \in Nat /\ Target(q) = on[i]
      /\ enabled[on[i]] \in BOOLEAN /\ stereo[on[i]] \in BOOLEAN
  BY <1>1, UnderWay DEF Targets
<1>0. \A k \in 1..Len(on) : k <= i <=> (k <= i - 1 \/ k = i)
  BY <1>2
<1>3. request[q].got \in Flags /\ request[q].got.enabled \in BOOLEAN /\ request[q].got.stereo \in BOOLEAN
  BY RequestFields DEF Flags
<1>4. Combined(request[q].got, "enabled", enabled[on[i]]) \in Flags
  BY <1>2, <1>3, CombinedIs
<1>5. got.enabled = (request[q].got.enabled /\ enabled[on[i]]) /\ got.stereo = (request[q].got.stereo /\ stereo[on[i]])
  <2> DEFINE first == Combined(request[q].got, "enabled", enabled[on[i]])
  <2>1. first.enabled = (request[q].got.enabled /\ enabled[on[i]]) /\ first.stereo = request[q].got.stereo
    BY <1>2, <1>3, CombinedIs
  <2>2. Combined(first, "stereo", stereo[on[i]]).enabled = first.enabled
        /\ Combined(first, "stereo", stereo[on[i]]).stereo = (first.stereo /\ stereo[on[i]])
    BY <1>2, <1>4, CombinedIs
  <2> QED BY <2>1, <2>2
<1>6. /\ i < Len(on) => Comes(q, "read", i + 1, got)
      /\ ~(i < Len(on)) => Comes(q, "done", i, got)
  BY <1>2, ReadBothDoes
<1>7. UNCHANGED <<enabled, stereo, ramDisk>>
  BY DEF ReadBoth
<1> HIDE DEF got
<1>8. request'[q].on = on /\ request'[q].got = got
  BY <1>6 DEF Comes
<1>9. /\ (request[q].got.enabled /\ enabled[on[i]]) <=> \A k \in 1..Len(on) : k <= i => enabled[on[k]]
      /\ (request[q].got.stereo /\ stereo[on[i]]) <=> \A k \in 1..Len(on) : k <= i => stereo[on[k]]
  <2>1. /\ request[q].got.enabled <=> \A k \in 1..Len(on) : k <= i - 1 => enabled[on[k]]
        /\ request[q].got.stereo <=> \A k \in 1..Len(on) : k <= i - 1 => stereo[on[k]]
    BY DEF SoFar, Targets
  <2>2. (request[q].got.enabled /\ enabled[on[i]]) <=> \A k \in 1..Len(on) : k <= i => enabled[on[k]]
    BY <1>0, <1>2, <1>3, <2>1
  <2>3. (request[q].got.stereo /\ stereo[on[i]]) <=> \A k \in 1..Len(on) : k <= i => stereo[on[k]]
    BY <1>0, <1>2, <1>3, <2>1
  <2> QED BY <2>2, <2>3
<1>10. \A n : n = i => SoFar(q, n, n)'
  BY <1>1, <1>5, <1>7, <1>8, <1>9 DEF SoFar, Targets
<1>11. \/ i < Len(on) /\ request'[q].at = "read" /\ request'[q].i = i + 1
       \/ ~(i < Len(on)) /\ request'[q].at = "done" /\ request'[q].i = i
  BY <1>6 DEF Comes
<1> QED BY <1>8, <1>10, <1>11

LEMMA ReadTenantSeen ==
    ASSUME ServerTypes, RequestTypes, NEW q \in Requests, q \in Look, ReadTenant(q),
           SoFar(q, request[q].i - 1, request[q].i - 1)
    PROVE  SoFar(q, request[q].i, request[q].i - 1)'
<1> DEFINE i == request[q].i
           on == request[q].on
           got == Combined(request[q].got, "enabled", enabled[on[i]])
<1>1. Busy(q) /\ q \notin Toggle
  BY RecordingAssumption DEF ReadTenant, Busy
<1>2. i \in 1..Len(on) /\ Len(on) \in Nat /\ Target(q) = on[i] /\ enabled[on[i]] \in BOOLEAN
  BY <1>1, UnderWay DEF Targets
<1>0. \A k \in 1..Len(on) : k <= i <=> (k <= i - 1 \/ k = i)
  BY <1>2
<1>3. request[q].got \in Flags /\ request[q].got.enabled \in BOOLEAN
  BY RequestFields DEF Flags
<1>4. got.enabled = (request[q].got.enabled /\ enabled[on[i]]) /\ got.stereo = request[q].got.stereo
  BY <1>2, <1>3, CombinedIs
<1>5. Comes(q, "read system", i, got)
  BY <1>2, ReadTenantDoes
<1>6. UNCHANGED <<enabled, stereo, ramDisk>>
  BY DEF ReadTenant
<1> HIDE DEF got
<1>7. request'[q].on = on /\ request'[q].i = i /\ request'[q].got = got
  BY <1>5 DEF Comes
<1>8. (request[q].got.enabled /\ enabled[on[i]]) <=> \A k \in 1..Len(on) : k <= i => enabled[on[k]]
  BY <1>0, <1>2, <1>3 DEF SoFar, Targets
<1> QED BY <1>1, <1>4, <1>6, <1>7, <1>8 DEF SoFar, Targets

LEMMA ReadSystemSeen ==
    ASSUME ServerTypes, RequestTypes, NEW q \in Requests, q \in Look, ReadSystem(q),
           SoFar(q, request[q].i, request[q].i - 1)
    PROVE  /\ request'[q].on = request[q].on
           /\ \/ request[q].i < Len(request[q].on) /\ request'[q].at = "read" /\ request'[q].i = request[q].i + 1
              \/ ~(request[q].i < Len(request[q].on)) /\ request'[q].at = "done" /\ request'[q].i = request[q].i
           /\ \A n : n = request[q].i => SoFar(q, n, n)'
<1> DEFINE i == request[q].i
           on == request[q].on
           got == Combined(request[q].got, "stereo", stereo[on[i]])
<1>1. Busy(q) /\ q \notin Toggle
  BY RecordingAssumption DEF ReadSystem, Busy
<1>2. i \in 1..Len(on) /\ Len(on) \in Nat /\ Target(q) = on[i] /\ stereo[on[i]] \in BOOLEAN
  BY <1>1, UnderWay DEF Targets
<1>0. \A k \in 1..Len(on) : k <= i <=> (k <= i - 1 \/ k = i)
  BY <1>2
<1>3. request[q].got \in Flags /\ request[q].got.stereo \in BOOLEAN
  BY RequestFields DEF Flags
<1>5. got.enabled = request[q].got.enabled /\ got.stereo = (request[q].got.stereo /\ stereo[on[i]])
  BY <1>2, <1>3, CombinedIs
<1>6. /\ i < Len(on) => Comes(q, "read", i + 1, got)
      /\ ~(i < Len(on)) => Comes(q, "done", i, got)
  BY <1>2, ReadSystemDoes
<1>7. UNCHANGED <<enabled, stereo, ramDisk>>
  BY DEF ReadSystem
<1> HIDE DEF got
<1>8. request'[q].on = on /\ request'[q].got = got
  BY <1>6 DEF Comes
<1>9. (request[q].got.stereo /\ stereo[on[i]]) <=> \A k \in 1..Len(on) : k <= i => stereo[on[k]]
  <2>1. request[q].got.stereo <=> \A k \in 1..Len(on) : k <= i - 1 => stereo[on[k]]
    BY DEF SoFar, Targets
  <2> QED BY <1>0, <1>2, <1>3, <2>1
<1>10. \A n : n = i => SoFar(q, n, n)'
  BY <1>1, <1>5, <1>7, <1>8, <1>9 DEF SoFar, Targets
<1>11. \/ i < Len(on) /\ request'[q].at = "read" /\ request'[q].i = i + 1
       \/ ~(i < Len(on)) /\ request'[q].at = "done" /\ request'[q].i = i
  BY <1>6 DEF Comes
<1> QED BY <1>8, <1>10, <1>11

\* The steps leave the other requests' answers as they were.
LEMMA StepsLeave ==
    ASSUME ServerTypes, RequestTypes, NEW q \in Requests,
           \/ q \in Toggle /\ ToggleStep(q)
           \/ q \in Look /\ LookStep(q)
           \/ q \in Toggle /\ \E targets \in Section, on, both \in BOOLEAN : StartToggle(q, targets, on, both)
           \/ q \in Look /\ \E targets \in Section : StartLook(q, targets)
    PROVE  Leaves(q)
<1>0. ASSUME \A o \in Requests : o # q => request'[o] = request[o], UNCHANGED <<enabled, stereo, ramDisk, disturbed>>
      PROVE  Leaves(q)
  BY <1>0 DEF Leaves
<1>1. CASE q \in Toggle /\ SetEnabled(q)
  <2>1. Target(q) \in Server
    BY <1>1, UnderWay DEF SetEnabled, Busy
  <2> QED BY <1>1, <2>1, SetEnabledDoes, WritesLeave DEF Comes
<1>2. CASE q \in Toggle /\ SetStereo(q)
  <2>1. Target(q) \in Server
    BY <1>2, UnderWay DEF SetStereo, Busy
  <2>2. \A o \in Requests : o # q => request'[o] = request[o]
    BY <1>2, SetStereoDoes DEF Comes
  <2>3. Writes(q, Target(q)) /\ UNCHANGED ramDisk
    BY <1>2, SetStereoDoes
  <2> QED BY <2>1, <2>2, <2>3, WritesLeave
<1>3. CASE SetFails(q)
  BY <1>3, SetFailsDoes
<1>4. CASE ReadBoth(q) \/ ReadSystem(q)
  <2>1. \A o \in Requests : o # q => request'[o] = request[o]
    BY <1>4, ReadBothDoes, ReadSystemDoes DEF Comes
  <2> QED BY <1>0, <1>4, <2>1 DEF ReadBoth, ReadSystem
<1>5. CASE ReadTenant(q)
  <2>1. \A o \in Requests : o # q => request'[o] = request[o]
    BY <1>5, ReadTenantDoes DEF Comes
  <2> QED BY <1>0, <1>5, <2>1 DEF ReadTenant
<1>6. CASE ReadFails(q)
  <2>1. \A o \in Requests : o # q => request'[o] = request[o]
    BY <1>6 DEF ReadFails, Ends, RequestTypes
  <2> QED BY <1>0, <1>6, <2>1 DEF ReadFails
<1>7. ASSUME NEW targets \in Section, NEW on \in BOOLEAN, NEW both \in BOOLEAN, StartToggle(q, targets, on, both)
      PROVE  Leaves(q)
  <2>1. \A o \in Requests : o # q => request'[o] = request[o]
    BY <1>7, StartToggleDoes DEF Begins
  <2> QED BY <1>0, <1>7, <2>1 DEF StartToggle
<1>8. ASSUME NEW targets \in Section, StartLook(q, targets)
      PROVE  Leaves(q)
  <2>1. \A o \in Requests : o # q => request'[o] = request[o]
    BY <1>8, StartLookDoes DEF Begins
  <2> QED BY <1>0, <1>8, <2>1 DEF StartLook
<1> QED BY <1>1, <1>2, <1>3, <1>4, <1>5, <1>6, <1>7, <1>8 DEF ToggleStep, LookStep

\* Every step is one of a request.
LEMMA WhoseStep ==
    RecordingNext => \E q \in Requests :
        \/ q \in Toggle /\ ToggleStep(q)
        \/ q \in Look /\ LookStep(q)
        \/ q \in Toggle /\ \E targets \in Section, on, both \in BOOLEAN : StartToggle(q, targets, on, both)
        \/ q \in Look /\ \E targets \in Section : StartLook(q, targets)
BY DEF RecordingNext, ToggleStep, LookStep, Requests

LEMMA NextSeenInv == RecInv /\ [RecordingNext]_recVars => SeenInv'
<1> SUFFICES ASSUME ServerTypes, RequestTypes, SeenInv, [RecordingNext]_recVars PROVE SeenInv'
  BY DEF RecInv
<1>1. ASSUME NEW q \in Requests, Leaves(q), (Busy(q) /\ q \notin disturbed => SoStill(q))'
      PROVE  SeenInv'
  <2>1. ASSUME NEW o \in Requests PROVE (Busy(o) /\ o \notin disturbed => SoStill(o))'
    <3>1. CASE o = q
      BY <1>1, <3>1
    <3>2. CASE o # q
      BY <1>1, <3>2, LeavesSeen DEF SeenInv
    <3> QED BY <3>1, <3>2
  <2> QED BY <2>1 DEF SeenInv
<1>2. ASSUME NEW q \in Requests, Leaves(q), q \notin disturbed', Busy(q)
      PROVE  SoStill(q) /\ request[q].i \in Nat
  <2>1. request[q].i \in Nat
    BY RequestFields
  <2> QED BY <1>2, <2>1 DEF Leaves, SeenInv
<1>3. ASSUME NEW q \in Toggle, SetEnabled(q)
      PROVE  SeenInv'
  <2>1. q \in Requests /\ Leaves(q) /\ Busy(q)
    BY <1>3, StepsLeave DEF Requests, ToggleStep, SetEnabled, Busy
  <2>2. ASSUME q \notin disturbed' PROVE SoStill(q)'
    <3>1. SoFar(q, request[q].i - 1, request[q].i - 1)
      BY <1>2, <1>3, <2>1, <2>2 DEF SoStill, SetEnabled
    <3>2. SoFar(q, request[q].i, request[q].i - 1)'
      BY <1>3, <2>1, <3>1, SetEnabledSeen
    <3>3. request'[q].at = "stereo"
      BY <1>3, <2>1, SetEnabledDoes DEF Comes
    <3> QED BY <3>2, <3>3 DEF SoStill
  <2> QED BY <1>1, <2>1, <2>2
<1>4. ASSUME NEW q \in Requests, Leaves(q), NEW i \in Nat,
             q \notin disturbed' => SoFar(q, i, i)',
             \/ request'[q].at \in {"enable", "read"} /\ request'[q].i = i + 1
             \/ request'[q].at = "done"
      PROVE  SeenInv'
  <2>1. CASE request'[q].at = "done"
    <3>1. ~Busy(q)'
      BY <2>1 DEF Busy
    <3> QED BY <1>1, <1>4, <3>1
  <2>2. CASE request'[q].at \in {"enable", "read"} /\ request'[q].i = i + 1
    <3>1. request'[q].i - 1 = i /\ request'[q].at \notin {"stereo", "read system"}
      BY <2>2, Counting
    <3>2. (q \notin disturbed => SoStill(q))'
      BY <1>4, <3>1 DEF SoStill
    <3> QED BY <1>1, <1>4, <3>2
  <2> QED BY <1>4, <2>1, <2>2
<1>5. ASSUME NEW q \in Toggle, SetStereo(q)
      PROVE  SeenInv'
  <2>1. q \in Requests /\ Leaves(q) /\ Busy(q)
    BY <1>5, StepsLeave DEF Requests, ToggleStep, SetStereo, Busy
  <2>2. request[q].i \in Nat
    BY <2>1, RequestFields
  <2>3. ASSUME q \notin disturbed' PROVE \A n : n = request[q].i => SoFar(q, n, n)'
    <3>1. SoFar(q, request[q].i, request[q].i - 1)
      BY <1>2, <1>5, <2>1, <2>3 DEF SoStill, SetStereo
    <3> QED BY <1>5, <2>1, <3>1, SetStereoSeen
  <2>4. \/ request'[q].at \in {"enable", "read"} /\ request'[q].i = request[q].i + 1
        \/ request'[q].at = "done"
    BY <1>5, <2>1, SetStereoDoes DEF Comes
  <2> QED BY <1>4, <2>1, <2>2, <2>3, <2>4
<1>6. ASSUME NEW q \in Look, ReadBoth(q)
      PROVE  SeenInv'
  <2>1. q \in Requests /\ Leaves(q) /\ Busy(q)
    BY <1>6, StepsLeave DEF Requests, LookStep, ReadBoth, Busy
  <2>2. request[q].i \in Nat
    BY <2>1, RequestFields
  <2>3. ASSUME q \notin disturbed' PROVE \A n : n = request[q].i => SoFar(q, n, n)'
    <3>1. SoFar(q, request[q].i - 1, request[q].i - 1)
      BY <1>2, <1>6, <2>1, <2>3 DEF SoStill, ReadBoth
    <3> QED BY <1>6, <2>1, <3>1, ReadBothSeen
  <2>4. \/ request'[q].at \in {"enable", "read"} /\ request'[q].i = request[q].i + 1
        \/ request'[q].at = "done"
    BY <1>6, <2>1, ReadBothDoes DEF Comes
  <2> QED BY <1>4, <2>1, <2>2, <2>3, <2>4
<1>7. ASSUME NEW q \in Look, ReadTenant(q)
      PROVE  SeenInv'
  <2>1. q \in Requests /\ Leaves(q) /\ Busy(q)
    BY <1>7, StepsLeave DEF Requests, LookStep, ReadTenant, Busy
  <2>2. ASSUME q \notin disturbed' PROVE SoStill(q)'
    <3>1. SoFar(q, request[q].i - 1, request[q].i - 1)
      BY <1>2, <1>7, <2>1, <2>2 DEF SoStill, ReadTenant
    <3>2. SoFar(q, request[q].i, request[q].i - 1)'
      BY <1>7, <2>1, <3>1, ReadTenantSeen
    <3>3. request'[q].at = "read system"
      BY <1>7, <2>1, ReadTenantDoes DEF Comes
    <3> QED BY <3>2, <3>3 DEF SoStill
  <2> QED BY <1>1, <2>1, <2>2
<1>8. ASSUME NEW q \in Look, ReadSystem(q)
      PROVE  SeenInv'
  <2>1. q \in Requests /\ Leaves(q) /\ Busy(q)
    BY <1>8, StepsLeave DEF Requests, LookStep, ReadSystem, Busy
  <2>2. request[q].i \in Nat
    BY <2>1, RequestFields
  <2>3. ASSUME q \notin disturbed' PROVE \A n : n = request[q].i => SoFar(q, n, n)'
    <3>1. SoFar(q, request[q].i, request[q].i - 1)
      BY <1>2, <1>8, <2>1, <2>3 DEF SoStill, ReadSystem
    <3> QED BY <1>8, <2>1, <3>1, ReadSystemSeen
  <2>4. \/ request'[q].at \in {"enable", "read"} /\ request'[q].i = request[q].i + 1
        \/ request'[q].at = "done"
    BY <1>8, <2>1, ReadSystemDoes DEF Comes
  <2> QED BY <1>4, <2>1, <2>2, <2>3, <2>4
<1>9. ASSUME NEW q \in Requests, (q \in Toggle /\ SetFails(q)) \/ (q \in Look /\ ReadFails(q))
      PROVE  SeenInv'
  <2>1. Leaves(q)
    BY <1>9, StepsLeave DEF ToggleStep, LookStep
  <2>2. request'[q].at = "failed"
    <3>1. CASE SetFails(q)
      BY <3>1, SetFailsDoes DEF Comes
    <3>2. CASE ReadFails(q)
      <4>1. Ends(q, "failed") /\ "failed" \in AnswerSteps
        BY <3>2 DEF ReadFails, AnswerSteps
      <4> QED BY <4>1, EndsComes DEF Comes
    <3> QED BY <1>9, <3>1, <3>2
  <2>3. ~Busy(q)'
    BY <2>2 DEF Busy
  <2> QED BY <1>1, <2>1, <2>3
<1>10. ASSUME NEW q \in Requests, NEW place \in {"enable", "read"}, NEW targets \in Section, Begins(q, place, targets), Leaves(q)
       PROVE  SeenInv'
  <2>1. request'[q].i = 1 /\ request'[q].got = Both /\ request'[q].at \notin {"stereo", "read system"}
    BY <1>10 DEF Begins, RequestTypes
  <2>2. Both.enabled = TRUE /\ Both.stereo = TRUE
    BY DEF Both
  <2>3. \A k \in Targets(q)' : ~(k <= 0)
    BY DEF Targets
  <2>4. SoFar(q, 0, 0)'
    BY <2>1, <2>2, <2>3 DEF SoFar
  <2>5. request'[q].i - 1 = 0
    BY <2>1, Counting
  <2>6. SoStill(q)'
    BY <2>1, <2>4, <2>5 DEF SoStill
  <2> QED BY <1>1, <1>10, <2>6
<1>11. ASSUME NEW q \in Toggle, NEW targets \in Section, NEW on \in BOOLEAN, NEW both \in BOOLEAN,
              StartToggle(q, targets, on, both)
       PROVE  SeenInv'
  <2>1. q \in Requests
    BY DEF Requests
  <2>2. Begins(q, "enable", targets) /\ Leaves(q)
    BY <1>11, <2>1, StartToggleDoes, StepsLeave
  <2> QED BY <1>10, <2>1, <2>2
<1>12. ASSUME NEW q \in Look, NEW targets \in Section, StartLook(q, targets)
       PROVE  SeenInv'
  <2>1. q \in Requests
    BY DEF Requests
  <2>2. Begins(q, "read", targets) /\ Leaves(q)
    BY <1>12, <2>1, StartLookDoes, StepsLeave
  <2> QED BY <1>10, <2>1, <2>2
<1>13. CASE UNCHANGED recVars
  BY <1>13 DEF recVars, SeenInv, SoStill, SoFar, Busy, Targets
<1> QED
  BY <1>3, <1>5, <1>6, <1>7, <1>8, <1>9, <1>11, <1>12, <1>13 DEF RecordingNext, Requests

LEMMA NextPendingInv == RecInv /\ [RecordingNext]_recVars => PendingInv'
<1> SUFFICES ASSUME RecInv, [RecordingNext]_recVars,
                    refused' = 0, disturbed' \cap Toggle = {}, NEW s \in Server, stereo'[s], ~enabled'[s]
             PROVE  \E q \in Toggle : request'[q].at = "stereo" /\ Target(q)' = s /\ ~request'[q].want.stereo
  BY DEF PendingInv
<1> USE DEF RecInv
<1>0. refused \in Nat /\ refused + 1 # 0
  BY Counting DEF ServerTypes
\* The instance had stereo alone before, and whoever is about to end that is not q.
<1>1. ASSUME NEW q \in Requests, Leaves(q), refused = 0, stereo[s], ~enabled[s],
             request[q].at # "stereo" \/ Target(q) # s
      PROVE  \E o \in Toggle : request'[o].at = "stereo" /\ Target(o)' = s /\ ~request'[o].want.stereo
  <2>1. disturbed \cap Toggle = {}
    BY <1>1 DEF Leaves
  <2>2. PICK o \in Toggle : request[o].at = "stereo" /\ Target(o) = s /\ ~request[o].want.stereo
    BY <1>1, <2>1 DEF PendingInv
  <2>3. o # q /\ o \in Requests
    BY <1>1, <2>2 DEF Requests
  <2>4. request'[o] = request[o]
    BY <1>1, <2>3 DEF Leaves
  <2> QED BY <2>2, <2>4 DEF Target
<1>2. ASSUME NEW q \in Toggle, SetEnabled(q)
      PROVE  \E o \in Toggle : request'[o].at = "stereo" /\ Target(o)' = s /\ ~request'[o].want.stereo
  <2>0. q \in Requests
    BY DEF Requests
  <2>1. Leaves(q) /\ request[q].at # "stereo"
    BY <1>2, <2>0, StepsLeave DEF ToggleStep, SetEnabled
  <2>2. /\ Comes(q, "stereo", request[q].i, Combined(request[q].got, "enabled", request[q].want.enabled))
        /\ UNCHANGED <<stereo, ramDisk, refused>> /\ enabled'[Target(q)] = request[q].want.enabled
        /\ \A x \in Server : x # Target(q) => enabled'[x] = enabled[x]
    BY <1>2, <2>0, SetEnabledDoes
  <2>3. CASE s = Target(q)
    <3>1. ~request[q].want.stereo
      BY <2>0, <2>2, <2>3 DEF RequestTypes
    <3>2. request'[q].at = "stereo" /\ Target(q)' = Target(q) /\ request'[q].want = request[q].want
      BY <2>2 DEF Comes, Target
    <3> QED BY <2>3, <3>1, <3>2
  <2>4. CASE s # Target(q)
    BY <1>1, <2>0, <2>1, <2>2, <2>4
  <2> QED BY <2>3, <2>4
<1>3. ASSUME NEW q \in Toggle, SetStereo(q)
      PROVE  \E o \in Toggle : request'[o].at = "stereo" /\ Target(o)' = s /\ ~request'[o].want.stereo
  <2>0. q \in Requests /\ Busy(q)
    BY <1>3 DEF Requests, SetStereo, Busy
  <2>1. Leaves(q)
    BY <1>3, <2>0, StepsLeave DEF ToggleStep
  <2>2. /\ UNCHANGED <<enabled, ramDisk, refused>> /\ (stereo'[Target(q)] <=> request[q].want.stereo /\ Target(q) \in ramDisk)
        /\ \A x \in Server : x # Target(q) => stereo'[x] = stereo[x]
    BY <1>3, <2>0, SetStereoDoes
  <2>3. s # Target(q)
    <3> SUFFICES ASSUME s = Target(q) PROVE FALSE
      OBVIOUS
    <3>1. request[q].want.stereo /\ request[q].want.enabled
      BY <2>0, <2>2 DEF RequestTypes
    <3>2. q \notin disturbed
      BY <2>1 DEF Leaves
    <3>3. SoFar(q, request[q].i, request[q].i - 1)
      BY <1>3, <2>0, <3>2 DEF SeenInv, SoStill, SetStereo
    <3>4. request[q].i \in Targets(q) /\ Target(q) = request[q].on[request[q].i] /\ request[q].i <= request[q].i
      <4>1. request[q].i \in Nat
        BY <2>0, RequestFields
      <4> QED BY <2>0, <4>1, UnderWay
    <3>5. enabled[Target(q)]
      BY <3>1, <3>3, <3>4 DEF SoFar
    <3> QED BY <2>2, <3>5
  <2> QED BY <1>1, <2>0, <2>1, <2>2, <2>3
<1>4. ASSUME NEW q \in Toggle, SetFails(q)
      PROVE  FALSE
  BY <1>0, <1>4, SetFailsDoes DEF Requests
<1>5. ASSUME NEW q \in Requests, Leaves(q), UNCHANGED <<enabled, stereo, refused>>, request[q].at # "stereo"
      PROVE  \E o \in Toggle : request'[o].at = "stereo" /\ Target(o)' = s /\ ~request'[o].want.stereo
  BY <1>1, <1>5
<1>6. ASSUME NEW k \in Look, ReadBoth(k) \/ ReadTenant(k) \/ ReadSystem(k)
      PROVE  \E o \in Toggle : request'[o].at = "stereo" /\ Target(o)' = s /\ ~request'[o].want.stereo
  <2>1. k \in Requests
    BY DEF Requests
  <2>2. Leaves(k)
    BY <1>6, <2>1, StepsLeave DEF LookStep
  <2>3. UNCHANGED <<enabled, stereo, refused>> /\ request[k].at # "stereo"
    BY <1>6 DEF ReadBoth, ReadTenant, ReadSystem
  <2> QED BY <1>5, <2>1, <2>2, <2>3
<1>7. ASSUME NEW k \in Look, ReadFails(k)
      PROVE  FALSE
  BY <1>0, <1>7 DEF ReadFails
<1>8. ASSUME NEW q \in Toggle, NEW targets \in Section, NEW on \in BOOLEAN, NEW both \in BOOLEAN,
             StartToggle(q, targets, on, both)
      PROVE  \E o \in Toggle : request'[o].at = "stereo" /\ Target(o)' = s /\ ~request'[o].want.stereo
  <2>1. q \in Requests
    BY DEF Requests
  <2>2. Leaves(q)
    BY <1>8, <2>1, StepsLeave
  <2>3. UNCHANGED <<enabled, stereo, refused>> /\ request[q].at # "stereo"
    BY <1>8 DEF StartToggle
  <2> QED BY <1>5, <2>1, <2>2, <2>3
<1>9. ASSUME NEW k \in Look, NEW targets \in Section, StartLook(k, targets)
      PROVE  \E o \in Toggle : request'[o].at = "stereo" /\ Target(o)' = s /\ ~request'[o].want.stereo
  <2>1. k \in Requests
    BY DEF Requests
  <2>2. Leaves(k)
    BY <1>9, <2>1, StepsLeave
  <2>3. UNCHANGED <<enabled, stereo, refused>> /\ request[k].at # "stereo"
    BY <1>9 DEF StartLook
  <2> QED BY <1>5, <2>1, <2>2, <2>3
<1>10. CASE UNCHANGED recVars
  BY <1>10 DEF recVars, PendingInv, Target
<1> QED
  BY <1>2, <1>3, <1>4, <1>6, <1>7, <1>8, <1>9, <1>10 DEF RecordingNext

\* Once the writes have ended, none overlapping and none failed, no instance
\* records in stereo with recording off (recording.go:179).
THEOREM NeverStereoAlone == RecordingSpec => []NoStereoAlone
<1>1. RecInv => NoStereoAlone
  BY DEF RecInv, PendingInv, NoStereoAlone, Busy
<1>2. RecInv /\ [RecordingNext]_recVars => RecInv'
  BY NextServerTypes, NextRequestTypes, NextSeenInv, NextPendingInv DEF RecInv
<1> QED
  BY InitRecInv, <1>1, <1>2, PTL DEF RecordingSpec

\* A toggle or look that is answered undisturbed is answered with what every
\* instance of its section has, and a toggle has set them all (recording.go:93-112,
\* 168-245).
THEOREM AnswersAlwaysTrue == RecordingSpec => AnswersAreTrue
<1>0. ASSUME RecInv, NEW q \in Requests, Shows(q), [RecordingNext]_recVars
      PROVE  /\ request'[q].on = request[q].on
             /\ q \in Toggle => request'[q].want = request[q].want
             /\ Busy(q)
             /\ request[q].i \in 1..Len(request[q].on) /\ ~(request[q].i < Len(request[q].on))
             /\ \A n : n = request[q].i => SoFar(q, n, n)'
  <2> USE <1>0 DEF RecInv
  <2>0. request[q].at # "done" /\ request'[q].at = "done" /\ q \notin disturbed
    BY DEF Shows
  <2>1. ~UNCHANGED recVars
    BY <2>0 DEF recVars
  <2>2. PICK o \in Requests :
          \/ o \in Toggle /\ ToggleStep(o)
          \/ o \in Look /\ LookStep(o)
          \/ o \in Toggle /\ \E targets \in Section, on, both \in BOOLEAN : StartToggle(o, targets, on, both)
          \/ o \in Look /\ \E targets \in Section : StartLook(o, targets)
    BY <2>1, WhoseStep
  <2>3. o = q
    BY <2>0, <2>2, StepsLeave DEF Leaves
  <2>4. ASSUME NEW targets \in Section, NEW on \in BOOLEAN, NEW both \in BOOLEAN
        PROVE  ~StartToggle(q, targets, on, both) /\ ~StartLook(q, targets)
    BY <2>0, StartToggleDoes, StartLookDoes DEF Begins
  <2>5. ~SetEnabled(q) \/ q \notin Toggle
    BY <2>0, SetEnabledDoes DEF Comes
  <2>6. ~SetFails(q) /\ ~ReadTenant(q)
    BY <2>0, SetFailsDoes, ReadTenantDoes DEF Comes
  <2>7. ~ReadFails(q)
    <3> SUFFICES ASSUME ReadFails(q) PROVE FALSE
      OBVIOUS
    <3>1. Ends(q, "failed") /\ "failed" \in AnswerSteps
      BY DEF ReadFails, AnswerSteps
    <3> QED BY <2>0, <3>1, EndsComes DEF Comes
  <2>8. \/ q \in Toggle /\ SetStereo(q)
        \/ q \in Look /\ (ReadBoth(q) \/ ReadSystem(q))
    BY <2>2, <2>3, <2>4, <2>5, <2>6, <2>7 DEF ToggleStep, LookStep
  <2>9. Busy(q)
    BY <2>8 DEF SetStereo, ReadBoth, ReadSystem, Busy
  <2>10. SoStill(q) /\ request[q].i \in 1..Len(request[q].on)
    BY <2>0, <2>9, UnderWay DEF SeenInv, Targets
  <2>11. CASE q \in Toggle /\ SetStereo(q)
    <3>1. SoFar(q, request[q].i, request[q].i - 1)
      BY <2>10, <2>11 DEF SoStill, SetStereo
    <3>2. /\ request'[q].on = request[q].on /\ request'[q].want = request[q].want
          /\ \A n : n = request[q].i => SoFar(q, n, n)'
          /\ ~(request[q].i < Len(request[q].on))
      BY <2>0, <2>11, <3>1, SetStereoSeen
    <3> QED BY <2>0, <2>9, <2>10, <3>2
  <2>12. CASE q \in Look /\ ReadBoth(q)
    <3>1. SoFar(q, request[q].i - 1, request[q].i - 1)
      BY <2>10, <2>12 DEF SoStill, ReadBoth
    <3>2. /\ request'[q].on = request[q].on
          /\ \A n : n = request[q].i => SoFar(q, n, n)'
          /\ ~(request[q].i < Len(request[q].on))
      BY <2>0, <2>12, <3>1, ReadBothSeen
    <3>3. q \notin Toggle
      BY <2>12, RecordingAssumption
    <3> QED BY <2>0, <2>9, <2>10, <3>2, <3>3
  <2>13. CASE q \in Look /\ ReadSystem(q)
    <3>1. SoFar(q, request[q].i, request[q].i - 1)
      BY <2>10, <2>13 DEF SoStill, ReadSystem
    <3>2. /\ request'[q].on = request[q].on
          /\ \A n : n = request[q].i => SoFar(q, n, n)'
          /\ ~(request[q].i < Len(request[q].on))
      BY <2>0, <2>13, <3>1, ReadSystemSeen
    <3>3. q \notin Toggle
      BY <2>13, RecordingAssumption
    <3> QED BY <2>0, <2>9, <2>10, <3>2, <3>3
  <2> QED BY <2>8, <2>11, <2>12, <2>13
<1>1. ASSUME RecInv, RecInv', NEW q \in Requests, Shows(q), [RecordingNext]_recVars
      PROVE  /\ request'[q].got.enabled = OnIn(enabled', request[q].on)
             /\ request'[q].got.stereo = OnIn(stereo', request[q].on)
             /\ q \in Toggle => \A k \in 1..Len(request[q].on) :
                  /\ enabled'[request[q].on[k]] = request[q].want.enabled
                  /\ stereo'[request[q].on[k]] = (request[q].want.stereo /\ request[q].on[k] \in ramDisk)
  <2> DEFINE on == request[q].on
             n == request[q].i
  <2>1. /\ request'[q].on = on /\ (q \in Toggle => request'[q].want = request[q].want)
        /\ Busy(q) /\ n \in 1..Len(on) /\ ~(n < Len(on))
    BY <1>0, <1>1
  <2>2. \A m : m = n => SoFar(q, m, m)'
    BY <1>0, <1>1
  <2>3. PICK m : m = n
    OBVIOUS
  <2>4. /\ request'[q].got.enabled <=> \A k \in 1..Len(request'[q].on) : k <= m => enabled'[request'[q].on[k]]
        /\ request'[q].got.stereo <=> \A k \in 1..Len(request'[q].on) : k <= m => stereo'[request'[q].on[k]]
        /\ q \in Toggle => \A k \in 1..Len(request'[q].on) : k <= m =>
             /\ enabled'[request'[q].on[k]] <=> request'[q].want.enabled
             /\ stereo'[request'[q].on[k]] <=> request'[q].want.stereo /\ request'[q].on[k] \in ramDisk'
    <3>1. SoFar(q, m, m)'
      BY <2>2, <2>3
    <3> QED BY <3>1 DEF SoFar, Targets
  <2>5. Len(on) \in Nat /\ \A k \in 1..Len(on) : on[k] \in Server
    BY <1>1, <2>1, UnderWay DEF RecInv, Targets
  <2>6. \A k \in 1..Len(on) : k <= m
    BY <2>1, <2>3, <2>5
  <2>7. ramDisk' = ramDisk
    BY <1>1 DEF RecordingNext, recVars, StartToggle, SetEnabled, SetStereo, SetFails,
         StartLook, ReadBoth, ReadTenant, ReadSystem, ReadFails
  <2>8. /\ enabled' \in [Server -> BOOLEAN] /\ stereo' \in [Server -> BOOLEAN]
        /\ request'[q].got.enabled \in BOOLEAN /\ request'[q].got.stereo \in BOOLEAN
        /\ request[q].want.enabled \in BOOLEAN /\ request[q].want.stereo \in BOOLEAN
    BY <1>1 DEF RecInv, ServerTypes, RequestTypes, Request, Flags
  <2>9. /\ request'[q].got.enabled <=> \A k \in 1..Len(on) : enabled'[on[k]]
        /\ request'[q].got.stereo <=> \A k \in 1..Len(on) : stereo'[on[k]]
    BY <2>1, <2>4, <2>6
  <2>10. ASSUME q \in Toggle, NEW k \in 1..Len(on)
         PROVE  /\ enabled'[on[k]] <=> request[q].want.enabled
                /\ stereo'[on[k]] <=> request[q].want.stereo /\ on[k] \in ramDisk
    BY <2>1, <2>4, <2>6, <2>7, <2>10
  <2>11. ASSUME q \in Toggle, NEW k \in 1..Len(on)
         PROVE  /\ enabled'[on[k]] = request[q].want.enabled
                /\ stereo'[on[k]] = (request[q].want.stereo /\ on[k] \in ramDisk)
    BY <2>5, <2>8, <2>10, <2>11
  <2>12. request'[q].got.enabled = OnIn(enabled', on) /\ request'[q].got.stereo = OnIn(stereo', on)
    BY <2>8, <2>9 DEF OnIn
  <2> QED BY <2>11, <2>12
<1>2. RecInv /\ RecInv' /\ [RecordingNext]_recVars =>
        [\A q \in Toggle \cup Look : Shows(q) =>
           /\ request'[q].got.enabled = OnIn(enabled', request[q].on)
           /\ request'[q].got.stereo = OnIn(stereo', request[q].on)]_recVars
  BY <1>1 DEF Requests
<1>3. RecInv /\ RecInv' /\ [RecordingNext]_recVars =>
        [\A q \in Toggle : Shows(q) =>
           \A i \in 1..Len(request[q].on) :
              LET s == request[q].on[i] IN
              /\ enabled'[s] = request[q].want.enabled
              /\ stereo'[s] = (request[q].want.stereo /\ s \in ramDisk)]_recVars
  BY <1>1 DEF Requests
<1>4. RecInv /\ [RecordingNext]_recVars => RecInv'
  BY NextServerTypes, NextRequestTypes, NextSeenInv, NextPendingInv DEF RecInv
<1>5. RecordingSpec => ShownIsSet
  BY InitRecInv, <1>2, <1>4, PTL DEF RecordingSpec, ShownIsSet
<1>6. RecordingSpec => ToggleReachesAll
  BY InitRecInv, <1>3, <1>4, PTL DEF RecordingSpec, ToggleReachesAll
<1> QED
  BY <1>5, <1>6 DEF AnswersAreTrue

-----------------------------------------------------------------------------
(***************************************************************************)
(* Provisioning and reset.  A job records the numbers not taken one after  *)
(* the other, so every job of an org comes to the same ones, as far as it  *)
(* goes, and PBXware has none past the job that asked for the most.        *)
(***************************************************************************)

ProvisionSpec == ProvisionInit /\ [][ProvisionNext]_provVars

Verdicts == {"created", "own", "reserved", "refused"}
Ext == [org : Orgs, num : Numbers, id : Job \X Nat, secret : Job]

Early == {"system", "package", "tenant", "find", "failed"}
Late == {"first", "last", "stored"}
Removing == {"drop tenant", "wait gone", "drop package", "drop exts", "removed"}

LEMMA CountOf ==
    ASSUME NEW j \in Job
    PROVE  /\ Count[j] \in Nat \ {0} /\ Count[j] <= MaxCount /\ MaxCount \in Nat
           /\ Batch \in Nat \ {0} /\ MaxSkips \in Nat /\ MaxRetries \in Nat
<1>1. Count[j] \in 1..MaxCount /\ MaxCount \in Nat
  BY ProvisionAssumption
<1> QED BY <1>1, ProvisionAssumption

\* f's domain is the jobs: what an EXCEPT of f then does at each is known.
OverJobs(f) == f = [j \in Job |-> f[j]]

ProvTypes ==
    /\ org \in [Job -> Orgs] /\ taken \subseteq 1..(MaxSkips + 1)
    /\ package \in BOOLEAN /\ tenant \in [Orgs -> {"none", "coming", "there", "leaving"}]
    /\ exts \subseteq Ext /\ foreign \subseteq Orgs
    /\ at \in [Job -> Early \cup {"batch", "answer"} \cup Late \cup Removing]
    /\ next \in [Job -> Nat \ {0}] /\ skips \in [Job -> Nat] /\ tries \in [Job -> 0..MaxRetries]
    /\ known \in [Job -> SUBSET Ext] /\ warned \in [Job -> BOOLEAN]
    /\ OverJobs(answer) /\ \A j \in Job : \A n \in DOMAIN answer[j] : answer[j][n] \in Verdicts
    /\ \A j \in Job : /\ IsFiniteSet(known[j])
                      /\ \A e \in known[j] : e.org = org[j]

\* A job has read every result before the next number but those of its last answer:
\* what is neither taken nor still to be read is recorded.
RecordsOf(j) ==
    /\ at[j] \in Early => known[j] = {} /\ next[j] = 1 /\ skips[j] = 0 /\ tries[j] = 0
    /\ at[j] # "answer" => DOMAIN answer[j] = {}
    /\ at[j] \in {"batch", "answer"} \cup Late =>
         /\ \A e \in known[j] : e.num < next[j] /\ e.num \notin DOMAIN answer[j]
         /\ ~BeingReset(org[j]) =>
              \A n \in 1..(next[j] - 1) : n \in Taken(org[j]) \cup DOMAIN answer[j] \cup {e.num : e \in known[j]}
         /\ next[j] = 1 + Cardinality(known[j]) + skips[j] + Cardinality(DOMAIN answer[j])
    /\ Cardinality(known[j]) + Cardinality(DOMAIN answer[j]) <= Count[j]
    /\ at[j] \in Late \cup Removing => Cardinality(known[j]) = Count[j]
    /\ skips[j] <= MaxSkips /\ next[j] <= Count[j] + MaxSkips + 1
    /\ \A e \in known[j] : e.num <= Count[j] + MaxSkips
    /\ \A d, e \in known[j] : d.num = e.num => d = e

RecordsInv == \A j \in Job : RecordsOf(j)

\* What is still to be read is true of PBXware until a job of the org resets.
AnswerOf(j) ==
    \A n \in DOMAIN answer[j] :
        /\ n \in 1..(next[j] - 1)
        /\ answer[j][n] = "reserved" /\ ~BeingReset(org[j]) => n \in Taken(org[j])
        /\ answer[j][n] = "created" /\ ~BeingReset(org[j]) => Made(j, n) \in exts

AnswerInv == \A j \in Job : AnswerOf(j)

\* PBXware has no two extensions with one number, and none that no job of its org,
\* taking its Count of the numbers not taken, would come to.
ExtsInv ==
    /\ \A e \in exts : /\ e.num \notin Taken(e.org)
                       /\ ~BeingReset(e.org) =>
                            \E k \in Job : org[k] = e.org /\ Cardinality((1..e.num) \ Taken(e.org)) <= Count[k]
    /\ \A d, e \in exts : d.org = e.org /\ d.num = e.num => d = e

\* What is recorded stays on PBXware until a job of the org resets.
KeptInv ==
    /\ \A j \in Job : BeingReset(org[j]) \/ known[j] \subseteq exts
    /\ \A o \in Orgs : tenant[o] = "leaving" => BeingReset(o)

\* A job that is done with number n and secrets t does not make that extension again.
Past(j, n, t) ==
    /\ at[j] \notin Early \ {"failed"}
    /\ at[j] = "batch" => n < next[j] \/ (n \in Asked(j) /\ t < tries[j])
    /\ at[j] = "answer" => n < next[j]

PastInv == \A e \in exts \cup UNION {known[j] : j \in Job} : Past(e.id[1], e.num, e.id[2])

\* A reset without a warning has deleted what it has come to.
CleanOf(j) ==
    \/ warned[j]
    \/ /\ at[j] # "wait gone"
       /\ at[j] \in {"drop package", "removed"} => known[j] \cap exts = {}
       /\ at[j] = "drop exts" => \A e \in known[j] \cap exts : e.num >= next[j]

CleanInv == \A j \in Job : CleanOf(j)

ProvIInv == ProvTypes /\ RecordsInv /\ AnswerInv /\ ExtsInv /\ KeptInv /\ PastInv /\ CleanInv

-----------------------------------------------------------------------------
Same(d) ==
    /\ at'[d] = at[d] /\ next'[d] = next[d] /\ skips'[d] = skips[d] /\ tries'[d] = tries[d]
    /\ answer'[d] = answer[d] /\ known'[d] = known[d] /\ warned'[d] = warned[d]

OfJob(j) == (JobStep(j) \/ (StartReset(j) /\ Chosen /\ Changed))

\* A step of a job changes nothing that is another's.
LEMMA OthersSame ==
    ASSUME ProvTypes, NEW j \in Job, OfJob(j), NEW d \in Job \ {j}
    PROVE  Same(d)
<1> USE DEF ProvTypes, OverJobs, Same, Goes, PBXUnchanged, jobVars, pbxVars
<1>1. CASE RaiseSystem(j) BY <1>1 DEF RaiseSystem
<1>2. CASE EnsurePackage(j) BY <1>2 DEF EnsurePackage
<1>3. CASE CreateTenant(j) BY <1>3 DEF CreateTenant
<1>4. CASE FindTenant(j) BY <1>4 DEF FindTenant
<1>5. CASE BatchAnswered(j) BY <1>5 DEF BatchAnswered
<1>6. CASE BatchLost(j) BY <1>6 DEF BatchLost, Fails
<1>7. CASE Probe(j) BY <1>7 DEF Probe
<1>8. CASE Abort(j) BY <1>8 DEF Abort, Fails
<1>9. ASSUME NEW n \in Numbers, ReadResult(j, n) PROVE Same(d)
  BY <1>9 DEF ReadResult
<1>10. ASSUME NEW n \in Numbers, ResultFails(j, n) PROVE Same(d)
  BY <1>10 DEF ResultFails, Fails
<1>11. CASE DropTenant(j) BY <1>11 DEF DropTenant, Warn
<1>12. CASE WaitGone(j) BY <1>12 DEF WaitGone
<1>13. CASE DropPackage(j) BY <1>13 DEF DropPackage, Warn
<1>14. ASSUME NEW e \in known[j], DropExtension(j, e) PROVE Same(d)
  BY <1>14 DEF DropExtension, Dropped, Warn
<1>15. CASE StartReset(j) BY <1>15 DEF StartReset
<1> QED
  BY <1>1, <1>2, <1>3, <1>4, <1>5, <1>6, <1>7, <1>8, <1>9, <1>10, <1>11, <1>12, <1>13, <1>14, <1>15
  DEF OfJob, JobStep, Provisions, Resets

\* It leaves a job's variables functions of the jobs.
AllOverJobs ==
    /\ OverJobs(at) /\ OverJobs(next) /\ OverJobs(skips) /\ OverJobs(tries)
    /\ OverJobs(answer) /\ OverJobs(known) /\ OverJobs(warned)

LEMMA StillOverJobs ==
    ASSUME ProvTypes, NEW j \in Job, OfJob(j)
    PROVE  AllOverJobs'
<1> USE DEF ProvTypes, OverJobs, AllOverJobs, Goes, PBXUnchanged, jobVars, pbxVars
<1>1. CASE RaiseSystem(j) BY <1>1 DEF RaiseSystem
<1>2. CASE EnsurePackage(j) BY <1>2 DEF EnsurePackage
<1>3. CASE CreateTenant(j) BY <1>3 DEF CreateTenant
<1>4. CASE FindTenant(j) BY <1>4 DEF FindTenant
<1>5. CASE BatchAnswered(j) BY <1>5 DEF BatchAnswered
<1>6. CASE BatchLost(j) BY <1>6 DEF BatchLost, Fails
<1>7. CASE Probe(j) BY <1>7 DEF Probe
<1>8. CASE Abort(j) BY <1>8 DEF Abort, Fails
<1>9. ASSUME NEW n \in Numbers, ReadResult(j, n) PROVE AllOverJobs'
  BY <1>9 DEF ReadResult
<1>10. ASSUME NEW n \in Numbers, ResultFails(j, n) PROVE AllOverJobs'
  BY <1>10 DEF ResultFails, Fails
<1>11. CASE DropTenant(j) BY <1>11 DEF DropTenant, Warn
<1>12. CASE WaitGone(j) BY <1>12 DEF WaitGone
<1>13. CASE DropPackage(j) BY <1>13 DEF DropPackage, Warn
<1>14. ASSUME NEW e \in known[j], DropExtension(j, e) PROVE AllOverJobs'
  BY <1>14 DEF DropExtension, Dropped, Warn
<1>15. CASE StartReset(j) BY <1>15 DEF StartReset
<1> QED
  BY <1>1, <1>2, <1>3, <1>4, <1>5, <1>6, <1>7, <1>8, <1>9, <1>10, <1>11, <1>12, <1>13, <1>14, <1>15
  DEF OfJob, JobStep, Provisions, Resets

(* What a step does to its own job, in the kinds the proofs tell apart. *)

SameLists(j) == next'[j] = next[j] /\ answer'[j] = answer[j] /\ known'[j] = known[j]
SameCounts(j) == skips'[j] = skips[j] /\ tries'[j] = tries[j]

Walks(j) ==
    /\ at[j] \in Early \ {"failed"} /\ at'[j] \in Early \cup {"batch"}
    /\ SameLists(j) /\ SameCounts(j) /\ warned'[j] = warned[j] /\ exts' = exts

Makes(j, M) == exts' = exts \cup {Made(j, n) : n \in M}

Asks(j) ==
    /\ at[j] = "batch" /\ at'[j] = "answer"
    /\ next'[j] = next[j] + BatchSize(j) /\ known'[j] = known[j]
    /\ SameCounts(j) /\ warned'[j] = warned[j]
    /\ \E M \in SUBSET Free(org[j], Asked(j)) :
         /\ Makes(j, M) /\ DOMAIN answer'[j] = Asked(j)
         /\ \A n \in Asked(j) :
              /\ answer'[j][n] \in Verdicts
              /\ answer'[j][n] = "created" => n \in M
              /\ answer'[j][n] = "reserved" => n \in Taken(org[j])

Cleared(j) ==
    /\ at'[j] = "failed" /\ next'[j] = 1 /\ skips'[j] = 0 /\ tries'[j] = 0
    /\ DOMAIN answer'[j] = {} /\ known'[j] = {} /\ warned'[j] = warned[j]

Loses(j) ==
    /\ at[j] = "batch"
    /\ \E M \in SUBSET Free(org[j], Asked(j)) : Makes(j, M)
    /\ \/ Cleared(j)
       \/ /\ tries[j] < MaxRetries /\ tries'[j] = tries[j] + 1 /\ skips'[j] = skips[j]
          /\ at'[j] = at[j] /\ SameLists(j) /\ warned'[j] = warned[j]

GivesUp(j) ==
    /\ at[j] \in {"system", "batch", "answer", "first", "last"} /\ Cleared(j)
    /\ exts' = exts

Takes(j, n) ==
    \/ /\ answer[j][n] = "reserved" /\ skips[j] < MaxSkips /\ skips'[j] = skips[j] + 1
       /\ known'[j] = known[j]
    \/ /\ answer[j][n] = "created" /\ skips'[j] = skips[j]
       /\ known'[j] = known[j] \cup {Made(j, n)}
    \/ /\ answer[j][n] = "own" /\ skips'[j] = skips[j]
       /\ \E e \in exts : e.org = org[j] /\ e.num = n /\ known'[j] = known[j] \cup {e}

Reads(j, n) ==
    /\ at[j] = "answer" /\ n \in DOMAIN answer[j]
    /\ Takes(j, n)
    /\ next'[j] = next[j] /\ warned'[j] = warned[j] /\ exts' = exts
    /\ DOMAIN answer'[j] = DOMAIN answer[j] \ {n}
    /\ \A k \in DOMAIN answer'[j] : answer'[j][k] = answer[j][k]
    /\ \/ at'[j] = "answer" /\ tries'[j] = tries[j]
       \/ /\ DOMAIN answer'[j] = {} /\ tries'[j] = 0
          /\ at'[j] = AfterBatch(j, known'[j])

Probes(j) ==
    /\ at[j] \in {"first", "last"}
    /\ at'[j] = "last" \/ (at'[j] = "stored" /\ ~reloading)
    /\ SameLists(j) /\ SameCounts(j) /\ warned'[j] = warned[j] /\ exts' = exts

StartsReset(j) ==
    /\ at[j] = "stored" /\ at'[j] \in {"drop tenant", "drop exts"}
    /\ next'[j] = First(j).num /\ known'[j] = known[j] /\ answer'[j] = answer[j]
    /\ SameCounts(j) /\ warned'[j] = warned[j] /\ exts' = exts

Drops(j) ==
    /\ SameLists(j) /\ SameCounts(j)
    /\ \/ /\ at[j] = "drop tenant" /\ at'[j] = "drop package" /\ exts' = exts \ In(org[j])
          /\ warned'[j] = warned[j]
       \/ at[j] = "drop tenant" /\ at'[j] = "wait gone" /\ warned'[j] = TRUE /\ exts' = exts
       \/ at[j] = "wait gone" /\ at'[j] = "drop package" /\ warned'[j] = warned[j] /\ exts' = exts
       \/ /\ at[j] = "drop package" /\ at'[j] = "removed" /\ warned'[j] \in {warned[j], TRUE}
          /\ exts' = exts

Deletes(j, e) ==
    /\ at[j] = "drop exts" /\ e \in known[j] /\ e.num = next[j]
    /\ \/ exts' = exts \ {e} /\ warned'[j] = warned[j]
       \/ exts' \in {exts, exts \ {e}} /\ warned'[j] = TRUE
    /\ known'[j] = known[j] /\ answer'[j] = answer[j] /\ SameCounts(j)
    /\ LET rest == NumbersAfter(j, e.num) IN
       \/ rest = {} /\ at'[j] = "removed" /\ next'[j] = next[j]
       \/ rest # {} /\ at'[j] = at[j] /\ next'[j] = CHOOSE k \in rest : \A m \in rest : k <= m

Kinds(j) ==
    \/ Walks(j) \/ Asks(j) \/ Loses(j) \/ GivesUp(j) \/ Probes(j) \/ StartsReset(j) \/ Drops(j)
    \/ \E n \in Numbers : Reads(j, n)
    \/ \E e \in known[j] : Deletes(j, e)

\* Each step of a job is of one of the kinds.
LEMMA StepKinds ==
    ASSUME ProvTypes, ExtsInv, NEW j \in Job, OfJob(j)
    PROVE  Kinds(j)
<1> USE DEF ProvTypes, OverJobs, Goes, PBXUnchanged, jobVars, pbxVars, SameLists, SameCounts
<1>1. CASE RaiseSystem(j)
  <2> Walks(j) BY <1>1 DEF RaiseSystem, Walks, Early
  <2> QED BY DEF Kinds
<1>2. CASE EnsurePackage(j)
  <2> Walks(j) BY <1>2 DEF EnsurePackage, Walks, Early
  <2> QED BY DEF Kinds
<1>3. CASE CreateTenant(j)
  <2> Walks(j) BY <1>3 DEF CreateTenant, Walks, Early
  <2> QED BY DEF Kinds
<1>4. CASE FindTenant(j)
  <2> Walks(j) BY <1>4 DEF FindTenant, Walks, Early
  <2> QED BY DEF Kinds
<1>5. CASE BatchAnswered(j)
  <2>1. PICK denied \in {{}} \cup {{n} : n \in Free(org[j], Asked(j))} :
         /\ exts' = exts \cup {Made(j, n) : n \in Free(org[j], Asked(j)) \ denied}
         /\ answer' = [answer EXCEPT ![j] = [n \in Asked(j) |-> Verdict(org[j], n, denied)]]
    BY <1>5 DEF BatchAnswered
  <2> DEFINE M == Free(org[j], Asked(j)) \ denied
  <2>2. answer'[j] = [n \in Asked(j) |-> Verdict(org[j], n, denied)]
    BY <2>1
  <2>3. DOMAIN answer'[j] = Asked(j)
    BY <2>2
  <2>4. ASSUME NEW n \in Asked(j)
        PROVE  /\ answer'[j][n] \in Verdicts
               /\ answer'[j][n] = "created" => n \in M
               /\ answer'[j][n] = "reserved" => n \in Taken(org[j])
    <3>1. answer'[j][n] = Verdict(org[j], n, denied)
      BY <2>2
    <3>2. n \in Free(org[j], {n}) <=> n \in Free(org[j], Asked(j))
      BY DEF Free
    <3> QED BY <3>1, <3>2 DEF Verdict, Verdicts, Free
  <2>5. M \in SUBSET Free(org[j], Asked(j)) /\ Makes(j, M)
    BY <2>1 DEF Makes
  <2>6. at[j] = "batch" /\ at'[j] = "answer" /\ next'[j] = next[j] + BatchSize(j)
        /\ known'[j] = known[j] /\ SameCounts(j) /\ warned'[j] = warned[j]
    BY <1>5 DEF BatchAnswered
  <2> HIDE DEF M
  <2>7. Asks(j)
    BY <2>3, <2>4, <2>5, <2>6 DEF Asks
  <2> QED BY <2>7 DEF Kinds
<1>6. CASE BatchLost(j)
  <2>1. PICK end \in {n \in Asked(j) : Listed(org[j])} \cup {0} :
         exts' = exts \cup {Made(j, n) : n \in {m \in Free(org[j], Asked(j)) : m <= end}}
    BY <1>6 DEF BatchLost
  <2>2. \E M \in SUBSET Free(org[j], Asked(j)) : Makes(j, M)
    <3> DEFINE M == {m \in Free(org[j], Asked(j)) : m <= end}
    <3>1. M \in SUBSET Free(org[j], Asked(j))
      OBVIOUS
    <3>2. Makes(j, M)
      BY <2>1 DEF Makes
    <3> HIDE DEF M
    <3> QED BY <3>1, <3>2
  <2>3. \/ Cleared(j)
        \/ /\ tries[j] < MaxRetries /\ tries'[j] = tries[j] + 1 /\ skips'[j] = skips[j]
           /\ at'[j] = at[j] /\ SameLists(j) /\ warned'[j] = warned[j]
    BY <1>6 DEF BatchLost, Cleared, Fails
  <2>4. Loses(j)
    BY <1>6, <2>2, <2>3 DEF Loses, BatchLost
  <2> QED BY <2>4 DEF Kinds
<1>7. CASE Probe(j) /\ Changed
  <2>1. exts' = exts /\ ((at[j] = "last" /\ at'[j] = "stored") => ~reloading)
    BY <1>7 DEF Probe, Registers
  <2>2. Probes(j)
    BY <1>7, <2>1 DEF Probe, Probes
  <2> QED BY <2>2 DEF Kinds
<1>8. CASE Abort(j)
  <2> GivesUp(j) BY <1>8 DEF Abort, Fails, GivesUp, Cleared
  <2> QED BY DEF Kinds
<1>9. ASSUME NEW n \in Numbers, ReadResult(j, n) PROVE Kinds(j)
  <2> DEFINE left == [k \in DOMAIN answer[j] \ {n} |-> answer[j][k]]
             got == known[j] \cup Recorded(j, n, answer[j][n])
  <2>1. /\ at[j] = "answer" /\ n \in DOMAIN answer[j] /\ answer[j][n] # "refused"
        /\ ~(answer[j][n] = "reserved" /\ TooManySkips(j))
        /\ answer[j][n] = "own" => Recorded(j, n, answer[j][n]) # {}
        /\ known'[j] = got /\ answer'[j] = left
        /\ skips'[j] = IF answer[j][n] = "reserved" THEN skips[j] + 1 ELSE skips[j]
        /\ next'[j] = next[j] /\ warned'[j] = warned[j] /\ exts' = exts
    BY <1>9 DEF ReadResult, IsNext
  <2>2. IF DOMAIN left # {} THEN at'[j] = at[j] /\ tries'[j] = tries[j]
        ELSE tries'[j] = 0 /\ at'[j] = AfterBatch(j, got)
    BY <1>9 DEF ReadResult, IsNext
  <2>3. DOMAIN answer'[j] = DOMAIN answer[j] \ {n} /\ DOMAIN left = DOMAIN answer'[j]
        /\ \A k \in DOMAIN answer'[j] : answer'[j][k] = answer[j][k]
    BY <2>1
  <2> HIDE DEF left
  <2>4. Takes(j, n)
    <3>1. CASE answer[j][n] = "reserved"
      <4>1. known'[j] = known[j]
        BY <2>1, <3>1 DEF Recorded
      <4>2. skips[j] < MaxSkips /\ skips'[j] = skips[j] + 1
        BY <2>1, <3>1, ProvisionAssumption DEF TooManySkips
      <4> QED BY <3>1, <4>1, <4>2 DEF Takes
    <3>2. CASE answer[j][n] = "created"
      BY <2>1, <3>2 DEF Takes, Recorded
    <3>3. CASE answer[j][n] = "own"
      <4>1. PICK e \in exts : e.org = org[j] /\ e.num = n
        BY <2>1, <3>3 DEF Recorded, In
      <4>2. Recorded(j, n, answer[j][n]) = {e}
        BY <4>1, <3>3 DEF Recorded, In, ExtsInv
      <4> QED BY <2>1, <3>3, <4>1, <4>2 DEF Takes
    <3>4. answer[j][n] \in Verdicts
      BY <2>1
    <3> QED BY <2>1, <3>1, <3>2, <3>3, <3>4 DEF Verdicts
  <2>5. Reads(j, n)
    BY <2>1, <2>2, <2>3, <2>4 DEF Reads
  <2> QED BY <2>5 DEF Kinds
<1>10. ASSUME NEW n \in Numbers, ResultFails(j, n) PROVE Kinds(j)
  <2> GivesUp(j) BY <1>10 DEF ResultFails, Fails, GivesUp, Cleared, IsNext
  <2> QED BY DEF Kinds
<1>11. CASE DropTenant(j)
  <2> Drops(j) BY <1>11 DEF DropTenant, Warn, WithoutTenant, Drops
  <2> QED BY DEF Kinds
<1>12. CASE WaitGone(j)
  <2> Drops(j) BY <1>12 DEF WaitGone, Drops
  <2> QED BY DEF Kinds
<1>13. CASE DropPackage(j)
  <2> Drops(j) BY <1>13 DEF DropPackage, Warn, Drops
  <2> QED BY DEF Kinds
<1>14. ASSUME NEW e \in known[j], DropExtension(j, e) PROVE Kinds(j)
  <2> Deletes(j, e) BY <1>14 DEF DropExtension, Dropped, Warn, Deletes, IsNextToDrop
  <2> QED BY DEF Kinds
<1>15. CASE StartReset(j)
  <2> StartsReset(j) BY <1>15 DEF StartReset, StartsReset
  <2> QED BY DEF Kinds
<1> QED
  BY <1>1, <1>2, <1>3, <1>4, <1>5, <1>6, <1>7, <1>8, <1>9, <1>10, <1>11, <1>12, <1>13, <1>14, <1>15
  DEF OfJob, JobStep, Provisions, Resets

\* A batch asks for no number beyond what its job may come to.
LEMMA AskedFacts ==
    ASSUME ProvTypes, RecordsInv, NEW j \in Job, at[j] = "batch"
    PROVE  /\ BatchSize(j) \in Nat /\ Cardinality(known[j]) \in Nat /\ next[j] \in Nat \ {0}
           /\ Cardinality(known[j]) + BatchSize(j) <= Count[j]
           /\ next[j] = 1 + Cardinality(known[j]) + skips[j]
           /\ next[j] + BatchSize(j) <= Count[j] + MaxSkips + 1
           /\ Asked(j) = next[j]..(next[j] + BatchSize(j) - 1)
           /\ Asked(j) \subseteq Numbers
           /\ IsFiniteSet(Asked(j)) /\ Cardinality(Asked(j)) = BatchSize(j)
<1>1. /\ IsFiniteSet(known[j]) /\ next[j] \in Nat \ {0} /\ DOMAIN answer[j] = {}
      /\ next[j] = 1 + Cardinality(known[j]) + skips[j] + Cardinality(DOMAIN answer[j])
      /\ Cardinality(known[j]) + Cardinality(DOMAIN answer[j]) <= Count[j]
      /\ skips[j] \in Nat /\ skips[j] <= MaxSkips
  BY DEF ProvTypes, RecordsInv, RecordsOf
<1>2. Cardinality(DOMAIN answer[j]) = 0 /\ Cardinality(known[j]) \in Nat
  BY <1>1, FS_EmptySet, FS_CardinalityType
<1>3. PICK c \in Nat : c = Cardinality(known[j])
  BY <1>2
<1>4. Count[j] \in Nat \ {0} /\ Batch \in Nat \ {0} /\ MaxSkips \in Nat
  BY CountOf
<1>5. BatchSize(j) = IF Count[j] - c < Batch THEN Count[j] - c ELSE Batch
  BY <1>3 DEF BatchSize, Least
<1>6. c <= Count[j] /\ next[j] = 1 + c + skips[j]
  BY <1>1, <1>2, <1>3, <1>4
<1>7. BatchSize(j) \in Nat /\ c + BatchSize(j) <= Count[j]
  BY ONLY <1>3, <1>4, <1>5, <1>6
<1>8. PICK b \in Nat : b = BatchSize(j)
  BY <1>7
<1>9. next[j] + b <= Count[j] + MaxSkips + 1 /\ c + b <= Count[j]
  BY ONLY <1>1, <1>3, <1>4, <1>6, <1>7, <1>8
<1>10. Asked(j) = next[j]..(next[j] + b - 1)
  BY <1>8 DEF Asked
<1>11. Asked(j) \subseteq Numbers
  <2>1. Count[j] <= MaxCount /\ MaxCount \in Nat
    BY CountOf
  <2> PICK m \in Nat : m = Count[j]
    BY <1>4
  <2>2. next[j] + b - 1 <= MaxCount + MaxSkips + Batch
    BY <1>1, <1>4, <1>8, <1>9, <2>1
  <2> QED BY <1>1, <1>4, <1>8, <1>10, <2>1, <2>2 DEF Numbers
<1>12. IsFiniteSet(Asked(j)) /\ Cardinality(Asked(j)) = b
  <2>1. next[j] \in Int /\ next[j] + b - 1 \in Int
    BY <1>1, <1>8
  <2>2. /\ IsFiniteSet(next[j]..(next[j] + b - 1))
        /\ Cardinality(next[j]..(next[j] + b - 1)) =
             IF next[j] > next[j] + b - 1 THEN 0 ELSE (next[j] + b - 1) - next[j] + 1
    BY ONLY <2>1, FS_Interval
  <2> QED BY <1>1, <1>8, <1>10, <2>2
<1> QED BY <1>1, <1>3, <1>6, <1>8, <1>9, <1>10, <1>11, <1>12

\* What a batch makes is new to PBXware and to every job.
LEMMA MadeIsNew ==
    ASSUME ProvTypes, RecordsInv, NEW j \in Job, at[j] = "batch", NEW n \in Free(org[j], Asked(j))
    PROVE  /\ Made(j, n) \in Ext /\ n \in Asked(j) /\ n \notin Taken(org[j])
           /\ Made(j, n).org = org[j] /\ Made(j, n).num = n
           /\ Made(j, n).id = <<j, tries[j]>> /\ Made(j, n).secret = j
           /\ \A e \in exts : e.org = org[j] => e.num # n
<1>1. n \in Asked(j) /\ n \notin Taken(org[j]) /\ n \in Numbers
  BY AskedFacts DEF Free
<1>2. org[j] \in Orgs /\ tries[j] \in Nat
  BY ProvisionAssumption DEF ProvTypes
<1> QED BY <1>1, <1>2 DEF Made, Ext, Free, In

\* What a step does to PBXware.
LEMMA NextPBX ==
    ASSUME ProvTypes, NEW j \in Job, OfJob(j)
    PROVE  /\ org' = org /\ taken' = taken /\ package' \in BOOLEAN
           /\ tenant' \in [Orgs -> {"none", "coming", "there", "leaving"}]
           /\ \A o \in Orgs : tenant'[o] = "leaving" =>
                tenant[o] = "leaving" \/ (o = org[j] /\ at'[j] = "wait gone")
           /\ foreign' = foreign \/ (at[j] = "drop tenant" /\ foreign' = foreign \ {org[j]})
           /\ \A o : ~BeingReset(o)' => Taken(o)' = Taken(o)
<1> USE DEF ProvTypes, Goes, PBXUnchanged, pbxVars
<1>0. org' = org /\ taken' = taken
  BY DEF OfJob, JobStep, Chosen
<1> DEFINE Claim == /\ package' \in BOOLEAN
                    /\ tenant' \in [Orgs -> {"none", "coming", "there", "leaving"}]
                    /\ \A o \in Orgs : tenant'[o] = "leaving" =>
                         tenant[o] = "leaving" \/ (o = org[j] /\ at'[j] = "wait gone")
                    /\ \/ foreign' = foreign
                       \/ at[j] = "drop tenant" /\ at'[j] = "drop package" /\ foreign' = foreign \ {org[j]}
<1>1. ASSUME RaiseSystem(j) PROVE Claim BY <1>1 DEF RaiseSystem
<1>2. ASSUME EnsurePackage(j) PROVE Claim BY <1>2 DEF EnsurePackage
<1>3. ASSUME CreateTenant(j) PROVE Claim BY <1>3 DEF CreateTenant
<1>4. ASSUME FindTenant(j) PROVE Claim BY <1>4 DEF FindTenant
<1>5. ASSUME BatchAnswered(j) PROVE Claim BY <1>5 DEF BatchAnswered
<1>6. ASSUME BatchLost(j) PROVE Claim BY <1>6 DEF BatchLost
<1>7. ASSUME Probe(j) PROVE Claim BY <1>7 DEF Probe
<1>8. ASSUME Abort(j) PROVE Claim BY <1>8 DEF Abort
<1>9. ASSUME NEW n \in Numbers, ReadResult(j, n) PROVE Claim
  BY <1>9 DEF ReadResult
<1>10. ASSUME NEW n \in Numbers, ResultFails(j, n) PROVE Claim
  BY <1>10 DEF ResultFails
<1>11. ASSUME DropTenant(j) PROVE Claim BY <1>11 DEF DropTenant, WithoutTenant
<1>12. ASSUME WaitGone(j) PROVE Claim BY <1>12 DEF WaitGone
<1>13. ASSUME DropPackage(j) PROVE Claim BY <1>13 DEF DropPackage
<1>14. ASSUME NEW e \in known[j], DropExtension(j, e) PROVE Claim
  BY <1>14 DEF DropExtension, Dropped
<1>15. ASSUME StartReset(j) PROVE Claim BY <1>15 DEF StartReset
<1> HIDE DEF ProvTypes
<1>16. Claim
  BY <1>0, <1>1, <1>2, <1>3, <1>4, <1>5, <1>6, <1>7, <1>8, <1>9, <1>10, <1>11, <1>12, <1>13, <1>14, <1>15
  DEF OfJob, JobStep, Provisions, Resets
<1>17. \A o : ~BeingReset(o)' => Taken(o)' = Taken(o)
  BY <1>0, <1>16 DEF Taken, BeingReset, Resetting
<1> QED BY <1>0, <1>16, <1>17

\* A set of naturals has a least member, which CHOOSE finds.
LEMMA LeastOf ==
    ASSUME NEW S \in SUBSET Nat, S # {}
    PROVE  /\ (CHOOSE k \in S : \A m \in S : k <= m) \in S
           /\ \A m \in S : (CHOOSE k \in S : \A i \in S : k <= i) <= m
<1>1. IsWellFoundedOn(OpToRel(<, Nat), Nat)
  BY NatLessThanWellFounded
<1>2. PICK i \in S : \A j \in S : ~ (<<j, i>> \in OpToRel(<, Nat))
  BY <1>1, WFMin
<1>3. ASSUME NEW j \in S
      PROVE  i <= j
  <2>1. <<j, i>> \in Nat \X Nat /\ <<j, i>>[1] = j /\ <<j, i>>[2] = i
    OBVIOUS
  <2>2. ~(j < i)
    BY <1>2, <2>1 DEF OpToRel
  <2> QED BY <2>2
<1> QED BY <1>3

LEMMA FirstIsLeast ==
    ASSUME ProvTypes, NEW j \in Job, known[j] # {}
    PROVE  First(j) \in known[j] /\ \A e \in known[j] : First(j).num <= e.num
<1> DEFINE S == {e.num : e \in known[j]}
<1>1. S \in SUBSET Nat /\ S # {}
  BY DEF ProvTypes, Ext, Numbers
<1>2. PICK k \in S : \A m \in S : k <= m
  <2> HIDE DEF S
  <2> QED BY <1>1, LeastOf
<1>3. PICK e \in known[j] : e.num = k
  BY <1>2
<1>4. \A f \in known[j] : e.num <= f.num
  BY <1>2, <1>3
<1> QED BY <1>3, <1>4 DEF First

LEMMA KnownCount ==
    ASSUME ProvTypes, RecordsInv, NEW j \in Job, at[j] \in Late \cup Removing
    PROVE  known[j] # {}
<1>1. Cardinality(known[j]) = Count[j]
  BY DEF RecordsInv, RecordsOf
<1> QED BY <1>1, FS_EmptySet, CountOf

\* The next extension to delete is one that is recorded.
LEMMA NextToDelete ==
    ASSUME ProvTypes, NEW j \in Job, NEW e \in known[j], NumbersAfter(j, e.num) # {}
    PROVE  LET rest == NumbersAfter(j, e.num)
               k == CHOOSE i \in rest : \A m \in rest : i <= m
           IN  /\ k \in Nat \ {0} /\ (\E f \in known[j] : f.num = k)
               /\ \A f \in known[j] : f.num > e.num => k <= f.num
<1> DEFINE rest == NumbersAfter(j, e.num)
           k == CHOOSE i \in rest : \A m \in rest : i <= m
<1>1. rest \in SUBSET Nat /\ rest \subseteq Nat \ {0} /\ rest # {}
  BY DEF NumbersAfter, Numbers
<1>2. k \in rest /\ \A m \in rest : k <= m
  <2> HIDE DEF rest
  <2> QED BY <1>1, LeastOf
<1>3. \A f \in known[j] : f.num > e.num => f.num \in rest
  BY DEF NumbersAfter, ProvTypes, Ext
<1>4. \E f \in known[j] : f.num = k
  BY <1>2 DEF NumbersAfter
<1> QED BY <1>1, <1>2, <1>3, <1>4

-----------------------------------------------------------------------------
(* Each part of the invariant is kept by each kind of step. *)

LEMMA NextTypes ==
    ASSUME ProvTypes, RecordsInv, ExtsInv, NEW j \in Job, OfJob(j)
    PROVE  ProvTypes'
<1>1. Kinds(j) /\ (\A d \in Job \ {j} : Same(d)) /\ AllOverJobs'
  BY StepKinds, OthersSame, StillOverJobs
<1>2. /\ org' = org /\ taken' = taken /\ package' \in BOOLEAN
      /\ tenant' \in [Orgs -> {"none", "coming", "there", "leaving"}] /\ foreign' \subseteq Orgs
  BY NextPBX DEF ProvTypes
<1> DEFINE Fits == /\ at'[j] \in Early \cup {"batch", "answer"} \cup Late \cup Removing
                   /\ next'[j] \in Nat \ {0} /\ skips'[j] \in Nat /\ tries'[j] \in 0..MaxRetries
                   /\ known'[j] \in SUBSET Ext /\ warned'[j] \in BOOLEAN
                   /\ \A n \in DOMAIN answer'[j] : answer'[j][n] \in Verdicts
                   /\ IsFiniteSet(known'[j]) /\ \A e \in known'[j] : e.org = org[j]
                   /\ exts' \subseteq Ext
<1>3. Fits
  <2>1. /\ at[j] \in Early \cup {"batch", "answer"} \cup Late \cup Removing
        /\ next[j] \in Nat \ {0} /\ skips[j] \in Nat /\ tries[j] \in 0..MaxRetries
        /\ known[j] \in SUBSET Ext /\ warned[j] \in BOOLEAN
        /\ \A n \in DOMAIN answer[j] : answer[j][n] \in Verdicts
        /\ IsFiniteSet(known[j]) /\ \A e \in known[j] : e.org = org[j]
        /\ exts \subseteq Ext
    BY DEF ProvTypes
  <2>2. CASE Walks(j)
    BY <2>1, <2>2 DEF Walks, SameLists, SameCounts
  <2>3. ASSUME at[j] = "batch", NEW M \in SUBSET Free(org[j], Asked(j)), Makes(j, M)
        PROVE  exts' \subseteq Ext
    <3>1. \A n \in M : Made(j, n) \in Ext
      BY <2>3, MadeIsNew
    <3> QED BY <2>1, <2>3, <3>1 DEF Makes
  <2>4. CASE Asks(j)
    <3>1. exts' \subseteq Ext
      BY <2>3, <2>4 DEF Asks
    <3>2. BatchSize(j) \in Nat
      BY <2>4, AskedFacts DEF Asks
    <3>3. \A n \in DOMAIN answer'[j] : answer'[j][n] \in Verdicts
      BY <2>4 DEF Asks
    <3> QED BY <2>1, <2>4, <3>1, <3>2, <3>3 DEF Asks, SameCounts
  <2>5. Cleared(j) /\ exts' \subseteq Ext => Fits
    BY <2>1, FS_EmptySet, ProvisionAssumption DEF Cleared, Early
  <2>6. CASE Loses(j)
    <3>1. exts' \subseteq Ext
      BY <2>3, <2>6 DEF Loses
    <3>2. CASE ~Cleared(j)
      BY <2>1, <2>6, <3>1, <3>2, ProvisionAssumption DEF Loses, SameLists
    <3> QED BY <2>5, <3>1, <3>2
  <2>7. CASE GivesUp(j)
    BY <2>1, <2>5, <2>7 DEF GivesUp
  <2>8. CASE Probes(j)
    BY <2>1, <2>8 DEF Probes, SameLists, SameCounts, Late
  <2>9. CASE StartsReset(j)
    <3>1. First(j) \in known[j]
      BY <2>9, KnownCount, FirstIsLeast DEF StartsReset, Late
    <3>2. First(j).num \in Nat \ {0}
      BY <2>1, <3>1 DEF Ext, Numbers
    <3> QED BY <2>1, <2>9, <3>2 DEF StartsReset, SameCounts, Removing
  <2>10. CASE Drops(j)
    BY <2>1, <2>10 DEF Drops, SameLists, SameCounts, Removing
  <2>11. ASSUME NEW n \in Numbers, Reads(j, n) PROVE Fits
    <3>1. IsFiniteSet(known'[j]) /\ known'[j] \subseteq Ext /\ \A e \in known'[j] : e.org = org[j]
      <4>1. ASSUME NEW e \in Ext, e.org = org[j], known'[j] = known[j] \cup {e}
            PROVE  IsFiniteSet(known'[j]) /\ known'[j] \subseteq Ext /\ \A f \in known'[j] : f.org = org[j]
        BY <2>1, <4>1, FS_AddElement
      <4>2. Made(j, n) \in Ext /\ Made(j, n).org = org[j]
        BY <2>1, ProvisionAssumption DEF Made, Ext, ProvTypes
      <4>3. CASE known'[j] = known[j]
        BY <2>1, <4>3
      <4> QED BY <2>1, <2>11, <4>1, <4>2, <4>3 DEF Reads, Takes
    <3>2. skips'[j] \in Nat
      BY <2>1, <2>11 DEF Reads, Takes
    <3>3. at'[j] \in {"answer", "batch", "first"} /\ tries'[j] \in 0..MaxRetries
      BY <2>1, <2>11, ProvisionAssumption DEF Reads, AfterBatch
    <3>4. \A k \in DOMAIN answer'[j] : answer'[j][k] \in Verdicts
      BY <2>1, <2>11 DEF Reads
    <3> QED BY <2>1, <2>11, <3>1, <3>2, <3>3, <3>4 DEF Reads, Late
  <2>12. ASSUME NEW e \in known[j], Deletes(j, e) PROVE Fits
    <3>1. next'[j] \in Nat \ {0}
      BY <2>1, <2>12, NextToDelete DEF Deletes
    <3> QED BY <2>1, <2>12, <3>1 DEF Deletes, SameCounts, Removing
  <2> HIDE DEF Fits
  <2> QED BY <1>1, <2>2, <2>4, <2>6, <2>7, <2>8, <2>9, <2>10, <2>11, <2>12 DEF Kinds
<1>4. ASSUME NEW d \in Job
      PROVE  /\ at'[d] \in Early \cup {"batch", "answer"} \cup Late \cup Removing
             /\ next'[d] \in Nat \ {0} /\ skips'[d] \in Nat /\ tries'[d] \in 0..MaxRetries
             /\ known'[d] \in SUBSET Ext /\ warned'[d] \in BOOLEAN
             /\ \A n \in DOMAIN answer'[d] : answer'[d][n] \in Verdicts
             /\ IsFiniteSet(known'[d]) /\ \A e \in known'[d] : e.org = org[d]
  <2>1. CASE d = j BY <1>3, <2>1
  <2>2. CASE d # j BY <1>1, <2>2 DEF Same, ProvTypes
  <2> QED BY <2>1, <2>2
<1> QED
  <2>1. at' \in [Job -> Early \cup {"batch", "answer"} \cup Late \cup Removing]
    BY <1>1, <1>4 DEF AllOverJobs, OverJobs
  <2>2. next' \in [Job -> Nat \ {0}] /\ skips' \in [Job -> Nat] /\ tries' \in [Job -> 0..MaxRetries]
    BY <1>1, <1>4 DEF AllOverJobs, OverJobs
  <2>3. known' \in [Job -> SUBSET Ext] /\ warned' \in [Job -> BOOLEAN]
    BY <1>1, <1>4 DEF AllOverJobs, OverJobs
  <2>4. org' \in [Job -> Orgs] /\ taken' \subseteq 1..(MaxSkips + 1)
    BY <1>2 DEF ProvTypes
  <2> QED BY <1>1, <1>2, <1>3, <1>4, <2>1, <2>2, <2>3, <2>4 DEF ProvTypes, AllOverJobs

LEMMA AnswerCounts ==
    ASSUME ProvTypes, AnswerInv, NEW j \in Job
    PROVE  /\ IsFiniteSet(DOMAIN answer[j]) /\ Cardinality(DOMAIN answer[j]) \in Nat
           /\ IsFiniteSet(known[j]) /\ Cardinality(known[j]) \in Nat
<1>1. DOMAIN answer[j] \subseteq 1..(next[j] - 1)
  BY DEF AnswerInv, AnswerOf
<1>2. next[j] - 1 \in Int /\ IsFiniteSet(known[j])
  BY DEF ProvTypes
<1>3. IsFiniteSet(1..(next[j] - 1))
  BY <1>2, FS_Interval
<1>4. IsFiniteSet(DOMAIN answer[j])
  BY <1>1, <1>3, FS_Subset
<1> QED BY <1>2, <1>4, FS_CardinalityType

LEMMA ExtsKinds ==
    ASSUME ProvTypes, ExtsInv, NEW j \in Job, OfJob(j)
    PROVE  /\ Resetting(j) => Resetting(j)'
           /\ \/ at[j] = "batch" /\ \E M \in SUBSET Free(org[j], Asked(j)) : Makes(j, M)
              \/ exts' = exts
              \/ /\ Resetting(j) /\ exts' \subseteq exts
                 /\ \A e \in exts : e.org # org[j] => e \in exts'
<1>1. Kinds(j)
  BY StepKinds
<1>2. /\ at[j] \in Early \cup {"batch", "answer"} \cup Late \cup Removing
      /\ \A e \in known[j] : e.org = org[j]
  BY DEF ProvTypes
<1>3. CASE Walks(j) BY <1>3 DEF Walks, Early, Resetting
<1>4. CASE Asks(j) BY <1>4 DEF Asks, Resetting
<1>5. CASE Loses(j) BY <1>5 DEF Loses, Resetting
<1>6. CASE GivesUp(j) BY <1>6 DEF GivesUp, Resetting
<1>7. CASE Probes(j) BY <1>7 DEF Probes, Resetting
<1>8. CASE StartsReset(j) BY <1>8 DEF StartsReset, Resetting
<1>9. CASE Drops(j) BY <1>2, <1>9 DEF Drops, Resetting, In
<1>10. ASSUME NEW n \in Numbers, Reads(j, n) PROVE exts' = exts /\ ~Resetting(j)
  BY <1>10 DEF Reads, Resetting
<1>11. ASSUME NEW e \in known[j], Deletes(j, e)
       PROVE  /\ Resetting(j) /\ Resetting(j)' /\ exts' \subseteq exts
              /\ \A f \in exts : f.org # org[j] => f \in exts'
  BY <1>2, <1>11 DEF Deletes, Resetting
<1> QED BY <1>1, <1>3, <1>4, <1>5, <1>6, <1>7, <1>8, <1>9, <1>10, <1>11 DEF Kinds

\* As long as no job of an org resets, its extensions stay.
LEMMA KeptStays ==
    ASSUME ProvTypes, ExtsInv, NEW j \in Job, OfJob(j), NEW o, ~BeingReset(o)'
    PROVE  ~BeingReset(o) /\ \A e \in exts : e.org = o => e \in exts'
<1>1. \A d \in Job : Resetting(d) => Resetting(d)'
  <2> SUFFICES ASSUME NEW d \in Job, Resetting(d) PROVE Resetting(d)'
    OBVIOUS
  <2>1. CASE d = j BY <2>1, ExtsKinds
  <2>2. CASE d # j BY <2>2, OthersSame DEF Same, Resetting
  <2> QED BY <2>1, <2>2
<1>2. org' = org
  BY NextPBX
<1>3. ~BeingReset(o)
  BY <1>1, <1>2 DEF BeingReset
<1>4. org[j] = o => ~Resetting(j)
  BY <1>3 DEF BeingReset
<1>5. \A M : Makes(j, M) => exts \subseteq exts'
  BY DEF Makes
<1>6. \A e \in exts : e.org = o => e \in exts'
  BY <1>4, <1>5, ExtsKinds
<1> QED BY <1>3, <1>6

LEMMA NextRecords ==
    ASSUME ProvTypes, RecordsInv, AnswerInv, ExtsInv, NEW j \in Job, OfJob(j)
    PROVE  RecordsInv'
<1>1. Kinds(j) /\ (\A d \in Job \ {j} : Same(d)) /\ org' = org
  BY StepKinds, OthersSame, NextPBX
<1>0. \A o : ~BeingReset(o)' => ~BeingReset(o) /\ Taken(o)' = Taken(o)
  BY KeptStays, NextPBX
<1>2. ASSUME NEW d \in Job \ {j} PROVE RecordsOf(d)'
  <2>1. Same(d) /\ RecordsOf(d)
    BY <1>1 DEF RecordsInv
  <2> QED BY <1>0, <1>1, <2>1 DEF Same, RecordsOf
<1>3. RecordsOf(j) /\ AnswerOf(j)
  BY DEF RecordsInv, AnswerInv
<1>4. /\ at[j] \in Early \cup {"batch", "answer"} \cup Late \cup Removing
      /\ next[j] \in Nat \ {0} /\ skips[j] \in Nat /\ known[j] \subseteq Ext
      /\ \A e \in known[j] : e.num \in Nat
  BY DEF ProvTypes, Ext, Numbers
<1>5. /\ IsFiniteSet(DOMAIN answer[j]) /\ Cardinality(DOMAIN answer[j]) \in Nat
      /\ IsFiniteSet(known[j]) /\ Cardinality(known[j]) \in Nat
  BY AnswerCounts
<1>6. Count[j] \in Nat \ {0} /\ MaxSkips \in Nat /\ Cardinality({}) = 0
  BY CountOf, FS_EmptySet
<1>7. RecordsOf(j)'
  <2>1. CASE Walks(j)
    <3>1. /\ known'[j] = {} /\ next'[j] = 1 /\ skips'[j] = 0 /\ tries'[j] = 0 /\ DOMAIN answer'[j] = {}
          /\ at'[j] \in Early \cup {"batch"}
      BY <1>3, <2>1 DEF Walks, SameLists, SameCounts, RecordsOf, Early
    <3>2. \A n \in 1..(next'[j] - 1) : FALSE
      BY <3>1
    <3>3. /\ next'[j] = 1 + Cardinality(known'[j]) + skips'[j] + Cardinality(DOMAIN answer'[j])
          /\ Cardinality(known'[j]) + Cardinality(DOMAIN answer'[j]) <= Count[j]
          /\ skips'[j] <= MaxSkips /\ next'[j] <= Count[j] + MaxSkips + 1
      BY <1>6, <3>1
    <3> QED BY <3>1, <3>2, <3>3 DEF RecordsOf, Early, Late, Removing
  <2>2. CASE Asks(j)
    <3>1. /\ at[j] = "batch" /\ at'[j] = "answer" /\ known'[j] = known[j] /\ skips'[j] = skips[j]
          /\ DOMAIN answer'[j] = Asked(j) /\ next'[j] = next[j] + BatchSize(j)
      BY <2>2 DEF Asks, SameCounts
    <3>2. PICK b \in Nat : b = BatchSize(j)
      BY <3>1, AskedFacts
    <3>3. PICK c \in Nat : c = Cardinality(known[j])
      BY <1>5
    <3>4. /\ c + b <= Count[j] /\ next[j] = 1 + c + skips[j] /\ next[j] + b <= Count[j] + MaxSkips + 1
          /\ Asked(j) = next[j]..(next[j] + b - 1) /\ Cardinality(DOMAIN answer'[j]) = b
      BY <3>1, <3>2, <3>3, AskedFacts
    <3>5. \A e \in known'[j] : e.num < next'[j] /\ e.num \notin DOMAIN answer'[j]
      BY <1>3, <1>4, <3>1, <3>2, <3>4 DEF RecordsOf
    <3>6. ~BeingReset(org[j])' =>
            \A n \in 1..(next'[j] - 1) : n \in Taken(org[j])' \cup DOMAIN answer'[j] \cup {e.num : e \in known'[j]}
      <4> SUFFICES ASSUME NEW n \in 1..(next'[j] - 1), ~BeingReset(org[j]), Taken(org[j])' = Taken(org[j])
                   PROVE  n \in Taken(org[j]) \cup DOMAIN answer'[j] \cup {e.num : e \in known[j]}
        BY <1>0, <1>1, <3>1
      <4>1. CASE n \in 1..(next[j] - 1)
        BY <1>3, <3>1, <4>1 DEF RecordsOf
      <4>2. CASE n \notin 1..(next[j] - 1)
        <5>1. n \in Asked(j)
          BY <1>4, <3>1, <3>2, <3>4, <4>2
        <5> QED BY <3>1, <5>1
      <4> QED BY <4>1, <4>2
    <3>7. next'[j] = 1 + Cardinality(known'[j]) + skips'[j] + Cardinality(DOMAIN answer'[j])
      BY <1>4, <3>1, <3>2, <3>3, <3>4
    <3>8. Cardinality(known'[j]) + Cardinality(DOMAIN answer'[j]) <= Count[j] /\ next'[j] <= Count[j] + MaxSkips + 1
      BY <3>1, <3>2, <3>3, <3>4
    <3>9. /\ skips'[j] <= MaxSkips /\ \A e \in known'[j] : e.num <= Count[j] + MaxSkips
          /\ \A d, e \in known'[j] : d.num = e.num => d = e
      BY <1>3, <3>1 DEF RecordsOf
    <3> QED BY <1>1, <3>1, <3>5, <3>6, <3>7, <3>8, <3>9 DEF RecordsOf, Early, Late, Removing
  <2>3. Cleared(j) => RecordsOf(j)'
    BY <1>6 DEF Cleared, RecordsOf, Early, Late, Removing
  <2>4. CASE Loses(j)
    <3>1. CASE ~Cleared(j)
      BY <1>0, <1>1, <1>3, <2>4, <3>1 DEF Loses, SameLists, RecordsOf, Early
    <3> QED BY <2>3, <3>1
  <2>5. CASE GivesUp(j)
    BY <2>3, <2>5 DEF GivesUp
  <2>6. CASE Probes(j)
    BY <1>0, <1>1, <1>3, <2>6 DEF Probes, SameLists, SameCounts, RecordsOf, Early, Late, Removing
  <2>7. CASE StartsReset(j)
    <3>1. First(j).num <= Count[j] + MaxSkips
      BY <1>3, <2>7, KnownCount, FirstIsLeast DEF StartsReset, Late, RecordsOf
    <3>2. First(j).num \in Nat
      BY <1>4, <2>7, KnownCount, FirstIsLeast DEF StartsReset, Late
    <3>3. next'[j] <= Count[j] + MaxSkips + 1
      <4>1. next'[j] = First(j).num
        BY <2>7 DEF StartsReset
      <4>2. PICK f \in Nat : f = First(j).num
        BY <3>2
      <4> QED BY ONLY <1>6, <3>1, <4>1, <4>2
    <3> QED BY <1>3, <2>7, <3>3 DEF StartsReset, SameCounts, RecordsOf, Early, Late, Removing
  <2>8. CASE Drops(j)
    BY <1>3, <2>8 DEF Drops, SameLists, SameCounts, RecordsOf, Early, Late, Removing
  <2>9. ASSUME NEW e \in known[j], Deletes(j, e) PROVE RecordsOf(j)'
    <3>1. next'[j] <= Count[j] + MaxSkips + 1
      <4>1. CASE next'[j] = next[j]
        BY <1>3, <4>1 DEF RecordsOf
      <4>2. CASE \E f \in known[j] : f.num = next'[j]
        BY <1>3, <1>4, <1>6, <4>2 DEF RecordsOf
      <4> QED BY <2>9, <4>1, <4>2, NextToDelete DEF Deletes
    <3> QED BY <1>3, <2>9, <3>1 DEF Deletes, SameCounts, RecordsOf, Early, Late, Removing
  <2>10. ASSUME NEW n \in Numbers, Reads(j, n) PROVE RecordsOf(j)'
    <3> DEFINE A == DOMAIN answer[j]
    <3>1. /\ at[j] = "answer" /\ n \in A /\ Takes(j, n) /\ next'[j] = next[j]
          /\ DOMAIN answer'[j] = A \ {n}
          /\ at'[j] = "answer" \/ (DOMAIN answer'[j] = {} /\ at'[j] = AfterBatch(j, known'[j]))
      BY <2>10 DEF Reads
    <3>0. BeingReset(org[j])' \/ (~BeingReset(org[j]) /\ Taken(org[j])' = Taken(org[j]))
      BY <1>0, <1>1
    <3>2. Cardinality(DOMAIN answer'[j]) = Cardinality(A) - 1
      BY <1>5, <3>1, FS_RemoveElement
    <3>3. /\ \A e \in known[j] : e.num < next[j] /\ e.num \notin A
          /\ ~BeingReset(org[j]) =>
               \A k \in 1..(next[j] - 1) : k \in Taken(org[j]) \cup A \cup {e.num : e \in known[j]}
          /\ next[j] = 1 + Cardinality(known[j]) + skips[j] + Cardinality(A)
          /\ Cardinality(known[j]) + Cardinality(A) <= Count[j]
          /\ skips[j] <= MaxSkips /\ next[j] <= Count[j] + MaxSkips + 1
          /\ \A e \in known[j] : e.num <= Count[j] + MaxSkips
          /\ \A d, e \in known[j] : d.num = e.num => d = e
      BY <1>3, <3>1 DEF RecordsOf
    <3>4. n \in Nat /\ n < next[j]
      BY <1>3, <1>4, <3>1 DEF AnswerOf, Numbers
    <3> HIDE DEF A
    <3> DEFINE Counted == /\ \A e \in known'[j] : e.num < next'[j] /\ e.num \notin DOMAIN answer'[j]
                          /\ ~BeingReset(org[j])' => \A k \in 1..(next'[j] - 1) :
                               k \in Taken(org[j])' \cup DOMAIN answer'[j] \cup {e.num : e \in known'[j]}
                          /\ next'[j] = 1 + Cardinality(known'[j]) + skips'[j] + Cardinality(DOMAIN answer'[j])
                          /\ Cardinality(known'[j]) + Cardinality(DOMAIN answer'[j]) <= Count[j]
                          /\ skips'[j] <= MaxSkips
                          /\ \A e \in known'[j] : e.num <= Count[j] + MaxSkips
                          /\ \A d, e \in known'[j] : d.num = e.num => d = e
                          /\ Cardinality(known'[j]) \in Nat
    <3>5. ASSUME answer[j][n] = "reserved", skips[j] < MaxSkips, skips'[j] = skips[j] + 1, known'[j] = known[j]
          PROVE  Counted
      <4>1. ~BeingReset(org[j]) => n \in Taken(org[j])
        BY <1>3, <3>1, <3>5 DEF AnswerOf, A
      <4>2. \A e \in known'[j] : e.num < next'[j] /\ e.num \notin DOMAIN answer'[j]
        BY <3>1, <3>3, <3>5
      <4>3. ~BeingReset(org[j])' =>
              \A k \in 1..(next'[j] - 1) : k \in Taken(org[j])' \cup DOMAIN answer'[j] \cup {e.num : e \in known'[j]}
        BY <3>0, <3>1, <3>3, <3>5, <4>1
      <4>4. /\ next'[j] = 1 + Cardinality(known'[j]) + skips'[j] + Cardinality(DOMAIN answer'[j])
            /\ Cardinality(known'[j]) + Cardinality(DOMAIN answer'[j]) <= Count[j] /\ skips'[j] <= MaxSkips
        <5> PICK c \in Nat, a \in Nat : c = Cardinality(known[j]) /\ a = Cardinality(A)
          BY <1>5 DEF A
        <5> QED BY <1>4, <1>6, <3>1, <3>2, <3>3, <3>5
      <4> QED BY <1>5, <3>3, <3>5, <4>2, <4>3, <4>4
    <3>6. ASSUME answer[j][n] \in {"created", "own"}, skips'[j] = skips[j],
                 NEW e, e.num = n, known'[j] = known[j] \cup {e}
          PROVE  Counted
      <4>2. e \notin known[j]
        BY <3>1, <3>3, <3>6
      <4>3. \A f \in known'[j] : f.num < next'[j] /\ f.num \notin DOMAIN answer'[j]
        BY <3>1, <3>3, <3>4, <3>6
      <4>4. ~BeingReset(org[j])' =>
              \A k \in 1..(next'[j] - 1) : k \in Taken(org[j])' \cup DOMAIN answer'[j] \cup {f.num : f \in known'[j]}
        BY <3>0, <3>1, <3>3, <3>6
      <4>5. Cardinality(known'[j]) = Cardinality(known[j]) + 1
        BY <1>5, <3>6, <4>2, FS_AddElement
      <4>6. /\ next'[j] = 1 + Cardinality(known'[j]) + skips'[j] + Cardinality(DOMAIN answer'[j])
            /\ Cardinality(known'[j]) + Cardinality(DOMAIN answer'[j]) <= Count[j] /\ skips'[j] <= MaxSkips
            /\ n <= Count[j] + MaxSkips
        <5> PICK c \in Nat, a \in Nat : c = Cardinality(known[j]) /\ a = Cardinality(A)
          BY <1>5 DEF A
        <5> QED BY <1>4, <1>6, <3>1, <3>2, <3>3, <3>4, <3>6, <4>5
      <4>7. \A f \in known'[j] : f.num <= Count[j] + MaxSkips
        BY <3>3, <3>6, <4>6
      <4>8. \A d, f \in known'[j] : d.num = f.num => d = f
        BY <3>1, <3>3, <3>6
      <4>9. Cardinality(known'[j]) \in Nat
        BY <1>5, <4>5
      <4> QED BY <4>3, <4>4, <4>6, <4>7, <4>8, <4>9
    <3>7. Counted
      <4>1. Made(j, n).num = n
        BY DEF Made
      <4> HIDE DEF Counted
      <4> QED BY <3>1, <3>5, <3>6, <4>1 DEF Takes
    <3>8. at'[j] \in {"answer", "batch", "first"} /\ (at'[j] # "answer" => DOMAIN answer'[j] = {})
      BY <3>1 DEF AfterBatch
    <3>9. at'[j] = "first" => Cardinality(known'[j]) = Count[j]
      <4> SUFFICES ASSUME at'[j] = "first" PROVE Cardinality(known'[j]) = Count[j]
        OBVIOUS
      <4>1. DOMAIN answer'[j] = {} /\ ~(Cardinality(known'[j]) < Count[j])
        BY <3>1 DEF AfterBatch
      <4>2. Cardinality(DOMAIN answer'[j]) = 0
        BY <1>6, <4>1
      <4> QED BY <1>6, <3>7, <4>1, <4>2
    <3> QED BY <1>1, <3>1, <3>3, <3>7, <3>8, <3>9 DEF RecordsOf, Early, Late, Removing
  <2> QED BY <1>1, <2>1, <2>2, <2>4, <2>5, <2>6, <2>7, <2>8, <2>9, <2>10 DEF Kinds
<1> QED BY <1>2, <1>7 DEF RecordsInv

\* A number that is asked for has fewer than Count free ones below it.
LEMMA FewBelow ==
    ASSUME ProvTypes, RecordsInv, NEW j \in Job, at[j] = "batch", ~BeingReset(org[j]), NEW n \in Asked(j)
    PROVE  Cardinality((1..n) \ Taken(org[j])) <= Count[j]
<1> DEFINE nums == {e.num : e \in known[j]}
           f == [e \in known[j] |-> e.num]
           free == (1..n) \ Taken(org[j])
<1>1. PICK b \in Nat : b = BatchSize(j)
  BY AskedFacts
<1>2. /\ next[j] \in Nat \ {0} /\ Asked(j) = next[j]..(next[j] + b - 1) /\ IsFiniteSet(known[j])
      /\ Cardinality(known[j]) + b <= Count[j] /\ Cardinality(known[j]) \in Nat
      /\ IsFiniteSet(Asked(j)) /\ Cardinality(Asked(j)) = b
  BY <1>1, AskedFacts DEF ProvTypes
<1>3. n \in Nat /\ next[j] <= n /\ n <= next[j] + b - 1
  BY <1>1, <1>2
<1>4. f \in Surjection(known[j], nums)
  BY DEF Surjection
<1>5. IsFiniteSet(nums) /\ Cardinality(nums) <= Cardinality(known[j]) /\ Cardinality(nums) \in Nat
  <2> HIDE DEF f, nums
  <2> QED BY <1>2, <1>4, FS_Surjection, FS_CardinalityType
<1>6. free \subseteq nums \cup Asked(j)
  <2> SUFFICES ASSUME NEW k \in free, k \notin Asked(j) PROVE k \in nums
    OBVIOUS
  <2>1. k \in 1..(next[j] - 1) /\ k \notin Taken(org[j])
    BY <1>1, <1>2, <1>3
  <2>2. DOMAIN answer[j] = {} /\ \A i \in 1..(next[j] - 1) : i \in Taken(org[j]) \cup DOMAIN answer[j] \cup nums
    BY DEF RecordsInv, RecordsOf
  <2> QED BY <2>1, <2>2
<1>7. /\ IsFiniteSet(nums \cup Asked(j))
      /\ Cardinality(nums \cup Asked(j)) = Cardinality(nums) + b - Cardinality(nums \cap Asked(j))
  <2> HIDE DEF nums
  <2> QED BY <1>2, <1>5, FS_Union
<1>8. Cardinality(nums \cap Asked(j)) \in Nat
  <2> HIDE DEF nums
  <2> QED BY <1>5, FS_Intersection, FS_CardinalityType
<1>9. Cardinality(free) <= Cardinality(nums \cup Asked(j)) /\ Cardinality(free) \in Nat
  <2> HIDE DEF nums, free
  <2> QED BY <1>6, <1>7, FS_Subset, FS_CardinalityType
<1> HIDE DEF nums, free
<1> QED
  <2> PICK c \in Nat, m \in Nat, i \in Nat, g \in Nat :
        /\ c = Cardinality(known[j]) /\ m = Cardinality(nums)
        /\ i = Cardinality(nums \cap Asked(j)) /\ g = Cardinality(free)
    BY <1>2, <1>5, <1>8, <1>9
  <2>1. m <= c /\ c + b <= Count[j] /\ g <= m + b - i /\ Count[j] \in Nat
    BY <1>2, <1>5, <1>7, <1>9, CountOf
  <2>2. g <= Count[j]
    BY ONLY <1>1, <2>1, m \in Nat, c \in Nat, i \in Nat, g \in Nat, b \in Nat
  <2> QED BY <2>2 DEF free

LEMMA NextExts ==
    ASSUME ProvTypes, RecordsInv, ExtsInv, NEW j \in Job, OfJob(j)
    PROVE  ExtsInv'
<1>0. \A o : ~BeingReset(o)' => ~BeingReset(o) /\ Taken(o)' = Taken(o)
  BY KeptStays, NextPBX
<1>1. org' = org /\ \A o : Taken(o)' \subseteq Taken(o)
  BY NextPBX DEF Taken
<1>4. ASSUME NEW e \in exts
      PROVE  /\ e.num \notin Taken(e.org)'
             /\ ~BeingReset(e.org)' =>
                  \E k \in Job : org'[k] = e.org /\ Cardinality((1..e.num) \ Taken(e.org)') <= Count[k]
  <2>1. /\ e.num \notin Taken(e.org)
        /\ ~BeingReset(e.org) =>
             \E k \in Job : org[k] = e.org /\ Cardinality((1..e.num) \ Taken(e.org)) <= Count[k]
    BY DEF ExtsInv
  <2>2. e.num \notin Taken(e.org)'
    BY <1>1, <2>1
  <2> QED BY <1>0, <1>1, <2>1, <2>2
<1>2. CASE exts' \subseteq exts
  <2>1. \A d, e \in exts' : d.org = e.org /\ d.num = e.num => d = e
    BY <1>2 DEF ExtsInv
  <2> QED BY <1>2, <1>4, <2>1 DEF ExtsInv
<1>3. ASSUME at[j] = "batch", NEW M \in SUBSET Free(org[j], Asked(j)), Makes(j, M)
      PROVE  ExtsInv'
  <2>0. ~BeingReset(org[j]) => \A n \in M : Cardinality((1..n) \ Taken(org[j])) <= Count[j]
    BY <1>3, MadeIsNew, FewBelow
  <2>1. \A n \in M : /\ n \notin Taken(org[j]) /\ Made(j, n).org = org[j] /\ Made(j, n).num = n
                    /\ \A e \in exts : e.org = org[j] => e.num # n
    BY <1>3, MadeIsNew
  <2>2. \A e \in exts' : e \in exts \/ \E n \in M : e = Made(j, n)
    BY <1>3 DEF Makes
  <2>3. ASSUME NEW e \in exts'
        PROVE  /\ e.num \notin Taken(e.org)'
               /\ ~BeingReset(e.org)' =>
                    \E k \in Job : org'[k] = e.org /\ Cardinality((1..e.num) \ Taken(e.org)') <= Count[k]
    <3>1. CASE e \in exts
      BY <1>4, <3>1
    <3>2. CASE e \notin exts
      <4>1. PICK n \in M : e = Made(j, n) /\ e.org = org[j] /\ e.num = n
        BY <2>1, <2>2, <3>2
      <4>2. e.num \notin Taken(e.org)'
        BY <1>1, <2>1, <4>1
      <4>3. ~BeingReset(org[j])' => Cardinality((1..n) \ Taken(org[j])') <= Count[j]
        <5> SUFFICES ASSUME ~BeingReset(org[j])'
                     PROVE  Cardinality((1..n) \ Taken(org[j])') <= Count[j]
          OBVIOUS
        <5>1. ~BeingReset(org[j]) /\ Taken(org[j])' = Taken(org[j])
          BY <1>0, <1>1
        <5> QED BY <2>0, <4>1, <5>1
      <4> QED BY <1>1, <4>1, <4>2, <4>3
    <3> QED BY <3>1, <3>2
  <2>4. ASSUME NEW d \in exts', NEW e \in exts', d.org = e.org, d.num = e.num
        PROVE  d = e
    <3>1. CASE d \in exts /\ e \in exts
      BY <2>4, <3>1 DEF ExtsInv
    <3>2. CASE d \notin exts
      <4>1. PICK n \in M : d = Made(j, n)
        BY <2>2, <3>2
      <4>2. e.org = org[j] /\ e.num = n
        BY <2>1, <2>4, <4>1
      <4>3. e \notin exts
        BY <2>1, <4>2
      <4>4. PICK m \in M : e = Made(j, m)
        BY <2>2, <4>3
      <4>5. m = n
        BY <2>1, <4>2, <4>4
      <4> QED BY <4>1, <4>4, <4>5
    <3>3. CASE e \notin exts
      <4>1. PICK n \in M : e = Made(j, n)
        BY <2>2, <3>3
      <4>2. d.org = org[j] /\ d.num = n
        BY <2>1, <2>4, <4>1
      <4>3. d \notin exts
        BY <2>1, <4>2
      <4> QED BY <3>2, <4>3
    <3> QED BY <3>1, <3>2, <3>3
  <2> QED BY <2>3, <2>4 DEF ExtsInv
<1> QED BY <1>2, <1>3, ExtsKinds

LEMMA NextAnswers ==
    ASSUME ProvTypes, RecordsInv, AnswerInv, ExtsInv, NEW j \in Job, OfJob(j)
    PROVE  AnswerInv'
<1>1. Kinds(j) /\ (\A d \in Job \ {j} : Same(d)) /\ org' = org
  BY StepKinds, OthersSame, NextPBX
<1>0. \A o : ~BeingReset(o)' => ~BeingReset(o) /\ Taken(o)' = Taken(o)
  BY KeptStays, NextPBX
<1>2. ASSUME NEW d \in Job, AnswerOf(d), next'[d] = next[d], tries'[d] = tries[d],
             DOMAIN answer'[d] \subseteq DOMAIN answer[d],
             \A n \in DOMAIN answer'[d] : answer'[d][n] = answer[d][n]
      PROVE  AnswerOf(d)'
  <2> SUFFICES ASSUME NEW n \in DOMAIN answer'[d]
               PROVE  /\ n \in 1..(next'[d] - 1)
                      /\ answer'[d][n] = "reserved" /\ ~BeingReset(org[d])' => n \in Taken(org[d])'
                      /\ answer'[d][n] = "created" /\ ~BeingReset(org[d])' => Made(d, n)' \in exts'
    BY <1>1 DEF AnswerOf
  <2>1. Made(d, n)' = Made(d, n) /\ Made(d, n).org = org[d]
    BY <1>1, <1>2 DEF Made
  <2>2. answer'[d][n] = "created" /\ ~BeingReset(org[d])' => Made(d, n) \in exts'
    BY <1>1, <1>2, <2>1, KeptStays DEF AnswerOf
  <2> QED BY <1>0, <1>1, <1>2, <2>1, <2>2 DEF AnswerOf
<1>3. \A d \in Job : AnswerOf(d)
  BY DEF AnswerInv
<1>4. ASSUME NEW d \in Job \ {j} PROVE AnswerOf(d)'
  <2>1. next'[d] = next[d] /\ tries'[d] = tries[d] /\ answer'[d] = answer[d]
    BY <1>1 DEF Same
  <2> QED BY <1>2, <1>3, <2>1
<1>5. AnswerOf(j)'
  <2>1. CASE DOMAIN answer'[j] = {}
    BY <2>1 DEF AnswerOf
  <2>2. CASE Asks(j)
    <3>1. PICK M \in SUBSET Free(org[j], Asked(j)) :
            /\ Makes(j, M) /\ DOMAIN answer'[j] = Asked(j)
            /\ \A n \in Asked(j) :
                 /\ answer'[j][n] = "created" => n \in M
                 /\ answer'[j][n] = "reserved" => n \in Taken(org[j])
      BY <2>2 DEF Asks
    <3>2. next'[j] = next[j] + BatchSize(j) /\ tries'[j] = tries[j] /\ at[j] = "batch"
      BY <2>2 DEF Asks, SameCounts
    <3>3. ASSUME NEW n \in DOMAIN answer'[j]
          PROVE  /\ n \in 1..(next'[j] - 1)
                 /\ answer'[j][n] = "reserved" /\ ~BeingReset(org[j])' => n \in Taken(org[j])'
                 /\ answer'[j][n] = "created" /\ ~BeingReset(org[j])' => Made(j, n)' \in exts'
      <4>1. n \in 1..(next'[j] - 1)
        <5>1. /\ BatchSize(j) \in Nat /\ next[j] \in Nat \ {0}
              /\ Asked(j) = next[j]..(next[j] + BatchSize(j) - 1)
          BY <3>2, AskedFacts
        <5> QED BY <3>1, <3>2, <5>1
      <4>2. Made(j, n)' = Made(j, n)
        BY <1>1, <3>2 DEF Made
      <4>3. answer'[j][n] = "created" => Made(j, n) \in exts'
        BY <3>1 DEF Makes
      <4> QED BY <1>0, <1>1, <3>1, <4>1, <4>2, <4>3
    <3> QED BY <1>1, <3>3 DEF AnswerOf
  <2>3. ASSUME NEW n \in Numbers, Reads(j, n) PROVE AnswerOf(j)'
    <3>1. CASE tries'[j] = tries[j]
      BY <1>2, <1>3, <2>3, <3>1 DEF Reads
    <3>2. CASE DOMAIN answer'[j] = {}
      BY <2>1, <3>2
    <3> QED BY <2>3, <3>1, <3>2 DEF Reads
  <2>4. at[j] # "answer" => DOMAIN answer[j] = {}
    BY DEF RecordsInv, RecordsOf
  <2>5. Walks(j) \/ Loses(j) \/ GivesUp(j) \/ Probes(j) \/ StartsReset(j) \/ Drops(j) => DOMAIN answer'[j] = {}
    BY <2>4 DEF Walks, Loses, GivesUp, Probes, StartsReset, Drops, SameLists, Cleared, Early
  <2>6. \A e \in known[j] : Deletes(j, e) => DOMAIN answer'[j] = {}
    BY <2>4 DEF Deletes
  <2> QED BY <1>1, <2>1, <2>2, <2>3, <2>5, <2>6 DEF Kinds
<1> QED BY <1>4, <1>5 DEF AnswerInv

LEMMA NextKept ==
    ASSUME ProvTypes, RecordsInv, AnswerInv, ExtsInv, KeptInv, NEW j \in Job, OfJob(j)
    PROVE  KeptInv'
<1>1. Kinds(j) /\ (\A d \in Job \ {j} : Same(d)) /\ org' = org
  BY StepKinds, OthersSame, NextPBX
<1>2. \A d \in Job : \A e \in known[d] : e.org = org[d]
  BY DEF ProvTypes
<1>3. ASSUME NEW d \in Job, ~BeingReset(org[d])'
      PROVE  known[d] \subseteq exts'
  <2>1. ~BeingReset(org[d]) /\ \A e \in exts : e.org = org[d] => e \in exts'
    BY <1>1, <1>3, KeptStays
  <2> QED BY <1>2, <2>1 DEF KeptInv
<1>4. ASSUME NEW d \in Job, ~BeingReset(org[d])'
      PROVE  known'[d] \subseteq exts'
  <2>1. CASE known'[d] \subseteq known[d]
    BY <1>3, <1>4, <2>1
  <2>2. CASE d # j
    BY <1>1, <2>1, <2>2 DEF Same
  <2>3. Walks(j) \/ Asks(j) \/ Loses(j) \/ GivesUp(j) \/ Probes(j) \/ StartsReset(j) \/ Drops(j)
        => known'[j] \subseteq known[j]
    BY DEF Walks, Asks, Loses, GivesUp, Probes, StartsReset, Drops, SameLists, Cleared
  <2>4. \A e \in known[j] : Deletes(j, e) => known'[j] \subseteq known[j]
    BY DEF Deletes
  <2>5. ASSUME d = j, NEW n \in Numbers, Reads(j, n)
        PROVE  known'[j] \subseteq exts'
    <3>1. exts' = exts /\ Takes(j, n) /\ n \in DOMAIN answer[j]
      BY <2>5 DEF Reads
    <3>2. answer[j][n] = "created" => Made(j, n) \in exts
      BY <1>1, <1>4, <2>5, <3>1, KeptStays DEF AnswerInv, AnswerOf
    <3> QED BY <1>3, <1>4, <2>5, <3>1, <3>2 DEF Takes
  <2> QED BY <1>1, <2>1, <2>2, <2>3, <2>4, <2>5 DEF Kinds
<1>5. ASSUME NEW o \in Orgs, tenant'[o] = "leaving"
      PROVE  BeingReset(o)'
  <2>1. CASE tenant[o] = "leaving"
    BY <2>1, KeptStays DEF KeptInv
  <2>2. CASE o = org[j] /\ at'[j] = "wait gone"
    BY <1>1, <2>2 DEF BeingReset, Resetting
  <2> QED BY <1>5, <2>1, <2>2, NextPBX
<1> QED BY <1>1, <1>4, <1>5 DEF KeptInv

LEMMA PastStays ==
    ASSUME ProvTypes, RecordsInv, ExtsInv, NEW j \in Job, OfJob(j),
           NEW k \in Job, NEW n \in Nat, NEW t \in Nat, Past(k, n, t)
    PROVE  Past(k, n, t)'
<1>1. Kinds(j) /\ (\A d \in Job \ {j} : Same(d))
  BY StepKinds, OthersSame
<1>2. CASE k # j
  <2>1. Same(k)
    BY <1>1, <1>2
  <2>2. Asked(k)' = Asked(k)
    BY <2>1 DEF Same, Asked, BatchSize
  <2> QED BY <2>1, <2>2 DEF Same, Past
<1>3. CASE k = j
  <2> USE <1>3
  <2>1. CASE Walks(j)
    BY <2>1 DEF Walks, Past
  <2>2. CASE Asks(j)
    <3>1. /\ BatchSize(j) \in Nat /\ next[j] \in Nat \ {0}
          /\ Asked(j) = next[j]..(next[j] + BatchSize(j) - 1)
      BY <2>2, AskedFacts DEF Asks
    <3>2. n < next'[j]
      BY <2>2, <3>1 DEF Asks, Past
    <3> QED BY <2>2, <3>2 DEF Asks, Past, Early
  <2>3. Cleared(j) => Past(k, n, t)'
    BY DEF Cleared, Past, Early
  <2>4. CASE Loses(j) /\ ~Cleared(j)
    <3>1. /\ at[j] = "batch" /\ at'[j] = at[j] /\ next'[j] = next[j] /\ known'[j] = known[j]
          /\ tries'[j] = tries[j] + 1 /\ tries[j] \in Nat
      BY <2>4, ProvisionAssumption DEF Loses, SameLists, ProvTypes
    <3>2. Asked(j)' = Asked(j)
      BY <3>1 DEF Asked, BatchSize
    <3>3. n < next[j] \/ (n \in Asked(j) /\ t < tries[j])
      BY <3>1 DEF Past
    <3>4. t < tries[j] => t < tries'[j]
      BY <3>1
    <3> QED BY <3>1, <3>2, <3>3, <3>4 DEF Past, Early
  <2>5. CASE GivesUp(j)
    BY <2>3, <2>5 DEF GivesUp
  <2>6. CASE Probes(j) \/ StartsReset(j) \/ Drops(j)
    BY <2>6 DEF Probes, StartsReset, Drops, Past, Early
  <2>7. ASSUME NEW e \in known[j], Deletes(j, e) PROVE Past(k, n, t)'
    BY <2>7 DEF Deletes, Past, Early
  <2>8. ASSUME NEW m \in Numbers, Reads(j, m) PROVE Past(k, n, t)'
    BY <2>8 DEF Reads, AfterBatch, Past, Early
  <2> QED BY <1>1, <2>1, <2>2, <2>3, <2>4, <2>5, <2>6, <2>7, <2>8 DEF Kinds
<1> QED BY <1>2, <1>3

LEMMA NextPast ==
    ASSUME ProvTypes, RecordsInv, AnswerInv, ExtsInv, PastInv, NEW j \in Job, OfJob(j)
    PROVE  PastInv'
<1> DEFINE All == exts \cup UNION {known[d] : d \in Job}
           New == {Made(j, n) : n \in Numbers}
<1>1. Kinds(j) /\ (\A d \in Job \ {j} : Same(d))
  BY StepKinds, OthersSame
<1>2. \A e \in All : /\ e.id[1] \in Job /\ e.num \in Nat /\ e.id[2] \in Nat
                     /\ Past(e.id[1], e.num, e.id[2])
  BY DEF ProvTypes, PastInv, Ext, Numbers
<1>3. \A e \in All : Past(e.id[1], e.num, e.id[2])'
  BY <1>2, PastStays
<1>4. ASSUME NEW n \in Numbers
      PROVE  /\ Made(j, n).id[1] = j /\ Made(j, n).num = n /\ Made(j, n).id[2] = tries[j]
             /\ tries[j] \in Nat /\ n \in Nat
  BY ProvisionAssumption DEF Made, ProvTypes, Numbers
<1>5. ASSUME NEW e \in exts', e \notin All
      PROVE  Past(e.id[1], e.num, e.id[2])'
  <2>1. PICK M \in SUBSET Free(org[j], Asked(j)) : at[j] = "batch" /\ Makes(j, M)
    BY <1>5, ExtsKinds
  <2>2. PICK n \in Asked(j) : e = Made(j, n) /\ n \in Numbers
    BY <1>5, <2>1, AskedFacts DEF Makes, Free
  <2>3. /\ BatchSize(j) \in Nat /\ next[j] \in Nat \ {0}
        /\ Asked(j) = next[j]..(next[j] + BatchSize(j) - 1)
    BY <2>1, AskedFacts
  <2> PICK t \in Nat : t = tries[j]
    BY <1>4, <2>2
  <2>4. Past(j, n, t)'
    <3>1. CASE Asks(j)
      <4>1. n < next'[j]
        BY <2>2, <2>3, <3>1 DEF Asks
      <4> QED BY <3>1, <4>1 DEF Asks, Past, Early
    <3>2. CASE Loses(j)
      <4>1. CASE Cleared(j)
        BY <4>1 DEF Cleared, Past, Early
      <4>2. CASE ~Cleared(j)
        <5>1. /\ at'[j] = "batch" /\ next'[j] = next[j] /\ known'[j] = known[j] /\ tries'[j] = tries[j] + 1
          BY <3>2, <4>2 DEF Loses, SameLists
        <5>2. Asked(j)' = Asked(j)
          BY <5>1 DEF Asked, BatchSize
        <5>3. t < tries'[j]
          BY <5>1
        <5> QED BY <2>2, <5>1, <5>2, <5>3 DEF Past, Early
      <4> QED BY <4>1, <4>2
    <3>3. CASE GivesUp(j)
      BY <3>3 DEF GivesUp, Cleared, Past, Early
    <3> QED BY <1>1, <2>1, <3>1, <3>2, <3>3
        DEF Kinds, Walks, Early, Probes, StartsReset, Drops, Deletes, Reads
  <2> QED BY <1>4, <2>2, <2>4
<1>6. ASSUME NEW d \in Job, NEW e \in known'[d], e \notin All
      PROVE  Past(e.id[1], e.num, e.id[2])'
  <2>1. ~(known'[d] \subseteq known[d])
    BY <1>6
  <2>2. d = j
    BY <1>1, <2>1 DEF Same
  <2>3. PICK n \in Numbers : Reads(j, n)
    BY <1>1, <2>1, <2>2 DEF Kinds, Walks, Asks, Loses, GivesUp, Probes, StartsReset, Drops, Deletes, SameLists, Cleared
  <2>4. e = Made(j, n)
    BY <1>6, <2>2, <2>3 DEF Reads, Takes
  <2>5. n < next[j]
    <3>1. n \in 1..(next[j] - 1) /\ next[j] \in Nat
      BY <2>3 DEF Reads, AnswerInv, AnswerOf, ProvTypes
    <3> QED BY <3>1
  <2> PICK t \in Nat : t = tries[j]
    BY <1>4
  <2>6. Past(j, n, t)'
    BY <2>3, <2>5 DEF Reads, AfterBatch, Past, Early
  <2> QED BY <1>4, <2>4, <2>6
<1> QED
  <2> SUFFICES ASSUME NEW e \in (exts \cup UNION {known[d] : d \in Job})'
               PROVE  Past(e.id[1], e.num, e.id[2])'
    BY DEF PastInv
  <2> HIDE DEF All, New
  <2>1. CASE e \in All BY <1>3, <2>1
  <2>2. CASE e \in exts' BY <1>5, <2>1, <2>2
  <2>3. CASE \E d \in Job : e \in known'[d] BY <1>6, <2>1, <2>3
  <2> QED BY <2>2, <2>3

\* What is made was recorded by nobody.
LEMMA KnownShrinks ==
    ASSUME ProvTypes, RecordsInv, ExtsInv, PastInv, NEW j \in Job, OfJob(j), NEW d \in Job
    PROVE  known[d] \cap exts' \subseteq exts
<1> SUFFICES ASSUME NEW e \in known[d], e \in exts', e \notin exts PROVE FALSE
  OBVIOUS
<1>1. PICK M \in SUBSET Free(org[j], Asked(j)) : at[j] = "batch" /\ Makes(j, M)
  BY ExtsKinds
<1>2. PICK n \in Free(org[j], Asked(j)) : e = Made(j, n)
  BY <1>1 DEF Makes
<1>3. /\ e.id = <<j, tries[j]>> /\ e.num = n /\ n \in Asked(j)
  BY <1>1, <1>2, MadeIsNew
<1>4. Past(e.id[1], e.num, e.id[2])
  BY DEF PastInv
<1>5. Past(j, n, tries[j])
  BY <1>3, <1>4
<1>6. /\ BatchSize(j) \in Nat /\ next[j] \in Nat \ {0} /\ tries[j] \in Nat
      /\ Asked(j) = next[j]..(next[j] + BatchSize(j) - 1)
  BY <1>1, AskedFacts, ProvisionAssumption DEF ProvTypes
<1> QED BY <1>1, <1>3, <1>5, <1>6 DEF Past

LEMMA NextClean ==
    ASSUME ProvTypes, RecordsInv, ExtsInv, PastInv, CleanInv, NEW j \in Job, OfJob(j)
    PROVE  CleanInv'
<1>1. Kinds(j) /\ (\A d \in Job \ {j} : Same(d))
  BY StepKinds, OthersSame
<1>2. \A d \in Job : CleanOf(d) /\ known[d] \cap exts' \subseteq exts
  BY KnownShrinks DEF CleanInv
<1>3. ASSUME NEW d \in Job \ {j} PROVE CleanOf(d)'
  <2>1. at'[d] = at[d] /\ next'[d] = next[d] /\ known'[d] = known[d] /\ warned'[d] = warned[d]
    BY <1>1 DEF Same
  <2> QED BY <1>2, <2>1 DEF CleanOf
<1>4. CleanOf(j)'
  <2>1. \A e \in known[j] : e.org = org[j] /\ e.num \in Nat
    BY DEF ProvTypes, Ext, Numbers
  <2>2. Walks(j) \/ Asks(j) \/ Loses(j) \/ GivesUp(j) \/ Probes(j) => CleanOf(j)'
    BY DEF Walks, Asks, Loses, GivesUp, Probes, Cleared, CleanOf, Early
  <2>3. CASE StartsReset(j)
    <3>1. \A e \in known[j] : e.num >= First(j).num
      BY <2>1, <2>3, KnownCount, FirstIsLeast DEF StartsReset, Late
    <3> QED BY <2>3, <3>1 DEF StartsReset, CleanOf
  <2>4. CASE Drops(j)
    BY <1>2, <2>1, <2>4 DEF Drops, SameLists, CleanOf, In
  <2>5. ASSUME NEW e \in known[j], Deletes(j, e) PROVE CleanOf(j)'
    <3>1. CASE warned'[j] = TRUE
      BY <3>1 DEF CleanOf
    <3>2. CASE warned'[j] # TRUE /\ ~warned[j]
      <4>1. /\ exts' = exts \ {e} /\ known'[j] = known[j] /\ at[j] = "drop exts" /\ e.num = next[j]
        BY <2>5, <3>2 DEF Deletes
      <4>2. \A d, f \in known[j] : d.num = f.num => d = f
        BY DEF RecordsInv, RecordsOf
      <4>3. ASSUME NEW f \in known[j] \cap exts'
            PROVE  f.num > e.num
        <5>1. f \in exts /\ f # e /\ f.num \in Nat /\ e.num \in Nat
          BY <2>1, <4>1
        <5>2. f.num >= next[j]
          BY <1>2, <3>2, <4>1, <5>1 DEF CleanOf
        <5>3. f.num # e.num
          BY <4>2, <5>1
        <5>4. e.num = next[j]
          BY <4>1
        <5> PICK x \in Nat, y \in Nat : x = f.num /\ y = e.num
          BY <5>1
        <5>5. x >= y /\ x # y
          BY <5>2, <5>3, <5>4
        <5> QED BY ONLY <5>5, x = f.num, y = e.num, x \in Nat, y \in Nat
      <4>4. CASE NumbersAfter(j, e.num) = {}
        <5>1. \A f \in known[j] : f.num > e.num => f.num \in NumbersAfter(j, e.num)
          BY DEF NumbersAfter, ProvTypes, Ext
        <5>2. known'[j] \cap exts' = {} /\ at'[j] = "removed"
          BY <2>5, <4>1, <4>3, <4>4, <5>1 DEF Deletes
        <5> QED BY <5>2 DEF CleanOf
      <4>5. CASE NumbersAfter(j, e.num) # {}
        <5>0. /\ at'[j] = at[j]
              /\ next'[j] = CHOOSE k \in NumbersAfter(j, e.num) : \A m \in NumbersAfter(j, e.num) : k <= m
          BY <2>5, <4>5 DEF Deletes
        <5>1. at'[j] = "drop exts" /\ \A f \in known[j] : f.num > e.num => next'[j] <= f.num
          BY <4>1, <4>5, <5>0, NextToDelete
        <5>2. next'[j] \in Nat
          BY <2>5, <4>5, NextToDelete DEF Deletes
        <5>3. \A f \in known'[j] \cap exts' : f.num >= next'[j]
          BY <2>1, <4>1, <4>3, <5>1, <5>2
        <5> QED BY <5>1, <5>3 DEF CleanOf
      <4> QED BY <4>4, <4>5
    <3>3. CASE warned[j]
      BY <2>5, <3>3 DEF Deletes, CleanOf
    <3> QED BY <3>1, <3>2, <3>3
  <2>6. ASSUME NEW n \in Numbers, Reads(j, n) PROVE CleanOf(j)'
    BY <2>6 DEF Reads, AfterBatch, CleanOf
  <2> QED BY <1>1, <2>2, <2>3, <2>4, <2>5, <2>6 DEF Kinds
<1> QED BY <1>3, <1>4 DEF CleanInv

\* PBXware's own steps, and stuttering.
LEMMA ByItself ==
    ASSUME ProvIInv,
           \/ \E o \in Orgs : (TenantAppears(o) \/ TenantGoes(o)) /\ Chosen /\ Changed
           \/ Reload
           \/ UNCHANGED provVars
    PROVE  ProvIInv'
<1>1. /\ ProvTypes /\ RecordsInv /\ AnswerInv /\ ExtsInv /\ KeptInv /\ PastInv /\ CleanInv
  BY DEF ProvIInv
<1>2. /\ UNCHANGED <<multi, org, taken, package, at, jobVars>>
      /\ \/ UNCHANGED <<tenant, foreign, exts>>
         \/ \E o \in Orgs : tenant' = [tenant EXCEPT ![o] = "there"] /\ UNCHANGED <<foreign, exts>>
         \/ \E o \in Orgs : tenant[o] = "leaving" /\ WithoutTenant(o)
  BY DEF TenantAppears, TenantGoes, Chosen, Reload, provVars, pbxVars, jobVars
<1>3. /\ org' = org /\ taken' = taken /\ package' = package /\ at' = at /\ next' = next /\ skips' = skips
      /\ tries' = tries /\ answer' = answer /\ known' = known /\ warned' = warned
  BY <1>2 DEF jobVars
<1>4. /\ tenant' \in [Orgs -> {"none", "coming", "there", "leaving"}] /\ exts' \subseteq exts
      /\ foreign' \subseteq foreign
      /\ \A o \in Orgs : tenant'[o] = "leaving" => tenant[o] = "leaving"
  BY <1>1, <1>2 DEF ProvTypes, WithoutTenant
<1>5. \A o : BeingReset(o)' <=> BeingReset(o)
  BY <1>3 DEF BeingReset, Resetting
<1>14. \A o : Taken(o)' \subseteq Taken(o) /\ (~BeingReset(o) => Taken(o)' = Taken(o))
  BY <1>1, <1>2, <1>3 DEF KeptInv, WithoutTenant, Taken
<1>6. ASSUME NEW e \in exts, ~BeingReset(e.org) PROVE e \in exts'
  BY <1>1, <1>2, <1>6 DEF KeptInv, WithoutTenant, In
<1>7. ProvTypes'
  BY <1>1, <1>3, <1>4 DEF ProvTypes, OverJobs
<1>8. RecordsInv'
  <2> SUFFICES ASSUME NEW d \in Job PROVE RecordsOf(d)'
    BY DEF RecordsInv
  <2>1. RecordsOf(d) /\ (BeingReset(org[d])' <=> BeingReset(org[d]))
        /\ (~BeingReset(org[d]) => Taken(org[d])' = Taken(org[d]))
    BY <1>1, <1>3, <1>5, <1>14 DEF RecordsInv, BeingReset, Resetting
  <2> QED BY <1>3, <2>1 DEF RecordsOf
<1>9. AnswerInv'
  <2> SUFFICES ASSUME NEW d \in Job, NEW n \in DOMAIN answer[d]
               PROVE  /\ n \in 1..(next[d] - 1)
                      /\ answer[d][n] = "reserved" /\ ~BeingReset(org[d])' => n \in Taken(org[d])'
                      /\ answer[d][n] = "created" /\ ~BeingReset(org[d])' => Made(d, n)' \in exts'
    BY <1>3 DEF AnswerInv, AnswerOf
  <2>1. Made(d, n)' = Made(d, n) /\ Made(d, n).org = org[d]
    BY <1>3 DEF Made
  <2>2. BeingReset(org[d])' <=> BeingReset(org[d])
    BY <1>3 DEF BeingReset, Resetting
  <2>3. ~BeingReset(org[d]) => Taken(org[d])' = Taken(org[d])
    BY <1>3, <1>14
  <2>4. AnswerOf(d)
    BY <1>1 DEF AnswerInv
  <2>5. Made(d, n) \in exts /\ ~BeingReset(org[d]) => Made(d, n) \in exts'
    BY <1>6, <2>1
  <2> QED BY <2>1, <2>2, <2>3, <2>4, <2>5 DEF AnswerOf
<1>10. ExtsInv'
  <2>1. ASSUME NEW e \in exts'
        PROVE  /\ e.num \notin Taken(e.org)'
               /\ ~BeingReset(e.org)' =>
                    \E k \in Job : org'[k] = e.org /\ Cardinality((1..e.num) \ Taken(e.org)') <= Count[k]
    <3>1. /\ e.num \notin Taken(e.org)
          /\ ~BeingReset(e.org) =>
               \E k \in Job : org[k] = e.org /\ Cardinality((1..e.num) \ Taken(e.org)) <= Count[k]
      BY <1>1, <1>4, <2>1 DEF ExtsInv
    <3>2. e.num \notin Taken(e.org)'
      BY <1>14, <3>1
    <3> QED BY <1>3, <1>5, <1>14, <3>1, <3>2
  <2>2. \A d, e \in exts' : d.org = e.org /\ d.num = e.num => d = e
    BY <1>1, <1>4 DEF ExtsInv
  <2> QED BY <2>1, <2>2 DEF ExtsInv
<1>11. KeptInv'
  <2>1. ASSUME NEW d \in Job, ~BeingReset(org[d])' PROVE known[d] \subseteq exts'
    <3>1. ~BeingReset(org[d])
      BY <1>3, <2>1 DEF BeingReset, Resetting
    <3> QED BY <1>1, <1>6, <3>1 DEF KeptInv, ProvTypes
  <2> QED BY <1>1, <1>3, <1>4, <1>5, <2>1 DEF KeptInv
<1>12. PastInv'
  <2> SUFFICES ASSUME NEW e \in exts \cup UNION {known[d] : d \in Job}
               PROVE  Past(e.id[1], e.num, e.id[2])'
    BY <1>3, <1>4 DEF PastInv
  <2>1. Past(e.id[1], e.num, e.id[2])
    BY <1>1 DEF PastInv
  <2> QED BY <1>3, <2>1 DEF Past, Asked, BatchSize
<1>13. CleanInv'
  BY <1>1, <1>3, <1>4 DEF CleanInv, CleanOf
<1> QED BY <1>7, <1>8, <1>9, <1>10, <1>11, <1>12, <1>13 DEF ProvIInv

LEMMA InitProvIInv == ProvisionInit => ProvIInv
<1> SUFFICES ASSUME ProvisionInit PROVE ProvIInv
  OBVIOUS
<1>1. /\ org \in [Job -> Orgs] /\ taken \subseteq 1..(MaxSkips + 1) /\ package = FALSE
      /\ tenant \in [Orgs -> {"there", "none"}] /\ exts = {} /\ foreign \subseteq Orgs
  BY DEF ProvisionInit, Orgs
<1>2. \A j \in Job :
        /\ at[j] = "system" /\ next[j] = 1 /\ skips[j] = 0 /\ tries[j] = 0
        /\ DOMAIN answer[j] = {} /\ known[j] = {} /\ warned[j] = FALSE
  BY DEF ProvisionInit
<1>3. IsFiniteSet({}) /\ Cardinality({}) = 0 /\ MaxSkips \in Nat /\ MaxRetries \in Nat
  BY FS_EmptySet, ProvisionAssumption
<1>4. ProvTypes
  <2>1. at \in [Job -> Early \cup {"batch", "answer"} \cup Late \cup Removing]
    BY DEF ProvisionInit, Early
  <2>2. next \in [Job -> Nat \ {0}] /\ skips \in [Job -> Nat] /\ tries \in [Job -> 0..MaxRetries]
    BY <1>3 DEF ProvisionInit
  <2>3. known \in [Job -> SUBSET Ext] /\ warned \in [Job -> BOOLEAN] /\ OverJobs(answer)
    BY DEF ProvisionInit, OverJobs
  <2> QED BY <1>1, <1>2, <1>3, <2>1, <2>2, <2>3 DEF ProvTypes
<1>5. RecordsInv
  <2> SUFFICES ASSUME NEW j \in Job PROVE RecordsOf(j)
    BY DEF RecordsInv
  <2>1. /\ Cardinality(known[j]) + Cardinality(DOMAIN answer[j]) <= Count[j]
        /\ skips[j] <= MaxSkips /\ next[j] <= Count[j] + MaxSkips + 1
    <3>1. Cardinality(known[j]) = 0 /\ Cardinality(DOMAIN answer[j]) = 0 /\ skips[j] = 0 /\ next[j] = 1
      BY <1>2, <1>3
    <3>2. Count[j] \in Nat
      BY CountOf
    <3> QED BY ONLY <3>1, <3>2, <1>3
  <2>2. at[j] \in Early /\ at[j] \notin {"batch", "answer"} \cup Late \cup Removing
    BY <1>2 DEF Early, Late, Removing
  <2> QED BY <1>2, <2>1, <2>2 DEF RecordsOf
<1>6. AnswerInv
  BY <1>2 DEF AnswerInv, AnswerOf
<1>7. ExtsInv /\ KeptInv
  BY <1>1, <1>2 DEF ExtsInv, KeptInv
<1>8. PastInv
  BY <1>1, <1>2 DEF PastInv
<1>9. CleanInv
  BY <1>2 DEF CleanInv, CleanOf
<1> QED BY <1>4, <1>5, <1>6, <1>7, <1>8, <1>9 DEF ProvIInv

LEMMA NextProvIInv == ProvIInv /\ [ProvisionNext]_provVars => ProvIInv'
<1> SUFFICES ASSUME ProvIInv, [ProvisionNext]_provVars PROVE ProvIInv'
  OBVIOUS
<1>1. ASSUME NEW j \in Job, OfJob(j) PROVE ProvIInv'
  BY <1>1, NextTypes, NextRecords, NextAnswers, NextExts, NextKept, NextPast, NextClean DEF ProvIInv
<1>2. CASE \/ \E o \in Orgs : (TenantAppears(o) \/ TenantGoes(o)) /\ Chosen /\ Changed
           \/ Reload
           \/ UNCHANGED provVars
  BY <1>2, ByItself
<1> QED BY <1>1, <1>2 DEF ProvisionNext, OfJob

\* A server that is stored has every extension PBXware has of its org, but those past
\* its own of a job that asked for more.
LEMMA StoredHasAll ==
    ASSUME ProvIInv, NEW j \in Job, Stored(j), ~BeingReset(org[j]), NEW e \in In(org[j])
    PROVE  e \in known[j] \/ Beyond(j, e)
<1> DEFINE nums == {f.num : f \in known[j]}
           num == [f \in known[j] |-> f.num]
           free == (1..e.num) \ Taken(org[j])
<1>1. /\ ProvTypes /\ RecordsInv /\ AnswerInv /\ ExtsInv /\ KeptInv
  BY DEF ProvIInv
<1>2. e \in exts /\ e.org = org[j] /\ e.num \notin Taken(org[j]) /\ e.num \in Nat \ {0}
  <2>1. e \in exts /\ e.org = org[j]
    BY DEF In
  <2>2. e \in Ext /\ e.num \notin Taken(e.org)
    BY <1>1, <2>1 DEF ExtsInv, ProvTypes
  <2>3. e.num \in Numbers
    BY <2>2 DEF Ext
  <2> QED BY <2>1, <2>2, <2>3 DEF Numbers
<1>6. PICK k \in Job : org[k] = org[j] /\ Cardinality(free) <= Count[k]
  BY <1>1, <1>2 DEF ExtsInv
<1>3. /\ DOMAIN answer[j] = {} /\ Cardinality(known[j]) = Count[j] /\ next[j] \in Nat
      /\ \A f \in known[j] : f.num < next[j] /\ f.num \in Nat \ {0}
      /\ \A n \in 1..(next[j] - 1) : n \in Taken(org[j]) \cup nums
      /\ \A d, f \in known[j] : d.num = f.num => d = f
      /\ IsFiniteSet(known[j]) /\ \A f \in known[j] : f.org = org[j]
  BY <1>1 DEF Stored, RecordsInv, RecordsOf, ProvTypes, Ext, Numbers, Late
<1>7. \A f \in known[j] : f.num \notin Taken(org[j])
  BY <1>1, <1>3 DEF KeptInv, ExtsInv
<1>4. CASE e.num < next[j]
  <2>1. e.num \in nums
    BY <1>2, <1>3, <1>4
  <2>2. PICK f \in known[j] : f.num = e.num
    BY <2>1
  <2>3. f \in exts
    BY <1>1 DEF KeptInv
  <2>4. f = e
    BY <1>1, <1>2, <1>3, <2>2, <2>3 DEF ExtsInv
  <2> QED BY <2>4
<1>5. CASE ~(e.num < next[j])
  <2>1. num \in Surjection(known[j], nums) /\ num \in Injection(known[j], nums)
    <3>1. num \in [known[j] -> nums]
      OBVIOUS
    <3>2. \A n \in nums : \E f \in known[j] : num[f] = n
      OBVIOUS
    <3>3. \A d, f \in known[j] : num[d] = num[f] => d = f
      BY <1>3
    <3>4. num \in Surjection(known[j], nums)
      <4> HIDE DEF num, nums
      <4> QED BY <3>1, <3>2 DEF Surjection
    <3>5. num \in Injection(known[j], nums)
      <4> HIDE DEF num, nums
      <4> QED BY <3>1, <3>3 DEF Injection, IsInjective
    <3> QED BY <3>4, <3>5
  <2>2. IsFiniteSet(nums) /\ Cardinality(nums) = Count[j]
    <3> HIDE DEF num, nums
    <3> QED BY <1>3, <2>1, FS_Surjection
  <2>3. e.num \notin nums
    BY <1>3, <1>5
  <2>4. IsFiniteSet(nums \cup {e.num}) /\ Cardinality(nums \cup {e.num}) = Count[j] + 1
    <3> HIDE DEF nums
    <3> QED BY <2>2, <2>3, FS_AddElement
  <2>5. nums \cup {e.num} \subseteq free
    BY <1>2, <1>3, <1>5, <1>7
  <2>6. IsFiniteSet(free)
    <3>1. IsFiniteSet(1..e.num)
      BY <1>2, FS_Interval
    <3> QED BY <3>1, FS_Subset
  <2>7. Cardinality(nums \cup {e.num}) <= Cardinality(free) /\ Cardinality(free) \in Nat
    <3> HIDE DEF nums, free
    <3> QED BY <2>5, <2>6, FS_Subset, FS_CardinalityType
  <2>8. \A f \in known[j] : f.num < e.num
    BY <1>2, <1>3, <1>5
  <2> HIDE DEF nums, free
  <2>9. Count[k] \in Nat /\ Count[j] \in Nat
    BY CountOf
  <2>10. Count[k] > Count[j]
    <3> PICK x \in Nat, y \in Nat, z \in Nat : x = Count[j] /\ y = Count[k] /\ z = Cardinality(free)
      BY <2>7, <2>9
    <3>1. x + 1 <= z /\ z <= y
      BY <1>6, <2>4, <2>7
    <3> QED BY <3>1
  <2> QED BY <1>6, <2>8, <2>10 DEF Beyond
<1> QED BY <1>4, <1>5

LEMMA ProvIInvImplies == ProvIInv => ProvisionInv
<1> SUFFICES ASSUME ProvIInv PROVE ProvisionInv
  OBVIOUS
<1>1. /\ ProvTypes /\ RecordsInv /\ AnswerInv /\ ExtsInv /\ KeptInv /\ CleanInv
  BY DEF ProvIInv
<1>2. ProvisionTypeOK
  <2>1. ASSUME NEW j \in Job
        PROVE  /\ next[j] \in 1..(Count[j] + MaxSkips + 1) /\ skips[j] \in 0..MaxSkips
               /\ tries[j] \in 0..MaxRetries /\ Cardinality(known[j]) <= Count[j]
    <3>1. /\ next[j] \in Nat \ {0} /\ next[j] <= Count[j] + MaxSkips + 1
          /\ skips[j] \in Nat /\ skips[j] <= MaxSkips /\ tries[j] \in 0..MaxRetries
          /\ Cardinality(known[j]) + Cardinality(DOMAIN answer[j]) <= Count[j]
      BY <1>1 DEF RecordsInv, RecordsOf, ProvTypes
    <3>2. PICK c \in Nat, a \in Nat : c = Cardinality(known[j]) /\ a = Cardinality(DOMAIN answer[j])
      BY <1>1, AnswerCounts
    <3>3. c <= Count[j]
      BY <3>1, <3>2, CountOf
    <3> QED BY <3>1, <3>2, <3>3, CountOf
  <2>2. \A e \in exts : e.org \in Orgs /\ e.num \in Numbers \ Taken(e.org)
    BY <1>1 DEF ProvTypes, Ext, ExtsInv
  <2> QED BY <1>1, <2>1, <2>2 DEF ProvisionTypeOK, ProvTypes, ExtsInv
<1>3. NothingForgotten
  <2>1. \A j \in Job : Stored(j) => Cardinality(known[j]) = Count[j]
    BY <1>1 DEF Stored, RecordsInv, RecordsOf, Late
  <2>2. \A j \in Job : Stored(j) /\ ~BeingReset(org[j]) => \A e \in In(org[j]) : e \in known[j] \/ Beyond(j, e)
    BY StoredHasAll
  <2> QED BY <2>1, <2>2 DEF NothingForgotten, Ids
<1>4. SecretsWork
  BY <1>1 DEF SecretsWork, KeptInv, ExtsInv, In, ProvTypes
<1>5. CleanReset
  BY <1>1 DEF CleanReset, CleanInv, CleanOf
<1> QED BY <1>2, <1>3, <1>4, <1>5 DEF ProvisionInv

\* What a wizard stores of a server is what PBXware has of it, whatever is lost,
\* retried and run beside it, and a reset without a warning leaves none of it
\* (wizard.go:140-300, reset.go:72-139).
THEOREM StoredAsProvisioned == ProvisionSpec => []ProvisionInv
BY InitProvIInv, NextProvIInv, ProvIInvImplies, PTL DEF ProvisionSpec

\* A wizard is done only while Asterisk knows every extension (regcheck.go:16-28).
THEOREM ReadyAlwaysStored == ProvisionSpec => ReadyWhenStored
<1>1. ASSUME ProvIInv, ProvisionNext, NEW d \in Job, Stored(d)', ~Stored(d)
      PROVE  ~reloading
  <2>1. ASSUME NEW j \in Job, OfJob(j) PROVE ~reloading
    <3>1. Kinds(j) /\ \A k \in Job \ {j} : Same(k)
      BY <1>1, <2>1, StepKinds, OthersSame DEF ProvIInv
    <3>2. d = j /\ at'[j] = "stored" /\ at[j] # "stored"
      BY <1>1, <3>1 DEF Same, Stored
    <3>3. Probes(j)
      BY <3>1, <3>2
      DEF Kinds, Walks, Asks, Loses, GivesUp, StartsReset, Drops, Deletes, Reads, Early, AfterBatch, Cleared
    <3> QED BY <3>2, <3>3 DEF Probes
  <2>2. CASE Reload \/ \E o \in Orgs : TenantAppears(o) \/ TenantGoes(o)
    BY <1>1, <2>2 DEF Reload, TenantAppears, TenantGoes, Stored
  <2> QED BY <1>1, <2>1, <2>2 DEF ProvisionNext, OfJob
<1>2. ProvIInv /\ [ProvisionNext]_provVars =>
        [\A j \in Job : Stored(j)' => Stored(j) \/ ~reloading]_provVars
  BY <1>1
<1> QED BY InitProvIInv, NextProvIInv, <1>2, PTL DEF ProvisionSpec, ReadyWhenStored

-----------------------------------------------------------------------------
\* ServerSetup's behaviours are a host's, or requests to set and read recording,
\* or provisioning.
COROLLARY SetupInvariants ==
    Spec => [](ProvisionInv /\ HostInv /\ NoStereoAlone) /\ ReadyWhenStored /\ AnswersAreTrue
<1>1. Init => ProvisionInit /\ HostInit /\ RecordingInit
  BY DEF Init
<1>2. [Next]_vars => [ProvisionNext]_provVars /\ [HostNext]_hostVars /\ [RecordingNext]_recVars
  BY DEF Next, ProvisionServers, SetUpHost, SetRecordings, vars
<1>3. Spec => ProvisionSpec /\ HostSpec /\ RecordingSpec
  BY <1>1, <1>2, PTL DEF Spec, ProvisionSpec, HostSpec, RecordingSpec
<1> QED
  BY <1>3, StoredAsProvisioned, ReadyAlwaysStored, HostAsReported, NeverStereoAlone, AnswersAlwaysTrue, PTL
=============================================================================
