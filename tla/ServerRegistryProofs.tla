------------------------ MODULE ServerRegistryProofs ------------------------
(***************************************************************************)
(* Theorems about ServerRegistry for any servers, jobs and dial requests,  *)
(* any number of extensions, and any number of faults and restarts.        *)
(***************************************************************************)
EXTENDS ServerRegistry, TLAPS

Record == [details : Nat, peer : Server \cup {NoServer}, dids : BOOLEAN]

Args == Server \cup {NoServer} \cup Key

Built == Dial \cup {NoDial} \cup [details : Nat \X Nat, ranges : SUBSET SUBSET Nat]

\* The objects that are, or were, stored for server s.
IsOf(a, o, s) == o = s \/ o = NoObj \/ (o \in Update /\ a[o] = s)

UpdateAt == {"idle", "testing", "dropping", "saved", "done"}
ConnectAt == {"idle", "trunks", "marked", "first", "second", "done"}
ResetAt == {"idle", "tearing", "clearing", "removing", "done"}
DialAt == {"idle", "looking", "waiting", "building", "done"}

PlaceInv ==
    /\ pc \in [Job \cup Dial -> UpdateAt \cup ConnectAt \cup ResetAt \cup DialAt]
    /\ \A u \in Update : pc[u] \in UpdateAt
    /\ \A c \in Connect : pc[c] \in ConnectAt
    /\ \A r \in Reset : pc[r] \in ResetAt
    /\ \A q \in Dial : pc[q] \in DialAt
    /\ arg \in [Job \cup Dial -> Args]
    /\ \A u \in Update : pc[u] = "idle" => arg[u] = NoServer
    /\ \A u \in Update : pc[u] \in {"testing", "dropping"} => arg[u] \in Server
    /\ \A c \in Connect : pc[c] \notin {"idle", "done"} => arg[c] \in Key /\ arg[c][1] # arg[c][2]
    /\ \A r \in Reset : pc[r] \notin {"idle", "done"} => arg[r] \in Server
    /\ \A q \in Dial : pc[q] \notin {"idle", "done"} => arg[q] \in Key

ObjectInv ==
    /\ cfg \in [Server -> Obj \cup {NoObj}] /\ heap \in [Obj -> Record]
    /\ disk \in [Server -> Record \cup {NoObj}] /\ behind \in BOOLEAN
    /\ ptr \in [Job -> [Server -> Obj \cup {NoObj}]]
    /\ faults \in 0..MaxFaults /\ restarts \in 0..MaxRestarts

OwnerInv ==
    /\ \A s \in Server : IsOf(arg, cfg[s], s)
    /\ \A j \in Job, s \in Server : IsOf(arg, ptr[j][s], s)

CacheInv ==
    /\ sessions \in [Key -> Dial \cup {NoDial}] /\ pendingSessions \in [Key -> Dial \cup {NoDial}]
    /\ built \in [Dial -> Built]
    /\ nextPortOffset \in Nat
    /\ raced \subseteq Dial /\ undropped \subseteq Server
    \* Whoever builds a session is the one entered for it.
    /\ \A q \in Dial : pc[q] = "building" =>
         pendingSessions[arg[q]] = q /\ sessions[arg[q]] = NoDial
    /\ \A k \in Key : sessions[k] # NoDial => pc[sessions[k]] = "done"

\* Every range lies below the next one.
PortInv ==
    /\ \A q \in Dial : \A R \in Ranges(q) : R \subseteq 0 .. nextPortOffset - 1
    /\ PortsDisjoint

\* Request q has, or is building, the session of pair k.
Holds(q, k) == sessions[k] = q \/ (pc[q] = "building" /\ arg[q] = k)

Configured(q, s, n) ==
    \/ s \in undropped
    \/ \E u \in Update : pc[u] = "dropping" /\ arg[u] = s
    \/ Known(s) /\ built[q].details[n] = Rec(s).details

FreshInv ==
    \A q \in Dial, k \in Key, n \in {1, 2} :
        Holds(q, k) => q \in raced \/ Configured(q, k[n], n)

\* Once its sessions are dropped, a server that is being removed has raced ones only.
RemovedInv ==
    \A q \in Dial, k \in Key, n \in {1, 2} : Holds(q, k) /\ BeingRemoved(k[n]) => q \in raced

RegistryIInv == PlaceInv /\ ObjectInv /\ OwnerInv /\ CacheInv /\ PortInv /\ FreshInv /\ RemovedInv

LEMMA Names ==
    /\ NoServer \notin Server /\ NoDial \notin Dial /\ NoObj \notin Obj
    /\ Server \cap Update = {} /\ Dial \cap Job = {}
    /\ Update \cap (Connect \cup Reset) = {} /\ Connect \cap Reset = {}
    /\ Extensions \in Nat \ {0} /\ Gap \in Nat /\ MaxFaults \in Nat /\ MaxRestarts \in Nat
    /\ Asked \subseteq Key
BY RegistryAssumption DEF Obj, Job, Key


\* A job starts: GetServer, and what it is about.
LEMMA StartsPlace ==
    ASSUME PlaceInv, NEW j \in Job, NEW a \in Args, NEW S, NEW next, Starts(j, a, S, next),
           j \in Update => a \in Server /\ next = "testing",
           j \in Connect => a \in Key /\ a[1] # a[2] /\ next = "trunks",
           j \in Reset => a \in Server /\ next = "tearing"
    PROVE  PlaceInv'
<1>1. /\ pc[j] = "idle" /\ pc' = [pc EXCEPT ![j] = next] /\ arg' = [arg EXCEPT ![j] = a]
  BY DEF Starts, Moves
<1>2. /\ pc'[j] = next /\ arg'[j] = a /\ arg' \in [Job \cup Dial -> Args]
      /\ \A i \in (Job \cup Dial) \ {j} : pc'[i] = pc[i] /\ arg'[i] = arg[i]
  BY <1>1 DEF PlaceInv
<1>3. next \in UpdateAt \cup ConnectAt \cup ResetAt \cup DialAt /\ next \notin {"idle", "dropping"}
  BY DEF Job, UpdateAt, ConnectAt, ResetAt
<1>4. pc' \in [Job \cup Dial -> UpdateAt \cup ConnectAt \cup ResetAt \cup DialAt]
  BY <1>1, <1>3 DEF PlaceInv
<1> QED BY <1>2, <1>3, <1>4, Names DEF PlaceInv, UpdateAt, ConnectAt, ResetAt, DialAt, Job

LEMMA NextPlaceInv == PlaceInv /\ [Next]_vars => PlaceInv'
<1> SUFFICES ASSUME PlaceInv, [Next]_vars
             PROVE  PlaceInv'
  OBVIOUS
<1> USE Names DEF PlaceInv, UpdateAt, ConnectAt, ResetAt, DialAt, Moves, Job, storeVars, cacheVars, ghosts, bounds
<1>1. ASSUME NEW s \in Server, Provisioned(s)
      PROVE  PlaceInv'
  BY <1>1 DEF Provisioned, Save, Fault
<1>2. ASSUME NEW u \in Update, NEW s \in Server, UpdateStart(u, s)
      PROVE  PlaceInv'
  BY <1>2, StartsPlace DEF UpdateStart, Args
<1>3. ASSUME NEW u \in Update, UpdateStore(u)
      PROVE  PlaceInv'
  BY <1>3 DEF UpdateStore, UpdateServer, Save, Fault
<1>4. ASSUME NEW u \in Update, UpdateDrop(u)
      PROVE  PlaceInv'
  BY <1>4 DEF UpdateDrop, DropSessions
<1>5. ASSUME NEW c \in Connect, NEW s \in Server, NEW t \in Server, ConnectStart(c, s, t)
      PROVE  PlaceInv'
  <2>1. <<s, t>> \in Key /\ <<s, t>>[1] # <<s, t>>[2]
    BY <1>5 DEF ConnectStart, Key
  <2> QED BY <1>5, <2>1, StartsPlace DEF ConnectStart, Args
<1>6. ASSUME NEW c \in Connect, ConnectMarks(c) \/ ConnectRoutes(c)
      PROVE  PlaceInv'
  BY <1>6 DEF ConnectMarks, ConnectRoutes
<1>7. ASSUME NEW c \in Connect, ConnectFails(c)
      PROVE  PlaceInv'
  BY <1>7 DEF ConnectFails, Forgets, Fault
<1>8. ASSUME NEW c \in Connect, ConnectSave(c)
      PROVE  PlaceInv'
  BY <1>8 DEF ConnectSave, UpdateServer, Save, Fault, Forgets, Started
<1>9. ASSUME NEW r \in Reset, NEW s \in Server, ResetStart(r, s)
      PROVE  PlaceInv'
  BY <1>9, StartsPlace DEF ResetStart, Args
<1>10. ASSUME NEW r \in Reset, ResetDrop(r)
       PROVE  PlaceInv'
  BY <1>10 DEF ResetDrop, DropSessions
<1>11. ASSUME NEW r \in Reset, ResetClearsPeer(r)
       PROVE  PlaceInv'
  BY <1>11 DEF ResetClearsPeer, Save, Fault, Forgets
<1>12. ASSUME NEW r \in Reset, ResetRemoves(r)
       PROVE  PlaceInv'
  BY <1>12 DEF ResetRemoves, Save, Fault
<1>13. ASSUME NEW q \in Dial, NEW k \in Key, DialRequest(q, k)
       PROVE  PlaceInv'
  BY <1>13 DEF DialRequest, Args
<1>14. ASSUME NEW q \in Dial, LookReturns(q) \/ LookWaits(q)
       PROVE  PlaceInv'
  BY <1>14 DEF LookReturns, LookWaits
<1>15. ASSUME NEW q \in Dial, LookBuilds(q)
       PROVE  PlaceInv'
  BY <1>15 DEF LookBuilds
<1>16. ASSUME NEW q \in Dial, BuildOver(q)
       PROVE  PlaceInv'
  BY <1>16 DEF BuildOver, Fault
<1>17. ASSUME NEW q \in Dial, Wake(q)
       PROVE  PlaceInv'
  BY <1>17 DEF Wake
<1>18. CASE Wipe \/ Restart
  BY <1>18 DEF Wipe, Restart, Args
<1>19. CASE UNCHANGED vars
  BY <1>19 DEF vars
<1> QED
  BY <1>1, <1>2, <1>3, <1>4, <1>5, <1>6, <1>7, <1>8, <1>9, <1>10,
     <1>11, <1>12, <1>13, <1>14, <1>15, <1>16, <1>17, <1>18, <1>19
  DEF Next, JobStep, DialStep


LEMMA RecordOf == PlaceInv /\ ObjectInv =>
    \A s \in Server : Known(s) => cfg[s] \in Obj /\ Rec(s) \in Record
BY DEF ObjectInv, Known, Rec

LEMMA MarshalledRecords ==
    ASSUME NEW c \in [Server -> Obj \cup {NoObj}], NEW h \in [Obj -> Record]
    PROVE  Marshalled(c, h) \in [Server -> Record \cup {NoObj}]
BY DEF Marshalled

\* save puts records in the file, or leaves it.
LEMMA SaveTypes ==
    ASSUME ObjectInv, cfg' \in [Server -> Obj \cup {NoObj}], heap' \in [Obj -> Record],
           NEW ok \in BOOLEAN, Save(ok)
    PROVE  /\ disk' \in [Server -> Record \cup {NoObj}] /\ behind' \in BOOLEAN
           /\ faults' \in 0..MaxFaults
BY MarshalledRecords, Names DEF ObjectInv, Save, Fault

LEMMA UpdateServerTypes ==
    ASSUME ObjectInv, heap' \in [Obj -> Record], NEW s \in Server, NEW o \in Obj \cup {NoObj},
           NEW ok \in BOOLEAN, UpdateServer(s, o, ok)
    PROVE  /\ cfg' \in [Server -> Obj \cup {NoObj}] /\ disk' \in [Server -> Record \cup {NoObj}]
           /\ behind' \in BOOLEAN /\ faults' \in 0..MaxFaults
<1>1. CASE Known(s)
  <2>1. cfg' = [cfg EXCEPT ![s] = o] /\ Save(ok)
    BY <1>1 DEF UpdateServer
  <2>2. cfg' \in [Server -> Obj \cup {NoObj}]
    BY <2>1 DEF ObjectInv
  <2> QED BY <2>1, <2>2, SaveTypes
<1>2. CASE ~Known(s)
  BY <1>2 DEF UpdateServer, ObjectInv
<1> QED BY <1>1, <1>2

LEMMA StartsTypes ==
    ASSUME ObjectInv, NEW j \in Job, NEW a, NEW S, NEW next, Starts(j, a, S, next)
    PROVE  ptr' \in [Job -> [Server -> Obj \cup {NoObj}]]
<1>1. [s \in Server |-> IF s \in S THEN cfg[s] ELSE NoObj] \in [Server -> Obj \cup {NoObj}]
  BY DEF ObjectInv
<1> QED BY <1>1 DEF Starts, ObjectInv

LEMMA NextObjectInv == PlaceInv /\ ObjectInv /\ [Next]_vars => ObjectInv'
<1> SUFFICES ASSUME PlaceInv, ObjectInv, [Next]_vars
             PROVE  ObjectInv'
  OBVIOUS
<1> USE Names DEF ObjectInv, storeVars, cacheVars, ghosts, bounds
<1>1. ASSUME NEW s \in Server, Provisioned(s)
      PROVE  ObjectInv'
  <2>1. cfg' \in [Server -> Obj \cup {NoObj}]
    BY <1>1 DEF Provisioned, Obj
  <2> QED BY <1>1, <2>1, SaveTypes DEF Provisioned
<1>2. ASSUME NEW u \in Update, NEW s \in Server, UpdateStart(u, s)
      PROVE  ObjectInv'
  <2>1. Rec(s) \in Record /\ u \in Job
    BY <1>2, RecordOf DEF UpdateStart, Job
  <2>2. [Rec(s) EXCEPT !.details = @ + 1] \in Record
    BY <2>1 DEF Record
  <2> QED BY <1>2, <2>1, <2>2, StartsTypes DEF UpdateStart, Starts
<1>3. ASSUME NEW u \in Update, UpdateStore(u)
      PROVE  ObjectInv'
  <2>1. CASE Known(arg[u]) /\ \E ok \in BOOLEAN : UpdateServer(arg[u], u, ok)
    <3>1. arg[u] \in Server /\ u \in Obj
      BY <1>3 DEF UpdateStore, Moves, PlaceInv, Obj
    <3> QED BY <1>3, <2>1, <3>1, UpdateServerTypes DEF UpdateStore
  <2>2. CASE UNCHANGED <<cfg, disk, behind>> /\ (Fault(TRUE) \/ UNCHANGED faults)
    BY <1>3, <2>2 DEF UpdateStore, Fault
  <2> QED BY <1>3, <2>1, <2>2 DEF UpdateStore
<1>4. ASSUME NEW u \in Update, UpdateDrop(u)
      PROVE  ObjectInv'
  BY <1>4 DEF UpdateDrop, DropSessions
<1>5. ASSUME NEW c \in Connect, NEW s \in Server, NEW t \in Server, ConnectStart(c, s, t)
      PROVE  ObjectInv'
  <2>1. c \in Job
    BY DEF Job
  <2> QED BY <1>5, <2>1, StartsTypes DEF ConnectStart, Starts
<1>6. ASSUME NEW c \in Connect, ConnectMarks(c) \/ ConnectRoutes(c)
      PROVE  ObjectInv'
  <2>1. CASE ConnectMarks(c)
    <3>1. arg[c][1] \in Server /\ arg[c][2] \in Server
      BY <2>1 DEF ConnectMarks, Moves, PlaceInv, Key
    <3>2. \A o \in Obj : [heap[o] EXCEPT !.peer = PeerOf(c, o)] \in Record
      BY <3>1 DEF PeerOf, Record
    <3> QED BY <2>1, <3>2 DEF ConnectMarks
  <2>2. CASE ConnectRoutes(c)
    <3>1. \A o \in Obj : [heap[o] EXCEPT !.dids = TRUE] \in Record
      BY DEF Record
    <3> QED BY <2>2, <3>1 DEF ConnectRoutes
  <2> QED BY <1>6, <2>1, <2>2
<1>7. ASSUME NEW c \in Connect, ConnectFails(c)
      PROVE  ObjectInv'
  <2>1. NoPtr \in [Server -> Obj \cup {NoObj}]
    BY DEF NoPtr
  <2>2. ptr' = [ptr EXCEPT ![c] = NoPtr] /\ UNCHANGED <<cfg, heap, disk, restarts>> /\ behind' \in BOOLEAN
    BY <1>7 DEF ConnectFails, Forgets
  <2>3. faults' \in 0..MaxFaults
    BY <1>7 DEF ConnectFails, Fault
  <2> QED BY <2>1, <2>2, <2>3
<1>8. ASSUME NEW c \in Connect, ConnectSave(c)
      PROVE  ObjectInv'
  <2>1. NoPtr \in [Server -> Obj \cup {NoObj}]
    BY DEF NoPtr
  <2>2. PICK n \in {1, 2}, ok \in BOOLEAN : UpdateServer(arg[c][n], Started(c, arg[c][n]), ok)
    BY <1>8 DEF ConnectSave
  <2>3. arg[c] \in Key /\ c \in Job
    BY <1>8 DEF ConnectSave, Moves, PlaceInv, Job
  <2>4. arg[c][n] \in Server /\ Started(c, arg[c][n]) \in Obj \cup {NoObj}
    BY <2>3 DEF Key, Started
  <2>5. heap' = heap /\ restarts' = restarts /\ (ptr' = ptr \/ ptr' = [ptr EXCEPT ![c] = NoPtr])
    BY <1>8 DEF ConnectSave, Forgets
  <2> QED BY <2>1, <2>2, <2>4, <2>5, UpdateServerTypes
<1>9. ASSUME NEW r \in Reset, NEW s \in Server, ResetStart(r, s)
      PROVE  ObjectInv'
  <2>1. r \in Job
    BY DEF Job
  <2> QED BY <1>9, <2>1, StartsTypes DEF ResetStart, Starts
<1>10. ASSUME NEW r \in Reset, ResetDrop(r)
       PROVE  ObjectInv'
  BY <1>10 DEF ResetDrop, DropSessions
<1>11. ASSUME NEW r \in Reset, ResetClearsPeer(r)
       PROVE  ObjectInv'
  <2> DEFINE p == heap[ptr[r][arg[r]]].peer
  <2>1. NoPtr \in [Server -> Obj \cup {NoObj}]
    BY DEF NoPtr
  <2>2. ptr' = [ptr EXCEPT ![r] = NoPtr] /\ restarts' = restarts
    BY <1>11 DEF ResetClearsPeer, Forgets
  <2>3. CASE cfg' = cfg /\ heap' = [heap EXCEPT ![cfg[p]].peer = NoServer] /\ \E ok \in BOOLEAN : Save(ok)
    <3>1. \A o \in Obj : [heap[o] EXCEPT !.peer = NoServer] \in Record
      BY DEF Record
    <3>2. heap' \in [Obj -> Record]
      BY <2>3, <3>1
    <3> QED BY <2>1, <2>2, <2>3, <3>2, SaveTypes
  <2>4. CASE UNCHANGED <<cfg, heap, disk, behind, faults>>
    BY <2>1, <2>2, <2>4
  <2> QED BY <1>11, <2>3, <2>4 DEF ResetClearsPeer
<1>12. ASSUME NEW r \in Reset, ResetRemoves(r)
       PROVE  ObjectInv'
  <2>1. cfg' \in [Server -> Obj \cup {NoObj}] /\ heap' = heap /\ UNCHANGED <<ptr, restarts>>
    BY <1>12 DEF ResetRemoves
  <2> QED BY <1>12, <2>1, SaveTypes DEF ResetRemoves
<1>13. ASSUME NEW q \in Dial, NEW k \in Key, DialRequest(q, k)
       PROVE  ObjectInv'
  BY <1>13 DEF DialRequest
<1>14. ASSUME NEW q \in Dial, LookReturns(q) \/ LookWaits(q)
       PROVE  ObjectInv'
  BY <1>14 DEF LookReturns, LookWaits
<1>15. ASSUME NEW q \in Dial, LookBuilds(q)
       PROVE  ObjectInv'
  BY <1>15 DEF LookBuilds
<1>16. ASSUME NEW q \in Dial, BuildOver(q)
       PROVE  ObjectInv'
  BY <1>16 DEF BuildOver, Fault
<1>17. ASSUME NEW q \in Dial, Wake(q)
       PROVE  ObjectInv'
  BY <1>17 DEF Wake
<1>18. CASE Wipe \/ Restart
  <2>1. CASE Wipe
    BY <2>1 DEF Wipe
  <2>2. CASE Restart
    <3>1. NewServer \in Record /\ NoPtr \in [Server -> Obj \cup {NoObj}] /\ Server \subseteq Obj
      BY DEF NewServer, Record, NoPtr, Obj
    <3>2. cfg' \in [Server -> Obj \cup {NoObj}]
      BY <2>2, <3>1 DEF Restart
    <3>3. heap' \in [Obj -> Record]
      BY <2>2, <3>1 DEF Restart
    <3>4. ptr' \in [Job -> [Server -> Obj \cup {NoObj}]] /\ restarts' \in 0..MaxRestarts
      BY <2>2, <3>1 DEF Restart
    <3> QED BY <2>2, <3>2, <3>3, <3>4 DEF Restart
  <2> QED BY <1>18, <2>1, <2>2
<1>19. CASE UNCHANGED vars
  BY <1>19 DEF vars
<1> QED
  BY <1>1, <1>2, <1>3, <1>4, <1>5, <1>6, <1>7, <1>8, <1>9, <1>10,
     <1>11, <1>12, <1>13, <1>14, <1>15, <1>16, <1>17, <1>18, <1>19
  DEF Next, JobStep, DialStep

\* Nothing that is handed out changes its owner: an update's copy has one server.
LEMMA OwnersStay ==
    ASSUME PlaceInv, OwnerInv,
           \A u \in Update : pc[u] # "idle" => arg'[u] = arg[u],
           \A s \in Server : cfg'[s] = cfg[s] \/ IsOf(arg', cfg'[s], s),
           \A j \in Job, s \in Server :
              ptr'[j][s] \in {ptr[j][s], cfg[s], NoObj}
    PROVE  OwnerInv'
<1>1. ASSUME NEW s \in Server, NEW o, IsOf(arg, o, s)
      PROVE  IsOf(arg', o, s)
  BY <1>1, Names DEF IsOf, PlaceInv
<1>2. ASSUME NEW s \in Server
      PROVE  IsOf(arg', cfg'[s], s)
  <2>1. IsOf(arg, cfg[s], s)
    BY DEF OwnerInv
  <2> QED BY <1>1, <2>1
<1>3. ASSUME NEW j \in Job, NEW s \in Server
      PROVE  IsOf(arg', ptr'[j][s], s)
  <2>1. IsOf(arg, cfg[s], s) /\ IsOf(arg, ptr[j][s], s) /\ IsOf(arg, NoObj, s)
    BY DEF OwnerInv, IsOf
  <2> QED BY <1>1, <2>1
<1> QED BY <1>2, <1>3 DEF OwnerInv

LEMMA NextOwnerInv == PlaceInv /\ ObjectInv /\ OwnerInv /\ [Next]_vars => OwnerInv'
<1> SUFFICES ASSUME PlaceInv, ObjectInv, OwnerInv, [Next]_vars
             PROVE  OwnerInv'
  OBVIOUS
<1> USE Names DEF Moves, Job, storeVars, cacheVars, ghosts, bounds
<1>1. ASSUME NEW s \in Server, Provisioned(s)
      PROVE  OwnerInv'
  <2>1. cfg' = [cfg EXCEPT ![s] = s] /\ arg' = arg /\ ptr' = ptr /\ IsOf(arg', s, s)
    BY <1>1 DEF Provisioned, IsOf
  <2>2. \A x \in Server : cfg'[x] = cfg[x] \/ IsOf(arg', cfg'[x], x)
    BY <2>1 DEF ObjectInv
  <2> QED BY <2>1, <2>2, OwnersStay
<1>2. ASSUME NEW u \in Update, NEW s \in Server, UpdateStart(u, s)
      PROVE  OwnerInv'
  <2>1. ptr' = [ptr EXCEPT ![u] = [x \in Server |-> IF x \in {} THEN cfg[x] ELSE NoObj]]
    BY <1>2 DEF UpdateStart, Starts
  <2> QED BY <1>2, <2>1, OwnersStay DEF UpdateStart, Starts, PlaceInv, ObjectInv
<1>3. ASSUME NEW u \in Update, UpdateStore(u)
      PROVE  OwnerInv'
  <2>1. cfg' = cfg \/ cfg' = [cfg EXCEPT ![arg[u]] = u]
    BY <1>3 DEF UpdateStore, UpdateServer
  <2>2. arg' = arg /\ ptr' = ptr /\ IsOf(arg', u, arg[u])
    BY <1>3 DEF UpdateStore, IsOf
  <2>3. \A x \in Server : cfg'[x] = cfg[x] \/ IsOf(arg', cfg'[x], x)
    BY <2>1, <2>2 DEF ObjectInv
  <2> QED BY <2>2, <2>3, OwnersStay
<1>4. ASSUME NEW u \in Update, UpdateDrop(u)
      PROVE  OwnerInv'
  BY <1>4, OwnersStay DEF UpdateDrop, DropSessions
<1>5. ASSUME NEW c \in Connect, NEW s \in Server, NEW t \in Server, ConnectStart(c, s, t)
      PROVE  OwnerInv'
  <2>1. ptr' = [ptr EXCEPT ![c] = [x \in Server |-> IF x \in {s, t} THEN cfg[x] ELSE NoObj]]
    BY <1>5 DEF ConnectStart, Starts
  <2>2. cfg' = cfg /\ \A u \in Update : arg'[u] = arg[u]
    BY <1>5 DEF ConnectStart, Starts, PlaceInv
  <2> QED BY <2>1, <2>2, OwnersStay DEF ObjectInv
<1>6. ASSUME NEW c \in Connect, ConnectMarks(c) \/ ConnectRoutes(c)
      PROVE  OwnerInv'
  BY <1>6, OwnersStay DEF ConnectMarks, ConnectRoutes
<1>7. ASSUME NEW c \in Connect, ConnectFails(c)
      PROVE  OwnerInv'
  <2>1. ptr' = [ptr EXCEPT ![c] = [x \in Server |-> NoObj]] /\ cfg' = cfg /\ arg' = arg
    BY <1>7 DEF ConnectFails, Forgets, NoPtr
  <2> QED BY <2>1, OwnersStay DEF ObjectInv
<1>8. ASSUME NEW c \in Connect, ConnectSave(c)
      PROVE  OwnerInv'
  <2>1. PICK n \in {1, 2}, ok \in BOOLEAN : UpdateServer(arg[c][n], Started(c, arg[c][n]), ok)
    BY <1>8 DEF ConnectSave
  <2>2. cfg' = cfg \/ cfg' = [cfg EXCEPT ![arg[c][n]] = ptr[c][arg[c][n]]]
    BY <2>1 DEF UpdateServer, Started
  <2>3. arg' = arg /\ (ptr' = ptr \/ ptr' = [ptr EXCEPT ![c] = [x \in Server |-> NoObj]])
    BY <1>8 DEF ConnectSave, Forgets, NoPtr
  <2>4. arg[c] \in Key
    BY <1>8 DEF ConnectSave, PlaceInv
  <2>5. arg[c][n] \in Server
    BY <2>4 DEF Key
  <2>6. IsOf(arg', ptr[c][arg[c][n]], arg[c][n])
    BY <2>3, <2>5 DEF OwnerInv
  <2>7. \A x \in Server : cfg'[x] = cfg[x] \/ IsOf(arg', cfg'[x], x)
    BY <2>2, <2>6 DEF ObjectInv
  <2>8. \A j \in Job, x \in Server : ptr'[j][x] \in {ptr[j][x], cfg[x], NoObj}
    BY <2>3 DEF ObjectInv
  <2> QED BY <2>3, <2>7, <2>8, OwnersStay
<1>9. ASSUME NEW r \in Reset, NEW s \in Server, ResetStart(r, s)
      PROVE  OwnerInv'
  <2>1. ptr' = [ptr EXCEPT ![r] = [x \in Server |-> IF x \in {s} THEN cfg[x] ELSE NoObj]]
    BY <1>9 DEF ResetStart, Starts
  <2>2. cfg' = cfg /\ \A u \in Update : arg'[u] = arg[u]
    BY <1>9 DEF ResetStart, Starts, PlaceInv
  <2> QED BY <2>1, <2>2, OwnersStay DEF ObjectInv
<1>10. ASSUME NEW r \in Reset, ResetDrop(r)
       PROVE  OwnerInv'
  BY <1>10, OwnersStay DEF ResetDrop, DropSessions
<1>11. ASSUME NEW r \in Reset, ResetClearsPeer(r)
       PROVE  OwnerInv'
  <2>1. ptr' = [ptr EXCEPT ![r] = [x \in Server |-> NoObj]] /\ cfg' = cfg /\ arg' = arg
    BY <1>11 DEF ResetClearsPeer, Forgets, NoPtr
  <2> QED BY <2>1, OwnersStay DEF ObjectInv
<1>12. ASSUME NEW r \in Reset, ResetRemoves(r)
       PROVE  OwnerInv'
  <2>1. cfg' = [cfg EXCEPT ![arg[r]] = NoObj] /\ arg' = arg /\ ptr' = ptr
    BY <1>12 DEF ResetRemoves
  <2>2. \A x \in Server : cfg'[x] = cfg[x] \/ IsOf(arg', cfg'[x], x)
    BY <2>1 DEF ObjectInv, IsOf
  <2> QED BY <2>1, <2>2, OwnersStay
<1>13. ASSUME NEW q \in Dial, NEW k \in Key, DialRequest(q, k)
       PROVE  OwnerInv'
  BY <1>13, OwnersStay DEF DialRequest, PlaceInv
<1>14. ASSUME NEW q \in Dial, LookReturns(q) \/ LookWaits(q)
       PROVE  OwnerInv'
  BY <1>14, OwnersStay DEF LookReturns, LookWaits
<1>15. ASSUME NEW q \in Dial, LookBuilds(q)
       PROVE  OwnerInv'
  BY <1>15, OwnersStay DEF LookBuilds
<1>16. ASSUME NEW q \in Dial, BuildOver(q)
       PROVE  OwnerInv'
  BY <1>16, OwnersStay DEF BuildOver
<1>17. ASSUME NEW q \in Dial, Wake(q)
       PROVE  OwnerInv'
  BY <1>17, OwnersStay DEF Wake
<1>18. CASE Wipe \/ Restart
  <2>1. CASE Wipe
    BY <2>1, OwnersStay DEF Wipe
  <2>2. CASE Restart
    BY <2>2 DEF Restart, OwnerInv, IsOf, NoPtr
  <2> QED BY <1>18, <2>1, <2>2
<1>19. CASE UNCHANGED vars
  BY <1>19, OwnersStay DEF vars
<1> QED
  BY <1>1, <1>2, <1>3, <1>4, <1>5, <1>6, <1>7, <1>8, <1>9, <1>10,
     <1>11, <1>12, <1>13, <1>14, <1>15, <1>16, <1>17, <1>18, <1>19
  DEF Next, JobStep, DialStep

\* Of a session being built nothing is dropped; what is dropped was complete.
LEMMA SessionsDropped ==
    ASSUME PlaceInv, CacheInv, NEW j \in Update \cup Reset, NEW s \in Server, DropSessions(s),
           NEW to, pc' = [pc EXCEPT ![j] = to]
    PROVE  CacheInv'
<1>1. /\ sessions' = Dropped(s) /\ UNCHANGED <<arg, pendingSessions, built, nextPortOffset>>
      /\ raced' \subseteq Dial /\ undropped' \subseteq Server
  BY DEF DropSessions, CacheInv
<1>2. \A q \in Dial : pc'[q] = pc[q]
  BY Names DEF PlaceInv, Job
<1>3. sessions' \in [Key -> Dial \cup {NoDial}] /\ \A k \in Key : sessions'[k] \in {sessions[k], NoDial}
  BY <1>1 DEF Dropped, CacheInv
<1>4. \A q \in Dial : pc[q] = "building" => arg[q] \in Key
  BY DEF PlaceInv
<1> QED BY <1>1, <1>2, <1>3, <1>4, Names DEF CacheInv

LEMMA NextCacheInv == PlaceInv /\ ObjectInv /\ CacheInv /\ [Next]_vars => CacheInv'
<1> SUFFICES ASSUME PlaceInv, ObjectInv, CacheInv, [Next]_vars
             PROVE  CacheInv'
  OBVIOUS
<1> USE Names DEF Moves, storeVars, cacheVars, ghosts, bounds
<1>1. ASSUME NEW s \in Server, Provisioned(s)
      PROVE  CacheInv'
  BY <1>1 DEF Provisioned, PlaceInv, CacheInv
<1>2. ASSUME NEW u \in Update, NEW s \in Server, UpdateStart(u, s)
      PROVE  CacheInv'
  BY <1>2 DEF UpdateStart, Starts, PlaceInv, CacheInv, Job
<1>3. ASSUME NEW u \in Update, UpdateStore(u)
      PROVE  CacheInv'
  <2>1. UNCHANGED <<cacheVars, arg, raced>> /\ \A q \in Dial : pc'[q] = pc[q]
    BY <1>3 DEF UpdateStore, PlaceInv, Job
  <2>2. arg[u] \in Server /\ undropped' \in {undropped, undropped \cup {arg[u]}}
    BY <1>3 DEF UpdateStore, PlaceInv
  <2> QED BY <2>1, <2>2 DEF CacheInv
<1>4. ASSUME NEW u \in Update, UpdateDrop(u)
      PROVE  CacheInv'
  <2>1. arg[u] \in Server
    BY <1>4 DEF UpdateDrop, PlaceInv
  <2> QED BY <1>4, <2>1, SessionsDropped DEF UpdateDrop
<1>5. ASSUME NEW c \in Connect, NEW s \in Server, NEW t \in Server, ConnectStart(c, s, t)
      PROVE  CacheInv'
  BY <1>5 DEF ConnectStart, Starts, PlaceInv, CacheInv, Job
<1>6. ASSUME NEW c \in Connect, ConnectMarks(c) \/ ConnectRoutes(c)
      PROVE  CacheInv'
  BY <1>6 DEF ConnectMarks, ConnectRoutes, PlaceInv, CacheInv, Job
<1>7. ASSUME NEW c \in Connect, ConnectFails(c)
      PROVE  CacheInv'
  BY <1>7 DEF ConnectFails, PlaceInv, CacheInv, Job
<1>8. ASSUME NEW c \in Connect, ConnectSave(c)
      PROVE  CacheInv'
  <2>1. UNCHANGED <<cacheVars, arg, raced>> /\ \A q \in Dial : pc'[q] = pc[q]
    BY <1>8 DEF ConnectSave, PlaceInv, Job
  <2>2. PICK n \in {1, 2} : undropped' \in {undropped, undropped \cup {arg[c][n]}}
    BY <1>8 DEF ConnectSave
  <2>3. arg[c] \in Key
    BY <1>8 DEF ConnectSave, PlaceInv
  <2>4. undropped' \subseteq Server
    BY <2>2, <2>3 DEF Key, CacheInv
  <2> QED BY <2>1, <2>4 DEF CacheInv
<1>9. ASSUME NEW r \in Reset, NEW s \in Server, ResetStart(r, s)
      PROVE  CacheInv'
  BY <1>9 DEF ResetStart, Starts, PlaceInv, CacheInv, Job
<1>10. ASSUME NEW r \in Reset, ResetDrop(r)
       PROVE  CacheInv'
  <2>1. arg[r] \in Server
    BY <1>10 DEF ResetDrop, PlaceInv
  <2> QED BY <1>10, <2>1, SessionsDropped DEF ResetDrop
<1>11. ASSUME NEW r \in Reset, ResetClearsPeer(r)
       PROVE  CacheInv'
  BY <1>11 DEF ResetClearsPeer, PlaceInv, CacheInv, Job
<1>12. ASSUME NEW r \in Reset, ResetRemoves(r)
       PROVE  CacheInv'
  BY <1>12 DEF ResetRemoves, PlaceInv, CacheInv, Job
<1>13. ASSUME NEW q \in Dial, NEW k \in Key, DialRequest(q, k)
       PROVE  CacheInv'
  <2>1. /\ pc' = [pc EXCEPT ![q] = "looking"] /\ pc[q] = "idle" /\ arg' = [arg EXCEPT ![q] = k]
        /\ UNCHANGED <<cacheVars, ghosts>>
    BY <1>13 DEF DialRequest
  <2>2. \A p \in Dial \ {q} : pc'[p] = pc[p] /\ arg'[p] = arg[p]
    BY <2>1 DEF PlaceInv
  <2>3. pc'[q] = "looking" /\ \A x \in Key : sessions[x] # q
    BY <2>1, Names DEF PlaceInv, CacheInv
  <2> QED BY <2>1, <2>2, <2>3 DEF CacheInv
<1>14. ASSUME NEW q \in Dial, LookReturns(q) \/ LookWaits(q)
       PROVE  CacheInv'
  <2>1. /\ pc' = [pc EXCEPT ![q] = pc'[q]] /\ pc[q] = "looking" /\ pc'[q] \in {"done", "waiting"}
        /\ UNCHANGED <<arg, sessions, pendingSessions, ghosts>> /\ arg[q] \in Key
    BY <1>14 DEF LookReturns, LookWaits, PlaceInv
  <2>2. built' \in [Dial -> Built] /\ nextPortOffset' \in Nat
    BY <1>14, <2>1 DEF LookReturns, LookWaits, CacheInv, Built, allocPortRange
  <2> QED BY <2>1, <2>2 DEF CacheInv, PlaceInv
<1>15. ASSUME NEW q \in Dial, LookBuilds(q)
       PROVE  CacheInv'
  <2> DEFINE k == arg[q]
  <2>1. /\ pc' = [pc EXCEPT ![q] = "building"] /\ pc[q] = "looking" /\ arg' = arg /\ k \in Key
        /\ sessions' = sessions /\ sessions[k] = NoDial /\ pendingSessions[k] = NoDial
        /\ pendingSessions' = [pendingSessions EXCEPT ![k] = q] /\ undropped' = undropped
    BY <1>15 DEF LookBuilds, PlaceInv, MayBuild
  <2>2. nextPortOffset' \in Nat /\ raced' \subseteq Dial
    BY <1>15 DEF LookBuilds, CacheInv, allocPortRange
  <2>3. built' \in [Dial -> Built]
    <3>1. RangesAt(nextPortOffset, k) \in SUBSET SUBSET Nat
      BY DEF RangesAt, CacheInv
    <3>2. Rec(k[1]).details \in Nat /\ Rec(k[2]).details \in Nat
      BY <1>15, <2>1, RecordOf DEF LookBuilds, Dialable, Key, Record
    <3>3. [details |-> <<Rec(k[1]).details, Rec(k[2]).details>>, ranges |-> RangesAt(nextPortOffset, k)] \in Built
      BY <3>1, <3>2 DEF Built
    <3> QED BY <1>15, <3>3 DEF LookBuilds, CacheInv
  <2>4. \A p \in Dial \ {q} : pc[p] = "building" => arg[p] # k
    BY <2>1, Names DEF CacheInv
  <2>5. k = arg[q] /\ pc'[q] = "building" /\ \A p \in Dial \ {q} : pc'[p] = pc[p]
    BY <2>1 DEF PlaceInv
  <2>6. \A p \in Dial : pc[p] = "building" => arg[p] \in Key
    BY DEF PlaceInv
  <2> HIDE DEF k
  <2>7. \A p \in Dial : pc'[p] = "building" => pendingSessions'[arg'[p]] = p /\ sessions'[arg'[p]] = NoDial
    BY <2>1, <2>4, <2>5, <2>6 DEF CacheInv
  <2>8. \A x \in Key : sessions'[x] # NoDial => pc'[sessions'[x]] = "done"
    BY <2>1, <2>5 DEF CacheInv
  <2>9. sessions' \in [Key -> Dial \cup {NoDial}] /\ pendingSessions' \in [Key -> Dial \cup {NoDial}]
    BY <2>1 DEF CacheInv
  <2> QED BY <2>1, <2>2, <2>3, <2>7, <2>8, <2>9 DEF CacheInv
<1>16. ASSUME NEW q \in Dial, BuildOver(q)
       PROVE  CacheInv'
  <2> DEFINE k == arg[q]
  <2>1. /\ pc' = [pc EXCEPT ![q] = "done"] /\ pc[q] = "building" /\ arg' = arg /\ k \in Key
        /\ sessions' \in {sessions, [sessions EXCEPT ![k] = q]}
        /\ pendingSessions' = [pendingSessions EXCEPT ![k] = NoDial]
        /\ UNCHANGED <<built, nextPortOffset, ghosts>>
    BY <1>16 DEF BuildOver, PlaceInv
  <2>2. \A p \in Dial \ {q} : pc[p] = "building" => arg[p] # k
    BY <2>1, Names DEF CacheInv
  <2> HIDE DEF k
  <2> QED BY <2>1, <2>2 DEF CacheInv, PlaceInv
<1>17. ASSUME NEW q \in Dial, Wake(q)
       PROVE  CacheInv'
  <2>1. built' \in [Dial -> Built]
    BY <1>17 DEF Wake, CacheInv, Built
  <2> QED BY <1>17, <2>1 DEF Wake, CacheInv, PlaceInv
<1>18. CASE Wipe \/ Restart
  BY <1>18 DEF Wipe, Restart, PlaceInv, CacheInv, Built, DialAt
<1>19. CASE UNCHANGED vars
  BY <1>19 DEF vars, CacheInv
<1> QED
  BY <1>1, <1>2, <1>3, <1>4, <1>5, <1>6, <1>7, <1>8, <1>9, <1>10,
     <1>11, <1>12, <1>13, <1>14, <1>15, <1>16, <1>17, <1>18, <1>19
  DEF Next, JobStep, DialStep

LEMMA RangesBelow ==
    ASSUME NEW base \in Nat, NEW k, NEW R \in RangesAt(base, k),
           NEW next, next = base + (Extensions + Gap) * (IF k[1] = k[2] THEN 1 ELSE 2)
    PROVE  /\ R \subseteq base .. next - 1 /\ next \in Nat /\ base <= next
           /\ \A S \in RangesAt(base, k) : R = S \/ R \cap S = {}
<1>1. CASE k[1] = k[2]
  <2>1. next = base + Extensions + Gap
    BY <1>1, Names
  <2> QED BY <1>1, <2>1, Names DEF RangesAt
<1>2. CASE k[1] # k[2]
  <2>1. next = base + 2 * Extensions + 2 * Gap
    BY <1>2, Names
  <2> QED BY <1>2, <2>1, Names DEF RangesAt
<1> QED BY <1>1, <1>2

\* Who reads no new range keeps the others apart.
LEMMA PortsKept ==
    ASSUME PortInv, NEW n \in Nat, nextPortOffset = n, nextPortOffset' \in Nat, n <= nextPortOffset',
           \A q \in Dial : Ranges(q)' \subseteq Ranges(q)
    PROVE  PortInv'
BY DEF PortInv, PortsDisjoint

LEMMA NextPortInv == PlaceInv /\ CacheInv /\ PortInv /\ [Next]_vars => PortInv'
<1> SUFFICES ASSUME PlaceInv, CacheInv, PortInv, [Next]_vars
             PROVE  PortInv'
  OBVIOUS
<1> USE Names DEF storeVars, cacheVars, ghosts, bounds, CacheInv
<1>1. ASSUME NEW s \in Server, Provisioned(s)
      PROVE  PortInv'
  BY <1>1, PortsKept DEF Provisioned, Ranges
<1>2. ASSUME NEW u \in Update, NEW s \in Server, UpdateStart(u, s)
      PROVE  PortInv'
  BY <1>2, PortsKept DEF UpdateStart, Starts, Ranges
<1>3. ASSUME NEW u \in Update, UpdateStore(u)
      PROVE  PortInv'
  BY <1>3, PortsKept DEF UpdateStore, Ranges
<1>4. ASSUME NEW u \in Update, UpdateDrop(u)
      PROVE  PortInv'
  BY <1>4, PortsKept DEF UpdateDrop, DropSessions, Ranges
<1>5. ASSUME NEW c \in Connect, NEW s \in Server, NEW t \in Server, ConnectStart(c, s, t)
      PROVE  PortInv'
  BY <1>5, PortsKept DEF ConnectStart, Starts, Ranges
<1>6. ASSUME NEW c \in Connect, ConnectMarks(c) \/ ConnectRoutes(c)
      PROVE  PortInv'
  BY <1>6, PortsKept DEF ConnectMarks, ConnectRoutes, Ranges
<1>7. ASSUME NEW c \in Connect, ConnectFails(c)
      PROVE  PortInv'
  BY <1>7, PortsKept DEF ConnectFails, Ranges
<1>8. ASSUME NEW c \in Connect, ConnectSave(c)
      PROVE  PortInv'
  BY <1>8, PortsKept DEF ConnectSave, Ranges
<1>9. ASSUME NEW r \in Reset, NEW s \in Server, ResetStart(r, s)
      PROVE  PortInv'
  BY <1>9, PortsKept DEF ResetStart, Starts, Ranges
<1>10. ASSUME NEW r \in Reset, ResetDrop(r)
       PROVE  PortInv'
  BY <1>10, PortsKept DEF ResetDrop, DropSessions, Ranges
<1>11. ASSUME NEW r \in Reset, ResetClearsPeer(r)
       PROVE  PortInv'
  <2>1. UNCHANGED <<built, nextPortOffset>>
    BY <1>11 DEF ResetClearsPeer
  <2> QED BY <2>1, PortsKept DEF Ranges
<1>12. ASSUME NEW r \in Reset, ResetRemoves(r)
       PROVE  PortInv'
  BY <1>12, PortsKept DEF ResetRemoves, Ranges
<1>13. ASSUME NEW q \in Dial, NEW k \in Key, DialRequest(q, k)
       PROVE  PortInv'
  BY <1>13, PortsKept DEF DialRequest, Ranges
<1>14. ASSUME NEW q \in Dial, LookReturns(q) \/ LookWaits(q)
       PROVE  PortInv'
  <2>1. nextPortOffset' \in Nat /\ nextPortOffset <= nextPortOffset'
    BY <1>14 DEF LookReturns, LookWaits, allocPortRange
  <2>2. built' = built \/ built' = [built EXCEPT ![q] = pendingSessions[arg[q]]]
    BY <1>14 DEF LookReturns, LookWaits
  <2>3. pendingSessions[arg[q]] \in Dial \cup {NoDial}
    BY <1>14 DEF LookReturns, LookWaits, Moves, PlaceInv
  <2>4. \A p \in Dial : Ranges(p)' \subseteq Ranges(p)
    BY <2>2, <2>3 DEF Ranges
  <2> QED BY <2>1, <2>4, PortsKept
<1>15. ASSUME NEW q \in Dial, LookBuilds(q)
       PROVE  PortInv'
  <2> DEFINE k == arg[q]
             n == nextPortOffset
             new == RangesAt(n, k)
  <2>1. n \in Nat /\ nextPortOffset' = n + (Extensions + Gap) * (IF k[1] = k[2] THEN 1 ELSE 2)
    BY <1>15 DEF LookBuilds, allocPortRange
  <2>2. \A p \in Dial \ {q} : Ranges(p)' = Ranges(p)
    BY <1>15 DEF LookBuilds, Ranges
  <2>3. Ranges(q)' \subseteq new
    BY <1>15 DEF LookBuilds, Ranges
  <2> HIDE DEF k, new
  <2>4. \A R \in new :
          /\ R \subseteq n .. nextPortOffset' - 1 /\ nextPortOffset' \in Nat /\ n <= nextPortOffset'
          /\ \A S \in new : R = S \/ R \cap S = {}
    BY <2>1, RangesBelow DEF new
  <2>5. nextPortOffset' \in Nat /\ n <= nextPortOffset'
    BY <2>1, Names
  <2>6. \A p \in Dial \ {q} : \A R \in Ranges(p)' : R \subseteq 0 .. n - 1
    BY <2>2 DEF PortInv
  <2>7. \A R \in Ranges(q)' : R \subseteq n .. nextPortOffset' - 1
    BY <2>3, <2>4
  <2>8. ASSUME NEW p \in Dial \ {q}, NEW R \in Ranges(p)', NEW S \in Ranges(q)'
        PROVE  R \cap S = {}
    <3>1. R \subseteq 0 .. n - 1 /\ S \subseteq n .. nextPortOffset' - 1
      BY <2>6, <2>7
    <3> QED BY <2>1, <2>5, <3>1
  <2>9. \A R, S \in Ranges(q)' : R = S \/ R \cap S = {}
    BY <2>3, <2>4
  <2>10. \A p, o \in Dial \ {q} : \A R \in Ranges(p)', S \in Ranges(o)' : (p = o /\ R = S) \/ R \cap S = {}
    BY <2>2 DEF PortInv, PortsDisjoint
  <2>11. PortsDisjoint'
    BY <2>8, <2>9, <2>10 DEF PortsDisjoint
  <2>12. \A p \in Dial : \A R \in Ranges(p)' : R \subseteq 0 .. nextPortOffset' - 1
    BY <2>1, <2>5, <2>6, <2>7
  <2> QED BY <2>11, <2>12 DEF PortInv
<1>16. ASSUME NEW q \in Dial, BuildOver(q)
       PROVE  PortInv'
  BY <1>16, PortsKept DEF BuildOver, Ranges
<1>17. ASSUME NEW q \in Dial, Wake(q)
       PROVE  PortInv'
  <2>1. \A p \in Dial : Ranges(p)' \subseteq Ranges(p)
    BY <1>17 DEF Wake, Ranges
  <2> QED BY <1>17, <2>1, PortsKept DEF Wake
<1>18. CASE Wipe \/ Restart
  <2>1. CASE Wipe
    BY <2>1, PortsKept DEF Wipe, Ranges
  <2>2. CASE Restart
    BY <2>2 DEF Restart, PortInv, PortsDisjoint, Ranges
  <2> QED BY <1>18, <2>1, <2>2
<1>19. CASE UNCHANGED vars
  BY <1>19, PortsKept DEF vars, Ranges
<1> QED
  BY <1>1, <1>2, <1>3, <1>4, <1>5, <1>6, <1>7, <1>8, <1>9, <1>10,
     <1>11, <1>12, <1>13, <1>14, <1>15, <1>16, <1>17, <1>18, <1>19
  DEF Next, JobStep, DialStep

\* What must not change for the sessions that are, or are being built, to stay fresh.
LEMMA FreshKept ==
    ASSUME FreshInv, RemovedInv, raced \subseteq raced',
           \A q \in Dial, k \in Key : Holds(q, k)' => Holds(q, k) /\ built'[q] = built[q],
           \A q \in Dial, k \in Key, n \in {1, 2} : Holds(q, k)' /\ Configured(q, k[n], n) =>
              q \in raced' \/ Configured(q, k[n], n)',
           \A q \in Dial, k \in Key, n \in {1, 2} : Holds(q, k)' /\ BeingRemoved(k[n])' =>
              q \in raced' \/ BeingRemoved(k[n])
    PROVE  (FreshInv /\ RemovedInv)'
BY DEF FreshInv, RemovedInv

\* The servers' objects, the requests and the sessions stay as they are.
LEMMA NothingMoves ==
    ASSUME FreshInv, RemovedInv, PlaceInv,
           UNCHANGED <<cfg, sessions, built, raced>>, undropped \subseteq undropped',
           \A o \in Obj : (\E s \in Server : cfg[s] = o) => heap'[o].details = heap[o].details,
           \A s \in Server : Known(s) => cfg[s] \in Obj,
           \A q \in Dial : pc'[q] = pc[q] /\ arg'[q] = arg[q],
           \A u \in Update : pc[u] = "dropping" => pc'[u] = "dropping" /\ arg'[u] = arg[u],
           \A r \in Reset : pc'[r] \in {"clearing", "removing"} =>
              pc[r] \in {"clearing", "removing"} /\ arg'[r] = arg[r]
    PROVE  (FreshInv /\ RemovedInv)'
<1>1. \A q \in Dial, k \in Key : Holds(q, k)' => Holds(q, k) /\ built'[q] = built[q]
  BY DEF Holds
<1>2. ASSUME NEW q \in Dial, NEW s \in Server, NEW n \in {1, 2}, Configured(q, s, n)
      PROVE  Configured(q, s, n)'
  BY <1>2 DEF Configured, Known, Rec
<1>3. \A s \in Server : BeingRemoved(s)' => BeingRemoved(s)
  BY DEF BeingRemoved
<1>4. \A k \in Key, n \in {1, 2} : k[n] \in Server
  BY DEF Key
<1> QED BY <1>1, <1>2, <1>3, <1>4, FreshKept

\* A server's object is replaced, or taken, by a step that accounts for it.
LEMMA Replaced ==
    ASSUME FreshInv, RemovedInv, PlaceInv, NEW s \in Server,
           UNCHANGED <<heap, sessions, built, raced>>, undropped \subseteq undropped',
           \A t \in Server \ {s} : cfg'[t] = cfg[t],
           \/ ~Known(s) \/ cfg'[s] = cfg[s] \/ s \in undropped' \/ BeingRemoved(s)
           \/ \E u \in Update : pc'[u] = "dropping" /\ arg'[u] = s,
           \A q \in Dial : pc'[q] = pc[q] /\ arg'[q] = arg[q],
           \A u \in Update : pc[u] = "dropping" => pc'[u] = "dropping" /\ arg'[u] = arg[u],
           \A r \in Reset : pc'[r] \in {"clearing", "removing"} =>
              pc[r] \in {"clearing", "removing"} /\ arg'[r] = arg[r]
    PROVE  (FreshInv /\ RemovedInv)'
<1>1. \A q \in Dial, k \in Key : Holds(q, k)' => Holds(q, k) /\ built'[q] = built[q]
  BY DEF Holds
<1>2. ASSUME NEW q \in Dial, NEW k \in Key, NEW n \in {1, 2}, Holds(q, k)', Configured(q, k[n], n)
      PROVE  q \in raced' \/ Configured(q, k[n], n)'
  <2>1. k[n] \in Server
    BY DEF Key
  <2>2. CASE k[n] # s
    BY <1>2, <2>1, <2>2 DEF Configured, Known, Rec
  <2>3. CASE k[n] = s
    <3>1. CASE BeingRemoved(s)
      BY <1>1, <1>2, <2>3, <3>1 DEF RemovedInv
    <3>2. CASE ~BeingRemoved(s)
      BY <1>2, <2>3, <3>2 DEF Configured, Known, Rec
    <3> QED BY <3>1, <3>2
  <2> QED BY <2>2, <2>3
<1>3. \A t \in Server : BeingRemoved(t)' => BeingRemoved(t)
  BY DEF BeingRemoved
<1>4. \A k \in Key, n \in {1, 2} : k[n] \in Server
  BY DEF Key
<1> QED BY <1>1, <1>2, <1>3, <1>4, FreshKept

\* dropSessionsFor: what it drops is gone, and what it misses is being built.
LEMMA DroppedOrRaced ==
    ASSUME FreshInv, RemovedInv, PlaceInv, CacheInv, NEW s \in Server, DropSessions(s),
           \A q \in Dial : pc'[q] = pc[q],
           \A u \in Update : pc[u] = "dropping" /\ arg[u] # s => pc'[u] = "dropping",
           \A r \in Reset : pc'[r] \in {"clearing", "removing"} =>
              pc[r] \in {"clearing", "removing"} \/ arg[r] = s
    PROVE  (FreshInv /\ RemovedInv)'
<1>1. /\ sessions' = Dropped(s) /\ UNCHANGED <<cfg, heap, arg, built>> /\ undropped' = undropped \ {s}
      /\ raced' = raced \cup {q \in Dial : pc[q] = "building" /\ arg[q] \in KeysOf(s)}
  BY DEF DropSessions, storeVars
<1>2. \A q \in Dial, k \in Key : Holds(q, k)' => Holds(q, k) /\ built'[q] = built[q]
  BY <1>1, Names DEF Holds, Dropped
<1>3. \A k \in Key, n \in {1, 2} : k[n] = s => k \in KeysOf(s)
  BY DEF KeysOf, Key
<1>4. ASSUME NEW q \in Dial, NEW k \in Key, k \in KeysOf(s), Holds(q, k)'
      PROVE  q \in raced'
  BY <1>1, <1>4, Names DEF Holds, Dropped
<1>5. \A k \in Key, n \in {1, 2} : k[n] \in Server
  BY DEF Key
<1>6. ASSUME NEW q \in Dial, NEW t \in Server \ {s}, NEW n \in {1, 2}, Configured(q, t, n)
      PROVE  Configured(q, t, n)'
  BY <1>1, <1>6 DEF Configured, Known, Rec
<1>7. \A t \in Server \ {s} : BeingRemoved(t)' => BeingRemoved(t)
  BY <1>1 DEF BeingRemoved
<1> QED BY <1>1, <1>2, <1>3, <1>4, <1>5, <1>6, <1>7, FreshKept

\* A dial request that neither builds nor has a session goes on.
LEMMA RequestMoves ==
    ASSUME FreshInv, RemovedInv, PlaceInv, CacheInv, UNCHANGED <<storeVars, ghosts>>, NEW q \in Dial,
           pc[q] # "done", pc'[q] # "building",
           \A j \in (Job \cup Dial) \ {q} : pc'[j] = pc[j] /\ arg'[j] = arg[j],
           \A p \in Dial \ {q} : built'[p] = built[p],
           \A k \in Key : sessions'[k] = sessions[k] \/ (sessions'[k] = q /\ Holds(q, k)),
           (\E k \in Key : sessions'[k] = q) => built'[q] = built[q]
    PROVE  (FreshInv /\ RemovedInv)'
<1>1. \A k \in Key : sessions[k] # q
  BY Names DEF CacheInv
<1>2. \A p \in Dial, k \in Key : Holds(p, k)' => Holds(p, k) /\ built'[p] = built[p]
  BY <1>1 DEF Holds
<1>3. \A p \in Dial, s \in Server, n \in {1, 2} :
        built'[p] = built[p] /\ Configured(p, s, n) => Configured(p, s, n)'
  BY Names DEF Configured, Known, Rec, storeVars, ghosts, Job
<1>4. \A s \in Server : BeingRemoved(s)' => BeingRemoved(s)
  BY Names DEF BeingRemoved, Job
<1>5. \A k \in Key, n \in {1, 2} : k[n] \in Server
  BY DEF Key
<1>6. raced' = raced
  BY DEF ghosts
<1> QED BY <1>2, <1>3, <1>4, <1>5, <1>6, FreshKept

LEMMA NextFreshInv == RegistryIInv /\ [Next]_vars => (FreshInv /\ RemovedInv)'
<1> SUFFICES ASSUME RegistryIInv, [Next]_vars
             PROVE  (FreshInv /\ RemovedInv)'
  OBVIOUS
<1> USE Names DEF RegistryIInv, Moves, storeVars, cacheVars, ghosts, bounds
<1>1. ASSUME NEW s \in Server, Provisioned(s)
      PROVE  (FreshInv /\ RemovedInv)'
  BY <1>1, Replaced DEF Provisioned, ObjectInv
<1>2. ASSUME NEW u \in Update, NEW s \in Server, UpdateStart(u, s)
      PROVE  (FreshInv /\ RemovedInv)'
  <2>1. \A x \in Server : cfg[x] # u
    BY <1>2, Names DEF UpdateStart, Starts, PlaceInv, OwnerInv, IsOf, Obj
  <2>2. \A o \in Obj \ {u} : heap'[o] = heap[o]
    BY <1>2 DEF UpdateStart, ObjectInv
  <2>3. UNCHANGED <<cfg, sessions, built, raced, undropped>>
    BY <1>2 DEF UpdateStart, Starts
  <2>4. \A j \in (Job \cup Dial) \ {u} : pc'[j] = pc[j] /\ arg'[j] = arg[j]
    BY <1>2 DEF UpdateStart, Starts, PlaceInv
  <2>5. pc[u] # "dropping" /\ u \notin Reset /\ u \notin Dial
    BY <1>2, Names DEF UpdateStart, Starts, Job
  <2>6. \A x \in Server : Known(x) => cfg[x] \in Obj
    BY DEF Known, ObjectInv
  <2> QED BY <2>1, <2>2, <2>3, <2>4, <2>5, <2>6, NothingMoves DEF Job
<1>3. ASSUME NEW u \in Update, UpdateStore(u)
      PROVE  (FreshInv /\ RemovedInv)'
  <2>1. arg[u] \in Server /\ UNCHANGED <<arg, heap, sessions, built, raced>> /\ undropped \subseteq undropped'
    BY <1>3 DEF UpdateStore, PlaceInv
  <2>2. \A j \in (Job \cup Dial) \ {u} : pc'[j] = pc[j]
    BY <1>3 DEF UpdateStore, PlaceInv
  <2>3. pc[u] # "dropping" /\ u \notin Reset /\ u \notin Dial
    BY <1>3, Names DEF UpdateStore, Job
  <2>4. cfg' = cfg \/ cfg' = [cfg EXCEPT ![arg[u]] = u]
    BY <1>3 DEF UpdateStore, UpdateServer
  <2>5. \A t \in Server \ {arg[u]} : cfg'[t] = cfg[t]
    BY <2>4 DEF ObjectInv
  <2>6. cfg'[arg[u]] = cfg[arg[u]] \/ arg[u] \in undropped' \/ pc'[u] = "dropping"
    BY <1>3 DEF UpdateStore, PlaceInv, Job
  <2> QED BY <2>1, <2>2, <2>3, <2>5, <2>6, Replaced DEF Job
<1>4. ASSUME NEW u \in Update, UpdateDrop(u)
      PROVE  (FreshInv /\ RemovedInv)'
  <2>1. arg[u] \in Server /\ DropSessions(arg[u])
    BY <1>4 DEF UpdateDrop, PlaceInv
  <2>2. \A j \in (Job \cup Dial) \ {u} : pc'[j] = pc[j]
    BY <1>4 DEF UpdateDrop, PlaceInv
  <2>3. u \notin Reset /\ u \notin Dial
    BY Names DEF Job
  <2> QED BY <2>1, <2>2, <2>3, DroppedOrRaced DEF Job
<1>5. ASSUME NEW c \in Connect, NEW s \in Server, NEW t \in Server, ConnectStart(c, s, t)
      PROVE  (FreshInv /\ RemovedInv)'
  <2>1. UNCHANGED <<cfg, sessions, built, raced, undropped>>
    BY <1>5 DEF ConnectStart, Starts
  <2>2. \A j \in (Job \cup Dial) \ {c} : pc'[j] = pc[j] /\ arg'[j] = arg[j]
    BY <1>5 DEF ConnectStart, Starts, PlaceInv
  <2>3. c \notin Update /\ c \notin Reset /\ c \notin Dial
    BY Names DEF Job
  <2>4. \A x \in Server : Known(x) => cfg[x] \in Obj
    BY DEF Known, ObjectInv
  <2>5. heap' = heap
    BY <1>5 DEF ConnectStart, Starts
  <2> QED BY <2>1, <2>2, <2>3, <2>4, <2>5, NothingMoves DEF Job
<1>6. ASSUME NEW c \in Connect, ConnectMarks(c) \/ ConnectRoutes(c)
      PROVE  (FreshInv /\ RemovedInv)'
  <2>1. UNCHANGED <<cfg, sessions, built, raced, undropped>>
    BY <1>6 DEF ConnectMarks, ConnectRoutes
  <2>2. \A j \in (Job \cup Dial) \ {c} : pc'[j] = pc[j] /\ arg'[j] = arg[j]
    BY <1>6 DEF ConnectMarks, ConnectRoutes, PlaceInv
  <2>3. c \notin Update /\ c \notin Reset /\ c \notin Dial
    BY Names DEF Job
  <2>4. \A x \in Server : Known(x) => cfg[x] \in Obj
    BY DEF Known, ObjectInv
  <2>5. \A o \in Obj : heap'[o].details = heap[o].details
    BY <1>6 DEF ConnectMarks, ConnectRoutes, ObjectInv, Record
  <2> QED BY <2>1, <2>2, <2>3, <2>4, <2>5, NothingMoves DEF Job
<1>7. ASSUME NEW c \in Connect, ConnectFails(c)
      PROVE  (FreshInv /\ RemovedInv)'
  <2>1. UNCHANGED <<cfg, sessions, built, raced, undropped>>
    BY <1>7 DEF ConnectFails
  <2>2. \A j \in (Job \cup Dial) \ {c} : pc'[j] = pc[j] /\ arg'[j] = arg[j]
    BY <1>7 DEF ConnectFails, PlaceInv
  <2>3. c \notin Update /\ c \notin Reset /\ c \notin Dial
    BY Names DEF Job
  <2>4. \A x \in Server : Known(x) => cfg[x] \in Obj
    BY DEF Known, ObjectInv
  <2>5. heap' = heap
    BY <1>7 DEF ConnectFails
  <2> QED BY <2>1, <2>2, <2>3, <2>4, <2>5, NothingMoves DEF Job
<1>8. ASSUME NEW c \in Connect, ConnectSave(c)
      PROVE  (FreshInv /\ RemovedInv)'
  <2>1. PICK n \in {1, 2}, ok \in BOOLEAN : UpdateServer(arg[c][n], Started(c, arg[c][n]), ok)
             /\ undropped' = IF Known(arg[c][n]) /\ cfg[arg[c][n]] # Started(c, arg[c][n])
                             THEN undropped \cup {arg[c][n]} ELSE undropped
    BY <1>8 DEF ConnectSave
  <2>2. arg[c] \in Key
    BY <1>8 DEF ConnectSave, PlaceInv
  <2>3. arg[c][n] \in Server
    BY <2>2 DEF Key
  <2>4. \A t \in Server \ {arg[c][n]} : cfg'[t] = cfg[t]
    BY <2>1 DEF UpdateServer, ObjectInv
  <2>5. ~Known(arg[c][n]) \/ cfg'[arg[c][n]] = cfg[arg[c][n]] \/ arg[c][n] \in undropped'
    BY <2>1, <2>3 DEF UpdateServer, ObjectInv
  <2>6. UNCHANGED <<arg, heap, sessions, built, raced>>
    BY <1>8 DEF ConnectSave
  <2>7. \A j \in (Job \cup Dial) \ {c} : pc'[j] = pc[j]
    BY <1>8 DEF ConnectSave, PlaceInv
  <2>8. c \notin Update /\ c \notin Reset /\ c \notin Dial
    BY Names DEF Job
  <2>9. undropped \subseteq undropped'
    BY <2>1
  <2> QED BY <2>3, <2>4, <2>5, <2>6, <2>7, <2>8, <2>9, Replaced DEF Job
<1>9. ASSUME NEW r \in Reset, NEW s \in Server, ResetStart(r, s)
      PROVE  (FreshInv /\ RemovedInv)'
  <2>1. UNCHANGED <<cfg, sessions, built, raced, undropped>>
    BY <1>9 DEF ResetStart, Starts
  <2>2. \A j \in (Job \cup Dial) \ {r} : pc'[j] = pc[j] /\ arg'[j] = arg[j]
    BY <1>9 DEF ResetStart, Starts, PlaceInv
  <2>3. r \notin Update /\ r \notin Dial
    BY Names DEF Job
  <2>4. \A x \in Server : Known(x) => cfg[x] \in Obj
    BY DEF Known, ObjectInv
  <2>5. heap' = heap
    BY <1>9 DEF ResetStart, Starts
  <2>6. pc'[r] = "tearing"
    BY <1>9, Names DEF ResetStart, Starts, PlaceInv, Job
  <2> QED BY <2>1, <2>2, <2>3, <2>4, <2>5, <2>6, NothingMoves DEF Job
<1>10. ASSUME NEW r \in Reset, ResetDrop(r)
       PROVE  (FreshInv /\ RemovedInv)'
  <2>1. arg[r] \in Server /\ DropSessions(arg[r])
    BY <1>10 DEF ResetDrop, PlaceInv
  <2>2. \A j \in (Job \cup Dial) \ {r} : pc'[j] = pc[j]
    BY <1>10 DEF ResetDrop, PlaceInv
  <2>3. r \notin Update /\ r \notin Dial
    BY Names DEF Job
  <2> QED BY <2>1, <2>2, <2>3, DroppedOrRaced DEF Job
<1>11. ASSUME NEW r \in Reset, ResetClearsPeer(r)
       PROVE  (FreshInv /\ RemovedInv)'
  <2>1. UNCHANGED <<cfg, sessions, built, raced, undropped>>
    BY <1>11 DEF ResetClearsPeer
  <2>2. \A j \in (Job \cup Dial) \ {r} : pc'[j] = pc[j] /\ arg'[j] = arg[j]
    BY <1>11 DEF ResetClearsPeer, PlaceInv
  <2>3. r \notin Update /\ r \notin Dial
    BY Names DEF Job
  <2>4. \A x \in Server : Known(x) => cfg[x] \in Obj
    BY DEF Known, ObjectInv
  <2>5. \A o \in Obj : heap'[o].details = heap[o].details
    <3>1. heap' = heap \/ \E x : heap' = [heap EXCEPT ![x].peer = NoServer]
      BY <1>11 DEF ResetClearsPeer
    <3>2. \A o \in Obj : heap[o] \in Record
      BY DEF ObjectInv
    <3>3. \A rec \in Record : [rec EXCEPT !.peer = NoServer].details = rec.details
      BY DEF Record
    <3>4. \A o \in Obj : heap'[o] = heap[o] \/ heap'[o] = [heap[o] EXCEPT !.peer = NoServer]
      BY <3>1 DEF ObjectInv
    <3> QED BY <3>2, <3>3, <3>4
  <2>6. pc[r] = "clearing" /\ arg'[r] = arg[r]
    BY <1>11 DEF ResetClearsPeer
  <2> QED BY <2>1, <2>2, <2>3, <2>4, <2>5, <2>6, NothingMoves DEF Job
<1>12. ASSUME NEW r \in Reset, ResetRemoves(r)
       PROVE  (FreshInv /\ RemovedInv)'
  <2>1. arg[r] \in Server /\ UNCHANGED <<arg, heap, sessions, built, raced, undropped>>
    BY <1>12 DEF ResetRemoves, PlaceInv
  <2>2. \A j \in (Job \cup Dial) \ {r} : pc'[j] = pc[j]
    BY <1>12 DEF ResetRemoves, PlaceInv
  <2>3. r \notin Update /\ r \notin Dial /\ BeingRemoved(arg[r]) /\ pc'[r] = "done"
    BY <1>12, Names DEF ResetRemoves, BeingRemoved, PlaceInv, Job
  <2>4. \A t \in Server \ {arg[r]} : cfg'[t] = cfg[t]
    BY <1>12 DEF ResetRemoves, ObjectInv
  <2> QED BY <2>1, <2>2, <2>3, <2>4, Replaced DEF Job
<1>13. ASSUME NEW q \in Dial, NEW k \in Key, DialRequest(q, k)
       PROVE  (FreshInv /\ RemovedInv)'
  BY <1>13, RequestMoves DEF DialRequest, PlaceInv
<1>14. ASSUME NEW q \in Dial, LookReturns(q) \/ LookWaits(q)
       PROVE  (FreshInv /\ RemovedInv)'
  <2>1. pc[q] = "looking" /\ pc'[q] \in {"done", "waiting"} /\ arg' = arg /\ sessions' = sessions
    BY <1>14 DEF LookReturns, LookWaits, PlaceInv
  <2>2. \A k \in Key : sessions[k] # q
    BY <2>1, Names DEF CacheInv
  <2>3. (\A j \in (Job \cup Dial) \ {q} : pc'[j] = pc[j]) /\ UNCHANGED <<storeVars, ghosts>>
    BY <1>14 DEF LookReturns, LookWaits, PlaceInv
  <2>4. \A p \in Dial \ {q} : built'[p] = built[p]
    BY <1>14 DEF LookReturns, LookWaits, CacheInv
  <2> QED BY <2>1, <2>2, <2>3, <2>4, RequestMoves
<1>15. ASSUME NEW q \in Dial, LookBuilds(q)
       PROVE  (FreshInv /\ RemovedInv)'
  <2> DEFINE b == [details |-> <<Rec(arg[q][1]).details, Rec(arg[q][2]).details>>,
                 ranges |-> RangesAt(nextPortOffset, arg[q])]
  <2>1. /\ pc' = [pc EXCEPT ![q] = "building"] /\ pc[q] = "looking" /\ arg' = arg /\ arg[q] \in Key
        /\ UNCHANGED <<cfg, heap, sessions, undropped>> /\ built' = [built EXCEPT ![q] = b]
        /\ Known(arg[q][1]) /\ Known(arg[q][2])
    BY <1>15 DEF LookBuilds, PlaceInv, Dialable
  <2>2. raced' = IF \E s \in {arg[q][1], arg[q][2]} : BeingRemoved(s) THEN raced \cup {q} ELSE raced
    BY <1>15 DEF LookBuilds
  <2>3. \A k \in Key : sessions[k] # q
    BY <2>1, Names DEF CacheInv
  <2>4. /\ \A j \in (Job \cup Dial) \ {q} : pc'[j] = pc[j]
        /\ \A p \in Dial \ {q} : built'[p] = built[p]
        /\ built'[q] = b
    BY <2>1 DEF PlaceInv, CacheInv
  <2>5. \A s : BeingRemoved(s)' <=> BeingRemoved(s)
    BY <2>1, <2>4, Names DEF BeingRemoved, Job
  <2>6. \A p \in Dial \ {q}, k \in Key : Holds(p, k)' => Holds(p, k)
    BY <2>1, <2>4 DEF Holds
  <2>7. ASSUME NEW p \in Dial \ {q}, NEW s \in Server, NEW n \in {1, 2}, Configured(p, s, n)
        PROVE  Configured(p, s, n)'
    BY <2>1, <2>4, <2>7, Names DEF Configured, Known, Rec, Job
  <2>8. \A k \in Key : Holds(q, k)' => k = arg[q]
    BY <2>1, <2>3 DEF Holds
  <2>9. \A n \in {1, 2} : Configured(q, arg[q][n], n)'
    <3>1. b.details[1] = Rec(arg[q][1]).details /\ b.details[2] = Rec(arg[q][2]).details
      OBVIOUS
    <3> HIDE DEF b
    <3> QED BY <2>1, <2>4, <3>1 DEF Configured, Known, Rec
  <2>10. \A k \in Key, n \in {1, 2} : k[n] \in Server
    BY DEF Key
  <2>11. FreshInv'
    <3> SUFFICES ASSUME NEW p \in Dial, NEW k \in Key, NEW n \in {1, 2}, Holds(p, k)'
                 PROVE  p \in raced' \/ Configured(p, k[n], n)'
      BY DEF FreshInv
    <3>1. CASE p = q
      <4>1. Holds(q, k)' /\ Configured(q, arg[q][n], n)'
        BY <2>9, <3>1 DEF Holds
      <4>2. k = arg[q]
        BY <2>8, <4>1
      <4> QED BY <2>1, <3>1, <4>1, <4>2 DEF Configured
    <3>2. CASE p # q
      BY <2>2, <2>6, <2>7, <2>10, <3>2 DEF FreshInv
    <3> QED BY <3>1, <3>2
  <2>12. RemovedInv'
    BY <2>2, <2>5, <2>6, <2>8 DEF RemovedInv
  <2> QED BY <2>11, <2>12
<1>16. ASSUME NEW q \in Dial, BuildOver(q)
       PROVE  (FreshInv /\ RemovedInv)'
  <2>1. pc[q] = "building" /\ pc'[q] = "done" /\ arg' = arg /\ UNCHANGED <<built, storeVars, ghosts>>
    BY <1>16 DEF BuildOver, PlaceInv, ghosts
  <2>2. \A j \in (Job \cup Dial) \ {q} : pc'[j] = pc[j]
    BY <1>16 DEF BuildOver, PlaceInv
  <2>3. \A k \in Key : sessions'[k] = sessions[k] \/ (sessions'[k] = q /\ Holds(q, k))
    BY <1>16, <2>1 DEF BuildOver, CacheInv, Holds
  <2> QED BY <2>1, <2>2, <2>3, RequestMoves
<1>17. ASSUME NEW q \in Dial, Wake(q)
       PROVE  (FreshInv /\ RemovedInv)'
  <2>1. pc[q] = "waiting" /\ pc'[q] = "looking" /\ arg' = arg /\ sessions' = sessions
    BY <1>17 DEF Wake, PlaceInv
  <2>2. \A k \in Key : sessions[k] # q
    BY <2>1, Names DEF CacheInv
  <2>3. (\A j \in (Job \cup Dial) \ {q} : pc'[j] = pc[j]) /\ UNCHANGED <<storeVars, ghosts>>
    BY <1>17 DEF Wake, PlaceInv
  <2>4. \A p \in Dial \ {q} : built'[p] = built[p]
    BY <1>17 DEF Wake, CacheInv
  <2> QED BY <2>1, <2>2, <2>3, <2>4, RequestMoves
<1>18. CASE Wipe \/ Restart
  <2>1. CASE Wipe
    BY <2>1, NothingMoves DEF Wipe, ObjectInv, Known
  <2>2. CASE Restart
    BY <2>2, Names DEF Restart, FreshInv, RemovedInv, Holds
  <2> QED BY <1>18, <2>1, <2>2
<1>19. CASE UNCHANGED vars
  BY <1>19, NothingMoves DEF vars, ObjectInv, Known
<1> QED
  BY <1>1, <1>2, <1>3, <1>4, <1>5, <1>6, <1>7, <1>8, <1>9, <1>10,
     <1>11, <1>12, <1>13, <1>14, <1>15, <1>16, <1>17, <1>18, <1>19
  DEF Next, JobStep, DialStep

LEMMA InitRegistryIInv == Init => RegistryIInv
<1> SUFFICES ASSUME Init
             PROVE  RegistryIInv
  OBVIOUS
<1>1. PlaceInv
  BY Names DEF Init, PlaceInv, UpdateAt, ConnectAt, ResetAt, DialAt, Args, Job
<1>2. cfg \in [Server -> Obj \cup {NoObj}]
  BY DEF Init, Obj
<1>3. heap \in [Obj -> Record]
  <2>1. NewServer \in Record
    BY DEF NewServer, Record
  <2>2. \A s \in Server : [details |-> 0, peer |-> s, dids |-> TRUE] \in Record
    BY DEF Record
  <2>3. CASE heap = [o \in Obj |-> NewServer]
    BY <2>1, <2>3
  <2>4. ASSUME NEW s \in Server, NEW t \in Server,
               heap = [o \in Obj |-> IF o \in {s, t}
                          THEN [details |-> 0, peer |-> IF o = s THEN t ELSE s, dids |-> TRUE]
                          ELSE NewServer]
        PROVE  heap \in [Obj -> Record]
    BY <2>1, <2>2, <2>4
  <2> QED BY <2>3, <2>4 DEF Init
<1>4. ObjectInv
  <2>1. disk \in [Server -> Record \cup {NoObj}]
    BY <1>2, <1>3, MarshalledRecords DEF Init
  <2>2. ptr \in [Job -> [Server -> Obj \cup {NoObj}]]
    BY DEF Init, NoPtr
  <2>3. behind \in BOOLEAN
    BY DEF Init
  <2>4. faults \in 0..MaxFaults /\ restarts \in 0..MaxRestarts
    <3>1. faults = 0 /\ restarts = 0
      BY DEF Init
    <3>2. MaxFaults \in Nat /\ MaxRestarts \in Nat
      BY Names
    <3> QED BY <3>1, <3>2
  <2> QED BY <1>2, <1>3, <2>1, <2>2, <2>3, <2>4 DEF ObjectInv
<1>5. OwnerInv
  BY DEF Init, OwnerInv, IsOf, NoPtr
<1>6. CacheInv
  BY DEF Init, CacheInv, Built
<1>7. PortInv
  BY DEF Init, PortInv, PortsDisjoint, Ranges
<1>8. FreshInv /\ RemovedInv
  BY Names DEF Init, FreshInv, RemovedInv, Holds
<1> QED BY <1>1, <1>4, <1>5, <1>6, <1>7, <1>8 DEF RegistryIInv

LEMMA RegistryInvariant == Safety => []RegistryIInv
<1>1. RegistryIInv /\ [Next]_vars => RegistryIInv'
  BY NextPlaceInv, NextObjectInv, NextOwnerInv, NextCacheInv, NextPortInv, NextFreshInv DEF RegistryIInv
<1> QED BY <1>1, InitRegistryIInv, PTL DEF Safety

\* One request at a time registers a session's extensions, none while a cached
\* session has them, and no two sessions share a port.
THEOREM RegisteredOnce == Safety => []RegistryInv
<1>1. RegistryIInv => RegistryInv
  <2> SUFFICES ASSUME RegistryIInv
               PROVE  RegistryInv
    OBVIOUS
  <2> USE DEF RegistryIInv
  <2>1. TypeOK
    BY DEF TypeOK, ObjectInv, OwnerInv, CacheInv, IsOf, Record
  <2>2. SingleFlight
    BY DEF SingleFlight, CacheInv
  <2>3. PortsDisjoint
    BY DEF PortInv
  <2> QED BY <2>1, <2>2, <2>3 DEF RegistryInv
<1> QED BY <1>1, RegistryInvariant, PTL

\* The named races and the ways that drop nothing are the only ways to a session
\* that dials by a server's old details.
THEOREM StaleByRaceOnly == Safety => []StaleOnlyWhenRaced
<1>1. RegistryIInv => StaleOnlyWhenRaced
  <2> SUFFICES ASSUME RegistryIInv, NEW k \in Key, sessions[k] # NoDial, sessions[k] \notin raced,
                      NEW n \in {1, 2}
               PROVE  \/ k[n] \in undropped
                      \/ \E u \in Update : pc[u] = "dropping" /\ arg[u] = k[n]
                      \/ Known(k[n]) /\ built[sessions[k]].details[n] = Rec(k[n]).details
    BY DEF StaleOnlyWhenRaced
  <2>1. sessions[k] \in Dial /\ Holds(sessions[k], k)
    BY DEF RegistryIInv, CacheInv, Holds
  <2> QED BY <2>1 DEF RegistryIInv, FreshInv, Configured
<1> QED BY <1>1, RegistryInvariant, PTL

-----------------------------------------------------------------------------
(***************************************************************************)
(* The file and the store.                                                 *)
(***************************************************************************)

Stored(s) == IF Known(s) THEN Rec(s) ELSE NoObj

\* A connect job has, or may have, filled in server s and will save it.
WillSave(c, s) ==
    \/ pc[c] \in {"marked", "first"} /\ s \in {arg[c][1], arg[c][2]}
    \/ pc[c] = "second" /\ s = arg[c][2]

\* It fills in what it got from GetServer, of the servers it connects.
ConnectsTwo ==
    \A c \in Connect, s \in Server :
        pc[c] \in {"trunks", "marked", "first", "second"} /\ ptr[c][s] # NoObj => s \in {arg[c][1], arg[c][2]}

\* Unless the file is known to be behind, what it lacks is a server that the store
\* has and that a connect job will save.
SavedOrWillBe ==
    ~behind => \A s \in Server : disk[s] # Stored(s) => Known(s) /\ \E c \in Connect : WillSave(c, s)

\* A step that saves, or does not know whether it could.
LEMMA SaveKeeps == ASSUME NEW ok \in BOOLEAN, Save(ok) PROVE SavedOrWillBe'
<1>1. CASE ok
  <2>1. disk' = Marshalled(cfg', heap')
    BY <1>1 DEF Save
  <2>2. \A s \in Server : disk'[s] = Stored(s)'
    BY <2>1 DEF Marshalled, Stored, Known, Rec
  <2> QED BY <2>2 DEF SavedOrWillBe
<1>2. CASE ~ok
  BY <1>2 DEF Save, SavedOrWillBe
<1> QED BY <1>1, <1>2

\* One that does not: what connect jobs will save, they still will.
LEMMA NoSaveKeeps ==
    ASSUME SavedOrWillBe, cfg' = cfg, disk' = disk, behind' = behind,
           \A s \in Server : Known(s) => Rec(s)' = Rec(s) \/ \E c \in Connect : WillSave(c, s)',
           \A s \in Server, c \in Connect : Known(s) /\ WillSave(c, s) => WillSave(c, s)'
    PROVE  SavedOrWillBe'
<1> SUFFICES ASSUME ~behind, NEW s \in Server, disk[s] # Stored(s)'
             PROVE  Known(s) /\ \E c \in Connect : WillSave(c, s)'
  BY DEF SavedOrWillBe, Known
<1>1. Known(s)' <=> Known(s)
  BY DEF Known
<1>2. CASE ~Known(s)
  <2>1. Stored(s)' = Stored(s)
    BY <1>1, <1>2 DEF Stored
  <2> QED BY <1>2, <2>1 DEF SavedOrWillBe
<1>3. CASE Known(s) /\ Rec(s)' = Rec(s)
  <2>1. Stored(s)' = Stored(s)
    BY <1>1, <1>3 DEF Stored
  <2>2. PICK c \in Connect : WillSave(c, s)
    BY <2>1 DEF SavedOrWillBe
  <2> QED BY <1>3, <2>2
<1> QED BY <1>2, <1>3

LEMMA NextConnectsTwo ==
    PlaceInv /\ ObjectInv /\ ConnectsTwo /\ [Next]_vars => ConnectsTwo'
<1> SUFFICES ASSUME PlaceInv, ObjectInv, ConnectsTwo, [Next]_vars PROVE ConnectsTwo'
  OBVIOUS
<1> USE Names DEF Moves, Job, storeVars, cacheVars, ghosts, bounds
<1>1. ASSUME \A c \in Connect : /\ pc'[c] \in {"trunks", "marked", "first", "second"} =>
                                       pc[c] \in {"trunks", "marked", "first", "second"}
                                /\ arg'[c] = arg[c]
                                /\ \A s \in Server : ptr'[c][s] \in {ptr[c][s], NoObj}
      PROVE  ConnectsTwo'
  BY <1>1 DEF ConnectsTwo
<1>2. ASSUME NEW c \in Connect, NEW s \in Server, NEW t \in Server, ConnectStart(c, s, t)
      PROVE  ConnectsTwo'
  <2>1. /\ ptr' = [ptr EXCEPT ![c] = [x \in Server |-> IF x \in {s, t} THEN cfg[x] ELSE NoObj]]
        /\ arg' = [arg EXCEPT ![c] = <<s, t>>] /\ pc' = [pc EXCEPT ![c] = "trunks"]
    BY <1>2 DEF ConnectStart, Starts
  <2>2. ASSUME NEW d \in Connect, NEW x \in Server,
               pc'[d] \in {"trunks", "marked", "first", "second"}, ptr'[d][x] # NoObj
        PROVE  x \in {arg'[d][1], arg'[d][2]}
    <3>1. CASE d = c
      <4>1. arg'[c] = <<s, t>> /\ ptr'[c][x] = IF x \in {s, t} THEN cfg[x] ELSE NoObj
        BY <2>1 DEF PlaceInv, ObjectInv
      <4> QED BY <2>2, <3>1, <4>1
    <3>2. CASE d # c
      BY <2>1, <2>2, <3>2 DEF ConnectsTwo, PlaceInv, ObjectInv
    <3> QED BY <3>1, <3>2
  <2> QED BY <2>2 DEF ConnectsTwo
<1>3. ASSUME NEW j \in Update \cup Reset, NEW a, NEW S, NEW next, Starts(j, a, S, next)
      PROVE  ConnectsTwo'
  <2>1. \A c \in Connect : c # j
    BY <1>3
  <2> QED BY <1>1, <1>3, <2>1 DEF Starts, PlaceInv, ObjectInv
<1>4. CASE Restart
  BY <1>1, <1>4 DEF Restart, ConnectsTwo
<1>5. ASSUME NEW c \in Connect, ConnectMarks(c) \/ ConnectRoutes(c)
      PROVE  ConnectsTwo'
  BY <1>1, <1>5 DEF ConnectMarks, ConnectRoutes, PlaceInv
<1>6. ASSUME NEW c \in Connect, ConnectFails(c) \/ ConnectSave(c)
      PROVE  ConnectsTwo'
  <2>1. arg' = arg /\ (ptr' = ptr \/ ptr' = [ptr EXCEPT ![c] = [x \in Server |-> NoObj]])
    BY <1>6 DEF ConnectFails, ConnectSave, Forgets, NoPtr
  <2>2. \A d \in Connect : pc'[d] \in {"trunks", "marked", "first", "second"} =>
                              pc[d] \in {"trunks", "marked", "first", "second"}
    BY <1>6 DEF ConnectFails, ConnectSave, PlaceInv
  <2> QED BY <1>1, <2>1, <2>2 DEF ObjectInv
<1>7. ASSUME NEW r \in Reset, ResetClearsPeer(r)
      PROVE  ConnectsTwo'
  <2>1. arg' = arg /\ ptr' = [ptr EXCEPT ![r] = NoPtr] /\ pc' = [pc EXCEPT ![r] = "removing"]
    BY <1>7 DEF ResetClearsPeer, Forgets
  <2> QED BY <1>1, <2>1 DEF PlaceInv, ObjectInv
<1>8. ASSUME NEW j \in Job \cup Dial, j \notin Connect, NEW place,
             pc' = [pc EXCEPT ![j] = place], UNCHANGED ptr, UNCHANGED arg \/ \E k : arg' = [arg EXCEPT ![j] = k]
      PROVE  ConnectsTwo'
  BY <1>1, <1>8 DEF PlaceInv
<1>9. CASE UNCHANGED <<pc, arg, ptr>>
  BY <1>1, <1>9
<1>10. ASSUME NEW u \in Update, UpdateStore(u) \/ UpdateDrop(u)
       PROVE  ConnectsTwo'
  BY <1>8, <1>10 DEF UpdateStore, UpdateDrop, DropSessions
<1>11. ASSUME NEW r \in Reset, ResetDrop(r) \/ ResetRemoves(r)
       PROVE  ConnectsTwo'
  BY <1>8, <1>11 DEF ResetDrop, ResetRemoves, DropSessions
<1>12. ASSUME NEW q \in Dial, DialStep(q) \/ \E k \in Key : DialRequest(q, k)
       PROVE  ConnectsTwo'
  BY <1>8, <1>12 DEF DialStep, DialRequest, LookReturns, LookWaits, LookBuilds, BuildOver, Wake
<1>13. ASSUME NEW s \in Server, Provisioned(s)
       PROVE  ConnectsTwo'
  BY <1>9, <1>13 DEF Provisioned
<1>14. CASE Wipe \/ UNCHANGED vars
  BY <1>9, <1>14 DEF Wipe, vars
<1>15. ASSUME NEW u \in Update, NEW s \in Server, UpdateStart(u, s)
       PROVE  ConnectsTwo'
  BY <1>3, <1>15 DEF UpdateStart
<1>16. ASSUME NEW r \in Reset, NEW s \in Server, ResetStart(r, s)
       PROVE  ConnectsTwo'
  BY <1>3, <1>16 DEF ResetStart
<1> QED
  BY <1>2, <1>4, <1>5, <1>6, <1>7, <1>10, <1>11, <1>12, <1>13, <1>14, <1>15, <1>16 DEF Next, JobStep

\* The objects a connect job fills in are those of the servers it connects.
LEMMA FillsInItsOwn ==
    ASSUME PlaceInv, ObjectInv, OwnerInv, ConnectsTwo, NEW c \in Connect, NEW s \in Server, Known(s),
           pc[c] \in {"trunks", "marked", "first", "second"}, ConnectTouches(c, cfg[s])
    PROVE  s \in {arg[c][1], arg[c][2]}
<1>1. PICK t \in Server : ptr[c][t] = cfg[s]
  BY DEF ConnectTouches
<1>2. IsOf(arg, cfg[s], s) /\ IsOf(arg, cfg[s], t) /\ cfg[s] # NoObj
  BY <1>1 DEF OwnerInv, Known, Job
<1>3. s = t
  BY <1>2, Names DEF IsOf
<1> QED BY <1>1, <1>2, <1>3 DEF ConnectsTwo

LEMMA NextSavedOrWillBe ==
    ASSUME PlaceInv, ObjectInv, OwnerInv, ConnectsTwo, SavedOrWillBe, [Next]_vars PROVE SavedOrWillBe'
<1> USE Names
<1> USE DEF Moves, storeVars, cacheVars, ghosts, bounds
<1>0. ASSUME NEW ok \in BOOLEAN, Save(ok) PROVE SavedOrWillBe'
  BY <1>0, SaveKeeps
\* A step of a job or request other than a connect job's, that leaves the store alone.
<1>1. ASSUME NEW j \in (Job \cup Dial) \ Connect, NEW place, pc' = [pc EXCEPT ![j] = place],
             \A c \in Connect : arg'[c] = arg[c], UNCHANGED <<cfg, disk, behind>>,
             \A s \in Server : Known(s) => Rec(s)' = Rec(s)
      PROVE  SavedOrWillBe'
  <2>1. \A c \in Connect : pc'[c] = pc[c]
    BY <1>1 DEF PlaceInv
  <2>2. \A s \in Server, c \in Connect : WillSave(c, s) => WillSave(c, s)'
    BY <1>1, <2>1 DEF WillSave
  <2> QED BY <1>1, <2>2, NoSaveKeeps
<1>2. ASSUME NEW u \in Update, NEW s \in Server, UpdateStart(u, s) PROVE SavedOrWillBe'
  <2>1. /\ pc[u] = "idle" /\ pc' = [pc EXCEPT ![u] = "testing"] /\ arg' = [arg EXCEPT ![u] = s]
        /\ heap' = [heap EXCEPT ![u] = [Rec(s) EXCEPT !.details = @ + 1]]
        /\ UNCHANGED <<cfg, disk, behind>>
    BY <1>2 DEF UpdateStart, Starts
  <2>2. ASSUME NEW x \in Server, Known(x) PROVE Rec(x)' = Rec(x)
    <3>0. arg[u] = NoServer /\ IsOf(arg, cfg[x], x)
      BY <2>1 DEF PlaceInv, OwnerInv
    <3>1. cfg[x] # u
      BY <3>0 DEF IsOf, Obj
    <3>2. cfg[x] \in Obj
      BY <2>2 DEF ObjectInv, Known
    <3> QED BY <2>1, <3>1, <3>2 DEF Rec, ObjectInv
  <2>3. u \in (Job \cup Dial) \ Connect
    BY DEF Job
  <2>4. \A c \in Connect : arg'[c] = arg[c]
    BY <2>1, <2>3 DEF PlaceInv
  <2> QED BY <1>1, <2>1, <2>2, <2>3, <2>4
<1>3. ASSUME NEW u \in Update, UpdateStore(u) PROVE SavedOrWillBe'
  <2>1. CASE \E ok \in BOOLEAN : Save(ok)
    BY <1>0, <2>1
  <2>2. CASE UNCHANGED <<cfg, disk, behind>>
    <3>1. u \in (Job \cup Dial) \ Connect /\ heap' = heap /\ arg' = arg
          /\ \E place : pc' = [pc EXCEPT ![u] = place]
      BY <1>3 DEF UpdateStore, Job
    <3> QED BY <1>1, <2>2, <3>1 DEF Rec
  <2> QED BY <1>3, <2>1, <2>2 DEF UpdateStore, UpdateServer
<1>4. ASSUME NEW j \in (Job \cup Dial) \ Connect, NEW place, pc' = [pc EXCEPT ![j] = place],
             arg' = arg \/ (j \in Dial /\ \E k : arg' = [arg EXCEPT ![j] = k])
                        \/ (j \in Reset /\ \E k : arg' = [arg EXCEPT ![j] = k]),
             UNCHANGED <<cfg, disk, behind, heap>>
      PROVE  SavedOrWillBe'
  <2>1. \A c \in Connect : arg'[c] = arg[c]
    BY <1>4 DEF PlaceInv, Job
  <2> QED BY <1>1, <1>4, <2>1 DEF Rec
<1>5. ASSUME NEW u \in Update, UpdateDrop(u) PROVE SavedOrWillBe'
  BY <1>4, <1>5 DEF UpdateDrop, DropSessions, Job
<1>6. ASSUME NEW c \in Connect, NEW s \in Server, NEW t \in Server, ConnectStart(c, s, t)
      PROVE  SavedOrWillBe'
  <2>1. /\ pc[c] = "idle" /\ pc' = [pc EXCEPT ![c] = "trunks"] /\ arg' = [arg EXCEPT ![c] = <<s, t>>]
        /\ UNCHANGED <<cfg, disk, behind, heap>>
    BY <1>6 DEF ConnectStart, Starts
  <2>2. \A x \in Server, d \in Connect : WillSave(d, x) => WillSave(d, x)'
    BY <2>1 DEF WillSave, PlaceInv
  <2> QED BY <2>1, <2>2, NoSaveKeeps DEF Rec
<1>7. ASSUME NEW c \in Connect, ConnectMarks(c) \/ ConnectRoutes(c) PROVE SavedOrWillBe'
  <2>1. /\ pc[c] \in {"trunks", "marked"} /\ arg' = arg /\ UNCHANGED <<cfg, disk, behind>>
        /\ \E place \in {"marked", "first"} : pc' = [pc EXCEPT ![c] = place]
        /\ \A o \in Obj : ~ConnectTouches(c, o) => heap'[o] = heap[o]
    BY <1>7 DEF ConnectMarks, ConnectRoutes
  <2>2. \A x \in Server, d \in Connect : WillSave(d, x) => WillSave(d, x)'
    BY <2>1 DEF WillSave, PlaceInv
  <2>3. ASSUME NEW x \in Server, Known(x) PROVE Rec(x)' = Rec(x) \/ WillSave(c, x)'
    <3>1. cfg[x] \in Obj
      BY <2>3 DEF ObjectInv, Known
    <3>2. CASE ConnectTouches(c, cfg[x])
      <4>1. x \in {arg[c][1], arg[c][2]}
        BY <2>1, <2>3, <3>2, FillsInItsOwn
      <4>2. pc'[c] \in {"marked", "first"}
        BY <2>1 DEF PlaceInv, Job
      <4> QED BY <2>1, <4>1, <4>2 DEF WillSave
    <3>3. CASE ~ConnectTouches(c, cfg[x])
      BY <2>1, <3>1, <3>3 DEF Rec
    <3> QED BY <3>2, <3>3
  <2> QED BY <2>1, <2>2, <2>3, NoSaveKeeps
<1>8. ASSUME NEW c \in Connect, ConnectFails(c) PROVE SavedOrWillBe'
  <2>1. CASE behind'
    BY <2>1 DEF SavedOrWillBe
  <2>2. CASE Moves(c, "trunks", "done") /\ UNCHANGED behind
    <3>1. UNCHANGED <<cfg, disk, behind, heap, arg>>
      BY <1>8, <2>2 DEF ConnectFails
    <3>2. \A x \in Server, d \in Connect : WillSave(d, x) => WillSave(d, x)'
      BY <2>2, <3>1 DEF WillSave, PlaceInv
    <3> QED BY <3>1, <3>2, NoSaveKeeps DEF Rec
  <2> QED BY <1>8, <2>1, <2>2 DEF ConnectFails
<1>9. ASSUME NEW c \in Connect, ConnectSave(c) PROVE SavedOrWillBe'
  <2>1. PICK n \in {1, 2} :
          /\ IF n = 1 THEN Moves(c, "first", "second") ELSE Moves(c, "second", "done")
          /\ UNCHANGED heap
          /\ \E ok \in BOOLEAN : UpdateServer(arg[c][n], Started(c, arg[c][n]), ok)
          /\ UNCHANGED arg
    BY <1>9 DEF ConnectSave
  <2>2. CASE Known(arg[c][n])
    BY <1>0, <2>1, <2>2 DEF UpdateServer
  <2>3. CASE ~Known(arg[c][n])
    <3>1. UNCHANGED <<cfg, disk, behind, heap, arg>>
      BY <2>1, <2>3 DEF UpdateServer
    <3>2. ASSUME NEW x \in Server, NEW d \in Connect, Known(x), WillSave(d, x) PROVE WillSave(d, x)'
      <4>1. CASE d # c
        <5>1. pc'[d] = pc[d] /\ arg' = arg
          BY <2>1, <4>1 DEF PlaceInv, Job
        <5> QED BY <3>2, <5>1 DEF WillSave
      <4>2. CASE d = c
        <5>1. x # arg[c][n]
          BY <2>3, <3>2
        <5>2. n = 1 /\ pc[c] = "first" /\ x = arg[c][2]
          BY <2>1, <3>2, <4>2, <5>1 DEF WillSave
        <5>3. pc'[c] = "second" /\ arg' = arg
          BY <2>1, <5>2 DEF PlaceInv, Job
        <5> QED BY <4>2, <5>2, <5>3 DEF WillSave
      <4> QED BY <4>1, <4>2
    <3> QED BY <3>1, <3>2, NoSaveKeeps DEF Rec
  <2> QED BY <2>2, <2>3
<1>10. ASSUME NEW r \in Reset, NEW s \in Server, ResetStart(r, s) PROVE SavedOrWillBe'
  BY <1>4, <1>10 DEF ResetStart, Starts, Job
<1>11. ASSUME NEW r \in Reset, ResetDrop(r) PROVE SavedOrWillBe'
  BY <1>4, <1>11 DEF ResetDrop, DropSessions, Job
<1>12. ASSUME NEW r \in Reset, ResetClearsPeer(r) PROVE SavedOrWillBe'
  <2>1. CASE \E ok \in BOOLEAN : Save(ok)
    BY <1>0, <2>1
  <2>2. CASE UNCHANGED <<cfg, heap, disk, behind>>
    <3>1. r \in (Job \cup Dial) \ Connect /\ pc' = [pc EXCEPT ![r] = "removing"] /\ arg' = arg
      BY <1>12 DEF ResetClearsPeer, Job
    <3> QED BY <1>4, <2>2, <3>1
  <2> QED BY <1>12, <2>1, <2>2 DEF ResetClearsPeer
<1>13. ASSUME NEW r \in Reset, ResetRemoves(r) PROVE SavedOrWillBe'
  <2>1. CASE Known(arg[r])
    BY <1>0, <1>13, <2>1 DEF ResetRemoves
  <2>2. CASE ~Known(arg[r])
    <3>1. cfg' = cfg
      BY <1>13, <2>2 DEF ResetRemoves, Known, ObjectInv
    <3>2. r \in (Job \cup Dial) \ Connect /\ pc' = [pc EXCEPT ![r] = "done"] /\ arg' = arg
          /\ UNCHANGED <<heap, disk, behind>>
      BY <1>13, <2>2 DEF ResetRemoves, Job
    <3> QED BY <1>4, <3>1, <3>2
  <2> QED BY <2>1, <2>2
<1>14. ASSUME NEW q \in Dial, DialStep(q) \/ \E k \in Key : DialRequest(q, k) PROVE SavedOrWillBe'
  <2>1. q \in (Job \cup Dial) \ Connect
    BY DEF Job
  <2> QED BY <1>4, <1>14, <2>1 DEF DialStep, DialRequest, LookReturns, LookWaits, LookBuilds, BuildOver, Wake
<1>15. ASSUME NEW s \in Server, Provisioned(s) PROVE SavedOrWillBe'
  BY <1>0, <1>15 DEF Provisioned
<1>16. CASE Wipe
  BY <1>16 DEF Wipe, SavedOrWillBe
<1>17. CASE Restart
  <2>1. /\ cfg' = [s \in Server |-> IF disk[s] = NoObj THEN NoObj ELSE s] /\ disk' = disk
        /\ heap' = [o \in Obj |-> IF o \in Server /\ disk[o] # NoObj THEN disk[o] ELSE NewServer]
    BY <1>17 DEF Restart
  <2>2. \A s \in Server : s \in Obj /\ s # NoObj
    BY DEF Obj
  <2>3. \A s \in Server : disk'[s] = Stored(s)'
    BY <2>1, <2>2 DEF Stored, Known, Rec
  <2> QED BY <2>3 DEF SavedOrWillBe
<1>18. CASE UNCHANGED vars
  BY <1>18, NoSaveKeeps DEF vars, Rec, WillSave
<1> QED
  BY <1>2, <1>3, <1>5, <1>6, <1>7, <1>8, <1>9, <1>10, <1>11, <1>12, <1>13, <1>14, <1>15, <1>16, <1>17, <1>18
  DEF Next, JobStep

\* Whatever jobs overlap and fail, the file has what the store has, but after a save
\* that failed, a wipe, or while a connect job fills in servers: DiskAgrees.
THEOREM FileHasTheStore == Safety => []DiskAgrees
<1>1. Init => ConnectsTwo /\ SavedOrWillBe
  <2> SUFFICES ASSUME Init PROVE ConnectsTwo /\ SavedOrWillBe
    OBVIOUS
  <2>1. ConnectsTwo
    BY DEF Init, ConnectsTwo, NoPtr, Job
  <2>2. disk = Marshalled(cfg, heap)
    BY DEF Init
  <2> QED BY <2>1, <2>2 DEF SavedOrWillBe, Marshalled, Stored, Known, Rec
<1>2. RegistryIInv /\ ConnectsTwo /\ SavedOrWillBe /\ [Next]_vars => (ConnectsTwo /\ SavedOrWillBe)'
  BY NextConnectsTwo, NextSavedOrWillBe DEF RegistryIInv
<1>3. RegistryIInv /\ SavedOrWillBe => DiskAgrees
  <2> SUFFICES ASSUME RegistryIInv, SavedOrWillBe, ~behind,
                      ~ \E c \in Connect : pc[c] \in {"marked", "first", "second"}
               PROVE  disk = Marshalled(cfg, heap)
    BY DEF DiskAgrees
  <2>1. \A s \in Server : disk[s] = Stored(s)
    BY DEF SavedOrWillBe, WillSave
  <2>2. disk = [s \in Server |-> disk[s]]
    BY DEF RegistryIInv, ObjectInv
  <2> QED BY <2>1, <2>2 DEF Marshalled, Stored, Known, Rec
<1> QED BY <1>1, <1>2, <1>3, RegistryInvariant, PTL DEF Safety
=============================================================================
