--------------------------- MODULE ServerRegistry ---------------------------
(***************************************************************************)
(* The servers SwarmDialer knows (internal/store), the background jobs     *)
(* that add, connect, reconfigure and reset them, and the dialing sessions *)
(* built from them and cached per server or per pair (cmd/gui/handlers.go).*)
(*                                                                         *)
(* GetServer hands out the store's own pointer, so servers are objects on  *)
(* a heap: a connect job fills in the two it was given, an update stores a *)
(* changed copy.  A session is named by the dial request that built it.    *)
(***************************************************************************)
EXTENDS Naturals, FiniteSets

CONSTANTS
    Server, NoServer,
    Dial,           \* dial requests
    Update, Connect, Reset, \* jobs started from the Settings page
    NoObj, NoDial,
    Extensions,     \* extensions of each server, a port each
    Gap,            \* ports left free after a range
    Asked,          \* the sessions that are dialed
    MaxJobs,        \* bound: jobs started
    MaxFaults,      \* bound: PBXware requests and writes to disk that fail
    MaxRestarts     \* bound: restarts of the process

ASSUME RegistryAssumption ==
    /\ IsFiniteSet(Dial) /\ NoServer \notin Server /\ NoDial \notin Dial
    /\ NoObj \notin Server \cup Update
    /\ Server \cap Update = {} /\ Dial \cap (Update \cup Connect \cup Reset) = {}
    /\ Update \cap (Connect \cup Reset) = {} /\ Connect \cap Reset = {}
    /\ Asked \subseteq Server \X Server /\ MaxJobs \in Nat
    /\ Extensions \in Nat \ {0} /\ Gap \in Nat /\ MaxFaults \in Nat /\ MaxRestarts \in Nat

\* A server's first object is named after it, an update's copy after the update.
Obj == Server \cup Update
Job == Update \cup Connect \cup Reset
\* A session's caller and callee server; the same one for a local session.
Key == Server \X Server

VARIABLES
    cfg,            \* the object the store holds for each server
    heap,           \* the objects
    disk,           \* the servers in the config file
    behind,         \* the file is known not to have what the store has
    pc, arg,        \* where each job and dial request is, and what it is about
    ptr,            \* the objects a job got from GetServer, by server
    sessions,       \* localSessions and remoteSessions: the request that built each
    pendingSessions,
    built,          \* what each attempt to build a session read from the store
    nextPortOffset,
    raced,          \* builders that read the store before their server was dropped
    undropped,      \* servers whose details changed without their sessions dropped
    faults, restarts \* so far

storeVars == <<cfg, heap, disk, behind>>
bounds == <<faults, restarts>>
cacheVars == <<sessions, pendingSessions, built, nextPortOffset>>
ghosts == <<raced, undropped>>
vars == <<storeVars, pc, arg, ptr, cacheVars, ghosts, bounds>>
-----------------------------------------------------------------------------
Known(s) == cfg[s] # NoObj
Rec(s) == heap[cfg[s]]
NoPtr == [s \in Server |-> NoObj]
NewServer == [details |-> 0, peer |-> NoServer, dids |-> FALSE]

Marshalled(c, h) == [s \in Server |-> IF c[s] = NoObj THEN NoObj ELSE h[c[s]]]

Moves(j, from, to) == pc[j] = from /\ pc' = [pc EXCEPT ![j] = to]

\* Something outside fails, or nothing does.
Fault(fails) ==
    IF fails THEN faults < MaxFaults /\ faults' = faults + 1 ELSE UNCHANGED faults

\* save writes the whole configuration; the store keeps its change if it fails.
Save(ok) ==
    /\ Fault(~ok)
    /\ disk' = IF ok THEN Marshalled(cfg', heap') ELSE disk
    /\ behind' = ~ok

\* UpdateServer of the object o: nothing but an error for a server it lost.
UpdateServer(s, o, ok) ==
    IF Known(s)
    THEN cfg' = [cfg EXCEPT ![s] = o] /\ Save(ok)
    ELSE UNCHANGED <<cfg, disk, behind, faults>>

\* Open reads the config file; which servers it has, and whether two of them
\* are connected, is left open.
Init ==
    /\ \E S \in SUBSET Server : cfg = [s \in Server |-> IF s \in S THEN s ELSE NoObj]
    /\ \/ heap = [o \in Obj |-> NewServer]
       \/ \E s, t \in {x \in Server : Known(x)} :
            /\ s # t
            /\ heap = [o \in Obj |->
                        IF o \in {s, t}
                        THEN [details |-> 0, peer |-> IF o = s THEN t ELSE s, dids |-> TRUE]
                        ELSE NewServer]
    /\ disk = Marshalled(cfg, heap)
    /\ behind = FALSE
    /\ pc = [j \in Job \cup Dial |-> "idle"]
    /\ arg = [j \in Job \cup Dial |-> NoServer]
    /\ ptr = [j \in Job |-> NoPtr]
    /\ sessions = [k \in Key |-> NoDial] /\ pendingSessions = [k \in Key |-> NoDial]
    /\ built = [q \in Dial |-> NoDial]
    /\ nextPortOffset = 0
    /\ raced = {} /\ undropped = {}
    /\ faults = 0 /\ restarts = 0
-----------------------------------------------------------------------------
(* The jobs.                                                               *)

\* handleProvision's goroutine; Wizard models what it does on PBXware.  The ID is
\* new: never that of a server that was removed.
Provisioned(s) ==
    /\ ~Known(s) /\ disk[s] = NoObj
    /\ \A r \in Reset : arg[r] # s
    /\ heap[s] = NewServer
    /\ cfg' = [cfg EXCEPT ![s] = s]
    /\ UNCHANGED heap
    /\ \E ok \in BOOLEAN : Save(ok)
    /\ UNCHANGED <<pc, arg, ptr, cacheVars, ghosts, restarts>>

\* The goroutine is over.
Forgets(j) == ptr' = [ptr EXCEPT ![j] = NoPtr]

\* GetServer of each server in S.
Starts(j, a, S, next) ==
    /\ Moves(j, "idle", next)
    /\ Cardinality({i \in Job : pc[i] # "idle"}) < MaxJobs
    /\ \A s \in S : Known(s)
    /\ arg' = [arg EXCEPT ![j] = a]
    /\ ptr' = [ptr EXCEPT ![j] = [s \in Server |-> IF s \in S THEN cfg[s] ELSE NoObj]]
    /\ UNCHANGED <<cfg, disk, behind, cacheVars, ghosts, bounds>>

\* handleServerUpdate: a copy with new details, tested before it is stored.
UpdateStart(u, s) ==
    /\ Starts(u, s, {}, "testing") /\ Known(s)
    /\ heap' = [heap EXCEPT ![u] = [Rec(s) EXCEPT !.details = @ + 1]]

UpdateStore(u) ==
    /\ UNCHANGED heap
    /\ \/ /\ Moves(u, "testing", "dropping")
          /\ Known(arg[u])
          /\ UpdateServer(arg[u], u, TRUE)
          /\ UNCHANGED undropped
       \/ /\ Moves(u, "testing", "done")
          /\ Known(arg[u])
          /\ UpdateServer(arg[u], u, FALSE)
          /\ undropped' = undropped \cup {arg[u]}
       \/ /\ Moves(u, "testing", "done")
          /\ Known(arg[u]) => Fault(TRUE)
          /\ ~Known(arg[u]) => UNCHANGED faults
          /\ UNCHANGED <<cfg, disk, behind, undropped>>
    /\ UNCHANGED <<arg, ptr, cacheVars, raced, restarts>>

KeysOf(s) == {k \in Key : s \in {k[1], k[2]}}

\* Mutant: sessions in which the server is only called are kept.
Dropped_CallersOnly(s) ==
    [k \in Key |-> IF k[1] = s THEN NoDial ELSE sessions[k]]

Dropped(s) == [k \in Key |-> IF k \in KeysOf(s) THEN NoDial ELSE sessions[k]]

\* Sessions being built are not in the maps and escape.
DropSessions(s) ==
    /\ sessions' = Dropped(s)
    /\ raced' = raced \cup {q \in Dial : pc[q] = "building" /\ arg[q] \in KeysOf(s)}
    /\ undropped' = undropped \ {s}
    /\ UNCHANGED <<storeVars, arg, ptr, pendingSessions, built, nextPortOffset, bounds>>

UpdateDrop(u) == Moves(u, "dropping", "saved") /\ DropSessions(arg[u])

\* handleConnect and ConnectServers.
ConnectStart(c, s, t) ==
    /\ s # t
    /\ Starts(c, <<s, t>>, {s, t}, "trunks")
    /\ UNCHANGED heap

ConnectTouches(c, o) == \E s \in Server : ptr[c][s] = o

PeerOf(c, o) ==
    IF ptr[c][arg[c][1]] = o THEN arg[c][2] ELSE arg[c][1]

\* The trunks exist on both sides: the servers are marked connected.
ConnectMarks(c) ==
    /\ Moves(c, "trunks", "marked")
    /\ heap' = [o \in Obj |-> IF ConnectTouches(c, o)
                              THEN [heap[o] EXCEPT !.peer = PeerOf(c, o)] ELSE heap[o]]
    /\ UNCHANGED <<cfg, disk, behind, arg, ptr, cacheVars, ghosts, bounds>>

\* Every DID was added; then 90 s for PBXware to reload.
ConnectRoutes(c) ==
    /\ Moves(c, "marked", "first")
    /\ heap' = [o \in Obj |-> IF ConnectTouches(c, o)
                              THEN [heap[o] EXCEPT !.dids = TRUE] ELSE heap[o]]
    /\ UNCHANGED <<cfg, disk, behind, arg, ptr, cacheVars, ghosts, bounds>>

\* handleConnect's goroutine returns without saving; what is marked stays marked.
ConnectFails(c) ==
    /\ Fault(TRUE)
    /\ \/ Moves(c, "trunks", "done") /\ UNCHANGED behind
       \/ Moves(c, "marked", "done") /\ behind' = TRUE
    /\ Forgets(c)
    /\ UNCHANGED <<cfg, heap, disk, arg, cacheVars, ghosts, restarts>>

\* Mutant: each server's object is stored as the other one's.
Started_Swapped(c, s) == ptr[c][IF s = arg[c][1] THEN arg[c][2] ELSE arg[c][1]]

Started(c, s) == ptr[c][s]

\* UpdateServer of both, which puts the objects the job started with back.
ConnectSave(c) ==
    \E n \in {1, 2} : LET s == arg[c][n] IN
        /\ IF n = 1 THEN Moves(c, "first", "second") ELSE Moves(c, "second", "done")
        /\ UNCHANGED heap
        /\ \E ok \in BOOLEAN : UpdateServer(s, Started(c, s), ok)
        /\ undropped' = IF Known(s) /\ cfg[s] # Started(c, s) THEN undropped \cup {s}
                        ELSE undropped
        /\ IF n = 1 THEN UNCHANGED ptr ELSE Forgets(c)
        /\ UNCHANGED <<arg, cacheVars, raced, restarts>>

\* handleResetInstance; ResetInstance takes minutes and only warns.
ResetStart(r, s) ==
    /\ Starts(r, s, {s}, "tearing")
    /\ UNCHANGED heap

ResetDrop(r) == Moves(r, "tearing", "clearing") /\ DropSessions(arg[r])

ResetClearsPeer(r) ==
    LET p == heap[ptr[r][arg[r]]].peer
    IN /\ Moves(r, "clearing", "removing")
       /\ IF p # NoServer /\ Known(p)
          THEN /\ heap' = [heap EXCEPT ![cfg[p]].peer = NoServer]
               /\ UNCHANGED cfg
               /\ \E ok \in BOOLEAN : Save(ok)
          ELSE UNCHANGED <<cfg, heap, disk, behind, faults>>
       /\ Forgets(r)
       /\ UNCHANGED <<arg, cacheVars, ghosts, restarts>>

\* Mutant: removed from the store, not from the file.
ResetRemoves_Unsaved(r) ==
    /\ Moves(r, "removing", "done")
    /\ cfg' = [cfg EXCEPT ![arg[r]] = NoObj]
    /\ UNCHANGED <<heap, disk, behind, arg, ptr, cacheVars, ghosts, bounds>>

ResetRemoves(r) ==
    /\ Moves(r, "removing", "done")
    /\ cfg' = [cfg EXCEPT ![arg[r]] = NoObj]
    /\ UNCHANGED heap
    /\ IF Known(arg[r]) THEN \E ok \in BOOLEAN : Save(ok)
       ELSE UNCHANGED <<disk, behind, faults>>
    /\ UNCHANGED <<arg, ptr, cacheVars, ghosts, restarts>>

\* handleResetSwarmDialer: the process restarts a moment later.
Wipe ==
    /\ restarts < MaxRestarts
    /\ disk' = [s \in Server |-> NoObj]
    /\ behind' = TRUE
    /\ UNCHANGED <<cfg, heap, pc, arg, ptr, cacheVars, ghosts, bounds>>

\* After a wipe, or a crash at any moment.  Jobs, requests and sessions are gone;
\* the new ones of the new process are those of a process that starts from Init.
Restart ==
    /\ restarts < MaxRestarts
    /\ restarts' = restarts + 1
    /\ cfg' = [s \in Server |-> IF disk[s] = NoObj THEN NoObj ELSE s]
    /\ heap' = [o \in Obj |-> IF o \in Server /\ disk[o] # NoObj THEN disk[o] ELSE NewServer]
    /\ pc' = [j \in Job \cup Dial |-> "done"]
    /\ arg' = [j \in Job \cup Dial |-> NoServer]
    /\ ptr' = [j \in Job |-> NoPtr]
    /\ sessions' = [k \in Key |-> NoDial] /\ pendingSessions' = [k \in Key |-> NoDial]
    /\ built' = [q \in Dial |-> NoDial] /\ nextPortOffset' = 0
    /\ behind' = FALSE
    /\ raced' = {} /\ undropped' = {}
    /\ UNCHANGED <<disk, faults>>
-----------------------------------------------------------------------------
(* sessionFor.  One pass of its loop holds a.mu.                           *)

Dialable(k) ==
    /\ Known(k[1]) /\ Known(k[2])
    /\ k[1] = k[2] \/ Rec(k[1]).peer = k[2]

\* A remote session takes two ranges.
RangesAt(base, k) ==
    {base .. base + Extensions - 1} \cup
    (IF k[1] = k[2] THEN {}
     ELSE {base + Extensions + Gap .. base + 2 * Extensions + Gap - 1})

\* Mutant: a remote session reserves its callers' ports only.
allocPortRange_CallersOnly(k) ==
    nextPortOffset' = nextPortOffset + Extensions + Gap

allocPortRange(k) ==
    nextPortOffset' = nextPortOffset + (Extensions + Gap) * (IF k[1] = k[2] THEN 1 ELSE 2)

DialRequest(q, k) ==
    /\ Moves(q, "idle", "looking")
    /\ arg' = [arg EXCEPT ![q] = k]
    /\ UNCHANGED <<storeVars, ptr, cacheVars, ghosts, bounds>>

\* No such servers, not connected, or the session is there.
LookReturns(q) ==
    /\ Moves(q, "looking", "done")
    /\ ~Dialable(arg[q]) \/ sessions[arg[q]] # NoDial
    /\ UNCHANGED <<storeVars, arg, ptr, cacheVars, ghosts, bounds>>

\* Another request is building it; ports were reserved all the same.
LookWaits(q) ==
    /\ pc[q] = "looking" /\ Dialable(arg[q]) /\ sessions[arg[q]] = NoDial
    /\ pendingSessions[arg[q]] # NoDial
    /\ Moves(q, "looking", "waiting")
    /\ built' = [built EXCEPT ![q] = pendingSessions[arg[q]]]
    /\ allocPortRange(arg[q])
    /\ UNCHANGED <<storeVars, arg, ptr, sessions, pendingSessions, ghosts, bounds>>

\* Mutant: the lookup does not see who is building already.
MayBuild_NotPending(k) == sessions[k] = NoDial

MayBuild(k) == sessions[k] = NoDial /\ pendingSessions[k] = NoDial

\* While a reset has dropped the sessions and not yet removed the server, it is
\* dialed as ever.
BeingRemoved(s) == \E r \in Reset : pc[r] \in {"clearing", "removing"} /\ arg[r] = s

LookBuilds(q) ==
    LET k == arg[q]
    IN /\ Moves(q, "looking", "building")
       /\ Dialable(k) /\ MayBuild(k)
       /\ pendingSessions' = [pendingSessions EXCEPT ![k] = q]
       /\ built' = [built EXCEPT ![q] =
                        [details |-> <<Rec(k[1]).details, Rec(k[2]).details>>,
                         ranges |-> RangesAt(nextPortOffset, k)]]
       /\ allocPortRange(k)
       /\ raced' = IF \E s \in {k[1], k[2]} : BeingRemoved(s) THEN raced \cup {q} ELSE raced
       /\ UNCHANGED <<storeVars, arg, ptr, sessions, undropped, bounds>>

\* Every extension registered, or not: the waiters may look again.
BuildOver(q) ==
    /\ Moves(q, "building", "done")
    /\ \/ sessions' = [sessions EXCEPT ![arg[q]] = q] /\ Fault(FALSE)
       \/ Fault(TRUE) /\ UNCHANGED sessions
    /\ pendingSessions' = [pendingSessions EXCEPT ![arg[q]] = NoDial]
    /\ UNCHANGED <<storeVars, arg, ptr, built, nextPortOffset, ghosts, restarts>>

\* Mutant: the channel is closed only when the session was built.
Wake_OnSuccess(q) ==
    /\ pc[q] = "waiting" /\ pc[built[q]] = "done" /\ sessions[arg[q]] # NoDial
    /\ Moves(q, "waiting", "looking")
    /\ built' = [built EXCEPT ![q] = NoDial]
    /\ UNCHANGED <<storeVars, arg, ptr, sessions, pendingSessions, nextPortOffset, ghosts,
                   bounds>>

\* The channel closed; look again.
Wake(q) ==
    /\ pc[q] = "waiting" /\ pc[built[q]] = "done"
    /\ Moves(q, "waiting", "looking")
    /\ built' = [built EXCEPT ![q] = NoDial]
    /\ UNCHANGED <<storeVars, arg, ptr, sessions, pendingSessions, nextPortOffset, ghosts,
                   bounds>>
-----------------------------------------------------------------------------
JobStep(j) ==
    \/ j \in Update /\ (UpdateStore(j) \/ UpdateDrop(j))
    \/ j \in Connect /\ (ConnectMarks(j) \/ ConnectRoutes(j) \/ ConnectFails(j) \/ ConnectSave(j))
    \/ j \in Reset /\ (ResetDrop(j) \/ ResetClearsPeer(j) \/ ResetRemoves(j))

DialStep(q) ==
    LookReturns(q) \/ LookWaits(q) \/ LookBuilds(q) \/ BuildOver(q) \/ Wake(q)

Next ==
    \/ \E s \in Server : Provisioned(s)
    \/ \E u \in Update, s \in Server : UpdateStart(u, s)
    \/ \E c \in Connect, s, t \in Server : ConnectStart(c, s, t)
    \/ \E r \in Reset, s \in Server : ResetStart(r, s)
    \/ \E j \in Job : JobStep(j)
    \/ \E q \in Dial, k \in Asked : DialRequest(q, k)
    \/ \E q \in Dial : DialStep(q)
    \/ Wipe \/ Restart

Safety == Init /\ [][Next]_vars

\* A dial request's goroutine runs on, and registering extensions times out.
Spec == Safety /\ \A q \in Dial : WF_vars(DialStep(q))
-----------------------------------------------------------------------------
TypeOK ==
    /\ cfg \in [Server -> Obj \cup {NoObj}]
    /\ heap \in [Obj -> [details : Nat, peer : Server \cup {NoServer}, dids : BOOLEAN]]
    /\ \A s \in Server : disk[s] = NoObj \/ disk[s].details \in Nat
    /\ behind \in BOOLEAN
    /\ ptr \in [Job -> [Server -> Obj \cup {NoObj}]]
    /\ \A s \in Server : cfg[s] \in {s, NoObj} \cup {u \in Update : arg[u] = s}
    /\ sessions \in [Key -> Dial \cup {NoDial}]
    /\ pendingSessions \in [Key -> Dial \cup {NoDial}]
    /\ nextPortOffset \in Nat
    /\ raced \subseteq Dial /\ undropped \subseteq Server
    /\ faults \in 0..MaxFaults /\ restarts \in 0..MaxRestarts

\* "wait for that instead of registering them twice" (handlers.go:478-479):
\* however requests, failures and resets interleave, one request at a time
\* registers a session's extensions, and none while a cached session has them.
SingleFlight ==
    \A q \in Dial : pc[q] = "building" =>
        /\ sessions[arg[q]] = NoDial
        /\ \A p \in Dial \ {q} : pc[p] = "building" => arg[p] # arg[q]

Ranges(q) == IF built[q] \in Dial \cup {NoDial} THEN {} ELSE built[q].ranges

\* "so successive sessions don't reuse ports" (app.go:53): phones of sessions
\* that were dropped, or could not be built, still hold theirs.
PortsDisjoint ==
    \A p, q \in Dial : \A R \in Ranges(p), S \in Ranges(q) :
        (p = q /\ R = S) \/ R \cap S = {}

\* However sessions are built, dropped and built again, one request at a time registers
\* a pair's extensions and no two sessions share a port (handlers.go:440-548).  A session
\* that was dropped stays registered beside its successor: nothing closes it.
RegistryInv == TypeOK /\ SingleFlight /\ PortsDisjoint

\* A cached session dials its servers as they are configured, except if it was
\* being built while they were dropped, or they changed by a way that drops
\* nothing.  Those are the only ways.
StaleOnlyWhenRaced ==
    \A k \in Key : sessions[k] # NoDial =>
        \/ sessions[k] \in raced
        \/ \A n \in {1, 2} :
            \/ k[n] \in undropped
            \/ \E u \in Update : pc[u] = "dropping" /\ arg[u] = k[n]
            \/ Known(k[n]) /\ built[sessions[k]].details[n] = Rec(k[n]).details

\* Whatever jobs overlapped and failed, the file has what the store has, unless
\* a save failed, the file was deleted, or a connect job is filling in servers.
DiskAgrees ==
    \/ behind
    \/ \E c \in Connect : pc[c] \in {"marked", "first", "second"}
    \/ disk = Marshalled(cfg, heap)

\* "Its dialing sessions are dropped so the next dial uses the new details"
\* (handlers.go:250-251).  Not of a session that was being built meanwhile.
NextDialUsesNewDetails ==
    \A u \in Update, k \in Key :
        /\ pc[u] = "saved" /\ sessions[k] # NoDial /\ arg[u] \in {k[1], k[2]}
        => \A n \in {1, 2} : k[n] = arg[u] =>
                built[sessions[k]].details[n] >= heap[u].details

\* handleServerUpdate "reconfigures ... its display name, base URL and API keys"
\* (handlers.go:246-247), so a server stays connected through it.  It does not
\* when it was connected while the new details were tested.
UpdateKeepsTrunk ==
    [][\A u \in Update : pc[u] = "testing" /\ pc'[u] = "dropping" =>
            Rec(arg[u])'.peer = Rec(arg[u]).peer]_vars

\* A dial request gets a session or an error, however often it had to wait.
DialReturns == \A q \in Dial : pc[q] = "looking" ~> pc[q] = "done"
=============================================================================
