----------------------------- MODULE TrunkCodec -----------------------------
(***************************************************************************)
(* The trunk codec order of remote batches: prepareRemoteBatch and release *)
(* of cmd/gui/trunkcodec.go, as handleDial and the test runner use them.   *)
(*                                                                         *)
(* A trunk's codec order is abstracted to its first codec: TrunkCodecOrder *)
(* orders the rest of a fixed list behind it.  Each PBXware has the order  *)
(* its API shows and writes to disk (order) and the one Asterisk dials     *)
(* with (live), which follows at the next one-minute reload.               *)
(***************************************************************************)
EXTENDS Naturals, FiniteSets

CONSTANTS
    Server,         \* PBXware instances
    Direction,      \* the <<caller, callee>> pairs batches are dialed on
    Trunked,        \* servers whose TrunkID is known
    Codec,
    Batch,          \* dial requests and tests, each reused for one after another
    NoCodec,        \* the codec of a remoteBatchState no batch has used yet
    NoBatch,
    MaxFaults,      \* bound: failing PBXware requests
    MaxRestarts     \* bound: restarts of SwarmDialer

ASSUME TrunkAssumption ==
    /\ Direction \subseteq {d \in Server \X Server : d[1] # d[2]}
    /\ Trunked \subseteq Server
    /\ IsFiniteSet(Batch)
    /\ NoCodec \notin Codec
    /\ NoBatch \notin Batch
    /\ MaxFaults \in Nat /\ MaxRestarts \in Nat

VARIABLES
    order, live,        \* first codec of each trunk: configured, and in use
    bst, bdir, bcodec,  \* where each batch is, its direction and codec
    holder,             \* the batch whose request holds trunkMu
    pos,                \* which of its two servers comes next
    changed,            \* the trunks it reordered
    stCodec, running,   \* remoteBatchState of each direction
    faults, restarts    \* how many of each there were

trunkVars == <<order, live>>
batchVars == <<bst, bdir, bcodec>>
lockVars == <<holder, pos, changed>>
stateVars == <<stCodec, running>>
vars == <<trunkVars, batchVars, lockVars, stateVars, faults, restarts>>
-----------------------------------------------------------------------------
Init ==
    /\ order \in [Server -> Codec]
    /\ live = order
    /\ bst = [b \in Batch |-> "idle"]
    /\ bdir \in [Batch -> Direction]
    /\ bcodec \in [Batch -> Codec]
    /\ holder = NoBatch /\ pos = 1 /\ changed = {}
    /\ stCodec = [d \in Direction |-> NoCodec]
    /\ running = [d \in Direction |-> 0]
    /\ faults = 0 /\ restarts = 0

\* handleDial or runTest asks for both trunks of a pair.
Ask(b, d, c) ==
    /\ bst[b] = "idle"
    /\ bst' = [bst EXCEPT ![b] = "waiting"]
    /\ bdir' = [bdir EXCEPT ![b] = d]
    /\ bcodec' = [bcodec EXCEPT ![b] = c]
    /\ UNCHANGED <<trunkVars, lockVars, stateVars, faults, restarts>>

\* Mutant: any number of codecs share the trunks.
Busy_Never(d, c) == FALSE

\* Mutant: off by one in the count of running batches.
Busy_OffByOne(d, c) == running[d] > 1 /\ stCodec[d] # c

\* Another codec's batch is running on this direction.
Busy(d, c) == running[d] > 0 /\ stCodec[d] # c

\* prepareRemoteBatch takes trunkMu and keeps it to its end, or refuses.
Refuse(b) ==
    /\ bst[b] = "waiting" /\ holder = NoBatch
    /\ Busy(bdir[b], bcodec[b])
    /\ bst' = [bst EXCEPT ![b] = "idle"]
    /\ UNCHANGED <<trunkVars, bdir, bcodec, lockVars, stateVars, faults, restarts>>

Acquire(b) ==
    /\ bst[b] = "waiting" /\ holder = NoBatch
    /\ ~Busy(bdir[b], bcodec[b])
    /\ bst' = [bst EXCEPT ![b] = "preparing"]
    /\ holder' = b /\ pos' = 1 /\ changed' = {}
    /\ UNCHANGED <<trunkVars, bdir, bcodec, stateVars, faults, restarts>>

\* Mutant: only the calling server's trunk is put in order.
AlignTrunk_CallersOnly(b) ==
    /\ holder = b /\ pos \in 1..2
    /\ LET s == bdir[b][1] IN
         IF s \in Trunked /\ order[s] # bcodec[b]
         THEN /\ order' = [order EXCEPT ![s] = bcodec[b]]
              /\ changed' = changed \cup {s}
         ELSE UNCHANGED <<order, changed>>
    /\ pos' = pos + 1
    /\ UNCHANGED <<live, batchVars, holder, stateVars, faults, restarts>>

\* Read one trunk, and reorder it unless its order is right already.
AlignTrunk(b) ==
    /\ holder = b /\ pos \in 1..2
    /\ LET s == bdir[b][pos] IN
         IF s \in Trunked /\ order[s] # bcodec[b]
         THEN /\ order' = [order EXCEPT ![s] = bcodec[b]]
              /\ changed' = changed \cup {s}
         ELSE UNCHANGED <<order, changed>>
    /\ pos' = pos + 1
    /\ UNCHANGED <<live, batchVars, holder, stateVars, faults, restarts>>

\* Mutant: the error returns do not unlock trunkMu.
RequestFails_KeepsLock(b) ==
    /\ holder = b /\ pos \in 1..2
    /\ faults < MaxFaults
    /\ faults' = faults + 1
    /\ bdir[b][pos] \in Trunked
    /\ bst' = [bst EXCEPT ![b] = "idle"]
    /\ pos' = 0                         \* no request goes on
    /\ UNCHANGED <<trunkVars, bdir, bcodec, holder, changed, stateVars, restarts>>

\* The read or the change of a trunk fails, the change perhaps only in its
\* reply: the request ends in an error, with what it has done so far.
RequestFails(b) ==
    /\ holder = b /\ pos \in 1..2
    /\ faults < MaxFaults
    /\ faults' = faults + 1
    /\ LET s == bdir[b][pos] IN
         /\ s \in Trunked
         /\ order' \in {order, [order EXCEPT ![s] = bcodec[b]]}
    /\ bst' = [bst EXCEPT ![b] = "idle"]
    /\ holder' = NoBatch
    /\ UNCHANGED <<live, bdir, bcodec, pos, changed, stateVars, restarts>>

\* Mutant: dial without waiting for PBXware to apply the new order.
Settled_AtOnce == TRUE

\* The 65 s sleep outlasts PBXware's reload cycle: every server has reloaded.
\* No trunk changed, no sleep.
Settled == changed # {} => live = order

\* The batch may dial.
Commit(b) ==
    /\ holder = b /\ pos = 3
    /\ Settled
    /\ stCodec' = [stCodec EXCEPT ![bdir[b]] = bcodec[b]]
    /\ running' = [running EXCEPT ![bdir[b]] = @ + 1]
    /\ bst' = [bst EXCEPT ![b] = "running"]
    /\ holder' = NoBatch
    /\ UNCHANGED <<trunkVars, bdir, bcodec, pos, changed, faults, restarts>>

\* Every call has ended, or none was started: release is called.
BatchEnds(b) ==
    /\ bst[b] = "running"
    /\ bst' = [bst EXCEPT ![b] = "releasing"]
    /\ UNCHANGED <<trunkVars, bdir, bcodec, lockVars, stateVars, faults, restarts>>

\* Mutant: without the released flag, a batch released on two paths counts twice.
Release_Twice(b) ==
    /\ bst[b] = "releasing" /\ holder = NoBatch
    /\ bst' = [bst EXCEPT ![b] = "idle"]
    /\ running' = [running EXCEPT ![bdir[b]] = @ - 2]
    /\ UNCHANGED <<trunkVars, bdir, bcodec, lockVars, stCodec, faults, restarts>>

\* release takes trunkMu, which a sleeping request may hold for a minute.
Release(b) ==
    /\ bst[b] = "releasing" /\ holder = NoBatch
    /\ bst' = [bst EXCEPT ![b] = "idle"]
    /\ running' = [running EXCEPT ![bdir[b]] = @ - 1]
    /\ UNCHANGED <<trunkVars, bdir, bcodec, lockVars, stCodec, faults, restarts>>

\* PBXware's own one-minute cycle.
Reload(s) ==
    /\ live[s] # order[s]
    /\ live' = [live EXCEPT ![s] = order[s]]
    /\ UNCHANGED <<order, batchVars, lockVars, stateVars, faults, restarts>>

\* SwarmDialer's memory is lost, calls included; PBXware's configuration stays.
Restart ==
    /\ restarts < MaxRestarts
    /\ restarts' = restarts + 1
    /\ bst' = [b \in Batch |-> "idle"]
    /\ holder' = NoBatch
    /\ stCodec' = [d \in Direction |-> NoCodec]
    /\ running' = [d \in Direction |-> 0]
    /\ UNCHANGED <<trunkVars, bdir, bcodec, pos, changed, faults>>

Next ==
    \/ \E b \in Batch : \/ \E d \in Direction, c \in Codec : Ask(b, d, c)
                        \/ Refuse(b) \/ Acquire(b) \/ AlignTrunk(b)
                        \/ RequestFails(b) \/ Commit(b)
                        \/ BatchEnds(b) \/ Release(b)
    \/ \E s \in Server : Reload(s)
    \/ Restart

Safety == Init /\ [][Next]_vars

\* Requests go on, calls end and PBXware reloads; a Go mutex hands itself to a
\* goroutine that has waited for it long enough.
Spec ==
    /\ Safety
    /\ \A b \in Batch : /\ WF_vars(AlignTrunk(b)) /\ WF_vars(Commit(b))
                        /\ WF_vars(BatchEnds(b))
                        /\ SF_vars(Release(b)) /\ SF_vars(Acquire(b) \/ Refuse(b))
    /\ \A s \in Server : WF_vars(Reload(s))
-----------------------------------------------------------------------------
TypeOK ==
    /\ order \in [Server -> Codec] /\ live \in [Server -> Codec]
    /\ bst \in [Batch -> {"idle", "waiting", "preparing", "running", "releasing"}]
    /\ bdir \in [Batch -> Direction] /\ bcodec \in [Batch -> Codec]
    /\ holder \in Batch \cup {NoBatch}
    /\ pos \in 1..3
    /\ changed \subseteq Server
    /\ stCodec \in [Direction -> Codec \cup {NoCodec}]
    /\ running \in [Direction -> Nat]
    /\ faults \in Nat /\ restarts \in Nat

\* Batches that count in st.running: they may have calls.
Counted(d) == {b \in Batch : bst[b] \in {"running", "releasing"} /\ bdir[b] = d}

\* The trunks of a direction that SwarmDialer knows how to order.
Trunks(d) == {d[1], d[2]} \cap Trunked

\* st.running is the number of batches that prepared and have not released,
\* through every refusal, failure, restart and second call of release.
RunningCounts == \A d \in Direction : running[d] = Cardinality(Counted(d))

\* Batches that run on one direction share one codec, and st.codec is it.
OneCodecPerDirection ==
    \A d \in Direction : \A b \in Counted(d) : bcodec[b] = stCodec[d]

\* No trunk is reordered while a batch runs on a pair it belongs to: "reordering
\* then would make that batch's remaining calls fail" (trunkcodec.go:40-43).
NoReorderUnderBatch ==
    [][\A d \in Direction : Counted(d) # {} =>
          \A s \in Trunks(d) : order'[s] = order[s] \/ Counted(d)' = {}]_vars

\* Both trunks of a running batch have its codec first, as PBXware's API shows.
OrderMatchesBatch ==
    \A d \in Direction : \A b \in Counted(d) : \A s \in Trunks(d) : order[s] = bcodec[b]

\* prepareRemoteBatch "makes sure both trunks of a remote pair prefer codec
\* before a batch using it starts" (trunkcodec.go:30-31): Asterisk dials with it.
\* Not after a failed request or a restart, whose settling nobody waits for.
LiveMatchesBatch ==
    \A d \in Direction : \A b \in Counted(d) : \A s \in Trunks(d) : live[s] = bcodec[b]

\* As long as no request has failed and SwarmDialer has not restarted, the
\* settling wait is enough: a running batch finds its codec first in Asterisk.
LiveWhileUntroubled == faults = 0 /\ restarts = 0 => LiveMatchesBatch

\* Every batch that ends is released and makes room for another codec.
EveryBatchReleased == \A b \in Batch : bst[b] = "running" ~> bst[b] = "idle"
=============================================================================
