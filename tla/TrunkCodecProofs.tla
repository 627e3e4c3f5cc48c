-------------------------- MODULE TrunkCodecProofs --------------------------
(***************************************************************************)
(* Theorems about TrunkCodec for any servers, directions, codecs, batches, *)
(* faults and restarts.                                                    *)
(***************************************************************************)
EXTENDS TrunkCodec, FiniteSetTheorems, TLAPS

\* No trunk belongs to two directions.  ConnectServers breaks it for a pair
\* that is dialed both ways; OrderAlwaysMatches needs it.
DisjointDirections ==
    \A d, e \in Direction : d # e => {d[1], d[2]} \cap {e[1], e[2]} = {}

\* A batch is preparing exactly while it holds trunkMu.
HolderPrepares ==
    \A b \in Batch : bst[b] = "preparing" <=> holder = b

\* What the check of prepareRemoteBatch found stays true until its end.
HolderNotBusy ==
    holder # NoBatch => ~Busy(bdir[holder], bcodec[holder])

LockInv == TypeOK /\ HolderPrepares /\ RunningCounts /\ OneCodecPerDirection /\ HolderNotBusy

LEMMA CountedFinite ==
    \A d : /\ IsFiniteSet(Counted(d)) /\ IsFiniteSet(Counted(d)')
           /\ Cardinality(Counted(d)) \in Nat /\ Cardinality(Counted(d)') \in Nat
<1> TAKE d
<1>1. Counted(d) \subseteq Batch /\ Counted(d)' \subseteq Batch
  BY DEF Counted
<1>2. IsFiniteSet(Counted(d)) /\ IsFiniteSet(Counted(d)')
  BY <1>1, FS_Subset, TrunkAssumption
<1> QED BY <1>2, FS_CardinalityType

LEMMA InitLockInv == Init => LockInv
<1> SUFFICES ASSUME Init
             PROVE  LockInv
  OBVIOUS
<1> USE TrunkAssumption DEF Init
<1>1. \A d : Counted(d) = {}
  BY DEF Counted
<1>2. TypeOK
  BY DEF TypeOK
<1>3. HolderPrepares /\ HolderNotBusy
  BY DEF HolderPrepares, HolderNotBusy
<1>4. RunningCounts /\ OneCodecPerDirection
  BY <1>1, FS_EmptySet DEF RunningCounts, OneCodecPerDirection
<1> QED BY <1>2, <1>3, <1>4 DEF LockInv

\* Most steps count no batch in or out.
KeepsCount ==
    /\ \A d \in Direction : Counted(d)' = Counted(d)
    /\ \A b \in Batch : bst[b] \in {"running", "releasing"} => bcodec'[b] = bcodec[b]
    /\ UNCHANGED <<stCodec, running>>

LEMMA KeepsCountInv ==
    ASSUME LockInv, KeepsCount
    PROVE  RunningCounts' /\ OneCodecPerDirection'
BY DEF LockInv, KeepsCount, RunningCounts, OneCodecPerDirection, Counted

LEMMA NextLockInv == LockInv /\ [Next]_vars => LockInv'
<1> SUFFICES ASSUME LockInv, [Next]_vars
             PROVE  LockInv'
  OBVIOUS
<1> USE TrunkAssumption DEF LockInv, TypeOK, trunkVars, batchVars, lockVars, stateVars
<1>1. ASSUME NEW b \in Batch, NEW d \in Direction, NEW c \in Codec, Ask(b, d, c)
      PROVE  LockInv'
  <2>1. TypeOK' /\ HolderPrepares' /\ HolderNotBusy'
    BY <1>1 DEF Ask, HolderPrepares, HolderNotBusy, Busy
  <2>2. KeepsCount
    BY <1>1 DEF Ask, KeepsCount, Counted
  <2> QED BY <2>1, <2>2, KeepsCountInv
<1>2. ASSUME NEW b \in Batch, Refuse(b) \/ BatchEnds(b) \/ AlignTrunk(b) \/ RequestFails(b)
      PROVE  LockInv'
  <2>1. CASE Refuse(b)
    <3>1. TypeOK' /\ HolderPrepares' /\ HolderNotBusy'
      BY <2>1 DEF Refuse, HolderPrepares, HolderNotBusy
    <3>2. KeepsCount
      BY <2>1 DEF Refuse, KeepsCount, Counted
    <3> QED BY <3>1, <3>2, KeepsCountInv
  <2>2. CASE BatchEnds(b)
    <3>1. TypeOK' /\ HolderPrepares' /\ HolderNotBusy'
      BY <2>2 DEF BatchEnds, HolderPrepares, HolderNotBusy, Busy
    <3>2. KeepsCount
      BY <2>2 DEF BatchEnds, KeepsCount, Counted
    <3> QED BY <3>1, <3>2, KeepsCountInv
  <2>3. CASE AlignTrunk(b)
    <3>1. bdir[b][pos] \in Server
      BY <2>3 DEF AlignTrunk
    <3>2. TypeOK' /\ HolderPrepares' /\ HolderNotBusy'
      BY <2>3, <3>1 DEF AlignTrunk, HolderPrepares, HolderNotBusy, Busy
    <3>3. KeepsCount
      BY <2>3 DEF AlignTrunk, KeepsCount, Counted
    <3> QED BY <3>2, <3>3, KeepsCountInv
  <2>4. CASE RequestFails(b)
    <3>1. TypeOK' /\ HolderPrepares' /\ HolderNotBusy'
      BY <2>4 DEF RequestFails, HolderPrepares, HolderNotBusy
    <3>2. KeepsCount
      BY <2>4 DEF RequestFails, KeepsCount, Counted, HolderPrepares
    <3> QED BY <3>1, <3>2, KeepsCountInv
  <2> QED BY <1>2, <2>1, <2>2, <2>3, <2>4
<1>3. ASSUME NEW b \in Batch, Acquire(b)
      PROVE  LockInv'
  <2>1. TypeOK' /\ HolderPrepares' /\ HolderNotBusy'
    BY <1>3 DEF Acquire, HolderPrepares, HolderNotBusy, Busy
  <2>2. KeepsCount
    BY <1>3 DEF Acquire, KeepsCount, Counted
  <2> QED BY <2>1, <2>2, KeepsCountInv
<1>4. ASSUME NEW b \in Batch, Commit(b)
      PROVE  LockInv'
  <2>0. PICK e \in Direction : e = bdir[b]
    BY <1>4
  <2>1. TypeOK' /\ HolderPrepares' /\ HolderNotBusy'
    BY <1>4 DEF Commit, HolderPrepares, HolderNotBusy
  <2>2. b \notin Counted(e) /\ ~Busy(e, bcodec[b])
    BY <1>4, <2>0 DEF Commit, Counted, HolderPrepares, HolderNotBusy
  <2>3. Counted(e)' = Counted(e) \cup {b}
    BY <1>4, <2>0 DEF Commit, Counted
  <2>4. \A d \in Direction \ {e} : Counted(d)' = Counted(d)
    BY <1>4, <2>0 DEF Commit, Counted
  <2>5. RunningCounts'
    <3>1. Cardinality(Counted(e)') = Cardinality(Counted(e)) + 1
      BY <2>2, <2>3, CountedFinite, FS_AddElement
    <3> QED BY <1>4, <2>0, <2>4, <3>1 DEF Commit, RunningCounts
  <2>6. OneCodecPerDirection'
    <3>1. \A x \in Counted(e) : bcodec[x] = bcodec[b]
      <4>1. Counted(e) # {} => running[e] > 0
        BY <2>2, CountedFinite, FS_EmptySet DEF RunningCounts
      <4> QED BY <4>1, <2>2 DEF Busy, OneCodecPerDirection
    <3>2. \A x \in Counted(e)' : bcodec'[x] = stCodec'[e]
      BY <1>4, <2>0, <2>3, <3>1 DEF Commit
    <3>3. \A d \in Direction \ {e} : \A x \in Counted(d)' : bcodec'[x] = stCodec'[d]
      BY <1>4, <2>0, <2>4 DEF Commit, OneCodecPerDirection
    <3> QED BY <3>2, <3>3 DEF OneCodecPerDirection
  <2> QED BY <2>1, <2>5, <2>6
<1>5. ASSUME NEW b \in Batch, Release(b)
      PROVE  LockInv'
  <2>0. PICK e \in Direction : e = bdir[b]
    BY <1>5
  <2>1. b \in Counted(e)
    BY <1>5, <2>0 DEF Release, Counted
  <2>2. Counted(e)' = Counted(e) \ {b}
    BY <1>5, <2>0 DEF Release, Counted
  <2>3. \A d \in Direction \ {e} : Counted(d)' = Counted(d)
    BY <1>5, <2>0 DEF Release, Counted
  <2>4. RunningCounts'
    <3>1. Cardinality(Counted(e)') = Cardinality(Counted(e)) - 1
      BY <2>1, <2>2, CountedFinite, FS_RemoveElement
    <3> QED BY <1>5, <2>0, <2>3, <3>1 DEF Release, RunningCounts
  <2>5. running' \in [Direction -> Nat]
    <3>1. running' \in [Direction -> Int]
      BY <1>5 DEF Release
    <3> QED BY <3>1, <2>4, CountedFinite DEF RunningCounts
  <2>6. TypeOK' /\ HolderPrepares' /\ HolderNotBusy'
    BY <1>5, <2>5 DEF Release, HolderPrepares, HolderNotBusy
  <2>7. OneCodecPerDirection'
    BY <1>5, <2>0, <2>2, <2>3 DEF Release, OneCodecPerDirection
  <2> QED BY <2>4, <2>6, <2>7
<1>6. ASSUME NEW s \in Server, Reload(s)
      PROVE  LockInv'
  <2>1. TypeOK' /\ HolderPrepares' /\ HolderNotBusy'
    BY <1>6 DEF Reload, HolderPrepares, HolderNotBusy, Busy
  <2>2. KeepsCount
    BY <1>6 DEF Reload, KeepsCount, Counted
  <2> QED BY <2>1, <2>2, KeepsCountInv
<1>7. CASE Restart
  <2>1. TypeOK' /\ HolderPrepares' /\ HolderNotBusy'
    BY <1>7 DEF Restart, HolderPrepares, HolderNotBusy
  <2>2. \A d : Counted(d)' = {}
    BY <1>7 DEF Restart, Counted
  <2>3. RunningCounts' /\ OneCodecPerDirection'
    BY <1>7, <2>2, FS_EmptySet DEF Restart, RunningCounts, OneCodecPerDirection
  <2> QED BY <2>1, <2>3
<1>8. CASE UNCHANGED vars
  <2>1. TypeOK' /\ HolderPrepares' /\ HolderNotBusy'
    BY <1>8 DEF vars, HolderPrepares, HolderNotBusy, Busy
  <2>2. KeepsCount
    BY <1>8 DEF vars, KeepsCount, Counted
  <2> QED BY <2>1, <2>2, KeepsCountInv
<1> QED BY <1>1, <1>2, <1>3, <1>4, <1>5, <1>6, <1>7, <1>8 DEF Next

LEMMA LockInvariant == Safety => []LockInv
BY InitLockInv, NextLockInv, PTL DEF Safety

\* Every variable keeps its type; running never falls below zero.
THEOREM TypeCorrect == Safety => []TypeOK
BY LockInvariant, PTL DEF LockInv

\* st.running counts the batches that may have calls, whatever fails.
THEOREM RunningAlwaysCounts == Safety => []RunningCounts
BY LockInvariant, PTL DEF LockInv

\* Two codecs never run at once on one direction.
THEOREM OneCodecAtATime == Safety => []OneCodecPerDirection
BY LockInvariant, PTL DEF LockInv
-----------------------------------------------------------------------------
(***************************************************************************)
(* The configured order.  From here on no trunk belongs to two directions. *)
(***************************************************************************)

\* The holder's trunks before pos have its codec first.
HolderAligns ==
    holder # NoBatch =>
        \A i \in 1..2 : i < pos /\ bdir[holder][i] \in Trunked
                          => order[bdir[holder][i]] = bcodec[holder]

OrderInv == HolderAligns /\ OrderMatchesBatch

\* The holder shares a trunk only with batches of its own codec.
LEMMA SharedTrunkSharedCodec ==
    ASSUME DisjointDirections, LockInv,
           NEW b \in Batch, holder = b,
           NEW i \in 1..2,
           NEW d \in Direction, bdir[b][i] \in Trunks(d),
           NEW c \in Counted(d)
    PROVE  d = bdir[b] /\ bcodec[c] = bcodec[b]
<1> USE TrunkAssumption DEF LockInv, TypeOK
<1>1. d = bdir[b]
  <2>1. bdir[b] \in Direction /\ bdir[b][i] \in {bdir[b][1], bdir[b][2]}
    OBVIOUS
  <2>2. bdir[b][i] \in {d[1], d[2]}
    BY DEF Trunks
  <2> QED BY <2>1, <2>2 DEF DisjointDirections
<1>2. running[d] > 0
  BY CountedFinite, FS_EmptySet DEF RunningCounts
<1> QED BY <1>1, <1>2 DEF HolderNotBusy, Busy, OneCodecPerDirection

\* A trunk changes only under its holder, and then to the holder's codec.
LEMMA OrderStep ==
    ASSUME LockInv, [Next]_vars, UNCHANGED order => FALSE
    PROVE  \E b \in Batch, i \in 1..2 :
              /\ holder = b /\ pos = i /\ bdir[b][i] \in Trunked
              /\ order' = [order EXCEPT ![bdir[b][i]] = bcodec[b]]
              /\ bst[b] = "preparing"
              /\ AlignTrunk(b) \/ RequestFails(b)
<1> USE DEF trunkVars, LockInv, TypeOK
<1>1. \A b \in Batch, d \in Direction, c \in Codec : ~Ask(b, d, c)
  BY DEF Ask
<1>2. \A b \in Batch : ~Refuse(b) /\ ~Acquire(b) /\ ~Commit(b) /\ ~BatchEnds(b) /\ ~Release(b)
  BY DEF Refuse, Acquire, Commit, BatchEnds, Release
<1>3. (\A s \in Server : ~Reload(s)) /\ ~Restart /\ ~UNCHANGED vars
  BY DEF Reload, Restart, vars
<1>4. PICK b \in Batch : AlignTrunk(b) \/ RequestFails(b)
  BY <1>1, <1>2, <1>3 DEF Next
<1>5. holder = b /\ pos \in 1..2 /\ bst[b] = "preparing"
  BY <1>4 DEF AlignTrunk, RequestFails, HolderPrepares
<1>6. bdir[b][pos] \in Trunked /\ order' = [order EXCEPT ![bdir[b][pos]] = bcodec[b]]
  BY <1>4 DEF AlignTrunk, RequestFails
<1> QED BY <1>4, <1>5, <1>6

\* Batches begin to count only in Commit.
LEMMA CountedStep ==
    ASSUME LockInv, [Next]_vars, NEW d \in Direction, NEW c \in Counted(d)'
    PROVE  /\ c \in Batch
           /\ \/ c \in Counted(d) /\ bcodec'[c] = bcodec[c]
              \/ Commit(c) /\ d = bdir[c]
<1> USE DEF LockInv, TypeOK, Counted, batchVars
<1>1. c \in Batch
  OBVIOUS
<1>2. ASSUME NEW b \in Batch, NEW e \in Direction, NEW x \in Codec, Ask(b, e, x)
      PROVE  c \in Counted(d) /\ bcodec'[c] = bcodec[c]
  BY <1>2 DEF Ask
<1>3. ASSUME NEW b \in Batch,
             \/ Refuse(b) \/ Acquire(b) \/ AlignTrunk(b) \/ RequestFails(b)
             \/ BatchEnds(b) \/ Release(b)
      PROVE  c \in Counted(d) /\ bcodec'[c] = bcodec[c]
  BY <1>3 DEF Refuse, Acquire, AlignTrunk, RequestFails, BatchEnds, Release
<1>4. ASSUME NEW b \in Batch, Commit(b)
      PROVE  (c \in Counted(d) /\ bcodec'[c] = bcodec[c]) \/ (Commit(c) /\ d = bdir[c])
  BY <1>4 DEF Commit
<1>5. ASSUME Restart \/ (\E s \in Server : Reload(s)) \/ UNCHANGED vars
      PROVE  c \in Counted(d) /\ bcodec'[c] = bcodec[c]
  BY <1>5 DEF Restart, Reload, vars
<1> QED BY <1>1, <1>2, <1>3, <1>4, <1>5 DEF Next
LEMMA InitOrderInv == Init => OrderInv
BY DEF Init, OrderInv, HolderAligns, OrderMatchesBatch, Counted

LEMMA NextHolderAligns ==
    ASSUME LockInv, LockInv', HolderAligns, [Next]_vars
    PROVE  HolderAligns'
<1> USE TrunkAssumption DEF LockInv, TypeOK, HolderAligns, trunkVars, batchVars, lockVars, stateVars
<1>1. ASSUME NEW b \in Batch, NEW d \in Direction, NEW c \in Codec, Ask(b, d, c)
      PROVE  HolderAligns'
  BY <1>1 DEF Ask, HolderPrepares
<1>2. ASSUME NEW b \in Batch, AlignTrunk(b)
      PROVE  HolderAligns'
  <2>1. /\ holder = b /\ holder' = b /\ pos \in 1..2 /\ pos' = pos + 1
        /\ UNCHANGED <<bdir, bcodec>>
    BY <1>2 DEF AlignTrunk
  <2>2. bdir[b] \in Direction /\ bdir[b][1] # bdir[b][2] /\ bdir[b][1] \in Server /\ bdir[b][2] \in Server
    OBVIOUS
  <2>3. bdir[b][pos] \in Trunked => order'[bdir[b][pos]] = bcodec[b]
    BY <1>2, <2>1, <2>2 DEF AlignTrunk
  <2>4. \A s \in Server : s # bdir[b][pos] => order'[s] = order[s]
    BY <1>2 DEF AlignTrunk
  <2> QED BY <2>1, <2>2, <2>3, <2>4
<1>3. ASSUME NEW b \in Batch, Acquire(b)
      PROVE  HolderAligns'
  BY <1>3 DEF Acquire
<1>4. ASSUME NEW b \in Batch, RequestFails(b) \/ Commit(b)
      PROVE  HolderAligns'
  BY <1>4 DEF RequestFails, Commit
<1>5. ASSUME NEW b \in Batch, Refuse(b) \/ BatchEnds(b) \/ Release(b)
      PROVE  HolderAligns'
  BY <1>5 DEF Refuse, BatchEnds, Release
<1>6. ASSUME Restart \/ (\E s \in Server : Reload(s)) \/ UNCHANGED vars
      PROVE  HolderAligns'
  BY <1>6 DEF Restart, Reload, vars
<1> QED BY <1>1, <1>2, <1>3, <1>4, <1>5, <1>6 DEF Next

LEMMA NextOrderMatches ==
    ASSUME DisjointDirections, LockInv, OrderInv, [Next]_vars
    PROVE  OrderMatchesBatch'
<1> USE TrunkAssumption DEF LockInv, TypeOK
<1> SUFFICES ASSUME NEW d \in Direction, NEW c \in Counted(d)', NEW s \in Trunks(d)
             PROVE  order'[s] = bcodec'[c]
  BY DEF OrderMatchesBatch, Trunks
<1>0. c \in Batch /\ s \in Server
  BY CountedStep DEF Trunks
<1>1. CASE Commit(c) /\ d = bdir[c]
  <2>1. order' = order /\ bcodec' = bcodec /\ holder = c /\ pos = 3
    BY <1>1 DEF Commit, trunkVars
  <2>2. \A i \in 1..2 : bdir[c][i] \in Trunked => order[bdir[c][i]] = bcodec[c]
    BY <1>0, <2>1 DEF OrderInv, HolderAligns
  <2>3. s \in Trunked /\ (s = d[1] \/ s = d[2])
    BY DEF Trunks
  <2> QED BY <1>1, <2>1, <2>2, <2>3
<1>2. CASE c \in Counted(d) /\ bcodec'[c] = bcodec[c]
  <2>1. order[s] = bcodec[c]
    BY <1>2 DEF OrderInv, OrderMatchesBatch
  <2>2. CASE UNCHANGED order
    BY <1>2, <2>1, <2>2
  <2>3. CASE ~UNCHANGED order
    <3>1. PICK b \in Batch, i \in 1..2 :
             holder = b /\ order' = [order EXCEPT ![bdir[b][i]] = bcodec[b]]
      BY <2>3, OrderStep
    <3>2. CASE s = bdir[b][i]
      BY <1>0, <1>2, <3>1, <3>2, SharedTrunkSharedCodec
    <3>3. CASE s # bdir[b][i]
      BY <1>0, <1>2, <2>1, <3>1, <3>3
    <3> QED BY <3>2, <3>3
  <2> QED BY <2>2, <2>3
<1> QED BY <1>1, <1>2, CountedStep

LEMMA OrderInvariant ==
    ASSUME DisjointDirections
    PROVE  Safety => [](LockInv /\ OrderInv)
<1>1. Init => LockInv /\ OrderInv
  BY InitLockInv, InitOrderInv
<1>2. LockInv /\ OrderInv /\ [Next]_vars => (LockInv /\ OrderInv)'
  BY NextLockInv, NextHolderAligns, NextOrderMatches DEF OrderInv
<1> QED BY <1>1, <1>2, PTL DEF Safety

\* While a batch runs, both trunks of its pair have its codec configured first,
\* through failed requests and restarts, if no trunk serves two directions.
THEOREM OrderAlwaysMatches ==
    ASSUME DisjointDirections
    PROVE  Safety => []OrderMatchesBatch
BY OrderInvariant, PTL DEF OrderInv

\* No step reorders a trunk under a running batch.
THEOREM NeverReorderedUnderBatch ==
    ASSUME DisjointDirections
    PROVE  Safety => NoReorderUnderBatch
<1>1. LockInv /\ OrderInv /\ [Next]_vars =>
        [\A d \in Direction : Counted(d) # {} =>
            \A s \in Trunks(d) : order'[s] = order[s] \/ Counted(d)' = {}]_vars
  <2> SUFFICES ASSUME LockInv, OrderInv, [Next]_vars,
                      NEW d \in Direction, NEW c \in Counted(d), NEW s \in Trunks(d)
               PROVE  order'[s] = order[s]
    OBVIOUS
  <2> USE TrunkAssumption DEF LockInv, TypeOK
  <2>1. CASE UNCHANGED order
    BY <2>1
  <2>2. CASE ~UNCHANGED order
    <3>1. PICK b \in Batch, i \in 1..2 :
             holder = b /\ order' = [order EXCEPT ![bdir[b][i]] = bcodec[b]]
      BY <2>2, OrderStep
    <3>2. s \in Server /\ order[s] = bcodec[c]
      BY DEF Trunks, OrderInv, OrderMatchesBatch
    <3>3. CASE s = bdir[b][i]
      BY <3>1, <3>2, <3>3, SharedTrunkSharedCodec
    <3>4. CASE s # bdir[b][i]
      BY <3>1, <3>2, <3>4
    <3> QED BY <3>3, <3>4
  <2> QED BY <2>1, <2>2
<1> QED BY <1>1, OrderInvariant, PTL DEF Safety, NoReorderUnderBatch
-----------------------------------------------------------------------------
(***************************************************************************)
(* The order Asterisk uses.  A request that fails or a restart after a     *)
(* trunk was changed breaks it (MCTrunkRetry); without them it follows.    *)
(***************************************************************************)

\* Only the holder has changes PBXware has not applied.
PendingIsHeld == \A s \in Server : order[s] # live[s] => holder # NoBatch /\ s \in changed

Untroubled == faults = 0 /\ restarts = 0

\* Failures and restarts are counted for ever, and each step of theirs is.
LEMMA StaysUntroubled ==
    ASSUME LockInv, [Next]_vars, Untroubled'
    PROVE  /\ Untroubled
           /\ UNCHANGED vars \/ ((\A b \in Batch : ~RequestFails(b)) /\ ~Restart)
<1> USE DEF LockInv, TypeOK, Untroubled
<1>1. ASSUME NEW b \in Batch, NEW d \in Direction, NEW c \in Codec, Ask(b, d, c)
      PROVE  Untroubled
  BY <1>1 DEF Ask
<1>2. ASSUME NEW b \in Batch,
             \/ Refuse(b) \/ Acquire(b) \/ AlignTrunk(b) \/ Commit(b)
             \/ BatchEnds(b) \/ Release(b)
      PROVE  Untroubled
  BY <1>2 DEF Refuse, Acquire, AlignTrunk, Commit, BatchEnds, Release
<1>3. ASSUME NEW b \in Batch, RequestFails(b)
      PROVE  FALSE
  BY <1>3 DEF RequestFails
<1>4. ASSUME Restart
      PROVE  FALSE
  BY <1>4 DEF Restart
<1>5. ASSUME (\E s \in Server : Reload(s)) \/ UNCHANGED vars
      PROVE  Untroubled
  BY <1>5 DEF Reload, vars
<1> QED BY <1>1, <1>2, <1>3, <1>4, <1>5 DEF Next

LEMMA NextPendingIsHeld ==
    ASSUME LockInv, PendingIsHeld, [Next]_vars,
           UNCHANGED vars \/ ((\A b \in Batch : ~RequestFails(b)) /\ ~Restart)
    PROVE  PendingIsHeld'
<1> USE TrunkAssumption DEF LockInv, TypeOK, PendingIsHeld, trunkVars, batchVars, lockVars, stateVars
<1>1. ASSUME NEW b \in Batch, NEW d \in Direction, NEW c \in Codec, Ask(b, d, c)
      PROVE  PendingIsHeld'
  BY <1>1 DEF Ask
<1>2. ASSUME NEW b \in Batch, AlignTrunk(b)
      PROVE  PendingIsHeld'
  <2>1. holder' = b /\ b # NoBatch /\ live' = live
    BY <1>2 DEF AlignTrunk
  <2>2. \A s \in Server : order'[s] # order[s] => s \in changed'
    BY <1>2 DEF AlignTrunk
  <2>3. changed \subseteq changed'
    BY <1>2 DEF AlignTrunk
  <2> QED BY <2>1, <2>2, <2>3
<1>3. ASSUME NEW b \in Batch, Acquire(b) \/ Refuse(b) \/ BatchEnds(b) \/ Release(b)
      PROVE  PendingIsHeld'
  BY <1>3 DEF Acquire, Refuse, BatchEnds, Release
<1>4. ASSUME NEW b \in Batch, Commit(b)
      PROVE  PendingIsHeld'
  <2>1. order = live
    BY <1>4 DEF Commit, Settled
  <2> QED BY <1>4, <2>1 DEF Commit
<1>5. ASSUME NEW s \in Server, Reload(s)
      PROVE  PendingIsHeld'
  BY <1>5 DEF Reload
<1>6. CASE UNCHANGED vars
  BY <1>6 DEF vars
<1> QED BY <1>1, <1>2, <1>3, <1>4, <1>5, <1>6 DEF Next

LEMMA NextLiveMatches ==
    ASSUME LockInv, PendingIsHeld, LiveMatchesBatch, OrderMatchesBatch, [Next]_vars,
           OrderMatchesBatch'
    PROVE  LiveMatchesBatch'
<1> USE TrunkAssumption DEF LockInv, TypeOK
<1> SUFFICES ASSUME NEW d \in Direction, NEW c \in Counted(d)', NEW s \in Trunks(d)
             PROVE  live'[s] = bcodec'[c]
  BY DEF LiveMatchesBatch, Trunks
<1>0. c \in Batch /\ s \in Server /\ order'[s] = bcodec'[c]
  BY CountedStep DEF OrderMatchesBatch, Trunks
<1>1. CASE Commit(c)
  BY <1>0, <1>1 DEF Commit, Settled, PendingIsHeld, trunkVars
<1>2. CASE c \in Counted(d) /\ bcodec'[c] = bcodec[c]
  <2>1. live[s] = bcodec[c]
    BY <1>2 DEF LiveMatchesBatch
  <2>2. live' = live \/ \E t \in Server : Reload(t)
    BY DEF Next, Ask, Refuse, Acquire, AlignTrunk, RequestFails, Commit, BatchEnds,
           Release, Restart, vars, trunkVars
  <2>3. order[s] = bcodec[c]
    BY <1>2 DEF OrderMatchesBatch
  <2> QED BY <1>0, <1>2, <2>1, <2>2, <2>3 DEF Reload
<1> QED BY <1>1, <1>2, CountedStep

\* Until a request to PBXware fails or SwarmDialer restarts, a batch's calls
\* cross trunks that Asterisk itself orders for its codec.
THEOREM LiveAlwaysMatches ==
    ASSUME DisjointDirections
    PROVE  Safety => []LiveWhileUntroubled
<1> DEFINE Live == Untroubled => PendingIsHeld /\ LiveMatchesBatch
           Inv == LockInv /\ OrderInv /\ Live
<1>1. Init => Inv
  <2>1. Init => PendingIsHeld /\ LiveMatchesBatch
    BY DEF Init, PendingIsHeld, LiveMatchesBatch, Counted
  <2> QED BY <2>1, InitLockInv, InitOrderInv
<1>2. Inv /\ [Next]_vars => Inv'
  <2> SUFFICES ASSUME Inv, [Next]_vars
               PROVE  Inv'
    OBVIOUS
  <2>1. LockInv' /\ OrderInv'
    BY NextLockInv, NextHolderAligns, NextOrderMatches DEF OrderInv
  <2>2. ASSUME Untroubled'
        PROVE  (PendingIsHeld /\ LiveMatchesBatch)'
    <3>1. PendingIsHeld /\ LiveMatchesBatch
      BY <2>2, StaysUntroubled
    <3>2. PendingIsHeld'
      BY <2>2, <3>1, StaysUntroubled, NextPendingIsHeld
    <3>3. LiveMatchesBatch'
      BY <2>1, <3>1, NextLiveMatches DEF OrderInv
    <3> QED BY <3>2, <3>3
  <2> QED BY <2>1, <2>2
<1>3. Inv => LiveWhileUntroubled
  BY DEF LiveWhileUntroubled, Untroubled
<1> QED BY <1>1, <1>2, <1>3, PTL DEF Safety
=============================================================================
