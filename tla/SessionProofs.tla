--------------------------- MODULE SessionProofs ---------------------------
(***************************************************************************)
(* Theorems about Session for any number of calls, batches, extensions,    *)
(* stops and packets, local or remote.                                     *)
(***************************************************************************)
EXTENDS Session, FiniteSetTheorems, TLAPS

TypeInv == TypeOK /\ HoldersHavePairs

LEMMA InitTypeInv == Init => TypeInv
<1> SUFFICES ASSUME Init
             PROVE  TypeInv
  OBVIOUS
<1>1. TypeOK
  BY DEF Init, TypeOK, Label
<1>2. HoldersHavePairs
  BY DEF Init, HoldersHavePairs
<1> QED BY <1>1, <1>2 DEF TypeInv

\* The invariant that carries TypeOK: release gives back the pair a call has,
\* so that the pool stays a set of extensions, only if every call under way
\* has one.
LEMMA NextTypeInv == TypeInv /\ [Next]_vars => TypeInv'
<1> SUFFICES ASSUME TypeInv, [Next]_vars
             PROVE  TypeInv'
  OBVIOUS
<1> USE ConstantsAssumption DEF TypeInv, TypeOK, Phone, Label
<1>1. ASSUME NEW b \in Batch, NEW n \in 1..Cardinality(Call), ReservePairs(b, n)
      PROVE  TypeInv'
  <2>1. PICK S \in SUBSET Call :
               \E from \in [S -> Caller \cap available],
                  to \in [S -> Callee \cap available] : Reserve(b, S, from, to)
    BY <1>1 DEF ReservePairs, kSubset
  <2>2. PICK from \in [S -> Caller \cap available],
             to \in [S -> Callee \cap available] : Reserve(b, S, from, to)
    BY <2>1
  <2>3. TypeOK'
    BY <1>1, <2>2 DEF ReservePairs, Reserve, tally, stopVars, counters, rtpVars
  <2>4. HoldersHavePairs'
    BY <1>1, <2>2 DEF HoldersHavePairs, Reserve
  <2> QED BY <2>3, <2>4
<1>2. ASSUME NEW b \in Batch, TakeStopChannel(b)
      PROVE  TypeInv'
  BY <1>2 DEF TakeStopChannel, HoldersHavePairs, callVars, tally, stopVars, counters, rtpVars
<1>3. ASSUME NEW b \in Batch, BatchDone(b)
      PROVE  TypeInv'
  BY <1>3 DEF BatchDone, HoldersHavePairs, callVars, tally, stopVars, counters, rtpVars
<1>4. ASSUME NEW c \in Call, Goroutine(c)
      PROVE  TypeInv'
  <2> USE DEF Moves, HoldersHavePairs, batchVars, tally, stopVars, counters, rtpVars
  <2>1. CASE Launch(c) BY <2>1 DEF Launch
  <2>2. CASE CancelRamp(c) BY <2>2 DEF CancelRamp, Pair
  <2>3. CASE CountCancelled(c) BY <2>3 DEF CountCancelled, Leaves
  <2>4. CASE RampElapsed(c) BY <2>4 DEF RampElapsed
  <2>5. CASE DialFails(c) BY <2>5 DEF DialFails
  <2>6. CASE CountFailed(c) BY <2>6 DEF CountFailed
  <2>7. CASE DialAnswered(c) BY <2>7 DEF DialAnswered
  <2>8. CASE EnterTable(c) BY <2>8 DEF EnterTable
  <2>9. ASSUME NEW how \in {"ended", "dropped"}, EndsCall(c, how)
        PROVE  TypeInv'
    BY <2>9 DEF EndsCall
  <2>10. CASE HangUp(c) BY <2>10 DEF HangUp
  <2>11. CASE Account(c) BY <2>11 DEF Account
  <2>12. CASE LeaveTable(c) BY <2>12 DEF LeaveTable
  <2>13. CASE Release(c) BY <2>13 DEF Release, Pair
  <2>14. CASE Return(c) BY <2>14 DEF Return, Leaves
  <2> QED
    BY <1>4, <2>1, <2>2, <2>3, <2>4, <2>5, <2>6, <2>7, <2>8, <2>9, <2>10, <2>11,
       <2>12, <2>13, <2>14
    DEF Goroutine, Prompt, EndOnContext, EndOnStop, EndOnRemote, EndOnTimer
<1>5. ASSUME NEW c \in Call, RemoteBye(c) \/ SendRTP(c)
      PROVE  TypeInv'
  <2> USE DEF HoldersHavePairs, callVars, batchVars, tally, stopVars, counters
  <2>1. CASE RemoteBye(c) BY <2>1 DEF RemoteBye, rtpVars
  <2>2. CASE SendRTP(c) BY <2>2 DEF SendRTP
  <2> QED BY <1>5, <2>1, <2>2
<1>6. ASSUME StopSwap \/ (\E k \in closing : StopClose(k)) \/ EndContext
      PROVE  TypeInv'
  <2> USE DEF HoldersHavePairs, callVars, batchVars, tally, counters, rtpVars
  <2>1. CASE StopSwap BY <2>1 DEF StopSwap
  <2>2. ASSUME NEW k \in closing, StopClose(k)
        PROVE  TypeInv'
    BY <2>2 DEF StopClose
  <2>3. CASE EndContext BY <2>3 DEF EndContext
  <2> QED BY <1>6, <2>1, <2>2, <2>3
<1>7. CASE UNCHANGED vars
  BY <1>7 DEF vars, HoldersHavePairs, callVars, batchVars, tally, stopVars, counters, rtpVars
<1> QED BY <1>1, <1>2, <1>3, <1>4, <1>5, <1>6, <1>7 DEF Next

\* Every variable keeps its type, whatever the interleaving.
LEMMA TypeInvariant == Safety => []TypeInv
BY InitTypeInv, NextTypeInv, PTL DEF Safety

THEOREM TypeCorrect == Safety => []TypeOK
BY TypeInvariant, PTL DEF TypeInv
-----------------------------------------------------------------------------
(***************************************************************************)
(* The pool.  Of all steps only reservePairs and release move extensions.  *)
(***************************************************************************)

\* Call c gives its pair back, and nothing else happens to the pool.
GivesBack(c) ==
    /\ c \in Holding
    /\ Holding' = Holding \ {c}
    /\ available' = available \cup Pair(c)
    /\ UNCHANGED <<caller, callee>>

\* Nobody takes or gives anything back.
KeepsPool ==
    /\ Holding' = Holding
    /\ UNCHANGED available
    /\ \A c \in Holding : caller'[c] = caller[c] /\ callee'[c] = callee[c]

LEMMA PoolStep ==
    ASSUME TypeInv, [Next]_vars
    PROVE  \/ \E b \in Batch, n \in 1..Cardinality(Call) : ReservePairs(b, n)
           \/ \E c \in Call : GivesBack(c)
           \/ KeepsPool
<1> USE DEF TypeInv, TypeOK, Label, Moves, Holding, KeepsPool, callVars
<1>1. ASSUME NEW b \in Batch, TakeStopChannel(b) \/ BatchDone(b)
      PROVE  KeepsPool
  BY <1>1 DEF TakeStopChannel, BatchDone
<1>2. ASSUME NEW c \in Call, CancelRamp(c) \/ Release(c)
      PROVE  GivesBack(c)
  BY <1>2 DEF CancelRamp, Release, GivesBack
<1>3. ASSUME NEW c \in Call, Goroutine(c), ~CancelRamp(c), ~Release(c)
      PROVE  KeepsPool
  <2>1. CASE Launch(c) \/ RampElapsed(c) BY <2>1 DEF Launch, RampElapsed
  <2>2. CASE CountCancelled(c) \/ Return(c) BY <2>2 DEF CountCancelled, Return, Leaves
  <2>3. CASE DialFails(c) \/ CountFailed(c) BY <2>3 DEF DialFails, CountFailed
  <2>4. CASE DialAnswered(c) \/ EnterTable(c) BY <2>4 DEF DialAnswered, EnterTable
  <2>5. ASSUME NEW how, EndsCall(c, how) PROVE KeepsPool BY <2>5 DEF EndsCall
  <2>6. CASE HangUp(c) \/ Account(c) \/ LeaveTable(c)
    BY <2>6 DEF HangUp, Account, LeaveTable
  <2> QED
    BY <1>3, <2>1, <2>2, <2>3, <2>4, <2>5, <2>6
    DEF Goroutine, Prompt, EndOnContext, EndOnStop, EndOnRemote, EndOnTimer
<1>4. ASSUME NEW c \in Call, RemoteBye(c) \/ SendRTP(c)
      PROVE  KeepsPool
  BY <1>4 DEF RemoteBye, SendRTP
<1>5. ASSUME StopSwap \/ (\E k \in closing : StopClose(k)) \/ EndContext
      PROVE  KeepsPool
  BY <1>5 DEF StopSwap, StopClose, EndContext
<1>6. CASE UNCHANGED vars
  BY <1>6 DEF vars
<1> QED BY <1>1, <1>2, <1>3, <1>4, <1>5, <1>6 DEF Next

\* What reservePairs does to the pool: new pairs come out of the available
\* extensions, no two alike, for calls that held nothing.
LEMMA ReserveStep ==
    ASSUME TypeInv, NEW b \in Batch, NEW n, ReservePairs(b, n)
    PROVE  \E S \in SUBSET (Call \ Holding) :
             \E from \in [S -> Caller \cap available],
                to \in [S -> Callee \cap available] :
               /\ Disjoint(S, from, to)
               /\ Reserve(b, S, from, to)
               /\ Holding' = Holding \cup S
<1>1. PICK S \in SUBSET {c \in Call : pc[c] = "unused"} :
             \E from \in [S -> Caller \cap available],
                to \in [S -> Callee \cap available] :
               Disjoint(S, from, to) /\ Reserve(b, S, from, to)
  BY DEF ReservePairs, kSubset
<1>2. PICK from \in [S -> Caller \cap available],
           to \in [S -> Callee \cap available] :
             Disjoint(S, from, to) /\ Reserve(b, S, from, to)
  BY <1>1
<1>3. S \in SUBSET (Call \ Holding)
  BY DEF Holding
<1>4. Holding' = Holding \cup S
  BY <1>2 DEF Reserve, Holding, TypeInv, TypeOK
<1> QED BY <1>2, <1>3, <1>4

PoolInv == NoDoubleBooking /\ AvailableIffUnheld

LEMMA NextPoolInv == TypeInv /\ PoolInv /\ [Next]_vars => PoolInv'
<1> SUFFICES ASSUME TypeInv, PoolInv, [Next]_vars
             PROVE  PoolInv'
  OBVIOUS
<1> USE DEF PoolInv, NoDoubleBooking, AvailableIffUnheld, Pair
<1>1. ASSUME NEW b \in Batch, NEW n \in 1..Cardinality(Call), ReservePairs(b, n)
      PROVE  PoolInv'
  <2>1. PICK S \in SUBSET (Call \ Holding) :
               \E from \in [S -> Caller \cap available],
                  to \in [S -> Callee \cap available] :
                 /\ Disjoint(S, from, to)
                 /\ Reserve(b, S, from, to)
                 /\ Holding' = Holding \cup S
    BY <1>1, ReserveStep
  <2>2. PICK from \in [S -> Caller \cap available],
             to \in [S -> Callee \cap available] :
               /\ Disjoint(S, from, to)
               /\ Reserve(b, S, from, to)
               /\ Holding' = Holding \cup S
    BY <2>1
  <2>3. \A c \in S : /\ caller'[c] = from[c] /\ callee'[c] = to[c]
                     /\ from[c] \in available /\ to[c] \in available
    BY <2>2 DEF Reserve
  <2>4. \A c \in Holding : /\ caller'[c] = caller[c] /\ callee'[c] = callee[c]
                           /\ Pair(c) \cap available = {}
    BY <2>2 DEF Reserve, Holding
  <2>5. NoDoubleBooking'
    BY <2>2, <2>3, <2>4 DEF Disjoint
  <2>6. ASSUME NEW p
        PROVE  p \in available' <=> p \in Phone /\ \A c \in Holding' : p \notin Pair(c)'
    BY <2>2, <2>3, <2>4 DEF Reserve
  <2>7. AvailableIffUnheld'
    BY <2>6
  <2> QED BY <2>5, <2>7
<1>2. ASSUME NEW c \in Call, GivesBack(c)
      PROVE  PoolInv'
  <2>1. Pair(c) \subseteq Phone
    BY <1>2 DEF GivesBack, Holding, TypeInv, HoldersHavePairs, Phone
  <2>2. \A d \in Call : Pair(d)' = Pair(d)
    BY <1>2 DEF GivesBack
  <2>3. NoDoubleBooking'
    BY <1>2, <2>2 DEF GivesBack
  <2>4. ASSUME NEW p
        PROVE  p \in available' <=> p \in Phone /\ \A d \in Holding' : p \notin Pair(d)'
    BY <1>2, <2>1, <2>2 DEF GivesBack, Holding
  <2>5. AvailableIffUnheld'
    BY <2>4
  <2> QED BY <2>3, <2>5
<1>3. CASE KeepsPool
  BY <1>3 DEF KeepsPool
<1> QED BY <1>1, <1>2, <1>3, PoolStep

LEMMA PoolInvariant == Safety => []PoolInv
<1>1. Init => PoolInv
  BY DEF Init, PoolInv, NoDoubleBooking, AvailableIffUnheld, Holding
<1> QED BY <1>1, NextPoolInv, TypeInvariant, PTL DEF Safety

\* No extension is ever on two calls, nor at both ends of one.
THEOREM NeverDoubleBooked == Safety => []NoDoubleBooking
BY PoolInvariant, PTL DEF PoolInv

\* An extension is available exactly when no call holds it: nothing leaks out
\* of the pool and nothing is handed back early.
THEOREM NothingLeaks == Safety => []AvailableIffUnheld
BY PoolInvariant, PTL DEF PoolInv
-----------------------------------------------------------------------------
(***************************************************************************)
(* Session implements ExtensionPool.                                       *)
(***************************************************************************)

Held == [c \in Call |-> IF c \in Holding THEN Pair(c) ELSE {}]

\* The refinement, step by step: reservePairs takes the pairs of all its calls
\* at once, release gives one back, and every other step stutters.
THEOREM ImplementsPool == Safety => PoolSafety
<1>1. Init => Pool!Init
  BY DEF Init, Pool!Init, Holding
<1>2. ASSUME TypeInv, PoolInv, [Next]_vars
      PROVE  [Pool!Next]_Held
  <2>1. ASSUME NEW b \in Batch, NEW n \in 1..Cardinality(Call), ReservePairs(b, n)
        PROVE  [Pool!Next]_Held
    <3>1. PICK S \in SUBSET (Call \ Holding) :
                 \E from \in [S -> Caller \cap available],
                    to \in [S -> Callee \cap available] :
                   /\ Disjoint(S, from, to)
                   /\ Reserve(b, S, from, to)
                   /\ Holding' = Holding \cup S
      BY <1>2, <2>1, ReserveStep
    <3>2. PICK from \in [S -> Caller \cap available],
               to \in [S -> Callee \cap available] :
                 /\ Disjoint(S, from, to)
                 /\ Reserve(b, S, from, to)
                 /\ Holding' = Holding \cup S
      BY <3>1
    <3>3. Held' = [c \in Call |-> IF c \in S THEN {from[c], to[c]} ELSE Held[c]]
      BY <3>2 DEF Held, Pair, Reserve, Holding
    <3>4. available \subseteq Pool!Free
      BY <1>2 DEF PoolInv, AvailableIffUnheld, Pool!Free, Pool!Phone, Phone
    <3>5. ASSUME NEW c \in S
          PROVE  Held[c] = {} /\ Pool!FreePair(Held'[c])
      <4>1. Held[c] = {} /\ Held'[c] = {from[c], to[c]}
        BY <3>3 DEF Held
      <4>2. /\ from[c] \in Caller \cap Pool!Free
            /\ to[c] \in Callee \cap Pool!Free
            /\ from[c] # to[c]
        BY <3>2, <3>4 DEF Disjoint
      <4> QED BY <4>1, <4>2 DEF Pool!FreePair
    <3>6. \A c \in Call \ S : Held'[c] = Held[c]
      BY <3>3
    <3>7. \A c, d \in Call : c # d => Held'[c] \cap Held'[d] = {}
      BY <1>2, <2>1, NextPoolInv DEF PoolInv, NoDoubleBooking, Held
    <3>8. Held' \in [Call -> SUBSET Phone]
      BY <1>2, <2>1, NextTypeInv DEF TypeInv, HoldersHavePairs, Held, Pair, Holding, Phone
    <3>9. Pool!Take
      BY <3>5, <3>6, <3>7, <3>8 DEF Pool!Take, Pool!Phone, Phone, Held
    <3> QED BY <3>9 DEF Pool!Next
  <2>2. ASSUME NEW c \in Call, GivesBack(c)
        PROVE  [Pool!Next]_Held
    <3>1. Held[c] # {}
      BY <2>2 DEF GivesBack, Held, Pair
    <3>2. Held' = [Held EXCEPT ![c] = {}]
      BY <2>2 DEF GivesBack, Held, Pair
    <3> QED BY <3>1, <3>2 DEF Pool!Next, Pool!Give, Held
  <2>3. CASE KeepsPool
    BY <2>3 DEF KeepsPool, Held, Pair
  <2> QED BY <1>2, <2>1, <2>2, <2>3, PoolStep
<1> QED
  BY <1>1, <1>2, TypeInvariant, PoolInvariant, PTL
  DEF Safety, PoolSafety, Pool!Safety, Held
-----------------------------------------------------------------------------
(***************************************************************************)
(* Bookkeeping: what a snapshot and a test run read.                       *)
(***************************************************************************)

TableInv == calls = {c \in Call : pc[c] \in {"talking", "hanging", "accounting", "leaving"}}

LEMMA NextTableInv == TypeInv /\ TableInv /\ [Next]_vars => TableInv'
<1> SUFFICES ASSUME TypeInv, TableInv, [Next]_vars
             PROVE  TableInv'
  OBVIOUS
<1> USE DEF TypeInv, TypeOK, Label, Moves, TableInv, callVars
<1>1. ASSUME NEW b \in Batch, NEW n, ReservePairs(b, n)
      PROVE  TableInv'
  <2>1. PICK S \in SUBSET {c \in Call : pc[c] = "unused"} :
               pc' = [c \in Call |-> IF c \in S THEN "reserved" ELSE pc[c]]
    BY <1>1 DEF ReservePairs, Reserve, kSubset
  <2>2. calls' = calls
    BY <1>1 DEF ReservePairs
  <2> QED BY <2>1, <2>2
<1>2. ASSUME NEW c \in Call, Goroutine(c)
      PROVE  TableInv'
  <2>1. CASE Launch(c) \/ RampElapsed(c) BY <2>1 DEF Launch, RampElapsed
  <2>2. CASE CountCancelled(c) \/ Return(c) BY <2>2 DEF CountCancelled, Return
  <2>3. CASE DialFails(c) \/ CountFailed(c) BY <2>3 DEF DialFails, CountFailed
  <2>4. CASE DialAnswered(c) \/ EnterTable(c) BY <2>4 DEF DialAnswered, EnterTable
  <2>5. ASSUME NEW how, EndsCall(c, how) PROVE TableInv' BY <2>5 DEF EndsCall
  <2>6. CASE HangUp(c) \/ Account(c) \/ LeaveTable(c)
    BY <2>6 DEF HangUp, Account, LeaveTable
  <2>7. CASE CancelRamp(c) \/ Release(c) BY <2>7 DEF CancelRamp, Release
  <2> QED
    BY <1>2, <2>1, <2>2, <2>3, <2>4, <2>5, <2>6, <2>7
    DEF Goroutine, Prompt, EndOnContext, EndOnStop, EndOnRemote, EndOnTimer
<1>3. CASE UNCHANGED <<pc, calls>>
  BY <1>3
<1> QED
  BY <1>1, <1>2, <1>3
  DEF Next, TakeStopChannel, BatchDone, RemoteBye, SendRTP, StopSwap, StopClose,
      EndContext, vars

\* A call a snapshot lists still holds its pair, so nobody else can be given
\* one of its two extensions.
THEOREM ListedCallsHold == Safety => []ListedCallsHoldTheirPair
<1>1. Init => TableInv
  BY DEF Init, TableInv
<1>2. TableInv /\ PoolInv => ListedCallsHoldTheirPair
  BY DEF TableInv, PoolInv, AvailableIffUnheld, ListedCallsHoldTheirPair, Holding
<1> QED
  BY <1>1, <1>2, NextTableInv, TypeInvariant, PoolInvariant, PTL DEF Safety

\* Each call that is started adds itself to the undecided ones, and each that
\* is decided leaves them for one of three counters.
LEMMA NextCountersAddUp == TypeInv /\ CountersAddUp /\ [Next]_vars => CountersAddUp'
<1> SUFFICES ASSUME TypeInv, CountersAddUp, [Next]_vars
             PROVE  CountersAddUp'
  OBVIOUS
<1> USE DEF TypeInv, TypeOK, Label, Moves, counters
<1> DEFINE U == Undecided
<1>1. IsFiniteSet(U) /\ Cardinality(U) \in Nat
  BY ConstantsAssumption, FS_Subset, FS_CardinalityType DEF Undecided
<1>2. \A c \in Call : /\ Cardinality(U \cup {c}) =
                           IF c \in U THEN Cardinality(U) ELSE Cardinality(U) + 1
                     /\ Cardinality(U \ {c}) =
                           IF c \in U THEN Cardinality(U) - 1 ELSE Cardinality(U)
  BY <1>1, FS_AddElement, FS_RemoveElement
<1>3. ASSUME U' = U,
             started' = started /\ answered' = answered,
             failed' = failed /\ cancelled' = cancelled
      PROVE  CountersAddUp'
  BY <1>3 DEF CountersAddUp
<1>4. ASSUME NEW b \in Batch, NEW n, ReservePairs(b, n)
      PROVE  CountersAddUp'
  <2>1. PICK S \in SUBSET {c \in Call : pc[c] = "unused"} :
               pc' = [c \in Call |-> IF c \in S THEN "reserved" ELSE pc[c]]
    BY <1>4 DEF ReservePairs, Reserve, kSubset
  <2> QED BY <1>3, <1>4, <2>1 DEF ReservePairs, Undecided
<1>5. ASSUME NEW c \in Call, Goroutine(c)
      PROVE  CountersAddUp'
  <2>1. CASE Launch(c)
    <3>1. U' = U \cup {c} /\ c \notin U BY <2>1 DEF Launch, Undecided
    <3> QED BY <1>1, <1>2, <2>1, <3>1 DEF Launch, CountersAddUp
  <2>2. CASE CountCancelled(c)
    <3>1. U' = U \ {c} /\ c \in U BY <2>2 DEF CountCancelled, Undecided
    <3> QED BY <1>1, <1>2, <2>2, <3>1 DEF CountCancelled, CountersAddUp
  <2>3. CASE CountFailed(c)
    <3>1. U' = U \ {c} /\ c \in U BY <2>3 DEF CountFailed, Undecided
    <3> QED BY <1>1, <1>2, <2>3, <3>1 DEF CountFailed, CountersAddUp
  <2>4. CASE DialAnswered(c)
    <3>1. U' = U \ {c} /\ c \in U BY <2>4 DEF DialAnswered, Undecided
    <3> QED BY <1>1, <1>2, <2>4, <3>1 DEF DialAnswered, CountersAddUp
  <2>5. CASE CancelRamp(c) \/ RampElapsed(c) \/ DialFails(c)
    BY <1>3, <2>5 DEF CancelRamp, RampElapsed, DialFails, Undecided
  <2>6. CASE EnterTable(c) \/ HangUp(c) \/ Account(c) \/ LeaveTable(c)
    BY <1>3, <2>6 DEF EnterTable, HangUp, Account, LeaveTable, Undecided
  <2>7. CASE Release(c) \/ Return(c)
    BY <1>3, <2>7 DEF Release, Return, Undecided
  <2>8. ASSUME NEW how, EndsCall(c, how) PROVE CountersAddUp'
    BY <1>3, <2>8 DEF EndsCall, Undecided
  <2> QED
    BY <1>5, <2>1, <2>2, <2>3, <2>4, <2>5, <2>6, <2>7, <2>8
    DEF Goroutine, Prompt, EndOnContext, EndOnStop, EndOnRemote, EndOnTimer
<1>6. CASE UNCHANGED <<pc, counters>>
  BY <1>3, <1>6 DEF Undecided
<1> QED
  BY <1>4, <1>5, <1>6
  DEF Next, TakeStopChannel, BatchDone, RemoteBye, SendRTP, StopSwap, StopClose,
      EndContext, vars, callVars

\* At every step, started is the sum of the three outcomes and of the calls
\* that have none yet.
THEOREM CountersAlwaysAddUp == Safety => []CountersAddUp
<1>1. Init => CountersAddUp
  <2> SUFFICES ASSUME Init PROVE CountersAddUp
    OBVIOUS
  <2>1. Undecided = {} /\ started = 0 /\ answered = 0 /\ failed = 0 /\ cancelled = 0
    BY DEF Init, Undecided
  <2> QED BY <2>1, FS_EmptySet DEF CountersAddUp
<1> QED BY <1>1, NextCountersAddUp, TypeInvariant, PTL DEF Safety
-----------------------------------------------------------------------------
(***************************************************************************)
(* What came of the calls: health, and the report of a batch.              *)
(***************************************************************************)

\* How far a call has come tells how it may have come out.
OutcomeInv ==
    \A c \in Call :
        /\ pc[c] \in {"unused", "reserved", "ramping", "dialing", "answered", "talking"}
             => result[c] = "none"
        /\ pc[c] = "cancelling" => result[c] = "cancelled"
        /\ pc[c] = "failing" => result[c] = "failed"
        /\ pc[c] \in {"hanging", "accounting", "leaving"} => result[c] \in {"ended", "dropped"}
        /\ pc[c] \in {"releasing", "returning"} => result[c] \in {"failed", "ended", "dropped"}
        /\ pc[c] = "done" => result[c] # "none"

LEMMA NextOutcomeInv == TypeInv /\ OutcomeInv /\ [Next]_vars => OutcomeInv'
<1> SUFFICES ASSUME TypeInv, OutcomeInv, [Next]_vars
             PROVE  OutcomeInv'
  OBVIOUS
<1> USE DEF TypeInv, TypeOK, Label, Moves, OutcomeInv, callVars
<1>1. ASSUME NEW b \in Batch, NEW n, ReservePairs(b, n)
      PROVE  OutcomeInv'
  <2>1. PICK S \in SUBSET {c \in Call : pc[c] = "unused"} :
               pc' = [c \in Call |-> IF c \in S THEN "reserved" ELSE pc[c]]
    BY <1>1 DEF ReservePairs, Reserve, kSubset
  <2>2. result' = result
    BY <1>1 DEF ReservePairs
  <2> QED BY <2>1, <2>2
<1>2. ASSUME NEW c \in Call, Goroutine(c)
      PROVE  OutcomeInv'
  <2>1. CASE Launch(c) \/ RampElapsed(c) BY <2>1 DEF Launch, RampElapsed
  <2>2. CASE CountCancelled(c) \/ Return(c) BY <2>2 DEF CountCancelled, Return
  <2>3. CASE DialFails(c) \/ CountFailed(c) BY <2>3 DEF DialFails, CountFailed
  <2>4. CASE DialAnswered(c) \/ EnterTable(c) BY <2>4 DEF DialAnswered, EnterTable
  <2>5. ASSUME NEW how \in {"ended", "dropped"}, EndsCall(c, how)
        PROVE  OutcomeInv'
    BY <2>5 DEF EndsCall
  <2>6. CASE HangUp(c) \/ Account(c) \/ LeaveTable(c)
    BY <2>6 DEF HangUp, Account, LeaveTable
  <2>7. CASE CancelRamp(c) \/ Release(c) BY <2>7 DEF CancelRamp, Release
  <2> QED
    BY <1>2, <2>1, <2>2, <2>3, <2>4, <2>5, <2>6, <2>7
    DEF Goroutine, Prompt, EndOnContext, EndOnStop, EndOnRemote, EndOnTimer
<1>3. CASE UNCHANGED <<pc, result>>
  BY <1>3
<1> QED
  BY <1>1, <1>2, <1>3
  DEF Next, TakeStopChannel, BatchDone, RemoteBye, SendRTP, StopSwap, StopClose,
      EndContext, vars

LEMMA OutcomeInvariant == Safety => []OutcomeInv
<1>1. Init => OutcomeInv
  BY DEF Init, OutcomeInv
<1> QED BY <1>1, NextOutcomeInv, TypeInvariant, PTL DEF Safety

Failing == {c \in Call : pc[c] = "failing"}

Dropped == {c \in Call : /\ result[c] = "dropped"
                         /\ pc[c] \in {"leaving", "releasing", "returning", "done"}}

\* A set of calls counted one step later: the same, one more or one less.
LEMMA CountedSets ==
    ASSUME NEW S, S \subseteq Call
    PROVE  /\ IsFiniteSet(S) /\ Cardinality(S) \in Nat
           /\ \A c \in Call :
                /\ Cardinality(S \cup {c}) = IF c \in S THEN Cardinality(S) ELSE Cardinality(S) + 1
                /\ Cardinality(S \ {c}) = IF c \in S THEN Cardinality(S) - 1 ELSE Cardinality(S)
BY ConstantsAssumption, FS_Subset, FS_CardinalityType, FS_AddElement, FS_RemoveElement

\* Only DialFails and CountFailed move the one pair of counts, only Account the other.
LEMMA NextHealthAgrees ==
    TypeInv /\ OutcomeInv /\ HealthAgrees /\ [Next]_vars => HealthAgrees'
<1> SUFFICES ASSUME TypeInv, OutcomeInv, HealthAgrees, [Next]_vars
             PROVE  HealthAgrees'
  OBVIOUS
<1> USE DEF TypeInv, TypeOK, Label, Moves, counters, callVars
<1>0. /\ HealthAgrees <=> failures = failed + Cardinality(Failing) /\ drops = Cardinality(Dropped)
      /\ HealthAgrees' <=> failures' = failed' + Cardinality(Failing') /\ drops' = Cardinality(Dropped')
  BY DEF HealthAgrees, Failing, Dropped
<1>1. Failing \subseteq Call /\ Dropped \subseteq Call
  BY DEF Failing, Dropped
<1>2. ASSUME UNCHANGED <<failures, failed, drops>>, Failing' = Failing, Dropped' = Dropped
      PROVE  HealthAgrees'
  BY <1>0, <1>2
<1>3. ASSUME NEW b \in Batch, NEW n, ReservePairs(b, n)
      PROVE  HealthAgrees'
  <2>1. PICK S \in SUBSET {c \in Call : pc[c] = "unused"} :
               pc' = [c \in Call |-> IF c \in S THEN "reserved" ELSE pc[c]]
    BY <1>3 DEF ReservePairs, Reserve, kSubset
  <2>2. UNCHANGED <<result, failures, failed, drops>>
    BY <1>3 DEF ReservePairs
  <2>3. Failing' = Failing /\ Dropped' = Dropped
    BY <2>1, <2>2 DEF Failing, Dropped
  <2> QED BY <1>2, <2>2, <2>3
<1>4. ASSUME NEW c \in Call, DialFails(c)
      PROVE  HealthAgrees'
  <2>1. /\ Failing' = Failing \cup {c} /\ c \notin Failing
        /\ Dropped' = Dropped
        /\ failures' = failures + 1 /\ UNCHANGED <<failed, drops>>
    BY <1>4 DEF DialFails, Failing, Dropped
  <2> QED BY <1>0, <1>1, <2>1, CountedSets
<1>5. ASSUME NEW c \in Call, CountFailed(c)
      PROVE  HealthAgrees'
  <2>1. /\ Failing' = Failing \ {c} /\ c \in Failing
        /\ Dropped' = Dropped
        /\ failed' = failed + 1 /\ UNCHANGED <<failures, drops>>
    BY <1>5 DEF CountFailed, Failing, Dropped, OutcomeInv
  <2> QED BY <1>0, <1>1, <2>1, CountedSets
<1>6. ASSUME NEW c \in Call, Account(c)
      PROVE  HealthAgrees'
  <2>1. /\ Failing' = Failing /\ UNCHANGED <<failures, failed>>
        /\ IF result[c] = "dropped"
           THEN Dropped' = Dropped \cup {c} /\ c \notin Dropped /\ drops' = drops + 1
           ELSE Dropped' = Dropped /\ drops' = drops
    BY <1>6 DEF Account, Failing, Dropped
  <2> QED BY <1>0, <1>1, <2>1, CountedSets
<1>7. ASSUME NEW c \in Call, Goroutine(c), ~DialFails(c), ~CountFailed(c), ~Account(c)
      PROVE  HealthAgrees'
  <2> USE DEF Failing, Dropped
  <2>1. CASE Launch(c) \/ RampElapsed(c) BY <1>2, <2>1 DEF Launch, RampElapsed
  <2>2. CASE CountCancelled(c) BY <1>2, <2>2 DEF CountCancelled, OutcomeInv
  <2>3. CASE Return(c) BY <1>2, <2>3 DEF Return
  <2>4. CASE DialAnswered(c) \/ EnterTable(c) BY <1>2, <2>4 DEF DialAnswered, EnterTable
  <2>5. ASSUME NEW how, EndsCall(c, how) PROVE HealthAgrees' BY <1>2, <2>5 DEF EndsCall
  <2>6. CASE HangUp(c) \/ LeaveTable(c) BY <1>2, <2>6 DEF HangUp, LeaveTable
  <2>7. CASE CancelRamp(c) \/ Release(c) BY <1>2, <2>7 DEF CancelRamp, Release
  <2> QED
    BY <1>7, <2>1, <2>2, <2>3, <2>4, <2>5, <2>6, <2>7
    DEF Goroutine, Prompt, EndOnContext, EndOnStop, EndOnRemote, EndOnTimer
<1>8. CASE UNCHANGED <<pc, result, counters>>
  BY <1>2, <1>8 DEF Failing, Dropped
<1> QED
  BY <1>3, <1>4, <1>5, <1>6, <1>7, <1>8
  DEF Next, TakeStopChannel, BatchDone, RemoteBye, SendRTP, StopSwap, StopClose,
      EndContext, vars

\* The dashboard's figures for a session agree with each other at every step:
\* every started call in one place, and health with the totals.
THEOREM CountsAlwaysAgree == Safety => []CountsAgree
<1>1. Init => HealthAgrees
  <2> SUFFICES ASSUME Init PROVE HealthAgrees
    OBVIOUS
  <2>1. Failing = {} /\ Dropped = {}
    BY DEF Init, Failing, Dropped
  <2>2. failures = 0 /\ failed = 0 /\ drops = 0
    BY DEF Init
  <2>3. failures = failed + Cardinality(Failing) /\ drops = Cardinality(Dropped)
    BY <2>1, <2>2, FS_EmptySet
  <2> QED BY <2>3 DEF HealthAgrees, Failing, Dropped
<1>2. Safety => []HealthAgrees
  BY <1>1, NextHealthAgrees, TypeInvariant, OutcomeInvariant, PTL DEF Safety
<1> QED BY <1>2, CountersAlwaysAddUp, PTL DEF CountsAgree

\* The pool and the table together, as PairsAreHeld states them.
THEOREM PairsAlwaysHeld == Safety => []PairsAreHeld
BY NeverDoubleBooked, NothingLeaks, ListedCallsHold, PTL DEF PairsAreHeld
-----------------------------------------------------------------------------
\* The calls of a batch that are over, by how they came out.
Over(b, how) == {c \in Call : batch[c] = b /\ pc[c] = "done" /\ result[c] \in how}

Recorded == {"failed", "ended", "dropped"}
Talked == {"ended", "dropped"}
Fruitless == {"cancelled", "failed"}

\* A batch's records and counts are those of its calls that are over, and it
\* is given no call before it is reserved nor has one under way when reported.
BatchInv ==
    /\ \A c \in Call : pc[c] = "unused" => batch[c] = NoBatch
    /\ \A b \in Batch :
         /\ records[b] = Over(b, Recorded)
         /\ batchAnswered[b] = Cardinality(Over(b, Talked))
         /\ batchFailed[b] = Cardinality(Over(b, Fruitless))
         /\ bpc[b] = "idle" => BatchCalls(b) = {}
         /\ bpc[b] = "reported" => \A c \in BatchCalls(b) : pc[c] = "done"

\* A step that touches neither a batch's calls nor its books keeps BatchInv.
KeepsBatches ==
    /\ UNCHANGED <<batch, records, tally, bpc>>
    /\ \A c \in Call : /\ pc[c] = "unused" <=> pc'[c] = "unused"
                       /\ pc[c] = "done" <=> pc'[c] = "done"
                       /\ pc[c] = "done" => result'[c] = result[c]

LEMMA KeptBatches == TypeInv /\ BatchInv /\ KeepsBatches => BatchInv'
<1> SUFFICES ASSUME TypeInv, BatchInv, KeepsBatches
             PROVE  BatchInv'
  OBVIOUS
<1>1. ASSUME NEW b \in Batch
      PROVE  /\ Over(b, Recorded)' = Over(b, Recorded)
             /\ Over(b, Talked)' = Over(b, Talked)
             /\ Over(b, Fruitless)' = Over(b, Fruitless)
             /\ BatchCalls(b)' = BatchCalls(b)
  BY DEF Over, BatchCalls, KeepsBatches, Recorded, Talked, Fruitless
<1> QED BY <1>1 DEF BatchInv, KeepsBatches, tally, BatchCalls

\* A call's last step: it is over in its batch, and the books take it in.
CallEnds(c) ==
    /\ pc[c] \in {"cancelling", "returning"} /\ pc' = [pc EXCEPT ![c] = "done"]
    /\ records' = IF pc[c] = "cancelling" THEN records
                  ELSE [records EXCEPT ![batch[c]] = @ \cup {c}]
    /\ Leaves(c)
    /\ UNCHANGED <<batch, result, bpc>>

LEMMA EndedCalls ==
    ASSUME TypeInv, OutcomeInv, BatchInv, NEW c \in Call, CallEnds(c)
    PROVE  BatchInv'
<1>1. PICK b \in Batch : batch[c] = b /\ c \in BatchCalls(b)
  BY DEF TypeInv, HoldersHavePairs, CallEnds, BatchCalls
<1>2. \/ pc[c] = "cancelling" /\ result[c] = "cancelled"
      \/ pc[c] = "returning" /\ result[c] \in Recorded
  BY DEF OutcomeInv, CallEnds, Recorded
<1>3. ASSUME NEW d \in Batch \ {b}
      PROVE  /\ Over(d, Recorded)' = Over(d, Recorded)
             /\ Over(d, Talked)' = Over(d, Talked)
             /\ Over(d, Fruitless)' = Over(d, Fruitless)
  BY <1>1 DEF Over, CallEnds, TypeInv, TypeOK
<1>4. \A how : c \notin Over(b, how) /\ Over(b, how) \subseteq Call
  BY <1>1 DEF Over, CallEnds
<1>5. \A how : /\ Cardinality(Over(b, how)) \in Nat
               /\ Cardinality(Over(b, how) \cup {c}) = Cardinality(Over(b, how)) + 1
  BY <1>4, CountedSets
<1>6. /\ records'[b] = Over(b, Recorded)'
      /\ \A d \in Batch \ {b} : records'[d] = records[d]
  <2>1. Over(b, Recorded)' = IF result[c] \in Recorded THEN Over(b, Recorded) \cup {c} ELSE Over(b, Recorded)
    BY <1>1 DEF Over, CallEnds, TypeInv, TypeOK, Recorded
  <2> QED BY <1>1, <1>2, <2>1 DEF BatchInv, CallEnds, TypeInv, TypeOK, Recorded
<1>7. /\ batchAnswered'[b] = Cardinality(Over(b, Talked)')
      /\ batchFailed'[b] = Cardinality(Over(b, Fruitless)')
      /\ \A d \in Batch \ {b} : batchAnswered'[d] = batchAnswered[d] /\ batchFailed'[d] = batchFailed[d]
  <2>1. Over(b, Talked)' = IF result[c] \in Talked THEN Over(b, Talked) \cup {c} ELSE Over(b, Talked)
    BY <1>1 DEF Over, CallEnds, TypeInv, TypeOK, Talked
  <2>2. Over(b, Fruitless)' = IF result[c] \in Fruitless THEN Over(b, Fruitless) \cup {c} ELSE Over(b, Fruitless)
    BY <1>1 DEF Over, CallEnds, TypeInv, TypeOK, Fruitless
  <2>3. CASE result[c] \in Fruitless
    BY <1>1, <1>5, <2>1, <2>2, <2>3
    DEF BatchInv, CallEnds, Leaves, TypeInv, TypeOK, Talked, Fruitless
  <2>4. CASE result[c] \in Talked
    BY <1>1, <1>5, <2>1, <2>2, <2>4
    DEF BatchInv, CallEnds, Leaves, TypeInv, TypeOK, Talked, Fruitless
  <2> QED BY <1>2, <2>3, <2>4 DEF Recorded, Talked, Fruitless
<1>8. /\ \A d \in Call : pc'[d] = "unused" => batch'[d] = NoBatch
      /\ \A d \in Batch : BatchCalls(d)' = BatchCalls(d) /\ bpc'[d] = bpc[d]
      /\ \A d \in Call : pc[d] = "done" => pc'[d] = "done"
  BY DEF BatchInv, CallEnds, BatchCalls, TypeInv, TypeOK
<1> QED
  <2>1. \A d \in Batch : /\ records'[d] = Over(d, Recorded)'
                         /\ batchAnswered'[d] = Cardinality(Over(d, Talked)')
                         /\ batchFailed'[d] = Cardinality(Over(d, Fruitless)')
    <3>1. ASSUME NEW d \in Batch \ {b}
          PROVE  /\ records'[d] = Over(d, Recorded)'
                 /\ batchAnswered'[d] = Cardinality(Over(d, Talked)')
                 /\ batchFailed'[d] = Cardinality(Over(d, Fruitless)')
      BY <1>3, <1>6, <1>7 DEF BatchInv
    <3> QED BY <1>1, <1>6, <1>7, <3>1
  <2>2. \A d \in Batch : /\ bpc'[d] = "idle" => BatchCalls(d)' = {}
                         /\ bpc'[d] = "reported" => \A e \in BatchCalls(d)' : pc'[e] = "done"
    BY <1>8 DEF BatchInv, BatchCalls
  <2> QED BY <1>8, <2>1, <2>2 DEF BatchInv

LEMMA NextBatchInv == TypeInv /\ OutcomeInv /\ BatchInv /\ [Next]_vars => BatchInv'
<1> SUFFICES ASSUME TypeInv, OutcomeInv, BatchInv, [Next]_vars
             PROVE  BatchInv'
  OBVIOUS
<1> USE DEF Moves, callVars, batchVars
<1>1. ASSUME NEW b \in Batch, NEW n, ReservePairs(b, n)
      PROVE  BatchInv'
  <2>1. PICK S \in SUBSET {c \in Call : pc[c] = "unused"} :
               /\ pc' = [c \in Call |-> IF c \in S THEN "reserved" ELSE pc[c]]
               /\ batch' = [c \in Call |-> IF c \in S THEN b ELSE batch[c]]
    BY <1>1 DEF ReservePairs, Reserve, kSubset
  <2>2. /\ bpc[b] = "idle" /\ bpc' = [bpc EXCEPT ![b] = "reserved"]
        /\ UNCHANGED <<result, records, tally>>
    BY <1>1 DEF ReservePairs
  <2>3. ASSUME NEW d \in Batch
        PROVE  /\ Over(d, Recorded)' = Over(d, Recorded)
               /\ Over(d, Talked)' = Over(d, Talked)
               /\ Over(d, Fruitless)' = Over(d, Fruitless)
    BY <2>1, <2>2 DEF Over, BatchInv, TypeInv, TypeOK
  <2>4. ASSUME NEW d \in Batch \ {b}
        PROVE  BatchCalls(d)' = BatchCalls(d) /\ \A c \in BatchCalls(d) : pc'[c] = pc[c]
    <3>1. d # NoBatch
      BY ConstantsAssumption
    <3> QED BY <2>1, <3>1 DEF BatchCalls, BatchInv, TypeInv, TypeOK
  <2>5. \A c \in Call : pc'[c] = "unused" => batch'[c] = NoBatch
    BY <2>1 DEF BatchInv, TypeInv, TypeOK
  <2>6. bpc'[b] = "reserved" /\ \A d \in Batch \ {b} : bpc'[d] = bpc[d]
    BY <2>2 DEF TypeInv, TypeOK
  <2>7. \A d \in Batch : /\ bpc'[d] = "idle" => BatchCalls(d)' = {}
                         /\ bpc'[d] = "reported" => \A e \in BatchCalls(d)' : pc'[e] = "done"
    BY <2>4, <2>6 DEF BatchInv
  <2> QED BY <2>2, <2>3, <2>5, <2>7 DEF BatchInv, tally
<1>2. ASSUME NEW b \in Batch, TakeStopChannel(b) \/ BatchDone(b)
      PROVE  BatchInv'
  <2>1. /\ UNCHANGED <<pc, batch, result, records, tally>>
        /\ \A d \in Batch \ {b} : bpc'[d] = bpc[d]
        /\ \/ bpc'[b] = "launching"
           \/ bpc'[b] = "reported" /\ \A c \in BatchCalls(b) : pc[c] = "done"
    BY <1>2 DEF TakeStopChannel, BatchDone, TypeInv, TypeOK
  <2>2. \A d \in Batch : /\ Over(d, Recorded)' = Over(d, Recorded)
                         /\ Over(d, Talked)' = Over(d, Talked)
                         /\ Over(d, Fruitless)' = Over(d, Fruitless)
                         /\ BatchCalls(d)' = BatchCalls(d)
    BY <2>1 DEF Over, BatchCalls
  <2> QED BY <2>1, <2>2 DEF BatchInv, tally
<1>3. ASSUME NEW c \in Call, CountCancelled(c) \/ Return(c)
      PROVE  BatchInv'
  <2>1. CallEnds(c)
    BY <1>3 DEF CountCancelled, Return, CallEnds
  <2> QED BY <2>1, EndedCalls
<1>4. ASSUME NEW c \in Call, Goroutine(c), ~CountCancelled(c), ~Return(c)
      PROVE  BatchInv'
  <2> USE KeptBatches DEF KeepsBatches, TypeInv, TypeOK
  <2>1. CASE Launch(c) \/ RampElapsed(c)
    <3>1. KeepsBatches BY <2>1 DEF Launch, RampElapsed
    <3> QED BY <3>1
  <2>2. CASE DialFails(c) \/ CountFailed(c)
    <3>1. KeepsBatches BY <2>2 DEF DialFails, CountFailed
    <3> QED BY <3>1
  <2>3. CASE DialAnswered(c) \/ EnterTable(c)
    <3>1. KeepsBatches BY <2>3 DEF DialAnswered, EnterTable
    <3> QED BY <3>1
  <2>4. ASSUME NEW how, EndsCall(c, how)
        PROVE  BatchInv'
    <3>1. KeepsBatches BY <2>4 DEF EndsCall
    <3> QED BY <3>1
  <2>5. CASE HangUp(c) \/ Account(c) \/ LeaveTable(c)
    <3>1. KeepsBatches BY <2>5 DEF HangUp, Account, LeaveTable
    <3> QED BY <3>1
  <2>6. CASE Release(c)
    <3>1. KeepsBatches BY <2>6 DEF Release
    <3> QED BY <3>1
  <2>7. CASE CancelRamp(c)
    <3>1. KeepsBatches BY <2>7 DEF CancelRamp
    <3> QED BY <3>1
  <2> QED
    BY <1>4, <2>1, <2>2, <2>3, <2>4, <2>5, <2>6, <2>7
    DEF Goroutine, Prompt, EndOnContext, EndOnStop, EndOnRemote, EndOnTimer
<1>5. CASE UNCHANGED <<pc, batch, result, records, tally, bpc>>
  BY <1>5, KeptBatches DEF KeepsBatches
<1> QED
  BY <1>1, <1>2, <1>3, <1>4, <1>5
  DEF Next, RemoteBye, SendRTP, StopSwap, StopClose, EndContext, vars

\* The report of a batch is complete when its waiter hands it over: every call
\* over, a record of each that dialed, counts that cover the batch.
THEOREM ReportsAreComplete == Safety => []BatchReportComplete
<1>1. Init => BatchInv
  <2> SUFFICES ASSUME Init PROVE BatchInv
    OBVIOUS
  <2>1. \A b \in Batch : /\ Over(b, Recorded) = {} /\ Over(b, Talked) = {}
                         /\ Over(b, Fruitless) = {} /\ BatchCalls(b) = {}
    BY ConstantsAssumption DEF Init, Over, BatchCalls
  <2> QED BY <2>1, FS_EmptySet DEF Init, BatchInv
<1>2. Safety => []BatchInv
  BY <1>1, NextBatchInv, TypeInvariant, OutcomeInvariant, PTL DEF Safety
<1>3. TypeInv /\ OutcomeInv /\ BatchInv => BatchReportComplete
  <2> SUFFICES ASSUME TypeInv, OutcomeInv, BatchInv, NEW b \in Batch, bpc[b] = "reported"
               PROVE  /\ \A c \in BatchCalls(b) : pc[c] = "done"
                      /\ records[b] = {c \in BatchCalls(b) : result[c] # "cancelled"}
                      /\ batchAnswered[b] = Cardinality({c \in BatchCalls(b) :
                                                            result[c] \in {"ended", "dropped"}})
                      /\ batchAnswered[b] + batchFailed[b] = Cardinality(BatchCalls(b))
    BY DEF BatchReportComplete
  <2>1. \A c \in BatchCalls(b) : pc[c] = "done"
    BY DEF BatchInv
  <2>2. /\ Over(b, Recorded) = {c \in BatchCalls(b) : result[c] # "cancelled"}
        /\ Over(b, Talked) = {c \in BatchCalls(b) : result[c] \in {"ended", "dropped"}}
        /\ BatchCalls(b) = Over(b, Talked) \cup Over(b, Fruitless)
        /\ Over(b, Talked) \cap Over(b, Fruitless) = {}
    BY <2>1 DEF Over, BatchCalls, Recorded, Talked, Fruitless, TypeInv, TypeOK, OutcomeInv
  <2>3. IsFiniteSet(Over(b, Talked)) /\ IsFiniteSet(Over(b, Fruitless))
    BY CountedSets DEF Over
  <2>4. Cardinality(BatchCalls(b)) = Cardinality(Over(b, Talked)) + Cardinality(Over(b, Fruitless))
    <3>1. Cardinality(Over(b, Talked)) \in Nat /\ Cardinality(Over(b, Fruitless)) \in Nat
      BY <2>3, FS_CardinalityType
    <3>2. Cardinality(Over(b, Talked) \cup Over(b, Fruitless)) =
            Cardinality(Over(b, Talked)) + Cardinality(Over(b, Fruitless)) - 0
      BY <2>2, <2>3, FS_Union, FS_EmptySet
    <3>3. Cardinality(BatchCalls(b)) = Cardinality(Over(b, Talked) \cup Over(b, Fruitless))
      BY <2>2
    <3> QED BY <3>1, <3>2, <3>3
  <2> QED BY <2>1, <2>2, <2>4 DEF BatchInv
<1> QED BY <1>2, <1>3, TypeInvariant, OutcomeInvariant, PTL
-----------------------------------------------------------------------------
(***************************************************************************)
(* Stop channels and codecs.                                               *)
(***************************************************************************)

\* The current channel is one no Stop has touched: a second Stop never closes
\* a closed channel, and a batch added after a Stop is not cancelled by it.
\* The stronger StopsOrdered is inductive: Stop only ever sets older ones aside.
THEOREM StopChannelAlwaysFresh == Safety => []FreshStopChannel
<1>1. Init => StopsOrdered
  BY DEF Init, StopsOrdered
<1>2. TypeInv /\ StopsOrdered /\ [Next]_vars => StopsOrdered'
  <2> SUFFICES ASSUME TypeInv, StopsOrdered, [Next]_vars
               PROVE  StopsOrdered'
    OBVIOUS
  <2> USE DEF TypeInv, TypeOK, StopsOrdered
  <2>1. CASE StopSwap BY <2>1 DEF StopSwap
  <2>2. ASSUME NEW k \in closing, StopClose(k)
        PROVE  StopsOrdered'
    BY <2>2 DEF StopClose
  <2>3. CASE UNCHANGED <<stopCh, closing, closed>>
    BY <2>3
  <2>4. ASSUME NEW c \in Call, Goroutine(c)
        PROVE  UNCHANGED <<stopCh, closing, closed>>
    BY <2>4
    DEF Goroutine, Prompt, Launch, CancelRamp, CountCancelled, RampElapsed, DialFails,
        CountFailed, DialAnswered, EnterTable, EndOnContext, EndOnStop, EndOnRemote,
        EndOnTimer, EndsCall, HangUp, Account, LeaveTable, Release, Return, stopVars
  <2> QED
    BY <2>1, <2>2, <2>3, <2>4
    DEF Next, ReservePairs, TakeStopChannel, BatchDone, RemoteBye, SendRTP, EndContext,
        stopVars, vars
<1>3. TypeInv /\ StopsOrdered => FreshStopChannel
  BY DEF TypeInv, TypeOK, StopsOrdered, FreshStopChannel
<1> QED BY <1>1, <1>2, <1>3, TypeInvariant, PTL DEF Safety

\* A dialing call's callee answers with that call's codec: another call could
\* only have changed it by holding the same callee.
THEOREM CodecNeverStolen == Safety => []CodecIsOwn
<1>1. Init => CodecIsOwn
  BY DEF Init, CodecIsOwn
<1>2. TypeInv /\ PoolInv /\ CodecIsOwn /\ [Next]_vars => CodecIsOwn'
  <2> SUFFICES ASSUME TypeInv, PoolInv, CodecIsOwn, [Next]_vars
               PROVE  CodecIsOwn'
    OBVIOUS
  <2> USE DEF TypeInv, TypeOK, Label, Moves, CodecIsOwn, callVars
  <2>1. ASSUME NEW b \in Batch, NEW n, ReservePairs(b, n)
        PROVE  CodecIsOwn'
    <3>1. PICK S \in SUBSET {c \in Call : pc[c] = "unused"} :
                 \E from, to : Reserve(b, S, from, to)
      BY <2>1 DEF ReservePairs, kSubset
    <3>2. preferred' = preferred
      BY <2>1 DEF ReservePairs
    <3> QED BY <3>1, <3>2 DEF Reserve
  <2>2. ASSUME NEW c \in Call, RampElapsed(c)
        PROVE  CodecIsOwn'
    <3>1. \A d \in Call : pc[d] = "dialing" => d # c /\ callee[d] # callee[c]
      BY <2>2 DEF RampElapsed, PoolInv, NoDoubleBooking, Holding, Pair
    <3>2. callee[c] \in Phone
      BY <2>2 DEF RampElapsed, HoldersHavePairs, Phone
    <3> QED BY <2>2, <3>1, <3>2 DEF RampElapsed
  <2>3. ASSUME NEW c \in Call, Goroutine(c), ~RampElapsed(c)
        PROVE  CodecIsOwn'
    <3>1. CASE Launch(c) \/ CancelRamp(c) BY <3>1 DEF Launch, CancelRamp
    <3>2. CASE CountCancelled(c) \/ Return(c) BY <3>2 DEF CountCancelled, Return, Leaves
    <3>3. CASE DialFails(c) \/ CountFailed(c) BY <3>3 DEF DialFails, CountFailed
    <3>4. CASE DialAnswered(c) \/ EnterTable(c) BY <3>4 DEF DialAnswered, EnterTable
    <3>5. ASSUME NEW how, EndsCall(c, how) PROVE CodecIsOwn' BY <3>5 DEF EndsCall
    <3>6. CASE HangUp(c) \/ Account(c) \/ LeaveTable(c) \/ Release(c)
      BY <3>6 DEF HangUp, Account, LeaveTable, Release
    <3> QED
      BY <2>3, <3>1, <3>2, <3>3, <3>4, <3>5, <3>6
      DEF Goroutine, Prompt, EndOnContext, EndOnStop, EndOnRemote, EndOnTimer
  <2>4. CASE UNCHANGED <<pc, callee, preferred>>
    BY <2>4
  <2> QED
    BY <2>1, <2>2, <2>3, <2>4
    DEF Next, TakeStopChannel, BatchDone, RemoteBye, SendRTP, StopSwap, StopClose,
        EndContext, vars
<1> QED BY <1>1, <1>2, TypeInvariant, PoolInvariant, PTL DEF Safety
-----------------------------------------------------------------------------
(***************************************************************************)
(* The packets of ended calls.                                             *)
(***************************************************************************)

Accounted == {c \in Call : pc[c] \in {"leaving", "releasing", "returning", "done"}}

PacketsOf(S, f) == UNION {{c} \X (1..f[c]) : c \in S}

\* Only an answered call that has ended has a reading of its packets.
ReadOnceEnded ==
    \A c \in Call : pc[c] \notin {"hanging", "accounting"} /\ c \notin Accounted => stat[c] = 0

PacketInv == ReadOnceEnded /\ EndedTotalMatchesRecords

LEMMA OneMoreCall ==
    ASSUME NEW S \in SUBSET Call, NEW c \in Call, c \notin S, NEW f \in [Call -> Nat]
    PROVE  /\ Cardinality(PacketsOf(S, f)) \in Nat
           /\ Cardinality(PacketsOf(S \cup {c}, f)) = Cardinality(PacketsOf(S, f)) + f[c]
<1> DEFINE Own == {c} \X (1..f[c])
           Sets == {{d} \X (1..f[d]) : d \in S}
<1>0. IsFiniteSet(S)
  BY ConstantsAssumption, FS_Subset
<1>1. ASSUME NEW d \in Call
      PROVE  IsFiniteSet({d} \X (1..f[d])) /\ Cardinality({d} \X (1..f[d])) = f[d]
  <2>1. IsFiniteSet({d}) /\ Cardinality({d}) = 1
    BY FS_Singleton
  <2>2. f[d] \in Nat
    OBVIOUS
  <2>3. IsFiniteSet(1..f[d]) /\ Cardinality(1..f[d]) = f[d]
    BY <2>2, FS_Interval
  <2>4. IsFiniteSet({d} \X (1..f[d])) /\ Cardinality({d} \X (1..f[d])) = 1 * f[d]
    BY <2>1, <2>3, FS_Product
  <2> QED BY <2>2, <2>4
<1>2. IsFiniteSet(PacketsOf(S, f))
  <2>1. IsFiniteSet(Sets)
    <3> DEFINE g == [d \in S |-> {d} \X (1..f[d])]
    <3>1. g \in Surjection(S, Sets)
      BY DEF Surjection
    <3> HIDE DEF g, Sets
    <3> QED BY <1>0, <3>1, FS_Surjection
  <2>2. \A T \in Sets : IsFiniteSet(T)
    BY <1>1
  <2> HIDE DEF Sets
  <2>3. IsFiniteSet(UNION Sets)
    BY <2>1, <2>2, FS_UNION
  <2> QED BY <2>3 DEF Sets, PacketsOf
<1>3. PacketsOf(S \cup {c}, f) = PacketsOf(S, f) \cup Own
  BY DEF PacketsOf
<1>4. PacketsOf(S, f) \cap Own = {}
  BY DEF PacketsOf
<1>5. IsFiniteSet(Own) /\ Cardinality(Own) = f[c] /\ f[c] \in Nat
  BY <1>1
<1>6. Cardinality(PacketsOf(S, f)) \in Nat
  BY <1>2, FS_CardinalityType
<1> HIDE DEF Own
<1>7. Cardinality(PacketsOf(S, f) \cup Own)
        = Cardinality(PacketsOf(S, f)) + Cardinality(Own) - Cardinality(PacketsOf(S, f) \cap Own)
  BY <1>2, <1>5, FS_Union
<1>8. Cardinality(PacketsOf(S, f) \cap Own) = 0
  BY <1>4, FS_EmptySet
<1>9. PICK n \in Nat : n = Cardinality(PacketsOf(S, f))
  BY <1>6
<1>10. Cardinality(PacketsOf(S, f) \cup Own) = n + f[c]
  BY <1>5, <1>7, <1>8, <1>9
<1> QED BY <1>3, <1>9, <1>10

\* Readings that do not matter do not count.
LEMMA SameReadings ==
    ASSUME NEW S, NEW f, NEW g, \A c \in S : f[c] = g[c]
    PROVE  PacketsOf(S, f) = PacketsOf(S, g)
BY DEF PacketsOf

LEMMA NextPacketInv == TypeInv /\ PacketInv /\ [Next]_vars => PacketInv'
<1> SUFFICES ASSUME TypeInv, PacketInv, [Next]_vars
             PROVE  PacketInv'
  OBVIOUS
<1> USE DEF TypeInv, TypeOK, Label, Moves, callVars
<1>0. /\ EndedTotalMatchesRecords <=> sentEnded = Cardinality(PacketsOf(Accounted, stat))
      /\ EndedTotalMatchesRecords' <=> sentEnded' = Cardinality(PacketsOf(Accounted', stat'))
      /\ ReadOnceEnded /\ sentEnded = Cardinality(PacketsOf(Accounted, stat))
  BY DEF PacketInv, EndedTotalMatchesRecords, RecordedPackets, PacketsOf, Accounted
\* A step that accounts no call, and reads none that is accounted.
<1>1. ASSUME Accounted' = Accounted, sentEnded' = sentEnded,
             \A c \in Accounted : stat'[c] = stat[c], ReadOnceEnded'
      PROVE  PacketInv'
  <2>1. PacketsOf(Accounted, stat') = PacketsOf(Accounted, stat)
    BY <1>1, SameReadings
  <2> QED BY <1>0, <1>1, <2>1 DEF PacketInv
\* A step that accounts call c, with what was read of it.
<1>2. ASSUME NEW c \in Call \ Accounted, Accounted' = Accounted \cup {c}, stat' = stat,
             sentEnded' = sentEnded + stat[c], ReadOnceEnded'
      PROVE  PacketInv'
  <2>1. Cardinality(PacketsOf(Accounted \cup {c}, stat)) = Cardinality(PacketsOf(Accounted, stat)) + stat[c]
    <3>1. Accounted \in SUBSET Call /\ c \in Call /\ c \notin Accounted /\ stat \in [Call -> Nat]
      BY DEF Accounted
    <3> QED BY ONLY <3>1, OneMoreCall
  <2> QED BY <1>0, <1>2, <2>1 DEF PacketInv
<1>3. ASSUME NEW b \in Batch, NEW n, ReservePairs(b, n)
      PROVE  PacketInv'
  <2>1. PICK S \in SUBSET {c \in Call : pc[c] = "unused"} :
               pc' = [c \in Call |-> IF c \in S THEN "reserved" ELSE pc[c]]
    BY <1>3 DEF ReservePairs, Reserve, kSubset
  <2>2. stat' = stat /\ sentEnded' = sentEnded
    BY <1>3 DEF ReservePairs, rtpVars
  <2>3. Accounted' = Accounted
    BY <2>1 DEF Accounted
  <2>4. ReadOnceEnded'
    BY <1>0, <2>1, <2>2, <2>3 DEF ReadOnceEnded
  <2> QED BY <1>1, <2>2, <2>3, <2>4
<1>4. ASSUME NEW c \in Call, NEW from, NEW to, Moves(c, from, to), UNCHANGED <<stat, sentEnded>>,
             to \in Label, to \notin {"leaving", "releasing", "returning", "done"},
             from \notin {"leaving", "releasing", "returning", "done"},
             from \in {"hanging", "accounting"} => to \in {"hanging", "accounting"}
      PROVE  PacketInv'
  <2>1. pc[c] = from /\ pc'[c] = to /\ \A d \in Call \ {c} : pc'[d] = pc[d]
    BY <1>4
  <2>2. Accounted' = Accounted
    BY <1>4, <2>1 DEF Accounted
  <2>3. ReadOnceEnded'
    BY <1>0, <1>4, <2>1, <2>2 DEF ReadOnceEnded
  <2> QED BY <1>1, <1>4, <2>2, <2>3
<1>5. ASSUME NEW c \in Call, NEW from, NEW to, Moves(c, from, to), UNCHANGED <<stat, sentEnded>>,
             to \in {"leaving", "releasing", "returning", "done"},
             from \in {"leaving", "releasing", "returning", "done"}
      PROVE  PacketInv'
  <2>1. pc[c] = from /\ pc'[c] = to /\ \A d \in Call \ {c} : pc'[d] = pc[d]
    BY <1>5
  <2>2. Accounted' = Accounted
    BY <1>5, <2>1 DEF Accounted
  <2>3. ReadOnceEnded'
    BY <1>0, <1>5, <2>1, <2>2 DEF ReadOnceEnded, Accounted
  <2> QED BY <1>1, <1>5, <2>2, <2>3
<1>6. ASSUME NEW c \in Call, NEW from, NEW to, Moves(c, from, to), stat' = stat,
             sentEnded' = sentEnded + stat[c],
             to \in {"leaving", "releasing", "done"}, from \notin {"leaving", "releasing", "returning", "done"}
      PROVE  PacketInv'
  <2>1. pc[c] = from /\ pc'[c] = to /\ \A d \in Call \ {c} : pc'[d] = pc[d]
    BY <1>6
  <2>2. c \notin Accounted /\ Accounted' = Accounted \cup {c}
    BY <1>6, <2>1 DEF Accounted
  <2>3. ReadOnceEnded'
    BY <1>0, <1>6, <2>1, <2>2 DEF ReadOnceEnded
  <2> QED BY <1>2, <1>6, <2>2, <2>3
<1>7. ASSUME NEW c \in Call, Goroutine(c)
      PROVE  PacketInv'
  <2> USE DEF rtpVars
  <2>1. CASE Launch(c) BY <1>4, <2>1 DEF Launch
  <2>2. CASE RampElapsed(c) BY <1>4, <2>2 DEF RampElapsed
  <2>3. CASE CancelRamp(c) BY <1>4, <2>3 DEF CancelRamp
  <2>4. CASE DialFails(c) BY <1>4, <2>4 DEF DialFails
  <2>5. CASE DialAnswered(c) BY <1>4, <2>5 DEF DialAnswered
  <2>6. CASE EnterTable(c) BY <1>4, <2>6 DEF EnterTable
  <2>7. CASE HangUp(c) BY <1>4, <2>7 DEF HangUp
  <2>8. CASE LeaveTable(c) BY <1>5, <2>8 DEF LeaveTable
  <2>9. CASE Release(c) BY <1>5, <2>9 DEF Release
  <2>10. CASE Return(c) BY <1>5, <2>10 DEF Return
  <2>11. CASE Account(c)
    BY <1>6, <2>11 DEF Account
  <2>12. CASE CountCancelled(c) \/ CountFailed(c)
    <3>1. stat[c] = 0 /\ sentEnded + stat[c] = sentEnded
      BY <1>0, <2>12 DEF ReadOnceEnded, Accounted, CountCancelled, CountFailed
    <3> QED BY <1>6, <2>12, <3>1 DEF CountCancelled, CountFailed
  <2>13. ASSUME NEW how, EndsCall(c, how) PROVE PacketInv'
    <3>1. /\ pc[c] = "talking" /\ pc' = [pc EXCEPT ![c] = "hanging"]
          /\ stat' = [stat EXCEPT ![c] = sent[c]] /\ sentEnded' = sentEnded
      BY <2>13 DEF EndsCall
    <3>2. pc'[c] = "hanging" /\ \A d \in Call \ {c} : pc'[d] = pc[d] /\ stat'[d] = stat[d]
      BY <3>1
    <3>3. c \notin Accounted /\ Accounted' = Accounted
      BY <3>1, <3>2 DEF Accounted
    <3>4. \A d \in Accounted : stat'[d] = stat[d]
      BY <3>2, <3>3 DEF Accounted
    <3>5. ReadOnceEnded'
      BY <1>0, <3>2, <3>3 DEF ReadOnceEnded
    <3> QED BY <1>1, <3>1, <3>3, <3>4, <3>5
  <2> QED
    BY <1>7, <2>1, <2>2, <2>3, <2>4, <2>5, <2>6, <2>7, <2>8, <2>9, <2>10, <2>11, <2>12, <2>13
    DEF Goroutine, Prompt, EndOnContext, EndOnStop, EndOnRemote, EndOnTimer
<1>8. CASE UNCHANGED <<pc, stat, sentEnded>>
  <2>1. Accounted' = Accounted
    BY <1>8 DEF Accounted
  <2>2. ReadOnceEnded'
    BY <1>0, <1>8, <2>1 DEF ReadOnceEnded
  <2> QED BY <1>1, <1>8, <2>1, <2>2
<1> QED
  BY <1>3, <1>7, <1>8
  DEF Next, TakeStopChannel, BatchDone, RemoteBye, SendRTP, StopSwap, StopClose, EndContext, vars, rtpVars

\* The session's ended total is what the records of the calls that ended say, packet
\* for packet, while others send and end (session.go:642-646).
THEOREM TotalIsTheRecords == Safety => []EndedTotalMatchesRecords
<1>1. Init => PacketInv
  <2> SUFFICES ASSUME Init PROVE PacketInv
    OBVIOUS
  <2>1. ReadOnceEnded /\ Accounted = {} /\ sentEnded = 0
    BY DEF Init, ReadOnceEnded, Accounted
  <2>2. RecordedPackets = {}
    BY <2>1 DEF RecordedPackets, Accounted
  <2> QED BY <2>1, <2>2, FS_EmptySet DEF PacketInv, EndedTotalMatchesRecords
<1> QED BY <1>1, NextPacketInv, TypeInvariant, PTL DEF Safety, PacketInv
=============================================================================
