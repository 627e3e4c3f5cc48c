------------------------------- MODULE Session -------------------------------
(***************************************************************************)
(* A Session of internal/orchestrator/session.go: a pool of registered     *)
(* extensions on which batches of calls are added while others run, are    *)
(* cut short by Stop or by the remote side, and end.                       *)
(*                                                                         *)
(* Every call is a goroutine (AddCallsWithCallee's closure and runCall).   *)
(* pc[c] names what it does next; a step ends where the goroutine touches  *)
(* state another one reads.  Every AddCalls is a batch, with its caller    *)
(* (reserve, take the stop channel, launch) and its waiter (BatchDone).    *)
(* Stop channels are numbered in the order Stop makes them.                *)
(***************************************************************************)
EXTENDS Naturals, FiniteSets, FiniteSetsExt

CONSTANTS
    Call,           \* goroutines placing one call each
    Batch,          \* invocations of AddCalls
    Caller,         \* AORs of callerPool
    Callee,         \* AORs of calleePool; the same set for a local session
    NoPhone,        \* no extension
    NoBatch,        \* no batch
    NoCall,         \* no call
    MaxStops,       \* bound: invocations of Stop
    MaxPackets      \* bound: RTP packets one call sends

ASSUME ConstantsAssumption ==
    /\ IsFiniteSet(Call)
    /\ Caller = Callee \/ Caller \cap Callee = {}
    /\ NoPhone \notin Caller \cup Callee
    /\ NoBatch \notin Batch
    /\ NoCall \notin Call
    /\ MaxStops \in Nat
    /\ MaxPackets \in Nat

VARIABLES
    available,      \* the AORs of either pool marked available
    pc,             \* what each call does next
    batch,          \* the batch each call belongs to
    caller, callee, \* the pair each call was given
    result,         \* how each call came out, as its CallRecord will say
    bpc,            \* where each AddCalls and its waiter are
    stopOf,         \* the stop channel each batch took
    records,        \* each batch's records: the calls that returned one
    batchAnswered, batchFailed,   \* each batch's counts
    stopCh,         \* number of the session's current stop channel
    closing,        \* channels a Stop has replaced but not yet closed
    closed,         \* closed stop channels
    ctxDone,        \* the session's context has ended
    calls,          \* s.calls: the active calls a snapshot shows
    hungUp,         \* calls whose RemoteHangup channel is closed
    preferred,      \* whose codec each extension answers its next call with
    started, answered, failed, cancelled,   \* the session's totals
    failures, drops,                        \* Health's Failures and Dropped
    sent,           \* RTP packets sent so far by each call
    stat,           \* what the call's own RTP.Stats() read before hanging up
    sentEnded       \* totalRTPSentEnded

callVars == <<pc, batch, caller, callee, result>>
tally == <<batchAnswered, batchFailed>>
batchVars == <<bpc, stopOf, records, tally>>
stopVars == <<stopCh, closing, closed, ctxDone>>
counters == <<started, answered, failed, cancelled, failures, drops>>
rtpVars == <<sent, stat, sentEnded>>
vars == <<available, callVars, batchVars, stopVars, calls, hungUp, preferred,
          counters, rtpVars>>
-----------------------------------------------------------------------------
Phone == Caller \cup Callee

Label == {"unused", "reserved", "ramping", "cancelling", "dialing", "failing",
          "answered", "talking", "hanging", "accounting", "leaving",
          "releasing", "returning", "done"}

\* A call holds its pair from reservePairs to release.
Holding == {c \in Call : pc[c] \notin {"unused", "cancelling", "returning", "done"}}

Pair(c) == {caller[c], callee[c]}

BatchCalls(b) == {c \in Call : batch[c] = b}

\* RTP runs from Dial's return until Hangup or the remote BYE stops it.
RTPRunning(c) == /\ pc[c] \in {"answered", "talking", "hanging"}
                 /\ c \notin hungUp

\* Mutant: the goroutine reads s.stopCh instead of its batch's snapshot.
Stopped_ReadsCurrent(c) == stopCh \in closed

\* A receive on the batch's stop channel would not block.
Stopped(c) == stopOf[batch[c]] \in closed

Moves(c, from, to) == /\ pc[c] = from
                      /\ pc' = [pc EXCEPT ![c] = to]
-----------------------------------------------------------------------------
\* newPool and NewSession: every extension is free, nothing has happened yet.
Init ==
    /\ available = Phone
    /\ pc = [c \in Call |-> "unused"]
    /\ batch = [c \in Call |-> NoBatch]
    /\ caller = [c \in Call |-> NoPhone]
    /\ callee = [c \in Call |-> NoPhone]
    /\ result = [c \in Call |-> "none"]
    /\ bpc = [b \in Batch |-> "idle"]
    /\ stopOf = [b \in Batch |-> 0]
    /\ records = [b \in Batch |-> {}]
    /\ batchAnswered = [b \in Batch |-> 0]
    /\ batchFailed = [b \in Batch |-> 0]
    /\ stopCh = 0 /\ closing = {} /\ closed = {} /\ ctxDone = FALSE
    /\ calls = {} /\ hungUp = {}
    /\ preferred = [p \in Phone |-> NoCall]
    /\ started = 0 /\ answered = 0 /\ failed = 0 /\ cancelled = 0
    /\ failures = 0 /\ drops = 0
    /\ sent = [c \in Call |-> 0]
    /\ stat = [c \in Call |-> 0]
    /\ sentEnded = 0
-----------------------------------------------------------------------------
(* AddCalls.                                                               *)

\* How many pairs reservePairs can form: a local session takes both sides
\* from one list.
MaxPairs == LET freeCallers == Cardinality(Caller \cap available)
                freeCallees == Cardinality(Callee \cap available)
            IN  IF Caller = Callee
                THEN freeCallers \div 2
                ELSE Min({freeCallers, freeCallees})

\* Mutant: each side is drawn from its own copy of the free list.
Disjoint_PerSide(S, from, to) ==
    \A c, d \in S : c # d => from[c] # from[d] /\ to[c] # to[d]

\* No extension appears twice among the pairs.
Disjoint(S, from, to) ==
    /\ \A c \in S : from[c] # to[c]
    /\ \A c, d \in S : c # d => {from[c], to[c]} \cap {from[d], to[d]} = {}

\* Mutant: only the callers are marked unavailable.
Reserve_CallersOnly(b, S, from, to) ==
    /\ available' = available \ {from[c] : c \in S}
    /\ pc' = [c \in Call |-> IF c \in S THEN "reserved" ELSE pc[c]]
    /\ batch' = [c \in Call |-> IF c \in S THEN b ELSE batch[c]]
    /\ caller' = [c \in Call |-> IF c \in S THEN from[c] ELSE caller[c]]
    /\ callee' = [c \in Call |-> IF c \in S THEN to[c] ELSE callee[c]]

\* The pairs are marked unavailable and handed to the batch's goroutines.
Reserve(b, S, from, to) ==
    /\ available' = {p \in available : \A c \in S : p \notin {from[c], to[c]}}
    /\ pc' = [c \in Call |-> IF c \in S THEN "reserved" ELSE pc[c]]
    /\ batch' = [c \in Call |-> IF c \in S THEN b ELSE batch[c]]
    /\ caller' = [c \in Call |-> IF c \in S THEN from[c] ELSE caller[c]]
    /\ callee' = [c \in Call |-> IF c \in S THEN to[c] ELSE callee[c]]

\* reservePairs under mu: as many of the n pairs asked for as the free lists
\* give, in the maps' arbitrary order.  With none, AddCalls returns 0.
ReservePairs(b, n) ==
    /\ bpc[b] = "idle"
    /\ MaxPairs > 0
    /\ \E S \in kSubset(Min({n, MaxPairs}), {c \in Call : pc[c] = "unused"}) :
         \E from \in [S -> Caller \cap available],
            to \in [S -> Callee \cap available] :
           Disjoint(S, from, to) /\ Reserve(b, S, from, to)
    /\ bpc' = [bpc EXCEPT ![b] = "reserved"]
    /\ UNCHANGED <<result, stopOf, records, tally, stopVars, calls, hungUp,
                   preferred, counters, rtpVars>>

\* The second critical section of AddCalls: which Stop will end this batch.
TakeStopChannel(b) ==
    /\ bpc[b] = "reserved"
    /\ bpc' = [bpc EXCEPT ![b] = "launching"]
    /\ stopOf' = [stopOf EXCEPT ![b] = stopCh]
    /\ UNCHANGED <<available, callVars, records, tally, stopVars, calls, hungUp,
                   preferred, counters, rtpVars>>

\* One turn of AddCalls' loop: count the call and start its goroutine.
Launch(c) ==
    /\ Moves(c, "reserved", "ramping")
    /\ bpc[batch[c]] = "launching"
    /\ started' = started + 1
    /\ UNCHANGED <<available, batch, caller, callee, result, batchVars, stopVars,
                   calls, hungUp, preferred, answered, failed, cancelled,
                   failures, drops, rtpVars>>

\* Mutant: wg.Done before the record is appended.
BatchDone_BeforeRecords(b) ==
    /\ bpc[b] = "launching"
    /\ \A c \in BatchCalls(b) : pc[c] \in {"returning", "done"}
    /\ bpc' = [bpc EXCEPT ![b] = "reported"]
    /\ UNCHANGED <<available, callVars, stopOf, records, tally, stopVars, calls,
                   hungUp, preferred, counters, rtpVars>>

\* wg.Wait returned: every goroutine of the batch is done, onBatchDone runs.
BatchDone(b) ==
    /\ bpc[b] = "launching"
    /\ \A c \in BatchCalls(b) : pc[c] = "done"
    /\ bpc' = [bpc EXCEPT ![b] = "reported"]
    /\ UNCHANGED <<available, callVars, stopOf, records, tally, stopVars, calls,
                   hungUp, preferred, counters, rtpVars>>
-----------------------------------------------------------------------------
(* The ramp wait of a call's goroutine; a select takes any ready case.     *)

\* Mutant: giving up before dialing forgets to release the pair.
CancelRamp_KeepsPair(c) ==
    /\ Moves(c, "ramping", "cancelling")
    /\ ctxDone \/ Stopped(c)
    /\ result' = [result EXCEPT ![c] = "cancelled"]
    /\ UNCHANGED <<available, batch, caller, callee, batchVars, stopVars, calls,
                   hungUp, preferred, counters, rtpVars>>

\* release on either branch that gives up before dialing.
CancelRamp(c) ==
    /\ Moves(c, "ramping", "cancelling")
    /\ ctxDone \/ Stopped(c)
    /\ available' = available \cup Pair(c)
    /\ result' = [result EXCEPT ![c] = "cancelled"]
    /\ UNCHANGED <<batch, caller, callee, batchVars, stopVars, calls, hungUp,
                   preferred, counters, rtpVars>>

\* The goroutine counts itself in its batch and leaves: its locals are gone.
Leaves(c) ==
    /\ IF result[c] \in {"cancelled", "failed"}
       THEN /\ batchFailed' = [batchFailed EXCEPT ![batch[c]] = @ + 1]
            /\ UNCHANGED batchAnswered
       ELSE /\ batchAnswered' = [batchAnswered EXCEPT ![batch[c]] = @ + 1]
            /\ UNCHANGED batchFailed
    /\ caller' = [caller EXCEPT ![c] = NoPhone]
    /\ callee' = [callee EXCEPT ![c] = NoPhone]

\* Mutant: a call that never dialed is in no counter.
CountCancelled_Uncounted(c) ==
    /\ Moves(c, "cancelling", "done")
    /\ Leaves(c)
    /\ UNCHANGED <<available, batch, result, bpc, stopOf, records, stopVars, calls,
                   hungUp, preferred, counters, rtpVars>>

CountCancelled(c) ==
    /\ Moves(c, "cancelling", "done")
    /\ cancelled' = cancelled + 1
    /\ Leaves(c)
    /\ UNCHANGED <<available, batch, result, bpc, stopOf, records, stopVars, calls,
                   hungUp, preferred, started, answered, failed, failures, drops,
                   rtpVars>>

\* Mutant: the codec is set on the wrong side.
RampElapsed_CallersCodec(c) ==
    /\ Moves(c, "ramping", "dialing")
    /\ preferred' = [preferred EXCEPT ![caller[c]] = c]
    /\ UNCHANGED <<available, batch, caller, callee, result, batchVars, stopVars,
                   calls, hungUp, counters, rtpVars>>

\* The ramp timer fired; runCall sets the callee's codec and dials.
RampElapsed(c) ==
    /\ Moves(c, "ramping", "dialing")
    /\ preferred' = [preferred EXCEPT ![callee[c]] = c]
    /\ UNCHANGED <<available, batch, caller, callee, result, batchVars, stopVars,
                   calls, hungUp, counters, rtpVars>>
-----------------------------------------------------------------------------
(* runCall: Dial returns within dialTimeout, one way or the other.         *)

DialFails(c) ==
    /\ Moves(c, "dialing", "failing")
    /\ result' = [result EXCEPT ![c] = "failed"]
    /\ failures' = failures + 1
    /\ UNCHANGED <<available, batch, caller, callee, batchVars, stopVars, calls,
                   hungUp, preferred, started, answered, failed, cancelled, drops,
                   rtpVars>>

CountFailed(c) ==
    /\ Moves(c, "failing", "releasing")
    /\ failed' = failed + 1
    /\ UNCHANGED <<available, batch, caller, callee, result, batchVars, stopVars,
                   calls, hungUp, preferred, started, answered, cancelled, failures,
                   drops, rtpVars>>

DialAnswered(c) ==
    /\ Moves(c, "dialing", "answered")
    /\ answered' = answered + 1
    /\ UNCHANGED <<available, batch, caller, callee, result, batchVars, stopVars,
                   calls, hungUp, preferred, started, failed, cancelled, failures,
                   drops, rtpVars>>

EnterTable(c) ==
    /\ Moves(c, "answered", "talking")
    /\ calls' = calls \cup {c}
    /\ UNCHANGED <<available, batch, caller, callee, result, batchVars, stopVars,
                   hungUp, preferred, counters, rtpVars>>

\* The select of an answered call took a case; RTP.Stats() is read.
EndsCall(c, how) ==
    /\ Moves(c, "talking", "hanging")
    /\ result' = [result EXCEPT ![c] = how]
    /\ stat' = [stat EXCEPT ![c] = sent[c]]
    /\ UNCHANGED <<available, batch, caller, callee, batchVars, stopVars, calls,
                   hungUp, preferred, counters, sent, sentEnded>>

\* Mutant: no time.After(callDuration) case in the select.
EndOnTimer_Missing(c) == EndsCall(c, "ended") /\ ctxDone

EndOnContext(c) == EndsCall(c, "ended") /\ ctxDone
EndOnStop(c) == EndsCall(c, "ended") /\ Stopped(c)
EndOnTimer(c) == EndsCall(c, "ended")
EndOnRemote(c) == EndsCall(c, "dropped") /\ c \in hungUp

\* Hangup stops the RTP and sends the BYE; a dropped call has none to send.
HangUp(c) ==
    /\ Moves(c, "hanging", "accounting")
    /\ UNCHANGED <<available, batch, caller, callee, result, batchVars, stopVars,
                   calls, hungUp, preferred, counters, rtpVars>>

\* Mutant: any BYE that came counts as a drop, not only one the select took.
Account_AnyByeDrops(c) ==
    /\ Moves(c, "accounting", "leaving")
    /\ drops' = IF c \in hungUp THEN drops + 1 ELSE drops
    /\ sentEnded' = sentEnded + stat[c]
    /\ UNCHANGED <<available, batch, caller, callee, result, batchVars, stopVars,
                   calls, hungUp, preferred, started, answered, failed, cancelled,
                   failures, sent, stat>>

\* Mutant: the total takes the live counter instead of what was read.
Account_LiveCount(c) ==
    /\ Moves(c, "accounting", "leaving")
    /\ drops' = IF result[c] = "dropped" THEN drops + 1 ELSE drops
    /\ sentEnded' = sentEnded + sent[c]
    /\ UNCHANGED <<available, batch, caller, callee, result, batchVars, stopVars,
                   calls, hungUp, preferred, started, answered, failed, cancelled,
                   failures, sent, stat>>

\* Health and the ended totals, before the call leaves the table.
Account(c) ==
    /\ Moves(c, "accounting", "leaving")
    /\ drops' = IF result[c] = "dropped" THEN drops + 1 ELSE drops
    /\ sentEnded' = sentEnded + stat[c]
    /\ UNCHANGED <<available, batch, caller, callee, result, batchVars, stopVars,
                   calls, hungUp, preferred, started, answered, failed, cancelled,
                   failures, sent, stat>>

\* Mutant: the call is still listed when its pair is released.
LeaveTable_StillListed(c) ==
    /\ Moves(c, "leaving", "releasing")
    /\ UNCHANGED <<available, batch, caller, callee, result, batchVars, stopVars,
                   calls, hungUp, preferred, counters, rtpVars>>

LeaveTable(c) ==
    /\ Moves(c, "leaving", "releasing")
    /\ calls' = calls \ {c}
    /\ UNCHANGED <<available, batch, caller, callee, result, batchVars, stopVars,
                   hungUp, preferred, counters, rtpVars>>

Release(c) ==
    /\ Moves(c, "releasing", "returning")
    /\ available' = available \cup Pair(c)
    /\ UNCHANGED <<batch, caller, callee, result, batchVars, stopVars, calls,
                   hungUp, preferred, counters, rtpVars>>

\* runCall returned: append its record, count it, wg.Done.
Return(c) ==
    /\ Moves(c, "returning", "done")
    /\ records' = [records EXCEPT ![batch[c]] = @ \cup {c}]
    /\ Leaves(c)
    /\ UNCHANGED <<available, batch, result, bpc, stopOf, stopVars, calls, hungUp,
                   preferred, counters, rtpVars>>
-----------------------------------------------------------------------------
(* The rest of the world.                                                  *)

\* Stop swaps the channel under mu, and closes the old one after.
StopSwap ==
    /\ stopCh < MaxStops
    /\ stopCh' = stopCh + 1
    /\ closing' = closing \cup {stopCh}
    /\ UNCHANGED <<available, callVars, batchVars, closed, ctxDone, calls, hungUp,
                   preferred, counters, rtpVars>>

StopClose(k) ==
    /\ k \in closing
    /\ closing' = closing \ {k}
    /\ closed' = closed \cup {k}
    /\ UNCHANGED <<available, callVars, batchVars, stopCh, ctxDone, calls, hungUp,
                   preferred, counters, rtpVars>>

EndContext ==
    /\ ~ctxDone
    /\ ctxDone' = TRUE
    /\ UNCHANGED <<available, callVars, batchVars, stopCh, closing, closed, calls,
                   hungUp, preferred, counters, rtpVars>>

\* PBXware ends the call: OnBye stops the RTP and closes RemoteHangup.
RemoteBye(c) ==
    /\ RTPRunning(c)
    /\ hungUp' = hungUp \cup {c}
    /\ UNCHANGED <<available, callVars, batchVars, stopVars, calls, preferred,
                   counters, rtpVars>>

SendRTP(c) ==
    /\ RTPRunning(c)
    /\ sent[c] < MaxPackets
    /\ sent' = [sent EXCEPT ![c] = @ + 1]
    /\ UNCHANGED <<available, callVars, batchVars, stopVars, calls, hungUp,
                   preferred, counters, stat, sentEnded>>
-----------------------------------------------------------------------------
\* The steps of a call's goroutine that wait for no timer to run out.
Prompt(c) ==
    \/ Launch(c) \/ CancelRamp(c) \/ CountCancelled(c)
    \/ DialFails(c) \/ CountFailed(c) \/ DialAnswered(c) \/ EnterTable(c)
    \/ EndOnContext(c) \/ EndOnStop(c) \/ EndOnRemote(c)
    \/ HangUp(c) \/ Account(c) \/ LeaveTable(c) \/ Release(c) \/ Return(c)

Goroutine(c) == Prompt(c) \/ RampElapsed(c) \/ EndOnTimer(c)

Next ==
    \/ \E b \in Batch : \/ \E n \in 1..Cardinality(Call) : ReservePairs(b, n)
                        \/ TakeStopChannel(b) \/ BatchDone(b)
    \/ \E c \in Call : Goroutine(c) \/ RemoteBye(c) \/ SendRTP(c)
    \/ StopSwap \/ \E k \in closing : StopClose(k)
    \/ EndContext

Safety == Init /\ [][Next]_vars

\* Once called, AddCalls and Stop run to their end and the waiter wakes up.
CallersProceed ==
    /\ \A b \in Batch : WF_vars(TakeStopChannel(b)) /\ WF_vars(BatchDone(b))
    /\ \A k \in 0..MaxStops : WF_vars(StopClose(k))

\* Goroutines run.  Of the timers nothing is assumed: a ramp may be so slow, or
\* a call so long, that only Stop, the context or the other side ends it.
Spec == Safety /\ CallersProceed /\ \A c \in Call : WF_vars(Prompt(c))

\* The ramp's delay and the call's duration run out.
TimersFire == \A c \in Call : WF_vars(RampElapsed(c) \/ EndOnTimer(c))
-----------------------------------------------------------------------------
TypeOK ==
    /\ available \subseteq Phone
    /\ pc \in [Call -> Label]
    /\ batch \in [Call -> Batch \cup {NoBatch}]
    /\ caller \in [Call -> Caller \cup {NoPhone}]
    /\ callee \in [Call -> Callee \cup {NoPhone}]
    /\ result \in [Call -> {"none", "cancelled", "failed", "ended", "dropped"}]
    /\ bpc \in [Batch -> {"idle", "reserved", "launching", "reported"}]
    /\ stopOf \in [Batch -> Nat]
    /\ records \in [Batch -> SUBSET Call]
    /\ batchAnswered \in [Batch -> Nat] /\ batchFailed \in [Batch -> Nat]
    /\ stopCh \in Nat /\ closing \subseteq Nat /\ closed \subseteq Nat
    /\ ctxDone \in BOOLEAN
    /\ calls \subseteq Call /\ hungUp \subseteq Call
    /\ preferred \in [Phone -> Call \cup {NoCall}]
    /\ started \in Nat /\ answered \in Nat /\ failed \in Nat /\ cancelled \in Nat
    /\ failures \in Nat /\ drops \in Nat
    /\ sent \in [Call -> Nat] /\ stat \in [Call -> Nat] /\ sentEnded \in Nat

\* A call that is under way has a pair and a batch.
HoldersHavePairs ==
    \A c \in Call : pc[c] \notin {"unused", "done"} =>
        /\ caller[c] \in Caller
        /\ callee[c] \in Callee
        /\ batch[c] \in Batch

(***************************************************************************)
(* Safety.                                                                 *)
(***************************************************************************)

\* No extension is on two calls, nor on both ends of one: what reservePairs
\* promises to concurrent AddCalls (session.go:484-488).
NoDoubleBooking ==
    /\ \A c \in Holding : caller[c] # callee[c]
    /\ \A c, d \in Holding : c # d => Pair(c) \cap Pair(d) = {}

\* An extension is available exactly when no call holds it: none leaks out of
\* the pool on an error path, none is handed back early or twice.
AvailableIffUnheld == available = {p \in Phone : \A c \in Holding : p \notin Pair(c)}

\* Every call a snapshot lists still holds its pair: runCall leaves the table
\* before it releases, so a listed pair is never free for another call.
ListedCallsHoldTheirPair ==
    /\ calls = {c \in Call : pc[c] \in {"talking", "hanging", "accounting", "leaving"}}
    /\ \A c \in calls : Pair(c) \cap available = {}

\* The pool and the table, as AddCalls of two requests, calls that end and snapshots
\* all see them (session.go:484-488, 642-646).
PairsAreHeld == NoDoubleBooking /\ AvailableIffUnheld /\ ListedCallsHoldTheirPair

\* Dialing calls answer with their own codec: "the pool reserved it for this
\* call only" (session.go:581-583).
CodecIsOwn == \A c \in Call : pc[c] = "dialing" => preferred[callee[c]] = c

\* Channels a Stop has touched are older than the current one.
StopsOrdered == \A k \in closing \cup closed : k < stopCh

\* Calls counted as started whose fate no counter tells yet.
Undecided == {c \in Call : pc[c] \in {"ramping", "cancelling", "dialing", "failing"}}

\* Every started call is undecided or in exactly one of answered, failed and
\* cancelled, at every step: what a test run's ramp reads to see its batch
\* dispatched.
CountersAddUp == started = answered + failed + cancelled + Cardinality(Undecided)

\* Health and the totals speak of the same calls: failures lead failed by the
\* calls between the two updates, and drops are the accounted dropped calls.
HealthAgrees ==
    /\ failures = failed + Cardinality({c \in Call : pc[c] = "failing"})
    /\ drops = Cardinality({c \in Call : /\ result[c] = "dropped"
                                         /\ pc[c] \in {"leaving", "releasing",
                                                       "returning", "done"}})

\* What the dashboard shows of a session adds up, at every step of every call.
CountsAgree == CountersAddUp /\ HealthAgrees

\* The packets the accounted calls' records tell of, one by one.
RecordedPackets ==
    UNION {{c} \X (1..stat[c]) :
              c \in {d \in Call : pc[d] \in {"leaving", "releasing", "returning", "done"}}}

\* The ended total is what the records of the accounted calls say, packet for
\* packet (session.go:642-646).
EndedTotalMatchesRecords == sentEnded = Cardinality(RecordedPackets)

\* onBatchDone sees everything: all goroutines over, one record for each call
\* that dialed and none for a cancelled one (session.go:402-405), and tallies
\* that cover the batch.
BatchReportComplete ==
    \A b \in Batch : bpc[b] = "reported" =>
        /\ \A c \in BatchCalls(b) : pc[c] = "done"
        /\ records[b] = {c \in BatchCalls(b) : result[c] # "cancelled"}
        /\ batchAnswered[b] = Cardinality({c \in BatchCalls(b) :
                                              result[c] \in {"ended", "dropped"}})
        /\ batchAnswered[b] + batchFailed[b] = Cardinality(BatchCalls(b))

\* A Stop cancels nothing that is added after it, and closes no channel twice
\* (session.go:717-719): the current channel is one no Stop has touched.
FreshStopChannel == stopCh \notin closing \cup closed

(***************************************************************************)
(* Liveness.                                                               *)
(***************************************************************************)

\* Stop suffices: with no timer ever firing, a batch whose channel a Stop has
\* swapped out runs to its report, whatever its calls were doing
\* (session.go:713-717).
StopEndsBatch ==
    \A b \in Batch : (bpc[b] = "launching" /\ stopOf[b] # stopCh)
                        ~> bpc[b] = "reported"

\* The pool as promised: what a call holds.
Pool == INSTANCE ExtensionPool WITH
            held <- [c \in Call |-> IF c \in Holding THEN Pair(c) ELSE {}]
PoolSafety == Pool!Safety

\* Where timers fire, every reserved pair comes back to the pool, on whichever
\* path its call ends: the fairness the pool's users count on.
PoolReturns == TimersFire => Pool!Returns
=============================================================================
