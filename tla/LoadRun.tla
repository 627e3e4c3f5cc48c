------------------------------ MODULE LoadRun ------------------------------
(***************************************************************************)
(* A one-shot load run (orchestrator.Run, used by cmd/loadtest): register  *)
(* every extension, pair them, call within each pair from a goroutine of   *)
(* its own, hold, hang up.  A page may read the RunState at any time; the  *)
(* context may end at any time.                                            *)
(***************************************************************************)
EXTENDS Naturals

CONSTANTS
    Endpoints       \* how many extensions

ASSUME LoadAssumption == Endpoints \in Nat

VARIABLES
    phase,          \* RunState.phase
    ctxDone,        \* the context has ended
    registered,     \* an extension's registration: "waiting", "ok", "failed"
    status,         \* RunState.pairs[i].Status, "none" before initPair
    goroutine,      \* where a pair's goroutine is
    sending,          \* pairs whose call sends RTP
    result,         \* results[i]: "none", "answered" or "error"
    phones,         \* "none", "open", "closed", or "leaked": open for ever
    returned        \* "no", "result" or "error"

loadVars == <<phase, ctxDone, registered, status, goroutine, sending, result, phones, returned>>
-----------------------------------------------------------------------------
Extension == 1..Endpoints

\* Mutants, here and below: an odd extension is paired too; a cancelled pair's
\* result is left out; a hold that the context ends does not hang up.
makePairs_Odd == [i \in 1..((Endpoints + 1) \div 2) |-> <<2 * i - 1, IF 2 * i > Endpoints THEN 1 ELSE 2 * i>>]

\* 0 with 1, 2 with 3 and so on, counted from 1 here; an odd one is left out.
makePairs == [i \in 1..(Endpoints \div 2) |-> <<2 * i - 1, 2 * i>>]

\* NewRunState makes room for these; Run's own pairs are as many.
Pair == 1..(Endpoints \div 2)

LoadInit ==
    /\ phase = "setting_up" /\ ctxDone = FALSE
    /\ registered = [p \in Extension |-> "waiting"]
    /\ status = [i \in Pair |-> "none"] /\ goroutine = [i \in Pair |-> "none"]
    /\ sending = {} /\ result = [i \in Pair |-> "none"]
    /\ phones = "none" /\ returned = "no"

\* NewPhone for each; an error returns before the deferred Close, which the
\* phones opened so far would need.
SetUp ==
    /\ phase = "setting_up" /\ returned = "no"
    /\ \/ phones' = "open" /\ phase' = "registering" /\ UNCHANGED returned
       \/ returned' = "error" /\ phones' \in {"none", "leaked"} /\ UNCHANGED phase
    /\ UNCHANGED <<ctxDone, registered, status, goroutine, sending, result>>

CtxEnds ==
    /\ ~ctxDone /\ returned = "no" /\ ctxDone' = TRUE
    /\ UNCHANGED <<phase, registered, status, goroutine, sending, result, phones, returned>>

\* Each in its own goroutine, after its share of the stagger; an answer may
\* still come as the context ends.
RegisterOne(p) ==
    /\ phase = "registering" /\ registered[p] = "waiting"
    /\ \E how \in {"ok", "failed"} : registered' = [registered EXCEPT ![p] = how]
    /\ UNCHANGED <<phase, ctxDone, status, goroutine, sending, result, phones, returned>>

\* registerAll waits for all; one failure ends the run, in this phase.
AllRegistered ==
    /\ phase = "registering" /\ returned = "no"
    /\ \A p \in Extension : registered[p] # "waiting"
    /\ IF \E p \in Extension : registered[p] = "failed"
       THEN /\ returned' = "error" /\ phones' = "closed"
            /\ UNCHANGED <<phase, status, goroutine>>
       ELSE /\ status' = [i \in Pair |-> "pending"] /\ goroutine' = [i \in Pair |-> "ramp"]
            /\ phase' = "calling" /\ UNCHANGED <<phones, returned>>
    /\ UNCHANGED <<ctxDone, registered, sending, result>>

RunKept == UNCHANGED <<phase, ctxDone, registered, phones, returned>>

\* Mutant: a goroutine that the context ends does not say so.
Leaves_Silent(i) == goroutine' = [goroutine EXCEPT ![i] = IF ctxDone THEN "gone" ELSE "done"]

\* wg.Done is deferred.
Leaves(i) == goroutine' = [goroutine EXCEPT ![i] = "done"]

RampOver(i) ==
    /\ goroutine[i] = "ramp"
    /\ goroutine' = [goroutine EXCEPT ![i] = "dial"] /\ status' = [status EXCEPT ![i] = "dialing"]
    /\ UNCHANGED <<sending, result>> /\ RunKept

CancelledResult_None(i) == UNCHANGED result

CancelledResult(i) == result' = [result EXCEPT ![i] = "error"]

RampCancelled(i) ==
    /\ goroutine[i] = "ramp" /\ ctxDone
    /\ Leaves(i) /\ status' = [status EXCEPT ![i] = "failed"]
    /\ CancelledResult(i)
    /\ UNCHANGED sending /\ RunKept

\* Dial returns in DialTimeout; it may still succeed as the context ends.
DialReturns(i) ==
    /\ goroutine[i] = "dial"
    /\ \/ /\ sending' = sending \cup {i} /\ status' = [status EXCEPT ![i] = "answered"]
          /\ goroutine' = [goroutine EXCEPT ![i] = "hold"] /\ UNCHANGED result
       \/ /\ status' = [status EXCEPT ![i] = "failed"] /\ result' = [result EXCEPT ![i] = "error"]
          /\ Leaves(i) /\ UNCHANGED sending
    /\ RunKept

\* PBXware ends the call: the phone stops its media, the hold goes on.
RemoteBye(i) ==
    /\ goroutine[i] = "hold" /\ i \in sending /\ sending' = sending \ {i}
    /\ UNCHANGED <<status, goroutine, result>> /\ RunKept

HangsUp_UnlessDone(i) == sending' = IF ctxDone THEN sending ELSE sending \ {i}

\* "Hang up even if ctx was already canceled".
HangsUp(i) == sending' = sending \ {i}

\* The deadline or the context ends the hold; Hangup may take ten seconds and
\* fail, but has stopped the media by then.
HoldOver(i) ==
    /\ goroutine[i] = "hold"
    /\ HangsUp(i) /\ goroutine' = [goroutine EXCEPT ![i] = "hung up"]
    /\ UNCHANGED <<status, result>> /\ RunKept

PairEnds(i) ==
    /\ goroutine[i] = "hung up"
    /\ status' = [status EXCEPT ![i] = "ended"] /\ result' = [result EXCEPT ![i] = "answered"]
    /\ Leaves(i)
    /\ UNCHANGED sending /\ RunKept

AllDone ==
    /\ phase = "calling" /\ \A i \in Pair : goroutine[i] = "done"
    /\ phase' = "done" /\ phones' = "closed" /\ returned' = "result"
    /\ UNCHANGED <<ctxDone, registered, status, goroutine, sending, result>>

RunStep ==
    \/ SetUp \/ AllRegistered \/ AllDone
    \/ \E p \in Extension : RegisterOne(p)
    \/ \E i \in Pair : RampOver(i) \/ RampCancelled(i) \/ DialReturns(i) \/ HoldOver(i) \/ PairEnds(i)

LoadNext == RunStep \/ CtxEnds \/ \E i \in Pair : RemoteBye(i)

LoadSpec == LoadInit /\ [][LoadNext]_loadVars

-----------------------------------------------------------------------------
\* orchestrator.go:65-66, 189-195: no extension is in two pairs or calls itself,
\* and at most one is in none.
PairsAreDisjoint ==
    /\ \A i, k \in Pair : \A x, y \in 1..2 :
         makePairs[i][x] = makePairs[k][y] => i = k /\ x = y
    /\ \A i \in Pair : makePairs[i][1] \in Extension /\ makePairs[i][2] \in Extension
    /\ \A p, q \in Extension : p # q =>
         \E i \in Pair : p \in {makePairs[i][1], makePairs[i][2]} \/ q \in {makePairs[i][1], makePairs[i][2]}

\* Result.Answered and Failed (orchestrator.go:48-62) count every pair, as the
\* status page's last look shows them: each ended with a result, or failed.
ResultMatchesState ==
    returned = "result" =>
        \A i \in Pair : status[i] = (IF result[i] = "answered" THEN "ended" ELSE "failed") /\ result[i] # "none"

\* "Hang up even if ctx was already canceled" (orchestrator.go:229-230): no call
\* goes on sending when Run has returned.
NoCallOutlivesRun == returned # "no" => sending = {}

\* A run's result is that of its pairs, and its end theirs (orchestrator.go:74-145).
LoadInv == PairsAreDisjoint /\ ResultMatchesState /\ NoCallOutlivesRun
=============================================================================
