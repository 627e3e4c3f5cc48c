---------------------------- MODULE Registration ----------------------------
(***************************************************************************)
(* Registering a session's extensions (registerPhonesStaggered and         *)
(* keepPhoneRegistered, session.go) and the counters the dashboard shows   *)
(* meanwhile (registration.go).  Every extension's goroutine adds to one   *)
(* of two atomics, reads both, one after the other, and reports what it    *)
(* read; reports arrive in any order.                                      *)
(***************************************************************************)
EXTENDS Naturals, FiniteSets

CONSTANTS
    Ext,            \* the pool's extensions
    MaxAttempts,    \* bound: sessions that are tried to be built
    MaxRefreshFailures \* bound: registrations that fail while the session lives

ASSUME RegistrationAssumption ==
    /\ IsFiniteSet(Ext)
    /\ MaxAttempts \in Nat /\ MaxRefreshFailures \in Nat

VARIABLES
    attempt,        \* nextRegID
    reporter,       \* where each extension's goroutine is
    registered, failedCount,
    got,            \* what each goroutine read of the two
    shown,          \* the status the dashboard is sent
    ready,          \* the pool exists: the session can be dialed
    notRegistered, refreshFailures  \* the pool's

regVars == <<attempt, reporter, registered, failedCount, got, shown, ready,
             notRegistered, refreshFailures>>
-----------------------------------------------------------------------------
NothingYet == [registered |-> 0, failed |-> 0, total |-> 0, done |-> FALSE, err |-> FALSE]
Total == Cardinality(Ext)

RegInit ==
    /\ attempt = 0
    /\ reporter = [e \in Ext |-> "none"]
    /\ registered = 0 /\ failedCount = 0
    /\ got = [e \in Ext |-> <<0, 0>>]
    /\ shown = NothingYet
    /\ ready = FALSE
    /\ notRegistered = {} /\ refreshFailures = 0

Registering == \E e \in Ext : reporter[e] \notin {"none", "reported"}

\* startRegistration, every phone opened, and the first report.
StartRegistration ==
    /\ ~ready /\ attempt < MaxAttempts
    /\ attempt = 0 \/ shown.done
    /\ attempt' = attempt + 1
    /\ reporter' = [e \in Ext |-> "staggered"]
    /\ registered' = 0 /\ failedCount' = 0
    /\ got' = [e \in Ext |-> <<0, 0>>]
    /\ shown' = [NothingYet EXCEPT !.total = Total]
    /\ notRegistered' = {} /\ refreshFailures' = 0
    /\ UNCHANGED ready

Reporter(e, from, to) == reporter[e] = from /\ reporter' = [reporter EXCEPT ![e] = to]

\* Register answered, was refused or ran out of time.
Register(e) ==
    /\ Reporter(e, "staggered", "counted")
    /\ \/ registered' = registered + 1 /\ UNCHANGED failedCount
       \/ failedCount' = failedCount + 1 /\ UNCHANGED registered
    /\ UNCHANGED <<attempt, got, shown, ready, notRegistered, refreshFailures>>

LoadRegistered(e) ==
    /\ Reporter(e, "counted", "loaded")
    /\ got' = [got EXCEPT ![e][1] = registered]
    /\ UNCHANGED <<attempt, registered, failedCount, shown, ready, notRegistered, refreshFailures>>

LoadFailed(e) ==
    /\ Reporter(e, "loaded", "reporting")
    /\ got' = [got EXCEPT ![e][2] = failedCount]
    /\ UNCHANGED <<attempt, registered, failedCount, shown, ready, notRegistered, refreshFailures>>

\* Mutant: the last report is the one that counts.
NotOlder_Any(r, f) == TRUE

NotOlder(r, f) == r + f >= shown.registered + shown.failed

\* registrationHandle.update.
Update(e) ==
    LET r == got[e][1]  f == got[e][2] IN
    /\ Reporter(e, "reporting", "reported")
    /\ shown' = IF NotOlder(r, f) THEN [shown EXCEPT !.registered = r, !.failed = f] ELSE shown
    /\ UNCHANGED <<attempt, registered, failedCount, got, ready, notRegistered, refreshFailures>>

\* Mutant: the pool is used though an extension did not register.
PoolUsable_Always == TRUE

PoolUsable == failedCount = 0

\* Every goroutine is done.  One extension that failed is enough to give the
\* session up; its phones stay open, on ports that are not used again.
Finish ==
    /\ attempt > 0 /\ ~Registering /\ ~shown.done
    /\ shown' = [shown EXCEPT !.done = TRUE, !.err = failedCount > 0]
    /\ ready' = PoolUsable
    /\ UNCHANGED <<attempt, reporter, registered, failedCount, got, notRegistered, refreshFailures>>

\* keepPhoneRegistered and noteRegistration.
Refresh(e) ==
    /\ ready
    /\ \/ /\ e \in notRegistered
          /\ notRegistered' = notRegistered \ {e}
          /\ UNCHANGED refreshFailures
       \/ /\ refreshFailures < MaxRefreshFailures
          /\ notRegistered' = notRegistered \cup {e}
          /\ refreshFailures' = refreshFailures + 1
    /\ UNCHANGED <<attempt, reporter, registered, failedCount, got, shown, ready>>

\* SwarmDialer restarts: what it registered and showed is gone.
RegRestart ==
    /\ attempt' = 0
    /\ reporter' = [e \in Ext |-> "none"]
    /\ registered' = 0 /\ failedCount' = 0
    /\ got' = [e \in Ext |-> <<0, 0>>]
    /\ shown' = NothingYet
    /\ ready' = FALSE
    /\ notRegistered' = {} /\ refreshFailures' = 0

RegNext ==
    \/ StartRegistration \/ Finish
    \/ \E e \in Ext : Register(e) \/ LoadRegistered(e) \/ LoadFailed(e) \/ Update(e) \/ Refresh(e)
-----------------------------------------------------------------------------
\* The counters shown are never more than what happened, and once registering is
\* over exactly what happened, whichever order the reports arrived in
\* (registration.go:74-78).
CountsShown ==
    /\ shown.registered <= registered /\ shown.failed <= failedCount
    /\ shown.done => /\ shown.registered = registered /\ shown.failed = failedCount
                     /\ shown.registered + shown.failed = Total

\* A session that can be dialed has every extension registered at first, and one
\* that was not refreshed since is counted as a failure (session.go:51-71).
ReadyMeansRegistered ==
    /\ ready => shown.registered = Total /\ ~shown.err
    /\ Cardinality(notRegistered) <= refreshFailures

\* The banner is what happened (registration.go:74-90, session.go:51-71).
BannerIsRight == CountsShown /\ ReadyMeansRegistered

\* Reports "race each other; never let a late, stale one move the counters
\* backwards" (registration.go:74-75).  Their sum does not; one of them may.
CountersNeverFall ==
    [][attempt' = attempt => /\ shown'.registered >= shown.registered
                             /\ shown'.failed >= shown.failed]_regVars
=============================================================================
