------------------------------- MODULE Auth -------------------------------
(***************************************************************************)
(* The admin password and the sessions it opens (cmd/gui/auth.go).  The    *)
(* record is in memory, under mu, and in a file, which is written through  *)
(* a temporary one without it.  Hashes are slow and computed outside mu on *)
(* a copy of the record.  A password is named by the request that set it,  *)
(* a session by the login that opened it.                                  *)
(***************************************************************************)
EXTENDS Naturals

CONSTANTS
    Login, Change,  \* requests to log in and to change the password
    Ip,             \* clients
    First,          \* the password at the start
    ByCommand,      \* the password of gui -reset-password
    None,
    LockAfter,      \* loginLockAfter, 10 in the code
    MaxReboots      \* bound: restarts of the process

ASSUME AuthAssumption ==
    /\ Login \cap Change = {}
    /\ First # ByCommand /\ None \notin {First, ByCommand}
    /\ {First, ByCommand, None} \cap (Login \cup Change) = {}
    /\ LockAfter \in Nat \ {0} /\ MaxReboots \in Nat

Req == Login \cup Change
Password == Change \cup {First, ByCommand}

VARIABLES
    record,     \* m.record
    file, tmp,  \* the password file and the temporary one
    sessions,
    count,      \* failures[ip].count
    locked,     \* clients whose lockedUntil is to come
    pc,
    req,        \* a request: where from, the password given, the session it came in
    seen,       \* the copy of the record that it was checked against
    wrong,      \* history: failures of a client since it was last forgiven
    raced,      \* history: logins checked against a record replaced meanwhile
    overlapped, \* history: two changes were under way at once
    reboots

recordVars == <<record, file, tmp>>
lockVars == <<count, locked, wrong>>
history == <<raced, overlapped>>
authVars == <<recordVars, sessions, lockVars, pc, req, seen, history, reboots>>
-----------------------------------------------------------------------------
\* newAuthManager; without a file it stores a new password first.
AuthInit ==
    /\ record = First /\ file = First /\ tmp = None
    /\ sessions = {}
    /\ count = [i \in Ip |-> 0] /\ locked = {} /\ wrong = [i \in Ip |-> 0]
    /\ pc = [q \in Req |-> "idle"]
    /\ req = [q \in Req |-> None]
    /\ seen = [q \in Req |-> None]
    /\ raced = {} /\ overlapped = FALSE
    /\ reboots = 0

Moves(q, from, to) == pc[q] = from /\ pc' = [pc EXCEPT ![q] = to]

Forgiven(i) ==
    /\ count' = [count EXCEPT ![i] = 0]
    /\ wrong' = [wrong EXCEPT ![i] = 0]
    /\ locked' = locked \ {i}

\* require, throttle and the request's body; a change comes in a session.
Arrive(q, i, p, s) ==
    /\ pc[q] = "idle"
    /\ IF q \in Change THEN s \in sessions ELSE s = None
    /\ req' = [req EXCEPT ![q] = [ip |-> i, password |-> p, session |-> s]]
    /\ Moves(q, "idle", IF i \in locked THEN "done" ELSE "delayed")
    /\ UNCHANGED <<recordVars, sessions, lockVars, seen, history, reboots>>

\* checkPassword after the delay: the copy, under mu.
CopyRecord(q) ==
    /\ Moves(q, "delayed", "checking")
    /\ seen' = [seen EXCEPT ![q] = record]
    /\ UNCHANGED <<recordVars, sessions, lockVars, req, history, reboots>>

Right(q) == req[q].password = seen[q]

\* Mutant: the client is locked out one failure late.
Counted_OneLate(i) ==
    IF count[i] + 1 > LockAfter
    THEN /\ count' = [count EXCEPT ![i] = 0]
         /\ locked' = locked \cup {i}
    ELSE /\ count' = [count EXCEPT ![i] = @ + 1]
         /\ UNCHANGED locked

Counted(i) ==
    IF count[i] + 1 >= LockAfter
    THEN /\ count' = [count EXCEPT ![i] = 0]
         /\ locked' = locked \cup {i}
    ELSE /\ count' = [count EXCEPT ![i] = @ + 1]
         /\ UNCHANGED locked

recordFailure(q) ==
    LET i == req[q].ip IN
    /\ Moves(q, "checking", "done") /\ ~Right(q)
    /\ Counted(i)
    /\ wrong' = [wrong EXCEPT ![i] = @ + 1]
    /\ UNCHANGED <<recordVars, sessions, req, seen, history, reboots>>

OpenSession(q) ==
    /\ q \in Login /\ Moves(q, "checking", "done") /\ Right(q)
    /\ sessions' = sessions \cup {q}
    /\ Forgiven(req[q].ip)
    /\ UNCHANGED <<recordVars, req, seen, history, reboots>>

\* Too short, not confirmed or the same again: nothing is changed.
Reject(q) ==
    /\ q \in Change /\ Moves(q, "checking", "done") /\ Right(q)
    /\ UNCHANGED <<recordVars, sessions, lockVars, req, seen, history, reboots>>

Changing == {q \in Change : pc[q] \in {"writing", "renamed"}}

\* setPassword writes the temporary file ...
WriteFile(q) ==
    /\ q \in Change /\ Moves(q, "checking", "writing") /\ Right(q)
    /\ tmp' = q
    /\ overlapped' = (overlapped \/ Changing # {})
    /\ UNCHANGED <<record, file, sessions, lockVars, req, seen, raced, reboots>>

\* Mutant: the result of the rename is not looked at.
RenameFails_Ignored(q) ==
    /\ Moves(q, "writing", "renamed")
    /\ UNCHANGED <<recordVars, sessions, lockVars, req, seen, history, reboots>>

\* ... and renames it, over whatever another change put there.
Rename(q) ==
    /\ tmp # None /\ Moves(q, "writing", "renamed")
    /\ file' = tmp /\ tmp' = None
    /\ UNCHANGED <<record, sessions, lockVars, req, seen, history, reboots>>

\* No room, or another change took the file away.
RenameFails(q) ==
    /\ Moves(q, "writing", "done")
    /\ UNCHANGED <<recordVars, sessions, lockVars, req, seen, history, reboots>>

\* Mutant: the other sessions stay logged in.
SessionsKept_All(q) == sessions

SessionsKept(q) == sessions \cap {req[q].session}

ReplaceRecord(q) ==
    /\ Moves(q, "renamed", "done")
    /\ record' = q
    /\ sessions' = SessionsKept(q)
    /\ Forgiven(req[q].ip)
    /\ raced' = raced \cup {l \in Login : pc[l] = "checking"}
    /\ UNCHANGED <<file, tmp, req, seen, overlapped, reboots>>

\* handleLogout, or validSession finds the session expired.
CloseSession(s) ==
    /\ s \in sessions
    /\ sessions' = sessions \ {s}
    /\ UNCHANGED <<recordVars, lockVars, pc, req, seen, history, reboots>>

LockoutEnds(i) ==
    /\ i \in locked
    /\ locked' = locked \ {i}
    /\ wrong' = [wrong EXCEPT ![i] = 0]
    /\ UNCHANGED <<recordVars, sessions, count, pc, req, seen, history, reboots>>

\* gui -reset-password, a process of its own; a running GUI is to be restarted.
ResetByCommand ==
    /\ file # ByCommand /\ Changing = {}
    /\ file' = ByCommand
    /\ UNCHANGED <<record, tmp, sessions, lockVars, pc, req, seen, history, reboots>>

AuthRestart ==
    /\ reboots < MaxReboots
    /\ reboots' = reboots + 1
    /\ record' = file
    /\ sessions' = {}
    /\ count' = [i \in Ip |-> 0] /\ locked' = {} /\ wrong' = [i \in Ip |-> 0]
    /\ pc' = [q \in Req |-> IF pc[q] = "idle" THEN "idle" ELSE "done"]
    /\ overlapped' = FALSE
    /\ UNCHANGED <<file, tmp, req, seen, raced>>

Step(q) ==
    \/ CopyRecord(q) \/ recordFailure(q) \/ OpenSession(q) \/ Reject(q)
    \/ WriteFile(q) \/ Rename(q) \/ RenameFails(q) \/ ReplaceRecord(q)

AuthNext ==
    \/ \E q \in Req, i \in Ip, p \in Password, s \in Login \cup {None} : Arrive(q, i, p, s)
    \/ \E q \in Req : Step(q)
    \/ \E s \in Login : CloseSession(s)
    \/ \E i \in Ip : LockoutEnds(i)
    \/ ResetByCommand
    \/ AuthRestart

AuthSpec == AuthInit /\ [][AuthNext]_authVars
-----------------------------------------------------------------------------
AuthTypeOK ==
    /\ record \in Password /\ file \in Password /\ tmp \in Change \cup {None}
    /\ sessions \subseteq Login
    /\ count \in [Ip -> 0..(LockAfter - 1)]
    /\ locked \subseteq Ip
    /\ \A q \in Req : seen[q] \in Password \cup {None}
    /\ wrong \in [Ip -> Nat]
    /\ raced \subseteq Login /\ overlapped \in BOOLEAN

\* The password that is checked is the one that will be after a restart
\* (auth.go:25-27, 261-268), but for a change under way, one that overlapped
\* another and so wrote the same temporary file, and gui -reset-password, which
\* "restart it to apply" (main.go:39).
FileHasRecord ==
    \/ file = record \/ file = ByCommand
    \/ Changing # {} \/ overlapped

\* "Every other session is logged out; the caller's own session stays valid"
\* (auth.go:220-221): a session knows the password in force, made it, or was
\* opened by a login that was being checked when the password was replaced.
SessionsKnowPassword ==
    \A s \in sessions :
        \/ seen[s] = record
        \/ record \in Change /\ req[record].session = s
        \/ s \in raced

\* One password is in force, in memory, in the file and for every session.
AuthInv == AuthTypeOK /\ FileHasRecord /\ SessionsKnowPassword

\* After LockAfter failures of a client none of its requests gets as far as the
\* password (auth.go:36-39) until it was forgiven, whatever ran at the same time.
LockoutHolds ==
    [][\A q \in Req : pc[q] = "idle" /\ pc'[q] = "delayed"
                        => wrong[req'[q].ip] < LockAfter]_authVars
=============================================================================
