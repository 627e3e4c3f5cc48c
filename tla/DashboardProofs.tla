--------------------------- MODULE DashboardProofs ---------------------------
(***************************************************************************)
(* Theorems about Dashboard: Auth for any number of clients, logins and    *)
(* changes of the password, any lockout threshold and any number of        *)
(* restarts; Registration for any number of extensions, attempts and       *)
(* failures; EventLog for any number of writers and any size of the ring.  *)
(***************************************************************************)
EXTENDS Dashboard, FiniteSetTheorems, SequenceTheorems, TLAPS


Request == [ip : Ip, password : Password, session : Login \cup {None}]

\* Where a request is says what it carries, and which requests change something.
RequestInv ==
    /\ pc \in [Req -> {"idle", "delayed", "checking", "writing", "renamed", "done"}]
    /\ DOMAIN req = Req /\ DOMAIN seen = Req
    /\ \A q \in Req : /\ pc[q] # "idle" => req[q] \in Request
                      /\ pc[q] \in {"writing", "renamed"} => q \in Change
    /\ \A p \in {record, file, tmp} : p \in Change => pc[p] # "idle"

\* Without an overlap the one change under way has the temporary file to itself.
FileInv ==
    ~overlapped =>
        /\ \A p, q \in Changing : p = q
        /\ Changing = {} => file \in {record, ByCommand}
        /\ \A q \in Changing :
             IF pc[q] = "writing" THEN tmp = q /\ file \in {record, ByCommand} ELSE file = q

\* A login knows the password in force from its copy on, or has been raced.
LoginInv ==
    /\ \A s \in sessions : pc[s] = "done"
    /\ \A l \in Login : pc[l] = "checking" => seen[l] = record \/ l \in raced

\* Failures that are not forgiven are counted, or have locked the client out.
LockInv == \A i \in Ip : i \notin locked => wrong[i] <= count[i]

AuthIInv == AuthTypeOK /\ RequestInv /\ FileInv /\ LoginInv /\ SessionsKnowPassword /\ LockInv

LEMMA InitAuthIInv == AuthInit => AuthIInv
<1> SUFFICES ASSUME AuthInit
             PROVE  AuthIInv
  OBVIOUS
<1> USE AuthAssumption DEF AuthInit, Password, Req
<1>0. First \notin Change /\ None \notin Change
  BY AuthAssumption
<1>1. AuthTypeOK
  <2>1. 0 \in 0..(LockAfter - 1)
    OBVIOUS
  <2>2. count \in [Ip -> 0..(LockAfter - 1)] /\ wrong \in [Ip -> Nat]
    BY <2>1
  <2>3. record \in Password /\ file \in Password /\ tmp \in Change \cup {None}
    OBVIOUS
  <2>4. /\ sessions \subseteq Login /\ locked \subseteq Ip
        /\ \A q \in Req : seen[q] \in Password \cup {None}
        /\ raced \subseteq Login /\ overlapped \in BOOLEAN
    OBVIOUS
  <2> QED BY <2>2, <2>3, <2>4 DEF AuthTypeOK
<1>3. RequestInv
  BY <1>0 DEF RequestInv
<1>2. FileInv /\ LoginInv /\ SessionsKnowPassword /\ LockInv
  BY DEF FileInv, LoginInv, SessionsKnowPassword, LockInv, Changing
<1> QED BY <1>1, <1>2, <1>3 DEF AuthIInv

LEMMA NextAuthTypeOK == AuthTypeOK /\ RequestInv /\ [AuthNext]_authVars => AuthTypeOK' /\ RequestInv'
<1> SUFFICES ASSUME AuthTypeOK, RequestInv, [AuthNext]_authVars
             PROVE  AuthTypeOK' /\ RequestInv'
  OBVIOUS
<1> USE AuthAssumption DEF Password, Req, Request, Moves, recordVars, lockVars, history, Forgiven
<1>1. ASSUME NEW q \in Req, NEW i \in Ip, NEW p \in Password, NEW s \in Login \cup {None},
             Arrive(q, i, p, s)
      PROVE  AuthTypeOK' /\ RequestInv'
  <2>1. AuthTypeOK'
    BY <1>1 DEF AuthTypeOK, RequestInv, Arrive
  <2>2. RequestInv'
    BY <1>1 DEF AuthTypeOK, RequestInv, Arrive
  <2> QED BY <2>1, <2>2
<1>2. ASSUME NEW q \in Req, Step(q)
      PROVE  AuthTypeOK' /\ RequestInv'
  <2> USE DEF AuthTypeOK, RequestInv
  <2>1. CASE CopyRecord(q) BY <2>1 DEF CopyRecord
  <2>2. CASE recordFailure(q)
    <3>1. req[q].ip \in Ip
      BY <2>2 DEF recordFailure
    <3>2. /\ count' \in [Ip -> 0..(LockAfter - 1)]
          /\ locked' \subseteq Ip /\ wrong' \in [Ip -> Nat]
      BY <2>2, <3>1 DEF recordFailure, Counted
    <3> QED BY <2>2, <3>2 DEF recordFailure
  <2>3. CASE OpenSession(q) BY <2>3 DEF OpenSession
  <2>4. CASE Reject(q) BY <2>4 DEF Reject
  <2>5. CASE WriteFile(q) BY <2>5 DEF WriteFile
  <2>6. CASE Rename(q) BY <2>6 DEF Rename
  <2>7. CASE RenameFails(q) BY <2>7 DEF RenameFails
  <2>8. CASE ReplaceRecord(q) BY <2>8 DEF ReplaceRecord, SessionsKept
  <2> QED BY <1>2, <2>1, <2>2, <2>3, <2>4, <2>5, <2>6, <2>7, <2>8 DEF Step
<1>3. ASSUME NEW s \in Login, CloseSession(s)
      PROVE  AuthTypeOK' /\ RequestInv'
  BY <1>3 DEF CloseSession, AuthTypeOK, RequestInv
<1>4. ASSUME NEW i \in Ip, LockoutEnds(i)
      PROVE  AuthTypeOK' /\ RequestInv'
  BY <1>4 DEF LockoutEnds, AuthTypeOK, RequestInv
<1>5. CASE ResetByCommand BY <1>5 DEF ResetByCommand, AuthTypeOK, RequestInv
<1>6. CASE AuthRestart
  <2>0. 0 \in 0..(LockAfter - 1)
    OBVIOUS
  <2>1. AuthTypeOK'
    BY <1>6, <2>0 DEF AuthRestart, AuthTypeOK
  <2>2. /\ pc' \in [Req -> {"idle", "done"}] /\ UNCHANGED <<req, seen>>
        /\ \A q \in Req : pc'[q] # "idle" => pc[q] # "idle"
        /\ \A q \in Req : pc[q] # "idle" => pc'[q] # "idle"
        /\ {record', file', tmp'} \subseteq {file, tmp}
    BY <1>6 DEF AuthRestart
  <2>3. RequestInv'
    BY <2>2 DEF RequestInv
  <2> QED BY <2>1, <2>3
<1>7. CASE UNCHANGED authVars BY <1>7 DEF authVars, AuthTypeOK, RequestInv
<1> QED BY <1>1, <1>2, <1>3, <1>4, <1>5, <1>6, <1>7 DEF AuthNext

\* The password file: whoever writes or renames does so alone, or has overlapped.
LEMMA NextFileInv ==
    AuthTypeOK /\ RequestInv /\ FileInv /\ [AuthNext]_authVars => FileInv'
<1> SUFFICES ASSUME AuthTypeOK, RequestInv, FileInv, [AuthNext]_authVars, ~overlapped'
             PROVE  FileInv'
  BY DEF FileInv
<1> USE AuthAssumption DEF Req, RequestInv, FileInv, Changing, Moves, recordVars, history
<1>1. ASSUME NEW q \in Req, WriteFile(q)
      PROVE  FileInv'
  BY <1>1 DEF WriteFile
<1>2. ASSUME NEW q \in Req, Rename(q)
      PROVE  FileInv'
  <2>1. \A p \in Changing : p = q
    BY <1>2 DEF Rename
  <2> QED BY <1>2, <2>1 DEF Rename
<1>3. ASSUME NEW q \in Req, RenameFails(q)
      PROVE  FileInv'
  BY <1>3 DEF RenameFails
<1>4. ASSUME NEW q \in Req, ReplaceRecord(q)
      PROVE  FileInv'
  BY <1>4 DEF ReplaceRecord
<1>5. CASE ResetByCommand BY <1>5 DEF ResetByCommand
<1>6. CASE AuthRestart BY <1>6 DEF AuthRestart
<1>7. ASSUME UNCHANGED <<recordVars, overlapped>>, Changing' = Changing,
             \A q \in Changing : pc'[q] = pc[q]
      PROVE  FileInv'
  BY <1>7
<1>8. ASSUME NEW q \in Req, NEW i \in Ip, NEW p \in Password, NEW s \in Login \cup {None},
             Arrive(q, i, p, s)
      PROVE  FileInv'
  BY <1>7, <1>8 DEF Arrive
<1>9. ASSUME NEW q \in Req, CopyRecord(q) \/ recordFailure(q) \/ OpenSession(q) \/ Reject(q)
      PROVE  FileInv'
  BY <1>7, <1>9 DEF CopyRecord, recordFailure, OpenSession, Reject
<1>10. CASE UNCHANGED <<recordVars, history, pc>>
  BY <1>7, <1>10
<1> QED
  BY <1>1, <1>2, <1>3, <1>4, <1>5, <1>6, <1>8, <1>9, <1>10
  DEF AuthNext, Step, CloseSession, LockoutEnds, authVars

\* Who is logged in, and on which password.
LEMMA NextLoginInv ==
    AuthTypeOK /\ RequestInv /\ LoginInv /\ SessionsKnowPassword /\ [AuthNext]_authVars
        => LoginInv' /\ SessionsKnowPassword'
<1> SUFFICES ASSUME AuthTypeOK, RequestInv, LoginInv, SessionsKnowPassword, [AuthNext]_authVars
             PROVE  LoginInv' /\ SessionsKnowPassword'
  OBVIOUS
<1> USE AuthAssumption
    DEF Req, RequestInv, AuthTypeOK, LoginInv, SessionsKnowPassword, Moves, recordVars, history
<1>1. ASSUME NEW q \in Req, NEW i \in Ip, NEW p \in Password, NEW s \in Login \cup {None},
             Arrive(q, i, p, s)
      PROVE  LoginInv' /\ SessionsKnowPassword'
  BY <1>1 DEF Arrive
<1>2. ASSUME NEW q \in Req, Step(q)
      PROVE  LoginInv' /\ SessionsKnowPassword'
  <2>1. CASE CopyRecord(q) BY <2>1 DEF CopyRecord
  <2>2. CASE recordFailure(q) \/ Reject(q) BY <2>2 DEF recordFailure, Reject
  <2>3. CASE OpenSession(q) BY <2>3 DEF OpenSession
  <2>4. CASE WriteFile(q) BY <2>4 DEF WriteFile
  <2>5. CASE Rename(q) \/ RenameFails(q) BY <2>5 DEF Rename, RenameFails
  <2>6. CASE ReplaceRecord(q) BY <2>6 DEF ReplaceRecord, SessionsKept
  <2> QED BY <1>2, <2>1, <2>2, <2>3, <2>4, <2>5, <2>6 DEF Step
<1>3. ASSUME NEW s \in Login, CloseSession(s)
      PROVE  LoginInv' /\ SessionsKnowPassword'
  BY <1>3 DEF CloseSession
<1>4. CASE AuthRestart BY <1>4 DEF AuthRestart
<1>5. CASE UNCHANGED <<record, sessions, pc, req, seen, raced>>
  BY <1>5
<1> QED
  BY <1>1, <1>2, <1>3, <1>4, <1>5 DEF AuthNext, LockoutEnds, ResetByCommand, authVars

\* A failure is counted wherever it is remembered, so nobody is forgiven unawares.
LEMMA NextLockInv == AuthTypeOK /\ RequestInv /\ LockInv /\ [AuthNext]_authVars => LockInv'
<1> SUFFICES ASSUME AuthTypeOK, RequestInv, LockInv, [AuthNext]_authVars
             PROVE  LockInv'
  OBVIOUS
<1> USE AuthAssumption DEF AuthTypeOK, LockInv, Forgiven
<1>1. ASSUME NEW q \in Req, recordFailure(q)
      PROVE  LockInv'
  BY <1>1 DEF recordFailure, Counted
<1>2. ASSUME NEW q \in Req, OpenSession(q) \/ ReplaceRecord(q)
      PROVE  LockInv'
  BY <1>2 DEF OpenSession, ReplaceRecord
<1>3. ASSUME NEW i \in Ip, LockoutEnds(i)
      PROVE  LockInv'
  BY <1>3 DEF LockoutEnds
<1>4. CASE AuthRestart BY <1>4 DEF AuthRestart
<1>5. CASE UNCHANGED lockVars BY <1>5 DEF lockVars
<1> QED
  BY <1>1, <1>2, <1>3, <1>4, <1>5
  DEF AuthNext, Step, Arrive, CopyRecord, Reject, WriteFile, Rename, RenameFails,
      CloseSession, ResetByCommand, authVars, lockVars

LEMMA AuthInvariant == AuthSpec => []AuthIInv
<1>1. AuthIInv /\ [AuthNext]_authVars => AuthIInv'
  BY NextAuthTypeOK, NextFileInv, NextLoginInv, NextLockInv DEF AuthIInv
<1> QED BY <1>1, InitAuthIInv, PTL DEF AuthSpec

\* One password is in force in memory, in the file and for every session, but for
\* the races that AuthInv names.
THEOREM OnePasswordInForce == AuthSpec => []AuthInv
<1>1. AuthIInv => FileHasRecord
  BY DEF AuthIInv, FileInv, FileHasRecord, Changing
<1>2. AuthIInv => AuthInv
  BY <1>1 DEF AuthIInv, AuthInv
<1> QED BY <1>2, AuthInvariant, PTL

\* A client that failed LockAfter times is not let near the password again.
THEOREM LockoutAlwaysHolds == AuthSpec => LockoutHolds
<1>1. AuthIInv /\ [AuthNext]_authVars =>
        [\A q \in Req : pc[q] = "idle" /\ pc'[q] = "delayed"
                          => wrong[req'[q].ip] < LockAfter]_authVars
  <2> SUFFICES ASSUME AuthIInv, AuthNext, NEW q \in Req, pc[q] = "idle", pc'[q] = "delayed"
               PROVE  wrong[req'[q].ip] < LockAfter
    BY DEF AuthIInv
  <2> USE DEF AuthIInv, AuthTypeOK, RequestInv, LockInv, Moves
  <2>1. ASSUME NEW r \in Req, NEW i \in Ip, NEW p \in Password, NEW s \in Login \cup {None},
               Arrive(r, i, p, s)
        PROVE  wrong[req'[q].ip] < LockAfter
    <3>1. r = q /\ req'[q].ip = i /\ i \notin locked
      BY <2>1 DEF Arrive
    <3> QED BY <3>1, AuthAssumption
  <2>2. ASSUME NEW r \in Req, Step(r)
        PROVE  FALSE
    BY <2>2
    DEF Step, CopyRecord, recordFailure, OpenSession, Reject, WriteFile, Rename,
        RenameFails, ReplaceRecord
  <2>3. CASE AuthRestart BY <2>3 DEF AuthRestart
  <2> QED
    BY <2>1, <2>2, <2>3 DEF AuthNext, CloseSession, LockoutEnds, ResetByCommand
<1> QED BY <1>1, AuthInvariant, PTL DEF AuthSpec, LockoutHolds
-----------------------------------------------------------------------------
(***************************************************************************)
(* Registration, as part of the feed.                                      *)
(***************************************************************************)

FeedSpec == FeedInit /\ [][FeedNext]_feedVars

RegistersAt == {"none", "staggered", "counted", "loaded", "reporting", "reported"}
Banner == [registered : Nat, failed : Nat, total : Nat, done : BOOLEAN, err : BOOLEAN]

RegTypes ==
    /\ attempt \in Nat /\ registered \in Nat /\ failedCount \in Nat /\ refreshFailures \in Nat
    /\ reporter \in [Ext -> RegistersAt]
    /\ got \in [Ext -> Nat \X Nat]
    /\ shown \in Banner /\ ready \in BOOLEAN /\ notRegistered \subseteq Ext

\* The extensions whose outcome is counted.
Heard == {e \in Ext : reporter[e] \in {"counted", "loaded", "reporting", "reported"}}

CountedInv == registered + failedCount = Cardinality(Heard)

\* What a goroutine read, and what is shown, was the count once.
ReadInv ==
    /\ \A e \in Ext :
         /\ reporter[e] \in {"loaded", "reporting"} => got[e][1] <= registered
         /\ reporter[e] = "reporting" => got[e][2] <= failedCount
    /\ shown.registered <= registered /\ shown.failed <= failedCount

\* Both counts are shown, or a goroutine that will have read both has yet to report.
BringsBoth(e) ==
    \/ reporter[e] = "counted"
    \/ reporter[e] = "loaded" /\ got[e][1] = registered
    \/ reporter[e] = "reporting" /\ got[e][1] = registered /\ got[e][2] = failedCount

OnItsWay ==
    \/ shown.registered = registered /\ shown.failed = failedCount
    \/ \E e \in Ext : BringsBoth(e)

\* The banner is done only when every goroutine is.
DoneInv ==
    /\ attempt > 0 => \A e \in Ext : reporter[e] # "none"
    /\ shown.done => /\ attempt > 0 /\ \A e \in Ext : reporter[e] = "reported"
                     /\ shown.registered = registered /\ shown.failed = failedCount
    /\ ready => shown.done /\ failedCount = 0 /\ ~shown.err
    /\ Cardinality(notRegistered) <= refreshFailures

RegInv == RegTypes /\ CountedInv /\ ReadInv /\ OnItsWay /\ DoneInv

LEMMA InitRegInv == RegInit => RegInv
<1> SUFFICES ASSUME RegInit PROVE RegInv
  OBVIOUS
<1>1. Heard = {} /\ Cardinality({}) = 0
  BY FS_EmptySet DEF RegInit, Heard
<1>2. RegTypes
  BY <1>1 DEF RegInit, RegTypes, RegistersAt, Banner, NothingYet
<1>3. CountedInv
  BY <1>1 DEF RegInit, CountedInv
<1>4. ReadInv /\ OnItsWay
  BY DEF RegInit, NothingYet, ReadInv, OnItsWay
<1>5. DoneInv
  BY <1>1 DEF RegInit, NothingYet, DoneInv
<1> QED BY <1>2, <1>3, <1>4, <1>5 DEF RegInv

LEMMA RestartRegInv == RegRestart => RegInv'
<1> SUFFICES ASSUME RegRestart PROVE RegInv'
  OBVIOUS
<1>1. Heard' = {} /\ Cardinality({}) = 0
  BY FS_EmptySet DEF RegRestart, Heard
<1>2. RegTypes'
  BY <1>1 DEF RegRestart, RegTypes, RegistersAt, Banner, NothingYet
<1>3. CountedInv'
  BY <1>1 DEF RegRestart, CountedInv
<1>4. ReadInv' /\ OnItsWay'
  BY DEF RegRestart, NothingYet, ReadInv, OnItsWay
<1>5. DoneInv'
  BY <1>1 DEF RegRestart, NothingYet, DoneInv
<1> QED BY <1>2, <1>3, <1>4, <1>5 DEF RegInv

LEMMA StartRegInv == RegInv /\ StartRegistration => RegInv'
<1> SUFFICES ASSUME RegInv, StartRegistration PROVE RegInv'
  OBVIOUS
<1>1. Heard' = {} /\ Cardinality({}) = 0 /\ Total \in Nat
  BY FS_EmptySet, FS_CardinalityType, RegistrationAssumption DEF StartRegistration, Heard, Total
<1>2. RegTypes'
  <2>1. shown' = [registered |-> 0, failed |-> 0, total |-> Total, done |-> FALSE, err |-> FALSE]
    BY DEF StartRegistration, NothingYet
  <2>2. shown' \in Banner
    BY <1>1, <2>1 DEF Banner
  <2>3. got' \in [Ext -> Nat \X Nat] /\ reporter' \in [Ext -> RegistersAt]
    BY DEF StartRegistration, RegistersAt
  <2> QED BY <2>2, <2>3 DEF StartRegistration, RegInv, RegTypes
<1>3. CountedInv'
  BY <1>1 DEF StartRegistration, CountedInv
<1>4. ReadInv' /\ OnItsWay'
  BY DEF StartRegistration, NothingYet, ReadInv, OnItsWay
<1>5. DoneInv'
  BY <1>1 DEF StartRegistration, NothingYet, DoneInv, RegInv, RegTypes
<1> QED BY <1>2, <1>3, <1>4, <1>5 DEF RegInv

LEMMA FinishRegInv == RegInv /\ Finish => RegInv'
<1> SUFFICES ASSUME RegInv, Finish PROVE RegInv'
  OBVIOUS
<1> USE DEF RegInv, Finish
<1>1. \A e \in Ext : reporter[e] = "reported"
  BY DEF Registering, DoneInv
<1>2. shown.registered = registered /\ shown.failed = failedCount
  BY <1>1 DEF OnItsWay, BringsBoth
<1>3. /\ shown'.registered = shown.registered /\ shown'.failed = shown.failed /\ shown'.done
      /\ shown'.err = (failedCount > 0) /\ shown' \in Banner
  <2>1. (failedCount > 0) \in BOOLEAN
    OBVIOUS
  <2> HIDE DEF RegInv
  <2>2. shown \in Banner
    BY DEF RegInv, RegTypes
  <2> QED BY <2>1, <2>2 DEF Banner
<1>4. RegTypes'
  BY <1>3 DEF RegTypes, PoolUsable
<1>5. CountedInv' /\ ReadInv' /\ OnItsWay'
  BY <1>2, <1>3 DEF CountedInv, Heard, ReadInv, OnItsWay
<1>6. DoneInv'
  BY <1>1, <1>2, <1>3 DEF DoneInv, PoolUsable, RegTypes
<1> QED BY <1>4, <1>5, <1>6

\* One more outcome is counted, and its goroutine will have read both counts.
LEMMA RegisterRegInv == \A x \in Ext : RegInv /\ Register(x) => RegInv'
<1> SUFFICES ASSUME NEW x \in Ext, RegInv, Register(x) PROVE RegInv'
  OBVIOUS
<1> USE DEF RegInv, Register, Reporter
<1>1. /\ reporter' \in [Ext -> RegistersAt] /\ reporter'[x] = "counted" /\ reporter[x] = "staggered"
      /\ \A e \in Ext \ {x} : reporter'[e] = reporter[e]
  BY DEF RegTypes, RegistersAt
<1>2. /\ registered' \in Nat /\ failedCount' \in Nat /\ registered' + failedCount' = registered + failedCount + 1
      /\ registered <= registered' /\ failedCount <= failedCount'
  BY DEF RegTypes
<1>3. Heard' = Heard \cup {x} /\ x \notin Heard
  BY <1>1 DEF Heard
<1>4. Cardinality(Heard') = Cardinality(Heard) + 1
  <2>1. IsFiniteSet(Heard)
    BY FS_Subset, RegistrationAssumption DEF Heard
  <2> QED BY <1>3, <2>1, FS_AddElement
<1>5. RegTypes'
  BY <1>1, <1>2 DEF RegTypes
<1>6. CountedInv'
  BY <1>2, <1>4 DEF CountedInv
<1>7. ReadInv'
  <2>1. \A e \in Ext : reporter'[e] \in {"loaded", "reporting"} => reporter[e] = reporter'[e]
    BY <1>1
  <2>2. \A e \in Ext : got[e][1] \in Nat /\ got[e][2] \in Nat
    BY DEF RegTypes
  <2>3. shown.registered \in Nat /\ shown.failed \in Nat
    BY DEF RegTypes, Banner
  <2> QED BY <1>2, <2>1, <2>2, <2>3 DEF ReadInv, RegTypes
<1>8. OnItsWay'
  BY <1>1 DEF OnItsWay, BringsBoth
<1>9. DoneInv'
  <2>1. ~shown.done
    BY <1>1 DEF DoneInv
  <2> QED BY <1>1, <2>1 DEF DoneInv
<1> QED BY <1>5, <1>6, <1>7, <1>8, <1>9

LEMMA LoadRegisteredRegInv == \A x \in Ext : RegInv /\ LoadRegistered(x) => RegInv'
<1> SUFFICES ASSUME NEW x \in Ext, RegInv, LoadRegistered(x) PROVE RegInv'
  OBVIOUS
<1> USE DEF RegInv, LoadRegistered, Reporter
<1>1. /\ reporter' \in [Ext -> RegistersAt] /\ reporter'[x] = "loaded" /\ reporter[x] = "counted"
      /\ \A e \in Ext \ {x} : reporter'[e] = reporter[e]
  BY DEF RegTypes, RegistersAt
<1>2. /\ got' \in [Ext -> Nat \X Nat] /\ got'[x][1] = registered
      /\ \A e \in Ext \ {x} : got'[e] = got[e]
  BY DEF RegTypes
<1>3. Heard' = Heard
  BY <1>1 DEF Heard
<1>4. RegTypes'
  BY <1>1, <1>2 DEF RegTypes
<1>5. CountedInv'
  BY <1>3 DEF CountedInv
<1>6. ReadInv'
  BY <1>1, <1>2 DEF ReadInv, RegTypes
<1>7. OnItsWay'
  BY <1>1, <1>2 DEF OnItsWay, BringsBoth
<1>8. DoneInv'
  <2>1. ~shown.done
    BY <1>1 DEF DoneInv
  <2> QED BY <1>1, <2>1 DEF DoneInv
<1> QED BY <1>4, <1>5, <1>6, <1>7, <1>8

LEMMA LoadFailedRegInv == \A x \in Ext : RegInv /\ LoadFailed(x) => RegInv'
<1> SUFFICES ASSUME NEW x \in Ext, RegInv, LoadFailed(x) PROVE RegInv'
  OBVIOUS
<1> USE DEF RegInv, LoadFailed, Reporter
<1>1. /\ reporter' \in [Ext -> RegistersAt] /\ reporter'[x] = "reporting" /\ reporter[x] = "loaded"
      /\ \A e \in Ext \ {x} : reporter'[e] = reporter[e]
  BY DEF RegTypes, RegistersAt
<1>2. /\ got' \in [Ext -> Nat \X Nat] /\ got'[x][1] = got[x][1] /\ got'[x][2] = failedCount
      /\ \A e \in Ext \ {x} : got'[e] = got[e]
  BY DEF RegTypes
<1>3. Heard' = Heard
  BY <1>1 DEF Heard
<1>4. RegTypes'
  BY <1>1, <1>2 DEF RegTypes
<1>5. CountedInv'
  BY <1>3 DEF CountedInv
<1>6. ReadInv'
  BY <1>1, <1>2 DEF ReadInv, RegTypes
<1>7. OnItsWay'
  BY <1>1, <1>2 DEF OnItsWay, BringsBoth
<1>8. DoneInv'
  <2>1. ~shown.done
    BY <1>1 DEF DoneInv
  <2> QED BY <1>1, <2>1 DEF DoneInv
<1> QED BY <1>4, <1>5, <1>6, <1>7, <1>8

\* A report that brings both counts is never taken for a late one.
LEMMA UpdateRegInv == \A x \in Ext : RegInv /\ Update(x) => RegInv'
<1> SUFFICES ASSUME NEW x \in Ext, RegInv, Update(x) PROVE RegInv'
  OBVIOUS
<1> USE DEF RegInv, Update, Reporter
<1> DEFINE r == got[x][1]
           f == got[x][2]
<1>1. /\ reporter' \in [Ext -> RegistersAt] /\ reporter'[x] = "reported" /\ reporter[x] = "reporting"
      /\ \A e \in Ext \ {x} : reporter'[e] = reporter[e]
  BY DEF RegTypes, RegistersAt
<1>2. /\ r \in Nat /\ f \in Nat /\ r <= registered /\ f <= failedCount
      /\ registered \in Nat /\ failedCount \in Nat
      /\ shown.registered \in Nat /\ shown.failed \in Nat
      /\ shown.registered <= registered /\ shown.failed <= failedCount
  BY <1>1 DEF ReadInv, RegTypes, Banner
<1>3. /\ shown' \in Banner /\ shown'.done = shown.done
      /\ \/ shown'.registered = r /\ shown'.failed = f /\ r + f >= shown.registered + shown.failed
         \/ shown' = shown /\ ~(r + f >= shown.registered + shown.failed)
  BY DEF RegTypes, Banner, NotOlder
<1>4. Heard' = Heard
  BY <1>1 DEF Heard
<1>5. RegTypes'
  BY <1>1, <1>3 DEF RegTypes
<1>6. CountedInv'
  BY <1>4 DEF CountedInv
<1>7. ReadInv'
  BY <1>1, <1>2, <1>3 DEF ReadInv, RegTypes
<1>8. OnItsWay'
  <2>1. CASE r = registered /\ f = failedCount
    <3>1. shown'.registered = registered /\ shown'.failed = failedCount
      BY <1>2, <1>3, <2>1
    <3> QED BY <3>1 DEF OnItsWay
  <2>2. CASE ~(r = registered /\ f = failedCount)
    <3>1. CASE shown.registered = registered /\ shown.failed = failedCount
      <4>1. shown' = shown
        BY <1>2, <1>3, <2>2, <3>1
      <4> QED BY <3>1, <4>1 DEF OnItsWay
    <3>2. CASE \E e \in Ext : BringsBoth(e)
      <4>1. PICK e \in Ext : BringsBoth(e)
        BY <3>2
      <4>2. e # x
        BY <1>1, <2>2, <4>1 DEF BringsBoth
      <4>3. BringsBoth(e)'
        BY <1>1, <4>1, <4>2 DEF BringsBoth
      <4> QED BY <4>3 DEF OnItsWay
    <3> QED BY <3>1, <3>2 DEF OnItsWay
  <2> QED BY <2>1, <2>2
<1>9. DoneInv'
  <2>1. ~shown.done
    BY <1>1 DEF DoneInv
  <2> QED BY <1>1, <1>3, <2>1 DEF DoneInv
<1> QED BY <1>5, <1>6, <1>7, <1>8, <1>9

LEMMA RefreshRegInv == \A x \in Ext : RegInv /\ Refresh(x) => RegInv'
<1> SUFFICES ASSUME NEW x \in Ext, RegInv, Refresh(x) PROVE RegInv'
  OBVIOUS
<1> USE DEF RegInv, Refresh
<1>1. IsFiniteSet(notRegistered) /\ Cardinality(notRegistered) \in Nat
  BY FS_Subset, FS_CardinalityType, RegistrationAssumption DEF RegTypes
<1>2. notRegistered' \subseteq Ext /\ refreshFailures' \in Nat
  BY DEF RegTypes
<1>3. Cardinality(notRegistered') <= refreshFailures'
  <2>1. CASE x \in notRegistered /\ notRegistered' = notRegistered \ {x} /\ refreshFailures' = refreshFailures
    <3>1. Cardinality(notRegistered') = Cardinality(notRegistered) - 1
      BY <1>1, <2>1, FS_RemoveElement
    <3> QED BY <1>1, <2>1, <3>1 DEF DoneInv, RegTypes
  <2>2. CASE notRegistered' = notRegistered \cup {x} /\ refreshFailures' = refreshFailures + 1
    <3>1. /\ IsFiniteSet(notRegistered \cup {x}) /\ Cardinality(notRegistered \cup {x}) \in Nat
          /\ Cardinality(notRegistered \cup {x}) <= Cardinality(notRegistered) + 1
      <4>1. IsFiniteSet(notRegistered \cup {x})
        BY <1>1, FS_AddElement
      <4>2. x \notin notRegistered => Cardinality(notRegistered \cup {x}) = Cardinality(notRegistered) + 1
        BY <1>1, FS_AddElement
      <4>3. x \in notRegistered => notRegistered \cup {x} = notRegistered
        OBVIOUS
      <4> QED BY <1>1, <4>1, <4>2, <4>3
    <3>2. Cardinality(notRegistered) <= refreshFailures /\ refreshFailures \in Nat
      BY DEF DoneInv, RegTypes
    <3> QED BY <1>1, <2>2, <3>1, <3>2
  <2> QED BY <2>1, <2>2
<1>4. RegTypes'
  BY <1>2 DEF RegTypes
<1>5. CountedInv' /\ ReadInv' /\ OnItsWay'
  BY DEF CountedInv, Heard, ReadInv, OnItsWay, BringsBoth
<1>6. DoneInv'
  BY <1>3 DEF DoneInv
<1> QED BY <1>4, <1>5, <1>6

LEMMA NextRegInv == RegInv /\ [FeedNext]_feedVars => RegInv'
<1> SUFFICES ASSUME RegInv, [FeedNext]_feedVars PROVE RegInv'
  OBVIOUS
<1>1. CASE RegNext
  BY <1>1, StartRegInv, FinishRegInv, RegisterRegInv, LoadRegisteredRegInv, LoadFailedRegInv,
     UpdateRegInv, RefreshRegInv DEF RegNext
<1>2. CASE RestartAll
  BY <1>2, RestartRegInv DEF RestartAll
<1>3. CASE UNCHANGED regVars
  BY <1>3 DEF regVars, RegInv, RegTypes, CountedInv, Heard, ReadInv, OnItsWay, BringsBoth, DoneInv
<1> QED
  BY <1>1, <1>2, <1>3 DEF FeedNext, feedVars

\* The banner never shows more than happened, shows exactly that once it is done,
\* and says all are registered only if they were (registration.go:74-90).
THEOREM BannerAlwaysRight == FeedSpec => []BannerIsRight
<1>1. RegInv => BannerIsRight
  <2> SUFFICES ASSUME RegInv PROVE BannerIsRight
    OBVIOUS
  <2> USE DEF RegInv
  <2>1. shown.done => registered + failedCount = Total
    <3> SUFFICES ASSUME shown.done PROVE registered + failedCount = Total
      OBVIOUS
    <3>1. Heard = Ext
      BY DEF Heard, DoneInv
    <3> QED BY <3>1 DEF CountedInv, Total
  <2>2. CountsShown
    BY <2>1 DEF CountsShown, ReadInv, DoneInv
  <2>3. ReadyMeansRegistered
    BY <2>1 DEF ReadyMeansRegistered, DoneInv, RegTypes
  <2> QED BY <2>2, <2>3 DEF BannerIsRight
<1>2. FeedInit => RegInv
  BY InitRegInv DEF FeedInit
<1> QED BY <1>1, <1>2, NextRegInv, PTL DEF FeedSpec

-----------------------------------------------------------------------------
(***************************************************************************)
(* The event log, as part of the feed.                                     *)
(***************************************************************************)

EventTypes == TypeOK /\ \A e \in ToSet(events) : e <= nextEventSeq

\* No number is given out twice.
NumbersInv ==
    /\ \A w \in Writer : stamp[w] <= nextEventSeq
    /\ \A v, w \in Writer : stamp[v] = stamp[w] /\ v # w => stamp[v] = 0
    /\ \A i \in DOMAIN events : \A w \in Writer : stamp[w] # events[i]
    /\ \A i, j \in DOMAIN events : events[i] = events[j] => i = j

\* The numbers before the i-th event's that were appended after it, or still will be.
Late(i) ==
    {x \in Pending \cup {events[j] : j \in (i + 1)..Len(events)} : x # 0 /\ x < events[i]}

\* Each of them was some other writer's when the event was appended.
LateInv == \A i \in DOMAIN events : IsFiniteSet(Late(i)) /\ Cardinality(Late(i)) < Cardinality(Writer)

\* The page has only what it has seen of this session.
PageInv ==
    \A line \in DOMAIN log :
        log[line] = 1 /\ line[1] <= session /\ (line[1] = session => line[2] <= lastSeen)

EventInv == EventTypes /\ NumbersInv /\ LateInv /\ RecentEventsKept /\ PageInv

LEMMA InitEventInv == Init => EventInv
<1> SUFFICES ASSUME Init PROVE EventInv
  OBVIOUS
<1>1. events = <<>> /\ DOMAIN events = {} /\ ToSet(events) = {} /\ Len(events) = 0
  BY DEF Init, ToSet
<1>2. log = EmptyBag /\ DOMAIN log = {}
  BY DEF Init, EmptyBag, SetToBag
<1>3. EventTypes
  BY <1>1, <1>2, EventLogAssumption DEF EventTypes, TypeOK, Init
<1>4. NumbersInv /\ LateInv /\ RecentEventsKept
  BY <1>1 DEF Init, NumbersInv, LateInv, RecentEventsKept
<1>5. PageInv
  BY <1>2 DEF PageInv
<1> QED BY <1>3, <1>4, <1>5 DEF EventInv

LEMMA RestartEventInv == EventInv /\ Restart => EventInv'
<1> SUFFICES ASSUME EventInv, Restart PROVE EventInv'
  OBVIOUS
<1> USE DEF EventInv, EventTypes, TypeOK, Restart
<1>1. events' = <<>> /\ DOMAIN events' = {} /\ ToSet(events)' = {} /\ Len(events') = 0
  BY DEF ToSet
<1>2. EventTypes'
  BY <1>1, EventLogAssumption
<1>3. NumbersInv' /\ LateInv' /\ RecentEventsKept'
  BY <1>1 DEF NumbersInv, LateInv, RecentEventsKept
<1>4. PageInv'
  <2> SUFFICES ASSUME NEW line \in DOMAIN log
               PROVE  log[line] = 1 /\ line[1] <= session + 1 /\ line[1] # session + 1
    BY DEF PageInv
  <2>1. line[1] \in Nat /\ line[1] <= session /\ session \in Nat /\ log[line] = 1
    BY DEF PageInv
  <2> QED BY <2>1
<1> QED BY <1>2, <1>3, <1>4

LEMMA OpenPageEventInv == EventInv /\ OpenPage => EventInv'
<1> SUFFICES ASSUME EventInv, OpenPage PROVE EventInv'
  OBVIOUS
<1> USE DEF EventInv, OpenPage
<1>1. DOMAIN log' = {}
  BY DEF EmptyBag, SetToBag
<1>2. EventTypes'
  BY <1>1 DEF EventTypes, TypeOK
<1>3. NumbersInv' /\ LateInv' /\ RecentEventsKept'
  BY DEF NumbersInv, LateInv, Late, Pending, RecentEventsKept
<1>4. PageInv'
  BY <1>1 DEF PageInv
<1> QED BY <1>2, <1>3, <1>4

LEMMA RenderEventInv == EventInv /\ RenderEvents => EventInv'
<1> SUFFICES ASSUME EventInv, RenderEvents PROVE EventInv'
  OBVIOUS
<1> USE DEF EventInv
<1> DEFINE new == {events[i] : i \in Newer(events, lastSeen)}
           lines == {<<session, e>> : e \in new}
<1>1. /\ \A e \in new : e <= lastSeen' /\ e > lastSeen /\ e \in Nat
      /\ lastSeen' \in new /\ log' = log (+) SetToBag(lines)
      /\ UNCHANGED <<nextEventSeq, stamp, events, session>>
  BY DEF RenderEvents, Newer, EventTypes, TypeOK
<1>2. lastSeen' \in Nat /\ lastSeen <= lastSeen' /\ lastSeen \in Nat /\ session \in Nat
  BY <1>1 DEF EventTypes, TypeOK
<1>3. lines \cap DOMAIN log = {}
  BY <1>1, <1>2 DEF PageInv
<1>4. /\ DOMAIN log' = DOMAIN log \cup lines
      /\ \A line \in lines : log'[line] = 1
      /\ \A line \in DOMAIN log : log'[line] = log[line]
  BY <1>1, <1>3 DEF (+), SetToBag, EventTypes, TypeOK, PageInv
<1>5. EventTypes'
  <2>1. lines \subseteq Nat \X Nat
    BY <1>1, <1>2
  <2> HIDE DEF new, lines
  <2> QED BY <1>1, <1>2, <1>4, <2>1 DEF EventTypes, TypeOK
<1>6. NumbersInv' /\ LateInv' /\ RecentEventsKept'
  <2>1. /\ nextEventSeq' = nextEventSeq /\ stamp' = stamp /\ events' = events
        /\ NumbersInv /\ LateInv /\ RecentEventsKept
    BY <1>1
  <2>2. NumbersInv'
    BY ONLY <2>1 DEF NumbersInv, Pending
  <2>3. LateInv'
    BY ONLY <2>1 DEF LateInv, Late, Pending
  <2>4. RecentEventsKept'
    BY ONLY <2>1 DEF RecentEventsKept, Pending
  <2> QED BY <2>2, <2>3, <2>4
<1>7. PageInv'
  <2> SUFFICES ASSUME NEW line \in DOMAIN log'
               PROVE  /\ log'[line] = 1 /\ line[1] <= session
                      /\ line[1] = session => line[2] <= lastSeen'
    BY <1>1 DEF PageInv
  <2>1. CASE line \in lines
    BY <1>1, <1>2, <1>4, <2>1
  <2>2. CASE line \in DOMAIN log
    <3>1. line[2] \in Nat /\ log[line] = 1 /\ line[1] <= session /\ (line[1] = session => line[2] <= lastSeen)
      BY <2>2 DEF PageInv, EventTypes, TypeOK
    <3>2. log'[line] = 1
      BY <1>4, <2>2, <3>1
    <3> HIDE DEF new, lines
    <3> QED BY <1>2, <3>1, <3>2
  <2> QED BY <1>4, <2>1, <2>2
<1> QED BY <1>5, <1>6, <1>7

LEMMA StampEventInv == \A w \in Writer : EventInv /\ Stamp(w) => EventInv'
<1> SUFFICES ASSUME NEW w \in Writer, EventInv, Stamp(w) PROVE EventInv'
  OBVIOUS
<1> USE DEF EventInv
<1>1. /\ stamp' \in [Writer -> Nat] /\ stamp'[w] = nextEventSeq + 1 /\ stamp[w] = 0
      /\ \A v \in Writer \ {w} : stamp'[v] = stamp[v]
      /\ nextEventSeq' = nextEventSeq + 1 /\ nextEventSeq \in Nat
      /\ UNCHANGED <<events, session, lastSeen, log>>
  BY DEF Stamp, EventTypes, TypeOK
<1>2. \A i \in DOMAIN events : events[i] \in Nat \ {0} /\ events[i] <= nextEventSeq
  BY DEF EventTypes, TypeOK, ToSet
<1>3. EventTypes'
  BY <1>1, <1>2 DEF EventTypes, TypeOK, ToSet
<1>4. NumbersInv'
  <2>1. \A v \in Writer : stamp[v] \in Nat /\ stamp[v] <= nextEventSeq
    BY DEF NumbersInv, EventTypes, TypeOK
  <2>2. \A v \in Writer : stamp'[v] <= nextEventSeq'
    BY <1>1, <2>1
  <2>3. ASSUME NEW u \in Writer, NEW v \in Writer, stamp'[u] = stamp'[v], u # v
        PROVE  stamp'[u] = 0
    BY <1>1, <2>1, <2>3 DEF NumbersInv
  <2>4. ASSUME NEW i \in DOMAIN events, NEW v \in Writer
        PROVE  stamp'[v] # events[i]
    BY <1>1, <1>2 DEF NumbersInv
  <2> QED BY <1>1, <2>2, <2>3, <2>4 DEF NumbersInv
<1>5. LateInv'
  <2>1. \A i \in DOMAIN events : Late(i)' = Late(i)
    BY <1>1, <1>2 DEF Late, Pending, EventTypes, TypeOK
  <2> QED BY <1>1, <2>1 DEF LateInv
<1>6. RecentEventsKept'
  <2> SUFFICES ASSUME NEW e \in 1..(nextEventSeq + 1)
               PROVE  \/ e \in Pending' \cup ToSet(events)
                      \/ e + MaxRecentEvents < (nextEventSeq + 1) + Cardinality(Writer)
    BY <1>1 DEF RecentEventsKept
  <2>1. e \in Pending => e \in Pending'
    BY <1>1 DEF Pending
  <2>2. e = nextEventSeq + 1 => e \in Pending'
    BY <1>1 DEF Pending
  <2>3. Cardinality(Writer) \in Nat /\ MaxRecentEvents \in Nat
    BY EventLogAssumption, FS_CardinalityType
  <2> QED BY <1>1, <2>1, <2>2, <2>3 DEF RecentEventsKept
<1>7. PageInv'
  BY <1>1 DEF PageInv
<1> QED BY <1>3, <1>4, <1>5, <1>6, <1>7

\* Appending to a ring drops its first when it is full.
LEMMA RingGains ==
    ASSUME NEW s \in Seq(Nat \ {0}), NEW x \in Nat \ {0}, Len(s) <= MaxRecentEvents
    PROVE  LET r == LastOnes(Append(s, x), MaxRecentEvents) IN
           /\ r \in Seq(Nat \ {0}) /\ Len(r) <= MaxRecentEvents
           /\ \E d \in {0, 1} :
                /\ Len(r) = Len(s) + 1 - d /\ (d = 1 => Len(s) = MaxRecentEvents)
                /\ \A i \in 1..Len(r) : r[i] = IF i + d = Len(s) + 1 THEN x ELSE s[i + d]
<1> DEFINE a == Append(s, x)
           r == LastOnes(a, MaxRecentEvents)
<1>1. a \in Seq(Nat \ {0}) /\ Len(a) = Len(s) + 1 /\ Len(s) \in Nat /\ MaxRecentEvents \in Nat \ {0}
      /\ a[Len(s) + 1] = x /\ \A i \in 1..Len(s) : a[i] = s[i]
  BY EventLogAssumption
<1> HIDE DEF a
<1>2. CASE Len(s) < MaxRecentEvents
  <2>1. r = a
    BY <1>1, <1>2 DEF LastOnes
  <2> QED BY <1>1, <1>2, <2>1 DEF a
<1>3. CASE Len(s) = MaxRecentEvents
  <2>1. r = SubSeq(a, 2, Len(a))
    BY <1>1, <1>3 DEF LastOnes
  <2>2. \A i \in 2..Len(a) : a[i] \in Nat \ {0}
    BY <1>1
  <2>3. r \in Seq(Nat \ {0}) /\ Len(r) = Len(s) /\ \A i \in 1..Len(s) : r[i] = a[i + 1]
    <3>1. 2 \in Int /\ Len(a) \in Int
      BY <1>1
    <3>2. /\ SubSeq(a, 2, Len(a)) \in Seq(Nat \ {0})
          /\ Len(SubSeq(a, 2, Len(a))) = IF 2 <= Len(a) THEN Len(a) - 2 + 1 ELSE 0
          /\ \A i \in 1..Len(a) - 2 + 1 : SubSeq(a, 2, Len(a))[i] = a[2 + i - 1]
      BY <2>2, <3>1, SubSeqProperties
    <3> QED BY <1>1, <1>3, <2>1, <3>2
  <2> QED BY <1>1, <1>3, <2>3 DEF a
<1> QED BY <1>1, <1>2, <1>3

\* What a set of indices is mapped to has no more members than it.
LEMMA ImageSize ==
    ASSUME NEW f, NEW S, IsFiniteSet(S)
    PROVE  IsFiniteSet({f[x] : x \in S}) /\ Cardinality({f[x] : x \in S}) <= Cardinality(S)
<1> DEFINE T == {f[x] : x \in S}
           g == [x \in S |-> f[x]]
<1>1. g \in Surjection(S, T)
  BY DEF Surjection
<1> QED BY <1>1, FS_Surjection

\* The positions of a ring that was n long and has dropped its first if d = 1.
LEMMA RingCounts ==
    ASSUME NEW n \in Nat, NEW m \in Nat, NEW max \in Nat \ {0}, NEW d,
           n <= max, d = 0 \/ d = 1, m + d = n + 1, d = 1 => n = max
    PROVE  /\ m \in 1..m /\ n + 1 = m + d
           /\ d = 1 => n = max /\ m = max /\ 1 \in 1..n
           /\ \A i \in 1..m : i + d = n + 1 => (i + 1)..m = {}
           /\ \A k \in 1..n : ~(d = 1 /\ k = 1) => k - d \in 1..m /\ (k - d) + d = k /\ k # n + 1
OBVIOUS

LEMMA AppendEventInv == \A w \in Writer : EventInv /\ AppendEvent(w) => EventInv'
<1> SUFFICES ASSUME NEW w \in Writer, EventInv, AppendEvent(w) PROVE EventInv'
  OBVIOUS
<1> USE DEF EventInv
<1> DEFINE x == stamp[w]
           max == MaxRecentEvents
           all == Cardinality(Writer)
<1>1. /\ stamp \in [Writer -> Nat] /\ stamp' \in [Writer -> Nat] /\ x \in Nat \ {0} /\ stamp'[w] = 0
      /\ \A v \in Writer \ {w} : stamp'[v] = stamp[v]
      /\ UNCHANGED <<nextEventSeq, session, lastSeen, log>>
      /\ x <= nextEventSeq /\ nextEventSeq \in Nat
  BY DEF AppendEvent, EventTypes, TypeOK, NumbersInv
<1>2. events \in Seq(Nat \ {0}) /\ Len(events) <= max /\ Len(events) \in Nat /\ DOMAIN events = 1..Len(events)
      /\ max \in Nat \ {0} /\ all \in Nat /\ IsFiniteSet(Writer)
  BY EventLogAssumption, FS_CardinalityType DEF EventTypes, TypeOK
<1>3. events' \in Seq(Nat \ {0}) /\ Len(events') <= max /\ Len(events') \in Nat /\ DOMAIN events' = 1..Len(events')
  <2>1. events' = LastOnes(Append(events, x), max)
    BY DEF AppendEvent
  <2> QED BY <1>1, <1>2, <2>1, RingGains
<1>4. PICK d \in {0, 1} :
        /\ Len(events') = Len(events) + 1 - d /\ (d = 1 => Len(events) = max)
        /\ \A i \in 1..Len(events') : events'[i] = IF i + d = Len(events) + 1 THEN x ELSE events[i + d]
  <2> DEFINE ring == LastOnes(Append(events, x), max)
  <2>1. events' = ring
    BY DEF AppendEvent
  <2>2. \E d \in {0, 1} :
          /\ Len(ring) = Len(events) + 1 - d /\ (d = 1 => Len(events) = max)
          /\ \A i \in 1..Len(ring) : ring[i] = IF i + d = Len(events) + 1 THEN x ELSE events[i + d]
    <3> HIDE DEF x
    <3>1. x \in Nat \ {0} /\ events \in Seq(Nat \ {0}) /\ Len(events) <= MaxRecentEvents
      BY <1>1, <1>2
    <3> QED BY <3>1, RingGains
  <2> HIDE DEF ring
  <2> QED BY <2>1, <2>2
<1>5. \A i \in 1..Len(events) : events[i] \in Nat \ {0} /\ events[i] <= nextEventSeq /\ events[i] # x
  BY <1>2 DEF EventTypes, ToSet, NumbersInv
<1>6. \A i \in 1..Len(events') :
        \/ i + d = Len(events) + 1 /\ events'[i] = x
        \/ i + d \in 1..Len(events) /\ events'[i] = events[i + d]
  <2> SUFFICES ASSUME NEW i \in 1..Len(events')
               PROVE  \/ i + d = Len(events) + 1 /\ events'[i] = x
                      \/ i + d \in 1..Len(events) /\ events'[i] = events[i + d]
    OBVIOUS
  <2> HIDE DEF x, max, all
  <2>1. events'[i] = IF i + d = Len(events) + 1 THEN x ELSE events[i + d]
    BY <1>4
  <2>2. i \in Nat /\ i >= 1 /\ i <= Len(events')
    BY <1>3
  <2>3. d \in Nat /\ Len(events') + d = Len(events) + 1
    <3>1. Len(events') = Len(events) + 1 - d /\ (d = 0 \/ d = 1)
      BY <1>4
    <3> QED BY ONLY <3>1, <1>2, <1>3
  <2>4. i + d = Len(events) + 1 \/ i + d \in 1..Len(events)
    BY ONLY <2>2, <2>3, <1>2, <1>3
  <2>5. i + d \in 1..Len(events) => i + d # Len(events) + 1
    BY ONLY <1>2
  <2> QED BY ONLY <2>1, <2>4, <2>5
<1>61. (d = 0 \/ d = 1) /\ Len(events') + d = Len(events) + 1 /\ (d = 1 => Len(events) = max)
  <2> HIDE DEF x, max, all
  <2>1. Len(events') = Len(events) + 1 - d /\ (d = 1 => Len(events) = max)
    BY <1>4
  <2>2. d = 0 \/ d = 1
    OBVIOUS
  <2>3. Len(events') + d = Len(events) + 1
    <3>1. Len(events') = Len(events) + 1 - d
      BY ONLY <2>1
    <3> QED BY ONLY <3>1, <2>2, <1>2, <1>3
  <2> QED BY ONLY <2>1, <2>2, <2>3
<1>62. LET n == Len(events)  m == Len(events') IN
       /\ m \in 1..m /\ n + 1 = m + d
       /\ d = 1 => n = max /\ m = max /\ 1 \in 1..n
       /\ \A i \in 1..m : i + d = n + 1 => (i + 1)..m = {}
       /\ \A k \in 1..n : ~(d = 1 /\ k = 1) => k - d \in 1..m /\ (k - d) + d = k /\ k # n + 1
  <2> DEFINE n == Len(events)
             m == Len(events')
  <2>1. n \in Nat /\ m \in Nat /\ max \in Nat \ {0} /\ n <= max
    BY <1>2, <1>3
  <2>2. (d = 0 \/ d = 1) /\ m + d = n + 1 /\ (d = 1 => n = max)
    BY <1>61
  <2> HIDE DEF n, m, max
  <2>3. /\ m \in 1..m /\ n + 1 = m + d
        /\ d = 1 => n = max /\ m = max /\ 1 \in 1..n
        /\ \A i \in 1..m : i + d = n + 1 => (i + 1)..m = {}
        /\ \A k \in 1..n : ~(d = 1 /\ k = 1) => k - d \in 1..m /\ (k - d) + d = k /\ k # n + 1
    BY <2>1, <2>2, RingCounts
  <2> QED BY <2>3 DEF n, m, max
<1>7. EventTypes'
  <2>1. \A i \in 1..Len(events') : events'[i] <= nextEventSeq
    BY <1>1, <1>5, <1>6
  <2> QED BY <1>1, <1>3, <2>1 DEF EventTypes, TypeOK, ToSet
<1>8. NumbersInv'
  <2>1. \A v \in Writer : stamp'[v] <= nextEventSeq'
    BY <1>1 DEF NumbersInv
  <2>2. \A u, v \in Writer : stamp'[u] = stamp'[v] /\ u # v => stamp'[u] = 0
    BY <1>1 DEF NumbersInv
  <2>3. ASSUME NEW i \in 1..Len(events'), NEW v \in Writer
        PROVE  stamp'[v] # events'[i]
    <3>1. CASE v = w
      BY <1>1, <1>5, <1>6, <3>1
    <3>2. CASE v # w
      <4>1. stamp'[v] = stamp[v] /\ (stamp[v] = x => stamp[v] = 0)
        BY <1>1, <3>2 DEF NumbersInv
      <4>2. \A k \in 1..Len(events) : stamp[v] # events[k]
        BY <1>2 DEF NumbersInv
      <4> QED BY <1>1, <1>6, <4>1, <4>2
    <3> QED BY <3>1, <3>2
  <2>4. ASSUME NEW i \in 1..Len(events'), NEW j \in 1..Len(events'), events'[i] = events'[j]
        PROVE  i = j
    <3>1. \A k, n \in 1..Len(events) : events[k] = events[n] => k = n
      BY <1>2 DEF NumbersInv
    <3>2. i + d = j + d
      BY <1>5, <1>6, <2>4, <3>1
    <3> QED BY <1>3, <3>2
  <2> QED BY <1>3, <2>1, <2>2, <2>3, <2>4 DEF NumbersInv
<1>9. LateInv'
  <2> SUFFICES ASSUME NEW i \in 1..Len(events')
               PROVE  IsFiniteSet(Late(i)') /\ Cardinality(Late(i)') < all
    BY <1>3 DEF LateInv
  <2>1. CASE i + d = Len(events) + 1
    <3> DEFINE others == {stamp[v] : v \in Writer \ {w}}
    <3>1. IsFiniteSet(Writer \ {w}) /\ Cardinality(Writer \ {w}) = all - 1
      BY <1>2, FS_RemoveElement
    <3>2. IsFiniteSet(others) /\ Cardinality(others) <= all - 1
      BY <3>1, ImageSize
    <3>3. (i + 1)..Len(events') = {}
      BY <1>62, <2>1
    <3>4. Late(i)' \subseteq others
      BY <1>1, <3>3 DEF Late, Pending
    <3>5. IsFiniteSet(Late(i)') /\ Cardinality(Late(i)') <= Cardinality(others)
      BY <3>2, <3>4, FS_Subset
    <3>6. Cardinality(others) \in Nat /\ Cardinality(Late(i)') \in Nat
      BY <3>2, <3>5, FS_CardinalityType
    <3> QED BY <1>2, <3>2, <3>5, <3>6
  <2>2. CASE i + d \in 1..Len(events) /\ events'[i] = events[i + d]
    <3>1. Late(i)' \subseteq Late(i + d)
      <4> SUFFICES ASSUME NEW y, y \in Late(i)'
                   PROVE  y \in Late(i + d)
        OBVIOUS
      <4>1. /\ y # 0 /\ y < events'[i]
            /\ \/ \E v \in Writer : y = stamp'[v]
               \/ \E j \in (i + 1)..Len(events') : y = events'[j]
        BY DEF Late, Pending
      <4>2. y # 0 /\ y < events[i + d]
        BY <2>2, <4>1
      <4>3. CASE \E v \in Writer : y = stamp'[v]
        <5>1. PICK v \in Writer : y = stamp'[v]
          BY <4>3
        <5>2. y = stamp[v]
          BY <1>1, <4>2, <5>1
        <5> QED BY <4>2, <5>2 DEF Late, Pending
      <4>4. CASE \E j \in (i + 1)..Len(events') : y = events'[j]
        <5>1. PICK j \in (i + 1)..Len(events') : y = events'[j]
          BY <4>4
        <5>2. j \in 1..Len(events')
          BY <5>1, <1>3
        <5>3. CASE events'[j] = x
          BY <4>2, <5>1, <5>3 DEF Late, Pending
        <5>4. CASE j + d \in 1..Len(events) /\ events'[j] = events[j + d]
          <6>1. j + d \in (i + d + 1)..Len(events)
            BY <1>2, <1>3, <5>1, <5>4
          <6> QED BY <4>2, <5>1, <5>4, <6>1 DEF Late
        <5> QED BY <1>6, <5>2, <5>3, <5>4
      <4> QED BY <4>1, <4>3, <4>4
    <3>2. IsFiniteSet(Late(i + d)) /\ Cardinality(Late(i + d)) < all
      BY <1>2, <2>2 DEF LateInv
    <3>3. IsFiniteSet(Late(i)') /\ Cardinality(Late(i)') <= Cardinality(Late(i + d))
      BY <3>1, <3>2, FS_Subset
    <3>4. Cardinality(Late(i + d)) \in Nat /\ Cardinality(Late(i)') \in Nat
      BY <3>2, <3>3, FS_CardinalityType
    <3> QED BY <1>2, <3>2, <3>3, <3>4
  <2> QED BY <1>6, <2>1, <2>2
\* The event that is dropped has max later ones but for the late ones among them.
<1>10. ASSUME d = 1
       PROVE  events[1] + max < nextEventSeq + all
  <2> DEFINE e == events[1]
             newer == (e + 1)..nextEventSeq
             f == [j \in 1..max |-> events'[j]]
  <2>1. Len(events) = max /\ Len(events') = max /\ 1 \in 1..Len(events)
    BY <1>62, <1>10
  <2>2. IsFiniteSet(Late(1)) /\ Cardinality(Late(1)) < all /\ e \in Nat \ {0} /\ e <= nextEventSeq
    BY <1>2, <1>5, <2>1 DEF LateInv
  <2>3. IsFiniteSet(newer) /\ Cardinality(newer) = nextEventSeq - e
    <3>1. e + 1 \in Int /\ nextEventSeq \in Int
      BY <1>1, <2>2
    <3>2. /\ IsFiniteSet(newer)
          /\ Cardinality(newer) = IF e + 1 > nextEventSeq THEN 0 ELSE nextEventSeq - (e + 1) + 1
      BY <3>1, FS_Interval
    <3> QED BY <1>1, <2>2, <3>2
  <2>4. IsFiniteSet(Late(1) \cup newer) /\ Cardinality(Late(1) \cup newer) <= Cardinality(Late(1)) + Cardinality(newer)
    <3>1. IsFiniteSet(Late(1) \cap newer)
      BY <2>2, FS_Intersection
    <3>2. Cardinality(Late(1) \cap newer) \in Nat /\ Cardinality(Late(1)) \in Nat /\ Cardinality(newer) \in Nat
      BY <2>2, <2>3, <3>1, FS_CardinalityType
    <3>3. /\ IsFiniteSet(Late(1) \cup newer)
          /\ Cardinality(Late(1) \cup newer) = Cardinality(Late(1)) + Cardinality(newer) - Cardinality(Late(1) \cap newer)
      BY <2>2, <2>3, FS_Union
    <3> HIDE DEF newer, e
    <3> QED BY <3>2, <3>3
  <2>5. \A j \in 1..max : events'[j] \in Late(1) \cup newer
    <3> SUFFICES ASSUME NEW j \in 1..max
                 PROVE  events'[j] \in Late(1) \cup newer
      OBVIOUS
    <3>1. CASE events'[j] = x
      <4>1. x # e /\ x \in Nat /\ x # 0 /\ x <= nextEventSeq
        BY <1>1, <1>5, <2>1
      <4>2. x < e => x \in Late(1)
        BY <1>1 DEF Late, Pending
      <4>3. x > e => x \in newer
        BY <1>1, <2>2, <4>1
      <4> QED BY <2>2, <3>1, <4>1, <4>2, <4>3
    <3>2. CASE j + 1 \in 1..Len(events) /\ events'[j] = events[j + 1]
      <4>1. events[j + 1] # e
        <5>1. j + 1 # 1
          BY <1>2
        <5> QED BY <1>2, <2>1, <3>2, <5>1 DEF NumbersInv
      <4>2. events[j + 1] \in Nat /\ events[j + 1] # 0 /\ events[j + 1] <= nextEventSeq
        BY <1>5, <3>2
      <4>3. events[j + 1] < e => events[j + 1] \in Late(1)
        <5>1. j + 1 \in (1 + 1)..Len(events)
          BY <1>2, <3>2
        <5> QED BY <4>2, <5>1 DEF Late
      <4>4. events[j + 1] > e => events[j + 1] \in newer
        BY <1>1, <2>2, <4>2
      <4> QED BY <2>2, <3>2, <4>1, <4>2, <4>3, <4>4
    <3> QED BY <1>6, <1>10, <2>1, <3>1, <3>2
  <2>6. f \in Injection(1..max, Late(1) \cup newer)
    <3>1. f \in [1..max -> Late(1) \cup newer]
      BY <2>5
    <3>2. \A i, j \in 1..max : f[i] = f[j] => i = j
      BY <1>3, <1>8, <2>1 DEF NumbersInv
    <3> HIDE DEF f
    <3> QED BY <3>1, <3>2 DEF Injection, IsInjective
  <2>7. Cardinality(1..max) <= Cardinality(Late(1) \cup newer) /\ Cardinality(1..max) = max
    <3>1. Cardinality(1..max) = max
      <4>1. 1 \in Int /\ max \in Int
        BY <1>2
      <4>2. Cardinality(1..max) = IF 1 > max THEN 0 ELSE max - 1 + 1
        BY <4>1, FS_Interval
      <4> QED BY <1>2, <4>2
    <3> HIDE DEF f, newer
    <3> QED BY <2>4, <2>6, <3>1, FS_Injection
  <2>8. Cardinality(Late(1)) \in Nat /\ Cardinality(Late(1) \cup newer) \in Nat
    BY <2>2, <2>4, FS_CardinalityType
  <2> HIDE DEF newer, e
  <2>9. e + max < nextEventSeq + all
    BY <1>1, <1>2, <2>2, <2>3, <2>4, <2>7, <2>8
  <2> QED BY <2>9 DEF e
<1>11. RecentEventsKept'
  <2> SUFFICES ASSUME NEW e \in 1..nextEventSeq
               PROVE  e \in Pending' \cup ToSet(events)' \/ e + max < nextEventSeq + all
    BY <1>1 DEF RecentEventsKept
  <2>1. CASE e \in Pending
    <3>1. PICK v \in Writer : e = stamp[v]
      BY <2>1 DEF Pending
    <3>2. CASE v # w
      BY <1>1, <3>1, <3>2 DEF Pending
    <3>3. CASE v = w
      <4>1. Len(events') + d = Len(events) + 1
        BY <1>61
      <4>2. Len(events') \in 1..Len(events')
        BY <1>62
      <4>3. events'[Len(events')] = x
        BY <1>4, <4>1, <4>2
      <4> QED BY <1>3, <3>1, <3>3, <4>2, <4>3 DEF ToSet
    <3> QED BY <3>2, <3>3
  <2>2. CASE e \in ToSet(events)
    <3>1. PICK k \in 1..Len(events) : e = events[k]
      BY <1>2, <2>2 DEF ToSet
    <3>2. CASE d = 1 /\ k = 1
      BY <1>10, <3>1, <3>2
    <3>3. CASE ~(d = 1 /\ k = 1)
      <4>1. k - d \in 1..Len(events') /\ (k - d) + d = k /\ k # Len(events) + 1
        BY <1>62, <3>3
      <4>2. events'[k - d] = e
        BY <1>4, <3>1, <4>1
      <4> QED BY <1>3, <4>1, <4>2 DEF ToSet
    <3> QED BY <3>2, <3>3
  <2> QED BY <2>1, <2>2 DEF RecentEventsKept
<1>12. PageInv'
  BY <1>1 DEF PageInv
<1> QED BY <1>7, <1>8, <1>9, <1>11, <1>12

LEMMA NextEventInv == EventInv /\ [FeedNext]_feedVars => EventInv'
<1> SUFFICES ASSUME EventInv, [FeedNext]_feedVars PROVE EventInv'
  OBVIOUS
<1>1. ASSUME NEW w \in Writer, Stamp(w) \/ AppendEvent(w)
      PROVE  EventInv'
  BY <1>1, StampEventInv, AppendEventInv
<1>2. CASE RenderEvents \/ OpenPage
  BY <1>2, RenderEventInv, OpenPageEventInv
<1>3. CASE RestartAll
  BY <1>3, RestartEventInv DEF RestartAll
<1>4. CASE UNCHANGED vars
  <2> USE <1>4 DEF vars
  <2>1. Pending' = Pending /\ ToSet(events)' = ToSet(events)
    BY DEF Pending, ToSet
  <2>2. EventTypes'
    BY <2>1 DEF EventInv, EventTypes, TypeOK
  <2>3. NumbersInv' /\ RecentEventsKept' /\ PageInv'
    BY <2>1 DEF EventInv, NumbersInv, RecentEventsKept, PageInv
  <2>4. LateInv'
    BY <2>1 DEF EventInv, LateInv, Late
  <2> QED BY <2>2, <2>3, <2>4 DEF EventInv
<1> QED
  BY <1>1, <1>2, <1>3, <1>4 DEF FeedNext, feedVars

\* Whatever the writers, reloads and restarts: an event leaves the ring only after
\* maxRecentEvents later ones, but for those appended late, and no line of the
\* page's log appears twice (session.go:540-560, app.js:679-700).
THEOREM EventsShownOnce == FeedSpec => []FeedInv
<1>1. EventInv => FeedInv
  BY DEF EventInv, EventTypes, PageInv, FeedInv, ShownOnce
<1>2. FeedInit => EventInv
  BY InitEventInv DEF FeedInit
<1> QED BY <1>1, <1>2, NextEventInv, PTL DEF FeedSpec

\* Dashboard's behaviours are the feed's or the login's.
COROLLARY DashboardInvariants == DashSpec => [](FeedInv /\ BannerIsRight /\ AuthInv)
<1>1. DashInit => FeedInit /\ AuthInit
  BY DEF DashInit
<1>2. [DashNext]_dashVars => [FeedNext]_feedVars /\ [AuthNext]_authVars
  BY DEF DashNext, LogIn, Watch, dashVars
<1>3. DashSpec => FeedSpec /\ AuthSpec
  BY <1>1, <1>2, PTL DEF DashSpec, FeedSpec, AuthSpec
<1> QED BY <1>3, EventsShownOnce, BannerAlwaysRight, OnePasswordInForce, PTL
=============================================================================
