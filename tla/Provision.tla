----------------------------- MODULE Provision -----------------------------
(***************************************************************************)
(* Provisioning a PBXware instance and resetting it (internal/wizard).     *)
(* Each job is one run of the wizard followed, if it was stored, by one    *)
(* reset of that server; several may run against the same PBXware, with    *)
(* nothing of each other's known to them but what PBXware answers.  A      *)
(* request may be refused, or carried out and its answer lost.             *)
(***************************************************************************)
EXTENDS Naturals, FiniteSets

CONSTANTS
    Job,
    Code,           \* tenant codes the user may choose
    Default,        \* the org of an edition without tenants
    Count,          \* ExtensionCount of each job's request
    MaxCount,       \* bound: the largest of them
    Batch,          \* extensionBatchSize, 100 in the code
    MaxSkips,       \* maxReservedSkips, 20 in the code
    MaxRetries      \* bound: retries of a batch within MaxWait

ASSUME ProvisionAssumption ==
    /\ IsFiniteSet(Job) /\ Default \notin Code
    /\ MaxCount \in Nat /\ Count \in [Job -> 1..MaxCount]
    /\ Batch \in Nat \ {0} /\ MaxSkips \in Nat /\ MaxRetries \in Nat

Numbers == 1..(MaxCount + MaxSkips + Batch)    \* counted from extBase
Orgs == Code \cup {Default}

VARIABLES
    multi, org, taken,     \* the edition, each job's org, numbers of others
    package, tenant,        \* PBXware's SwarmDialerPackage and tenants
    foreign,                \* tenants that were there before, not made by a job
    exts,                   \* its SwarmDialer extensions
    reloading,              \* Asterisk does not know all of them yet
    at,                     \* where each job is
    next, skips, tries,     \* candidate, reservedSkips, retries of this batch
    answer,                 \* the answered batch's results still to be read
    known,                  \* the job's srv.Extensions
    warned                  \* its reset has a warning

pbxVars == <<package, tenant, foreign, exts>>
jobVars == <<next, skips, tries, answer, known, warned>>
provVars == <<multi, org, taken, pbxVars, reloading, at, jobVars>>

-----------------------------------------------------------------------------
ProvisionInit ==
    /\ multi \in BOOLEAN
    /\ org \in (IF multi THEN [Job -> Code] ELSE [Job -> {Default}])
    /\ foreign \in SUBSET Code /\ (~multi => foreign = {})
    /\ taken \in SUBSET (1..(MaxSkips + 1)) /\ (multi /\ foreign = {} => taken = {})
    /\ package = FALSE
    /\ tenant = [o \in Orgs |-> IF o \in foreign \cup {Default} THEN "there" ELSE "none"]
    /\ exts = {} /\ reloading = FALSE
    /\ at = [j \in Job |-> "system"]
    /\ next = [j \in Job |-> 1] /\ skips = [j \in Job |-> 0] /\ tries = [j \in Job |-> 0]
    /\ answer = [j \in Job |-> <<>>] /\ known = [j \in Job |-> {}]
    /\ warned = [j \in Job |-> FALSE]

Goes(j, place) == at' = [at EXCEPT ![j] = place]
PBXUnchanged == UNCHANGED pbxVars

\* The run returns an error, and what it kept is gone.
Fails(j) ==
    /\ Goes(j, "failed")
    /\ next' = [next EXCEPT ![j] = 1] /\ skips' = [skips EXCEPT ![j] = 0]
    /\ tries' = [tries EXCEPT ![j] = 0] /\ answer' = [answer EXCEPT ![j] = <<>>]
    /\ known' = [known EXCEPT ![j] = {}] /\ UNCHANGED warned

Chosen == UNCHANGED <<multi, org, taken>>

\* PBXware loads its endpoints anew after a change of them.
Changed == reloading' = (reloading \/ exts' # exts)

\* License, local address and the PATCH of the system record.
RaiseSystem(j) ==
    /\ at[j] = "system"
    /\ Goes(j, IF multi THEN "package" ELSE "batch")
    /\ PBXUnchanged /\ UNCHANGED jobVars

EnsurePackage(j) ==
    /\ at[j] = "package"
    /\ \/ package' = TRUE /\ Goes(j, "tenant")
       \/ package' \in {package, TRUE} /\ Goes(j, "failed")
    /\ UNCHANGED <<tenant, foreign, exts, jobVars>>

\* PBXware refuses a code in use or a missing package; a create that outlasts
\* the client's timeout may still be carried out, then or later.
CreateTenant(j) ==
    /\ at[j] = "tenant"
    /\ LET can == package /\ tenant[org[j]] = "none"
           becomes(st) == [tenant EXCEPT ![org[j]] = st]
       IN \/ can /\ tenant' = becomes("there") /\ Goes(j, "batch")
          \/ /\ tenant' \in IF can THEN {tenant, becomes("there"), becomes("coming")} ELSE {tenant}
             /\ Goes(j, "find")
    /\ UNCHANGED <<package, foreign, exts, jobVars>>

Listed(o) == tenant[o] \in {"there", "leaving"}

\* A tenant that has the code is taken over, whoever made it.
FindTenant(j) ==
    /\ at[j] = "find"
    /\ \/ Listed(org[j]) /\ Goes(j, "batch")
       \/ Goes(j, "failed")
    /\ PBXUnchanged /\ UNCHANGED jobVars

-----------------------------------------------------------------------------
(* provisionExtensions *)

Least(a, b) == IF a < b THEN a ELSE b
BatchSize(j) == Least(Count[j] - Cardinality(known[j]), Batch)
Asked(j) == next[j]..(next[j] + BatchSize(j) - 1)

In(o) == {e \in exts : e.org = o}

\* Numbers of others: a tenant that a job makes has none.
Taken(o) == IF o \in foreign \cup {Default} THEN taken ELSE {}
Free(o, ns) == {n \in ns : n \notin Taken(o) /\ \A e \in In(o) : e.num # n}

\* A batch's secrets are made once, its retries send them again.
Made(j, n) == [org |-> org[j], num |-> n, id |-> <<j, tries[j]>>, secret |-> j]

Verdict_NoOwn(o, n, refused) ==
    IF n \in refused THEN "refused" ELSE IF n \in Free(o, {n}) THEN "created" ELSE "reserved"

Verdict(o, n, refused) ==
    IF n \in refused THEN "refused"
    ELSE IF n \in Free(o, {n}) THEN "created"
    ELSE IF n \in Taken(o) THEN "reserved" ELSE "own"

BatchAnswered(j) ==
    /\ at[j] = "batch" /\ Listed(org[j])
    /\ \E refused \in {{}} \cup {{n} : n \in Free(org[j], Asked(j))} :
         /\ exts' = exts \cup {Made(j, n) : n \in Free(org[j], Asked(j)) \ refused}
         /\ answer' = [answer EXCEPT ![j] = [n \in Asked(j) |-> Verdict(org[j], n, refused)]]
    /\ next' = [next EXCEPT ![j] = @ + BatchSize(j)]
    /\ Goes(j, "answer")
    /\ UNCHANGED <<package, tenant, foreign, skips, tries, known, warned>>

\* createBatchWithRetry: the whole request fails, however far PBXware got.
BatchLost(j) ==
    /\ at[j] = "batch"
    /\ \E end \in {n \in Asked(j) : Listed(org[j])} \cup {0} :
         exts' = exts \cup {Made(j, n) : n \in {m \in Free(org[j], Asked(j)) : m <= end}}
    /\ \/ tries[j] = MaxRetries /\ Fails(j)
       \/ /\ tries[j] < MaxRetries /\ tries' = [tries EXCEPT ![j] = @ + 1]
          /\ UNCHANGED <<at, next, skips, answer, known, warned>>
    /\ UNCHANGED <<package, tenant, foreign>>

Recorded_Sent(j, n, verdict) ==
    IF verdict = "created" THEN {Made(j, n)}
    ELSE IF verdict = "own" THEN {[e EXCEPT !.secret = j] : e \in {x \in In(org[j]) : x.num = n}}
    ELSE {}

\* What a result becomes in srv.Extensions: our own is read back.
Recorded(j, n, verdict) ==
    IF verdict = "created" THEN {Made(j, n)}
    ELSE IF verdict = "own" THEN {e \in In(org[j]) : e.num = n}
    ELSE {}

\* Mutants, here and below: one number too many is skipped; PBXware's answer
\* that a number is taken by our own extension is not told from the others;
\* an adopted extension is recorded with the secret that was sent; no probe;
\* a failed delete is not warned of.
TooManySkips_OneMore(j) == skips[j] > MaxSkips

TooManySkips(j) == skips[j] >= MaxSkips

\* The results in the order of their numbers: theirs in the answer does not
\* matter, extensions are sorted at the end.
IsNext(j, n) == at[j] = "answer" /\ n \in DOMAIN answer[j] /\ \A k \in DOMAIN answer[j] : n <= k

\* A result that ends the run: the item was refused, one number too many is
\* in use, or reading an extension or the username prefix back fails.
EndsRun(j, verdict) ==
    \/ verdict \in {"refused", "own"}
    \/ verdict = "reserved" /\ TooManySkips(j)
    \/ verdict = "created" /\ known[j] = {}

ResultFails(j, n) ==
    /\ IsNext(j, n) /\ EndsRun(j, answer[j][n])
    /\ Fails(j) /\ PBXUnchanged

AfterBatch_NoProbe(j, got) == IF Cardinality(got) < Count[j] THEN "batch" ELSE "stored"

\* Another batch, or the registration check.
AfterBatch(j, got) == IF Cardinality(got) < Count[j] THEN "batch" ELSE "first"

ReadResult(j, n) ==
    /\ IsNext(j, n)
    /\ LET verdict == answer[j][n]
           left == [k \in DOMAIN answer[j] \ {n} |-> answer[j][k]]
           got == known[j] \cup Recorded(j, n, verdict)
       IN /\ verdict # "refused" /\ ~(verdict = "reserved" /\ TooManySkips(j))
          /\ verdict = "own" => Recorded(j, n, verdict) # {}
          /\ known' = [known EXCEPT ![j] = got]
          /\ skips' = [skips EXCEPT ![j] = IF verdict = "reserved" THEN @ + 1 ELSE @]
          /\ answer' = [answer EXCEPT ![j] = left]
          /\ IF DOMAIN left # {} THEN UNCHANGED <<at, tries>>
             ELSE /\ tries' = [tries EXCEPT ![j] = 0]
                  /\ Goes(j, AfterBatch(j, got))
    /\ UNCHANGED <<next, warned>> /\ PBXUnchanged

\* waitUntilRegistrable: a REGISTER is refused while PBXware reloads.
Registers(e) == e \in exts /\ ~reloading

First(j) == CHOOSE e \in known[j] : \A f \in known[j] : e.num <= f.num
Last(j) == CHOOSE e \in known[j] : \A f \in known[j] : e.num >= f.num

Probe(j) ==
    /\ \/ at[j] = "first" /\ Registers(First(j)) /\ Goes(j, "last")
       \/ at[j] = "last" /\ Registers(Last(j)) /\ Goes(j, "stored")
    /\ PBXUnchanged /\ UNCHANGED jobVars

\* A request fails, the probes do not succeed in time, or the program ends.
Abort(j) == at[j] \in {"system", "batch", "first", "last"} /\ Fails(j) /\ PBXUnchanged

-----------------------------------------------------------------------------
(* ResetInstance *)

Warn(j) == warned' = [warned EXCEPT ![j] = TRUE]

StartReset(j) ==
    /\ at[j] = "stored" /\ Goes(j, IF multi THEN "drop tenant" ELSE "drop exts")
    /\ next' = [next EXCEPT ![j] = First(j).num]
    /\ PBXUnchanged /\ UNCHANGED <<skips, tries, answer, known, warned>>

WithoutTenant(o) ==
    /\ tenant' = [tenant EXCEPT ![o] = "none"] /\ foreign' = foreign \ {o}
    /\ exts' = exts \ In(o)

DropTenant(j) ==
    /\ at[j] = "drop tenant"
    /\ \/ Listed(org[j]) /\ WithoutTenant(org[j]) /\ Goes(j, "drop package") /\ UNCHANGED warned
       \/ /\ tenant' \in {tenant} \cup
                (IF Listed(org[j]) THEN {[tenant EXCEPT ![org[j]] = "leaving"]} ELSE {})
          /\ Warn(j) /\ Goes(j, "wait gone") /\ UNCHANGED <<foreign, exts>>
    /\ UNCHANGED <<package, next, skips, tries, answer, known>>

\* WaitForTenantGone ends at once when a list cannot be read, or in time.
WaitGone(j) ==
    /\ at[j] = "wait gone" /\ Goes(j, "drop package")
    /\ PBXUnchanged /\ UNCHANGED jobVars

InUse == \E o \in Code \ foreign : tenant[o] # "none"

DropPackage(j) ==
    /\ at[j] = "drop package"
    /\ \/ package /\ ~InUse /\ package' = FALSE /\ UNCHANGED warned
       \/ ~package /\ UNCHANGED <<package, warned>>
       \/ package' \in (IF InUse THEN {package} ELSE {package, FALSE}) /\ Warn(j)
    /\ Goes(j, "removed")
    /\ UNCHANGED <<tenant, foreign, exts, next, skips, tries, answer, known>>

\* next is the number to delete now.
IsNextToDrop(j, e) == e \in known[j] /\ e.num = next[j]

NumbersAfter(j, n) == {k \in Numbers : k > n /\ \E e \in known[j] : e.num = k}

Dropped(j, e) ==
    /\ LET rest == NumbersAfter(j, e.num) IN
       IF rest = {} THEN Goes(j, "removed") /\ UNCHANGED next
       ELSE /\ next' = [next EXCEPT ![j] = CHOOSE k \in rest : \A m \in rest : k <= m]
            /\ UNCHANGED at
    /\ UNCHANGED <<package, tenant, foreign, skips, tries, answer, known>>

DropExtension_Silent(j, e) ==
    /\ at[j] = "drop exts" /\ IsNextToDrop(j, e)
    /\ exts' \in {exts, exts \ {e}} /\ UNCHANGED warned
    /\ Dropped(j, e)

\* deleteExtensions: each by its id, six attempts at most.  The two workers'
\* deletes do not touch each other's extension, so one follows the other here.
DropExtension(j, e) ==
    /\ at[j] = "drop exts" /\ IsNextToDrop(j, e)
    /\ \/ e \in exts /\ exts' = exts \ {e} /\ UNCHANGED warned
       \/ exts' \in {exts, exts \ {e}} /\ Warn(j)
    /\ Dropped(j, e)

-----------------------------------------------------------------------------
(* PBXware *)

TenantAppears(o) ==
    /\ tenant[o] = "coming" /\ tenant' = [tenant EXCEPT ![o] = "there"]
    /\ UNCHANGED <<package, foreign, exts, at, jobVars>>

TenantGoes(o) ==
    /\ tenant[o] = "leaving" /\ WithoutTenant(o)
    /\ UNCHANGED <<package, at, jobVars>>

\* The whole endpoint set, once after the last change.
Reload ==
    /\ reloading /\ reloading' = FALSE
    /\ UNCHANGED <<multi, org, taken, pbxVars, at, jobVars>>

Provisions(j) ==
    \/ RaiseSystem(j) \/ EnsurePackage(j) \/ CreateTenant(j) \/ FindTenant(j)
    \/ BatchAnswered(j) \/ BatchLost(j) \/ Probe(j) \/ Abort(j)
    \/ \E n \in Numbers : ReadResult(j, n) \/ ResultFails(j, n)

Resets(j) == DropTenant(j) \/ WaitGone(j) \/ DropPackage(j) \/ \E e \in known[j] : DropExtension(j, e)

JobStep(j) == (Provisions(j) \/ Resets(j)) /\ Chosen /\ Changed

ProvisionNext ==
    \/ \E j \in Job : JobStep(j) \/ (StartReset(j) /\ Chosen /\ Changed)
    \/ \E o \in Orgs : (TenantAppears(o) \/ TenantGoes(o)) /\ Chosen /\ Changed
    \/ Reload
-----------------------------------------------------------------------------
Ids(es) == {e.id : e \in es}
Stored(j) == at[j] = "stored"

ProvisionTypeOK ==
    /\ package \in BOOLEAN /\ tenant \in [Orgs -> {"none", "coming", "there", "leaving"}]
    /\ \A e \in exts : e.org \in Orgs /\ e.num \in Numbers \ Taken(e.org)
    /\ \A d, e \in exts : d.org = e.org /\ d.num = e.num => d = e
    /\ \A j \in Job :
         /\ next[j] \in 1..(Count[j] + MaxSkips + 1) /\ skips[j] \in 0..MaxSkips
         /\ tries[j] \in 0..MaxRetries /\ Cardinality(known[j]) <= Count[j]

Resetting(j) == at[j] \in {"drop tenant", "wait gone", "drop package", "drop exts", "removed"}

\* What a reset takes from PBXware it takes from every other job of its org too.
BeingReset(o) == \E j \in Job : org[j] = o /\ Resetting(j)

\* Past what the job asked for, where a job that asked for more has been.
Beyond(j, e) ==
    /\ \A f \in known[j] : f.num < e.num
    /\ \E k \in Job : org[k] = org[j] /\ Count[k] > Count[j]

\* wizard.go:348-413, 449-454: however often batches were lost and sent again, a
\* server that is stored has as many extensions as were asked for, and knows every
\* SwarmDialer extension of its org, so a reset finds it, but for those past its own
\* which a run that asked for more left behind: the wizard does not look for these.
NothingForgotten ==
    \A j \in Job : Stored(j) =>
        /\ Cardinality(known[j]) = Count[j]
        /\ BeingReset(org[j]) \/ \A e \in In(org[j]) : e.id \in Ids(known[j]) \/ Beyond(j, e)

\* wizard.go:398-406: a stored extension is used with the secret PBXware has for
\* it, also when it was made by an attempt or a run with other secrets.
SecretsWork ==
    \A j \in Job : Stored(j) /\ ~BeingReset(org[j]) =>
        \A e \in known[j], f \in In(org[j]) : e.num = f.num => e.secret = f.secret

\* regcheck.go:16-28: when the wizard is done, Asterisk knows every extension of
\* the server, so the first dial does not fail for want of it.
ReadyWhenStored == [][\A j \in Job : Stored(j)' => Stored(j) \/ ~reloading]_provVars

\* reset.go:72-77: a reset that shows no warning left none of the server's
\* extensions on PBXware.
CleanReset == \A j \in Job : at[j] = "removed" /\ ~warned[j] => known[j] \cap exts = {}

\* What the store has of a server is what PBXware has, from wizard to reset
\* (wizard.go:140-300, reset.go:72-139).
ProvisionInv == ProvisionTypeOK /\ NothingForgotten /\ SecretsWork /\ CleanReset
=============================================================================
