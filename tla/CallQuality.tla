---------------------------- MODULE CallQuality ----------------------------
(***************************************************************************)
(* What PBXware's call records say of a test's or a batch's calls          *)
(* (internal/pbxware/cdr.go; the mp3Poller of testrun/runner.go;           *)
(* cmd/gui/batchreport.go).  PBXware writes a call's CDR some time after   *)
(* the call, and marks it once its recording is converted.  The CDRs are   *)
(* read in pages, newest first, while others are written.                  *)
(* Calls are numbered by when they start.                                  *)
(***************************************************************************)
EXTENDS Integers, Sequences, FiniteSets, SequencesExt

CONSTANTS
    N,          \* calls of the test
    Older,      \* CDRs of calls that ended before it
    PageSize,   \* 1000 in the code
    Gap,        \* seconds between the starts of two calls of an extension
    Skew,       \* seconds between a call's start here and on PBXware, at most
    Sizes,      \* sizes of batches
    MaxPolls    \* bound: readings of the CDRs

ASSUME CallQualityAssumption ==
    /\ N \in Nat /\ Older \in Nat /\ PageSize \in Nat \ {0}
    /\ Skew \in Nat /\ Gap \in Nat /\ Gap > 2 * Skew
    /\ Sizes \subseteq Nat \ {0} /\ MaxPolls \in Nat

CallNo == 1..N

VARIABLES
    written,    \* calls whose CDR is written
    converted,  \* those whose recording is available
    polling,    \* mp3Poller: "wait", "read", "done"
    page, out,  \* RecordingCDRsSince: the page to read, and the rows kept so far
    cdrs,       \* p.cdrs
    firstAvail, \* DOMAIN p.firstAvail
    polls,
    stopped,    \* p.stop is closed
    missing,    \* MissingRecordings, once finish has returned
    promised,   \* history: recordings available when a reading that worked began
    began,      \* history: recordings available when the current one began
    match,      \* BatchGetMOS: the CDR whose MOS each call is given
    report      \* the chunks of the batch's summary

poller == <<polling, page, out, cdrs, firstAvail, polls>>
qualityVars == <<written, converted, poller, stopped, missing, promised, began, match, report>>
-----------------------------------------------------------------------------
NotYet == [stage |-> "not yet"]

QualityInit ==
    /\ written = {} /\ converted = {}
    /\ polling = "wait" /\ page = 0 /\ out = {} /\ cdrs = {} /\ firstAvail = {} /\ polls = 0
    /\ stopped = FALSE /\ missing = NotYet /\ promised = {} /\ began = {}
    /\ match = NotYet /\ report = NotYet

\* PBXware, external.
WriteCDR(c) ==
    /\ c \notin written
    /\ written' = written \cup {c}
    /\ UNCHANGED <<converted, poller, stopped, missing, promised, began, match, report>>

Convert(c) ==
    /\ c \in written \ converted
    /\ converted' = converted \cup {c}
    /\ UNCHANGED <<written, poller, stopped, missing, promised, began, match, report>>

\* All CDRs: those of the test and, numbered 0 and below, older ones.
Rows == written \cup (1 - Older)..0

\* Newest first.
PageRows(p) ==
    {c \in Rows : LET newer == Cardinality({d \in Rows : d > c})
                  IN  newer >= (p - 1) * PageSize /\ newer < p * PageSize}

\* poll, every mp3PollInterval.
BeginPoll ==
    /\ polling = "wait" /\ ~stopped /\ polls < MaxPolls
    /\ polling' = "read" /\ page' = 1 /\ out' = {} /\ began' = converted
    /\ UNCHANGED <<written, converted, cdrs, firstAvail, polls, stopped, missing, promised, match, report>>

\* Mutant: pages are read until the first that is full of the test's calls.
LastPage_Full(rows) == \A c \in rows : c > 0

\* Mutant: pages are read until one is empty.
LastPage_Empty(rows) == rows = {}

\* No next page, or a call from before the test was reached.
LastPage(rows) == page * PageSize >= Cardinality(Rows) \/ \E c \in rows : c <= 0

\* A page of RecordingCDRsSince: each row with its flag at this moment.
Kept(rows) == out \cup {[call |-> c, available |-> c \in converted] : c \in {x \in rows : x > 0}}

ReadPage ==
    /\ polling = "read" /\ page > 0
    /\ out' = Kept(PageRows(page))
    /\ page' = IF LastPage(PageRows(page)) THEN 0 ELSE page + 1
    /\ UNCHANGED <<written, converted, polling, cdrs, firstAvail, polls, stopped, missing, promised, began, match, report>>

ReadFails ==
    /\ polling = "read" /\ page > 0
    /\ polling' = "wait" /\ page' = 0 /\ out' = {} /\ began' = {} /\ polls' = polls + 1
    /\ UNCHANGED <<written, converted, cdrs, firstAvail, stopped, missing, promised, match, report>>

\* Mutant: the flag counts when the CDR is first seen.
NowAvailable_NewOnly == {r.call : r \in {x \in out : x.available /\ x.call \notin cdrs}}

NowAvailable == {r.call : r \in {x \in out : x.available}}

\* poll, under the mutex; a poller that was stopped meanwhile ends after this.
MergePoll ==
    /\ polling = "read" /\ page = 0
    /\ cdrs' = cdrs \cup {r.call : r \in out}
    /\ firstAvail' = firstAvail \cup NowAvailable
    /\ promised' = promised \cup began /\ began' = {}
    /\ polling' = "wait" /\ out' = {} /\ polls' = polls + 1
    /\ UNCHANGED <<written, converted, page, stopped, missing, match, report>>

\* finish: every CDR seen has its recording, or a minute has passed.
CloseStop ==
    /\ ~stopped /\ polls > 0
    /\ stopped' = TRUE
    /\ UNCHANGED <<written, converted, poller, missing, promised, began, match, report>>

PollerEnds ==
    /\ stopped /\ polling = "wait" /\ polling' = "done"
    /\ UNCHANGED <<written, converted, page, out, cdrs, firstAvail, polls, stopped, missing, promised, began, match, report>>

\* Mutant: finish does not wait for the poll that is running.
PollerDone_Stopped == stopped

PollerDone == polling = "done"

FillIn ==
    /\ PollerDone /\ missing = NotYet
    /\ missing' = [stage |-> "done", calls |-> cdrs \ firstAvail]
    /\ UNCHANGED <<written, converted, poller, stopped, promised, began, match, report>>
-----------------------------------------------------------------------------
(* BatchGetMOS, after the poller's part.                                   *)

Distance(c, e, skew) == LET d == Gap * (e - c) + skew[e] IN IF d < 0 THEN -d ELSE d

\* Mutant: any CDR near enough, as it was before 2026-09-23.
Candidates_Any(c, es, skew) == es

\* The CDRs closest to the call's start; the first of them in the order read is taken.
Candidates(c, es, skew) ==
    {e \in es : \A f \in es : Distance(c, e, skew) <= Distance(c, f, skew)}

\* batchFindCDRUniqueIDs over calls of one extension whose tolerances overlap, for
\* the days that could be read.
LookUpMOS ==
    /\ missing # NotYet /\ match = NotYet
    /\ \E skew \in [CallNo -> 0..Skew] : \E found \in [CallNo -> CallNo \cup {0}] :
        /\ \A c \in CallNo : IF written = {} THEN found[c] = 0 ELSE found[c] \in Candidates(c, written, skew)
        /\ match' = [stage |-> "done", of |-> found, read |-> written]
    /\ UNCHANGED <<written, converted, poller, stopped, missing, promised, began, report>>
-----------------------------------------------------------------------------
(* The batch's summary.                                                    *)

\* Mutant: without the floor of 25.
chunkSizeFor_NoFloor(n) == IF n <= 25 THEN n ELSE (((n \div 5) + 12) \div 25) * 25

chunkSizeFor(n) ==
    IF n <= 25 THEN n
    ELSE LET size == (((n \div 5) + 12) \div 25) * 25 IN IF size < 25 THEN 25 ELSE size

Begin(n) == [stage |-> "chunks", n |-> n, start |-> 0, chunks |-> << >>]

ReportBatch ==
    /\ match # NotYet /\ report = NotYet
    /\ \E n \in Sizes : report' = Begin(n)
    /\ UNCHANGED <<written, converted, poller, stopped, missing, promised, began, match>>

\* One turn of the loop over the batch; a batch of one chunk is not split.
NextChunk ==
    /\ report.stage = "chunks"
    /\ LET size == chunkSizeFor(report.n)
           end == IF report.start + size > report.n THEN report.n ELSE report.start + size
       IN  report' = IF size >= report.n /\ report.start = 0
                     THEN [report EXCEPT !.stage = "done", !.chunks = << <<1, report.n>> >>]
                     ELSE IF report.start < report.n
                     THEN [report EXCEPT !.start = @ + size, !.chunks = Append(@, <<report.start + 1, end>>)]
                     ELSE [report EXCEPT !.stage = "done"]
    /\ UNCHANGED <<written, converted, poller, stopped, missing, promised, began, match>>

QualityNext ==
    \/ \E c \in CallNo : match = NotYet /\ (WriteCDR(c) \/ Convert(c))
    \/ BeginPoll \/ ReadPage \/ ReadFails \/ MergePoll
    \/ CloseStop \/ PollerEnds \/ FillIn
    \/ LookUpMOS \/ ReportBatch \/ NextChunk
-----------------------------------------------------------------------------
QualityTypeOK ==
    /\ converted \subseteq written /\ written \subseteq CallNo
    /\ polling \in {"wait", "read", "done"} /\ page \in 0..(1 + (N + Older) \div PageSize) /\ polls \in 0..MaxPolls
    /\ cdrs \subseteq CallNo /\ firstAvail \subseteq cdrs
    /\ stopped \in BOOLEAN

\* Polling measures the delay to the poll interval (runner.go:827-829): a recording
\* that was available when a reading began is noted by the time that reading ends,
\* although CDRs are written, and recordings converted, between its pages.
NothingMissed == promised \subseteq firstAvail

\* What finish reports as missing stays so: no poll changes it afterwards.
MissingIsFinal == missing # NotYet => missing.calls = cdrs \ firstAvail

\* "a neighboring call's CDR was matched instead of the right one" (cdr.go:107-109):
\* a call whose own CDR was read is given no other call's quality.
OwnQuality ==
    match # NotYet => \A c \in CallNo : c \in match.read => match.of[c] = c

\* Every call of a batch is in one chunk, and the loop over them ends.
ChunksCover ==
    report # NotYet =>
        /\ \A i \in DOMAIN report.chunks :
            /\ report.chunks[i][1] = IF i = 1 THEN 1 ELSE report.chunks[i - 1][2] + 1
            /\ report.chunks[i][1] <= report.chunks[i][2]
        /\ report.stage = "done" => Last(report.chunks)[2] = report.n

\* Recordings and quality are found for the calls they belong to, whatever CDRs are
\* written between two readings (runner.go:820-900, cdr.go:100-180).
QualityInv == QualityTypeOK /\ NothingMissed /\ MissingIsFinal /\ OwnQuality /\ ChunksCover
=============================================================================
