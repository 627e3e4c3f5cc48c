# SwarmDialer in TLA+

SwarmDialer (Go) registers hundreds of simulated extensions on one or two
PBXware servers, places calls between them in batches, shows them live on a
web dashboard and runs scripted load tests. This directory models the parts
of it in which goroutines, servers and a browser act on shared state, checks
the models with TLC on small instances, and proves the most important results
with TLAPS for every instance.

Conventions: a module's comments name the source they model; `PROJECT.json`
maps every definition to its lines. An operator called `Op_Something`, with a
comment that starts with "Mutant", is `Op` with a plausible bug. No action
uses it: it shows which property would catch that bug. A run checks one
invariant per component, a conjunction whose first part is the component's type
invariant and whose other parts are named; the text below uses those names.

## Inventory

| component (source) | state it keeps | operations | hard behaviour | correct when | module |
|---|---|---|---|---|---|
| Call session (`internal/orchestrator/session.go`) and its health (`health.go`) | the pool's `available` map, active calls, stop channel, counters, records, failures by kind | `AddCalls`, `runCall`, `Stop`, `Snapshot` | a goroutine per call; Stop, timers and remote BYEs race; state under one mutex, counters outside it | no extension booked twice or lost; every call counted once; Stop ends what it should; batches reported whole | `Session`, `ExtensionPool` |
| Registration (`session.go:122-191`, `cmd/gui/registration.go`) | progress counters | staggered registration, refresh | callbacks in any order; failures while the session lives | what the banner says happened | `Registration` |
| Events (`session.go:270`, `cmd/gui/web/app.js`) | ring of events; last event shown | `logEvent`, `renderEvents` | numbered before the mutex; the page outlives the process | recent events kept, each shown once | `EventLog`, `StatusFeed` |
| Trunk codec order (`cmd/gui/trunkcodec.go`) | per ordered pair: codec, running batches; the order itself is PBXware's | `prepareRemoteBatch`, `release` | a mutex held over HTTP requests and 65 s; a change applied up to a minute later; requests half succeed | calls cross trunks ordered for their codec, never reordered under them | `TrunkCodec` |
| Test runner and its handlers (`internal/testrun/runner.go`, `cmd/gui/testrunhandlers.go`) | the current runner, its phase, results | start, cancel, the tests of a profile | shares the session and trunk with manual dialing, and PBXware's recording with the dashboard's toggle; ends on samples, timers, cancellation | it ends; trunk and recording are left as found | `RunControl` |
| Diagnosis and monitor (`diagnostics.go`, `monitor.go`) | causes, first saturation, streaks | sample, diagnose, stop | failures are counted between the samples that look; readings fail | a cause begins once, in time; only a sustained saturation stops a test | `Diagnostics` |
| CDRs: recordings and quality (`internal/pbxware/cdr.go`, `runner.go:820-900`, `cmd/gui/batchreport.go`) | what was found so far | page through CDRs, poll | records appear late, while others are read page by page | found for the calls they belong to; nothing missed | `CallQuality` |
| Run reports (`cmd/gui/reporthandlers.go`, `internal/report`) | report and upload state | build, upload, retry, delete | an old upload finishes under a new report; restarts | what the tab says of a report is so | `Reports` |
| Sessions of the dashboard, store (`cmd/gui/handlers.go`, `internal/store`) | servers and settings, in memory and on disk; sessions, ports | provision, connect, update, reset, `sessionFor` | check, then act after minutes of network; saves fail; restarts | one build per key, no shared port, no stale session, the file is what memory is | `ServerRegistry` |
| SIP phone (`internal/sipua/call.go`, `rtp.go`) | calls by Call-ID, media | `Dial`, auto-answer, `OnBye`, `Hangup`, `Start`, `Stop`, the pacer | a BYE before `Dial` has returned; stop overtakes start | media only on a leg that can be ended; both ends are | `Phone` |
| RTP reception (`rtp.go:300-400`) | sequence counters | receive, RTCP report | wraps, late and lost packets, new streams | counts agree with what was sent | `RTPReceive` |
| One-shot runs (`orchestrator.go`, `state.go`) | `RunState` | `Run` | calls in parallel; the context ends at any time | it returns, with no call left, a result per pair | `LoadRun` |
| Authentication (`cmd/gui/auth.go`) | password record, sessions, throttle | login, logout, change password, `-reset-password` | hashing outside the lock; two writers of one file | one password in force; a lockout lets nobody in | `Auth` |
| Wizard, PBXware clients (`internal/wizard`, `internal/pbxware`) | on PBXware | provision, connect, reset | answers lost, retries, partial failures, two jobs on one PBXware that ask for different counts, tenants that were there before | a stored server knows its org's extensions; a clean reset left none | `Provision` |
| SERVERware host (`internal/serverware`, `wizard/serverware.go`, `restart.go`) | VPS records, what runs | connect, restart | jobs overlap; whole records are read and sent back; a record takes effect at the next start; restarts not seen, or begun late | a saved connection is set up; a job has one PBXware down at a time | `HostSetup` |
| Recording settings (`cmd/gui/recording.go`) | on each PBXware | toggle, status | four requests in turn, two writers, one server may fail | what is shown is set; never stereo without recording | `Recording` |
| Command-line tools, DT Collector client, address and certificate | none | I/O | - | - | not modelled |

How they interact: a dial request (handler) finds or builds a session, prepares
the trunk, and calls `AddCalls`; the batch's completion callback releases the
trunk and reports. The test runner does the same through an `Env`, on the same
session, and its results become a report. Stop closes the session's stop
channel, whoever's calls they are. Jobs of the Settings page change servers and
drop the sessions built from them. The page polls snapshots, which read the
session under its mutex.

## Modules

| module | models | main correspondences |
|---|---|---|
| `ExtensionPool` | what a session promises about its extensions: a call gets a free caller and a free callee, keeps both, gives both back at once | `Take` = `reservePairs`, `Give` = `release` |
| `Session` | `AddCallsWithCallee`, its goroutines, `runCall`, `Stop` | `pc[c]` is where a call's goroutine is; a step ends where it touches state another one reads. `bpc[b]` is AddCalls and its waiter; stop channels are numbered. Refines `ExtensionPool` |
| `TrunkCodec` | `trunkcodec.go` and PBXware's trunks | `holder`/`pos` are the goroutine in the mutex and the trunk it is at; `order` is what PBXware's API shows, `live` what Asterisk has loaded |
| `RunControl` | start, cancel, dial, stop and recording handlers; `Runner.Run`, `runTest`, `runRamp`, `runRolling` | one label per phase; calls are counted per owner, since `Session` models each; `foreign[r]` counts others' calls that entered the totals run `r` reads; `recordingBy` is the run that set recording last, or the dashboard's toggle |
| `ServerRegistry` | store, Settings jobs, `sessionFor`, `nextPortRange` | `GetServer` hands out the store's own pointer, so servers are objects on a heap and jobs hold pointers that may be replaced under them; a session is named by the dial that built it |
| `Phone` | both legs of a call and what PBXware does between them | `pc[l]`, `bye[l]`: the leg's goroutine and its BYE handler; `slot`/`loop`: the pacer's table and its view; `unheard`: the caller's BYE failed, whether or not PBXware heard it (the hangup's error is only logged, orchestrator.go:229-235) |
| `RTPReceive` | received sequence numbers modulo `Modulus`, extended | `offset` is what the stream starts with; `lateWraps` counts packets from before a wrap that came after it |
| `LoadRun` | `orchestrator.Run` and a goroutine per pair | `goroutine[i]`, `status[i]` of `RunState`, `result[i]` |
| `Auth` | logins, sessions, changes of the password | `req[q]`, `seen[q]`: what a request carries and the copy of the record it checks outside `mu`; `file`, `tmp` |
| `EventLog`, `Registration`; together `StatusFeed` | what a page gets of a session | `stamp[w]` is a number taken before the mutex; `reporter[e]` where an extension's goroutine is |
| `Diagnostics`, `CallQuality`, `Reports`; together `TestReport` | what a test leaves behind | samples, pages of CDRs, uploaders; `Clear` is the reset of the Monitoring tab's report that a new run makes (testrunhandlers.go:164-166), `mixed` the reports another's upload told last of |
| `Provision`, `HostSetup`, `Recording`; together `ServerSetup` | what is set up on other machines | `at[j]` is where a job is, `Count[j]` what its request asks for, `foreign` the tenants that were there before; PBXware answers, refuses, or carries out and does not answer. `connect[c].read` is the VPS record a connect job sends back, `restart[q]` a restart job with the instances it was asked for |
| `SipCall` = `Phone`, `RTPReceive`, `LoadRun`; `Dashboard` = `StatusFeed`, `Auth` | compositions | see below |
| `*Proofs` | theorems about the module they are named for, and the modules it composes | |
| `MC*` | instances for TLC | |

`StatusFeed` composes two modules that interact: events begin once a session is
registered, and a restart takes both. `TestReport`, `ServerSetup`, `SipCall` and
`Dashboard` put modules side by side that share no state in the code; a
behaviour follows one of them (`part`), since the product of the others would
only multiply the states.

`RunControl` abstracts two other modules: `AddsCalls`, `AnswerCall`... are
`Session` seen as counts, `PrepareTrunk` and `held` are `TrunkCodec` seen from
outside. A snapshot is taken atomically there, although `runCall` counts a call
as answered just before it is listed as active (session.go:602-609); a sample
in between may end a one-call ramp early, which no property is about. A setting
of recording on the pair's two servers is one step there; `Recording` has its
requests one by one.

## What TLC checks

| run | question | instance |
|---|---|---|
| `session` | Are extensions ever shared, leaked or listed wrongly (`PairsAreHeld`), answered with another call's codec (`CodecIsOwn`)? Do counters and Health agree (`CountsAgree`), reports come whole (`BatchReportComplete`), totals match records (`EndedTotalMatchesRecords`)? Is `ExtensionPool` implemented (`PoolSafety`)? | one pool of 4 (both roles), 2 calls, 2 batches, 2 Stops, a packet per call, context ending and remote BYEs at any time |
| `session_live` | Does Stop end a batch without any timer (`StopEndsBatch`)? Do pairs come back if timers fire (`PoolReturns`)? | pools of 2 and 2, 2 calls of 1 batch, 2 Stops |
| `trunk` | One codec per direction, no reordering under a batch, Asterisk's order applied, every batch released | one direction, 2 batches, 2 codecs, 2 failing requests, a restart |
| `trunk_both_ways` | Is a trunk reordered under a batch when both directions are dialed? **Violated** | both directions, 2 batches |
| `run_single` | The trunk under a test, what it concludes of its ramp, its recording (`RunInv`); its end (`RunEndsUnlessStopped`, `CancelEndsRun`) | a rolling test, recorded in stereo, and a ramp, not recorded, of 2 calls each; a dial let in before the run, 1 Stop, recording toggled at any time, failures, cancellation |
| `run_overlap` | Trunk and recording when two start requests and a dial request overlap | 2 runs of one recorded ramp, 1 dial, the toggle; `OverlapView` does not tell apart which run set recording last, or to what but off, and counts that are never read again |
| `run_hang` | Does a run end although Stop took its calls? **Violated** | 1 run, 1 Stop |
| `registry` | One build per key, disjoint ports (`RegistryInv`); stale sessions only by the named races (`StaleOnlyWhenRaced`); file and memory (`DiskAgrees`); every dial returns (`DialReturns`) | 2 servers, a pair; 2 dials; an update, a connect, a reset, of which 2 run; a fault; a restart |
| `dashboard` | Ring and page (`FeedInv`), banner (`BannerIsRight`); the password in force (`AuthInv`), the lockout (`LockoutHolds`) | 2 writers, ring of 3, 4 events, 3 extensions, a restart, page reloads; 3 logins, 2 changes, threshold 2, a restart |
| `reports` | The diagnosis (`DiagnosisInv`), recordings and quality (`QualityInv`), uploads (`UploadInv`, `UploadEnds`) | 2 causes, 3 samples; 3 calls, pages of 2, 2 polls; 2 runs, a retry, a hardware report beside one of them at most (`HardwareWithOneRun`), 1 repetition, a restart |
| `phone` | Media and its end on both legs (`PhoneInv`, `HangUpEndsBoth`, `PacerLetsGo`); RTCP's numbers (`ReceiveInv`); a one-shot run (`LoadInv`, `RunReturns`) | 1 call, 2 codecs, 3 offers; sequence numbers modulo 10, 14 packets up to 2 late or with 2 lost at a time, 2 streams; 5 extensions |
| `provision` | Wizard and reset (`ProvisionInv`, `ReadyWhenStored`); the host (`HostInv`); recording (`NoStereoAlone`, `AnswersAreTrue`) | 2 jobs of 3 and 2 extensions, in batches of 2, in orgs that may be one and whose tenants may have been there before; 2 VPSs, 2 connects and 2 restarts (of both VPSs or of one), of which at most 3 are started (`HostBound`); 2 servers, 2 toggles, a look, a fault |

Why the bounds are enough: every property relates at most two calls, batches,
Stops, jobs or requests (a second one is what it races with), and every hazard
listed shows within them - each property's mutant is found on the same instance.
Two calls on four shared extensions suffice for a pair to be booked twice or
crosswise. A ring of 3 with 4 events overflows with numbers still held by
goroutines. 14 packets numbered modulo 10 wrap, with late packets and gaps on
either side of a wrap and a late one from before it, as the code's 16 bits wrap
with packets of a few milliseconds' delay. A dial's one call beside a ramp of 2
is enough for the totals to be taken for the ramp's. A request for 2 extensions
after one for 3 leaves one that the second server does not know. Two jobs of one
kind and one of the other are enough for a record to be overwritten, a restart
to meet another, and a restart to begin after a connect. Three calls in pages of
2 need a second page while CDRs still arrive. Two failing trunk requests cover
one on each trunk. A batch of 3 in groups of 2 has a full and a short group. The
constants marked "bound" in their modules appear in guards and ranges only, so they cut
behaviours short and add none.

Deadlock is not checked: in each system a state in which nothing more happens is
normal (no more requests, calls over, bounds used up). That nothing gets stuck
before is what the liveness properties state.

Symmetry is used for interchangeable requests, jobs, goroutines and extensions,
in runs without liveness properties only.

### Fairness

It appears only where a liveness property is checked.

* `Session!Spec`: AddCalls and Stop, once called, run on, and each call's
  goroutine takes an enabled step that waits for no timer: goroutines are
  scheduled and `Dial` has a timeout. That timers fire is a separate assumption,
  `TimersFire`, made only for `PoolReturns`; `StopEndsBatch` needs none of it.
* `TrunkCodec!Spec`: requests return, calls end, PBXware reloads (weak);
  taking the mutex is strongly fair, since Go's `sync.Mutex` hands itself to a
  waiter after a millisecond of starvation (its starvation mode).
* `RunControl!Spec`: the runner's goroutine, requests in progress and calls
  proceed. Nobody has to start, cancel or stop; no saturation has to occur.
* `ServerRegistry!Spec`: a dial's own goroutine proceeds (registering has
  timeouts). Nothing is assumed of jobs.
* `TestReport!Spec`: an uploader proceeds: HTTP requests and `uploadRetries` time out.
* `SipCall!Spec`: the steps of each phone and handler are scheduled; PBXware ends
  a leg whose other leg is gone; a one-shot run's dials, ramp and holds end.

### What disagrees with the code's own words

Two runs show it:

1. *Both directions share the trunks* (`trunk_both_ways`). "a batch with a
   different codec is refused while another remote batch on the same pair is
   still running" (trunkcodec.go:40-41), but the state is kept per ordered pair.
   With one direction, or directions that share no trunk, `NoReorderUnderBatch`
   holds and is proved.
2. *A run may wait for ever* (`run_hang`). The ramp counts answered and failed
   calls, not those the dashboard's Stop cancelled. Without Stop, or with
   cancellation, it ends (`run_single`).

These are stated in the modules, with the reason why they do not hold, and TLC
refutes each of them; no run repeats it:

| statement | why not |
|---|---|
| `TrunkCodec!LiveMatchesBatch` | a retry after a failed request finds the order set and skips the settling wait. `LiveWhileUntroubled` is what holds |
| `RunControl!Undisturbed` | dialing is refused by one look at `testRunning`, minutes before its calls start |
| `EventLog!ShownOrStillToCome` | a page open over a restart hides events whose numbers it has seen; one appended late is skipped |
| `Registration!CountersNeverFall` | reports carry what was read before others and arrive after them |
| `ServerRegistry!NextDialUsesNewDetails` | a session being built while its server changes is stored afterwards |
| `ServerRegistry!UpdateKeepsTrunk` | an update stores a copy made before its server was connected |

The properties below hold with exceptions that are how the code is. Each is named
in the property, and everything outside it is checked and proved:

| property | excepted |
|---|---|
| `RecordingAsAsked`, `RecordingOffAtRest` | the dashboard's recording toggle (recording.go:168-206) is not refused while a test runs, and may set a test's recording under it |
| `DispatchedMeansDialed` | the ramp reads the session's totals (runner.go:695), which also have the calls of a dial let in before it or of another run: that many of its own may still wait |
| `ShownIsThere`, `UploadedIsThere`, `UploadingIsAlive` | an upload that goes on when a new run resets the tracker or saves its report tells the tracker how it went, and so of another report, or of none (`mixed`) |
| `MediaCanBeStopped`, `HangUpEndsBoth` | a BYE before the leg is entered in the phone's table is forgotten (`missed`); after a hangup that failed, the other leg ends only if PBXware heard it or ends the call |
| `ExpectedIsSent` | a packet from before a wrap that comes after it is taken for one of the next turn (rtp.go:340-348) and adds at most one cycle |
| `NothingForgotten` | a request for fewer extensions than an earlier one of its org stores a server that does not know the others (`Beyond`), although its reset "deletes everything SwarmDialer created" (reset.go:72) |
| `NothingForgotten`, `SecretsWork` | another server of the same org is being reset, which deletes the tenant of both, also one that was there before (wizard.go:256-261 takes it over) |
| `ConnectedIsSetUp`, `SmallIsOffered`, `RestartApplies` | another connect job sent back a record it had read before (`undone`); a connect job raised a disk and failed before it said so (`unlisted`) |
| `OneIsUp`, `RestartApplies` | a restart that SERVERware begins more than a minute after accepting it (client.go:269-284), that meets another of the same VPS, or whose job failed (`stray`). docs/serverware_api_reference.md:55-57 calls the states during a restart not yet confirmed live |

Others were seen while modelling and have no statement: `total_rtp_sent`,
"cumulative" (session.go:268), can go down; a phone that cannot be opened leaves
those before it open (orchestrator.go:88); a `Dial` that fails after its ACK
sends no BYE (call.go:361) and an offer without an address gets no final
response (call.go:242); a poll that could read no CDRs counts as "all available"
(runner.go:892); the limit on diagnosis events may drop the one for the stop
(diagnostics.go:164); one refused extension ends a wizard run with those before
it forgotten (wizard.go:413); a second connect finds the RAM disk right and
offers no restart (serverware.go:253); a failed save of a new server is ignored
(handlers.go:118); whether a test runs is read once before a restart job
(serverwarehandlers.go:105).

## What is proved

Every safety property that a passing run checks - each invariant, each action
property and the refinement of `ExtensionPool` - is a theorem of its
specification. Each proof has one inductive invariant or a chain of them, of
which the run's property is a consequence, and one lemma for each part of it that
a step can disturb; the invariants were checked by TLC before they were proved.
All rest on the modules' `ASSUME`s only, except where an assumption is named.

* `SessionProofs` (any calls, batches, pools - equal or disjoint - and Stops).
  `TypeInv` adds `HoldersHavePairs` to the types: releasing a pair keeps
  `available` within the pool only if a holder has one. The lemma `PoolStep` says
  that only `reservePairs` and `release` change who holds what; with it,
  "available = held by nobody" and disjoint holdings are inductive together, and
  neither is alone. From there `PairsAlwaysHeld`, `CodecNeverStolen`,
  `ImplementsPool`. `CountsAlwaysAgree`: the undecided calls shrink by exactly the
  call whose counter goes up, and Health counts the ends of records.
  `ReportsAreComplete`: `BatchInv` ties a batch's waiter to its calls' records.
  `StopChannelAlwaysFresh`: with `StopsOrdered`, channels in the hands of a Stop
  are older than the current one. `TotalIsTheRecords`: what has been sent and not
  added is what calls without a record have sent.
* `TrunkCodecProofs`. `LockInv` adds that the goroutine in the mutex is a preparing
  batch that found no other codec running. Under `DisjointDirections` (no trunk
  serves two directions; `trunk_both_ways` shows it is needed) `OrderInv` adds that
  the trunks the holder has passed have its codec: `NeverReorderedUnderBatch`.
  `LiveAlwaysMatches`: until a request fails or SwarmDialer restarts, only the
  holder has changes Asterisk has not applied.
* `RunControlProofs`. `TrunkAlwaysHeld` under ~SlowHangups: from preparation to
  release a run, and nobody else, may have calls in its name. The runner drains
  for two minutes and releases whatever happened (runner.go:618), so calls that
  hang up later do cross a released trunk: the assumption is needed.
  `RecordingAlwaysOffAtRest` under ~Failures: the last to wrap up turns it off, and
  only a refused request, or the toggle after it, leaves it on. `RunReadsRight` under
  ~SlowHangups, for any number of runs and dials: `RampInv` bounds what the session
  has decided by the baseline, the calls placed and others' calls since;
  `RecordedInv` says that a run that set recording last set what its test asks for.
* `ServerRegistryProofs`. `RegistryIInv` says where each request is and what it was
  asked about (`PlaceInv`), that an object, wherever it is pointed to from, belongs
  to one server (`OwnerInv`), that whoever builds a session is the one entered for
  it (`CacheInv`), that every range lies below the next port (`PortInv`), that a
  session cached or being built has its servers' details or is excused (`FreshInv`),
  and that the sessions of a server being removed are raced ones only, so that its
  successor starts without any other (`RemovedInv`): `RegisteredOnce`,
  `StaleByRaceOnly`. `FileHasTheStore`: `ConnectsTwo` says which two objects a
  connect job fills in, `SavedOrWillBe` that nothing else differs from the file but
  what the job that changed it is about to save.
* `SipCallProofs`. `MediaAsAgreed`: `DialogInv` says what PBXware has of a leg at each
  of its labels, `MediaInv` what the leg's BYE handler and the media have done by
  then; `NumberInv` carries the payload number from the offer. `RunsEndClean`:
  `GoroutineInv` gives each goroutine's stores, `ReturnInv` that none is left when
  `Run` returns a result. `LossFollowsPackets`: by `HighestInv` the highest
  extended number is that of the latest packet, or of one at most `Reach` behind it,
  and as many cycles too high as it has been raised by packets from before a wrap
  that came after it, at most one each. It rests on `NetworkAssumption`,
  Reach + Gap + Half < Modulus: between a late packet and one after a gap lie fewer
  than half the numbers; with more, a wrap cannot be told from a late packet, in the
  code or by anyone.
* `DashboardProofs`. `OnePasswordInForce`: `FileInv` says that, without an overlap, the
  one change under way owns the temporary file, `LoginInv` what a login carries that
  is still being checked. `LockoutAlwaysHolds`: by `LockInv` a client that is not locked
  out has not failed more often than the throttle has counted. `BannerAlwaysRight`:
  each extension's goroutine is counted once, and no report has read more than the
  counters had. `EventsShownOnce`: an event is overtaken only by those of the other
  writers (`LateInv`), so one missing from the ring is that many behind; a line is
  shown only by a page whose `lastSeen` is below it (`PageInv`).
* `TestReportProofs`. `DiagnosisIsTrue`: the last sample, the stop and the present
  counters are in that order (`CountersInOrder`), a cause has begun exactly if a sample
  saw it rise (`BegunWhenSeen`), and a streak is a run of readings at the end of those
  taken (`StreaksAreReadings`). `QualityIsOwn`: a recording promised to a reading is on
  a page read or on one to come (`ReadOrToCome`; pages only move down as CDRs
  appear), a call's own CDR is the nearest to it (`OwnIsNearest`, which needs calls
  further apart than twice the clocks' skew, as cdr.go:107-109 asks for), and
  the chunks made so far end where the next begins (`ChunksSoFar`). `UploadsAreTold`:
  `SetKeeps` says what one telling of the tracker changes and whom it mixes up,
  `HoldsWhatItUploads` that an uploader has a run's report; with them `UploadInv` is
  inductive over the starts of runs, which clear the tracker under an upload.
* `ServerSetupProofs`. `HostAsReported`, for any number of overlapping jobs: what a
  connect job is past has been set, unless it was overwritten (`ConnectInv`); a raised
  disk not in use is on a list or about to be (`OfferedInv`); an accepted restart, and a
  VPS that is not up, have a job that waits for them unless they are strays
  (`AwaitedInv`), and a VPS asked to restart with a raised record has the disk or that
  restart still before it (`DueInv`). `NeverStereoAlone`, `AnswersAlwaysTrue`: `PendingInv`
  says what the requests so far have set, `SeenInv` that what was read is still so
  unless it was disturbed. `StoredAsProvisioned`, `ReadyAlwaysStored`: a job records
  the numbers not taken one after the other (`RecordsInv`), so jobs that know nothing
  of each other come to the same ones, as far as each one's count goes, and PBXware has
  no others (`ExtsInv`, by counting the numbers not taken below an extension, which
  `FewBelow` does for a batch and `StoredHasAll` for what is stored); a record stays true until a job of the org resets (`KeptInv`); an extension a job
  has made it never makes again (`PastInv`), so what a reset deleted stays deleted
  (`CleanInv`). With three jobs of one org, one may create again what another's
  reset took from a third: hence the exception `BeingReset` in `NothingForgotten`
  and `SecretsWork`.

The corollaries `SipCallInvariants`, `DashboardInvariants`, `TestReportInvariants`
and `SetupInvariants` carry these to the compositions the runs check.

Only model-checked: liveness (`StopEndsBatch`, `PoolReturns`, `EveryBatchReleased`,
`RunEndsUnlessStopped`, `CancelEndsRun`, `DialReturns`, `UploadEnds`, `PacerLetsGo`,
`HangUpEndsBoth`, `RunReturns`), which is beyond this prover; and the two violations.

## What is not modelled

* SIP and RTP on the wire: REGISTER digests, message parsing, retransmission
  (the sipgo library's), audio payloads, pacing of packets, the choice of ports by
  the operating system.
* `ResetInstance`'s deletion of trunks (reset.go:83-88), trunks and DIDs of
  provisioning, PBXware's HTTP and JSON; the Multi-Tenant package's contents.
* Rendering of reports, latency percentiles, host metrics' averages, media
  totals: numbers that are only displayed. A sample enters `RunControl` as the
  choice whether a limit is reached, and `Diagnostics` as which causes rose.
* The page but its event list and registration banner; read-only handlers;
  log rotation; TLS and bcrypt; the DT Collector's range query; network address and
  certificate; the command-line tools but `-reset-password`.
* `Session.Close` (nothing calls it), disconnecting from SERVERware. Restarts of a
  VPS by others than SwarmDialer. That the restart handler is refused while a test
  runs (serverwarehandlers.go:105): `HostSetup` knows no tests, and allows more.
* Time: timers may fire at any moment, except that the settling wait of 65 s is
  taken to outlast PBXware's one-minute reload cycle, as the code's comment reports
  (trunkcodec.go:13-18), and that two minutes suffice for stopped calls to hang up
  where `SlowHangups` is FALSE.

What would come next: `ServerRegistry` with one-server sessions beside the pair's;
`TrunkCodec` below `RunControl` as a refinement instead of an abstraction by hand.
