# Verification of the honeynet platform

TLA+ models of the platform in this repository, the TLC configurations that
check them on small instances, and proofs that TLAPS checks for instances of
any size. Paths are relative to the repository.

## The system

Decoys (small HTTP servers in C) report each request they see, and a heartbeat
now and then, to an edge relay on their host. The relay forwards to the control
plane or spools. The control plane stores events, derives detections and
investigations from them, tracks which decoys are alive, and serves an analyst
console.

    decoy  --POST /event, /heartbeat-->  edge relay  --POST-->  ingest API --+
      ^                                   | spool files ^                    | PostgreSQL
      | start, probe, restart             +- replay loop +                   |
    decoy runner                                          worker  -----------+
                                          analyst console --GET, PATCH--> API +--> object store

| component | code | state | operations |
|---|---|---|---|
| decoy runtime | `unikernel-decoy/src/main.c`, `event_logger.c` | open client, time of the last heartbeat, event counter | serve a request, dispatch its event in at most three attempts, send a heartbeat |
| request parsing | `request_parser.c` | none | tags and fields of a request |
| edge relay | `edge_relay/app.py` | two spool files, a lock, what each thread holds in memory | handle a POST, queue, drain, replay loop, start |
| ingestion and worker | `ingest_api/main.py`, `services.py`, `worker.py`, `database.py` | event, detection and investigation rows; open transactions and their locks | ingest an event, materialize, worker round |
| detection rules | `ingest_api/services.py:445-594`, `695-701`, `main.py:293-309` | detections, investigations, their statistics and verdicts | record, repeat, update statistics, change a status, list block targets |
| fleet health | `ingest_api/services.py:147-442` | decoy and deployment rows, time of the last heartbeat | reconcile with the inventory, refresh, heartbeat, report |
| exports | `ingest_api/services.py:704-840`, `object_store.py`, `reporting.py` | artifact rows, objects | build and store an artifact, download it |
| authentication | `ingest_api/security.py` | user rows | check a key or token, create or update the user |
| decoy runner | `deploy/edge/ansible/templates/decoy-runner.sh.j2`, `decoy-instance.service.j2` | instance, consecutive failures, whether it is stopping | start, probe, restart, shut down |
| analyst console | `analyst-web/src/pages/*.tsx` | filters, rows shown, selection | load, update, select |

Interactions are HTTP calls with a timeout (decoy to relay, relay to API, console
to API), the shared database (API replicas and the worker), the shared spool
files (request threads and the replay thread of the relay), and signals (service
manager to runner and relay).

### What is hard

* *Two writers of one file.* The relay's request threads and its replay thread
  read, change and write the same files; the replay thread lets go of the lock
  while it forwards.
* *Lost answers.* A forward that fails may have been stored; it is spooled and
  sent again, and the control plane recognises it by its event id.
* *Crashes* between the truncation of a file and the write that follows.
* *Concurrent materialization.* Every API request and the worker select the same
  pending events, without locking them.
* *Order.* A spool is replayed minutes after newer events were stored, but the
  rules look backwards only and at every event once; a replayed heartbeat is
  older than the one it overwrites.
* *Partial failure.* A request commits its event and then fails; a batch is
  rolled back after some of its events.
* *Time.* Health depends on the age of a heartbeat, rules on windows of minutes.
* *Read, then written.* A refresh computes the health of all decoys from what it
  has loaded, locks nothing before it flushes, and a GET rolls it all back.
* *Two stores.* An export puts an object and then commits a row; either can fail.
* *Limits.* All requests share a pool of connections; some keep one, and row
  locks, while they wait for the object store.
* *One thread.* A decoy waits for a silent client as long as that likes.
* *Signals.* A shell script is stopped in the middle of a command, under `set -e`.

### What makes each component correct

* Relay: what was answered 200 is not lost silently; files are bounded; the two
  kinds never mix; the spool empties when the uplink works; requests end.
* Ingestion: "stored" is true; an event is marked exactly if its detections are
  there; every event is materialized in the end.
* Rules: detections are those of the reference whatever the batches; no
  accusation without its events; statistics agree; verdicts survive.
* Fleet: no heartbeat is lost to another session; a report reflects the newest
  one of each decoy; stale health heals; a decoy has one row and keeps its site.
* Decoy: an answered request has its event sent once or given up; heartbeats go on.
* Runner: one instance at most, and none that nobody watches.
* Exports: a listed artifact can be downloaded; no object is unaccounted for;
  requests end although connections and locks are scarce.
* Authentication: one user row per analyst, which nobody keeps locked for long.
* Console: the rows shown are those of the filter shown.

## Modules

| module | what it is |
|---|---|
| `StoreAndForward` | what the relay promises a decoy, as an abstract specification: a payload that was acknowledged is stored, held, or lost in a way that is on record |
| `EdgeRelay` | `edge_relay/app.py` in full: request threads, replay thread, lock, spool files, uplink failures, crashes; implements `StoreAndForward` |
| `SequenceFacts` | lemmas on ranges of sequences used by the proofs |
| `EdgeRelayProofs` | the theorems about `EdgeRelay` |
| `MCEdgeRelay` | its instances |
| `IngestApi` | concurrent transactions of requests and worker on PostgreSQL, statement by statement |
| `IngestApiProofs` | the theorems about `IngestApi` |
| `MCIngestApi` | its instances |
| `DetectionRules` | the rules, what they record, and the block list; one transaction at a time |
| `DetectionRulesProofs` | the theorems about `DetectionRules` |
| `MCDetectionRules` | its instance |
| `FleetHealth` | decoy and deployment rows under concurrent reports, heartbeats, events and the worker |
| `FleetHealthProofs` | the theorems about `FleetHealth` |
| `MCFleetHealth` | its instances |
| `Exports` | authentication, exports, list and download, with connections, row locks and the object store |
| `ExportsProofs` | the theorems about `Exports` |
| `MCExports` | its instance |
| `EdgeHost` | a decoy's thread, the runner script and its service unit |
| `EdgeHostProofs` | the theorems about `EdgeHost` |
| `MCEdgeHost` | its instance |

Definitions marked "Variant:" are plausible bugs; no specification uses them.
Each is put in the place of the definition after it to see that the property it
is meant for fails.

### EdgeRelay

One action per section of the code between two points where another thread can
run. `Post`, `HandlerForwards`, `HandlerFailsOver` and `HandlerErrs` are
`_handle_ingest`; `QueueOpen` and `QueueWrite` are `queue_payload` before and
after the file was truncated; `DrainTake` to `RewriteClose` are
`drain_spool_once`; `NextKind` is the loop around it. A line of a file is a
payload, or `Torn`, the fragment a crash leaves. `ForwardFails` lets the
control plane store a payload whose forward fails. A crash keeps the files, but
of one that is open only what was written so far (`Remains`). `overflowed`,
`clobbered` and `crashLost` record which copies were dropped and how; they are
history and no guard reads them.

Left out: the counters and text of `/health`. The branch for a status of 400
and more (`app.py:61-63`) cannot be reached, as `urlopen` raises `HTTPError`
first, which is a `URLError`; so it is not modelled, and `/health` never says
"degraded".

### IngestApi

`pc` says which statement a session executes next. `FindEvent` to `CommitEvent`
are the first transaction of `_handle_ingest`; `ScanPending` to `CommitBatch`
are `materialize_detections`, in a second transaction of a request or in a
round of the worker. The database is READ COMMITTED: `Sees` and `Reads` are
what a SELECT gives, including the objects SQLAlchemy has loaded already;
`owner` is the row locks; a flush takes those it `Needs` and waits while another
session has one; an INSERT fails (`EventExists`, `AggregateExists`) when the row
was committed since it was looked for; `DeadlockVictim` is PostgreSQL's deadlock
detection. `Fail` is any other exception or the death of a process. `value` is
`occurrences` of a detection and `detection_count` of an investigation
(`DetectionCount`). `raced` and `calm` are history: whether two materializations
have overlapped, and which sessions have had no other commit a batch since they
selected theirs.

The detections of an event are a constant here (`Emits`), those of the rules
that look at the event alone; windows are the subject of `DetectionRules`.
The fleet rows that the same transactions write are in `FleetHealth`; their
conflicts are a `Fail` here.

### DetectionRules

`Store` commits an event, in any order of `occurred_at`. `TakeBatch` selects the
oldest pending events, `Process` runs every rule for the next of them on what is
committed at that moment, `Commit` and `Abort` end the transaction; `work` is
what it has so far and `tables` what is committed. `TakeBatch` waits for the
transaction before to end. The code does not, so every property of this module
is about materializations one at a time; what overlapping ones do to each other
is in `IngestApi`. `UpdateDetection` is the
analyst's PATCH. `late` is history: the events that were stored after a later
one of their source had been selected. Severities, texts and evidence are left
out. The two window queries of an event are one step.

### FleetHealth

A session goes through the stages of its handler (`Program`): reconcile,
refresh, heartbeat or event, report, commit or close. A stage `Load`s its rows
and `Flush`es later what it has `Changed`, which are two actions because another
session may commit in between. `Reconciled`, `Refreshed`, `Seen` and `Alive` are
what `reconcile_expected_fleet`, `refresh_fleet_health`, `upsert_decoy` and
`upsert_heartbeat` make of a row; `Merged` writes only the columns that have
changed, as SQLAlchemy does. `Found` is the identity map: after the first commit
of `_handle_ingest` the decoy of the event is still in memory (`cached`), as the
session had it and not as its row has become meanwhile, since sessions keep
objects over a commit (`database.py:18`), and it is not read again. A decoy
and its deployment are one row with a count of copies, because every
transaction writes both. Of the inventory's columns the site stands for all.
Heartbeats have any time up to `now`, so that relays may delay, repeat and
reorder them. `newest`, `late` and `calm` are history.

Left out: columns that are only copied; the other statements of a stage are
taken together with its first SELECT or its last flush.

### Exports

`Connect` takes a connection for the first statement of a transaction, `Login`
and `LoggedIn` are `require_analyst_identity`, `Build` to `Record` are the
exports with `put_bytes` between, `Download` and `GetObject` the download. A
summary that finds fleet rows to change (`Refresh`) waits for their locks when
`Build` flushes, and keeps them; one that finds none goes on. `owner`
is the locks of user rows and of the fleet, `pool` the connections. The store
can refuse, fail with the object written, or start again empty
(`StoreRestarts`): the chart gives it no volume. An artifact's text and its
`generated_at` are left out.

### EdgeHost

`dpc` is where the decoy's thread is, `rpc` where the script is, `unit` what the
service manager does. `Accept`, `ReadAndAnswer`, `AttemptSucceeds` and
`AttemptFails` are `main`, `handle_client` and `dispatch_payload`; a heartbeat is
a dispatch for nobody. `StopInstance`, `StartInstance`, `Curl` to `NotReady`,
`WakeUp`, `Healthy` and `Unhealthy` are the script's commands. The script ignores
the errors of `kraft stop` and `kraft remove`, so a stop may leave the instance
as it is (`KraftStops`, recorded in `stayed`); then kraft refuses the name, and
`set -e` ends the script. `StopService` sends
SIGTERM to the whole unit: QEMU dies, the script may be in a command that is
`cut`, and `Trap` runs before its next line, or `set -e` ends it. `Exits` is the
end of the script under `Restart=always` (`Ends`, and the rest of the unit killed).
kraft, QEMU and systemd are external: that systemd kills what a unit has left,
and that kraft refuses a name in use, is assumed. `FAILURE_THRESHOLD` is 3 and the attempts are 3 in the code; both are
parameters. A curl that has given up stays in the backlog (`Stale`) and makes an
event there like any request: the runner's own probes are recorded as visits.

Left out: event ids, configuration, and a payload longer than its buffer
(`event_logger.c:487`), for which nearly all fields must be at their limits.

## Checks

| run | instance | shows |
|---|---|---|
| `relay_safety` | 2 events and a heartbeat, 2 request threads, `MaxSpool` 1, at most 2 posts of a payload, 3 failed forwards, 1 crash | `TypeOK`, `NoLostUpdate`, `SpoolBounded`, `KindsApart`, `Accounted`, and refinement (`Promise`) |
| `relay_liveness` | 1 event and a heartbeat, fairness | `Settles`, `RequestsAnswered` |
| `relay_clobber` | no crash needed | violates `StoresAndForwards` (finding) |
| `ingest_safety` | 2 events of a source, one with two detections, 2 requests, the worker, batches of 1 and 2, 1 failure | `AcknowledgedIsStored`, `ProcessedIsRecorded`, `RecordedIsProcessed`, `CountsExact` |
| `ingest_liveness` | 3 events with none, one and two detections, 1 request at a time and 3 in all, the worker, batches of 2, 1 failure, fairness; lock cycles occur | `EventuallyProcessed`, `RequestsEnd` |
| `ingest_counts` | as `ingest_safety` | violates `OccurrencesAreObservations` (finding) |
| `rules_safety` | 5 events of a source at 3 decoys, windows of 3, batches of 2, 1 change of status | `InOrderExact`, `NoFalseDetections`, `InvestigationsAgree`, `VerdictsKept`, `BlocksFollowVerdicts` |
| `rules_scans` | the same | violates `ScansDetected` (finding) |
| `fleet_safety` | a decoy of the inventory that reports no site and one that is not in it, 2 requests of every kind and the worker, clock up to 3, degraded after 1 and silent after 2 | `OneDeploymentEach`, `BeatsKept`, `ReportExact`, `SitesKept` |
| `fleet_liveness` | 2 decoys of the inventory, 1 session with 2 requests in turn (heartbeat, event or fleet page), the worker, clock up to 2, 1 exception or crash, fairness; lock cycles occur | `Converges`, `RequestsEnd` |
| `exports` | 3 requests at once (evidence, summary, list, download, heartbeat) of 1 analyst, 2 connections, 1 fault, fairness | `ListedIsDownloadable`, `ExportsAccounted`, `LoginsNeverWaitForStore`, `OneUserEach`, `RequestsEnd` |
| `edge_host` | 3 clients, one of each manner, threshold 2, 2 attempts, backlog 2, 1 fault, which may be a stop that fails, any number of lock waits, fairness | `NoOrphans`, `EventsAccounted`, `StartsOnFreeName`, `HeartbeatsGoOn` |

Each passing run of a module also checks its `TypeOK`, but for the liveness runs.

### Bounds

*Relay.* Two request threads and the replay thread are every pair of writers; a
spool of one line overflows with the second; three failures make a handler
queue while the replay thread fails a line, and leave one for a second round;
two posts of a payload are a decoy's repetition. The proofs need none of these
bounds to be small. *Ingestion.* Two requests and the worker give all pairs of
transactions, with the same event and with different ones; the event with two
detections makes a transaction hold one lock while it waits for another.
*Rules.* The five events break every rule but credential stuffing and two probes,
in every order of arrival; the last repeats the first and is far enough from it that windows cut. *Fleet.*
Three instants are a heartbeat that is fresh, degraded and silent; two requests
and the worker are all pairs of sessions with a third, and lock rows in cycles;
the placeholder comes from events, from the decoy's own configuration and not at
all. *Waiting for ever.* Only a cycle of row locks could last, so the liveness
instances are made to have them. In `ingest_liveness` a request goes through the
second and the third event and the worker begins with the third: they lock the
two detections in opposite orders. In `fleet_liveness` a heartbeat of one decoy
leaves a row to reconcile and one to refresh, and the fleet page refreshes first
where the worker reconciles first. If `DeadlockVictim` only tries its statement
again (`DeadlockRetried`), `RequestsEnd` fails in both. *Exports.* Two connections
run out with three requests; three can be two that wait for each other's rows
and one for a connection. Two of the four exports stand for all: with and
without fleet locks. *Edge host.* A threshold of
2 and 2 attempts have a first, and a last that differs from it; a backlog of 2
fills. One fault is one command that fails, a stop included, instance that dies
or start by hand, at any point; stops by the service manager need none. `MaxPosts`, `MaxFaults`,
`MaxCrashes`, `MaxRequests`, `MaxFails`, `MaxUpdates` and `MaxTime` are the only
bounds in guards. Threads, API sessions and payloads of a kind are interchangeable, and
symmetry is used in the safety runs of the relay, of ingestion and of the fleet.
Deadlock is checked but in the runs of `DetectionRules`, which stop when all
events are processed, and of `Exports`, which stops when all requests are served;
its `RequestsEnd` says that it does not stop earlier.

### Fairness

*Relay.* The replay thread catches every exception and loops for ever
(`app.py:103-110`): weak fairness. A forward ends within `urlopen`'s timeout and
a handler that holds the lock goes on: weak fairness. A handler that waits for
the lock is given strong fairness: `threading.Lock` promises no order, but the
replay thread leaves it free while it sleeps between rounds. That the uplink works
in the end is the bound on failures. *Ingestion.* A transaction that can go on
does; the worker starts a round after every sleep (`worker.py:10-15`) and its
Deployment starts it again when an exception ends it. A session that waits for a
row stands in PostgreSQL's queue for it and gets it in its turn, though others
come and go: strong fairness. With weak fairness a request could wait behind a
worker that locks the row, is rolled back and locks it again for ever; the worker
sleeps between rounds and the row goes to who waits. Nothing is assumed of
decoys. *Fleet.* The same, and the clock goes on up to its bound. *Exports.* A
request that has begun goes on: statements and calls to the store end (boto3
has timeouts), a wait for a connection ends after `pool_timeout`, and PostgreSQL
gives a row to one that waits. *Edge host.* The thread goes on whenever it does not
wait for a client, of whom nothing is assumed; a heartbeat's interval is longer
than its attempts take, hence strong fairness of `Accept`; `flock` gives the
lock to a runner that waits once it is free, hence strong fairness of the
runner, and other runners free it; `RestartSec` and `TimeoutStopSec` pass.

## Findings

1. `relay_clobber`: the rewrite of failed lines overwrites what was queued
   during the drain (`app.py:98-100`).
2. `ingest_counts`: an event is counted twice when two materializations overlap
   (`services.py:522`). When they do not, the counts are exact (`CountsExact`).
3. `rules_scans`: a scan is not detected when one of its events came late
   (`services.py:449`, `538`). When none does, detections are those of the
   complete history (`InOrderExact`).

Seen while modelling, in the models, and without a run of their own:

* A connection that breaks before the answer raises an exception the relay does
  not catch (`app.py:146`): the payload is neither forwarded nor spooled, although
  `docs/reference-architecture.md:21` says it is (`HandlerErrs`).
* "unknown" becomes a block target when a detection is repeated
  (`services.py:525`, `Repeated`); a new one excludes it (`services.py:509`).
* When materializations overlap, the one that commits later writes the count,
  spread and class that its own older SELECT gave (`services.py:473-483`): an
  investigation can go from "targeted" back to "opportunistic". It does not last:
  the next batch without an overlap counts again (`StatisticsHeal`).
* An event that comes late puts `last_seen_at` of its detection back, before
  `first_seen_at` even (`services.py:523`); its investigation takes the maximum.
* The last heartbeat received counts, not the newest (`services.py:401`): one that
  a relay replays makes a decoy that runs look silent until the next
  (`BeatsKept` and `ReportExact` exclude decoys that are `late`).
* A heartbeat writes the site the decoy reports over the inventory's
  (`services.py:399`); the next reconciliation puts it back. `SitesKept` names it.
* A decoy first seen by an event is "healthy" by default until a refresh, which
  makes it silent if it has sent no heartbeat.
* A report is exact while no other session commits between its reconciliation and
  its answer (`calm`); else it may mix both.
* A management summary keeps the fleet's row locks while it puts its object
  (`services.py:824`); heartbeats wait for it, but not for ever.
* The store of the chart keeps nothing over a restart; artifacts stay listed
  and cannot be downloaded (`wiped`).

## Proofs

`EdgeRelayProofs` proves, for any sets of payloads and threads, any `MaxSpool`
of at least 1 and any bounds:

* `TypeCorrect`: `Spec => []TypeOK`
* `LockIsSound`: `Spec => [](LockInv /\ NoLostUpdate)`
* `SpoolStaysBounded`: `Spec => []SpoolBounded`
* `KindsStayApart`: `Spec => []KindsApart`
* `PayloadsAccounted`: `Spec => []Accounted`
* `RelayImplementsPromise`: `Spec => Promise`, the refinement
* `InductiveInvariant`: `Spec => []IInv`

The assumptions are those of `EdgeRelay`: `MaxSpoolAssumption`,
`BoundsAssumption`, and `DistinctAssumption` (the model values differ and no
payload is an event and a heartbeat). None of the safety properties is
inductive alone. `LockInv` ties the lock to the program counters, so that only
one thread has a file open; with it `NoLostUpdate` says that this file is empty
until it is written back. `BufferInv` says what a handler is about to write,
which holds its own payload: that is why a payload is held when it is
acknowledged. `BatchInv` bounds the replay's lines and failed lines together by
what was taken, hence the rewrite by the spool limit. The refinement maps
`held` to the payloads on disk or in memory and `lost` to the three history
sets; its proof shows action by action that what leaves `held` was stored by
the same step or goes to `lost`.

`EdgeHostProofs` proves, for any clients, failure threshold and bounds:

* `NeverOrphaned`: `Spec => []NoOrphans`
* `StartsAlone`: `Spec => StartsOnFreeName`, an action property
* `EveryEventAccounted`: `Spec => []EventsAccounted`
* `HostTypes`: `Spec => []TypeOK`
* `InstanceIsWatched`: `Spec => []Watched`; `AccountsKept`: `Spec => []AccountInv`

`Watched` adds to `NoOrphans` that a script about to start an instance has
stopped the one before, or kraft has failed to, and that a unit which is stopped or waits to be started
again has no script. Without them a step could start a second script beside the
first. `AccountInv` adds to `EventsAccounted` that a client is in the backlog
once at most and has not been answered (`QueueInv`), and that the thread serves
one whose event is not accounted for yet (`ServedInv`): else the same event
could be both sent and lost. `Watched` needs no assumption on the constants,
`AccountInv` needs `ClientsAssumption`, the types `LimitsAssumption` as well.

`ExportsProofs` proves, for any analysts, requests at once, size of the pool and
bounds, from `NamesAssumption` and `ParametersAssumption`:

* `OneUser`: `Spec => []OneUserEach`
* `LoginsAreShort`: `Spec => []LoginsNeverWaitForStore`
* `ListedCanBeDownloaded`: `Spec => []ListedIsDownloadable`
* `NoExportIsLost`: `Spec => []ExportsAccounted`
* `ExportTypes`: `Spec => []TypeOK`
* `NobodyWaitsInCircles`: `Spec => []NoCircles`
* `InductiveExports`: `Spec => []ExportInv`; `TypesKept`: `Spec => []TypesInv`

`LockInv` says that a session between its flush and its commit has its
analyst's row locked, and that if it found no user there is still none: so the
row it commits is the first. `MakeInv` says of each export under way that its
key is made, is nobody else's, is in no row and was not given up; before its
row is inserted its object is in the store, or was and is lost. With `RowsInv`
and `AccountInv` each way in which an export can end leaves its object listed
or on record as failed. The lemmas split the steps by what they do to a
session: it ends (`EndKeepsExports`), goes on (`MoveKeepsExports`), makes a key,
puts its object. The full type says more than a type, and needs `ExportInv`:
who has a connection is told by his point, so that a session with a row locked
has one (`PoolInv`); keys made and exports whose key is still to be made are
together no more than the requests (`KeysInv`). `NoCircles` says that who waits
for a row waits for a session about to commit or at work on an export, which
waits for no row itself: the safety half of `RequestsEnd`, for any number of
requests. It is a theorem only, with no run of its own.

`IngestApiProofs` proves, for any events, rules (`Emits`), requests at once,
limits and bounds, from the assumptions of `IngestApi`:

* `IngestTypeCorrect`: `Spec => []TypeOK`
* `StoredWhenAnswered`: `Spec => []AcknowledgedIsStored`
* `MarkedWhenRecorded`: `Spec => []ProcessedIsRecorded`
* `RecordedWhenMarked`: `Spec => []RecordedIsProcessed`
* `CountsAreExact`: `Spec => []CountsExact`
* `StatisticsHeal`: `Spec => InvestigationsRecounted`, an action property
* `InductiveIngest`: `Spec => []IngestInv`; `CountsKept`: `Spec => []CountsInv`;
  `RecountKept`: `Spec => []RecountInv`

What a commit publishes was written statement by statement before, so `IngestInv`
has an invariant of each session (`SessionInv`): what it has been through is
recorded, in its transaction or before (`DoneInv`); of the event it is at,
everything but `todo` is (`CurrentInv`); each detection it has written belongs
to one of those events and has occurred (`WrittenInv`); a session that
materializes nothing holds no such row (`FreshInv`). "Recorded" means that the
row is committed, locked by the session, or dirty in it (`Has`), which nobody
else can undo: `FrameKeeps` proves that the steps of other sessions leave
`SessionInv` alone, and `GoOn` that a session may write more. `CountsExact` is
about sums, and holds only while materializations have not overlapped. Until
then at most one session materializes; of that one `SoloInv` says that what it
has loaded is what is committed, that the count it has for a detection is the
number of events that are marked, that it has been through, or that it is at
(`Counted`), and that the count of an investigation is the number of its
detections there are. `KnownInv`, of every session, says that it writes what it
has loaded, inserts what it has not, and records a detection once for an event.
`InvestigationsRecounted` needs no such exception: it is about any session during
whose batch no other one has committed, whatever was overlapped before.
`RecountInv` says of it that what it has loaded is what is committed, and that an
investigation it has counted has the number of its detections, committed or its
own. It is a theorem only: an investigation, two overlapping batches that add to
it and one after them take more events than a run has room for.

`FleetHealthProofs` proves, for any fleet and inventory, requests at once,
thresholds and bounds, from `SessionsAssumption` and `FleetAssumption` (and, for
all but the first two, `TimesAssumption`):

* `OneDeployment`: `Spec => []OneDeploymentEach`
* `HeartbeatsKept`: `Spec => []BeatsKept`
* `SitesStay`: `Spec => SitesKept` and `ReportsAreExact`: `Spec => ReportExact`,
  action properties
* `FleetTypes`: `Spec => []TypeOK`

A session writes what it computed from rows it loaded long before, so the
invariants say what is still true of such rows when they are flushed.
`SessionInv`: a row that was there when it was loaded is still visible to the
session (`FrameKeeps`: no step of another session takes it away), so that a
flush inserts only rows that are not there. `BeatInv`: what a transaction has
written of a row has the newest heartbeat or, with only its commit left, the
one it was sent (`Applied`). A heartbeat that finds its own time stored writes
nothing; if another one is stored by the time it commits it is late, which is
the one exception `BeatsKept` makes (`CommittedBeat`). `SitesInv` says of every
row a session owns that its site is kept, or forgotten for one of the two
reasons `SitesKept` names. `ReportsInv` follows a session through its stages as
long as no other has committed since it reconciled (`calm`): after reconciling
it sees every expected decoy at the site of the inventory, after refreshing
every row has the health of its heartbeat at the time it read, and what it sees
is what is committed, so that its answer is right although it is put together
in several transactions.

`DetectionRulesProofs` proves, for any events and order of their arrival,
windows, limits, verdicts and bounds, from the assumptions of `DetectionRules`:

* `TypeCorrect`: `Spec => []TypeOK`
* `NobodyAccusedFalsely`: `Spec => []NoFalseDetections`
* `InvestigationsRight`: `Spec => []InvestigationsAgree`
* `VerdictsStay`: `Spec => VerdictsKept`
* `BlocksFollow`: `Spec => BlocksFollowVerdicts`, both action properties
* `InOrderIsExact`: `Spec => []InOrderExact`
* `InductiveRules`: `Spec => []RulesInv`; `HistoryKept`: `Spec => []HistoryInv`

`RulesInv` says of the tables the open transaction sees what it says of the
committed ones, so that a commit has nothing to show and a rollback neither:
the detections are well formed and name the address of their source
(`DetectionsInv`), the investigations sum them up (`InvestigationsInv`), the
stored events bear out the accusations (`BorneOut`), and no committed detection
is missing or has another decoy. `RecordedKeeps` and `InvestigatedOK` show that
going through an event keeps this; `ScanReported` and `BurstReported` find the
three events in a window whose count reached three; and since events are only
ever added, what is borne out stays so. That the address among the targets is the source's own is what the block list needs.
`InOrderExact` counts over the whole history. `HistoryInv` says that of a source
whose events come in order, what is committed, what the transaction has gone
through and what is left of its batch are each a beginning of its history
(`Before`), and that the detections of each are exactly those of the events gone
through (`Exact`). A later event changes nothing for one before it
(`SamePrints`), because the rules look back only.

Only model-checked: liveness, since fairness is outside the prover (`Settles`,
`RequestsAnswered`, `EventuallyProcessed`, `Converges`, `HeartbeatsGoOn` and the
three `RequestsEnd`). Every invariant and every action property that a passing
run checks is a theorem, as is the refinement of `StoreAndForward`.

## Plan

In this order; each module with its instances, properties and proofs.

1. `EdgeRelay`, `StoreAndForward` and proofs: done.
2. `IngestApi` and proofs: done.
3. `DetectionRules` and proofs: done.
4. `FleetHealth` and proofs: done.
5. `Exports` and proofs: done.
6. `EdgeHost` and proofs: done.
7. `Pipeline`: a decoy's dispatch, `EdgeRelay` and an abstract control plane
   composed: an event has its effect at most once, and at least once unless it
   is in one of the recorded losses. Refines "observed, delivered, given up".
8. `AnalystConsole`: answers out of order.
9. `Classification`: tags of the decoy and of the control plane as operators,
   compared on bounded inputs.

## Not modelled

Page layout of decoys and console, report formatting, migrations, charts and
scripts (no state of their own, or declarations that the models use: unique keys,
restarts, volumes); the check of tokens, which is that of libraries; event ids;
the first-generation dashboard and the container baseline, which the control
plane has superseded. The console and the classification of requests are in the
plan.
