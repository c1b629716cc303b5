# HomelabWatch: specifications

TLA+ modules that model HomelabWatch as its Go sources implement it, the TLC
configurations that check them on small instances, and proofs checked by TLAPS.
Paths below are relative to the repository; line numbers are those of the commit
the modules were written against, and `PROJECT.json` maps every definition to the
lines it models.

## The system

HomelabWatch is one Go process: a scheduler with six jobs, an HTTP API, an event
bus and a SQLite store. Nothing but the store is persistent. Every job can also be
started by a request, and nothing keeps two runs of one job apart.

| Component | State | Operations | Interacts with |
|---|---|---|---|
| Health checks in the store (`internal/store/sqlite/health_checks.go`) | `health_checks`, `health_check_results`, the `status` of services and discovered services | save, delete, replace, copy and clean up checks; record a result; roll a status up; list due checks | called by the job, the API, fingerprinting and acceptance |
| Health-check job (`internal/app/app.go` `runMonitoring`, `internal/monitoring/runner.go`) | of a run only: the listed checks, the outcomes collected | list, probe, save, publish; then the same for discovered services | store, bus, scheduler, `POST /monitoring/run` |
| Services (`store_impl.go`) | `services`, `service_events` | save (an upsert), delete, apply a definition | checks, bookmarks, discovery |
| Discovered services (`discovered_services.go` in `store` and `app`) | `discovered_services`, evidence; states pending, ignored, accepted | observe, ignore, restore, refingerprint, accept | discovery jobs, services, bookmarks |
| Service definitions (`service_definitions.go`, `servicedefs`) | definitions with matchers and check templates; the mode auto or custom of a subject | save, delete, match, reapply | services, managed checks, an HTTP fetch |
| Event bus and SSE (`events/bus.go`, `api/sse`) | a bounded queue per subscriber | subscribe, publish without blocking, unsubscribe | every writer, browsers, notifications |
| Notifications (`internal/notifications`) | channels, rules, deliveries | match an event, create a delivery, send, update it | bus, store, webhooks |
| Scheduler and job state (`worker/scheduler.go`, `RecordJobRunWithOutcome`) | a timer per job; `job_state` | run, sleep, run; count failures | all jobs |
| SQLite connections (`store_impl.go` `New`) | one write connection, four readers | begin, query, commit | everything |
| Bookmarks, folders, tags (`bookmarks.go`) | bookmarks, the folder tree, tags, services owned by a bookmark | save, move, reorder, delete, import | services, discovered services |
| Devices (`store_impl.go`) | devices, addresses, ports | observe, rename, hide | discovery, topology |
| Discovery providers (`internal/discovery`) | none | scan a LAN, read Docker, poll SNMP | the discovery jobs |
| Topology (`topology.go`) | sources and their observations | poll, replace observations, build the map | SNMP, devices |
| Bootstrap, settings, API tokens (`store_impl.go`) | `app_settings`, `api_tokens` | first-run setup, tokens | API |
| Status pages (`status_pages.go`) | pages, services on them, announcements | edit, publish, a second roll-up | services |
| HTTP API, front end, configuration, logging | sessions of browsers | decode, check, call | everything |

What makes this hard, and what must hold:

* **Health**. Results are saved by any number of overlapping runs, probes take seconds,
  checks come and go under them, and a run that fails forgets what it has not published. Two
  columns tell of one check: `last_status`, from which alerts are made, and the newest
  result, from which statuses are made. Correct: the two agree unless a late result is
  saved; alerts alternate and agree with the row; a status is not made stale by probing;
  every due check is probed in the end.
* **Discovery and acceptance**. Up to seven transactions without a lock, with a roll-back
  that ignores its errors. Correct: the references between a discovered service, its service
  and its bookmark agree, whatever is repeated, overlaps or stops half-way, but for a row
  that a user has rewritten; whoever asks gets a bookmark in the end; ignored means ignored
  until the service changes.
* **Definitions**. A service is read, an HTTP page fetched for up to two seconds, the whole
  row written back, and its checks replaced in a later transaction. Correct: a service
  managed automatically has the checks of the definition it shows, and an edit of the
  definition's templates reaches it, unless what was to bring it there failed or came late.
* **Bus and notifications**. Queues are bounded and drop; deliveries are stored before and
  after sending; the engine publishes on the bus it reads from. Correct: events of a
  publisher keep their order, a delivery is sent at most once and tells the outcome, an
  event makes one delivery per rule and channel, what was off stays silent, the engine
  always comes back to its queue.
* **Reader pool**. Queries that query for every row hold one connection while they wait for
  another, and as many of them as there are connections wait for each other. Correct: the
  process alone never gets there, and a circle that requests close ends when the client of
  one leaves.
* **Job state, bootstrap, tokens**: read-then-write in two statements. Correct: no failure
  is counted that was none, and every one is unless two runs end at once or the read fails;
  of set-ups that overlap (two may both succeed) one is left whole; a revoked token is
  accepted at most where it had been found before.
* **Folders and bookmarks**. Correct: a forest after every request, nothing lost or moved by
  a deletion, one bookmark per service, no hidden service without its bookmark.
* **Devices**. Correct: one device per machine, announced once, hidden while hidden.
* **LAN scan**. Producer, workers, closer and collector wait for each other. Correct: it
  returns, with everything that answered.
* **Topology**. Polls take seconds while sources are edited; the map is walked over links
  that both ends report. Correct: stored observations catch up with the sources; nothing is
  drawn twice or left out.
* **Status pages**. Two computations of one status, times compared as texts. Correct: they
  agree, and notices show in their window.

`PROJECT.json` lists under `hazards` each of these at the line where it bites, with
the properties that cover it, or a note that says why none does.

## Modules

| Module | What it is |
|---|---|
| `HealthStore` | the tables and each write transaction on them as one operator |
| `HealthMonitoring` | the health-check job, overlapping runs, users, the other jobs, restarts; composes the transactions of `HealthStore` |
| `HealthAlerts` | `HealthMonitoring` with two history variables: alerts raised and alerts sent to the bus |
| `DiscoveryStore` | the tables of discovery, services and bookmarks with their unique indexes and foreign keys, each write transaction as one operator |
| `Promotion` | abstract specification: a discovered service is promoted in one step |
| `Acceptance` | `CreateBookmarkFromDiscoveredService` transaction by transaction, concurrent requests and jobs, users, failures, restarts; composes `DiscoveryStore`, refines `Promotion` |
| `EventBus` | the bus: subscribers with bounded channels, publishers that never wait |
| `JobState` | the end of a run of a job: the failure count, read and written in two statements; extends `EventBus` |
| `Notifications` | the engine, a test request, users who edit rules and channels; extends `JobState`, so that events, counts and deliveries are one system |
| `Prefixes` | powers of two and blocks of addresses, what the code takes from `net/netip` |
| `HostSweep` | abstract specification: a scan probes every address once and returns what answered |
| `LanScan` | `Provider.Discover` of the LAN: four kinds of goroutines over two channels, and the expansion of prefixes; refines `HostSweep` |
| `ReadPool` | the connections for reading and the queries that nest |
| `TopologySources` | SNMP sources, auto-discovery, polling by the job and by hand |
| `Folders` | the tree of bookmark folders |
| `LibraryImport` | export into an import, row by row; extends `Folders` |
| `Bookmarks` | bookmarks, their tags, and the services they own |
| `Devices` | the devices that scans observe |
| `Setup` | first-run setup, scan targets, Docker endpoints, API tokens |
| `StatusPages` | pages, their services and announcements, two roll-ups |
| `TopologyMap` | the map: places by address, the breadth-first walk over the links |
| `ServiceDefinitions` | requests and the job that apply definitions, and users meanwhile |
| `MCHealthMonitoring`, `MCHealthAlerts`, `MCAcceptance` | symmetry for TLC |
| `MCConcurrency`, `MCData` | the instances of the other modules, one part at a time |
| `HealthMonitoringProofs`, `HealthAlertsProofs` | theorems about the health-check job |
| `AcceptanceProofs`, `PromotionProofs` | theorems about acceptances, and that they implement `Promotion` |
| `NotificationsProofs` | theorems about the bus, the failure counts and the deliveries |
| `NetworkProofs` | theorems about the LAN scan, that it implements `HostSweep`, and about the map |
| `ReadPoolProofs`, `DataProofs` | theorems about the pool, and about the stored data with the import and the managed checks |

### HealthStore

`Store.db` has one connection, so that a transaction is atomic and one action.
`subjects` holds the rows of `services` and `discovered_services` with their
`status`; `checks` the rows of `health_checks`. Of a check's results only the status
of the newest is kept (`newest`), which is all that `rollupSubjectStatusTx` and
`isDue` read. The clock is kept per check as a `timer`: *waiting* (`next_run_at` is in
the future), *held* (it has come, but the newest result is younger than the
interval, so that `isDue` says no) and *due*. `RecordResult` takes from its caller
whether the result is older than one stored already.

Simplifications, each of which the header of the module repeats:

* `health_config_mode` is not kept. It is tested on a copy of the row read earlier,
  so that both outcomes are possible whatever the row says by then.
* Names, targets and intervals are not kept. The unique index on targets is a hazard
  of its own (see the list).
* Ids of new rows are random. An id that no table and no run holds is as good as new.
* `consecutive_failures` counts to `MaxFailures` and stays there.
* Results are ordered by time; the string comparison of the code is a hazard of its
  own.

### HealthMonitoring

A run is *idle*, *loading* (the query of `GetChecksDue` has been answered),
*checking* (the services are loaded, `isDue` has been applied), *publishing* and then
at the *discovered* services. `todo` is the slice it ranges over, `probe` the probe in
flight, `outcomes` what it has saved and not published. Probe and save are two
actions, because users, other jobs and other runs act while a probe waits for the
network. The order of results is the order in which probes begin (`checkedAt` is
taken before the request): `earlier[r]` holds the runs whose probe of the same check
began before that of `r`; when `r` saves, these become `overtaken`.

`EditStep` is everything users and the other jobs do to these tables, taken from the
handlers of `internal/api/http`, with what they let through: a check can be saved
under an id that has just been deleted (`Resavable`), a service can be deleted while
its checks stay (`Deletable`), saving a deleted service brings it back.
`AbortRun` is the cancellation of a request or an error of the store, possible at
every call of the store; `ProcessStops` is the end and restart of the process.

The two parts of `CreateBookmarkFromDiscoveredService` that touch these tables are
the actions `SaveManualService` and `AcceptDiscovered`, and those of
`applyBestDefinitionToService` are `SaveManualService` and `SyncHealthChecks`: they
are transactions of their own in the code, with fetches and reads between them.

### HealthAlerts

`raised` is the last transition of each check that a committed result stood for,
`published` the last one sent to the bus; a check that is deleted takes its history
along. Each step is a step of `HealthMonitoring`.

### DiscoveryStore

The rows of `discovered_services`, `discovered_service_evidence`, `services` and
`bookmarks`, reduced to the columns that decide about an acceptance; the header of the
module lists them. `Taken` is the two unique indexes of `services`, `DeleteServiceRow`
and `DeleteBookmarkRow` carry the `ON DELETE SET NULL` of the foreign keys along. The
two fingerprint hashes are records of the fields that each is computed from: one starts
with a source, the other with a merge key, so that they are never equal
(`fingerprintObservation`, `computeDiscoveredFingerprintHash`). An observation may be
of any discovered service; which one is decided by the merge key in the code.

Users reach the same columns by other doors. `EditServiceRow` is `PATCH services/{id}`: it
writes all of them, from the body or, where that is silent, back to a manual service
without origin; it inserts the row when the id has been deleted. `EditBookmarkRow` is `PUT`
and `PATCH bookmarks/{id}`, which link a bookmark to any service or none.
`edited`, which is no column, remembers which rows users have written so.

### Acceptance

An acceptor is a request of a user or a discovery job. `work` holds where it is in
`CreateBookmarkFromDiscoveredService` and its local variables: the discovered service
it has read, the source and name derived from it, `serviceID`, `createdService` and the
bookmark.

| `pc` | next in the code | actions |
|---|---|---|
| *observed* | a job has stored an observation, found it pending and asks `shouldAutoBookmark` | `AutoBookmark`, `SkipObservation` |
| *inserting* | `SaveManualService` of the store | `InsertService`, `FailToInsert` |
| *defining* | the fetch and the second save in `applyBestDefinitionToService` | `ApplyDefinition`, `FailToDefine` |
| *syncing* | `SyncServiceHealthChecks` | `SyncChecks`, `FailToDefine` |
| *copying* | `CopyDiscoveredChecksToService` | `CopyChecks` |
| *bookmarking* | `CreateBookmarkFromService` | `SaveBookmark`, `FailToBookmark` |
| *linking* | the reload of the bookmark, `SaveDiscoveredServiceBookmarkLink` | `LinkBookmark`, `FailToBookmark` |
| *marking* | `MarkDiscoveredServiceAccepted` | `MarkAccepted`, `FailToMark` |

`FailAndRollBack` is an error of the store where the code rolls back and the roll-back
works; `FailForGood` is one without a roll-back, or with one that fails because the
context has ended. Between the commit of an observation and the decision there is a
reload; nothing another actor does in between can be told from its doing it before the
observation or after the decision, so that observation and decision are one action.
The acceptance reads the row again after it, which is an action of its own.

`SaveService` and `PutBookmark` are the requests of users that end in `EditServiceRow` and
`EditBookmarkRow`. They are steps of the same system: an acceptance may find the service it
has just made with another name or origin, or its bookmark linked elsewhere. `LinksAgree`
and `HistoryKept` make an exception of a row that is `edited`, and of no other: an
acceptance must not spread to other rows what a user has written into one.

`PromotesAtomically` maps this to `Promotion`: a service counts as ready when it exists
and its checks have been copied or it has been rewritten, and the step that promotes is
`MarkAccepted`; every other step of an acceptance prepares it or is a stutter. What users
rewrite is in `Promotion` too (`RewriteService`, `RewriteBookmark`): it changes what they
rewrite and promotes nothing.

### EventBus, JobState, Notifications

`queue` maps the current subscribers to the contents of their channels; a publisher in the
middle of `Publish` (it holds the read lock) is in `sending` with the subscribers it has
not offered its event to, which `Offer` does one by one and drops when the channel is
full; `Subscribe` and `Unsubscribe` need the write lock. Events carry the publisher, a
stamp and what rules look at. `JobState` is `recordJobRun`: `ReadFailures`, whose
error the code discards so that it counts as no failures (`FailuresRead`, `misread`), then
`WriteJobState` or its failure, then the event. `Notifications` keeps the two tables that
users edit, the deliveries, and for the engine and the test request (`work`) where they
are in `handleEnvelope`, `send` and what they hold.

| `at` | next in the code | actions |
|---|---|---|
| *receive* | the engine's channel | `Receive` |
| *rules*, *attach* | `ListEnabledNotificationRules`: the rules, then the channels of each rule, in queries of their own | `ListEnabledNotificationRules`, `AttachNotificationRuleChannels` |
| *next* | the next rule and channel; `GetNotificationChannelForSend` | the action of that name |
| *create*, *send*, *update* | the delivery is stored, sent, stored again | `CreateNotificationDelivery`, `Send`, `UpdateNotificationDelivery` |
| *publish*, *published* | the event "notification" on the bus | `PublishDelivered`, `AfterPublish` |

`StoreFails` is an error of a statement, or of the read that follows the write of a
delivery: the row is stored then and its sender gives up. `Restart` is the end of the
process. Worker events
stand for all kinds of events a rule can name, since the engine treats them alike.

### LanScan, ReadPool, TopologySources

A worker of `LanScan` waits, probes, reports or has returned; hand-over on the unbuffered
channel is one action of both sides. The end of the context may be seen at every select.
`SweepsOnce` maps a scan to `HostSweep`: an address counts as probed once it is neither
unsent nor with a worker that has no answer yet, what answers is the history variable
`answered`, and the outcome is there when `Discover` has returned. `ProbeHost` is `Probe`,
`DiscoverReturns` is `Return`, `CancelScan` is `Cancel`, and all other steps are stutters.
`ReadPool` knows of a query only where it stands: waiting for a connection, with open
rows, waiting for the connection of the inner query, or in it. Queries that nest are those
of the process's own goroutines (`NestedJobs`: the engine and the loop of the health job),
whose context ends with the process, and those of requests (`NestedRequests`), of which
there may be any number and whose context ends with the client (`Abort`). In
`TopologySources` a run lists sources, polls them all, then stores observations and status
in two statements per source. `StatementFails` is the error of one: that of the
observations goes to the source's status, that of a status is ignored, and the run goes on
with the next source.

### Folders, LibraryImport, Bookmarks, Devices, Setup, StatusPages

Every transaction is one action; requests that read first and write later (`Setup`'s two
checks, the look-up of a token and its stamp, a scan's announcement after its transaction)
are several. `Folders` keeps `parent_id` and the bookmarks' `folder_id`. The walk up of
`ensureFolderParentAllowedTx` is stated through closed sets, which a proof can use and TLC
evaluate. `LibraryImport` compares ids as numbers, in the order the code sorts by, and
starts from every export of up to three folders. `Bookmarks` keeps links, ownership and
tags. The identity of a device is a function of what a scan knows (`IdentityKey`), and a
machine is a MAC address.
`StatusPages` keeps times in half seconds, `Text` being what RFC3339Nano makes of them for
a comparison of strings.

### TopologyMap

A deterministic computation over one reading of the tables: the initial states are the
inputs. A device's addresses are a sequence, in the order of their texts; all are stored as
primary, so that the last one is the `Primary` of the code. `ParentSubnet`, `DeviceSubnet`
and `Group` place a device by its addresses, the
actions `Start` and `Visit` are the breadth-first walk. Any width of addresses will do (`Width`;
four bits in the run), and the prefix lengths of groups are constants. `MapInit` allows any
subnets and devices and any finite set of reports; the run's own initial states
(`SomeMap`) are some of them, enumerated. It is assumed that agents report their chassis id
(so that both reports of a link name the same two devices) and that a source without
neighbours is left out.

### ServiceDefinitions

`labels` are the mode and definition of services and discovered services; `edition` counts
for each definition how often it has been saved or deleted, and so stands for its check
templates, which every save deletes and inserts again; `managed` says of the managed checks
of a subject which definition and which edition they were made from (`ChecksOf`, which is
`InstantiateChecks`), `own` the same of checks that users added or took over; `appliers`
are the requests and the job with the list they work through, and the subject, the plan
and the state of the row they hold. What a fetch finds is open, so that the best match is any
enabled definition or none; templates never mark a check as a user's own; a built-in
definition is one that nobody edits. A mode that a user sets while a page is fetched is
overwritten by `WriteBack`, since the code writes the copy it read before; the model
does the same. `SyncServiceHealthChecks` makes the checks before the transaction that
writes them, so that a definition edited in between leaves the checks of its former
templates; the model does that, too.

Two histories say where the code promises nothing. `cutShort` keeps the subjects whose row
has been written and whose checks have not been replaced because a statement failed, a
target was taken by a user's check, or the request ended. `outdated` keeps those that an
edit of templates has not reached: the loop ended before them (`CutShort`; the first error
ends it for all the rest), they were left out as accepted (`Skip`), their checks came late,
or were copied from one of these. `ChecksFollowDefinition` says that there is no other way:
an automatic subject agrees with its row, and has the present templates of its definition,
unless somebody is still on the way to it (`HalfDone`, `ToDo`) or it is in one of the two.

## Runs

| Run | Instance | Shows |
|---|---|---|
| `health_overlap` | 1 service, 1 check, 2 runs, both cancellable, restarts, service and check deletable, check saved again; failures to 2 | `AlertMatchesRow`, `AlertsAlternate`, `PartsOnlyByOvertaking` |
| `health_rollup` | 1 service, 1 discovered service, 2 checks, 1 cancellable run, restarts | `TypeOK`, `WaitsOnlyOnceRun`, `StaleOnlyByEdits` |
| `health_liveness` | 1 service, 2 checks, 1 run | `DueChecksGetProbed`, `StatusCatchesUp` |
| `health_orphans` | 2 services, of which 1 can be deleted, 2 checks, 1 run | violated: `DueChecksGetProbed` |
| `health_lost_alerts` | 1 service, 2 checks, 1 run | violated: `AlertsReachTheBus` |
| `acceptance_safety` | 2 discovered services, 2 services, 1 bookmark, 2 names, 1 source, 1 request and 1 job; users delete, bookmark, and have rewritten at most 1 row at a time; 1 failure or restart | `TypeOK`, `LinksAgree`, `HistoryKept`, `RollBackIsSafe`, `PromotesAtomically` |
| `acceptance_succeeds` | 1 discovered service, 3 services, 1 bookmark, 2 sources, 2 requests and 1 job; users ignore and restore; no failure | `AcceptingSucceeds` |
| `acceptance_ignored` | 1 discovered service, 2 sources, 2 looks, 1 job; users ignore and restore | violated: `IgnoredUntilItChanges` |
| `acceptance_stuck` | 1 discovered service, 2 services, 2 names, 1 request and 1 job, 1 failure or restart | violated: `AcceptingSucceeds` |
| `concurrency`, parts events, alerts, tests | 2 runners of a job, a browser, the engine with a channel of 1 event; 1 channel, a rule with a threshold or one without; 2 runs, 1 edit, 1 test, 1 failure or restart | `OrderPerPublisher`, `FailureCountSound`, `DeliveriesTellTheTruth`, `OneDeliveryPerEvent`, `AlertsNeedFailures`, `OffStaysSilent`, `EngineComesBack`, `PendingSettles`, `PendingIsInHand` |
| its part scan | 2 targets, 2 workers, addresses of 4 bits, at most 3 addresses to probe | `ScanComplete`, `ScansUsableHosts`, `ScanReturns`, `ScanMovesOn`, `SweepsOnce` |
| its part pool | 2 connections, a nesting job, a nesting request, a plain one | `CircleTakesRequest`, `ReadsFinish` |
| its part sources | 1 source of a user, 2 agents, the job and a run by hand, 2 changes | `SourcesCatchUp` |
| `stored_data`, parts folders, import | 3 folders, 1 bookmark | `FoldersFormForest`, `DeletionKeepsPlaces`, `ImportsNothingElse` |
| its parts bookmarks, devices | 2 bookmarks, 2 services, 1 tag; 2 machines, 1 host name, 1 address, 1 Docker endpoint, 2 scanners | `BookmarkLinksHold`, `DevicesIdentified` |
| its parts setup, tokens | 2 setups, 1 network; 2 tokens, 1 request | `SetupAndTokensHold` |
| its part pages | 1 page, 2 services, 2 announcements (one without a window), 5 half seconds | `PagesAgree` |
| its part map | every set of reports of a ring of 5 switches with a doubled cable; every 2 subnets and 2 devices of some address space | `MapHolds` |
| its part definitions | 2 definitions, 1 service, 1 discovered service, 2 appliers, 3 edits or begun requests | `ChecksFollowDefinition` |
| `import_restores` | every library of up to 3 folders into an empty instance | violated: `ImportRestores` |

The parts of `concurrency` and of `stored_data` have no variable in common, so that one
run checks them one after the other: the variable `part` is chosen at the start and the
other parts rest. In both, some parts come to a legitimate end (a scan that has returned, a
map that is drawn, bounds that are used up), so deadlock is not checked there, nor in
`import_restores`; it is checked in all other runs. What waits for ever in `concurrency`
is caught by its liveness properties.

The runs with a violation are findings; `PROJECT.json` quotes what the documentation says.
In `health_orphans`, `DeleteService` leaves the checks of the service behind and
`GetChecksDue` fails for everybody from then on. In `health_lost_alerts`, a check that is
deleted while the job probes it takes the alerts of the checks saved before it along. In
`acceptance_ignored`, the next observation of an ignored service brings it back, because two
different hashes are compared. In `acceptance_stuck`, an acceptance interrupted after its
insert leaves a service that no row refers to and that keeps the unique `source_ref`; all
later acceptances of that discovered service fail. In `import_restores`, folders are saved
in the order of their parents' ids, which are random: a grandchild can come before its
parent, and the import stops halfway.

Why these bounds are enough. Two runs and one check give every order of begin and
save of two probes, which is what `PartsOnlyByOvertaking` and the alerts are about; a
third run adds only further overtaken results. Two checks give every value of the
roll-up (none, one, equal, different), and let a run fail at one check after
saving another. A failure count that stops at 2 tells 0, 1 and more apart. Two ids
of checks let one be deleted and another inserted. The theorems below lift the safety
properties from these instances to all.

For acceptance, one request and one job are two acceptors that may hold the same
discovered service or different ones, the same service or different ones; two services
let one be deleted or rewritten while another is created, and one bookmark is what both
services compete for; a single failure is
enough to leave any half of an acceptance behind, and a second one meets only a state
in which somebody has already left one. Two names let the index on slugs refuse one service
and admit another. One rewritten row at a time is a service or a bookmark, at any
moment of an acceptance; to write it again, or to delete it and write the next, is
allowed. What users put into a service is the worst for the references: no
origin and a reference of its own (`EditedRows`); the theorems allow any. Ignoring and
restoring write none of the references and are left to the runs that are about them.
`acceptance_succeeds` has a source
more, so that two attempts at one discovered service may have different keys and both
make a service; with 3 services all acceptors may hold one.

In `concurrency`, channels of one event are full as soon as one waits, which is where losses
happen and where a publisher that waited would block; two events are enough for an order,
and a browser that comes and goes meets a publisher at each of its offers. Two runs of a job
can overlap, which is all that `overlapped` distinguishes; either may misread. A delivery by
a rule, one of a test, and one failure meet at every step of a send. Two workers and three
addresses let one worker report while the other returns and the producer still hands over;
four bits hold every prefix length around the limit. Two connections are taken by a nesting
job and a nesting request that wait for each other: the circle happens in the run, and
`CircleTakesRequest` and `ReadsFinish` speak of it. In `stored_data`, three folders are
enough for a cycle through a third, two setups, scanners or appliers for an overlap, three
edits for a definition saved, applied and saved again while another applier is under way,
two tokens for one revoked and one not, and a ring of five with a doubled cable has two
shortest ways, a cross link and a link reported by one end only. Where a theorem is listed
below, it lifts the property to all instances.

**Fairness.** `FairSpec` assumes that a run which can go on does (`WF(RunStep)`), and that
the clock goes on (`WF(TimePasses)`). The first is `runLoop`: it sleeps for the interval
and runs the job again whatever the last run returned; every probe has a timeout.
Nothing is assumed of users. Both liveness properties start from the time after which
nobody edits a service or a check (`LeftAlone`): somebody who switches a check off and
on between any two runs of the job can keep it from being probed for ever.
`health_liveness` leaves out what defeats every such promise: a run that is cancelled,
or a process that is restarted, each time before a probe is saved probes nothing
(`Cancellable` is empty, `MayStop` is FALSE). It also leaves out the deletion of
services, because with it the property fails for a reason that is not outside the
program; that is what `health_orphans` shows.

For acceptance, `FairSpec` assumes that an acceptance that has begun goes on
(`WF(AcceptStep)`: it is a function that runs to its end, and every call in it has a
time limit or is local) and that a user who can ask does so again and again
(`SF(RequestBookmark)`). Without the second nothing would have to be accepted.
Jobs are not assumed to run.

For notifications, the engine, the test request and whoever is in the middle of `Publish`
go on (weak fairness: they are goroutines that wait for nothing but a call with a time
limit); nothing is assumed of browsers, users and jobs. The goroutines of a LAN scan go on
(weak fairness for each worker and for producer, closer and collector together). Readers
are served when they could be again and again (strong fairness): `database/sql` gives a
connection that is returned to one of those that wait, picked at random in newer versions
of Go, so that none is passed over for ever but with probability 0. No client is assumed to
leave; that it does is a condition of `ReadsFinish` itself (`ClientsLeave`: no request
waits for an inner connection for ever). Runs of the topology discovery begin and go
on (weak fairness: the scheduler repeats them), and changes are bounded, so that users and
agents come to rest.

## Proofs

All are for every value of the constants. Those about health assume `StoreAssumption` and
`MonitoringAssumption` (ids of different tables differ, the bound on failure counts is
positive), those about acceptance `DiscoveryAssumption` and `AcceptanceAssumption` (NULL is
no id, no request is a job); `MaxBreaks` may be any number. The others assume what their
modules state: channels have room for an event and the engine is no browser
(`BufferAssumption`, `EngineAssumption`, `RunnersAssumption`); thresholds are numbers and
ids of rules and channels differ (`SendersAssumption`); fewer of the process's own
goroutines nest their queries than there are connections (`PoolAssumption`); no id is NULL
or the root (`NullAssumption`, `RootAssumption`); times are numbers and there are finitely
many rows (`TimesAssumption`, `RowsAssumption`); services and discovered services have
different ids, and NULL is none of theirs nor a definition's (`DefinitionsAssumption`); a
scan has at least one worker, finitely many workers and targets, and may probe 2 to the
`MaxHostBits` addresses of a target, as `NewProvider` sets it (`LanAssumption`); finer
groups of addresses have longer prefixes, none longer than an address (`MapAssumption`); ids
of folders are positive numbers, which stand for their order as strings (`IdsAssumption`).
The code keeps all of them. `PoolAssumption` holds since two goroutines of the process nest,
the engine and the loop of the health job, and the connections are four; of requests it says
nothing.

| Theorem | Property | Argument |
|---|---|---|
| `TypeCorrect` | `TypeOK` | inductive as it stands; one lemma per transaction, then one per kind of step |
| `WaitsOnceRun` | `WaitsOnlyOnceRun` | `DueInv`, see below |
| `StatusStaysFresh` | `StaleOnlyByEdits` | an action property, from `TypeOK`: a transaction that changes one check rolls its subject up (`RolledUpIsFresh`), and other steps of a run write no table (`OnlySavingWrites`) |
| `AgreementKept` | `PartsOnlyByOvertaking` | an action property, from `TypeOK`, by what an edit (`EditStepRows`) and a save (`SaveResultRows`) do to a row |
| `AlertsMatchRows` | `AlertMatchesRow` | `AlertInv`, see below |
| `AlertsDoAlternate` | `AlertsAlternate` | from the same invariant: an alert is raised from the `last_status` that the previous alert agrees with |
| `AcceptanceTypeCorrect` | `TypeOK` | together with `IInv`, see below: what a phase holds decides what its transaction may write |
| `ReferencesAgree` | `LinksAgree` | `IInv`; the rows users have rewritten are left out of it one by one |
| `ChecksAreCopied` | `HistoryKept` | `IInv` |
| `RollBacksAreSafe` | `RollBackIsSafe` | an action property, from `IInv`: what an acceptance has created is referred to by no row until it is marked, and then the acceptance has returned |
| `AcceptanceImplementsPromotion` | `PromotesAtomically` | the refinement: one lemma per transaction, which says what it is to `Promotion`, then one per kind of step; `IInv` supplies the guards of `Promote` and `GetReady` |
| `CountsAreSound` | `FailureCountSound` | `JobInv`: until two runs end at once, whoever has read the count is alone and has read what is stored, or 0 |
| `EventsKeepOrder` | `OrderPerPublisher` | `BusInv`: each channel is in order and later than what was taken, an event still to be offered is later than both |
| `DeliveriesAreTrue` | `DeliveriesTellTheTruth` | `TruthInv`: two senders never hold the same pending delivery, and what one is about to store is the outcome of the one call |
| `AlertsAreEarned` | `AlertsNeedFailures` | `WarrantInv`, see below |
| `OffIsSilent` | `OffStaysSilent` | an action property, from `WarrantInv` |
| `EventsAreToldOnce` | `OneDeliveryPerEvent` | `OnceInv`, see below |
| `PendingStaysInHand` | `PendingIsInHand` | an action property, from `TruthInv`: a row is stored as pending by the sender that goes on to send it, nobody else holds it, and the step that lets it go stores its outcome or counts as a break (`BreaksAreCounted`) |
| `JobsNeverBlock` | `CircleTakesRequest` | `PoolInv`: connections are conserved and only nesting queries nest; by counting, those of the process cannot hold them all |
| `ConnectionsAreConserved` | | from `PoolInv`: what is free and what is held add up to the pool, on every path out of a query |
| `ScansAreComplete` | `ScanComplete` | `LanIInv`, see below |
| `ScansDoMoveOn` | `ScanMovesOn` | an action property, from `LanIInv` and that what is unsent is finite: `StepsLeft` weighs an address by the steps it still has to go; by counting workers |
| `ScansNeverStick` | | from `LanIInv`: until `Discover` has returned the guard of some step holds (`SomebodyCanGoOn`) other than that of the end of the context |
| `ScanImplementsSweep` | `SweepsOnce` | the refinement: one step per action, each a step of `HostSweep` or a stutter; `LanIInv` and `AskedFor` (whatever is unsent or with a worker was asked for) supply the guards |
| `UsableHostsAreScanned` | `ScansUsableHosts` | from the types of the targets, by the arithmetic of blocks (`BlockIsOne`) and of powers of two (`TwoToFacts`) |
| `MapsDoHold` | `MapHolds` | `PlanOK` for the places, `WalkIInv` for the walk, see below |
| `FoldersAreForest` | `FoldersFormForest` | `TreeInv`: every folder lies outside some closed set that holds its parent |
| `DeletionsKeepPlaces` | `DeletionKeepsPlaces` | an action property, from `TreeInv` |
| `FoldersTypeCorrect` | | from `TreeInv`, which a deletion needs: the parent it hands the contents to is not the folder itself |
| `ImportsKeepForest` | `FoldersFormForest` | `ImportInv`: `TreeInv`, and how far the import is |
| `ImportsWriteTheExport` | `ImportsNothingElse` | `ImportInv`: in each phase what is written and what is left are all there is in the export; that the next folder exists (`First`) is the least of a set of numbers (`LeastOfNumbers`) |
| `BookmarkLinksAreSound` | `BookmarkLinksHold` | `LinksInv`, which adds that a service no user has saved is owned by its bookmark (lemma `Storing`) |
| `DevicesAreIdentified` | `DevicesIdentified` | `DevicesInv`: a key that names a MAC is the key of the device with that MAC, and whoever created a device is the only one to announce it |
| `SetupAndTokensAreSound` | `SetupAndTokensHold` | `SetupInv` (a setup between its check and its write has not come late) and `TokenInv` |
| `PagesDoAgree` | `PagesAgree` | `PagesInv` (types), with the lemmas `RollUpOfWhatOccurs` (a roll-up depends on which statuses occur, not how often) and `TextOfTimes` |
| `DefinitionsAreFollowed` | `ChecksFollowDefinition` | `DefinitionsInv`: the property itself, and for each applier what it holds: a plan is a definition or checks already made, and what is on its list or in its hand is what it has to do |

`WaitsOnlyOnceRun` is not inductive: a late result is stored without becoming the
newest and may postpone its check. `DueInv` adds that a probe is overtaken only while its
check has a newer result (`OvertakenHasResult`), that no run precedes itself
(`NotOwnPredecessor`), and says of unused ids what it says of rows (`NoRowWaits`).
`AlertMatchesRow` is not inductive either: an id that is inserted again would inherit
an alert. `AlertInv` adds that nothing is remembered of an id without a row.

None of the safety properties of `Acceptance` is inductive: what a transaction writes was
read or created several transactions before. `IInv` says what an acceptor can still rely
on, although everything it holds may have been deleted or rewritten meanwhile:

* `RowsAgree`: the rows agree, but for those that have been rewritten; it is `LinksAgree` and
  `HistoryKept` row by row;
* `Claims`: everybody who knows a service, whether a discovered service, an acceptor or a
  bookmark, has it for the same discovered service. The origin of the row would say so, but
  not any more once a user has rewritten it;
* `PhaseAgrees`: where an acceptor is decides what it holds;
* `ServiceAgrees`: the service it holds comes from the discovered service it accepts, and
  has its checks once they have been copied, or has been deleted or rewritten; ids are not
  used twice while somebody holds them;
* `BookmarkAgrees`: its bookmark belongs to that service and, once linked, to that
  discovered service, or has been deleted, cut off or relinked;
* `Exclusive`: a service that an acceptance in progress has created is held by no other
  acceptor and referred to by no discovered service. `RollBackIsSafe` needs this;
* `SameAgree`: two acceptors with one bookmark hold one service, unless it was relinked.

`IInv` and its lemmas are about values of the variables, not about the variables, so that
the proof of a step, which is a change of the tables followed by a change of what one
acceptor holds, applies two lemmas one after the other (`SavingService` and
`HoldingInserted` for `InsertService`, for one).

`AlertsNeedFailures` and `OffStaysSilent` speak of the moment in which a delivery is stored,
but are decided when an event is published, taken from the channel and compared with the
rules. `WarrantInv` says at each of these places that what the sender holds is warranted:
the event is one that was published with at most as many failures as there have been, the
rule's threshold is met, and neither the rule nor the channel had been off since before it.
That this lasts while users edit is `WarrantLasts`: what goes off later goes off after the
event.

`OneDeliveryPerEvent` needs that an event is taken once. `Past` says of an event that
what can still reach the engine from its publisher, in its channel or in an offer under
way, is later. `OnceInv` says it of the event the engine speaks of and of every event
that has been delivered; so an event taken from the channel is new (`ReceivedIsNew`), and
what the engine still has to tell of it has not been told (`Untold`).

`ScanComplete` speaks of the end of a scan, and an answer is in four places before. `LanIInv`
says that an address is in one of them (`InOnePlace`: unsent, with one worker, in the channel,
collected), that until the context ends whatever answered is with a reporting worker, in the
channel or collected (`AnswersKept`), and in which order the goroutines end (`EndsInOrder`):
the channel of results is closed only after every worker has returned, a worker of a scan that
is not cancelled returns only after the producer has closed the other channel, which it does
with nothing left to send. The last two give the property when `Discover` returns.

`LinksSpan`, the half of `MapHolds` about the walk, speaks of its end, too. `WalkIInv` says what
holds on the way: no node is forgotten, parents are one step nearer and are the edges of the
tree, the queue holds the nodes of one level and then those of the next (`QueueByDepth`), and
what is behind the walk has only visited neighbours, at most a level apart, with their links
shown (`FinishedAreDone`). The levels need the order of the queue: a walk that looks first at
what it found last breaks them (`QueuedFirst`, a mutant). `PlacesHold`, the other half, needs
no induction over steps, but arithmetic: blocks of addresses are nested or apart because a
smaller power of two divides a larger one.

That is the reason for `Prefixes`. The provers know nothing of `^`, and a recursive function is
given to them as a `CHOOSE`, so that its recursion has to be proved first: `NetworkProofs` builds
`TwoTo` from its initial segments, by the least number at which one would be missing
(`LeastNatural`, from `WFMin` of the library). The induction theorems of the library that
take an operator as a parameter cannot be used here; this one speaks of sets and can.

Theorems without a property in the table are facts that no run lists: the properties of the
runs rest on them (the counts of `ReadPool`, the types of folders), or a liveness property of
the same run stands for them (`ScansNeverStick`).

Only model-checked are the liveness properties (`DueChecksGetProbed`, `StatusCatchesUp`,
`AcceptingSucceeds`, `EngineComesBack`, `PendingSettles`, `ScanReturns`, `ReadsFinish`,
`SourcesCatchUp`), since the prover reasons about neither fairness nor `ENABLED`. Of three
of them the part that is safety is proved: a scan can always go on (`ScansNeverStick`) and
does not go on for ever (`ScansDoMoveOn`), which with fairness is `ScanReturns`; a pending
delivery is held by a sender or has been let go by a break (`PendingStaysInHand`), for
`PendingSettles`; and a circle of readers always has a request in it (`JobsNeverBlock`), for
`ReadsFinish`. Every invariant and every action property of the passing runs is stated by a
theorem.

## Not modelled

`PROJECT.json` lists every component with its status. Not modelled are:

* what reaches the network: the probes of `runner.go` (a probe is healthy or unhealthy),
  test runs of a check (`TestServiceCheck` stores nothing), the protocols of Docker, mDNS
  and SNMP (the walks of `snmp/provider.go`: an agent answers or does not);
* the legacy tables of the first schema, which no caller writes any more, and
  `service_events`;
* of discovery: merge keys (which row an observation belongs to), the settings of
  discovery, and how long results of refingerprinted services live;
* of definitions: how matchers and scores choose one, and the endpoint tests;
* of notifications: the secrets of channels and the formats of the senders;
* of bookmarks: positions, uploaded icons, and the texts of tags; and in `Acceptance` the
  hidden services that bookmarks own, which `Bookmarks` models by themselves;
* of the topology: the edges of devices seen in forwarding tables;
* the HTTP API and its security middleware, configuration and logging, the front end:
  decoding, routing and display. Which handlers reach which operations decides the inputs
  of the actions.

Some things the models leave as the code has them, because no property can promise
otherwise:

* the edit of a mode during a fetch is lost (although `README.md:361-363` says that
  automatic changes do not overwrite custom services), and an edit of a definition may not
  reach a service (`outdated`);
* nothing bounds the number of requests that nest queries, so that readers can wait for
  each other until a client leaves;
* two runs of the health-check job may publish in another order than they saved;
* a check whose interval is longer than the retention waits without a result once its
  results have been cleaned up;
* two first-run set-ups that overlap may both succeed, the later over the earlier;
* a user who rewrites a service or relinks a bookmark by the API can make its references
  say anything;
* a poll of a source may store what it found for a source edited since; `SourcesCatchUp`
  says only that this does not last.

## Plan

What is left, in this order:

1. `Timestamps`: the order of results within one second, where `MAX(checked_at)` and
   `next_run_at <= now` compare texts. (which comparisons are right to the second.)
2. Refingerprinting with the results of checks, on the transactions of `HealthStore`.
   (how long a status can be without a result.)
3. The edges of devices in `TopologyMap`, and the SNMP walks as bounded loops.
   (`LinksSpan` for any set of reports.)
4. Proofs of what the first three add, and the types of the modules that no run or theorem
   states by themselves (`Notifications`, `TopologySources`); a measure like `StepsLeft` for
   a run of the health-check job and for a poll of sources.
