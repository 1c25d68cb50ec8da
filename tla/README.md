# Verification of swift_devops

swift_devops builds Java applications from git, keeps the results as bundles of
jars or images, and deploys them over SSH to the hosts an application is bound
to. One server process holds everything: HTTP handlers, the goroutines of builds
and runs, an in-memory hub for live logs, and an SQL database. This directory
holds TLA+ models of its core, the TLC runs that check them, and TLAPS proofs.

## 1. Inventory

| Component | State | Operations | What is hard |
|---|---|---|---|
| `PipelineService` (`internal/service/pipeline_service.go`) | `runningAppIDs` and `cancelFns` under `mu`; rows of `pipeline_runs`, `pipeline_run_hosts`; version pointers of `deployments` | `Trigger`, `Rollback`, `RollbackToRun`, `Cancel`, `execute`, the run hooks | start, end and cancellation race; the lock passes from a request to a goroutine; updates fail; the process dies |
| Strategies and wave scheduler (`internal/service/pipeline/strategy`) | outcomes in memory, host rows, files and processes on the hosts | `RunWaves`, `Single`, `Rolling`, `Rollback`, `deployHost`, `skipHost`, `AggregateStatus` | services and hosts in parallel, fail-fast, optional services, cancellation and timeout at any stage |
| `ArtifactService` | bundles, items, artifacts and their files | `Register`, `Upload`, `IngestLocalJar`, `IngestBundle`, `Delete`, `CleanupBundleHistory` | check and delete without a lock, files and rows that must agree |
| `BuildService` | `busyApps` under `mu`, `build_runs`, log files | `Trigger`, `execute`, `finishBuild` | lock and row, log stream, crash |
| Live streams (`internal/pkg/ws`, `ws_pipeline.go`, `ws_build.go`) | subscriptions, bounded queues | `Publish`, `Subscribe`, cancel, `Send`, the pumps | snapshot against increments, dropped frames, cancel against `Publish` |
| Tickets (`internal/pkg/ws/ticket.go`) | map of tokens | `Issue`, `Consume`, `gc` | single use, expiry |
| `DeploymentService` | `deployments` | `Bind`, `Unbind`, `SyncRuntimeByApp`, stop and restart | against a run that is under way |
| `AppService`, `AppServiceService` | applications and their services | create, update, delete, import | deletes against references; services edited under a run |
| `HostService`, credentials, builder environment, Dockerfile templates | rows | create, read, update, delete | encryption, first-use host keys |
| SSH client and pool (`internal/pkg/ssh`) | connections per host | `Dial`, `Exec`, `Get`, `Put`, `Discard`, sweep | limits, stop, context against session |
| Host runtimes (`internal/pkg/deploy`) | unit files, pid files, containers on the host | `PrepareUnit`, `RestartAndWait`, `StopOther` | switching the kind of runtime |
| Builder (`internal/pkg/builder`) | work directory | clone, Maven, `docker build` | sequential external processes |
| Middleware, handlers, router, crypto, configuration, store, command-line tools, web pages | request counters of the rate limiter | | no long-lived state otherwise |

How they interact. A handler calls a service method. `PipelineService.Trigger`
reads the bundle through `ArtifactService`, takes the application's lock,
inserts the run's row and starts `execute` in a goroutine; that goroutine calls
the scheduler, which calls a strategy per service, which calls `deployHost` per
host; hooks write rows, move the version pointers and publish frames to the hub.
`BuildService.execute` calls the builder, then `IngestBundle`, then
`CleanupBundleHistory`, which looks at the runs and at the pointers that the
pipeline moves. Nothing but the database outlives the process.

What makes each part correct, and where it can go wrong, is listed line by line
under `hazards` in `PROJECT.json`.

## 2. Plan

Done, in the order of importance:

1. `PipelineRuns` with its abstract specification `ExclusiveRuns`, and the proofs
   about it (`PipelineRunsProofs`).
2. `Waves`: one run on its hosts.
3. `Versions`: the version pointers, the store and its clean-up.
4. `RunStream`: a run and the browsers that watch it.
5. `Builds`: builds, their log and what they do to the store; it implements
   `ExclusiveRuns` like the runs do.

6. `Registry`: applications, hosts, services and bindings, edited by requests that
   interleave, and the plan a run makes of them.
7. `HostRuntimes`: what the three runtimes leave on a host, and what the status and
   the health probe say of it.
8. `HostAccess`: host keys, connections, metrics and the status of hosts.
9. Proofs: for each module `M` above a module `MProofs`, in which every safety
   invariant, action property and refinement that a run checks is a theorem (section 7).

To come: `TicketStore` and `RateLimiter` (one mutex each, and a clock), which are small
enough to be proved with the module. `internal/pkg/ssh/pool.go` is used by nothing in
the server and comes last.

## 3. Modules

### PipelineRuns and ExclusiveRuns

A request (`Requests`) is a goroutine in `Trigger` or in `startRollbackRun`; a run
(`Runs`) is a row and the goroutine of `execute`; `Cancels` are requests in
`Cancel`. Every handler is cut at each database call and at each section under
`s.mu`, because any other goroutine may step between two of those:

| Code | Action |
|---|---|
| checks before the lock | `Begin` (a request that fails them leaves no trace and is not kept) |
| lock, or 409 | `AcquireLock`, `RejectBusy` |
| `env_vars` or the insert fail | `GiveUp` |
| insert, register, `go` | `CreateRun`, `RegisterCancel`, `Spawn` |
| services are read, or an early return | `LoadServices`, `LoadServicesFails` |
| the strategy, the verdict | `RunStrategy` |
| `finishRun`, its failing update | `FinishRun`, `FinishRunFails` |
| deferred calls | `UnregisterCancel`, `ReleaseLock` |
| `Cancel`: row, map, then either branch | `CancelRead`, `CancelLookup`, `CancelCtx`, `CancelOrphan` |
| the process dies | `Crash` |

An early return of `execute` calls `finishRun` with `failed`, so it shares
`FinishRun`. `ExclusiveRuns` is the promise: an application has at most one
holder, and a row goes from nothing to running to ended. Under the mapping a run
holds its application from its row to its release, and a row that ended may still
change its final status (which is what `EndedRunsStayEnded` complains about).

### Waves

One run, from the first wave to its final status. `plan` is what `execute` has
read: the strategy and batch size, the enabled services with `startup_order`,
which are optional, the deployments, and those there is something to install for.
`left`, `wave` and `stopReason` are the locals of `RunWaves`; `svcPc` and `svcStop`
those of a strategy's loop; `Single` and `Rollback` are the loop of `Rolling` with
batches of one. `deployHost` has four steps: `HostStarts` (the row says running,
dial and env_check follow), `HostSwitches` (upload, unit and restart: the host is
changed), `HostSucceeds` and `OnDeploymentSuccess`; `HostFails` leaves it anywhere
before success, for a failure of the stage or because the context ended its session; and a stage
may wait for its host for ever. Every row update may fail
(`missed`), since the code logs and goes on. `skipHosts` updates the rows of a
batch or wave in one step: the skips of one loop touch only rows nobody else
writes. Batch outcomes are read where the `WaitGroup` has been waited for.

The plan without services (a database older than the table of services) calls
the strategy directly and is the case of one enabled service.

### Versions

One application's store and pointers. A bundle is a number, in the order of
ingestion, and stands for its items; `ptr` holds the four pointers of each
deployment (current and previous, item and artifact). A request reads the
deployments first (`Read`), takes the lock and inserts its row later (`Start`)
and moves each pointer from what it had read (`Advance`).
Lock and insertion are one step here, because `PipelineRuns` has them apart.
`IngestBundle` copies its files (`CopyFiles`), then inserts the rows in one transaction
(`InsertBundle`); a failure removes the copies, if it can (`IngestFails`), and a crash between
the two leaves files that never had rows. `HostDeployed` is the success of a host,
`OnDeploymentSuccess` the update of its pointers after it, which may fail: that is only
logged, and the deployment is a success all the same (`PointerFails`). The history variable `told` says
of the two versions deployed last whether the pointers know them. `deleteBundleFiles` passes
over files outside the directory the server has now, and the rows are deleted all the same;
`managed` are the bundles whose files it has not passed over.
A clean-up (`Cleaners`: one at the end of a build, others on demand, with any number
to keep from `Keep` on) has its list, its check, its files and its rows apart, and
several may be at the same bundle.
`ArtifactService.Delete` is `RemoveCheck` and `RemoveRow`. `CurrentVersion` is
what the run list shows as current.

### RunStream

A run of which only the stream matters: the goroutine of each host reports its
steps one after the other (`OnStep`), `Exec` ends the run (`FinishRun`,
`PublishFinal`), `Trigger` announces it. Recording a step is `ReadSnapshot` and
`WriteSnapshot` (or `SnapshotFails`), apart because the database call is between
them and `s.mu` (`writer`) is what keeps two hosts from losing each other's step.
`Publish` copies the subscriptions, then `Send` reaches one after the other in any
order, and `Panic` is a send on a channel closed in between. A connection is its
handler (`Subscribe`, `SendSnapshot`, `ConnCloses`, `Unsubscribe`, `CloseChannel`),
its forwarding goroutine (`Forward`, `EndForwarder`) and its write pump
(`WritePump`, which also stands for what the page does with the frame). Steps of
a host have an order of their own, so rows, frames and screens are sets; a step
that is both in the snapshot and in a frame after it is one element here, while
the page appends it a second time.

### Builds

`Trigger` is `Begin` to `Spawn`, cut like a request of `PipelineRuns`; its error path
after the row releases the lock (`MkdirFails`) before it closes the row
(`FinishAborted`), so two actions. `execute` writes the log (`Output`, `LogSuccess`,
to file and pages; `BuildFails`, to the file alone), stores the bundle (`Ingest`),
cleans up (`CleanAfterBuild`), closes the row (`FinishBuild`, `FinishBuildFails`),
publishes the status and releases the lock. git, Maven and Docker are the choice
between `Ingest` and `BuildFails`. A page is opened from a list that said building,
subscribes later, gets the snapshot and the frames, and at the status fetches the log
once more (`FetchLog`). Log parts are sets, since the snapshot may repeat what a frame
brings, as `build_stream.go` says. A user may ask for a clean-up at any time
(`CleanOnDemand`). `Abstract` maps a build to a run of `ExclusiveRuns`.

### Registry

The rows a deployment is made of. No handler of these services opens a transaction,
so each is cut at its queries and `call` keeps, per client, what a request has read:

| Code | Action |
|---|---|
| `Create` of `AppService`, `HostService` | `Create` |
| `Update`: `First`, then `Save` | `UpdateFind`, `UpdateSave` |
| `Delete`: count, then delete | `DeleteCount`, `DeleteRow` |
| `AppServiceService.Create`, `Update`, `Delete` | `ServiceCreate` and `ServiceInsert`; `ServiceFind`, `ServiceSave`; `ServiceFind`, `ServiceCount`, `ServiceDelete` |
| `BatchImport`: reads, then item by item | `Import`; `ImportSkip`, `ImportFind`, `ImportSave`, `ImportApp`, `ImportInsert`; `ImportEnd` |
| `Bind`: application, host, service, insert | `BindApp`, `BindHost`, `BindService`, `BindInsert` |
| `Unbind` | `UnbindFind`, `UnbindDelete` |
| `StopRuntime`, `RestartRuntime`, `SyncRuntimeByApp`: row, docker command, report | `RuntimeFind`; `RuntimeExec`; `RuntimeReport`, `ReportFails` |
| a run: read, validate, services, sub-plans, hooks, end | `ReadPlan`, `ValidatePlan`, `LoadServices`, `Planned`, `MarkRunning` and `DeployHost` (which may fail to tell the row), `LoseHost`, `EndRun` |

`Save` is gorm's, which inserts a row that an UPDATE did not match: an update may bring
back a row deleted since it was read, and the model does so. The services of a
deleted application stay, as in the code. `BatchImport` disables the service
`default` at its end even when the other service it was asked for was skipped. A
report writes any status here, at any time after its docker command: what docker said may be of
another container, misread or out of date (`HostRuntimes` has the reading). A run may be
cancelled, or pass over hosts when its total time is up and still say success (`LoseHost`,
`EndRun`). The history variable `misstated` are the delivered programs whose row was not told, or
was told otherwise; `overlapped` those whose run and `Unbind` had both read the
row. `DeliveredProgramsAreBound` holds of all others.

### HostRuntimes

One service on one host. `proc` is the live program of each mode and name (0 for
none; a program is the number of its deployment), `port` the one that holds the port,
`box`, `enabled`, `pidfile` and `lingering` the containers, units, pid files and programs told to
end, `paused` the containers that are frozen, alive but silent. A deployment (`dep`) goes on once its upload is done:

| Code | Action |
|---|---|
| settings read, upload | `Begin` |
| `StopOther` of each runtime, whose commands may fail without notice | `SystemdStopsOthers`, `NohupStopsOthers`, `DockerStopsOthers`, `StopOtherFails` |
| `PrepareUnit` and the stop of the old program | `StopOldSystemd`, `StopOldNohup`, `StopOldDocker` |
| start, and the wait for it, which also a cancellation or a lost host ends | `StartProgram`, `StartContainer`, `SeenRunning`, `WaitFails` |
| the probe, and the row, whose update may fail | `ProbeAnswered`, `ProbeFails`, `Record`, `RecordFails` |
| a command fails or the run is cancelled before the start | `Fail` |
| a client synchronises, stops or restarts containers | `Load`, `ExecStop`, `ExecRestart`, `CallFails`, `ReadState`, `ReadUnknown`, `WriteStatus` |

The exit codes of docker pull and run are not looked at. The host does things by
itself: a program takes the free port or ends because it is held, crashes, comes back
after a reboot or does not, and a user stops, removes, starts, pauses or resumes a container by
hand. The code counts a paused container, and one that docker inspect fails for
(`ReadUnknown`), as stopped, and so does the model: `since` marks such a row.
Settings (runtime and name) may change between two deployments (`ChangeSettings`).

### HostAccess

The row of a host (address, recorded key, status), the key each address really
shows, and requests that dial it: `TestConnect`, the metrics page, and all that
only need a connection (containers, logs, a deployment). Each reads the row (`Read`),
dials (`Connect`, `Dialled`, `DialFails`) and, where the code does so, records
the key it was shown (`RecordHostKey`, whose `WHERE` makes the first one
decide, while `TestConnect` writes without it) and writes the status. Metrics have
their cache (`CacheMetrics`, `Expire`), a semaphore per request (`TakeSlot`) and a
viewer that may leave (`Leave`): the dial does not hear of it, the commands after it do,
and a sample cut short leaves its error in the cache but not the status offline.
When the credentials cannot be read (`LoadAuth`: database, row or decryption), a sample
says offline and nothing has been dialled (`AuthFails`). A failed write of a status or a key is ignored,
that of an `Update` ends it (`WriteFails`).
`Update` reads and saves the whole row (`UpdateReads`, `UpdateSaves`) and forgets the key
only with new credentials (`KeyAfter`). `Rekey` is a host set up anew.

## 4. Runs

| Run | Instance | Shows |
|---|---|---|
| `runs` | 1 application, 2 runs, 2 starts, 1 cancellation, 1 crash, under fairness | lock, rows and cancel functions agree; refinement of `ExclusiveRuns`; every run ends or is an orphan |
| `waves` | 28 plans of up to three services and four deployments, 1 failed write, under fairness | waves, batches, fail-fast, reports; a run whose hosts get on with it ends |
| `versions` | 2 deployments, 2 bundles, 1 artifact, 2 requests, 3 runs, 1 clean-up, keep 1, `Bounds` | the store under an ingest, runs, a clean-up and crashes; rollback and current version with bundles and older artifacts mixed, outdated reads and pointer updates that fail |
| `run_stream` | 2 hosts, 1 step each, 1 browser, queues of 2, 1 failed database call, under fairness | nothing lost, nothing held up |
| `builds` | 1 application, 2 requests, 2 builds, 1 page, 1 failed update, 1 restart, under fairness | one build at a time, rows, bundle and log agree, everybody gets to the end |
| `registry` | 1 application, 1 host, 2 service codes, 2 services and 2 bindings in all, 2 clients, 4 requests, 1 run, `Bounds` | bindings have parents, delivered programs stay bound, accepted services are deployed; named races, failed writes and misread reports apart |
| `host_runtimes` | 2 names, 3 modes, 2 deployments, 2 clients, 1 failure, 1 change of settings, 1 event on the host | status and probe speak of the right program, but for the states the code misreads |
| `host_access` | 2 hosts, 3 requests at a time and in all, semaphore of 1, 1 failed connection, read or write, 1 host set up anew | recorded keys and the shown status |
| `ended_runs`, `stalled_host`, `watching`, `other_runtimes` | the smallest instance that shows it | the disagreements of section 6 |

Why the bounds are enough. The lock is per application, a run belongs to one
application and the proofs of section 7 cover any number of them, so one application
with two runs shows what liveness can go wrong with: a second start during each step
of the first, a crash in every position, a start after a crash. One cancellation races every step of both runs.
For the waves, two services reach every relation of two startup orders (equal,
before, after), three deployments and a batch of two give a full and a partial
batch, and a third service gives a wave of two beside another wave. In `Versions`
a second run makes the first version the one before, a third one goes back to it, after which
the pointers must lead to the second again, a second
request has read before the first one's run, two bundles with one to keep give the clean-up
something to spare or to delete, and the artifact stands for the older kind. The constraint
`Bounds` of `MCVersions` leaves the third run to a single request, and histories with the artifact
to one request at a time, two runs and one bundle; longer histories, and clean-ups that
meet each other, are left to the theorems of section 7, which cover any number of each. A crash keeps no memory, so one is
enough to reach a restart with any rows. In `RunStream` two hosts are enough for two
writers of the row, and four frames meet channels of two, so that frames are dropped
in both queues; browsers share nothing but the topic, so one is enough. In `Builds` two requests for
one application meet at the lock, two bundles with one to keep give a clean-up
something to delete, and two frames beside the snapshot make a third one drop. In
`Registry` two clients give every pair of requests whose queries can interleave, a run
beside them the third party, and two codes the default service and another one; the constraint
`Bounds` of `MCRegistry` has the first of the four requests, most often the one that makes the
service, end before the second begins. In
`HostRuntimes` two deployments and one change of settings give every switch from one
mode and name to another; in `HostAccess` three requests are two first connections and an
update, or two samples in a semaphore of one and a third request that changes the row.

Deadlock checking is off in the runs of every module but `Versions`: a system in which
every run has ended, or which has spent its bounds, stops; in `Versions` a crash is always
possible and the check is on.

Every property has a mutant: a definition of the module changed the way a slip
would change the code (a lock not released, a check left out, files and rows in
the other order), which TLC must find to violate the property.

## 5. Fairness

`PipelineRuns!FairSpec` asks weak fairness of each request that has entered its
handler, each run and each cancellation: Go schedules every runnable goroutine,
and critical sections under `s.mu` end. That the stages of a run on its hosts end is an assumption of
this module (`RunStrategy`), which the code does not guarantee: the commands and the
probe are ended by the context, whose total timeout `execute` sets, but of the dial only the TCP
connect has a timeout, and the SSH handshake, `NewSession`, `Upload` and `WriteFile` have
neither a context nor a deadline. No fairness is asked of new requests
(`Begin`, `CancelRead`), nor of `Crash`. `Waves` has fairness for the loop, for
each service and for the two steps of `deployHost` that only touch the database
(`HostStarts`, `OnDeploymentSuccess`), and none for a stage that waits for a host;
nothing makes anybody cancel or a timeout pass. So `OnlyAHostHoldsTheRun` says of the
scheduler what the code does guarantee (if each host leaves its stages again and again, the run
ends), and that the total timeout ends a run all the same is refuted (`stalled_host`). In `RunStream` the goroutines of the
run, of the handler and of the forwarder go on; the write pump has no fairness,
because it waits for the browser. In `Builds` a build ends because `execute` gives
it 45 minutes, and a page that is open reads what it is sent.

## 6. Where comments and code part

Each is a run that TLC finds violated; the quotes are under `findings`.

- `ended_runs`: a `Cancel` between a run's row and its registration marks a live run
  cancelled; the run goes on and overwrites the status.
- `stalled_host`: a host that stops answering and keeps its TCP connection holds its upload, and
  with it the run and the application's lock, for ever, though every run has a total timeout.
- `watching`: a browser goes away between the copy of the subscriptions and the send,
  and the send on the closed channel ends the process, though publishing must not
  drag a run down.
- `other_runtimes`: `StopOther` of systemd and of nohup promises to remove containers and
  does not, so a service that leaves docker leaves its container on the port.

Further weaknesses are conditions in properties, where the models reach them and no run is
about them:

- `NothingIsForgotten`: one wave, that at whose start the context has ended, is passed over in
  silence and keeps pending rows in a cancelled or expired run, though skipped is the status of
  hosts a cancellation leaves out (`strategy/types.go:31`).
- `SuccessMeansDeployed`, `AcceptedServicesAreDeployed`: the total timeout leaves hosts out, and
  since nothing failed and nobody cancelled, the run says success.
- `ProtectedBundlesStay`: the clean-up's check and deletion are apart, and a run may take
  in between what is then deleted.
- `NoOrphanFiles`: an ingest cut short between its files and its rows leaves the files, and so does a
  clean-up that finds them outside the artifact directory.
- `RollbackGoesBack`, `CurrentIsDeployed`: after a pointer update that failed, which is only
  logged, or that a crash prevented, the run list shows the old version as current, and the next
  rollback goes back by two.
- `CaughtUp`, `WatchersLearnTheEnd`: `Trigger` may announce `running` after the end of a fast
  run; a connection for which a frame was dropped is sent nothing that makes up for it,
  though a comment in `ws_pipeline.go` counts on the snapshot, which is sent once; a page
  opened from an outdated list that subscribes after the last frame waits for ever.
- `BoundRowsHaveParents`, `DeliveredProgramsAreBound`: a `Bind` during a `Delete`, and an
  `Unbind` and a run that have both read the row before, leave what the checks of both refuse.
- `DeliveredProgramsAreBound`: a running program whose row was never told so (the write failed), or
  was told otherwise by an outdated or misread report, can be unbound.
- `StoppedMeansStopped`: a paused container, and one docker inspect fails for, are
  recorded as stopped while the program is alive (`deployment_service.go:377`, `388`).
- `OfflineMeansAFailure`: a host whose credentials cannot be read is recorded as offline
  though nobody tried to connect.
- `AcceptedServicesAreDeployed`: `itemForServiceCode` accepts the default service for the one
  item of a bundle whatever its code, and the sub-plan looks for the exact code.
- `KnownKeyIsTheHosts`: an update of the address without new credentials keeps the key of the
  old one.
- `app_service_service.go:544` speaks of disabling a service that `Delete` deletes.

## 7. Proofs

TLC checks each property on the instance of its run; the modules `*Proofs` prove the
same for every value of the constants. Each has the same layout: the inductive invariant
`IInv` as a conjunction of named parts, lemmas about the operators of the model, lemmas
for what each kind of step keeps, `Invariance == Spec => []IInv`, and one theorem per
property.
The theorems are about `Spec`; the runs under fairness use `FairSpec`, which
is `Spec` and more, so the theorems hold of it too. No property of section 4 is proved in a
weaker form than the one that is checked: the theorems name the same definitions.

| Module | Theorems besides `Invariance` and `TypeCorrect` |
|---|---|
| `PipelineRunsProofs` | `MutualExclusion`, `LockMatchesOwners`, `RunningRowsHaveCloser`, `CancelFnsMatchRuns`, `SuccessAndFailureAreFinal`, refinement of `ExclusiveRuns` |
| `WavesProofs` | `HostsWaitTheirTurn`, `NothingIsForgotten`, `SuccessMeansDeployed`, `ChangedHostsAreReported` |
| `VersionsProofs` | `ProtectedBundlesStay`, `NoOrphanFiles`, `RollbackGoesBack`, `CurrentIsDeployed` |
| `RunStreamProofs` | `CaughtUp`, `RecordedStay` |
| `BuildsProofs` | `BuildingRowsHaveBuilder`, `FinishedPagesShowTheWholeLog`, `SuccessHasBundle`, refinement of `ExclusiveRuns` |
| `RegistryProofs` | `BoundRowsHaveParents`, `DeliveredProgramsAreBound`, `AcceptedServicesAreDeployed` |
| `HostRuntimesProofs` | `StoppedMeansStopped`, `AnsweredByTheNewProgram` |
| `HostAccessProofs` | `KnownKeyIsTheHosts`, `OfflineMeansAFailure`, `KeysAreKept` |

What is assumed. Only the named assumptions of the modules about their constants: model
values are distinct (`NoApp` is no application, the publishers of a run are not its
hosts), bounds are numbers, a queue, a semaphore and the number of bundles to keep are
positive, identifiers are numbers where the code orders them, the sets of hosts and
deployments are finite where it counts or sorts them, and the plans of
`Waves` are plans. TLC evaluates each of them in the runs.

**PipelineRuns.** `MutualExclusion` alone is not inductive, because nothing in it says
that the owner of a lock has it in the map, nor that the run a request has created is not
yet executed. `IInv` adds

- `ReqShape`, `RunShape`, `CancelShape`: what a request, a run and a cancellation
  hold at each of their steps (a created run's row exists, carries the request's
  application and has no goroutine; a cancellation in flight read a created row);
- `LockOwned`: whoever owes the release of a lock has it in `runningAppIDs`, and
  a lock in the map has an owner;
- `Exclusion`: two owners of one application are the same;
- `Registered`: cancel functions and goroutines match.

`StepRefines` maps every step to a step or a stutter of the abstract specification, with
`LockedMeansFree` (the one place where exclusion is used: a row is created only when no
live run holds the application).

**Waves.** That a host waits for the waves and batches before its own says nothing of the
loop that lets it start. `WaveShape` says where the services' goroutines can be for each
position of `RunWaves` (the waves taken up are the lowest startup orders, and those at work are
of the current one); `HostShape` and `RowsFollow` tie a host's step, its outcome in
memory and its row, up to `missed` writes; `WavesBehind` keeps what the barrier has
waited for settled; `Barrier`, `WholeBatches` and `BatchesWaitTheirTurn` do
the same for batches, where the lemma `FirstBatch` says what the next batch
leaves behind it; `SkippedForAReason` gives each skip its cause (a failure, a
cancellation or the timeout), from which `SuccessMeansDeployed` follows when there is none;
`OneWaveIsPassedOver` says that the deployments without an outcome, once the loop has left
its waves, are of one startup order, which is what `NothingIsForgotten` allows.

**Versions.** The clean-up's list, check, files and rows are apart, so
`ProtectedBundlesStay` needs `CondemnedIsFree`: a condemned bundle is none that a run was
promised, and once its rows are the next to go it has no file left that the clean-up has not passed
over, which also is what `NoOrphanFiles` needs. `IngestingIsNew` says that the bundle whose files
are copied is neither in the store nor known to a clean-up. `BuiltBefore` says that a
request refers to bundles that have been built, so that what a run is promised are bundles of the
store. `OneRun` says that whoever deploys holds the lock, alone. `PointersKnow` relates the four
pointers of a deployment to the two versions it ran last, before and after the run that
deployed the last one has written them: `told` says which of the two they know, and
`RollbackGoesBack` and `CurrentIsDeployed` are the consequences.

**Builds.** `ReqShape`, `RowShape` and `Exclusion` are those of the runs.
`HolderIsNewest` is the one thing that saves a new bundle from the clean-ups: the build
that holds the lock has the highest number of its application, so with at least one
bundle to keep it is kept (`BundleKept`), and a row set to success has it. `PageShape`
says that once the status of a build is on its way nobody writes to the log any
more, hence a page that fetches the log after it has all of it.

**Registry.** A request carries rows it has read. `IdsStand` says that an identifier of a
service means the same service in the table, in a request and in a plan, and that none
is given twice; `CallsFit` says what a request between two queries may still count on,
except for the deletes, unbindings and reports that the properties name; `PlansAreBound` and
`PlansAreChecked` say the same of a run that is deploying.

**HostRuntimes.** `OldIsGone` and `OthersAreGone` say what a deployment has ended by the
time it starts its program, with the exceptions of `StopOther` (a command
that failed, a container left by systemd or nohup). Hence the port is free for the new program
or held by one `OutOfReach`, and `AnsweredByTheNewProgram` follows at the probe.
`SeenIsTrue` and `StatusIsOfAContainer` say what a stop or a synchronisation knows of
the container it has inspected; a paused container, or one that could not be inspected, is known
no better than one started since. The many steps that only end programs are one lemma (`Ends`).

**HostAccess.** `CallsKnow` says that a call that no new address or key has overtaken
dialled the address of the row, and that the key it was shown there is still the host's;
`CallsReport` that a call about to report a host as offline has failed to reach it, or to read
its credentials.

**RunStream.** `Arrives` follows each step and the end of the run from the row to the
browser: what was sent to a connection is on the screen or in `OnItsWay`, the queue
followed by the channel, and what is still to be sent is with a publisher that has the
connection on its list. Forwarding a frame leaves `OnItsWay` as it is, sending
appends to it and pumping takes its first (`ForwardKeeps`, `SendAppends`, `PumpTakes`,
`FirstOnTheWay`), so nothing overtakes anything; `RowsFit` says that one writer at a time
has the row, which is why no step is lost (`RecordedStay`).

Only model-checked: the four liveness properties, `RunsEnd`, `OnlyAHostHoldsTheRun`,
`RunNotHeldUp` and `WatchersLearnTheEnd`, since reasoning from fairness needs ENABLED, which the
prover does not handle; and the four disagreements of section 6, which are
counterexamples.

## 8. Not modelled

The table of components in `PROJECT.json` says for each part what is left out and why:
credentials, builder environment and Dockerfile templates, which edit single rows;
external processes (git, Maven, docker build); text (unit files, shell quoting, logs);
encryption; the middleware, whose only state is the counter of the rate limiter; the
WebSocket tickets, of which every operation holds one mutex; and the SSH pool, which no
code of the server uses. The settings of an application or a service beyond the
runtime, the name and being enabled, paths, checksums, sizes and the wording of errors are
abstracted everywhere.
