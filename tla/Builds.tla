-------------------------------- MODULE Builds --------------------------------
(***************************************************************************)
(* Builds (internal/service/build_service.go): the lock of an application, *)
(* the row of a build, the work of its goroutine up to the bundle and the  *)
(* clean-up after it, its log file, and the pages that watch the log live  *)
(* (build_stream.go, ws_build.go and the build log of the web pages).      *)
(*                                                                         *)
(* The bundle of a build bears its number.  The queues between Publish and *)
(* a page, the subject of RunStream, are one queue here.                   *)
(***************************************************************************)
EXTENDS Naturals, Sequences, FiniteSets

CONSTANTS
    Apps, NoApp,
    MaxBuilds,  \* bound on the number of builds
    Requests,   \* requests in Trigger
    Pages,      \* pages that watch a build, each once
    Keep,       \* max_history, and the least a clean-up on demand keeps
    QueueSize,  \* frames between the hub and a page
    MaxFaults,  \* bound on the row updates that fail
    MaxCrashes  \* bound on the restarts of the server

ASSUME BuildsAssumption ==
    /\ NoApp \notin Apps
    /\ Keep \in Nat \ {0} /\ QueueSize \in Nat \ {0}
    /\ MaxBuilds \in Nat /\ MaxFaults \in Nat /\ MaxCrashes \in Nat

Ids == 1..MaxBuilds

VARIABLES
    busyApps,  \* memory: applications with a build in progress
    status,    \* database: build_runs.status
    appOf,     \* database: build_runs.app_id
    logged,    \* database: builds whose row has the path of the log
    bundles,   \* database: builds whose bundle is stored
    log,       \* disk: the parts of each build's log file
    req,       \* each request: where it is, its application and its build
    exec,      \* where the goroutine of each build is
    verdict,   \* the status it comes to
    page,      \* each page: where it is, its build, what it shows
    queue,     \* the frames on their way to it
    behind,    \* history: pages that subscribed after the last frame, or lost one
    lost,      \* history: builds whose row nobody will close
    faults, crashes

lockVars == <<busyApps, req>>
rowVars  == <<status, appOf, logged>>
execVars == <<exec, verdict>>
pageVars == <<page, queue, behind>>
bounds   == <<faults, crashes>>
vars == <<lockVars, rowVars, bundles, log, execVars, pageVars, lost, bounds>>

NoRequest == [pc |-> "idle", app |-> NoApp, build |-> 0]

\* The parts of a log: what the build writes, why it failed, that it succeeded, and what
\* was cleaned up.
Parts == {"output", "failure", "success", "cleanup"}

\* The lock is owed by a request until it starts the goroutine, then by that.
ReqOwns(q)  == req[q].pc \in {"locked", "created", "ready"}
ExecOwns(b) == exec[b] \notin {"none", "done"}
\* The row of b will still be closed: by its request or by its goroutine.
Closing(b) ==
    \/ \E q \in Requests : req[q].build = b
    \/ exec[b] \in {"spawned", "opened", "working", "ingested", "cleaning", "recording"}
\* The frame that says how b ended is still to come.
Announcing(b) == Closing(b) \/ exec[b] = "publishing"

Init ==
    /\ busyApps = {}
    /\ status = [b \in Ids |-> "none"]
    /\ appOf = [b \in Ids |-> NoApp]
    /\ logged = {} /\ bundles = {}
    /\ log = [b \in Ids |-> {}]
    /\ req = [q \in Requests |-> NoRequest]
    /\ exec = [b \in Ids |-> "none"]
    /\ verdict = [b \in Ids |-> "none"]
    /\ page = [p \in Pages |-> [pc |-> "idle", build |-> 0, shown |-> {}]]
    /\ queue = [p \in Pages |-> <<>>]
    /\ behind = {} /\ lost = {}
    /\ faults = 0 /\ crashes = 0

-----------------------------------------------------------------------------
(* Helpers, each after the slips that the properties must catch.            *)

NeverBusy(a) == FALSE
Busy(a) == a \in busyApps

releaseLock(a) == busyApps \ {a}

ForgetRow(b, s) == status
CloseRow(b, s) == [status EXCEPT ![b] = s]

BundlesOf(a) == {b \in bundles : appOf[b] = a}
NewerThan(b) == {c \in BundlesOf(appOf[b]) : c > b}
OneTooMany(a) == {b \in BundlesOf(a) : Cardinality(NewerThan(b)) >= Keep - 1}
Candidates(a) == {b \in BundlesOf(a) : Cardinality(NewerThan(b)) >= Keep}

\* GetLog finds the file by the path in the row.
ReadableLog(b) == IF b \in logged THEN log[b] ELSE {}

\* What follows in execute once the bundle is registered.
StatusFirst == [ingest |-> "recording", status |-> "ingested", cleanup |-> "releasing"]
Following == [ingest |-> "ingested", cleanup |-> "recording", status |-> "releasing"]

\* finishBuild logs an update that fails and goes on to its frame.
ReturnEarly == "releasing"
AfterFailedUpdate == "publishing"

LogFrame(part) == [kind |-> "log", parts |-> {part}]
SnapshotFrame(b) == [kind |-> "snapshot", parts |-> ReadableLog(b)]
StatusFrame == [kind |-> "status", parts |-> {}]

\* The channel of a page that is full loses the frame.
AlwaysFits(p) == TRUE
Fits(p) == Len(queue[p]) < QueueSize
Subscribers(b) == {p \in Pages : page[p].build = b /\ page[p].pc \in {"subscribed", "live"}}
Publish(b, f) ==
    /\ queue' = [p \in Pages |->
                    IF p \in Subscribers(b) /\ Fits(p) THEN Append(queue[p], f) ELSE queue[p]]
    /\ behind' = behind \cup {p \in Subscribers(b) : ~Fits(p)}
    /\ UNCHANGED page

-----------------------------------------------------------------------------
(* Trigger                                                                  *)

\* The builder environment, the application and the credential have been checked;
\* a request that fails a check leaves no trace.
Begin(q, a) ==
    /\ req[q] = NoRequest
    /\ req' = [req EXCEPT ![q] = [NoRequest EXCEPT !.pc = "checked", !.app = a]]
    /\ UNCHANGED <<busyApps, rowVars, bundles, log, execVars, pageVars, lost, bounds>>

AcquireLock(q) ==
    /\ req[q].pc = "checked" /\ ~Busy(req[q].app)
    /\ busyApps' = busyApps \cup {req[q].app}
    /\ req' = [req EXCEPT ![q].pc = "locked"]
    /\ UNCHANGED <<rowVars, bundles, log, execVars, pageVars, lost, bounds>>

\* 409 CONFLICT.
RejectBusy(q) ==
    /\ req[q].pc = "checked" /\ Busy(req[q].app)
    /\ req' = [req EXCEPT ![q] = NoRequest]
    /\ UNCHANGED <<busyApps, rowVars, bundles, log, execVars, pageVars, lost, bounds>>

CreateRow(q, b) ==
    /\ req[q].pc = "locked"
    /\ status[b] = "none" /\ \A c \in 1..(b - 1) : status[c] # "none"
    /\ status' = [status EXCEPT ![b] = "building"]
    /\ appOf' = [appOf EXCEPT ![b] = req[q].app]
    /\ req' = [req EXCEPT ![q].pc = "created", ![q].build = b]
    /\ UNCHANGED <<busyApps, logged, bundles, log, execVars, pageVars, lost, bounds>>

\* The insert fails.
GiveUp(q) ==
    /\ req[q].pc = "locked"
    /\ busyApps' = releaseLock(req[q].app)
    /\ req' = [req EXCEPT ![q] = NoRequest]
    /\ UNCHANGED <<rowVars, bundles, log, execVars, pageVars, lost, bounds>>

\* The workspace cannot be created: the lock is released first ...
MkdirFails(q) ==
    /\ req[q].pc = "created"
    /\ busyApps' = releaseLock(req[q].app)
    /\ req' = [req EXCEPT ![q].pc = "released"]
    /\ UNCHANGED <<rowVars, bundles, log, execVars, pageVars, lost, bounds>>

\* ... and the row is closed after it, while another build may already run.
FinishAborted(q) ==
    /\ req[q].pc = "released"
    /\ req' = [req EXCEPT ![q] = NoRequest]
    /\ \/ /\ status' = CloseRow(req[q].build, "failed")
          /\ UNCHANGED <<lost, faults>>
       \/ /\ faults < MaxFaults /\ faults' = faults + 1
          /\ lost' = lost \cup {req[q].build}
          /\ UNCHANGED status
    /\ Publish(req[q].build, StatusFrame)
    /\ UNCHANGED <<busyApps, appOf, logged, bundles, log, execVars, crashes>>

\* The path of the log is recorded; an update that fails is logged only.
RecordLogPath(q) ==
    /\ req[q].pc = "created"
    /\ req' = [req EXCEPT ![q].pc = "ready"]
    /\ \/ logged' = logged \cup {req[q].build} /\ UNCHANGED faults
       \/ faults < MaxFaults /\ faults' = faults + 1 /\ UNCHANGED logged
    /\ UNCHANGED <<busyApps, status, appOf, bundles, log, execVars, pageVars, lost, crashes>>

\* go s.execute(...); the lock now belongs to the goroutine.
Spawn(q) ==
    /\ req[q].pc = "ready"
    /\ exec' = [exec EXCEPT ![req[q].build] = "spawned"]
    /\ req' = [req EXCEPT ![q] = NoRequest]
    /\ UNCHANGED <<busyApps, rowVars, bundles, log, verdict, pageVars, lost, bounds>>

-----------------------------------------------------------------------------
(* execute, with its deferred releaseLock                                   *)

ExecStep(b, from, to) ==
    /\ exec[b] = from
    /\ exec' = [exec EXCEPT ![b] = to]
    /\ UNCHANGED <<req, appOf, logged, crashes>>

Decide(b, s) == verdict' = [verdict EXCEPT ![b] = s]

\* A part of the log goes to the file and, by the MultiWriter, to the pages.
WriteBoth(b, part) ==
    /\ log' = [log EXCEPT ![b] = @ \cup {part}]
    /\ Publish(b, LogFrame(part))

OpenLog(b) ==
    /\ ExecStep(b, "spawned", "opened")
    /\ UNCHANGED <<busyApps, status, bundles, log, verdict, pageVars, lost, faults>>

OpenLogFails(b) ==
    /\ ExecStep(b, "spawned", "recording")
    /\ Decide(b, "failed")
    /\ UNCHANGED <<busyApps, status, bundles, log, pageVars, lost, faults>>

\* The header, then git, Maven and Docker.
Output(b) ==
    /\ ExecStep(b, "opened", "working")
    /\ WriteBoth(b, "output")
    /\ UNCHANGED <<busyApps, status, bundles, verdict, lost, faults>>

\* The inputs, the services, the build, a jar or the bundle: what failed is written to
\* the file alone.
BuildFails(b) ==
    /\ ExecStep(b, "working", "recording")
    /\ log' = [log EXCEPT ![b] = @ \cup {"failure"}]
    /\ Decide(b, "failed")
    /\ UNCHANGED <<busyApps, status, bundles, pageVars, lost, faults>>

\* The build succeeds and IngestBundle stores its bundle.
Ingest(b) ==
    /\ ExecStep(b, "working", Following.ingest)
    /\ bundles' = bundles \cup {b}
    /\ Decide(b, "success")
    /\ UNCHANGED <<busyApps, status, log, pageVars, lost, faults>>

LogSuccess(b) ==
    /\ ExecStep(b, "ingested", "cleaning")
    /\ WriteBoth(b, "success")
    /\ UNCHANGED <<busyApps, status, bundles, verdict, lost, faults>>

\* Bundles that are in use, and those whose files cannot be deleted, are spared; an
\* error of the clean-up is logged only.  Versions has its steps apart.
CleanupBundleHistory(a) == \E D \in SUBSET Candidates(a) : bundles' = bundles \ D

CleanAfterBuild(b) ==
    /\ ExecStep(b, "cleaning", Following.cleanup)
    /\ CleanupBundleHistory(appOf[b])
    /\ \/ bundles' # bundles /\ WriteBoth(b, "cleanup")
       \/ UNCHANGED <<log, pageVars>>
    /\ UNCHANGED <<busyApps, status, verdict, lost, faults>>

FinishBuild(b) ==
    /\ ExecStep(b, "recording", "publishing")
    /\ status' = CloseRow(b, verdict[b])
    /\ UNCHANGED <<busyApps, bundles, log, verdict, pageVars, lost, faults>>

FinishBuildFails(b) ==
    /\ faults < MaxFaults
    /\ ExecStep(b, "recording", AfterFailedUpdate)
    /\ faults' = faults + 1
    /\ lost' = lost \cup {b}
    /\ UNCHANGED <<busyApps, status, bundles, log, verdict, pageVars>>

PublishStatus(b) ==
    /\ ExecStep(b, "publishing", Following.status)
    /\ Publish(b, StatusFrame)
    /\ UNCHANGED <<busyApps, status, bundles, log, verdict, lost, faults>>

ReleaseLock(b) ==
    /\ ExecStep(b, "releasing", "done")
    /\ busyApps' = releaseLock(appOf[b])
    /\ UNCHANGED <<status, bundles, log, verdict, pageVars, lost, faults>>

-----------------------------------------------------------------------------
(* A page that shows the log, and the handler of its WebSocket              *)

PageStep(p, from, next) ==
    /\ page[p].pc = from
    /\ page' = [page EXCEPT ![p] = next]
    /\ UNCHANGED <<lockVars, rowVars, bundles, log, execVars, lost, crashes>>

\* The list says building: the page reads the log and asks for a ticket.
OpenPage(p, b) ==
    /\ status[b] = "building"
    /\ PageStep(p, "idle", [pc |-> "opened", build |-> b, shown |-> ReadableLog(b)])
    /\ UNCHANGED <<queue, behind, faults>>

Subscribe(p) ==
    /\ PageStep(p, "opened", [page[p] EXCEPT !.pc = "subscribed"])
    /\ behind' = IF Announcing(page[p].build) THEN behind ELSE behind \cup {p}
    /\ UNCHANGED <<queue, faults>>

\* The snapshot goes before the frames that have arrived since the subscription.
SendSnapshot(p) ==
    /\ PageStep(p, "subscribed", [page[p] EXCEPT !.pc = "live"])
    /\ queue' = [queue EXCEPT ![p] = <<SnapshotFrame(page[p].build)>> \o @]
    /\ UNCHANGED <<behind, faults>>

\* A snapshot replaces the text, a part is appended; the status makes the page fetch the
\* row and the log and close the connection.
Receive(p) ==
    /\ queue[p] # <<>>
    /\ LET f == Head(queue[p])
       IN  PageStep(p, "live",
               [page[p] EXCEPT
                   !.pc = IF f.kind = "status" THEN "fetching" ELSE "live",
                   !.shown = IF f.kind = "snapshot" THEN f.parts ELSE @ \cup f.parts])
    /\ queue' = [queue EXCEPT ![p] = Tail(@)]
    /\ UNCHANGED <<behind, faults>>

FetchLog(p) ==
    /\ PageStep(p, "fetching",
           [page[p] EXCEPT !.pc = "done", !.shown = ReadableLog(page[p].build)])
    /\ UNCHANGED <<queue, behind, faults>>

\* A failed request leaves the text as it is.
FetchLogFails(p) ==
    /\ faults < MaxFaults /\ faults' = faults + 1
    /\ PageStep(p, "fetching", [page[p] EXCEPT !.pc = "stopped"])
    /\ UNCHANGED <<queue, behind>>

\* The user closes it, or the connection fails and the page turns to polling.
ClosePage(p) ==
    /\ \E from \in {"opened", "subscribed", "live"} :
          PageStep(p, from, [page[p] EXCEPT !.pc = "stopped"])
    /\ queue' = [queue EXCEPT ![p] = <<>>]
    /\ UNCHANGED <<behind, faults>>

-----------------------------------------------------------------------------

\* The clean-up that a user asks for takes no lock.
CleanOnDemand(a) ==
    /\ Candidates(a) # {}
    /\ CleanupBundleHistory(a)
    /\ UNCHANGED <<lockVars, rowVars, log, execVars, pageVars, lost, bounds>>

\* The server stops and starts again.  Nothing closes the rows of its builds.
Crash ==
    /\ crashes < MaxCrashes
    /\ crashes' = crashes + 1
    /\ busyApps' = {}
    /\ req' = [q \in Requests |-> NoRequest]
    /\ exec' = [b \in Ids |-> IF exec[b] = "none" THEN "none" ELSE "done"]
    /\ lost' = lost \cup {b \in Ids : status[b] = "building"}
    /\ page' = [p \in Pages |-> IF page[p].pc = "idle" THEN page[p]
                                ELSE [page[p] EXCEPT !.pc = IF @ = "done" THEN @ ELSE "stopped"]]
    /\ queue' = [p \in Pages |-> <<>>]
    /\ UNCHANGED <<rowVars, bundles, log, verdict, behind, faults>>

RequestNext(q) ==
    \/ AcquireLock(q) \/ RejectBusy(q)
    \/ \E b \in Ids : CreateRow(q, b)
    \/ GiveUp(q) \/ MkdirFails(q) \/ FinishAborted(q) \/ RecordLogPath(q) \/ Spawn(q)

ExecNext(b) ==
    \/ OpenLog(b) \/ OpenLogFails(b) \/ Output(b) \/ BuildFails(b) \/ Ingest(b)
    \/ LogSuccess(b) \/ CleanAfterBuild(b)
    \/ FinishBuild(b) \/ FinishBuildFails(b) \/ PublishStatus(b) \/ ReleaseLock(b)

PageNext(p) ==
    Subscribe(p) \/ SendSnapshot(p) \/ Receive(p) \/ FetchLog(p) \/ FetchLogFails(p)

Next ==
    \/ \E q \in Requests : RequestNext(q) \/ \E a \in Apps : Begin(q, a)
    \/ \E b \in Ids : ExecNext(b)
    \/ \E p \in Pages : PageNext(p) \/ ClosePage(p) \/ \E b \in Ids : OpenPage(p, b)
    \/ \E a \in Apps : CleanOnDemand(a)
    \/ Crash

Spec == Init /\ [][Next]_vars

\* Handlers, goroutines and open pages go on; a build ends with its 45 minutes at the
\* latest.  Nobody has to start a build, to open or to close a page.
Fairness ==
    /\ \A q \in Requests : WF_vars(RequestNext(q))
    /\ \A b \in Ids : WF_vars(ExecNext(b))
    /\ \A p \in Pages : WF_vars(PageNext(p))

FairSpec == Spec /\ Fairness

-----------------------------------------------------------------------------
(* Properties                                                               *)

Frames == [kind : {"log", "snapshot", "status"}, parts : SUBSET Parts]

\* Every variable holds values of its kind, and no queue holds more than its frames and
\* the snapshot.
TypeOK ==
    /\ busyApps \subseteq Apps
    /\ status \in [Ids -> {"none", "building", "success", "failed"}]
    /\ appOf \in [Ids -> Apps \cup {NoApp}]
    /\ logged \subseteq Ids /\ bundles \subseteq Ids /\ lost \subseteq Ids
    /\ log \in [Ids -> SUBSET Parts]
    /\ req \in [Requests -> [pc : {"idle", "checked", "locked", "created", "released", "ready"},
                             app : Apps \cup {NoApp}, build : 0..MaxBuilds]]
    /\ exec \in [Ids -> {"none", "spawned", "opened", "working", "ingested", "cleaning",
                         "recording", "publishing", "releasing", "done"}]
    /\ verdict \in [Ids -> {"none", "success", "failed"}]
    /\ page \in [Pages -> [pc : {"idle", "opened", "subscribed", "live", "fetching", "done",
                                 "stopped"},
                           build : 0..MaxBuilds, shown : SUBSET Parts]]
    /\ \A p \in Pages :
          /\ Len(queue[p]) <= QueueSize + 1
          /\ \A i \in DOMAIN queue[p] : queue[p][i] \in Frames
    /\ behind \subseteq Pages
    /\ faults \in 0..MaxFaults /\ crashes \in 0..MaxCrashes

\* Who may work on an application: the build whose row exists and whose lock is not
\* given back.
HolderOf(a) ==
    {b \in Ids : /\ appOf[b] = a
                 /\ ExecOwns(b) \/ \E q \in Requests : req[q].build = b /\ ReqOwns(q)}

RecordOf(b) ==
    CASE status[b] = "none" -> "none"
      [] status[b] = "building" -> "running"
      [] OTHER -> "ended"

Abstract == INSTANCE ExclusiveRuns WITH
    Runs <- Ids,
    holder <- [a \in Apps |-> HolderOf(a)],
    record <- [b \in Ids |-> RecordOf(b)]

\* Builds keep the promise that ExclusiveRuns makes of runs: one build at a time works on
\* an application, and a row that has ended never says building again, though the path
\* of the workspace's error releases the lock before it closes the row.
ImplementsExclusiveRuns == Abstract!AbsSpec

\* A row that says building has a request or a goroutine that will close it, unless the
\* update failed or the server stopped.
BuildingRowsHaveBuilder ==
    \A b \in Ids : status[b] = "building" => Closing(b) \/ b \in lost

\* A build is said to have succeeded only while its bundle is stored: no clean-up, its
\* own or one on demand, takes it away between the ingest and the end of the build.
SuccessHasBundle ==
    [][\A b \in Ids : status'[b] = "success" /\ status[b] # "success" => b \in bundles']_vars

\* A page that has been told the end and has fetched the log shows all of it: nothing is
\* written after the status ("the status is pushed after all trailing log lines",
\* build_service.go).  Without a path in the row there is no log to fetch.
FinishedPagesShowTheWholeLog ==
    \A p \in Pages :
       page[p].pc = "done" /\ page[p].build \in logged => page[p].shown = log[page[p].build]

\* A page that subscribed before the last frame of its build, and lost none, learns that
\* it has ended, though the update of the row may have failed.
WatchersLearnTheEnd ==
    \A p \in Pages :
       page[p].pc = "live" /\ p \notin behind ~> page[p].pc \in {"done", "stopped"} \/ p \in behind
=============================================================================
