------------------------------ MODULE Registry ------------------------------
(***************************************************************************)
(* The rows a deployment is made of: applications, hosts, the services of  *)
(* an application and the deployments that bind a service to a host        *)
(* (internal/service: AppService, AppServiceService, HostService,          *)
(* DeploymentService), and the plan that a pipeline run makes of them      *)
(* (validateMicroserviceDeploymentPlan, buildSubPlanFunc).                 *)
(*                                                                         *)
(* No handler holds a transaction: each is cut at its queries, so that a   *)
(* row can go between the query that found it and the one that counts on   *)
(* it.  Save is gorm's: an UPDATE, and an INSERT when it matched no row.   *)
(* Identifiers are never used twice.  What the columns hold matters only   *)
(* for enabled and status; the address and the keys of a host are the      *)
(* subject of HostAccess, its processes that of HostRuntimes.              *)
(***************************************************************************)
EXTENDS Naturals, FiniteSets

CONSTANTS
    Apps, Hosts,
    NoRow,
    Codes, Default, \* service_code, and the code "default" among them
    Clients,        \* HTTP requests in progress
    MaxServices,    \* bound on the services ever created
    MaxDeps,        \* bound on the deployments ever created
    MaxCalls,       \* bound on the requests ever made
    MaxRuns         \* bound on the runs of an application

ASSUME RegistryAssumption ==
    /\ Apps \cap Hosts = {} /\ NoRow \notin Apps \cup Hosts
    /\ Default \in Codes
    /\ MaxServices \in Nat /\ MaxDeps \in Nat /\ MaxCalls \in Nat /\ MaxRuns \in Nat

Parents == Apps \cup Hosts

VARIABLES
    rows,       \* database: applications and hosts
    created,    \* those whose identifier is in use, rows or not
    services,   \* database: app_services
    lastService,
    deps,       \* database: deployments
    lastDep,
    call,       \* each client: the request it is in, with what it has read
    calls,      \* the number of requests so far
    run,        \* each application: its pipeline run
    runs,       \* each application: the number of its runs
    delivered,  \* deployments (by id) whose program a run put on its host, not stopped since
    raced,      \* history: deployments bound while a parent was being deleted
    overlapped, \* history: deployments a run and an Unbind had both read
    misstated   \* history: delivered ones whose row was not told so, or told otherwise since

svcVars == <<services, lastService>>
depVars == <<deps, lastDep>>
runVars == <<run, runs, delivered>>
history == <<raced, overlapped, misstated>>
callVars == <<call, calls>>
vars == <<rows, created, svcVars, depVars, callVars, runVars, history>>

Service == [id : 1..MaxServices, app : Apps, code : Codes, on : BOOLEAN]
Statuses == {"pending", "running", "stopped"} \* "failed" is read by nobody here: as "stopped"
Deployment == [id : 1..MaxDeps, app : Apps, host : Hosts, code : Codes, status : Statuses]

\* What a request keeps between two queries.
NoCall == [op |-> "none", parent |-> NoRow, host |-> NoRow, id |-> 0, code |-> Default,
           others |-> FALSE, todo |-> {}, known |-> {}]
NoRun == [pc |-> "none", deps |-> {}, bundle |-> FALSE, items |-> {}, checked |-> {},
          loaded |-> {}, deployed |-> {}, lost |-> {}, stop |-> "none", result |-> "none"]

Init ==
    /\ rows = {} /\ created = {}
    /\ services = {} /\ lastService = 0
    /\ deps = {} /\ lastDep = 0
    /\ call = [c \in Clients |-> NoCall] /\ calls = 0
    /\ run = [a \in Apps |-> NoRun] /\ runs = [a \in Apps |-> 0]
    /\ delivered = {} /\ raced = {} /\ overlapped = {} /\ misstated = {}

-----------------------------------------------------------------------------
(* Queries, each after the slips that the properties must catch.             *)

Idle(c) == call[c].op = "none" /\ calls < MaxCalls
Accept(c, k) == call' = [call EXCEPT ![c] = k] /\ calls' = calls + 1
Keep(c, k) == call' = [call EXCEPT ![c] = k] /\ UNCHANGED calls
Return(c) == Keep(c, NoCall)

BoundTo(p) == {d \in deps : p \in {d.app, d.host}}
UncountedDeployments(p) == TRUE
Unreferenced(p) == BoundTo(p) = {}

ServiceRows(a, k) == {s \in services : s.app = a /\ s.code = k}
Enabled(a) == {s.code : s \in {t \in services : t.app = a /\ t.on}}
ServiceUnreferenced(a, k) == {d \in deps : d.app = a /\ d.code = k} = {}

InsertAnyServiceRow(id, a, k, on) ==
    services' = services \cup {[id |-> id, app |-> a, code |-> k, on |-> on]}
\* The unique index of app_services, and what a Create or the INSERT of a Save does.
InsertServiceRow(id, a, k, on) ==
    services' = IF ServiceRows(a, k) = {}
                THEN services \cup {[id |-> id, app |-> a, code |-> k, on |-> on]}
                ELSE services
SaveServiceRow(id, a, k, on) ==
    IF \E s \in services : s.id = id
    THEN services' = {s \in services : s.id # id} \cup
                     {[id |-> id, app |-> a, code |-> k, on |-> on]}
    ELSE InsertServiceRow(id, a, k, on)

AnyItemWillDo(items, k) == k \in items \/ Cardinality(items) = 1
\* itemForServiceCode: a bundle of one item serves the default service.
HasItem(items, k) == k \in items \/ (k = Default /\ Cardinality(items) = 1)

-----------------------------------------------------------------------------
(* Applications and hosts, whose handlers are alike.                         *)

Create(p) ==
    /\ p \in Parents \ created
    /\ rows' = rows \cup {p} /\ created' = created \cup {p}
    /\ UNCHANGED <<svcVars, depVars, callVars, runVars, history>>

UpdateFind(c, p) ==
    /\ Idle(c) /\ p \in rows
    /\ Accept(c, [NoCall EXCEPT !.op = "save", !.parent = p])
    /\ UNCHANGED <<rows, created, svcVars, depVars, runVars, history>>

\* Save puts back a row that has been deleted since UpdateFind.
UpdateSave(c) ==
    /\ call[c].op = "save"
    /\ rows' = rows \cup {call[c].parent}
    /\ Return(c)
    /\ UNCHANGED <<created, svcVars, depVars, runVars, history>>

DeleteCount(c, p) ==
    /\ Idle(c) /\ p \in created /\ Unreferenced(p)
    /\ Accept(c, [NoCall EXCEPT !.op = "delete", !.parent = p])
    /\ UNCHANGED <<rows, created, svcVars, depVars, runVars, history>>

\* The services of a deleted application stay.
DeleteRow(c) ==
    /\ call[c].op = "delete"
    /\ rows' = rows \ {call[c].parent}
    /\ Return(c)
    /\ UNCHANGED <<created, svcVars, depVars, runVars, history>>

ParentNext ==
    \/ \E p \in Parents : Create(p)
    \/ \E c \in Clients :
        \/ \E p \in Parents : UpdateFind(c, p) \/ DeleteCount(c, p)
        \/ UpdateSave(c) \/ DeleteRow(c)

-----------------------------------------------------------------------------
(* The services of an application.                                           *)

ServiceCreate(c, a, k) ==
    /\ Idle(c) /\ a \in rows /\ lastService < MaxServices
    /\ Accept(c, [NoCall EXCEPT !.op = "insert service", !.parent = a, !.code = k])
    /\ UNCHANGED <<rows, created, svcVars, depVars, runVars, history>>

ServiceInsert(c, on) ==
    /\ call[c].op = "insert service" /\ lastService < MaxServices
    /\ lastService' = lastService + 1
    /\ InsertServiceRow(lastService', call[c].parent, call[c].code, on)
    /\ Return(c)
    /\ UNCHANGED <<rows, created, depVars, runVars, history>>

\* findByID in Update (Save follows) and in Delete (the count follows).
ServiceFind(c, s, op) ==
    /\ Idle(c) /\ s \in services
    /\ op \in {"save service", "count service"}
    /\ Accept(c, [NoCall EXCEPT !.op = op, !.parent = s.app, !.id = s.id, !.code = s.code])
    /\ UNCHANGED <<rows, created, svcVars, depVars, runVars, history>>

ServiceSave(c, on) ==
    /\ call[c].op = "save service"
    /\ SaveServiceRow(call[c].id, call[c].parent, call[c].code, on)
    /\ Return(c)
    /\ UNCHANGED <<rows, created, lastService, depVars, runVars, history>>

ServiceCount(c) ==
    /\ call[c].op = "count service"
    /\ IF ServiceUnreferenced(call[c].parent, call[c].code)
       THEN Keep(c, [call[c] EXCEPT !.op = "delete service"])
       ELSE Return(c)
    /\ UNCHANGED <<rows, created, svcVars, depVars, runVars, history>>

ServiceDelete(c) ==
    /\ call[c].op = "delete service"
    /\ services' = {s \in services : s.id # call[c].id}
    /\ Return(c)
    /\ UNCHANGED <<rows, created, lastService, depVars, runVars, history>>

\* BatchImport reads the services there are, then takes its items one by one; with an
\* item that is not the default service (others) it may disable that one at the end.
Import(c, a, K, upsert) ==
    LET known == {s \in services : s.app = a /\ s.code \in K}
    IN  /\ Idle(c) /\ a \in rows /\ K # {}
        /\ Accept(c, [NoCall EXCEPT !.op = IF upsert /\ known # {} THEN "upsert" ELSE "import",
                                    !.parent = a, !.todo = K, !.known = known,
                                    !.others = K # {Default}])
        /\ UNCHANGED <<rows, created, svcVars, depVars, runVars, history>>

Inserting(op) == IF op = "import" THEN "import insert" ELSE "upsert insert"
Importing(c) == call[c].op \in {"import", "upsert"}
KnownAs(c, k) == {s \in call[c].known : s.code = k}
ItemDone(c, op) == Keep(c, [call[c] EXCEPT !.op = op, !.todo = @ \ {call[c].code},
                                           !.id = 0, !.code = Default])

\* An item whose service was there is left alone, or updated, which ends the import when
\* the row is gone.
ImportSkip(c, k) ==
    /\ call[c].op = "import" /\ k \in call[c].todo /\ KnownAs(c, k) # {}
    /\ Keep(c, [call[c] EXCEPT !.todo = @ \ {k}])
    /\ UNCHANGED <<rows, created, svcVars, depVars, runVars, history>>

ImportFind(c, k) ==
    /\ call[c].op = "upsert" /\ k \in call[c].todo
    /\ \E s \in KnownAs(c, k) :
        IF \E t \in services : t.id = s.id
        THEN Keep(c, [call[c] EXCEPT !.op = "upsert save", !.id = s.id, !.code = k])
        ELSE Return(c)
    /\ UNCHANGED <<rows, created, svcVars, depVars, runVars, history>>

ImportSave(c, on) ==
    /\ call[c].op = "upsert save"
    /\ SaveServiceRow(call[c].id, call[c].parent, call[c].code, on)
    /\ ItemDone(c, "upsert")
    /\ UNCHANGED <<rows, created, lastService, depVars, runVars, history>>

\* An item that was not is created, which ends the import when the application is gone
\* or another client has created the service.
ImportApp(c, k) ==
    /\ Importing(c) /\ k \in call[c].todo /\ KnownAs(c, k) = {} /\ lastService < MaxServices
    /\ IF call[c].parent \in rows
       THEN Keep(c, [call[c] EXCEPT !.op = Inserting(@), !.code = k])
       ELSE Return(c)
    /\ UNCHANGED <<rows, created, svcVars, depVars, runVars, history>>

ImportInsert(c, on) ==
    /\ call[c].op \in {"import insert", "upsert insert"} /\ lastService < MaxServices
    /\ lastService' = lastService + 1
    /\ InsertServiceRow(lastService', call[c].parent, call[c].code, on)
    /\ IF ServiceRows(call[c].parent, call[c].code) = {}
       THEN ItemDone(c, IF call[c].op = "import insert" THEN "import" ELSE "upsert")
       ELSE Return(c)
    /\ UNCHANGED <<rows, created, depVars, runVars, history>>

ImportEnd(c) ==
    /\ Importing(c) /\ call[c].todo = {}
    /\ \E disable \in {FALSE, call[c].others} :
         services' = {IF disable /\ s.app = call[c].parent /\ s.code = Default
                      THEN [s EXCEPT !.on = FALSE] ELSE s : s \in services}
    /\ Return(c)
    /\ UNCHANGED <<rows, created, lastService, depVars, runVars, history>>

ServiceNext ==
    \E c \in Clients :
        \/ \E a \in Apps, k \in Codes : ServiceCreate(c, a, k)
        \/ \E s \in services, op \in {"save service", "count service"} : ServiceFind(c, s, op)
        \/ \E on \in BOOLEAN :
            ServiceInsert(c, on) \/ ServiceSave(c, on) \/ ImportSave(c, on) \/ ImportInsert(c, on)
        \/ ServiceCount(c) \/ ServiceDelete(c)
        \/ \E a \in Apps, K \in SUBSET Codes, upsert \in BOOLEAN : Import(c, a, K, upsert)
        \/ \E k \in Codes : ImportSkip(c, k) \/ ImportFind(c, k) \/ ImportApp(c, k)
        \/ ImportEnd(c)

-----------------------------------------------------------------------------
(* Bind and Unbind; StopRuntime, RestartRuntime and SyncRuntimeByApp.        *)

BindApp(c, a, h) ==
    /\ Idle(c) /\ a \in rows /\ lastDep < MaxDeps
    /\ Accept(c, [NoCall EXCEPT !.op = "bind host", !.parent = a, !.host = h])
    /\ UNCHANGED <<rows, created, svcVars, depVars, runVars, history>>

BindHost(c) ==
    /\ call[c].op = "bind host"
    /\ IF call[c].host \in rows
       THEN Keep(c, [call[c] EXCEPT !.op = "bind service"])
       ELSE Return(c)
    /\ UNCHANGED <<rows, created, svcVars, depVars, runVars, history>>

\* resolveBindServiceCode: the code must be that of an enabled service; without a code
\* there must be one enabled service.
BindService(c) ==
    /\ call[c].op = "bind service"
    /\ \/ \E k \in Enabled(call[c].parent) :
            Keep(c, [call[c] EXCEPT !.op = "bind", !.code = k])
       \/ Return(c)
    /\ UNCHANGED <<rows, created, svcVars, depVars, runVars, history>>

BeingDeleted(a, h, k) ==
    \/ \E p \in {a, h} : p \notin rows \/ \E c \in Clients : call[c].op = "delete" /\ call[c].parent = p
    \/ ServiceRows(a, k) = {}
    \/ \E c \in Clients : call[c].op = "delete service" /\ call[c].parent = a /\ call[c].code = k

BindInsert(c) ==
    LET a == call[c].parent
        h == call[c].host
        k == call[c].code
    IN  /\ call[c].op = "bind" /\ lastDep < MaxDeps
        /\ IF \E d \in deps : d.app = a /\ d.host = h /\ d.code = k
           THEN UNCHANGED <<depVars, raced>>
           ELSE /\ lastDep' = lastDep + 1
                /\ deps' = deps \cup {[id |-> lastDep', app |-> a, host |-> h, code |-> k,
                                       status |-> "pending"]}
                /\ raced' = IF BeingDeleted(a, h, k) THEN raced \cup {lastDep'} ELSE raced
        /\ Return(c)
        /\ UNCHANGED <<rows, created, svcVars, runVars, overlapped, misstated>>

NoStatusCheck(d) == TRUE
MayUnbind(d) == d.status # "running"

InRun(d) == run[d.app].pc \notin {"none", "over"} /\ \E e \in run[d.app].deps : e.id = d.id

UnbindFind(c, d) ==
    /\ Idle(c) /\ d \in deps /\ MayUnbind(d)
    /\ Accept(c, [NoCall EXCEPT !.op = "unbind", !.id = d.id])
    /\ overlapped' = IF InRun(d) THEN overlapped \cup {d.id} ELSE overlapped
    /\ UNCHANGED <<rows, created, svcVars, depVars, runVars, raced, misstated>>

UnbindDelete(c) ==
    /\ call[c].op = "unbind"
    /\ deps' = {d \in deps : d.id # call[c].id}
    /\ Return(c)
    /\ UNCHANGED <<rows, created, svcVars, lastDep, runVars, history>>

\* The row of a deployment is read, to stop or restart its container (control), or for a
\* report of its state; SyncRuntimeByApp is one such report for each of its deployments.
RuntimeFind(c, d, op) ==
    /\ Idle(c) /\ d \in deps /\ {d.app, d.host} \subseteq rows
    /\ op \in {"control", "report"}
    /\ Accept(c, [NoCall EXCEPT !.op = op, !.id = d.id])
    /\ UNCHANGED <<rows, created, svcVars, depVars, runVars, history>>

\* docker stop or restart: the program may be gone though the command fails, and may stay
\* though it does not, the container being restarted or, the name changed since, another.
RuntimeExec(c, gone, ok) ==
    /\ call[c].op = "control"
    /\ delivered' = IF gone THEN delivered \ {call[c].id} ELSE delivered
    /\ IF ok THEN Keep(c, [call[c] EXCEPT !.op = "report"]) ELSE Return(c)
    /\ UNCHANGED <<rows, created, svcVars, depVars, run, runs, history>>

\* The status a report writes is any: what docker said may be of another container, of one
\* that was paused, no answer at all ("unknown"), or out of date by now (HostRuntimes has
\* the reading).  The UPDATE is by id, and may match no row.
RuntimeReport(c, status) ==
    /\ call[c].op = "report" /\ status \in {"running", "stopped"}
    /\ deps' = {IF d.id = call[c].id THEN [d EXCEPT !.status = status] ELSE d : d \in deps}
    /\ misstated' = IF status # "running" THEN misstated \cup ({call[c].id} \cap delivered)
                                         ELSE misstated
    /\ Return(c)
    /\ UNCHANGED <<rows, created, svcVars, lastDep, runVars, raced, overlapped>>

\* docker inspect, docker ps or the UPDATE fails.
ReportFails(c) ==
    /\ call[c].op = "report" /\ Return(c)
    /\ UNCHANGED <<rows, created, svcVars, depVars, runVars, history>>

BindingNext ==
    \E c \in Clients :
        \/ \E a \in Apps, h \in Hosts : BindApp(c, a, h)
        \/ BindHost(c) \/ BindService(c) \/ BindInsert(c)
        \/ \E d \in deps : UnbindFind(c, d)
        \/ UnbindDelete(c)
        \/ \E d \in deps, op \in {"control", "report"} : RuntimeFind(c, d, op)
        \/ \E gone, ok \in BOOLEAN : RuntimeExec(c, gone, ok)
        \/ \E status \in Statuses : RuntimeReport(c, status)
        \/ ReportFails(c)

-----------------------------------------------------------------------------
(* The plan of a run.  PipelineRuns has the lock and the end of a run, Waves *)
(* its waves, batches and hosts, Versions the rollbacks.                     *)

SetRun(a, r) == run' = [run EXCEPT ![a] = r]
FailedRun == [NoRun EXCEPT !.pc = "over", !.result = "failed"]

\* Trigger: application, bundle (items is what it holds) or single artifact, deployments.
ReadPlan(a, bundle, items) ==
    LET mine == {d \in deps : d.app = a}
    IN  /\ run[a].pc \in {"none", "over"} /\ a \in rows /\ runs[a] < MaxRuns
        /\ (bundle <=> items # {})
        /\ mine # {}
        /\ SetRun(a, [NoRun EXCEPT !.pc = "read", !.deps = mine,
                                   !.bundle = bundle, !.items = items])
        /\ runs' = [runs EXCEPT ![a] = @ + 1]
        /\ overlapped' = overlapped \cup
              {d.id : d \in {e \in mine : \E c \in Clients : call[c].op = "unbind" /\ call[c].id = e.id}}
        /\ UNCHANGED <<rows, created, svcVars, depVars, callVars, delivered, raced, misstated>>

Deployable(a) ==
    /\ Enabled(a) # {}
    /\ \A k \in Enabled(a) :
        /\ \E d \in run[a].deps : d.code = k
        /\ run[a].bundle => HasItem(run[a].items, k)

\* validateMicroserviceDeploymentPlan; a valid plan is seeded and handed to execute.
ValidatePlan(a) ==
    /\ run[a].pc = "read"
    /\ SetRun(a, IF Deployable(a)
                 THEN [run[a] EXCEPT !.pc = "seeded", !.checked = Enabled(a)]
                 ELSE [NoRun EXCEPT !.pc = "over"])
    /\ UNCHANGED <<rows, created, svcVars, depVars, callVars, runs, delivered, history>>

\* execute reads the services again.
LoadServices(a) ==
    /\ run[a].pc = "seeded"
    /\ SetRun(a, IF Enabled(a) = {}
                 THEN FailedRun
                 ELSE [run[a] EXCEPT !.pc = "deploying", !.loaded = Enabled(a)])
    /\ UNCHANGED <<rows, created, svcVars, depVars, callVars, runs, delivered, history>>

\* buildSubPlanFunc: a loaded service gets its deployments, unless the bundle has no
\* item under its very code.
Planned(a) == {d \in run[a].deps :
                 d.code \in run[a].loaded /\ (run[a].bundle => d.code \in run[a].items)}

\* OnDeploymentSuccess; the update of a deployment unbound since matches no row.
MarkRunning(d) == {IF e.id = d.id THEN [e EXCEPT !.status = "running"] ELSE e : e \in deps}

\* A program is up and healthy, and its row is told, or is not (the error is logged only).
\* The steps before this last one are in Waves and HostRuntimes.
DeployHost(a, d, told) ==
    /\ run[a].pc = "deploying" /\ d \in Planned(a)
    /\ d.id \notin run[a].deployed \cup run[a].lost
    /\ SetRun(a, [run[a] EXCEPT !.deployed = @ \cup {d.id}])
    /\ deps' = IF told THEN MarkRunning(d) ELSE deps
    /\ delivered' = delivered \cup {d.id}
    /\ misstated' = IF told THEN misstated \ {d.id} ELSE misstated \cup {d.id}
    /\ UNCHANGED <<rows, created, svcVars, lastDep, callVars, runs, raced, overlapped>>

LoseHost(a, d) ==
    /\ run[a].pc = "deploying" /\ d \in Planned(a)
    /\ d.id \notin run[a].deployed \cup run[a].lost
    /\ SetRun(a, [run[a] EXCEPT !.lost = @ \cup {d.id}])
    /\ UNCHANGED <<rows, created, svcVars, depVars, callVars, runs, delivered, history>>

\* Hosts are skipped after a failure, and once the run's context has ended (stop): somebody
\* has cancelled it, or the total timeout has passed.  AggregateStatus knows the failures
\* and the cancellation; the timeout it does not.
EndRun(a, stop) ==
    /\ run[a].pc = "deploying"
    /\ \/ \A d \in Planned(a) : d.id \in run[a].deployed \cup run[a].lost
       \/ run[a].lost # {} \/ stop # "none"
    /\ SetRun(a, IF run[a].lost # {} THEN FailedRun
                 ELSE IF stop = "cancelled" THEN [FailedRun EXCEPT !.result = "cancelled"]
                 ELSE [run[a] EXCEPT !.pc = "over", !.stop = stop, !.result = "success"])
    /\ UNCHANGED <<rows, created, svcVars, depVars, callVars, runs, delivered, history>>

RunNext ==
    \E a \in Apps :
        \/ \E bundle \in BOOLEAN, items \in SUBSET Codes : ReadPlan(a, bundle, items)
        \/ ValidatePlan(a) \/ LoadServices(a)
        \/ \E stop \in {"none", "cancelled", "expired"} : EndRun(a, stop)
        \/ \E d \in run[a].deps : LoseHost(a, d) \/ \E told \in BOOLEAN : DeployHost(a, d, told)

Next == ParentNext \/ ServiceNext \/ BindingNext \/ RunNext

Spec == Init /\ [][Next]_vars

-----------------------------------------------------------------------------
(* Properties.                                                               *)

Ops == {"none", "save", "delete", "insert service", "save service", "count service",
        "delete service", "import", "import insert", "upsert", "upsert save", "upsert insert",
        "bind host", "bind service", "bind", "unbind", "control", "report"}

(* Types, unique identifiers, and the unique indexes over app_services and  *)
(* deployments.                                                             *)
TypeOK ==
    /\ rows \subseteq created /\ created \subseteq Parents
    /\ services \subseteq Service /\ lastService \in 0..MaxServices
    /\ \A s, t \in services : s.id = t.id \/ (s.app = t.app /\ s.code = t.code) => s = t
    /\ deps \subseteq Deployment /\ lastDep \in 0..MaxDeps
    /\ \A d, e \in deps :
        d.id = e.id \/ (d.app = e.app /\ d.host = e.host /\ d.code = e.code) => d = e
    /\ \A c \in Clients : call[c].op \in Ops
    /\ calls \in 0..MaxCalls
    /\ \A a \in Apps :
        /\ run[a].pc \in {"none", "read", "seeded", "deploying", "over"}
        /\ run[a].deps \subseteq Deployment
        /\ run[a].deployed \subseteq {d.id : d \in run[a].deps}
        /\ runs[a] \in 0..MaxRuns
    /\ delivered \cup raced \cup overlapped \cup misstated \subseteq 1..MaxDeps

(* "Refuse to cascade": a deployment has its application, its host and its  *)
(* service, unless it was being inserted while one of them was deleted.     *)
BoundRowsHaveParents ==
    \A d \in deps :
        \/ d.id \in raced
        \/ {d.app, d.host} \subseteq rows /\ ServiceRows(d.app, d.code) # {}

(* A program that a run has put on a host, and nobody has stopped since,    *)
(* stays bound: its row says running, which Unbind refuses.  Excepted are   *)
(* the deployment that an Unbind and the run had both read before; the one  *)
(* whose row the run failed to tell; and the one whose row has been told    *)
(* otherwise since, by a report that was out of date or misread the host.   *)
(* A report that finds a program stopped, and is right, excepts nothing.    *)
DeliveredProgramsAreBound ==
    \A i \in delivered \ (overlapped \cup misstated) :
        \E d \in deps : d.id = i /\ d.status = "running"

(* A run that ends in success before its time is up has deployed, on all of *)
(* its hosts, each service it was accepted for, except one disabled since,  *)
(* and the default service of a bundle whose one item bears another code:   *)
(* the check accepts it, the plan leaves it out.  Once the total timeout    *)
(* has passed success says nothing of the hosts that were left.             *)
AcceptedServicesAreDeployed ==
    \A a \in Apps : run[a].result = "success" /\ run[a].stop = "none" =>
        \A k \in run[a].checked \cap run[a].loaded :
            \/ k = Default /\ run[a].bundle /\ Default \notin run[a].items
            \/ \A d \in run[a].deps : d.code = k => d.id \in run[a].deployed
=============================================================================
