---------------------------- MODULE PipelineRuns ----------------------------
(***************************************************************************)
(* The life of a pipeline run in PipelineService                           *)
(* (internal/service/pipeline_service.go): requests that take the          *)
(* application's lock and create the row, the goroutine that executes the  *)
(* run and closes it, concurrent cancellations, failing database writes    *)
(* and server crashes.                                                     *)
(*                                                                         *)
(* A handler is cut at every database call and every section under s.mu:   *)
(* between two of them any other goroutine may step.  What a run does on   *)
(* its hosts is the subject of Waves; here it is one step with any result. *)
(***************************************************************************)
EXTENDS Naturals, FiniteSets

CONSTANTS
    Apps,        \* applications
    Runs,        \* identifiers the pipeline_runs table can hand out
    Requests,    \* HTTP requests that may be in flight in Trigger or a rollback
    Cancels,     \* HTTP requests that may be in flight in Cancel
    NoApp,       \* the application of an idle request or of a row not created
    NoRun,       \* the run of a request that has created none
    MaxCrashes   \* bound on the number of crashes

ASSUME ModelValues ==
    /\ NoApp \notin Apps
    /\ NoRun \notin Runs
    /\ Requests \cap Runs = {}
    /\ MaxCrashes \in Nat

VARIABLES
    runningAppIDs,  \* memory: the per-application lock
    cancelFns,      \* memory: runs with a registered cancel function
    status,         \* database: pipeline_runs.status
    appOf,          \* database: pipeline_runs.app_id
    reqPc,          \* where each start request is
    reqApp,         \* its application
    reqRun,         \* the run it created
    exec,           \* where the goroutine of each run is
    verdict,        \* the final status the goroutine has computed
    ctxCancelled,   \* whether the run's context has been cancelled
    cancelPc,       \* where each cancel request is
    cancelRun,      \* the run it wants to cancel
    lost,           \* history: runs whose row no goroutine will close
    crashes         \* number of crashes so far

reqVars    == <<reqPc, reqApp, reqRun>>
execVars   == <<exec, verdict>>
cancelVars == <<cancelPc, cancelRun>>
rowVars    == <<status, appOf>>
memVars    == <<runningAppIDs, cancelFns>>
vars == <<memVars, rowVars, reqVars, execVars, ctxCancelled, cancelVars, lost, crashes>>

Final     == {"success", "failed", "cancelled"}
Statuses  == {"none", "running"} \cup Final
Working   == {"spawned", "deploying", "recording"}
Leaving   == {"unregistering", "releasing"}
ExecPcs   == {"none", "done", "dead"} \cup Working \cup Leaving
Started   == {"created", "registered"}
ReqPcs    == {"idle", "checked", "locked"} \cup Started
CancelPcs == {"idle", "read", "found", "orphan"}

\* The requests and goroutines that are past the lock of a and still owe its release.
ReqOwns(q)  == reqPc[q] \in {"locked"} \cup Started
ExecOwns(r) == exec[r] \in Working \cup Leaving
Owners(a) ==
    {q \in Requests : ReqOwns(q) /\ reqApp[q] = a}
      \cup {r \in Runs : ExecOwns(r) /\ appOf[r] = a}

\* The row of r exists and its request has not handed it to a goroutine yet.
Starting(r) == \E q \in Requests : reqPc[q] \in Started /\ reqRun[q] = r

Init ==
    /\ runningAppIDs = {} /\ cancelFns = {}
    /\ status = [r \in Runs |-> "none"]
    /\ appOf = [r \in Runs |-> NoApp]
    /\ reqPc = [q \in Requests |-> "idle"]
    /\ reqApp = [q \in Requests |-> NoApp]
    /\ reqRun = [q \in Requests |-> NoRun]
    /\ exec = [r \in Runs |-> "none"]
    /\ verdict = [r \in Runs |-> "none"]
    /\ ctxCancelled = [r \in Runs |-> FALSE]
    /\ cancelPc = [c \in Cancels |-> "idle"]
    /\ cancelRun = [c \in Cancels |-> NoRun]
    /\ lost = {}
    /\ crashes = 0

-----------------------------------------------------------------------------
(* The sections under s.mu and the row updates the handlers are made of,    *)
(* each after the slips of the pen that the properties must catch.          *)

NeverBusy(a) == FALSE
Busy(a) == a \in runningAppIDs

KeepLock(a) == runningAppIDs
releaseLock(a) == runningAppIDs \ {a}

ForgetCancel(r) == cancelFns
RegisterUnderApp(r) == cancelFns \cup {appOf[r]}
registerCancel(r) == cancelFns \cup {r}

unregisterCancel(r) == cancelFns \ {r}

SkipUpdate(r, s) == status
finishRun(r, s) == [status EXCEPT ![r] = s]

MarkAnyStatus(r) == [status EXCEPT ![r] = "cancelled"]
markCancelledOrphan(r) == [status EXCEPT ![r] = IF @ = "running" THEN "cancelled" ELSE @]

AggregateStatus(anyFailed, cancelled) ==
    IF anyFailed THEN "failed" ELSE IF cancelled THEN "cancelled" ELSE "success"

-----------------------------------------------------------------------------
(* Trigger, Rollback, RollbackToRun and startRollbackRun                    *)

\* The checks before the lock read rows this module leaves out; a request that
\* fails one returns without a trace, so only those that pass them are kept.
Begin(q, a) ==
    /\ reqPc[q] = "idle"
    /\ reqPc' = [reqPc EXCEPT ![q] = "checked"]
    /\ reqApp' = [reqApp EXCEPT ![q] = a]
    /\ UNCHANGED <<memVars, rowVars, reqRun, execVars, ctxCancelled, cancelVars, lost, crashes>>

\* The request answers and its locals are gone.
Answer(q) ==
    /\ reqPc' = [reqPc EXCEPT ![q] = "idle"]
    /\ reqApp' = [reqApp EXCEPT ![q] = NoApp]
    /\ reqRun' = [reqRun EXCEPT ![q] = NoRun]

AcquireLock(q) ==
    /\ reqPc[q] = "checked"
    /\ ~Busy(reqApp[q])
    /\ runningAppIDs' = runningAppIDs \cup {reqApp[q]}
    /\ reqPc' = [reqPc EXCEPT ![q] = "locked"]
    /\ UNCHANGED <<cancelFns, rowVars, reqApp, reqRun, execVars, ctxCancelled, cancelVars,
                   lost, crashes>>

\* 409 CONFLICT: another run of the application is in progress.
RejectBusy(q) ==
    /\ reqPc[q] = "checked"
    /\ Busy(reqApp[q])
    /\ Answer(q)
    /\ UNCHANGED <<memVars, rowVars, execVars, ctxCancelled, cancelVars, lost, crashes>>

\* env_vars do not parse (Trigger) or the row cannot be inserted: both error
\* paths give the lock back.
GiveUp(q) ==
    /\ reqPc[q] = "locked"
    /\ runningAppIDs' = releaseLock(reqApp[q])
    /\ Answer(q)
    /\ UNCHANGED <<cancelFns, rowVars, execVars, ctxCancelled, cancelVars, lost, crashes>>

CreateRun(q, r) ==
    /\ reqPc[q] = "locked"
    /\ status[r] = "none"
    /\ status' = [status EXCEPT ![r] = "running"]
    /\ appOf' = [appOf EXCEPT ![r] = reqApp[q]]
    /\ reqRun' = [reqRun EXCEPT ![q] = r]
    /\ reqPc' = [reqPc EXCEPT ![q] = "created"]
    /\ UNCHANGED <<memVars, reqApp, execVars, ctxCancelled, cancelVars, lost, crashes>>

\* After the rows of the hosts have been seeded.
RegisterCancel(q) ==
    /\ reqPc[q] = "created"
    /\ cancelFns' = registerCancel(reqRun[q])
    /\ reqPc' = [reqPc EXCEPT ![q] = "registered"]
    /\ UNCHANGED <<runningAppIDs, rowVars, reqApp, reqRun, execVars, ctxCancelled, cancelVars,
                   lost, crashes>>

\* go s.execute(...); the lock now belongs to the goroutine.
Spawn(q) ==
    /\ reqPc[q] = "registered"
    /\ exec' = [exec EXCEPT ![reqRun[q]] = "spawned"]
    /\ Answer(q)
    /\ UNCHANGED <<memVars, rowVars, verdict, ctxCancelled, cancelVars, lost, crashes>>

-----------------------------------------------------------------------------
(* execute, with its deferred unregisterCancel and releaseLock              *)

ExecStep(r, from, to) ==
    /\ exec[r] = from
    /\ exec' = [exec EXCEPT ![r] = to]
    /\ UNCHANGED <<appOf, reqVars, ctxCancelled, cancelVars, crashes>>

LoadServices(r) ==
    /\ ExecStep(r, "spawned", "deploying")
    /\ UNCHANGED <<memVars, status, verdict, lost>>

\* The service list cannot be read, is empty, or the bundle has no item for a
\* legacy application: the run fails before it touches a host.
LoadServicesFails(r) ==
    /\ ExecStep(r, "spawned", "recording")
    /\ verdict' = [verdict EXCEPT ![r] = "failed"]
    /\ UNCHANGED <<memVars, status, lost>>

RunStrategy(r) ==
    /\ ExecStep(r, "deploying", "recording")
    /\ \E anyFailed \in BOOLEAN :
          verdict' = [verdict EXCEPT ![r] = AggregateStatus(anyFailed, ctxCancelled[r])]
    /\ UNCHANGED <<memVars, status, lost>>

FinishRun(r) ==
    /\ ExecStep(r, "recording", "unregistering")
    /\ status' = finishRun(r, verdict[r])
    /\ UNCHANGED <<memVars, verdict, lost>>

\* The update fails: the error is logged and nothing is retried.
FinishRunFails(r) ==
    /\ ExecStep(r, "recording", "unregistering")
    /\ lost' = lost \cup {r}
    /\ UNCHANGED <<memVars, status, verdict>>

UnregisterCancel(r) ==
    /\ ExecStep(r, "unregistering", "releasing")
    /\ cancelFns' = unregisterCancel(r)
    /\ UNCHANGED <<runningAppIDs, status, verdict, lost>>

ReleaseLock(r) ==
    /\ ExecStep(r, "releasing", "done")
    /\ runningAppIDs' = releaseLock(appOf[r])
    /\ UNCHANGED <<cancelFns, status, verdict, lost>>

-----------------------------------------------------------------------------
(* Cancel                                                                   *)

\* The row must exist and say running, else NOT_FOUND or CONFLICT.
CancelRead(c, r) ==
    /\ cancelPc[c] = "idle"
    /\ status[r] = "running"
    /\ cancelPc' = [cancelPc EXCEPT ![c] = "read"]
    /\ cancelRun' = [cancelRun EXCEPT ![c] = r]
    /\ UNCHANGED <<memVars, rowVars, reqVars, execVars, ctxCancelled, lost, crashes>>

CancelLookup(c) ==
    /\ cancelPc[c] = "read"
    /\ cancelPc' = [cancelPc EXCEPT ![c] = IF cancelRun[c] \in cancelFns THEN "found" ELSE "orphan"]
    /\ UNCHANGED <<memVars, rowVars, reqVars, execVars, ctxCancelled, cancelRun, lost, crashes>>

CancelDone(c) ==
    /\ cancelPc' = [cancelPc EXCEPT ![c] = "idle"]
    /\ cancelRun' = [cancelRun EXCEPT ![c] = NoRun]
    /\ UNCHANGED <<memVars, appOf, reqVars, execVars, lost, crashes>>

CancelCtx(c) ==
    /\ cancelPc[c] = "found"
    /\ ctxCancelled' = [ctxCancelled EXCEPT ![cancelRun[c]] = TRUE]
    /\ UNCHANGED status
    /\ CancelDone(c)

CancelOrphan(c) ==
    /\ cancelPc[c] = "orphan"
    /\ status' = markCancelledOrphan(cancelRun[c])
    /\ UNCHANGED ctxCancelled
    /\ CancelDone(c)

-----------------------------------------------------------------------------
\* The process dies (a signal, a panic in a goroutine, a shutdown: serve does not
\* wait for runs) and starts again with empty maps; no start-up code looks at the rows.
Crash ==
    /\ crashes < MaxCrashes
    /\ crashes' = crashes + 1
    /\ runningAppIDs' = {} /\ cancelFns' = {}
    /\ reqPc' = [q \in Requests |-> "idle"]
    /\ reqApp' = [q \in Requests |-> NoApp]
    /\ reqRun' = [q \in Requests |-> NoRun]
    /\ exec' = [r \in Runs |-> IF ExecOwns(r) \/ Starting(r) THEN "dead" ELSE exec[r]]
    /\ cancelPc' = [c \in Cancels |-> "idle"]
    /\ cancelRun' = [c \in Cancels |-> NoRun]
    /\ lost' = lost \cup {r \in Runs : status[r] = "running"}
    /\ UNCHANGED <<rowVars, verdict, ctxCancelled>>

ReqNext(q) ==
    \/ AcquireLock(q) \/ RejectBusy(q) \/ GiveUp(q) \/ RegisterCancel(q) \/ Spawn(q)
    \/ \E r \in Runs : CreateRun(q, r)

ExecNext(r) ==
    \/ LoadServices(r) \/ LoadServicesFails(r) \/ RunStrategy(r)
    \/ FinishRun(r) \/ FinishRunFails(r) \/ UnregisterCancel(r) \/ ReleaseLock(r)

CancelNext(c) == CancelLookup(c) \/ CancelCtx(c) \/ CancelOrphan(c)

Next ==
    \/ \E q \in Requests : ReqNext(q) \/ \E a \in Apps : Begin(q, a)
    \/ \E r \in Runs : ExecNext(r)
    \/ \E c \in Cancels : CancelNext(c) \/ \E r \in Runs : CancelRead(c, r)
    \/ Crash

Spec == Init /\ [][Next]_vars

\* Go runs every goroutine that can run, and a handler once entered goes on to its
\* answer.  That the stages of a run on its hosts end is an assumption of this module:
\* an upload to a host that does not answer does not (Waves: TimeoutEndsTheRun).
\* Nobody has to send a request, and the server need not crash.
FairSpec ==
    /\ Spec
    /\ \A q \in Requests : WF_vars(ReqNext(q))
    /\ \A r \in Runs : WF_vars(ExecNext(r))
    /\ \A c \in Cancels : WF_vars(CancelNext(c))

-----------------------------------------------------------------------------
(* Properties                                                               *)

\* Every variable has its type.
TypeOK ==
    /\ runningAppIDs \subseteq Apps
    /\ cancelFns \subseteq Runs
    /\ status \in [Runs -> Statuses]
    /\ appOf \in [Runs -> Apps \cup {NoApp}]
    /\ reqPc \in [Requests -> ReqPcs]
    /\ reqApp \in [Requests -> Apps \cup {NoApp}]
    /\ reqRun \in [Requests -> Runs \cup {NoRun}]
    /\ exec \in [Runs -> ExecPcs]
    /\ verdict \in [Runs -> {"none"} \cup Final]
    /\ ctxCancelled \in [Runs -> BOOLEAN]
    /\ cancelPc \in [Cancels -> CancelPcs]
    /\ cancelRun \in [Cancels -> Runs \cup {NoRun}]
    /\ lost \subseteq Runs
    /\ crashes \in 0..MaxCrashes

\* Two start requests or goroutines are never past the lock of one application
\* together, through the hand-over from the request to the goroutine, the error
\* paths and the deferred calls (runningAppIDs, pipeline_service.go:188-196, 491-499).
MutualExclusion ==
    \A a \in Apps : \A x, y \in Owners(a) : x = y

\* An application is locked exactly while somebody owes its release: no error path
\* leaks the lock (the application would answer 409 until a restart), none gives back
\* a lock it does not hold.
LockMatchesOwners ==
    runningAppIDs = {a \in Apps : Owners(a) # {}}

\* A row that says running has a request or a goroutine that will close it, unless
\* the process died or its closing update failed (the orphans Cancel's last case is
\* for): no early return of execute leaves the row behind.
RunningRowsHaveCloser ==
    \A r \in Runs : status[r] = "running" => Starting(r) \/ exec[r] \in Working \/ r \in lost

\* From the moment the goroutine exists until it has closed its row, Cancel finds the
\* cancel function of the run; after it has left, the map holds nothing of it.
CancelFnsMatchRuns ==
    \A r \in Runs :
        /\ exec[r] \in Working => r \in cancelFns
        /\ r \in cancelFns => Starting(r) \/ exec[r] \in Working \cup {"unregistering"}

\* A row that says success or failed never changes again, even when a Cancel that
\* read it as running is still on its way to its own update.
SuccessAndFailureAreFinal ==
    [][\A r \in Runs : status[r] \in {"success", "failed"} => status'[r] = status[r]]_vars

\* What Cancel's comment says of a run that has ended: success, failed and cancelled
\* alike are over ("run 已结束（success/failed/cancelled）→ CONFLICT"), and only a run left by
\* a restart has no cancel function.
EndedRunsStayEnded ==
    [][\A r \in Runs : status[r] \in Final => status'[r] = status[r]]_vars

\* A run that was started comes to a final status unless its closer is lost.
RunsEnd ==
    \A r \in Runs : status[r] = "running" ~> status[r] # "running" \/ r \in lost

-----------------------------------------------------------------------------
(* PipelineRuns implements ExclusiveRuns                                    *)

Live(r) == Starting(r) \/ ExecOwns(r)
HolderBar == [a \in Apps |-> {r \in Runs : appOf[r] = a /\ Live(r)}]
RecordBar == [r \in Runs |-> IF status[r] \in Final THEN "ended" ELSE status[r]]

Exclusive == INSTANCE ExclusiveRuns WITH holder <- HolderBar, record <- RecordBar

\* Seen from outside, runs of an application are exclusive, open once and end once,
\* whatever the interleaving of starts, ends, cancellations and crashes.
ImplementsExclusiveRuns == Exclusive!AbsSpec
=============================================================================
