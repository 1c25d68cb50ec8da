-------------------------------- MODULE Waves --------------------------------
(***************************************************************************)
(* What a pipeline run does on its hosts (internal/service/pipeline/       *)
(* strategy): RunWaves takes the services of an application wave by wave,  *)
(* the services of a wave run side by side, each under Single, Rolling or  *)
(* Rollback, and every host is a deployHost with its row in                *)
(* pipeline_run_hosts and its version pointer in deployments.              *)
(*                                                                         *)
(* The plan is chosen at the start among Plans and never changes.  The     *)
(* stages of deployHost are three: before anything on the host is touched  *)
(* (dial, env_check), while files and process are replaced (upload to      *)
(* health), and after the row says success.                                *)
(***************************************************************************)
EXTENDS Naturals, FiniteSets

CONSTANTS
    Services,   \* the services of the application
    Deps,       \* its deployments (a service on a host), by identifier
    Plans,      \* the plans a run may be given
    MaxMissed   \* bound on the database writes that fail

(* A plan: the strategy and its batch size, the enabled services with their  *)
(* startup_order, the optional ones, the service of each deployment, and     *)
(* the deployments there is something to install for (an item or artifact    *)
(* of the bundle, a previous one for a rollback).                            *)
Strategies == {"single", "rolling", "rollback"}
PlanType ==
    {p \in [strategy : Strategies, batch : Nat \ {0}, enabled : SUBSET Services,
            order : [Services -> Nat], optional : SUBSET Services,
            service : [Deps -> Services], sourced : SUBSET Deps] :
        \* going forward, an item is found for a whole service or not at all
        p.strategy # "rollback" =>
            \A d, e \in Deps : p.service[d] = p.service[e] => (d \in p.sourced <=> e \in p.sourced)}

ASSUME WavesAssumption ==
    /\ Deps \subseteq Nat /\ IsFiniteSet(Deps)
    /\ Plans \subseteq PlanType
    /\ MaxMissed \in Nat

VARIABLES
    plan,         \* the plan of the run
    main,         \* where RunWaves is
    left,         \* startup orders of the waves not reached yet
    wave,         \* services of the wave that is running
    stopReason,   \* RunWaves's stopReason: why later waves are skipped
    svcPc,        \* where the goroutine of each service is
    svcStop,      \* its strategy's stopReason is set
    hostPc,       \* where each deployHost is
    outcome,      \* the HostOutcome each deployment got, in memory
    row,          \* database: pipeline_run_hosts.status
    pointer,      \* database: the deployment points at the version of this run
    touched,      \* the host: files or process have been replaced
    cancelled,    \* the user has cancelled the run
    expired,      \* the total timeout of the run has passed
    missed,       \* number of database writes that failed
    result        \* the final status of the run

loopVars == <<main, left, wave, stopReason>>
svcVars  == <<svcPc, svcStop>>
hostVars == <<hostPc, outcome, row, pointer, touched, missed>>
ctxVars  == <<cancelled, expired>>
vars == <<plan, loopVars, svcVars, hostVars, ctxVars, result>>

ctxDone == cancelled \/ expired

Init ==
    /\ plan \in Plans
    /\ main = "next"
    /\ left = {plan.order[s] : s \in plan.enabled}
    /\ wave = {}
    /\ stopReason = "none"
    /\ svcPc = [s \in Services |-> "idle"]
    /\ svcStop = [s \in Services |-> FALSE]
    /\ hostPc = [d \in Deps |-> "idle"]
    /\ outcome = [d \in Deps |-> "none"]
    /\ row = [d \in Deps |-> "pending"]
    /\ pointer = [d \in Deps |-> FALSE]
    /\ touched = [d \in Deps |-> FALSE]
    /\ cancelled = FALSE /\ expired = FALSE
    /\ missed = 0
    /\ result = "none"

-----------------------------------------------------------------------------
(* What the plan gives a service, and the small decisions of the loops, each *)
(* after the slips that the properties must catch.                           *)

\* The deployments in the sub-plan of s: none when there is nothing to install for any
\* of them, or none is bound (the builder then returns no sub-plan; it never fails).
SubDeps(s) ==
    LET own == {d \in Deps : plan.service[d] = s}
    IN  IF own \cap plan.sourced = {} THEN {} ELSE own

Planned == UNION {SubDeps(s) : s \in plan.enabled}

Size == IF plan.strategy = "rolling" THEN plan.batch ELSE 1

\* Deployments of s the strategy has not come to yet.
Pending(s) == {d \in SubDeps(s) : hostPc[d] = "idle" /\ outcome[d] = "none"}

Batch(s) == {d \in Pending(s) : Cardinality({e \in Pending(s) : e < d}) < Size}

BatchNeverOver(s) == \A d \in SubDeps(s) : hostPc[d] = "done"
BatchOver(s) == \A d \in SubDeps(s) : hostPc[d] \in {"idle", "done"}

Failed(s) == \E d \in SubDeps(s) : outcome[d] = "failed"

NothingBlocks(S) == FALSE
FailedRequired(S) == \E s \in S : Failed(s) /\ s \notin plan.optional

AnyServiceOver(S) == S # {} => \E s \in S : svcPc[s] = "done"
WaveOver(S) == \A s \in S : svcPc[s] = "done"

FailuresDoNotCount(anyFailed) == IF cancelled THEN "cancelled" ELSE "success"
AggregateStatus(anyFailed) ==
    IF anyFailed THEN "failed" ELSE IF cancelled THEN "cancelled" ELSE "success"

\* The update of the rows of D; each one may fail, and is then only logged.
OnHostStatus(D, status) ==
    \E M \in SUBSET D :
        /\ missed + Cardinality(M) <= MaxMissed
        /\ missed' = missed + Cardinality(M)
        /\ row' = [d \in Deps |-> IF d \in D \ M THEN status ELSE row[d]]

Unsettled(D, status) == [d \in Deps |-> IF d \in D THEN "running" ELSE outcome[d]]
Outcomes(D, status) == [d \in Deps |-> IF d \in D THEN status ELSE outcome[d]]

SkipNobody(D) == UNCHANGED <<outcome, row, missed>>
skipHosts(D) == outcome' = Outcomes(D, "skipped") /\ OnHostStatus(D, "skipped")

-----------------------------------------------------------------------------
(* RunWaves                                                                 *)

NextOrder == CHOOSE o \in left : \A p \in left : o <= p
NextWave == {s \in plan.enabled : plan.order[s] = NextOrder}

SkipWave ==
    /\ main = "next" /\ left # {}
    /\ stopReason # "none"
    /\ left' = left \ {NextOrder}
    /\ skipHosts(UNION {SubDeps(s) : s \in NextWave})
    /\ UNCHANGED <<plan, main, wave, stopReason, svcVars, hostPc, pointer, touched,
                   ctxVars, result>>

\* The context has ended: the loop goes on to the next wave, this one gets nothing.
StopAtWave ==
    /\ main = "next" /\ left # {}
    /\ stopReason = "none" /\ ctxDone
    /\ stopReason' = "ctx done"
    /\ left' = left \ {NextOrder}
    /\ UNCHANGED <<plan, main, wave, svcVars, hostVars, ctxVars, result>>

StartWave ==
    /\ main = "next" /\ left # {}
    /\ stopReason = "none" /\ ~ctxDone
    /\ main' = "waiting"
    /\ wave' = NextWave
    /\ left' = left \ {NextOrder}
    /\ svcPc' = [s \in Services |-> IF s \in NextWave THEN "next" ELSE svcPc[s]]
    /\ UNCHANGED <<plan, stopReason, svcStop, hostVars, ctxVars, result>>

EndWave ==
    /\ main = "waiting"
    /\ WaveOver(wave)
    /\ main' = "next"
    /\ stopReason' = IF FailedRequired(wave) THEN "required failed" ELSE stopReason
    /\ UNCHANGED <<plan, left, wave, svcVars, hostVars, ctxVars, result>>

\* The end of execute: the outcomes of all waves decide the status of the run.
Finish ==
    /\ main = "next" /\ left = {}
    /\ main' = "finished"
    /\ result' = AggregateStatus(\E d \in Deps : outcome[d] = "failed")
    /\ UNCHANGED <<plan, left, wave, stopReason, svcVars, hostVars, ctxVars>>

-----------------------------------------------------------------------------
(* Single, Rolling and Rollback, for one service; Single and Rollback are   *)
(* the batches of one.                                                      *)

\* Rollback passes over a deployment it has no previous version for.
StartBatch(s) ==
    /\ main = "waiting" /\ svcPc[s] = "next"
    /\ Batch(s) # {}
    /\ ~svcStop[s] /\ ~ctxDone
    /\ svcPc' = [svcPc EXCEPT ![s] = "waiting"]
    /\ hostPc' = [d \in Deps |-> IF d \in Batch(s) \cap plan.sourced THEN "dial" ELSE hostPc[d]]
    /\ skipHosts(Batch(s) \ plan.sourced)
    /\ UNCHANGED <<plan, loopVars, svcStop, pointer, touched, ctxVars, result>>

\* A failure before, or the end of the context: everything that is left is skipped.
SkipRest(s) ==
    /\ main = "waiting" /\ svcPc[s] = "next"
    /\ Pending(s) # {}
    /\ svcStop[s] \/ ctxDone
    /\ svcStop' = [svcStop EXCEPT ![s] = TRUE]
    /\ skipHosts(Pending(s))
    /\ UNCHANGED <<plan, loopVars, svcPc, hostPc, pointer, touched, ctxVars, result>>

EndBatch(s) ==
    /\ main = "waiting" /\ svcPc[s] = "waiting"
    /\ BatchOver(s)
    /\ svcPc' = [svcPc EXCEPT ![s] = "next"]
    /\ svcStop' = [svcStop EXCEPT ![s] = @ \/ Failed(s)]
    /\ UNCHANGED <<plan, loopVars, hostVars, ctxVars, result>>

ServiceDone(s) ==
    /\ main = "waiting" /\ svcPc[s] = "next"
    /\ Pending(s) = {}
    /\ svcPc' = [svcPc EXCEPT ![s] = "done"]
    /\ UNCHANGED <<plan, loopVars, svcStop, hostVars, ctxVars, result>>

-----------------------------------------------------------------------------
(* deployHost                                                               *)

HostStep(d, from, to) ==
    /\ main = "waiting" /\ hostPc[d] \in from
    /\ hostPc' = [hostPc EXCEPT ![d] = to]
    /\ UNCHANGED <<plan, loopVars, svcVars, ctxVars, result>>

HostStarts(d) ==
    /\ HostStep(d, {"dial"}, "connected")
    /\ OnHostStatus({d}, "running")
    /\ UNCHANGED <<outcome, pointer, touched>>

\* Upload, unit and restart: nobody asks the context first, and the upload never does.
HostSwitches(d) ==
    /\ HostStep(d, {"connected"}, "switching")
    /\ touched' = [touched EXCEPT ![d] = TRUE]
    /\ UNCHANGED <<outcome, row, pointer, missed>>

\* A stage fails; also when the end of the context closes its SSH session or stops the probe.
HostFails(d) ==
    /\ HostStep(d, {"connected", "switching"}, "done")
    /\ outcome' = Outcomes({d}, "failed")
    /\ OnHostStatus({d}, "failed")
    /\ UNCHANGED <<pointer, touched>>

HostSucceeds(d) ==
    /\ HostStep(d, {"switching"}, "recorded")
    /\ OnHostStatus({d}, "success")
    /\ UNCHANGED <<outcome, pointer, touched>>

\* The update of the pointer may fail too; the outcome is success all the same.
OnDeploymentSuccess(d) ==
    /\ HostStep(d, {"recorded"}, "done")
    /\ outcome' = Outcomes({d}, "success")
    /\ \/ pointer' = [pointer EXCEPT ![d] = TRUE] /\ UNCHANGED missed
       \/ missed < MaxMissed /\ missed' = missed + 1 /\ UNCHANGED pointer
    /\ UNCHANGED <<row, touched>>

-----------------------------------------------------------------------------
(* The environment                                                          *)

Cancel ==
    /\ ~cancelled /\ main \in {"next", "waiting"}
    /\ cancelled' = TRUE
    /\ UNCHANGED <<plan, loopVars, svcVars, hostVars, expired, result>>

Timeout ==
    /\ ~expired /\ main \in {"next", "waiting"}
    /\ expired' = TRUE
    /\ UNCHANGED <<plan, loopVars, svcVars, hostVars, cancelled, result>>

\* The process dies with every goroutine of the run.
Crash ==
    /\ main \in {"next", "waiting"}
    /\ main' = "dead"
    /\ UNCHANGED <<plan, left, wave, stopReason, svcVars, hostVars, ctxVars, result>>

LoopNext == SkipWave \/ StopAtWave \/ StartWave \/ EndWave \/ Finish
ServiceNext(s) == StartBatch(s) \/ SkipRest(s) \/ EndBatch(s) \/ ServiceDone(s)
HostNext(d) ==
    \/ HostStarts(d) \/ HostSwitches(d) \/ HostFails(d)
    \/ HostSucceeds(d) \/ OnDeploymentSuccess(d)

Next ==
    \/ LoopNext
    \/ \E s \in Services : ServiceNext(s)
    \/ \E d \in Deps : HostNext(d)
    \/ Cancel \/ Timeout \/ Crash

Spec == Init /\ [][Next]_vars

\* Go runs every goroutine that can run.  Of deployHost it runs the steps on the database; a
\* stage that waits for the host has no fairness: of the dial only the TCP connect has a
\* timeout, and neither the SSH handshake nor NewSession, Upload and WriteFile know the context.
FairSpec ==
    /\ Spec
    /\ WF_vars(LoopNext)
    /\ \A s \in Services : WF_vars(ServiceNext(s))
    /\ \A d \in Deps : WF_vars(HostStarts(d)) /\ WF_vars(OnDeploymentSuccess(d))

-----------------------------------------------------------------------------
(* Properties                                                               *)

HostPcs  == {"idle", "dial", "connected", "switching", "recorded", "done"}
Settled  == {"success", "failed", "skipped"}
Finals   == {"success", "failed", "cancelled"}

\* Every variable has its type; a HostOutcome is final when its goroutine returns it.
TypeOK ==
    /\ plan \in Plans
    /\ main \in {"next", "waiting", "finished", "dead"}
    /\ left \subseteq {plan.order[s] : s \in plan.enabled}
    /\ wave \subseteq plan.enabled
    /\ stopReason \in {"none", "ctx done", "required failed"}
    /\ svcPc \in [Services -> {"idle", "next", "waiting", "done"}]
    /\ svcStop \in [Services -> BOOLEAN]
    /\ hostPc \in [Deps -> HostPcs]
    /\ outcome \in [Deps -> {"none"} \cup Settled]
    /\ row \in [Deps -> {"pending", "running"} \cup Settled]
    /\ pointer \in [Deps -> BOOLEAN]
    /\ touched \in [Deps -> BOOLEAN]
    /\ cancelled \in BOOLEAN /\ expired \in BOOLEAN
    /\ missed \in 0..MaxMissed
    /\ result \in {"none"} \cup Finals

\* The batch of d among the deployments of its service, counted from 0.
Rank(d) == Cardinality({e \in SubDeps(plan.service[d]) : e < d}) \div Size

\* A host waits for its turn.  Wave barrier: it is not touched for a service before every
\* deployment of the earlier waves is over, and none of a required service there has
\* failed (RunWaves, decision Q3).  Batches: nor before every earlier batch of its own
\* service has succeeded or had nothing to roll back, so that with fail-fast a bad version
\* reaches one batch of each service at most.
HostsWaitTheirTurn ==
    /\ \A s, t \in plan.enabled : plan.order[t] < plan.order[s] =>
         \A d \in SubDeps(s), e \in SubDeps(t) : hostPc[d] # "idle" =>
            /\ outcome[e] \in Settled
            /\ t \notin plan.optional => outcome[e] # "failed"
    /\ \A s \in plan.enabled : \A d, e \in SubDeps(s) :
         Rank(d) < Rank(e) /\ hostPc[e] # "idle" =>
            outcome[d] = "success" \/ d \notin plan.sourced

\* A run that ends has given every deployment of its plan an outcome, and a final row: no
\* wave, batch or error path forgets one.  Only one wave may be passed over in silence, that
\* at which RunWaves finds the run cancelled or its time up, and none of its services began.
NothingIsForgotten ==
    LET Forgotten == {d \in Planned : outcome[d] \notin Settled}
    IN  result # "none" =>
          /\ missed = 0 => \A d \in Planned \ Forgotten : row[d] \in Settled
          /\ \A d, e \in Forgotten :
                /\ stopReason = "ctx done" /\ svcPc[plan.service[d]] = "idle"
                /\ plan.order[plan.service[d]] = plan.order[plan.service[e]]

\* A run that ends as success within its time has put the new version on every host it
\* was asked to, and each deployment points at it.
SuccessMeansDeployed ==
    result = "success" /\ ~expired =>
        \A d \in Planned \cap plan.sourced :
            touched[d] /\ (missed = 0 => row[d] = "success" /\ pointer[d])

\* A host whose files or process were replaced while its pointer stays behind is one the
\* run reports as failed, in the row and in its own status.
ChangedHostsAreReported ==
    result # "none" /\ missed = 0 =>
        \A d \in Deps : touched[d] /\ ~pointer[d] => row[d] = "failed" /\ result = "failed"

\* A run all of whose hosts get on with their stages comes to an end, unless the server
\* does first: between them RunWaves, the strategies and their WaitGroups hold nothing up.
OnlyAHostHoldsTheRun ==
    (\A d \in Deps : []<>(hostPc[d] \notin {"connected", "switching"}))
        => <>(main \in {"finished", "dead"})

\* The total timeout of a run and the context of its dials, commands and probes
\* (pipeline_service.go, deployHost) are there to end it: after them it comes to an end.
TimeoutEndsTheRun == expired ~> main \in {"finished", "dead"}
=============================================================================
