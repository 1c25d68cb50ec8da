------------------------- MODULE PipelineRunsProofs -------------------------
(***************************************************************************)
(* Proofs about PipelineRuns for any number of applications, runs,         *)
(* requests, cancellations and crashes.  Everything rests on one inductive *)
(* invariant, IInv: the lock says who may be where, a request and the      *)
(* goroutine it starts agree on the row between them, and a row is still   *)
(* open while somebody is going to close it.                               *)
(***************************************************************************)
EXTENDS PipelineRuns, TLAPS

\* A request past its checks has an application; past the insert it has a row of that
\* application, which no goroutine has yet.
ReqShape ==
    \A q \in Requests :
        /\ reqPc[q] # "idle" => reqApp[q] \in Apps
        /\ reqPc[q] \in Started =>
              /\ reqRun[q] \in Runs
              /\ appOf[reqRun[q]] = reqApp[q]
              /\ exec[reqRun[q]] = "none"
              /\ status[reqRun[q]] \in {"running", "cancelled"}

\* A row that exists has an application; a goroutine has a row, still open while it
\* works, and final (or lost) once it has recorded its verdict.
RunShape ==
    \A r \in Runs :
        /\ status[r] # "none" => appOf[r] \in Apps
        /\ status[r] = "none" => exec[r] = "none"
        /\ exec[r] \in Working => status[r] \in {"running", "cancelled"}
        /\ exec[r] = "recording" => verdict[r] \in Final

\* A cancellation under way has a row that exists.
CancelShape ==
    \A c \in Cancels :
        cancelPc[c] # "idle" =>
            /\ cancelRun[c] \in Runs
            /\ status[cancelRun[c]] # "none"

\* Mutual exclusion, pair by pair.
Exclusion ==
    /\ \A q1, q2 \in Requests :
          ReqOwns(q1) /\ ReqOwns(q2) /\ reqApp[q1] = reqApp[q2] => q1 = q2
    /\ \A r1, r2 \in Runs :
          ExecOwns(r1) /\ ExecOwns(r2) /\ appOf[r1] = appOf[r2] => r1 = r2
    /\ \A q \in Requests, r \in Runs :
          ReqOwns(q) /\ ExecOwns(r) => reqApp[q] # appOf[r]

\* The lock of every owner is held, and every lock held has an owner.
LockOwned ==
    /\ \A q \in Requests : ReqOwns(q) => reqApp[q] \in runningAppIDs
    /\ \A r \in Runs : ExecOwns(r) => appOf[r] \in runningAppIDs
    /\ \A a \in runningAppIDs :
          \/ \E q \in Requests : ReqOwns(q) /\ reqApp[q] = a
          \/ \E r \in Runs : ExecOwns(r) /\ appOf[r] = a

\* A cancel function belongs to a request that registered it or to a goroutine that has
\* not unregistered it, and a goroutine at work has one.
Registered ==
    /\ \A q \in Requests : reqPc[q] = "registered" => reqRun[q] \in cancelFns
    /\ \A r \in Runs :
        /\ exec[r] \in Working => r \in cancelFns
        /\ r \in cancelFns => Starting(r) \/ exec[r] \in Working \cup {"unregistering"}

IInv ==
    /\ TypeOK
    /\ ReqShape
    /\ RunShape
    /\ CancelShape
    /\ Exclusion
    /\ LockOwned
    /\ Registered
    /\ RunningRowsHaveCloser

-----------------------------------------------------------------------------

\* Every variable keeps its type, given what IInv says of the requests, the rows and
\* the cancellations that index them.
LEMMA TypeStep ==
    TypeOK /\ ReqShape /\ RunShape /\ CancelShape /\ [Next]_vars => TypeOK'
<1> SUFFICES ASSUME TypeOK, ReqShape, RunShape, CancelShape, [Next]_vars
             PROVE  TypeOK'
    OBVIOUS
<1> USE DEF TypeOK, Statuses, Final, ExecPcs, Working, Leaving, Started, ReqPcs, CancelPcs
<1>1. ASSUME NEW q \in Requests, ReqNext(q) PROVE TypeOK'
  <2>1. CASE AcquireLock(q)
    BY <2>1 DEF AcquireLock, ReqShape, rowVars, execVars, cancelVars
  <2>2. CASE RejectBusy(q)
    BY <2>2 DEF RejectBusy, Answer, memVars, rowVars, execVars, cancelVars
  <2>3. CASE GiveUp(q)
    BY <2>3 DEF GiveUp, Answer, releaseLock, rowVars, execVars, cancelVars
  <2>4. CASE RegisterCancel(q)
    BY <2>4 DEF RegisterCancel, registerCancel, ReqShape, rowVars, execVars, cancelVars
  <2>5. CASE Spawn(q)
    BY <2>5 DEF Spawn, Answer, memVars, rowVars, cancelVars
  <2>6. ASSUME NEW r \in Runs, CreateRun(q, r) PROVE TypeOK'
    BY <2>6 DEF CreateRun, memVars, execVars, cancelVars
  <2> QED BY <1>1, <2>1, <2>2, <2>3, <2>4, <2>5, <2>6 DEF ReqNext
<1>2. ASSUME NEW q \in Requests, NEW a \in Apps, Begin(q, a) PROVE TypeOK'
  BY <1>2 DEF Begin, memVars, rowVars, execVars, cancelVars
<1>3. ASSUME NEW r \in Runs, ExecNext(r) PROVE TypeOK'
  <2> USE DEF ExecStep, reqVars, cancelVars
  <2>1. CASE LoadServices(r) \/ LoadServicesFails(r)
    BY <2>1 DEF LoadServices, LoadServicesFails, memVars
  <2>2. CASE RunStrategy(r)
    BY <2>2 DEF RunStrategy, AggregateStatus, memVars
  <2>3. CASE FinishRun(r) \/ FinishRunFails(r)
    BY <2>3 DEF FinishRun, FinishRunFails, finishRun, memVars
  <2>4. CASE UnregisterCancel(r) \/ ReleaseLock(r)
    BY <2>4 DEF UnregisterCancel, unregisterCancel, ReleaseLock, releaseLock
  <2> QED BY <1>3, <2>1, <2>2, <2>3, <2>4 DEF ExecNext
<1>4. ASSUME NEW c \in Cancels, CancelNext(c) PROVE TypeOK'
  <2> USE DEF CancelDone, memVars, reqVars, execVars
  <2>1. CASE CancelLookup(c)
    BY <2>1 DEF CancelLookup, rowVars
  <2>2. CASE CancelCtx(c)
    BY <2>2 DEF CancelCtx
  <2>3. CASE CancelOrphan(c)
    BY <2>3 DEF CancelOrphan, markCancelledOrphan
  <2> QED BY <1>4, <2>1, <2>2, <2>3 DEF CancelNext
<1>5. ASSUME NEW c \in Cancels, NEW r \in Runs, CancelRead(c, r) PROVE TypeOK'
  BY <1>5 DEF CancelRead, memVars, rowVars, reqVars, execVars
<1>6. CASE Crash
  BY <1>6, ModelValues DEF Crash, rowVars
<1>7. CASE UNCHANGED vars
  BY <1>7 DEF vars, memVars, rowVars, reqVars, execVars, cancelVars
<1> QED BY <1>1, <1>2, <1>3, <1>4, <1>5, <1>6, <1>7 DEF Next

-----------------------------------------------------------------------------

\* A step of a start request preserves the rest of the invariant.
LEMMA RequestStep ==
    ASSUME IInv, TypeOK', NEW q \in Requests, ReqNext(q)
    PROVE  IInv'
<1> USE DEF IInv, Statuses, Final, Started, Working, Leaving, ReqOwns, ExecOwns, Starting
<1>1. CASE AcquireLock(q)
  <2> USE <1>1 DEF AcquireLock, Busy, rowVars, execVars, cancelVars
  <2>1. ReqShape' /\ RunShape' /\ CancelShape'
    BY DEF ReqShape, RunShape, CancelShape
  <2>2. Exclusion' /\ LockOwned'
    BY DEF TypeOK, Exclusion, LockOwned
  <2>3. Registered' /\ RunningRowsHaveCloser'
    BY DEF Registered, RunningRowsHaveCloser
  <2> QED BY <2>1, <2>2, <2>3
<1>2. CASE RejectBusy(q)
  <2> USE <1>2 DEF RejectBusy, Answer, memVars, rowVars, execVars, cancelVars
  <2>1. ReqShape' /\ RunShape' /\ CancelShape'
    BY DEF TypeOK, ReqShape, RunShape, CancelShape
  <2>2. Exclusion' /\ LockOwned'
    BY DEF Exclusion, LockOwned
  <2>3. Registered' /\ RunningRowsHaveCloser'
    BY DEF Registered, RunningRowsHaveCloser
  <2> QED BY <2>1, <2>2, <2>3
<1>3. CASE GiveUp(q)
  <2> USE <1>3 DEF GiveUp, Answer, releaseLock, rowVars, execVars, cancelVars
  <2>1. ReqShape' /\ RunShape' /\ CancelShape'
    BY DEF TypeOK, ReqShape, RunShape, CancelShape
  <2>2. Exclusion' /\ LockOwned'
    BY DEF TypeOK, Exclusion, LockOwned
  <2>3. Registered' /\ RunningRowsHaveCloser'
    BY DEF Registered, RunningRowsHaveCloser
  <2> QED BY <2>1, <2>2, <2>3
<1>4. CASE RegisterCancel(q)
  <2> USE <1>4 DEF RegisterCancel, registerCancel, rowVars, execVars, cancelVars
  <2>1. ReqShape' /\ RunShape' /\ CancelShape'
    BY DEF ReqShape, RunShape, CancelShape
  <2>2. Exclusion' /\ LockOwned'
    BY DEF Exclusion, LockOwned
  <2>3. Registered' /\ RunningRowsHaveCloser'
    BY DEF Registered, RunningRowsHaveCloser
  <2> QED BY <2>1, <2>2, <2>3
<1>5. CASE Spawn(q)
  <2> USE <1>5 DEF Spawn, Answer, memVars, rowVars, cancelVars
  <2>1. ReqShape' /\ RunShape' /\ CancelShape'
    BY DEF TypeOK, ReqShape, RunShape, CancelShape, Exclusion
  <2>2. Exclusion' /\ LockOwned'
    BY DEF TypeOK, ReqShape, Exclusion, LockOwned
  <2>3. Registered' /\ RunningRowsHaveCloser'
    BY DEF TypeOK, Registered, RunningRowsHaveCloser
  <2> QED BY <2>1, <2>2, <2>3
<1>6. ASSUME NEW r \in Runs, CreateRun(q, r) PROVE IInv'
  <2> USE <1>6 DEF CreateRun, memVars, execVars, cancelVars
  <2>1. ReqShape' /\ RunShape' /\ CancelShape'
    BY DEF TypeOK, ReqShape, RunShape, CancelShape
  <2>2. Exclusion' /\ LockOwned'
    BY DEF RunShape, Exclusion, LockOwned
  <2>3. Registered' /\ RunningRowsHaveCloser'
    BY DEF TypeOK, Registered, RunningRowsHaveCloser
  <2> QED BY <2>1, <2>2, <2>3
<1> QED BY <1>1, <1>2, <1>3, <1>4, <1>5, <1>6 DEF ReqNext

\* A step of the goroutine of a run preserves it.
LEMMA ExecutorStep ==
    ASSUME IInv, TypeOK', NEW r \in Runs, ExecNext(r)
    PROVE  IInv'
<1> USE DEF IInv, Statuses, Final, Started, Working, Leaving, ReqOwns, ExecOwns, Starting
<1> USE DEF ExecStep, reqVars, cancelVars
<1>1. CASE LoadServices(r)
  <2> USE <1>1 DEF LoadServices, memVars
  <2>1. ReqShape' /\ RunShape' /\ CancelShape'
    BY DEF ReqShape, RunShape, CancelShape
  <2>2. Exclusion' /\ LockOwned'
    BY DEF Exclusion, LockOwned
  <2>3. Registered' /\ RunningRowsHaveCloser'
    BY DEF Registered, RunningRowsHaveCloser
  <2> QED BY <2>1, <2>2, <2>3
<1>2. CASE LoadServicesFails(r)
  <2> USE <1>2 DEF LoadServicesFails, memVars
  <2>1. ReqShape' /\ RunShape' /\ CancelShape'
    BY DEF TypeOK, ReqShape, RunShape, CancelShape
  <2>2. Exclusion' /\ LockOwned'
    BY DEF Exclusion, LockOwned
  <2>3. Registered' /\ RunningRowsHaveCloser'
    BY DEF Registered, RunningRowsHaveCloser
  <2> QED BY <2>1, <2>2, <2>3
<1>3. CASE RunStrategy(r)
  <2> USE <1>3 DEF RunStrategy, AggregateStatus, memVars
  <2>1. ReqShape' /\ RunShape' /\ CancelShape'
    BY DEF TypeOK, ReqShape, RunShape, CancelShape
  <2>2. Exclusion' /\ LockOwned'
    BY DEF Exclusion, LockOwned
  <2>3. Registered' /\ RunningRowsHaveCloser'
    BY DEF Registered, RunningRowsHaveCloser
  <2> QED BY <2>1, <2>2, <2>3
<1>4. CASE FinishRun(r)
  <2> USE <1>4 DEF FinishRun, finishRun, memVars
  <2>1. ReqShape' /\ RunShape' /\ CancelShape'
    BY DEF TypeOK, ReqShape, RunShape, CancelShape
  <2>2. Exclusion' /\ LockOwned'
    BY DEF Exclusion, LockOwned
  <2>3. Registered' /\ RunningRowsHaveCloser'
    BY DEF TypeOK, Registered, RunningRowsHaveCloser
  <2> QED BY <2>1, <2>2, <2>3
<1>5. CASE FinishRunFails(r)
  <2> USE <1>5 DEF FinishRunFails, memVars
  <2>1. ReqShape' /\ RunShape' /\ CancelShape'
    BY DEF ReqShape, RunShape, CancelShape
  <2>2. Exclusion' /\ LockOwned'
    BY DEF Exclusion, LockOwned
  <2>3. Registered' /\ RunningRowsHaveCloser'
    BY DEF Registered, RunningRowsHaveCloser
  <2> QED BY <2>1, <2>2, <2>3
<1>6. CASE UnregisterCancel(r)
  <2> USE <1>6 DEF UnregisterCancel, unregisterCancel
  <2>1. ReqShape' /\ RunShape' /\ CancelShape'
    BY DEF ReqShape, RunShape, CancelShape
  <2>2. Exclusion' /\ LockOwned'
    BY DEF Exclusion, LockOwned
  <2>3. Registered' /\ RunningRowsHaveCloser'
    BY DEF ReqShape, Registered, RunningRowsHaveCloser
  <2> QED BY <2>1, <2>2, <2>3
<1>7. CASE ReleaseLock(r)
  <2> USE <1>7 DEF ReleaseLock, releaseLock
  <2>1. ReqShape' /\ RunShape' /\ CancelShape'
    BY DEF ReqShape, RunShape, CancelShape
  <2>2. Exclusion' /\ LockOwned'
    BY DEF TypeOK, Exclusion, LockOwned
  <2>3. Registered' /\ RunningRowsHaveCloser'
    BY DEF TypeOK, ReqShape, RunShape, Exclusion, Registered, RunningRowsHaveCloser
  <2> QED BY <2>1, <2>2, <2>3
<1> QED BY <1>1, <1>2, <1>3, <1>4, <1>5, <1>6, <1>7 DEF ExecNext

\* A step of a cancellation preserves it.
LEMMA CancelStep ==
    ASSUME IInv, TypeOK', NEW c \in Cancels, CancelNext(c)
    PROVE  IInv'
<1> USE DEF IInv, Statuses, Final, Started, Working, Leaving, ReqOwns, ExecOwns, Starting
<1> USE DEF CancelDone, memVars, reqVars, execVars
<1>1. CASE CancelLookup(c)
  <2> USE <1>1 DEF CancelLookup, rowVars
  <2>1. ReqShape' /\ RunShape' /\ CancelShape'
    BY DEF ReqShape, RunShape, CancelShape
  <2>2. Exclusion' /\ LockOwned'
    BY DEF Exclusion, LockOwned
  <2>3. Registered' /\ RunningRowsHaveCloser'
    BY DEF Registered, RunningRowsHaveCloser
  <2> QED BY <2>1, <2>2, <2>3
<1>2. CASE CancelCtx(c)
  <2> USE <1>2 DEF CancelCtx
  <2>1. ReqShape' /\ RunShape' /\ CancelShape'
    BY DEF TypeOK, ReqShape, RunShape, CancelShape
  <2>2. Exclusion' /\ LockOwned'
    BY DEF Exclusion, LockOwned
  <2>3. Registered' /\ RunningRowsHaveCloser'
    BY DEF Registered, RunningRowsHaveCloser
  <2> QED BY <2>1, <2>2, <2>3
<1>3. CASE CancelOrphan(c)
  <2> USE <1>3 DEF CancelOrphan, markCancelledOrphan
  <2>1. ReqShape' /\ RunShape' /\ CancelShape'
    BY DEF TypeOK, ReqShape, RunShape, CancelShape
  <2>2. Exclusion' /\ LockOwned'
    BY DEF Exclusion, LockOwned
  <2>3. Registered' /\ RunningRowsHaveCloser'
    BY DEF Registered, RunningRowsHaveCloser
  <2> QED BY <2>1, <2>2, <2>3
<1> QED BY <1>1, <1>2, <1>3 DEF CancelNext

\* The arrival of a request, a crash and a stuttering step preserve it.
LEMMA OtherStep ==
    ASSUME IInv, TypeOK',
           \/ \E q \in Requests, a \in Apps : Begin(q, a)
           \/ \E c \in Cancels, r \in Runs : CancelRead(c, r)
           \/ Crash
           \/ UNCHANGED vars
    PROVE  IInv'
<1> USE DEF IInv, Statuses, Final, Started, Working, Leaving, ReqOwns, ExecOwns, Starting
<1>1. ASSUME NEW q \in Requests, NEW a \in Apps, Begin(q, a) PROVE IInv'
  <2> USE <1>1 DEF Begin, memVars, rowVars, execVars, cancelVars
  <2>1. ReqShape' /\ RunShape' /\ CancelShape'
    BY DEF TypeOK, ReqShape, RunShape, CancelShape
  <2>2. Exclusion' /\ LockOwned'
    BY DEF Exclusion, LockOwned
  <2>3. Registered' /\ RunningRowsHaveCloser'
    BY DEF Registered, RunningRowsHaveCloser
  <2> QED BY <2>1, <2>2, <2>3
<1>2. ASSUME NEW c \in Cancels, NEW r \in Runs, CancelRead(c, r) PROVE IInv'
  <2> USE <1>2 DEF CancelRead, memVars, rowVars, reqVars, execVars
  <2>1. ReqShape' /\ RunShape' /\ CancelShape'
    BY DEF TypeOK, ReqShape, RunShape, CancelShape
  <2>2. Exclusion' /\ LockOwned'
    BY DEF Exclusion, LockOwned
  <2>3. Registered' /\ RunningRowsHaveCloser'
    BY DEF Registered, RunningRowsHaveCloser
  <2> QED BY <2>1, <2>2, <2>3
<1>3. CASE Crash
  <2> USE <1>3 DEF Crash, rowVars
  <2>1. ReqShape' /\ RunShape' /\ CancelShape'
    BY DEF ReqShape, RunShape, CancelShape
  <2>2. Exclusion' /\ LockOwned'
    BY DEF Exclusion, LockOwned
  <2>3. Registered' /\ RunningRowsHaveCloser'
    BY DEF Registered, RunningRowsHaveCloser
  <2> QED BY <2>1, <2>2, <2>3
<1>4. CASE UNCHANGED vars
  <2> USE <1>4 DEF vars, memVars, rowVars, reqVars, execVars, cancelVars
  <2>1. ReqShape' /\ RunShape' /\ CancelShape'
    BY DEF ReqShape, RunShape, CancelShape
  <2>2. Exclusion' /\ LockOwned'
    BY DEF TypeOK, ReqShape, RunShape, Exclusion, LockOwned
  <2>3. Registered' /\ RunningRowsHaveCloser'
    BY DEF Registered, RunningRowsHaveCloser
  <2> QED BY <2>1, <2>2, <2>3
<1> QED BY <1>1, <1>2, <1>3, <1>4

-----------------------------------------------------------------------------

LEMMA InitIInv == Init => IInv
  BY ModelValues
     DEF Init, IInv, TypeOK, ReqShape, RunShape, CancelShape, Exclusion, LockOwned, Registered,
         RunningRowsHaveCloser, Statuses, Final, ExecPcs, Working, Leaving, Started, ReqPcs,
         CancelPcs, ReqOwns, ExecOwns, Starting

LEMMA NextIInv == IInv /\ [Next]_vars => IInv'
<1> SUFFICES ASSUME IInv, [Next]_vars PROVE IInv'
    OBVIOUS
<1>1. TypeOK'
  BY TypeStep DEF IInv
<1> QED BY <1>1, RequestStep, ExecutorStep, CancelStep, OtherStep DEF Next

\* IInv is an invariant of the specification.
THEOREM Invariance == Spec => []IInv
  BY InitIInv, NextIInv, PTL DEF Spec

\* Type correctness.
THEOREM TypeCorrect == Spec => []TypeOK
<1>1. IInv => TypeOK
  BY DEF IInv
<1> QED BY <1>1, Invariance, PTL

\* No two requests or goroutines are past the lock of one application together.
THEOREM MutualExclusionHolds == Spec => []MutualExclusion
<1>1. IInv => MutualExclusion
  BY DEF IInv, Exclusion, MutualExclusion, Owners
<1> QED BY <1>1, Invariance, PTL

\* The lock of an application is held exactly while it has an owner.
THEOREM LockMatchesOwnersHolds == Spec => []LockMatchesOwners
<1>1. IInv => LockMatchesOwners
  BY DEF IInv, TypeOK, ReqShape, RunShape, LockOwned, LockMatchesOwners, Owners
<1> QED BY <1>1, Invariance, PTL

\* A running row has a closer, or its closer was lost in a crash or a failed update.
THEOREM RunningRowsHaveCloserHolds == Spec => []RunningRowsHaveCloser
<1>1. IInv => RunningRowsHaveCloser
  BY DEF IInv
<1> QED BY <1>1, Invariance, PTL

\* Cancel finds a run's cancel function for as long as its goroutine is at work.
THEOREM CancelFnsMatchRunsHolds == Spec => []CancelFnsMatchRuns
<1>1. IInv => CancelFnsMatchRuns
  BY DEF IInv, Registered, CancelFnsMatchRuns
<1> QED BY <1>1, Invariance, PTL

-----------------------------------------------------------------------------
\* While a row says success or failed no goroutine works on it and no request is starting
\* it, and an orphan's cancellation touches running rows only.
LEMMA FinalRowsKept ==
    ASSUME IInv, [Next]_vars, NEW r \in Runs, status[r] \in {"success", "failed"}
    PROVE  status'[r] = status[r]
<1> USE DEF IInv, TypeOK, Final
<1>1. ASSUME NEW q \in Requests, ReqNext(q) PROVE status'[r] = status[r]
  BY <1>1 DEF ReqNext, AcquireLock, RejectBusy, GiveUp, RegisterCancel, Spawn, CreateRun, rowVars
<1>2. ASSUME NEW s \in Runs, ExecNext(s) PROVE status'[r] = status[r]
  <2>1. CASE FinishRun(s)
    <3>1. status[s] \in {"running", "cancelled"}
      BY <2>1 DEF FinishRun, ExecStep, RunShape, Working
    <3> QED BY <2>1, <3>1 DEF FinishRun, finishRun
  <2>2. CASE ~FinishRun(s)
    BY <1>2, <2>2 DEF ExecNext, LoadServices, LoadServicesFails, RunStrategy, FinishRunFails,
                      UnregisterCancel, ReleaseLock
  <2> QED BY <2>1, <2>2
<1>3. ASSUME NEW c \in Cancels, CancelNext(c) PROVE status'[r] = status[r]
  BY <1>3 DEF CancelNext, CancelLookup, CancelCtx, CancelOrphan, markCancelledOrphan, CancelShape,
              rowVars
<1>4. CASE \/ \E q \in Requests, a \in Apps : Begin(q, a)
           \/ \E c \in Cancels, s \in Runs : CancelRead(c, s)
           \/ Crash
           \/ UNCHANGED vars
  BY <1>4 DEF Begin, CancelRead, Crash, vars, rowVars
<1> QED BY <1>1, <1>2, <1>3, <1>4 DEF Next

\* A row that says success or failed never changes again.
THEOREM SuccessAndFailureAreFinalHolds == Spec => SuccessAndFailureAreFinal
<1>1. IInv /\ [Next]_vars
        => [\A r \in Runs : status[r] \in {"success", "failed"} => status'[r] = status[r]]_vars
  BY FinalRowsKept
<1> QED BY <1>1, Invariance, PTL DEF Spec, SuccessAndFailureAreFinal

-----------------------------------------------------------------------------

\* Nobody has a row of an application whose lock a request has just taken.
LEMMA LockedMeansFree ==
    ASSUME IInv, NEW q \in Requests, reqPc[q] = "locked"
    PROVE  HolderBar[reqApp[q]] = {}
<1>1. reqApp[q] \in Apps
  BY DEF IInv, ReqShape
<1>2. ASSUME NEW r \in Runs, appOf[r] = reqApp[q] PROVE ~Live(r)
  <2>1. ~ExecOwns(r)
    BY <1>2 DEF IInv, Exclusion, ReqOwns
  <2>2. ~Starting(r)
    BY <1>2 DEF IInv, Exclusion, ReqShape, ReqOwns, Starting, Started
  <2> QED BY <2>1, <2>2 DEF Live
<1> QED BY <1>1, <1>2 DEF HolderBar

\* A goroutine that holds a run is the only holder of its application.
LEMMA SoleHolder ==
    ASSUME IInv, NEW r \in Runs, ExecOwns(r)
    PROVE  appOf[r] \in Apps /\ HolderBar[appOf[r]] = {r}
<1>1. appOf[r] \in Apps
  BY DEF IInv, RunShape, ExecOwns, Working, Leaving
<1>2. ASSUME NEW s \in Runs, Live(s), appOf[s] = appOf[r] PROVE s = r
  <2>1. CASE ExecOwns(s)
    BY <1>2, <2>1 DEF IInv, Exclusion
  <2>2. CASE Starting(s)
    BY <1>2, <2>2 DEF IInv, Exclusion, ReqShape, ReqOwns, Starting, Started
  <2> QED BY <1>2, <2>1, <2>2 DEF Live
<1> QED BY <1>1, <1>2 DEF HolderBar, Live

\* Every step is a step of ExclusiveRuns or leaves its variables alone.
LEMMA StepRefines ==
    IInv /\ [Next]_vars => [Exclusive!AbsNext]_(Exclusive!absVars)
<1> SUFFICES ASSUME IInv, [Next]_vars
             PROVE  Exclusive!AbsNext \/ (HolderBar' = HolderBar /\ RecordBar' = RecordBar)
    BY DEF Exclusive!absVars
<1> DEFINE Stutters == HolderBar' = HolderBar /\ RecordBar' = RecordBar
<1> USE DEF IInv, TypeOK
<1>1. ASSUME NEW q \in Requests, ReqNext(q) PROVE Exclusive!AbsNext \/ Stutters
  <2>1. CASE AcquireLock(q) \/ RejectBusy(q) \/ GiveUp(q) \/ RegisterCancel(q)
    <3>1. \A r \in Runs : Starting(r)' <=> Starting(r)
      BY <2>1 DEF AcquireLock, RejectBusy, GiveUp, RegisterCancel, Answer, Starting, Started
    <3>2. UNCHANGED <<status, appOf, exec>>
      BY <2>1 DEF AcquireLock, RejectBusy, GiveUp, RegisterCancel, rowVars, execVars
    <3> QED BY <3>1, <3>2 DEF HolderBar, RecordBar, Live, ExecOwns
  <2>2. CASE Spawn(q)
    <3>1. \A r \in Runs : Live(r)' <=> Live(r)
      BY <2>2 DEF Spawn, Answer, ReqShape, Live, Starting, ExecOwns, Started, Working, Leaving
    <3> QED BY <2>2, <3>1 DEF Spawn, rowVars, HolderBar, RecordBar
  <2>3. ASSUME NEW r \in Runs, CreateRun(q, r) PROVE Exclusive!Start(reqApp[q], r)
    <3>1. HolderBar[reqApp[q]] = {}
      BY <2>3, LockedMeansFree DEF CreateRun
    <3>2. ~Live(r) /\ status[r] = "none"
      BY <2>3 DEF CreateRun, ReqShape, RunShape, Live, Starting, ExecOwns, Working, Leaving
    <3>3. \A s \in Runs : Live(s)' <=> (Live(s) \/ s = r)
      BY <2>3 DEF CreateRun, execVars, Live, Starting, Started, ExecOwns
    <3>4. \A s \in Runs : s # r => appOf'[s] = appOf[s]
      BY <2>3 DEF CreateRun
    <3>5. appOf'[r] = reqApp[q] /\ reqApp[q] \in Apps
      BY <2>3 DEF CreateRun, ReqShape
    <3>6. HolderBar' = [HolderBar EXCEPT ![reqApp[q]] = {r}]
      <4>1. \A s \in Runs : appOf[s] = reqApp[q] => ~Live(s)
        BY <3>1, <3>5 DEF HolderBar
      <4>2. \A a \in Apps :
               {s \in Runs : appOf'[s] = a /\ Live(s)'}
                 = IF a = reqApp[q] THEN {r} ELSE {s \in Runs : appOf[s] = a /\ Live(s)}
        BY <3>2, <3>3, <3>4, <3>5, <4>1
      <4> QED BY <3>5, <4>2 DEF HolderBar
    <3>7. RecordBar[r] = "none" /\ RecordBar' = [RecordBar EXCEPT ![r] = "running"]
      BY <2>3 DEF CreateRun, RecordBar, Final
    <3> QED BY <3>1, <3>6, <3>7 DEF Exclusive!Start
  <2> QED
    BY <1>1, <2>1, <2>2, <2>3 DEF ReqNext, ReqShape, CreateRun, Exclusive!AbsNext
<1>2. ASSUME NEW r \in Runs, ExecNext(r) PROVE Exclusive!AbsNext \/ Stutters
  <2>1. CASE ReleaseLock(r)
    <3>1. appOf[r] \in Apps /\ HolderBar[appOf[r]] = {r}
      BY <2>1, SoleHolder DEF ReleaseLock, ExecStep, ExecOwns, Leaving
    <3>2. \A s \in Runs : Live(s)' <=> (Live(s) /\ s # r)
      BY <2>1 DEF ReleaseLock, ExecStep, ReqShape, reqVars, Live, Starting, ExecOwns, Working, Leaving
    <3>3. HolderBar' = [HolderBar EXCEPT ![appOf[r]] = {}]
      <4>1. appOf' = appOf
        BY <2>1 DEF ReleaseLock, ExecStep
      <4>2. \A s \in Runs : appOf[s] = appOf[r] /\ Live(s) => s = r
        BY <3>1 DEF HolderBar
      <4>3. \A a \in Apps :
               {s \in Runs : appOf'[s] = a /\ Live(s)'}
                 = IF a = appOf[r] THEN {} ELSE {s \in Runs : appOf[s] = a /\ Live(s)}
        BY <3>2, <4>1, <4>2
      <4> QED BY <3>1, <4>3 DEF HolderBar
    <3> QED
      BY <2>1, <3>1, <3>3 DEF ReleaseLock, RecordBar, Exclusive!AbsNext, Exclusive!LetGo
  <2>2. CASE ~ReleaseLock(r)
    <3>1. HolderBar' = HolderBar
      BY <1>2, <2>2 DEF ExecNext, LoadServices, LoadServicesFails, RunStrategy, FinishRun,
             FinishRunFails, UnregisterCancel, ExecStep, reqVars, HolderBar, Live, Starting,
             ExecOwns, Working, Leaving
    <3>2. CASE FinishRun(r)
      <4>1. status[r] \in {"running", "cancelled"} /\ verdict[r] \in Final
        BY <3>2 DEF FinishRun, ExecStep, RunShape, Working
      <4>2. RecordBar' = [RecordBar EXCEPT ![r] = "ended"]
        BY <3>2, <4>1 DEF FinishRun, finishRun, RecordBar
      <4>3. CASE status[r] = "running"
        BY <3>1, <4>2, <4>3 DEF RecordBar, Final, Exclusive!AbsNext, Exclusive!End
      <4>4. CASE status[r] = "cancelled"
        BY <3>1, <4>2, <4>4 DEF RecordBar, Final
      <4> QED BY <4>1, <4>3, <4>4
    <3>3. CASE ~FinishRun(r)
      BY <1>2, <2>2, <3>1, <3>3 DEF ExecNext, LoadServices, LoadServicesFails, RunStrategy,
             FinishRunFails, UnregisterCancel, RecordBar
    <3> QED BY <3>2, <3>3
  <2> QED BY <2>1, <2>2
<1>3. ASSUME NEW c \in Cancels, CancelNext(c) PROVE Exclusive!AbsNext \/ Stutters
  <2>1. HolderBar' = HolderBar
    BY <1>3 DEF CancelNext, CancelLookup, CancelCtx, CancelOrphan, CancelDone, rowVars, reqVars,
                execVars, HolderBar, Live, Starting, ExecOwns
  <2>2. CASE UNCHANGED status
    BY <2>1, <2>2 DEF RecordBar
  <2>3. CASE status' # status
    <3>1. CancelOrphan(c) /\ cancelRun[c] \in Runs /\ status[cancelRun[c]] = "running"
      BY <1>3, <2>3 DEF CancelNext, CancelLookup, CancelCtx, CancelOrphan, markCancelledOrphan,
                        CancelShape, rowVars
    <3>2. RecordBar' = [RecordBar EXCEPT ![cancelRun[c]] = "ended"]
      BY <3>1 DEF CancelOrphan, markCancelledOrphan, RecordBar, Final
    <3> QED BY <2>1, <3>1, <3>2 DEF RecordBar, Final, Exclusive!AbsNext, Exclusive!End
  <2> QED BY <2>2, <2>3
<1>4. ASSUME NEW q \in Requests, NEW a \in Apps, Begin(q, a) PROVE Stutters
  BY <1>4 DEF Begin, rowVars, execVars, HolderBar, RecordBar, Live, Starting, Started, ExecOwns
<1>5. ASSUME NEW c \in Cancels, NEW r \in Runs, CancelRead(c, r) PROVE Stutters
  BY <1>5 DEF CancelRead, rowVars, reqVars, execVars, HolderBar, RecordBar, Live, Starting, ExecOwns
<1>6. CASE Crash
  <2>1. \A r \in Runs : ~Live(r)'
    BY <1>6 DEF Crash, Live, Starting, Started, ExecOwns, Working, Leaving
  <2> QED BY <1>6, <2>1 DEF Crash, rowVars, HolderBar, RecordBar, Exclusive!AbsNext, Exclusive!LoseAll
<1>7. CASE UNCHANGED vars
  BY <1>7 DEF vars, rowVars, reqVars, execVars, HolderBar, RecordBar, Live, Starting, ExecOwns
<1> QED BY <1>1, <1>2, <1>3, <1>4, <1>5, <1>6, <1>7 DEF Next

\* Seen from outside, runs of an application are exclusive, open once and end once.
THEOREM ImplementsExclusiveRunsHolds == Spec => ImplementsExclusiveRuns
<1>1. Init => Exclusive!AbsInit
  BY DEF Init, Exclusive!AbsInit, HolderBar, RecordBar, Live, Starting, Started, ExecOwns,
         Working, Leaving, Final
<1> QED
  BY <1>1, StepRefines, Invariance, PTL DEF Spec, ImplementsExclusiveRuns, Exclusive!AbsSpec
=============================================================================
