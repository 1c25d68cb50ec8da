------------------------------ MODULE RunStream ------------------------------
(***************************************************************************)
(* How a run is watched live: the goroutines of its hosts record their     *)
(* steps in the row of the run and publish them (appendSnapshotStep and    *)
(* publishStep in internal/service/pipeline_service.go), the hub copies a  *)
(* frame to the channel of every subscription (internal/pkg/ws/hub.go),    *)
(* and the handler of each WebSocket connection sends a snapshot and then  *)
(* passes on what it receives (internal/api/handler/ws_pipeline.go) through *)
(* the queue of the connection (internal/pkg/ws/upgrader.go).              *)
(*                                                                         *)
(* The steps of a run are numbered per host.  Their order is that of their *)
(* numbers, so rows, frames and screens are sets of steps.                 *)
(***************************************************************************)
EXTENDS Naturals, Sequences, FiniteSets

CONSTANTS
    Hosts,      \* the hosts of the run, a goroutine each
    Conns,      \* WebSocket connections to the run
    Exec,       \* the goroutine of execute
    Trigger,    \* the request that started the run
    Stages,     \* how many steps a host reports
    QueueSize,  \* capacity of a subscription's channel, and of a connection's queue
    MaxFaults   \* bound on the database calls that fail

ASSUME RunStreamAssumption ==
    /\ Exec \notin Hosts /\ Trigger \notin Hosts \cup {Exec}
    /\ Stages \in Nat \ {0} /\ QueueSize \in Nat \ {0} /\ MaxFaults \in Nat

Publishers == Hosts \cup {Exec, Trigger}
AllSteps == Hosts \X (1..Stages)

VARIABLES
    steps,     \* database: the steps in pipeline_runs.state_snapshot
    status,    \* database: pipeline_runs.status
    writer,    \* memory: who holds s.mu in appendSnapshotStep
    pc,        \* where each publisher is
    done,      \* how many steps each host has reported
    buffer,    \* the snapshot each host has read and is about to write back
    frame,     \* the frame each publisher is sending
    to,        \* the connections it still has to send it to
    subs,      \* memory: the subscriptions of the topic
    chan,      \* the channel of each subscription
    handler,   \* where the handler of each connection is
    forwarder, \* where its forwarding goroutine is
    queue,     \* the send queue of each connection
    screen,    \* what the browser shows
    dropped,   \* history: connections a frame was dropped for
    late,      \* history: running was announced after the end of the run
    faults,    \* number of database calls that failed
    alive      \* the process has not panicked

rowVars  == <<steps, status>>
pubVars  == <<writer, pc, done, buffer, frame, to>>
connVars == <<handler, forwarder, queue, screen>>
history  == <<dropped, late>>
vars == <<rowVars, pubVars, subs, chan, connVars, history, faults, alive>>

NoFrame == [kind |-> "none", steps |-> {}, status |-> "none"]
StepFrame(s) == [kind |-> "step", steps |-> {s}, status |-> "none"]
StatusFrame(st) == [kind |-> "status", steps |-> {}, status |-> st]
SnapshotFrame == [kind |-> "snapshot", steps |-> steps, status |-> status]

Init ==
    /\ steps = {} /\ status = "running"
    /\ writer = {}
    /\ pc = [p \in Publishers |-> "idle"]
    /\ done = [h \in Hosts |-> 0]
    /\ buffer = [h \in Hosts |-> {}]
    /\ frame = [p \in Publishers |-> NoFrame]
    /\ to = [p \in Publishers |-> {}]
    /\ subs = {}
    /\ chan = [c \in Conns |-> <<>>]
    /\ handler = [c \in Conns |-> "none"]
    /\ forwarder = [c \in Conns |-> "none"]
    /\ queue = [c \in Conns |-> <<>>]
    /\ screen = [c \in Conns |-> [steps |-> {}, status |-> "none"]]
    /\ dropped = {} /\ late = FALSE
    /\ faults = 0
    /\ alive = TRUE

-----------------------------------------------------------------------------
(* Helpers, each after the slips that the properties must catch.            *)

NobodyWaits(h) == TRUE
MayLock(h) == writer = {}

\* The goroutines that hold s.mu once h has returned from appendSnapshotStep.
StillLocked(h) == writer
Unlocked(h) == writer \ {h}

\* The row that appendSnapshotStep writes back.
NotAppended(h) == buffer[h]
Appended(h) == buffer[h] \cup {<<h, done[h] + 1>>}

\* The browser: a snapshot replaces what is shown, a step is appended, a status replaces.
Show(view, f) ==
    [steps  |-> IF f.kind = "snapshot" THEN f.steps ELSE view.steps \cup f.steps,
     status |-> IF f.kind = "step" THEN view.status ELSE f.status]

\* Non-blocking sends: a frame that finds the queue full is dropped.
Unbounded(q, f) == Append(q, f)
Push(q, f) == IF Len(q) < QueueSize THEN Append(q, f) ELSE q
DropsFrom(q, c) == IF Len(q) < QueueSize THEN dropped ELSE dropped \cup {c}

-----------------------------------------------------------------------------
(* The run: OnStep for each host, finishRun and publishStatus               *)

PubStep(p, from, next) ==
    /\ alive /\ pc[p] = from
    /\ pc' = [pc EXCEPT ![p] = next]
    /\ UNCHANGED <<subs, chan, connVars, dropped, alive>>

\* appendSnapshotStep reads the row under s.mu ...
ReadSnapshot(h) ==
    /\ done[h] < Stages /\ MayLock(h)
    /\ PubStep(h, "idle", "writing")
    /\ writer' = writer \cup {h}
    /\ buffer' = [buffer EXCEPT ![h] = steps]
    /\ UNCHANGED <<rowVars, done, frame, to, late, faults>>

\* ... and writes it back with the new step.
WriteSnapshot(h) ==
    /\ PubStep(h, "writing", "publishing")
    /\ steps' = Appended(h)
    /\ writer' = Unlocked(h)
    /\ UNCHANGED <<status, done, buffer, frame, to, late, faults>>

\* A read or an update that fails is logged; the step is published all the same.
SnapshotFails(h) ==
    /\ faults < MaxFaults
    /\ PubStep(h, "writing", "publishing")
    /\ faults' = faults + 1
    /\ writer' = Unlocked(h)
    /\ UNCHANGED <<rowVars, done, buffer, frame, to, late>>

\* Publish copies the subscriptions under the hub's lock and sends after it.
Publish(p, f) ==
    /\ frame' = [frame EXCEPT ![p] = f]
    /\ to' = [to EXCEPT ![p] = subs]

PublishStep(h) ==
    /\ PubStep(h, "publishing", "sending")
    /\ Publish(h, StepFrame(<<h, done[h] + 1>>))
    /\ UNCHANGED <<rowVars, writer, done, buffer, late, faults>>

\* execute, once every host is over: the steps kept in memory replace the row's.
FinishRun ==
    /\ \A h \in Hosts : done[h] = Stages
    /\ PubStep(Exec, "idle", "publishing")
    /\ steps' = AllSteps /\ status' = "ended"
    /\ UNCHANGED <<writer, done, buffer, frame, to, late, faults>>

FinishRunFails ==
    /\ faults < MaxFaults
    /\ \A h \in Hosts : done[h] = Stages
    /\ PubStep(Exec, "idle", "publishing")
    /\ faults' = faults + 1
    /\ UNCHANGED <<rowVars, writer, done, buffer, frame, to, late>>

PublishFinal ==
    /\ PubStep(Exec, "publishing", "sending")
    /\ Publish(Exec, StatusFrame("ended"))
    /\ UNCHANGED <<rowVars, writer, done, buffer, late, faults>>

\* Trigger announces the run after it has started the goroutine of execute.
PublishRunning ==
    /\ PubStep(Trigger, "idle", "sending")
    /\ Publish(Trigger, StatusFrame("running"))
    /\ UNCHANGED <<rowVars, writer, done, buffer, late, faults>>

\* Sending on a channel that has been closed since the copy panics.
Send(p, c) ==
    /\ alive /\ pc[p] = "sending" /\ c \in to[p]
    /\ handler[c] # "gone"
    /\ chan' = [chan EXCEPT ![c] = Push(chan[c], frame[p])]
    /\ dropped' = DropsFrom(chan[c], c)
    /\ to' = [to EXCEPT ![p] = @ \ {c}]
    /\ late' = (late \/ (p = Trigger /\ status = "ended"))
    /\ UNCHANGED <<rowVars, writer, pc, done, buffer, frame, subs, connVars, faults, alive>>

\* gin recovers the request of Trigger; nothing recovers the goroutines of a run.
Panic(p, c) ==
    /\ alive /\ pc[p] = "sending" /\ c \in to[p]
    /\ handler[c] = "gone"
    /\ IF p = Trigger
       THEN /\ to' = [to EXCEPT ![p] = {}]
            /\ UNCHANGED alive
       ELSE alive' = FALSE /\ UNCHANGED to
    /\ UNCHANGED <<rowVars, writer, pc, done, buffer, frame, subs, chan, connVars,
                   history, faults>>

EndPublish(p) ==
    /\ to[p] = {}
    /\ PubStep(p, "sending", IF p \in Hosts THEN "idle" ELSE "over")
    /\ done' = [h \in Hosts |-> IF h = p THEN done[h] + 1 ELSE done[h]]
    /\ frame' = [frame EXCEPT ![p] = NoFrame]
    /\ UNCHANGED <<rowVars, writer, buffer, to, late, faults>>

-----------------------------------------------------------------------------
(* A connection: Stream and its forwarder, Subscribe and its cancel, the    *)
(* write pump                                                               *)

ConnStep(c, from, next) ==
    /\ alive /\ handler[c] = from
    /\ handler' = [handler EXCEPT ![c] = next]
    /\ UNCHANGED <<rowVars, pubVars, late, alive>>

\* The ticket is valid, the run exists and the connection has been upgraded.
Subscribe(c) ==
    /\ ConnStep(c, "none", "subscribed")
    /\ subs' = subs \cup {c}
    /\ UNCHANGED <<chan, forwarder, queue, screen, dropped, faults>>

\* The first frame of the queue, before the pumps and the forwarder start.
SendSnapshot(c) ==
    /\ ConnStep(c, "subscribed", "open")
    /\ queue' = [queue EXCEPT ![c] = <<SnapshotFrame>>]
    /\ forwarder' = [forwarder EXCEPT ![c] = "running"]
    /\ UNCHANGED <<subs, chan, screen, dropped, faults>>

\* The row cannot be read: no snapshot is sent.
SendSnapshotFails(c) ==
    /\ faults < MaxFaults
    /\ ConnStep(c, "subscribed", "open")
    /\ faults' = faults + 1
    /\ forwarder' = [forwarder EXCEPT ![c] = "running"]
    /\ UNCHANGED <<subs, chan, queue, screen, dropped>>

\* A read, a ping or a write fails, or the browser goes away.
ConnCloses(c) ==
    /\ ConnStep(c, "open", "closed")
    /\ UNCHANGED <<subs, chan, forwarder, queue, screen, dropped, faults>>

\* cancel takes the subscription out of the topic under the lock ...
Unsubscribe(c) ==
    /\ ConnStep(c, "closed", "removed")
    /\ subs' = subs \ {c}
    /\ UNCHANGED <<chan, forwarder, queue, screen, dropped, faults>>

\* ... and closes its channel after it.
CloseChannel(c) ==
    /\ ConnStep(c, "removed", "gone")
    /\ UNCHANGED <<subs, chan, forwarder, queue, screen, dropped, faults>>

\* One frame from the channel to the queue; a connection that has closed takes none.
Forward(c) ==
    /\ alive /\ forwarder[c] = "running" /\ chan[c] # <<>>
    /\ chan' = [chan EXCEPT ![c] = Tail(@)]
    /\ IF handler[c] = "open"
       THEN /\ queue' = [queue EXCEPT ![c] = Push(queue[c], Head(chan[c]))]
            /\ dropped' = DropsFrom(queue[c], c)
       ELSE UNCHANGED <<queue, dropped>>
    /\ UNCHANGED <<rowVars, pubVars, subs, handler, forwarder, screen, late, faults, alive>>

EndForwarder(c) ==
    /\ alive /\ forwarder[c] = "running"
    /\ chan[c] = <<>> /\ handler[c] = "gone"
    /\ forwarder' = [forwarder EXCEPT ![c] = "over"]
    /\ UNCHANGED <<rowVars, pubVars, subs, chan, handler, queue, screen, history, faults, alive>>

WritePump(c) ==
    /\ alive /\ handler[c] = "open" /\ queue[c] # <<>>
    /\ screen' = [screen EXCEPT ![c] = Show(@, Head(queue[c]))]
    /\ queue' = [queue EXCEPT ![c] = Tail(@)]
    /\ UNCHANGED <<rowVars, pubVars, subs, chan, handler, forwarder, history, faults, alive>>

-----------------------------------------------------------------------------

SendNext(p) == (\E c \in Conns : Send(p, c) \/ Panic(p, c)) \/ EndPublish(p)
HostNext(h) ==
    ReadSnapshot(h) \/ WriteSnapshot(h) \/ SnapshotFails(h) \/ PublishStep(h) \/ SendNext(h)
ExecNext == FinishRun \/ FinishRunFails \/ PublishFinal \/ SendNext(Exec)
TriggerNext == PublishRunning \/ SendNext(Trigger)
HandlerNext(c) ==
    SendSnapshot(c) \/ SendSnapshotFails(c) \/ Unsubscribe(c) \/ CloseChannel(c)
ForwarderNext(c) == Forward(c) \/ EndForwarder(c)

Next ==
    \/ \E h \in Hosts : HostNext(h)
    \/ ExecNext \/ TriggerNext
    \/ \E c \in Conns :
          \/ Subscribe(c) \/ HandlerNext(c) \/ ConnCloses(c)
          \/ ForwarderNext(c) \/ WritePump(c)

Spec == Init /\ [][Next]_vars

\* The goroutines of the server go on; a browser may stop reading at any time.
Fairness ==
    /\ \A h \in Hosts : WF_vars(HostNext(h))
    /\ WF_vars(ExecNext) /\ WF_vars(TriggerNext)
    /\ \A c \in Conns : WF_vars(HandlerNext(c)) /\ WF_vars(ForwarderNext(c))

FairSpec == Spec /\ Fairness

-----------------------------------------------------------------------------
(* Properties                                                               *)

Frames == [kind : {"step", "status", "snapshot"}, steps : SUBSET AllSteps,
           status : {"none", "running", "ended"}]

\* Every variable holds values of its kind, and no channel or queue holds
\* more than its capacity.
TypeOK ==
    /\ steps \subseteq AllSteps /\ status \in {"running", "ended"}
    /\ writer \subseteq Hosts
    /\ pc \in [Publishers -> {"idle", "writing", "publishing", "sending", "over"}]
    /\ done \in [Hosts -> 0..Stages] /\ buffer \in [Hosts -> SUBSET AllSteps]
    /\ frame \in [Publishers -> Frames \cup {NoFrame}] /\ to \in [Publishers -> SUBSET Conns]
    /\ subs \subseteq Conns
    /\ handler \in [Conns -> {"none", "subscribed", "open", "closed", "removed", "gone"}]
    /\ forwarder \in [Conns -> {"none", "running", "over"}]
    /\ screen \in [Conns -> [steps : SUBSET AllSteps, status : {"none", "running", "ended"}]]
    /\ \A c \in Conns :
          /\ Len(chan[c]) <= QueueSize /\ Len(queue[c]) <= QueueSize
          /\ \A i \in DOMAIN chan[c] : chan[c][i] \in Frames
          /\ \A i \in DOMAIN queue[c] : queue[c][i] \in Frames
    /\ dropped \subseteq Conns /\ late \in BOOLEAN
    /\ faults \in 0..MaxFaults /\ alive \in BOOLEAN

\* A step that has been recorded in the row stays there: neither another host
\* that writes its own step at the same time nor the end of the run takes it out
\* (appendSnapshotStep reads and writes back the whole snapshot).
RecordedStay == [][steps \subseteq steps']_vars

Quiet ==
    /\ \A h \in Hosts : done[h] = Stages
    /\ pc[Exec] = "over" /\ pc[Trigger] = "over"

\* A browser that connected at any moment of the run and for which no frame was
\* dropped shows every step and the final status once the run is over and the
\* queues are empty: nothing is lost between the snapshot and the first frame
\* ("subscribe first, then send the snapshot", ws_pipeline.go).  Excepted
\* are a failed database call and a status "running" sent after the run ended.
CaughtUp ==
    \A c \in Conns :
       (/\ Quiet /\ alive /\ faults = 0 /\ c \notin dropped
        /\ handler[c] = "open" /\ chan[c] = <<>> /\ queue[c] = <<>>)
       => /\ screen[c].steps = AllSteps
          /\ screen[c].status = "ended" \/ late

\* The run comes to its end whatever the browsers do, failed database calls and
\* full queues included, unless the process panics.
RunNotHeldUp == <>(pc[Exec] = "over" \/ ~alive)

\* "Publish must not block and must not drag the pipeline down" (Publisher,
\* pipeline_service.go): watching a run never brings down the process it runs in.
WatchingIsHarmless == alive
=============================================================================
