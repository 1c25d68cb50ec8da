---------------------------- MODULE HostRuntimes ----------------------------
(***************************************************************************)
(* The programs of one service on one host: what deployHost does there by  *)
(* way of a Runtime (internal/pkg/deploy: systemd, nohup, docker), what    *)
(* SyncRuntimeByApp, StopRuntime and RestartRuntime read and write of the  *)
(* container and of deployments.status, and what happens on the host       *)
(* without the server.                                                     *)
(*                                                                         *)
(* Every deployment that gets to the host starts one program, known by the *)
(* number of the deployment.  A name stands for what an application is     *)
(* called on the host: unit, directory with start.sh and app.pid, and      *)
(* container; app_code, deploy_path or docker_container_name change it.    *)
(* Only one program can hold the port of the service.                      *)
(***************************************************************************)
EXTENDS Naturals, FiniteSets

CONSTANTS
    Names, NoName,
    Clients,    \* requests to the runtime handlers
    MaxDeploys, \* bound on the deployments
    MaxFaults,  \* bound on the SSH commands that fail
    MaxChanges, \* bound on the changes of the settings
    MaxEvents   \* bound on what happens on the host by itself

ASSUME HostRuntimesAssumption ==
    /\ NoName \notin Names
    /\ MaxDeploys \in Nat /\ MaxFaults \in Nat
    /\ MaxChanges \in Nat /\ MaxEvents \in Nat

Modes == {"systemd", "nohup", "docker"}
Versions == 1..MaxDeploys

VARIABLES
    app,        \* database: deploy_mode and the name of the application
    probing,    \* health_check_url: there is a health probe
    status,     \* database: deployments.status
    proc,       \* host: the program alive under a mode and name, 0 if none
    box,        \* host: the program in the container of a name, alive or not, 0 if none
    enabled,    \* host: names whose unit is enabled
    paused,     \* host: names whose container is paused
    pidfile,    \* host: names with an app.pid
    lingering,  \* host: nohup programs told to end, whose app.pid is removed
    port,       \* host: the program that holds the port, 0 if none
    dep,        \* the deployment in progress
    last,       \* number of the last deployment
    call,       \* each client: its request, with what it has read
    about,      \* history: the container that was read as stopped, if status says so
    since,      \* history: it has been started since, or was not seen to be down
    faults, changes, events

hostVars == <<proc, box, paused, enabled, pidfile, lingering, port>>
rowVars  == <<status, about, since>>
bounds   == <<faults, changes, events>>
vars == <<app, probing, rowVars, hostVars, dep, last, call, bounds>>

NoDep == [pc |-> "idle", mode |-> "systemd", name |-> NoName, missed |-> FALSE]
NoCall == [op |-> "none", name |-> NoName, seen |-> "none", old |-> FALSE]

Init ==
    /\ app \in [mode : Modes, name : Names]
    /\ probing \in BOOLEAN
    /\ status = "pending" /\ about = NoName /\ since = FALSE
    /\ proc = [s \in Modes \X Names |-> 0]
    /\ box = [n \in Names |-> 0]
    /\ paused = {} /\ enabled = {} /\ pidfile = {} /\ lingering = {}
    /\ port = 0
    /\ dep = NoDep /\ last = 0
    /\ call = [c \in Clients |-> NoCall]
    /\ faults = 0 /\ changes = 0 /\ events = 0

-----------------------------------------------------------------------------
(* What commands do to the host.                                             *)

Alive == ({proc[s] : s \in DOMAIN proc} \cup lingering) \ {0}

\* Programs that end give up the port.
Frees(V) == IF port \in V THEN 0 ELSE port

\* A start of the container of n makes what was read of it before out of date.
SawStopped(c, n) == call[c].seen = "stopped" /\ call[c].name = n
Started(n) ==
    /\ since' = (since \/ about = n)
    /\ call' = [c \in Clients |-> [call[c] EXCEPT !.old = @ \/ SawStopped(c, n)]]

NohupRunning(n) == n \in pidfile /\ proc["nohup", n] # 0

KillNothing(n) == UNCHANGED <<proc, pidfile, port>>
\* SIGTERM, up to 10 s, SIGKILL; without app.pid there is nothing to stop.
KillAndWait(n) ==
    /\ proc' = IF NohupRunning(n) THEN [proc EXCEPT ![<<"nohup", n>>] = 0] ELSE proc
    /\ port' = IF NohupRunning(n) THEN Frees({proc["nohup", n]}) ELSE port
    /\ pidfile' = pidfile \ {n}

Moving(to) == dep' = [dep EXCEPT !.pc = to]

-----------------------------------------------------------------------------
(* A deployment on the host, as far as deployHost and its Runtime.           *)

Begin ==
    /\ dep.pc = "idle" /\ last < MaxDeploys
    /\ last' = last + 1
    /\ dep' = [pc |-> "cleanup", mode |-> app.mode, name |-> app.name, missed |-> FALSE]
    /\ UNCHANGED <<app, probing, rowVars, hostVars, call, bounds>>

\* Until it starts the new program, a deployment may fail at any command (and a
\* docker build or an upload), or be cancelled.
Fail ==
    /\ dep.pc \in {"prepare", "start"}
    /\ faults < MaxFaults /\ faults' = faults + 1
    /\ dep' = NoDep
    /\ UNCHANGED <<app, probing, rowVars, hostVars, last, call, changes, events>>

\* StopOther.  Its commands may fail, which nobody notices (missed).
StopOtherFails ==
    /\ dep.pc = "cleanup"
    /\ faults < MaxFaults /\ faults' = faults + 1
    /\ dep' = [dep EXCEPT !.pc = "prepare", !.missed = TRUE]
    /\ UNCHANGED <<app, probing, rowVars, hostVars, last, call, changes, events>>

\* systemd: the program in app.pid is killed; the container is not looked for.
SystemdStopsOthers ==
    /\ dep.pc = "cleanup" /\ dep.mode = "systemd"
    /\ KillAndWait(dep.name)
    /\ Moving("prepare")
    /\ UNCHANGED <<app, probing, rowVars, box, paused, enabled, lingering, last, call, bounds>>

DisableWithoutStopping(n) ==
    /\ enabled' = enabled \ {n}
    /\ UNCHANGED proc
StopAndDisable(n) ==
    /\ proc' = [proc EXCEPT ![<<"systemd", n>>] = 0]
    /\ enabled' = enabled \ {n}

\* nohup: the unit is stopped and disabled; the container is not looked for.
NohupStopsOthers ==
    /\ dep.pc = "cleanup" /\ dep.mode = "nohup"
    /\ StopAndDisable(dep.name)
    /\ port' = Frees({proc["systemd", dep.name]})
    /\ Moving("prepare")
    /\ UNCHANGED <<app, probing, rowVars, box, paused, pidfile, lingering, last, call, bounds>>

\* docker: the unit is stopped and disabled, the program in app.pid is sent a SIGTERM
\* and not waited for.
DockerStopsOthers ==
    LET n == dep.name
    IN  /\ dep.pc = "cleanup" /\ dep.mode = "docker"
        /\ proc' = [proc EXCEPT ![<<"systemd", n>>] = 0,
                                ![<<"nohup", n>>] = IF NohupRunning(n) THEN 0 ELSE @]
        /\ enabled' = enabled \ {n}
        /\ lingering' = IF NohupRunning(n) THEN lingering \cup {proc["nohup", n]} ELSE lingering
        /\ pidfile' = pidfile \ {n}
        /\ port' = Frees({proc["systemd", n]})
        /\ Moving("prepare")
        /\ UNCHANGED <<app, probing, rowVars, box, paused, last, call, bounds>>

\* PrepareUnit, and the half of RestartAndWait that ends the old program: systemctl
\* enable and restart, stop.sh, or docker stop and docker rm.
StopOldSystemd ==
    /\ dep.pc = "prepare" /\ dep.mode = "systemd"
    /\ enabled' = enabled \cup {dep.name}
    /\ proc' = [proc EXCEPT ![<<"systemd", dep.name>>] = 0]
    /\ port' = Frees({proc["systemd", dep.name]})
    /\ Moving("start")
    /\ UNCHANGED <<app, probing, rowVars, box, paused, pidfile, lingering, last, call, bounds>>

StopOldNohup ==
    /\ dep.pc = "prepare" /\ dep.mode = "nohup"
    /\ KillAndWait(dep.name)
    /\ Moving("start")
    /\ UNCHANGED <<app, probing, rowVars, box, paused, enabled, lingering, last, call, bounds>>

StopOldDocker ==
    /\ dep.pc = "prepare" /\ dep.mode = "docker"
    /\ proc' = [proc EXCEPT ![<<"docker", dep.name>>] = 0]
    /\ box' = [box EXCEPT ![dep.name] = 0]
    /\ port' = Frees({proc["docker", dep.name]})
    /\ Moving("start")
    /\ paused' = paused \ {dep.name}
    /\ UNCHANGED <<app, probing, rowVars, enabled, pidfile, lingering, last, call, bounds>>

\* The half that starts the new one.  A Java program takes the port later (TakePort).
StartProgram ==
    /\ dep.pc = "start" /\ dep.mode # "docker"
    /\ proc' = [proc EXCEPT ![<<dep.mode, dep.name>>] = last]
    /\ pidfile' = IF dep.mode = "nohup" THEN pidfile \cup {dep.name} ELSE pidfile
    /\ Moving("wait")
    /\ UNCHANGED <<app, probing, rowVars, box, paused, enabled, lingering, port, last,
                   call, bounds>>

\* docker pull and docker run, whose exit codes are not looked at: the container takes the
\* port at once, stays "created" when it is held, or is not there (no image).
StartContainer ==
    /\ dep.pc = "start" /\ dep.mode = "docker"
    /\ \/ /\ port = 0
          /\ proc' = [proc EXCEPT ![<<"docker", dep.name>>] = last]
          /\ box' = [box EXCEPT ![dep.name] = last]
          /\ port' = last
          /\ Started(dep.name)
       \/ /\ port # 0
          /\ box' = [box EXCEPT ![dep.name] = last]
          /\ UNCHANGED <<proc, port, since, call>>
       \/ UNCHANGED <<proc, box, port, since, call>>
    /\ Moving("wait")
    /\ UNCHANGED <<app, probing, status, about, paused, enabled, pidfile, lingering, last,
                   bounds>>

Mine == proc[dep.mode, dep.name] = last

\* is-active, app.pid with kill -0, or docker inspect.
SeenRunning ==
    /\ dep.pc = "wait" /\ Mine
    /\ Moving(IF probing THEN "probe" ELSE "record")
    /\ UNCHANGED <<app, probing, rowVars, hostVars, last, call, bounds>>

\* It is not seen in time, or the deployment is cancelled or loses the host.
WaitFails ==
    /\ dep.pc = "wait"
    /\ \/ ~Mine /\ UNCHANGED faults
       \/ faults < MaxFaults /\ faults' = faults + 1
    /\ dep' = NoDep
    /\ UNCHANGED <<app, probing, rowVars, hostVars, last, call, changes, events>>

\* The probe asks whoever holds the port; a paused program does not answer.
ProbeAnswered ==
    /\ dep.pc = "probe" /\ port \notin {0} \cup {proc["docker", n] : n \in paused}
    /\ Moving("record")
    /\ UNCHANGED <<app, probing, rowVars, hostVars, last, call, bounds>>

ProbeFails ==
    /\ dep.pc = "probe"
    /\ dep' = NoDep
    /\ UNCHANGED <<app, probing, rowVars, hostVars, last, call, bounds>>

\* OnDeploymentSuccess.
Record ==
    /\ dep.pc = "record"
    /\ status' = "running" /\ about' = NoName /\ since' = FALSE
    /\ dep' = NoDep
    /\ UNCHANGED <<app, probing, hostVars, last, call, bounds>>

\* A failing update is logged, and the deployment is a success all the same.
RecordFails ==
    /\ dep.pc = "record"
    /\ faults < MaxFaults /\ faults' = faults + 1
    /\ dep' = NoDep
    /\ UNCHANGED <<app, probing, rowVars, hostVars, last, call, changes, events>>

DeployNext ==
    \/ Begin \/ Fail \/ StopOtherFails
    \/ SystemdStopsOthers \/ NohupStopsOthers \/ DockerStopsOthers
    \/ StopOldSystemd \/ StopOldNohup \/ StopOldDocker
    \/ StartProgram \/ StartContainer
    \/ SeenRunning \/ WaitFails \/ ProbeAnswered \/ ProbeFails \/ Record \/ RecordFails

-----------------------------------------------------------------------------
(* The runtime handlers, for docker only.                                    *)

\* deploymentStatusFromDockerContainer and ...FromDockerState: an absent container is
\* stopped, and so is a paused one; one that cannot get at its port may be seen between two
\* restarts.
AssumedState(n) == {"stopped"}
DockerState(n) ==
    IF proc["docker", n] = 0 \/ n \in paused THEN {"stopped"}
    ELSE IF port = proc["docker", n] THEN {"running"} ELSE {"running", "failed"}

\* SyncRuntimeByApp (list), StopRuntime, RestartRuntime: rows read.
Load(c, op) ==
    /\ call[c].op = "none" /\ app.mode = "docker"
    /\ op \in {"list", "stop", "restart"}
    /\ call' = [call EXCEPT ![c] = [op |-> op, name |-> app.name, seen |-> "none", old |-> FALSE]]
    /\ UNCHANGED <<app, probing, rowVars, hostVars, dep, last, bounds>>

\* The connection, the command or the update fails, or docker says there is no such container.
CallFails(c) ==
    /\ call[c].op \in {"list", "stop", "restart", "inspect", "write"}
    /\ \/ faults < MaxFaults /\ faults' = faults + 1
       \/ /\ call[c].op \in {"stop", "restart"} /\ box[call[c].name] = 0
          /\ UNCHANGED faults
    /\ call' = [call EXCEPT ![c] = NoCall]
    /\ UNCHANGED <<app, probing, rowVars, hostVars, dep, last, changes, events>>

ExecStop(c) ==
    LET n == call[c].name
    IN  /\ call[c].op = "stop" /\ box[n] # 0
        /\ proc' = [proc EXCEPT ![<<"docker", n>>] = 0]
        /\ port' = Frees({proc["docker", n]})
        /\ call' = [call EXCEPT ![c].op = "inspect"]
        /\ paused' = paused \ {n}
        /\ UNCHANGED <<app, probing, rowVars, box, enabled, pidfile, lingering, dep, last,
                       bounds>>

\* A container whose port is held does not start, and docker restart fails.
ExecRestart(c) ==
    LET n == call[c].name
        freed == Frees({proc["docker", n]})
    IN  /\ call[c].op = "restart" /\ box[n] # 0
        /\ proc' = [proc EXCEPT ![<<"docker", n>>] = IF freed = 0 THEN box[n] ELSE 0]
        /\ port' = IF freed = 0 THEN box[n] ELSE freed
        /\ since' = (since \/ (about = n /\ freed = 0))
        /\ call' = [d \in Clients |->
              IF d = c THEN IF freed = 0 THEN [call[c] EXCEPT !.op = "inspect"] ELSE NoCall
              ELSE [call[d] EXCEPT !.old = @ \/ (SawStopped(d, n) /\ freed = 0)]]
        /\ paused' = paused \ {n}
        /\ UNCHANGED <<app, probing, status, about, box, enabled, pidfile, lingering, dep, last,
                       bounds>>

\* docker ps -a for a Sync, docker inspect after a stop or restart.
ReadState(c) ==
    /\ call[c].op \in {"list", "inspect"}
    /\ \E s \in DockerState(call[c].name) :
        call' = [call EXCEPT ![c] = [@ EXCEPT !.op = "write", !.seen = s,
                                              !.old = call[c].name \in paused]]
    /\ UNCHANGED <<app, probing, rowVars, hostVars, dep, last, bounds>>

\* docker inspect fails: the state is "unknown", which counts as stopped.
ReadUnknown(c) ==
    /\ call[c].op = "inspect"
    /\ faults < MaxFaults /\ faults' = faults + 1
    /\ call' = [call EXCEPT ![c] = [@ EXCEPT !.op = "write", !.seen = "stopped", !.old = TRUE]]
    /\ UNCHANGED <<app, probing, rowVars, hostVars, dep, last, changes, events>>

\* updateDeploymentRuntimeStatus.
WriteStatus(c) ==
    /\ call[c].op = "write"
    /\ status' = call[c].seen
    /\ about' = (IF status' = "stopped" THEN call[c].name ELSE NoName) /\ since' = call[c].old
    /\ call' = [call EXCEPT ![c] = NoCall]
    /\ UNCHANGED <<app, probing, hostVars, dep, last, bounds>>

ClientNext ==
    \E c \in Clients :
        \/ \E op \in {"list", "stop", "restart"} : Load(c, op)
        \/ CallFails(c) \/ ExecStop(c) \/ ExecRestart(c) \/ WriteStatus(c)
        \/ ReadState(c) \/ ReadUnknown(c)

-----------------------------------------------------------------------------
(* What happens otherwise.                                                   *)

Event == events < MaxEvents /\ events' = events + 1

\* AppService.Update: the application gets another mode or name.
ChangeSettings(m, n) ==
    /\ changes < MaxChanges /\ changes' = changes + 1
    /\ app' = [mode |-> m, name |-> n] /\ app' # app
    /\ UNCHANGED <<probing, rowVars, hostVars, dep, last, call, faults, events>>

\* A Java program takes the port when it is free.
TakePort(s) ==
    /\ port = 0 /\ proc[s] # 0
    /\ port' = proc[s]
    /\ UNCHANGED <<app, probing, rowVars, proc, box, paused, enabled, pidfile, lingering,
                   dep, last, call, bounds>>

\* A nohup program that finds the port held ends; systemd tries it again.
PortHeld(n) ==
    /\ port \notin {0, proc["nohup", n]} /\ proc["nohup", n] # 0
    /\ proc' = [proc EXCEPT ![<<"nohup", n>>] = 0]
    /\ UNCHANGED <<app, probing, rowVars, box, paused, enabled, pidfile, lingering, port,
                   dep, last, call, bounds>>

\* A program crashes.  systemd (on-failure) and docker (unless-stopped) start it again.
Crash(s) ==
    /\ Event /\ proc[s] # 0 /\ ~(s[1] = "docker" /\ s[2] \in paused)
    /\ port' = Frees({proc[s]})
    /\ proc' = IF s[1] = "nohup" THEN [proc EXCEPT ![s] = 0] ELSE proc
    /\ UNCHANGED <<app, probing, rowVars, box, paused, enabled, pidfile, lingering, dep,
                   last, call, faults, changes>>

\* A program told to end does so.
LingeringEnds(v) ==
    /\ v \in lingering
    /\ lingering' = lingering \ {v}
    /\ port' = Frees({v})
    /\ UNCHANGED <<app, probing, rowVars, proc, box, paused, enabled, pidfile, dep, last,
                   call, bounds>>

\* The user stops, removes or starts the container by hand.
HandStop(n, remove) ==
    /\ Event /\ box[n] # 0
    /\ proc' = [proc EXCEPT ![<<"docker", n>>] = 0]
    /\ port' = Frees({proc["docker", n]})
    /\ box' = IF remove THEN [box EXCEPT ![n] = 0] ELSE box
    /\ paused' = paused \ {n}
    /\ UNCHANGED <<app, probing, rowVars, enabled, pidfile, lingering, dep, last, call,
                   faults, changes>>

HandStart(n) ==
    /\ Event /\ box[n] # 0 /\ proc["docker", n] = 0 /\ port = 0
    /\ proc' = [proc EXCEPT ![<<"docker", n>>] = box[n]]
    /\ port' = box[n]
    /\ Started(n)
    /\ UNCHANGED <<app, probing, status, about, box, paused, enabled, pidfile, lingering,
                   dep, last, faults, changes>>

\* The user freezes the container and lets it go on.
HandPause(n) ==
    /\ Event /\ proc["docker", n] # 0 /\ n \notin paused
    /\ paused' = paused \cup {n}
    /\ UNCHANGED <<app, probing, rowVars, proc, box, enabled, pidfile, lingering, port,
                   dep, last,
                   call, faults, changes>>

HandResume(n) ==
    /\ n \in paused
    /\ paused' = paused \ {n}
    /\ UNCHANGED <<app, probing, rowVars, proc, box, enabled, pidfile, lingering, port,
                   dep, last,
                   call, bounds>>

\* After a reboot the enabled units and the containers that ran come back; app.pid stays.
Reboot ==
    /\ Event /\ Alive # {}
    /\ proc' = [s \in DOMAIN proc |->
                  IF s[1] = "nohup" \/ (s[1] = "systemd" /\ s[2] \notin enabled) THEN 0 ELSE proc[s]]
    /\ paused' = {} /\ lingering' = {} /\ port' = 0
    /\ UNCHANGED <<app, probing, rowVars, box, enabled, pidfile, dep, last, call, faults,
                   changes>>

HostNext ==
    \/ \E m \in Modes, n \in Names : ChangeSettings(m, n)
    \/ \E s \in DOMAIN proc : TakePort(s) \/ Crash(s)
    \/ \E n \in Names : PortHeld(n) \/ HandStop(n, TRUE) \/ HandStop(n, FALSE) \/ HandStart(n)
                         \/ HandPause(n) \/ HandResume(n)
    \/ \E v \in Versions : LingeringEnds(v)
    \/ Reboot

Next == DeployNext \/ ClientNext \/ HostNext

Spec == Init /\ [][Next]_vars

-----------------------------------------------------------------------------
(* Properties.                                                               *)

(* Types; a live container is there, a live unit is enabled, a live nohup   *)
(* program has its app.pid, and who holds the port is alive.                *)
TypeOK ==
    /\ app \in [mode : Modes, name : Names] /\ probing \in BOOLEAN
    /\ status \in {"pending", "running", "stopped", "failed"}
    /\ proc \in [Modes \X Names -> 0..MaxDeploys]
    /\ \A n \in Names :
        /\ proc["docker", n] \in {0, box[n]}
        /\ proc["systemd", n] # 0 => n \in enabled
        /\ proc["nohup", n] # 0 => n \in pidfile
    /\ box \in [Names -> 0..MaxDeploys]
    /\ paused \cup enabled \cup pidfile \subseteq Names
    /\ lingering \subseteq Versions
    /\ port \in Alive \cup {0}
    /\ dep.pc \in {"idle", "cleanup", "prepare", "start", "wait", "probe", "record"}
    /\ \A c \in Clients : call[c].op \in {"none", "list", "stop", "restart", "inspect", "write"}
    /\ last \in 0..MaxDeploys /\ about \in Names \cup {NoName} /\ since \in BOOLEAN

\* Programs that a deployment does not stop: containers unless it makes one, what runs
\* under another name, and those only told to end.
OutOfReach ==
    {proc[s] : s \in {t \in DOMAIN proc :
                        t[2] # dep.name \/ (t[1] = "docker" /\ dep.mode # "docker")}}
    \cup lingering

(* The health probe of a deployment is answered by the program it started,  *)
(* unless StopOther failed or the port is held by a program out of its      *)
(* reach: then the old program is taken for the new one.                    *)
AnsweredByTheNewProgram ==
    [][dep.pc = "probe" /\ dep'.pc = "record" =>
          port = last \/ dep.missed \/ port \in OutOfReach]_vars

(* A row that says stopped tells the truth of the container it was read     *)
(* from, unless that has been started since the read, or was paused or not  *)
(* to be inspected when it was read, which also counts as stopped.          *)
StoppedMeansStopped == status = "stopped" /\ ~since => proc["docker", about] = 0

(* What the comment on Runtime.StopOther says of it: in every mode it does  *)
(* away with what the other two have left.                                  *)
OtherRuntimesAreStopped ==
    dep.pc \in {"start", "wait", "probe", "record"} /\ ~dep.missed =>
        \A m \in Modes \ {dep.mode} : proc[m, dep.name] = 0
=============================================================================
