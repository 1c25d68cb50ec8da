-------------------------- MODULE HostRuntimesProofs --------------------------
(***************************************************************************)
(* Proofs about HostRuntimes for any number of names, requests,            *)
(* deployments, faults and events.  The inductive invariant IInv says what *)
(* a deployment in progress has done away with, and what a request that    *)
(* has seen a stopped container still knows of it.  Most steps end         *)
(* programs or leave them alone, which Ends treats once.                   *)
(***************************************************************************)
EXTENDS HostRuntimes, TLAPS

CallRecords ==
    [op : {"none", "list", "stop", "restart", "inspect", "write"}, name : Names \cup {NoName},
     seen : {"none", "stopped", "running", "failed"}, old : BOOLEAN]
DepRecords ==
    [pc : {"idle", "cleanup", "prepare", "start", "wait", "probe", "record"}, mode : Modes,
     name : Names \cup {NoName}, missed : BOOLEAN]

Busy == dep.pc # "idle"
Typed ==
    /\ call \in [Clients -> CallRecords]
    /\ dep \in DepRecords
    /\ Busy => dep.name \in Names
    /\ \A c \in Clients : call[c].op # "none" => call[c].name \in Names

\* Between its two halves, a restart leaves nothing under the mode and the name of the
\* deployment (and a unit to start); then there is the new program, or none.
OldIsGone ==
    /\ dep.pc = "start" =>
          /\ proc[dep.mode, dep.name] = 0
          /\ dep.mode = "docker" => box[dep.name] = 0
          /\ dep.mode = "systemd" => dep.name \in enabled
    /\ dep.pc \in {"wait", "probe", "record"} =>
          /\ proc[dep.mode, dep.name] \in {0, last}
          /\ dep.mode = "docker" => box[dep.name] \in {0, last}

\* What StopOther did away with does not come back while the deployment goes on.
OthersAreGone ==
    dep.pc \in {"prepare", "start", "wait", "probe", "record"} /\ ~dep.missed =>
        \A m \in {"systemd", "nohup"} \ {dep.mode} : proc[m, dep.name] = 0

\* A request that has seen a stopped container, which has not been started since, is right.
SeenIsTrue ==
    \A c \in Clients :
        call[c].op = "write" =>
            /\ call[c].seen # "none"
            /\ call[c].seen = "stopped" /\ ~call[c].old => proc["docker", call[c].name] = 0
StatusIsOfAContainer == status = "stopped" => about \in Names

IInv ==
    /\ TypeOK
    /\ Typed
    /\ OldIsGone
    /\ OthersAreGone
    /\ SeenIsTrue
    /\ StatusIsOfAContainer
    /\ StoppedMeansStopped

-----------------------------------------------------------------------------
(* The host                                                                 *)

Slots == Modes \X Names
Procs == [Slots -> 0..MaxDeploys]

\* 0 stands for no program, the other numbers for one.
LEMMA Zero == 0 \in 0..MaxDeploys /\ \A v \in 0..MaxDeploys : v # 0 => v \in Versions
BY HostRuntimesAssumption DEF HostRuntimesAssumption, Versions

\* What is alive is in a slot, or lingers; before a step and after it.
LEMMA AliveIs ==
    /\ proc \in Procs => \A v : v \in Alive <=>
          v # 0 /\ (v \in lingering \/ \E s \in Slots : proc[s] = v)
    /\ proc' \in Procs => \A v : v \in Alive' <=>
          v # 0 /\ (v \in lingering' \/ \E s \in Slots : proc'[s] = v)
BY DEF Alive, Procs

\* A slot is a mode and a name.
LEMMA SlotIs ==
    ASSUME NEW s \in Slots
    PROVE  s[1] \in Modes /\ s[2] \in Names /\ s = <<s[1], s[2]>>
BY DEF Slots

\* The host as TypeOK has it.
HostOK ==
    /\ proc \in Procs
    /\ \A n \in Names :
        /\ proc["docker", n] \in {0, box[n]}
        /\ proc["systemd", n] # 0 => n \in enabled
        /\ proc["nohup", n] # 0 => n \in pidfile
    /\ box \in [Names -> 0..MaxDeploys]
    /\ paused \cup enabled \cup pidfile \subseteq Names
    /\ lingering \subseteq Versions
    /\ port \in Alive \cup {0}

\* What a step does that starts no program, and takes the port from nobody who goes on.
Ends ==
    /\ proc' \in Procs /\ \A s \in Slots : proc'[s] \in {0, proc[s]}
    /\ box' \in [Names -> 0..MaxDeploys] /\ \A n \in Names : box'[n] \in {0, box[n]}
    /\ \A n \in Names :
        /\ proc'["docker", n] \in {0, box'[n]}
        /\ proc'["systemd", n] # 0 => n \in enabled'
        /\ proc'["nohup", n] # 0 => n \in pidfile'
    /\ paused' \cup enabled' \cup pidfile' \subseteq Names
    /\ lingering' \subseteq Versions
    /\ \/ port' = 0
       \/ \E s \in Slots : port' = proc[s] /\ proc'[s] = proc[s]
       \/ port' = port /\ port \in lingering'

\* The host is as TypeOK has it after such a step.
LEMMA HostEnds ==
    ASSUME IInv, Ends
    PROVE  HostOK'
<1>1. port' \in Alive' \cup {0}
  <2>1. CASE \E s \in Slots : port' = proc[s] /\ proc'[s] = proc[s]
    BY <2>1, AliveIs DEF Ends
  <2>2. CASE port' \in lingering'
    BY <2>2, AliveIs DEF Ends
  <2> QED BY <2>1, <2>2 DEF Ends
<1> QED BY <1>1 DEF Ends, HostOK

\* Who holds the port is in a slot or lingers.
LEMMA PortIs ==
    ASSUME IInv
    PROVE  port = 0 \/ port \in lingering \/ \E s \in Slots : port = proc[s]
<1>1. proc \in Procs /\ port \in Alive \cup {0}
  BY DEF IInv, TypeOK, Procs, Slots
<1> QED BY <1>1, AliveIs

\* The requests and the row, apart from the host.
CallsOK ==
    /\ call \in [Clients -> CallRecords]
    /\ \A c \in Clients : call[c].op # "none" => call[c].name \in Names
    /\ SeenIsTrue
    /\ status \in {"pending", "running", "stopped", "failed"}
    /\ about \in Names \cup {NoName} /\ since \in BOOLEAN
    /\ StatusIsOfAContainer
    /\ StoppedMeansStopped

\* The deployment, apart from the host.
DepOK ==
    /\ dep \in DepRecords
    /\ Busy => dep.name \in Names
    /\ OldIsGone
    /\ OthersAreGone
    /\ last \in 0..MaxDeploys
RestOK == app \in [mode : Modes, name : Names] /\ probing \in BOOLEAN

\* The invariant in these parts.
LEMMA InParts == IInv => HostOK /\ CallsOK /\ DepOK /\ RestOK
BY DEF IInv, TypeOK, Typed, HostOK, CallsOK, DepOK, RestOK, Procs, Slots

\* The same the other way round, after a step.
LEMMA OfParts == HostOK' /\ CallsOK' /\ DepOK' /\ RestOK' => IInv'
<1>1. DepOK' => dep'.pc \in {"idle", "cleanup", "prepare", "start", "wait", "probe", "record"}
  BY DEF DepOK, DepRecords
<1>2. CallsOK' => \A c \in Clients :
                     call'[c].op \in {"none", "list", "stop", "restart", "inspect", "write"}
  BY DEF CallsOK, CallRecords
<1> QED BY <1>1, <1>2 DEF IInv, TypeOK, Typed, HostOK, CallsOK, DepOK, RestOK, Procs, Slots

\* Requests go on knowing what they know when no container is started.
LEMMA CallsStay ==
    ASSUME CallsOK, UNCHANGED <<rowVars, call>>,
           \A n \in Names : proc["docker", n] = 0 => proc'["docker", n] = 0
    PROVE  CallsOK'
<1> USE DEF CallsOK, rowVars
<1>1. SeenIsTrue'
  BY DEF SeenIsTrue
<1>2. StatusIsOfAContainer' /\ StoppedMeansStopped'
  BY DEF StatusIsOfAContainer, StoppedMeansStopped
<1> QED BY <1>1, <1>2

\* Nor does a container that is started leave anyone believing that it is stopped.
LEMMA StartedCalls ==
    ASSUME IInv, NEW n \in Names, Started(n), UNCHANGED <<status, about>>,
           \A s \in Slots : s # <<"docker", n>> => proc'[s] = proc[s]
    PROVE  CallsOK'
<1> USE DEF IInv, Typed
<1>1. ASSUME NEW k \in Names, k # n
      PROVE  proc'["docker", k] = proc["docker", k]
  <2>1. <<"docker", k>> \in Slots /\ <<"docker", k>> # <<"docker", n>>
    BY <1>1 DEF Slots, Modes
  <2> QED BY <2>1
<1>2. ASSUME NEW c \in Clients
      PROVE  /\ call'[c] \in CallRecords
             /\ call'[c].op = call[c].op /\ call'[c].name = call[c].name
             /\ call'[c].seen = call[c].seen
             /\ call'[c].old <=> (call[c].old \/ SawStopped(c, n))
  <2>1. PICK k \in CallRecords : k = call[c]
    OBVIOUS
  <2>2. PICK o \in BOOLEAN : o = (k.old \/ (k.seen = "stopped" /\ k.name = n))
    OBVIOUS
  <2>3. call'[c] = [k EXCEPT !.old = o]
    BY <2>1, <2>2 DEF Started, SawStopped
  <2> QED BY <2>1, <2>2, <2>3 DEF CallRecords, SawStopped
<1>3. call' \in [Clients -> CallRecords]
  <2>1. call' = [c \in Clients |-> call'[c]]
    BY DEF Started
  <2> QED BY <1>2, <2>1
<1>4. SeenIsTrue'
  <2> SUFFICES ASSUME NEW c \in Clients, call'[c].op = "write"
               PROVE  /\ call'[c].seen # "none"
                      /\ call'[c].seen = "stopped" /\ ~call'[c].old =>
                            proc'["docker", call'[c].name] = 0
    BY DEF SeenIsTrue
  <2>1. call[c].name \in Names
    BY <1>2
  <2> QED BY <1>1, <1>2, <2>1 DEF SeenIsTrue, SawStopped
<1>5. StatusIsOfAContainer'
  BY DEF StatusIsOfAContainer
<1>6. since' \in BOOLEAN /\ (since' <=> since \/ about = n)
  BY DEF Started, TypeOK
<1>7. StoppedMeansStopped'
  BY <1>1, <1>6 DEF StoppedMeansStopped, StatusIsOfAContainer
<1>8. /\ status' \in {"pending", "running", "stopped", "failed"}
      /\ about' \in Names \cup {NoName}
  BY DEF TypeOK
<1> QED BY <1>2, <1>3, <1>4, <1>5, <1>6, <1>7, <1>8 DEF CallsOK

\* A deployment keeps what it has done away with when no program is started, whatever
\* becomes of the one it has started.
LEMMA DepStays ==
    ASSUME DepOK, UNCHANGED <<dep, last>>, Ends, enabled \subseteq enabled'
    PROVE  DepOK'
<1>1. ASSUME NEW m \in Modes, Busy
      PROVE  proc'[m, dep.name] \in {0, proc[m, dep.name]} /\ box'[dep.name] \in {0, box[dep.name]}
  <2>1. <<m, dep.name>> \in Slots /\ dep.name \in Names
    BY <1>1 DEF DepOK, Slots
  <2> QED BY <2>1 DEF Ends
<1>2. dep.mode \in Modes /\ {"systemd", "nohup"} \subseteq Modes
  BY DEF DepOK, DepRecords, Modes
<1>3. OldIsGone'
  BY <1>1, <1>2 DEF DepOK, OldIsGone, Busy
<1>4. OthersAreGone'
  BY <1>1, <1>2 DEF DepOK, OthersAreGone, Busy
<1> QED BY <1>3, <1>4 DEF DepOK, Busy

\* One program is ended: what it held is free, and nothing else has changed.
LEMMA OneEnds ==
    ASSUME IInv, NEW m \in Modes, NEW n \in Names,
           proc' = [proc EXCEPT ![<<m, n>>] = 0], port' = Frees({proc[m, n]}),
           box' = box \/ (m = "docker" /\ box' = [box EXCEPT ![n] = 0]),
           paused' \subseteq Names,
           enabled' \subseteq Names, enabled' = enabled \/ enabled' = enabled \cup {n}
              \/ (m = "systemd" /\ enabled' = enabled \ {n}),
           pidfile' = pidfile \/ (m = "nohup" /\ pidfile' = pidfile \ {n}),
           lingering' = lingering
    PROVE  /\ Ends /\ proc'[m, n] = 0
           /\ \A s \in Slots : s # <<m, n>> => proc'[s] = proc[s]
<1>0. 0 \in 0..MaxDeploys
  BY Zero
<1> USE DEF IInv, TypeOK
<1>1. <<m, n>> \in Slots /\ proc \in Procs
  BY DEF Slots, Procs
<1>2. /\ proc' \in Procs /\ proc'[m, n] = 0
      /\ \A s \in Slots : s # <<m, n>> => proc'[s] = proc[s]
  BY <1>0, <1>1 DEF Procs
<1>3. /\ box' \in [Names -> 0..MaxDeploys] /\ \A k \in Names : box'[k] \in {0, box[k]}
      /\ \A k \in Names : box'[k] = box[k] \/ (m = "docker" /\ k = n)
  <2>1. box \in [Names -> 0..MaxDeploys]
    OBVIOUS
  <2>2. CASE box' = box
    BY <2>1, <2>2
  <2>3. CASE m = "docker" /\ box' = [box EXCEPT ![n] = 0]
    BY <1>0, <2>1, <2>3
  <2> QED BY <2>2, <2>3
<1>4. ASSUME NEW k \in Names
      PROVE  /\ proc'["docker", k] \in {0, box'[k]}
             /\ proc'["systemd", k] # 0 => k \in enabled'
             /\ proc'["nohup", k] # 0 => k \in pidfile'
  <2>1. /\ <<"docker", k>> \in Slots /\ <<"systemd", k>> \in Slots /\ <<"nohup", k>> \in Slots
    BY DEF Slots, Modes
  <2>2. /\ proc["docker", k] \in {0, box[k]}
        /\ proc["systemd", k] # 0 => k \in enabled
        /\ proc["nohup", k] # 0 => k \in pidfile
    OBVIOUS
  <2>3. proc'["docker", k] \in {0, box'[k]}
    BY <1>2, <1>3, <2>1, <2>2
  <2>4. proc'["systemd", k] # 0 => k \in enabled'
    BY <1>2, <2>1, <2>2
  <2>5. proc'["nohup", k] # 0 => k \in pidfile'
    BY <1>2, <2>1, <2>2
  <2> QED BY <2>3, <2>4, <2>5
<1>5. \/ port' = 0
      \/ \E s \in Slots : port' = proc[s] /\ proc'[s] = proc[s]
      \/ port' = port /\ port \in lingering'
  <2>1. CASE port = proc[m, n]
    BY <2>1 DEF Frees
  <2>2. CASE port # proc[m, n]
    <3>1. port' = port
      BY <2>2 DEF Frees
    <3>2. ASSUME NEW s \in Slots, port = proc[s]
          PROVE  \E t \in Slots : port' = proc[t] /\ proc'[t] = proc[t]
      <4>1. s # <<m, n>>
        BY <2>2, <3>2
      <4> QED BY <1>2, <3>1, <3>2, <4>1
    <3> QED BY <3>1, <3>2, PortIs
  <2> QED BY <2>1, <2>2
<1>6. pidfile' \subseteq Names /\ lingering' \subseteq Versions
  OBVIOUS
<1>7. \A s \in Slots : proc'[s] \in {0, proc[s]}
  BY <1>2
<1> QED BY <1>2, <1>3, <1>4, <1>5, <1>6, <1>7 DEF Ends

\* Nothing but the port and what lingers changes, and the port goes to nobody new.
LEMMA NoneEnds ==
    ASSUME IInv, UNCHANGED <<proc, box>>,
           enabled \subseteq enabled', enabled' \subseteq Names, pidfile' \subseteq Names,
           paused' \subseteq Names,
           \A n \in Names : proc["nohup", n] # 0 => n \in pidfile',
           lingering' \subseteq Versions,
           \/ port' = 0
           \/ port' = port /\ (port \in lingering => port \in lingering')
           \/ \E s \in Slots : port' = proc[s]
    PROVE  Ends
<1>1. \/ port' = 0
      \/ \E s \in Slots : port' = proc[s] /\ proc'[s] = proc[s]
      \/ port' = port /\ port \in lingering'
  BY PortIs
<1>2. proc' \in Procs /\ \A s \in Slots : proc'[s] \in {0, proc[s]}
  BY DEF IInv, TypeOK, Procs, Slots
<1>3. /\ box' \in [Names -> 0..MaxDeploys] /\ \A n \in Names : box'[n] \in {0, box[n]}
      /\ \A n \in Names :
          /\ proc'["docker", n] \in {0, box'[n]}
          /\ proc'["systemd", n] # 0 => n \in enabled'
          /\ proc'["nohup", n] # 0 => n \in pidfile'
  BY DEF IInv, TypeOK
<1> QED BY <1>1, <1>2, <1>3 DEF Ends

\* KillAndWait leaves no program under nohup.
LEMMA KillEnds ==
    ASSUME IInv, NEW n \in Names, KillAndWait(n), UNCHANGED <<box, paused, enabled, lingering>>
    PROVE  /\ Ends /\ proc'["nohup", n] = 0
           /\ \A s \in Slots : s # <<"nohup", n>> => proc'[s] = proc[s]
<1>1. CASE NohupRunning(n)
  <2>1. /\ proc' = [proc EXCEPT ![<<"nohup", n>>] = 0] /\ port' = Frees({proc["nohup", n]})
        /\ pidfile' = pidfile \ {n} /\ "nohup" \in Modes
        /\ enabled' = enabled /\ box' = box /\ lingering' = lingering /\ enabled' \subseteq Names
        /\ paused' \subseteq Names
    BY <1>1 DEF KillAndWait, Modes, IInv, TypeOK
  <2> QED BY <2>1, OneEnds
<1>2. CASE ~NohupRunning(n)
  <2>1. /\ proc' = proc /\ port' = port /\ pidfile' = pidfile \ {n} /\ proc["nohup", n] = 0
    BY <1>2 DEF KillAndWait, NohupRunning, IInv, TypeOK
  <2>2. \A k \in Names : proc["nohup", k] # 0 => k \in pidfile'
    BY <2>1 DEF IInv, TypeOK
  <2>3. /\ enabled \subseteq enabled' /\ enabled' \subseteq Names /\ pidfile' \subseteq Names
        /\ lingering' \subseteq Versions /\ paused' \subseteq Names
    BY <2>1 DEF IInv, TypeOK
  <2>4. Ends
    BY <2>1, <2>2, <2>3, NoneEnds
  <2> QED BY <2>1, <2>4
<1> QED BY <1>1, <1>2

-----------------------------------------------------------------------------
(* The deployment                                                           *)

Pcs == {"idle", "cleanup", "prepare", "start", "wait", "probe", "record"}

\* The deployment goes on to another place.
LEMMA MovesTo ==
    ASSUME IInv, NEW p \in Pcs, Moving(p)
    PROVE  /\ dep' \in DepRecords /\ dep'.pc = p /\ dep'.mode = dep.mode
           /\ dep'.name = dep.name /\ dep'.missed = dep.missed
BY DEF IInv, Typed, DepRecords, Moving, Pcs

\* Where a deployment is, if it is in progress.
LEMMA Where ==
    ASSUME IInv, dep.pc # "idle"
    PROVE  /\ dep.mode \in Modes /\ dep.name \in Names /\ dep \in DepRecords
           /\ \A m \in Modes : <<m, dep.name>> \in Slots
           /\ {"systemd", "nohup", "docker"} = Modes
BY DEF IInv, Typed, DepRecords, Busy, Modes, Slots

\* What StopOther has done away with stays away while the deployment goes on and nothing is
\* started.
LEMMA OthersStayGone ==
    ASSUME IInv, NEW p \in Pcs, Moving(p), Ends,
           dep.pc \in {"prepare", "start", "wait", "probe", "record"}
    PROVE  OthersAreGone'
<1>1. \A m \in Modes : proc'[m, dep.name] \in {0, proc[m, dep.name]}
  BY Where DEF Ends
<1> QED BY <1>1, MovesTo, Where DEF IInv, OthersAreGone

\* A deployment that has ended.
LEMMA OverStep ==
    ASSUME IInv, dep' = NoDep, UNCHANGED <<app, probing, hostVars, last, call>>,
           UNCHANGED rowVars \/ (status' = "running" /\ about' = NoName /\ since' = FALSE)
    PROVE  IInv'
<1>1. HostOK'
  BY InParts DEF HostOK, hostVars, Alive
<1>2. DepOK'
  <2>1. dep' \in DepRecords /\ dep'.pc = "idle"
    BY DEF NoDep, DepRecords, Modes
  <2> QED BY <2>1, InParts DEF DepOK, Busy, OldIsGone, OthersAreGone
<1>3. CallsOK'
  <2>1. /\ call' = call /\ proc' = proc
        /\ \/ UNCHANGED <<status, about, since>>
           \/ status' = "running" /\ about' = NoName /\ since' = FALSE
    BY DEF hostVars, rowVars
  <2>2. SeenIsTrue' /\ StatusIsOfAContainer' /\ StoppedMeansStopped'
    <3>1. SeenIsTrue /\ StatusIsOfAContainer /\ StoppedMeansStopped
      BY InParts DEF CallsOK
    <3>2. SeenIsTrue'
      BY <2>1, <3>1 DEF SeenIsTrue
    <3>3. CASE UNCHANGED <<status, about, since>>
      BY <2>1, <3>1, <3>2, <3>3 DEF StatusIsOfAContainer, StoppedMeansStopped
    <3>4. CASE status' = "running"
      BY <3>2, <3>4 DEF StatusIsOfAContainer, StoppedMeansStopped
    <3> QED BY <2>1, <3>3, <3>4
  <2> QED BY <2>1, <2>2, InParts DEF CallsOK
<1>4. RestOK'
  BY InParts DEF RestOK
<1> QED BY <1>1, <1>2, <1>3, <1>4, OfParts

\* Requests and rows are as they were after a step of the deployment that ends programs.
LEMMA EndsElsewhere ==
    ASSUME IInv, Ends, UNCHANGED <<app, probing, rowVars, call>>
    PROVE  HostOK' /\ CallsOK' /\ RestOK'
<1>1. \A n \in Names : proc["docker", n] = 0 => proc'["docker", n] = 0
  <2>1. \A n \in Names : <<"docker", n>> \in Slots
    BY DEF Slots, Modes
  <2> QED BY <2>1 DEF Ends
<1>2. CallsOK'
  BY <1>1, InParts, CallsStay
<1>3. RestOK'
  BY InParts DEF RestOK
<1> QED BY <1>2, <1>3, HostEnds

\* The beginning of a deployment, a StopOther that fails, and what looks at the program.
LEMMA LookingStep ==
    ASSUME HostRuntimesAssumption, IInv, Begin \/ StopOtherFails \/ SeenRunning \/ ProbeAnswered
    PROVE  IInv'
<1>1. UNCHANGED <<app, probing, rowVars, hostVars, call>>
  BY DEF Begin, StopOtherFails, SeenRunning, ProbeAnswered
<1>2. HostOK'
  BY <1>1, InParts DEF HostOK, hostVars, Alive
<1>3. CallsOK' /\ RestOK'
  BY <1>1, InParts
     DEF CallsOK, SeenIsTrue, StatusIsOfAContainer, StoppedMeansStopped, hostVars, rowVars, RestOK
<1>4. DepOK'
  <2>1. CASE Begin
    <3>1. app.mode \in Modes /\ app.name \in Names
      BY DEF IInv, TypeOK
    <3>2. /\ dep' \in DepRecords /\ dep'.pc = "cleanup" /\ dep'.name \in Names
      BY <2>1, <3>1 DEF Begin, DepRecords
    <3>3. last' \in 0..MaxDeploys
      <4>1. last \in 0..MaxDeploys /\ last < MaxDeploys /\ last' = last + 1
        BY <2>1 DEF Begin, IInv, TypeOK
      <4>2. MaxDeploys \in Nat
        BY DEF HostRuntimesAssumption
      <4> QED BY <4>1, <4>2
    <3> QED BY <3>2, <3>3 DEF DepOK, Busy, OldIsGone, OthersAreGone
  <2>2. CASE StopOtherFails
    <3>1. /\ dep' \in DepRecords /\ dep'.pc = "prepare" /\ dep'.name = dep.name /\ dep'.missed
          /\ dep.pc = "cleanup" /\ last' = last
      BY <2>2 DEF StopOtherFails, IInv, Typed, DepRecords
    <3> QED BY <3>1, InParts DEF DepOK, Busy, OldIsGone, OthersAreGone
  <2>3. CASE SeenRunning \/ ProbeAnswered
    <3>1. PICK p \in {"probe", "record"} : Moving(p)
      BY <2>3 DEF SeenRunning, ProbeAnswered
    <3>2. /\ dep' \in DepRecords /\ dep'.pc = p /\ dep'.name = dep.name /\ dep'.mode = dep.mode
          /\ dep'.missed = dep.missed
      BY <3>1, MovesTo DEF Pcs
    <3>3. dep.pc \in {"wait", "probe"} /\ last' = last
      BY <2>3 DEF SeenRunning, ProbeAnswered
    <3> QED BY <1>1, <3>2, <3>3, InParts DEF DepOK, Busy, OldIsGone, OthersAreGone, hostVars
  <2> QED BY <2>1, <2>2, <2>3
<1> QED BY <1>2, <1>3, <1>4, OfParts

\* StopOther and the half of RestartAndWait that ends the old program: after the first
\* nothing runs under the other modes it knows of, after the second nothing under its own.
LEMMA StoppingStep ==
    ASSUME IInv, NEW p \in {"prepare", "start"}, Moving(p), Ends,
           UNCHANGED <<app, probing, rowVars, call, last>>,
           p = "prepare" => /\ dep.pc = "cleanup"
                            /\ \A m \in {"systemd", "nohup"} \ {dep.mode} : proc'[m, dep.name] = 0,
           p = "start" => /\ dep.pc = "prepare" /\ proc'[dep.mode, dep.name] = 0
                          /\ dep.mode = "docker" => box'[dep.name] = 0
                          /\ dep.mode = "systemd" => dep.name \in enabled'
    PROVE  IInv'
<1>1. /\ dep' \in DepRecords /\ dep'.pc = p /\ dep'.mode = dep.mode /\ dep'.name = dep.name
      /\ dep'.missed = dep.missed /\ dep.pc # "idle"
  BY MovesTo DEF Pcs
<1>2. OthersAreGone'
  <2>1. CASE p = "prepare"
    BY <1>1, <2>1 DEF OthersAreGone
  <2>2. CASE p = "start"
    BY <2>2, OthersStayGone DEF Pcs
  <2> QED BY <2>1, <2>2
<1>3. OldIsGone'
  BY <1>1 DEF OldIsGone
<1>4. DepOK'
  BY <1>1, <1>2, <1>3, Where, InParts DEF DepOK, Busy
<1> QED BY <1>4, EndsElsewhere, OfParts

\* Each runtime has its way to do so.
LEMMA StopsOthers ==
    ASSUME IInv, SystemdStopsOthers \/ NohupStopsOthers \/ DockerStopsOthers
    PROVE  IInv'
<1>0. dep.pc = "cleanup" /\ dep.name \in Names /\ Moving("prepare")
      /\ UNCHANGED <<app, probing, rowVars, call, last>>
      /\ enabled \subseteq Names /\ pidfile \subseteq Names
  BY Where DEF SystemdStopsOthers, NohupStopsOthers, DockerStopsOthers, IInv, TypeOK
<1>4. paused' = paused /\ paused \subseteq Names
  BY DEF SystemdStopsOthers, NohupStopsOthers, DockerStopsOthers, IInv, TypeOK
<1>1. CASE SystemdStopsOthers
  <2>1. Ends /\ proc'["nohup", dep.name] = 0
    BY <1>0, <1>1, <1>4, KillEnds DEF SystemdStopsOthers
  <2>2. \A m \in {"systemd", "nohup"} \ {dep.mode} : proc'[m, dep.name] = 0
    BY <1>1, <2>1 DEF SystemdStopsOthers
  <2> QED BY <1>0, <2>1, <2>2, StoppingStep
<1>2. CASE NohupStopsOthers
  <2>1. /\ proc' = [proc EXCEPT ![<<"systemd", dep.name>>] = 0]
        /\ port' = Frees({proc["systemd", dep.name]})
        /\ enabled' = enabled \ {dep.name} /\ enabled' \subseteq Names
        /\ "systemd" \in Modes /\ box' = box /\ pidfile' = pidfile /\ lingering' = lingering
    BY <1>0, <1>2 DEF NohupStopsOthers, StopAndDisable, Modes
  <2>2. Ends /\ proc'["systemd", dep.name] = 0
    BY <1>0, <1>4, <2>1, OneEnds
  <2>3. \A m \in {"systemd", "nohup"} \ {dep.mode} : proc'[m, dep.name] = 0
    BY <1>2, <2>2 DEF NohupStopsOthers
  <2> QED BY <1>0, <2>2, <2>3, StoppingStep
<1>3. CASE DockerStopsOthers
  <2>1. PICK n \in Names : n = dep.name
    BY <1>0
  <2>2. PICK v : v = proc["nohup", n]
    OBVIOUS
  <2>3. /\ proc' = [proc EXCEPT ![<<"systemd", n>>] = 0,
                                ![<<"nohup", n>>] = IF NohupRunning(n) THEN 0 ELSE @]
        /\ enabled' = enabled \ {n} /\ pidfile' = pidfile \ {n}
        /\ lingering' = IF NohupRunning(n) THEN lingering \cup {v} ELSE lingering
        /\ port' = Frees({proc["systemd", n]}) /\ box' = box
    BY <1>3, <2>1, <2>2 DEF DockerStopsOthers
  <2>4. /\ <<"systemd", n>> \in Slots /\ <<"nohup", n>> \in Slots /\ proc \in Procs
        /\ <<"systemd", n>> # <<"nohup", n>>
    BY DEF Slots, Modes, Procs, IInv, TypeOK
  <2>5. 0 \in 0..MaxDeploys
    BY Zero
  <2>6. NohupRunning(n) <=> v # 0
    BY <2>2 DEF NohupRunning, IInv, TypeOK
  <2>7. /\ proc' \in Procs /\ proc'["systemd", n] = 0 /\ proc'["nohup", n] = 0
        /\ \A s \in Slots : s \notin {<<"systemd", n>>, <<"nohup", n>>} => proc'[s] = proc[s]
    BY <2>2, <2>3, <2>4, <2>5, <2>6 DEF Procs
  <2>8. \A s \in Slots : proc'[s] \in {0, proc[s]}
    BY <2>7
  <2>9. ASSUME NEW k \in Names
        PROVE  /\ proc'["docker", k] \in {0, box'[k]}
               /\ proc'["systemd", k] # 0 => k \in enabled'
               /\ proc'["nohup", k] # 0 => k \in pidfile'
    <3>1. /\ <<"docker", k>> \in Slots /\ <<"systemd", k>> \in Slots /\ <<"nohup", k>> \in Slots
          /\ <<"docker", k>> \notin {<<"systemd", n>>, <<"nohup", n>>}
          /\ k # n => /\ <<"systemd", k>> \notin {<<"systemd", n>>, <<"nohup", n>>}
                      /\ <<"nohup", k>> \notin {<<"systemd", n>>, <<"nohup", n>>}
      BY DEF Slots, Modes
    <3>2. /\ proc["docker", k] \in {0, box[k]}
          /\ proc["systemd", k] # 0 => k \in enabled
          /\ proc["nohup", k] # 0 => k \in pidfile
      BY DEF IInv, TypeOK
    <3>3. proc'["docker", k] = proc["docker", k]
      BY <2>7, <3>1
    <3>4. CASE k = n
      BY <2>3, <2>7, <3>2, <3>3, <3>4
    <3>5. CASE k # n
      <4>1. proc'["systemd", k] = proc["systemd", k] /\ proc'["nohup", k] = proc["nohup", k]
        BY <2>7, <3>1, <3>5
      <4> QED BY <2>3, <3>2, <3>3, <3>5, <4>1
    <3> QED BY <3>4, <3>5
  <2>10. lingering' \subseteq Versions
    <3>1. v \in 0..MaxDeploys
      BY <2>2, <2>4 DEF Procs
    <3>2. v # 0 => v \in Versions
      BY <3>1, Zero
    <3> QED BY <2>3, <2>6, <3>2 DEF IInv, TypeOK
  <2>11. \/ port' = 0
         \/ \E s \in Slots : port' = proc[s] /\ proc'[s] = proc[s]
         \/ port' = port /\ port \in lingering'
    <3>1. CASE port = proc["systemd", n]
      BY <2>3, <3>1 DEF Frees
    <3>2. CASE port # proc["systemd", n]
      <4>1. port' = port
        BY <2>3, <3>2 DEF Frees
      <4>2. CASE port \in lingering
        BY <2>3, <4>1, <4>2
      <4>3. ASSUME NEW s \in Slots, port = proc[s], port # 0
            PROVE  \/ \E t \in Slots : port' = proc[t] /\ proc'[t] = proc[t]
                   \/ port \in lingering'
        <5>1. CASE s = <<"nohup", n>>
          BY <2>2, <2>3, <2>6, <4>3, <5>1
        <5>2. CASE s # <<"nohup", n>>
          <6>1. s # <<"systemd", n>>
            BY <3>2, <4>3
          <6> QED BY <2>7, <4>1, <4>3, <5>2, <6>1
        <5> QED BY <5>1, <5>2
      <4> QED BY <4>1, <4>2, <4>3, PortIs
    <3> QED BY <3>1, <3>2
  <2>12. /\ box' \in [Names -> 0..MaxDeploys] /\ \A k \in Names : box'[k] \in {0, box[k]}
         /\ paused' \cup enabled' \cup pidfile' \subseteq Names
    BY <1>0, <1>4, <2>3 DEF IInv, TypeOK
  <2>13. Ends
    BY <2>7, <2>8, <2>9, <2>10, <2>11, <2>12 DEF Ends
  <2>14. \A m \in {"systemd", "nohup"} \ {dep.mode} : proc'[m, dep.name] = 0
    BY <2>1, <2>7
  <2> QED BY <1>0, <2>13, <2>14, StoppingStep
<1> QED BY <1>1, <1>2, <1>3

\* So has each for the old program.
LEMMA StopsOld ==
    ASSUME IInv, StopOldSystemd \/ StopOldNohup \/ StopOldDocker
    PROVE  IInv'
<1>0. dep.pc = "prepare" /\ dep.name \in Names /\ Moving("start")
      /\ UNCHANGED <<app, probing, rowVars, call, last>>
      /\ enabled \subseteq Names /\ pidfile \subseteq Names /\ Modes = {"systemd", "nohup", "docker"}
  BY Where DEF StopOldSystemd, StopOldNohup, StopOldDocker, IInv, TypeOK, Modes
<1>4. paused' \subseteq Names
  BY DEF StopOldSystemd, StopOldNohup, StopOldDocker, IInv, TypeOK
<1>1. CASE StopOldSystemd
  <2>1. /\ proc' = [proc EXCEPT ![<<"systemd", dep.name>>] = 0]
        /\ port' = Frees({proc["systemd", dep.name]})
        /\ enabled' = enabled \cup {dep.name} /\ enabled' \subseteq Names
        /\ "systemd" \in Modes /\ box' = box /\ pidfile' = pidfile /\ lingering' = lingering
        /\ dep.mode = "systemd"
    BY <1>0, <1>1 DEF StopOldSystemd
  <2>2. Ends /\ proc'["systemd", dep.name] = 0
    BY <1>0, <1>4, <2>1, OneEnds
  <2> QED BY <1>0, <2>1, <2>2, StoppingStep
<1>2. CASE StopOldNohup
  <2>1. Ends /\ proc'["nohup", dep.name] = 0 /\ dep.mode = "nohup"
    BY <1>0, <1>2, KillEnds DEF StopOldNohup
  <2> QED BY <1>0, <2>1, StoppingStep
<1>3. CASE StopOldDocker
  <2>1. /\ proc' = [proc EXCEPT ![<<"docker", dep.name>>] = 0]
        /\ port' = Frees({proc["docker", dep.name]})
        /\ box' = [box EXCEPT ![dep.name] = 0]
        /\ enabled' = enabled /\ enabled' \subseteq Names
        /\ "docker" \in Modes /\ pidfile' = pidfile /\ lingering' = lingering
        /\ dep.mode = "docker"
    BY <1>0, <1>3 DEF StopOldDocker
  <2>2. Ends /\ proc'["docker", dep.name] = 0
    BY <1>0, <1>4, <2>1, OneEnds
  <2>3. box'[dep.name] = 0
    BY <1>0, <2>1 DEF IInv, TypeOK
  <2> QED BY <1>0, <2>1, <2>2, <2>3, StoppingStep
<1> QED BY <1>1, <1>2, <1>3

\* The new program: what it is started on has been emptied, and the port goes to nobody but
\* a container.
LEMMA Starts ==
    ASSUME IInv, StartProgram \/ StartContainer
    PROVE  IInv'
<1>0. /\ dep.pc = "start" /\ dep.mode \in Modes /\ dep.name \in Names /\ Moving("wait")
      /\ <<dep.mode, dep.name>> \in Slots /\ proc \in Procs /\ last' = last
      /\ UNCHANGED <<app, probing, status, about, paused, enabled, lingering>>
  <2>1. /\ dep.pc = "start" /\ Moving("wait") /\ last' = last
        /\ UNCHANGED <<app, probing, status, about, paused, enabled, lingering>>
    BY DEF StartProgram, StartContainer, rowVars
  <2>2. proc \in Procs
    BY DEF IInv, TypeOK, Procs, Slots
  <2> QED BY <2>1, <2>2, Where
<1>1. /\ dep' \in DepRecords /\ dep'.pc = "wait" /\ dep'.mode = dep.mode /\ dep'.name = dep.name
      /\ dep'.missed = dep.missed
  BY <1>0, MovesTo DEF Pcs
<1>2. /\ proc[dep.mode, dep.name] = 0
      /\ dep.mode = "docker" => box[dep.name] = 0
      /\ dep.mode = "systemd" => dep.name \in enabled
  BY <1>0 DEF IInv, OldIsGone
<1>3. PICK n \in Names : n = dep.name
  BY <1>0
<1>4. PICK m \in Modes : m = dep.mode
  BY <1>0
<1>5. last \in 0..MaxDeploys /\ 0 \in 0..MaxDeploys /\ <<m, n>> \in Slots
  BY <1>0, <1>3, <1>4, Zero DEF IInv, TypeOK
<1>6. /\ proc' \in Procs
      /\ \A s \in Slots : s # <<m, n>> => proc'[s] = proc[s]
      /\ proc'[m, n] \in {0, last}
  <2>1. proc' = [proc EXCEPT ![<<m, n>>] = last] \/ proc' = proc
    BY <1>3, <1>4 DEF StartProgram, StartContainer
  <2>2. CASE proc' = [proc EXCEPT ![<<m, n>>] = last]
    BY <1>0, <1>5, <2>2 DEF Procs
  <2>3. CASE proc' = proc
    BY <1>0, <1>2, <1>3, <1>4, <2>3
  <2> QED BY <2>1, <2>2, <2>3
<1>7. /\ box' \in [Names -> 0..MaxDeploys] /\ \A k \in Names : k # n => box'[k] = box[k]
      /\ m = "docker" => box'[n] \in {0, last}
      /\ m # "docker" => box' = box
      /\ m = "docker" => proc'[m, n] \in {0, box'[n]}
  <2>1. box \in [Names -> 0..MaxDeploys]
    BY DEF IInv, TypeOK
  <2>2. CASE StartProgram
    BY <1>3, <1>4, <2>1, <2>2 DEF StartProgram
  <2>3. CASE StartContainer /\ box' = [box EXCEPT ![n] = last]
    BY <1>3, <1>4, <1>5, <1>6, <2>1, <2>3 DEF StartContainer
  <2>4. CASE StartContainer /\ box' = box /\ proc' = proc
    BY <1>2, <1>3, <1>4, <2>1, <2>4 DEF StartContainer
  <2>5. StartContainer => box' = [box EXCEPT ![n] = last] \/ (box' = box /\ proc' = proc)
    BY <1>3 DEF StartContainer
  <2> QED BY <2>2, <2>3, <2>4, <2>5
<1>8. pidfile' = pidfile \/ (m = "nohup" /\ pidfile' = pidfile \cup {n})
  BY <1>3, <1>4 DEF StartProgram, StartContainer
<1>9. m = "nohup" => n \in pidfile'
  BY <1>3, <1>4 DEF StartProgram, StartContainer
<1>10. ASSUME NEW k \in Names
       PROVE  /\ proc'["docker", k] \in {0, box'[k]}
              /\ proc'["systemd", k] # 0 => k \in enabled'
              /\ proc'["nohup", k] # 0 => k \in pidfile'
  <2>1. /\ <<"docker", k>> \in Slots /\ <<"systemd", k>> \in Slots /\ <<"nohup", k>> \in Slots
    BY DEF Slots, Modes
  <2>2. /\ proc["docker", k] \in {0, box[k]}
        /\ proc["systemd", k] # 0 => k \in enabled
        /\ proc["nohup", k] # 0 => k \in pidfile
    BY DEF IInv, TypeOK
  <2>3. proc'["docker", k] \in {0, box'[k]}
    <3>1. CASE m = "docker" /\ k = n
      BY <1>7, <3>1
    <3>2. CASE ~(m = "docker" /\ k = n)
      <4>1. proc'["docker", k] = proc["docker", k] /\ box'[k] = box[k]
        BY <1>6, <1>7, <2>1, <3>2
      <4> QED BY <2>2, <4>1
    <3> QED BY <3>1, <3>2
  <2>4. proc'["systemd", k] # 0 => k \in enabled'
    <3>1. CASE m = "systemd" /\ k = n
      BY <1>0, <1>2, <1>3, <1>4, <3>1
    <3>2. CASE ~(m = "systemd" /\ k = n)
      BY <1>0, <1>6, <2>1, <2>2, <3>2
    <3> QED BY <3>1, <3>2
  <2>5. proc'["nohup", k] # 0 => k \in pidfile'
    <3>1. CASE m = "nohup" /\ k = n
      BY <1>9, <3>1
    <3>2. CASE ~(m = "nohup" /\ k = n)
      BY <1>6, <1>8, <2>1, <2>2, <3>2
    <3> QED BY <3>1, <3>2
  <2> QED BY <2>3, <2>4, <2>5
<1>11. port' \in Alive' \cup {0}
  <2>1. CASE port' = port
    <3>1. port # 0 /\ port \in lingering => port' \in Alive'
      BY <1>0, <1>6, <2>1, AliveIs
    <3>2. ASSUME NEW s \in Slots, port = proc[s], port # 0
          PROVE  port' \in Alive'
      <4>1. s # <<m, n>>
        BY <1>2, <1>3, <1>4, <3>2
      <4>2. proc'[s] = port'
        BY <1>6, <2>1, <3>2, <4>1
      <4> QED BY <1>6, <2>1, <3>2, <4>2, AliveIs
    <3> QED BY <2>1, <3>1, <3>2, PortIs
  <2>2. CASE port' = last /\ proc' = [proc EXCEPT ![<<m, n>>] = last]
    <3>1. proc'[m, n] = port'
      BY <1>0, <1>5, <2>2 DEF Procs
    <3> QED BY <1>5, <1>6, <3>1, AliveIs
  <2> QED BY <1>3, <1>4, <2>1, <2>2 DEF StartProgram, StartContainer
<1>12. HostOK'
  <2>1. paused' \cup enabled' \cup pidfile' \subseteq Names /\ lingering' \subseteq Versions
    BY <1>0, <1>8 DEF IInv, TypeOK
  <2> QED BY <1>6, <1>7, <1>10, <1>11, <2>1 DEF HostOK
<1>13. DepOK'
  <2>1. OldIsGone'
    BY <1>0, <1>1, <1>3, <1>4, <1>6, <1>7 DEF OldIsGone
  <2>2. ASSUME ~dep.missed, NEW o \in {"systemd", "nohup"} \ {m}
        PROVE  proc'[o, n] = 0
    <3>1. proc[o, n] = 0
      BY <1>0, <1>3, <1>4, <2>2 DEF IInv, OthersAreGone
    <3>2. <<o, n>> \in Slots /\ <<o, n>> # <<m, n>>
      BY DEF Slots, Modes
    <3> QED BY <1>6, <3>1, <3>2
  <2>3. OthersAreGone'
    BY <1>1, <1>3, <1>4, <2>2 DEF OthersAreGone
  <2> QED BY <1>0, <1>1, <2>1, <2>3, InParts DEF DepOK, Busy
<1>14. CallsOK'
  <2>1. CASE Started(n) /\ m = "docker"
    BY <1>0, <1>6, <2>1, StartedCalls
  <2>2. CASE UNCHANGED <<since, call>> /\ (proc' = proc \/ m # "docker")
    <3>1. \A k \in Names : proc'["docker", k] = proc["docker", k]
      <4>1. \A k \in Names : <<"docker", k>> \in Slots
        BY DEF Slots, Modes
      <4> QED BY <1>6, <2>2, <4>1
    <3> QED BY <1>0, <2>2, <3>1, CallsStay, InParts DEF rowVars
  <2> QED BY <1>3, <1>4, <2>1, <2>2 DEF StartProgram, StartContainer, rowVars
<1>15. RestOK'
  BY <1>0, InParts DEF RestOK
<1> QED BY <1>12, <1>13, <1>14, <1>15, OfParts

\* The ends of a deployment.
LEMMA OverSteps ==
    ASSUME IInv, Fail \/ WaitFails \/ ProbeFails \/ Record \/ RecordFails
    PROVE  IInv'
<1>1. CASE Fail \/ WaitFails \/ ProbeFails \/ RecordFails
  BY <1>1, OverStep DEF Fail, WaitFails, ProbeFails, RecordFails
<1>2. CASE Record
  BY <1>2, OverStep DEF Record
<1> QED BY <1>1, <1>2

-----------------------------------------------------------------------------
(* Requests and events                                                      *)

\* A step that starts no program and leaves the deployment alone keeps the host and it.
LEMMA EndsAround ==
    ASSUME IInv, Ends, UNCHANGED <<app, probing, dep, last>>, enabled \subseteq enabled'
    PROVE  HostOK' /\ DepOK' /\ RestOK'
<1>1. DepOK'
  BY DepStays, InParts
<1>2. RestOK'
  BY InParts DEF RestOK
<1> QED BY <1>1, <1>2, HostEnds

\* What a step of the request of c to k must see to.
Asks(c, k) ==
    /\ k \in CallRecords /\ call' = [call EXCEPT ![c] = k]
    /\ k.op # "none" => k.name \in Names
    /\ k.op = "write" => /\ k.seen # "none"
                         /\ k.seen = "stopped" /\ ~k.old => proc'["docker", k.name] = 0
    /\ Ends
    /\ UNCHANGED <<app, probing, dep, last, enabled>>

\* Such a step keeps the invariant, with the row it leaves alone or one that is true.
LEMMA AskStep ==
    ASSUME IInv, NEW c \in Clients, NEW k, Asks(c, k),
           \/ UNCHANGED rowVars
           \/ /\ status' \in {"running", "stopped", "failed"} /\ since' \in BOOLEAN
              /\ about' \in Names \cup {NoName} /\ (status' = "stopped" => about' \in Names)
              /\ status' = "stopped" /\ ~since' => proc'["docker", about'] = 0
    PROVE  IInv'
<1>1. HostOK' /\ DepOK' /\ RestOK'
  BY EndsAround DEF Asks
<1>2. \A n \in Names : proc["docker", n] = 0 => proc'["docker", n] = 0
  <2>1. \A n \in Names : <<"docker", n>> \in Slots
    BY DEF Slots, Modes
  <2> QED BY <2>1 DEF Asks, Ends
<1>3. /\ call' \in [Clients -> CallRecords]
      /\ \A d \in Clients : call'[d] = IF d = c THEN k ELSE call[d]
  BY DEF Asks, IInv, Typed
<1>4. SeenIsTrue'
  <2> SUFFICES ASSUME NEW d \in Clients, call'[d].op = "write"
               PROVE  /\ call'[d].seen # "none"
                      /\ call'[d].seen = "stopped" /\ ~call'[d].old =>
                            proc'["docker", call'[d].name] = 0
    BY DEF SeenIsTrue
  <2>1. CASE d = c
    BY <1>3, <2>1 DEF Asks
  <2>2. CASE d # c
    BY <1>2, <1>3, <2>2 DEF IInv, SeenIsTrue, Typed
  <2> QED BY <2>1, <2>2
<1>5. \A d \in Clients : call'[d].op # "none" => call'[d].name \in Names
  BY <1>3 DEF Asks, IInv, Typed
<1>6. StatusIsOfAContainer' /\ StoppedMeansStopped'
  <2>1. CASE UNCHANGED rowVars
    BY <1>2, <2>1 DEF IInv, StatusIsOfAContainer, StoppedMeansStopped, rowVars
  <2>2. CASE /\ status' = "stopped" => about' \in Names
             /\ status' = "stopped" /\ ~since' => proc'["docker", about'] = 0
    BY <2>2 DEF StatusIsOfAContainer, StoppedMeansStopped
  <2> QED BY <2>1, <2>2
<1>7. /\ status' \in {"pending", "running", "stopped", "failed"}
      /\ about' \in Names \cup {NoName} /\ since' \in BOOLEAN
  BY DEF IInv, TypeOK, rowVars
<1>8. CallsOK'
  BY <1>3, <1>4, <1>5, <1>6, <1>7 DEF CallsOK
<1> QED BY <1>1, <1>8, OfParts

\* Nothing ends when nothing happens on the host.
LEMMA HostStays ==
    ASSUME IInv, UNCHANGED hostVars
    PROVE  Ends /\ enabled' = enabled /\ \A s \in Slots : proc'[s] = proc[s]
<1>1. /\ proc' = proc /\ box' = box /\ enabled' = enabled /\ pidfile' = pidfile
      /\ lingering' = lingering /\ port' = port /\ paused' = paused
  BY DEF hostVars
<1>2. /\ paused' \subseteq Names /\ enabled' \subseteq Names /\ pidfile' \subseteq Names /\ lingering' \subseteq Versions
      /\ \A n \in Names : proc["nohup", n] # 0 => n \in pidfile'
  BY <1>1 DEF IInv, TypeOK
<1> QED BY <1>1, <1>2, NoneEnds

\* A request without one, or one that begins, or that has come to an end.
LEMMA NoCallIs == NoCall \in CallRecords /\ NoCall.op = "none"
BY DEF NoCall, CallRecords

\* A request that begins, fails, reads the state of its container or writes what it read.
LEMMA RequestSteps ==
    ASSUME IInv, NEW c \in Clients,
           \/ \E op \in {"list", "stop", "restart"} : Load(c, op)
           \/ CallFails(c) \/ ReadState(c) \/ ReadUnknown(c) \/ WriteStatus(c)
    PROVE  IInv'
<1>0. /\ Ends /\ UNCHANGED <<app, probing, dep, last, enabled>>
      /\ \A s \in Slots : proc'[s] = proc[s]
  BY HostStays DEF Load, CallFails, ReadState, ReadUnknown, WriteStatus
<1>1. call[c] \in CallRecords /\ (call[c].op # "none" => call[c].name \in Names)
  BY DEF IInv, Typed
<1>2. ASSUME NEW op \in {"list", "stop", "restart"}, Load(c, op)
      PROVE  IInv'
  <2>1. PICK k : k = [op |-> op, name |-> app.name, seen |-> "none", old |-> FALSE]
    OBVIOUS
  <2>2. app.name \in Names
    BY DEF IInv, TypeOK
  <2>3. k \in CallRecords /\ k.op = op /\ k.name \in Names
    BY <2>1, <2>2 DEF CallRecords
  <2>4. Asks(c, k) /\ UNCHANGED rowVars
    BY <1>0, <1>2, <2>1, <2>3 DEF Asks, Load
  <2> QED BY <2>4, AskStep
<1>3. CASE CallFails(c)
  <2>1. Asks(c, NoCall) /\ UNCHANGED rowVars
    BY <1>0, <1>3, NoCallIs DEF Asks, CallFails
  <2> QED BY <2>1, AskStep
<1>4. CASE ReadState(c) \/ ReadUnknown(c)
  <2>1. PICK s \in {"stopped", "running", "failed"}, o \in BOOLEAN :
           /\ call' = [call EXCEPT ![c] = [@ EXCEPT !.op = "write", !.seen = s, !.old = o]]
           /\ s = "stopped" /\ ~o => proc["docker", call[c].name] = 0
    <3>1. CASE ReadState(c)
      <4>1. PICK s \in DockerState(call[c].name) :
               call' = [call EXCEPT ![c] = [@ EXCEPT !.op = "write", !.seen = s,
                                                     !.old = call[c].name \in paused]]
        BY <3>1 DEF ReadState
      <4>2. /\ s \in {"stopped", "running", "failed"}
            /\ s = "stopped" /\ call[c].name \notin paused => proc["docker", call[c].name] = 0
        BY <4>1 DEF DockerState
      <4>3. CASE call[c].name \in paused
        <5>1. call' = [call EXCEPT ![c] = [@ EXCEPT !.op = "write", !.seen = s, !.old = TRUE]]
          BY <4>1, <4>3, Zenon
        <5> QED BY <4>2, <5>1
      <4>4. CASE call[c].name \notin paused
        <5>1. call' = [call EXCEPT ![c] = [@ EXCEPT !.op = "write", !.seen = s, !.old = FALSE]]
          <6>1. (call[c].name \in paused) = FALSE
            BY <4>4
          <6> QED BY <4>1, <6>1
        <5> QED BY <4>2, <4>4, <5>1
      <4> QED BY <4>3, <4>4
    <3>2. CASE ReadUnknown(c)
      BY <3>2 DEF ReadUnknown
    <3> QED BY <1>4, <3>1, <3>2
  <2>2. PICK k : k = [call[c] EXCEPT !.op = "write", !.seen = s, !.old = o]
    OBVIOUS
  <2>3. call[c].name \in Names
    BY <1>1, <1>4 DEF ReadState, ReadUnknown
  <2>4. /\ k \in CallRecords /\ k.op = "write" /\ k.seen = s /\ k.old = o
        /\ k.name = call[c].name
    BY <1>1, <2>1, <2>2 DEF CallRecords
  <2>5. s = "stopped" /\ ~o => proc'["docker", k.name] = 0
    <3>1. <<"docker", k.name>> \in Slots
      BY <2>3, <2>4 DEF Slots, Modes
    <3> QED BY <1>0, <2>1, <2>4, <3>1
  <2>6. call' = [call EXCEPT ![c] = k]
    BY <2>1, <2>2
  <2>7. Asks(c, k) /\ UNCHANGED rowVars
    BY <1>0, <1>4, <2>1, <2>3, <2>4, <2>5, <2>6 DEF Asks, ReadState, ReadUnknown
  <2> QED BY <2>7, AskStep
<1>5. CASE WriteStatus(c)
  <2>1. Asks(c, NoCall)
    BY <1>0, <1>5, NoCallIs DEF Asks, WriteStatus
  <2>2. /\ call[c].op = "write" /\ status' = call[c].seen /\ since' = call[c].old
        /\ about' = IF status' = "stopped" THEN call[c].name ELSE NoName
    BY <1>5 DEF WriteStatus
  <2>3. /\ call[c].seen \in {"running", "stopped", "failed"} /\ call[c].old \in BOOLEAN
        /\ call[c].name \in Names
        /\ call[c].seen = "stopped" /\ ~call[c].old => proc["docker", call[c].name] = 0
    BY <1>1, <2>2 DEF IInv, SeenIsTrue, CallRecords
  <2>4. proc'["docker", call[c].name] = proc["docker", call[c].name]
    <3>1. <<"docker", call[c].name>> \in Slots
      BY <2>3 DEF Slots, Modes
    <3> QED BY <1>0, <3>1
  <2>5. /\ since' \in BOOLEAN /\ status' \in {"running", "stopped", "failed"}
        /\ about' \in Names \cup {NoName} /\ (status' = "stopped" => about' \in Names)
    BY <2>2, <2>3
  <2>6. status' = "stopped" /\ ~since' => proc'["docker", about'] = 0
    BY <2>2, <2>3, <2>4
  <2> QED BY <2>1, <2>5, <2>6, AskStep
<1> QED BY <1>2, <1>3, <1>4, <1>5

\* docker stop.
LEMMA Stopping ==
    ASSUME IInv, NEW c \in Clients, ExecStop(c)
    PROVE  IInv'
<1>1. PICK k : k = [call[c] EXCEPT !.op = "inspect"]
  OBVIOUS
<1>2. call[c] \in CallRecords /\ call[c].name \in Names /\ call[c].op = "stop"
  BY DEF IInv, Typed, ExecStop
<1>3. k \in CallRecords /\ k.op = "inspect" /\ k.name = call[c].name
  BY <1>1, <1>2 DEF CallRecords
<1>4. PICK n \in Names : n = call[c].name
  BY <1>2
<1>5. /\ proc' = [proc EXCEPT ![<<"docker", n>>] = 0] /\ port' = Frees({proc["docker", n]})
      /\ call' = [call EXCEPT ![c].op = "inspect"]
      /\ paused' = paused \ {n}
      /\ UNCHANGED <<app, probing, rowVars, box, enabled, pidfile, lingering, dep, last>>
  BY <1>4 DEF ExecStop
<1>6. Ends
  <2>1. "docker" \in Modes /\ enabled' \subseteq Names /\ paused' \subseteq Names
    BY <1>5 DEF Modes, IInv, TypeOK
  <2> QED BY <1>5, <2>1, OneEnds
<1>7. call' = [call EXCEPT ![c] = k]
  BY <1>1, <1>5
<1>8. Asks(c, k)
  BY <1>2, <1>3, <1>5, <1>6, <1>7 DEF Asks
<1>9. UNCHANGED rowVars
  BY <1>5
<1> QED BY <1>8, <1>9, AskStep

\* A container that is started has the program it was made for; the deployment in progress
\* has removed the one of its name, or made it.
LEMMA ContainerStarts ==
    ASSUME IInv, NEW n \in Names, box[n] # 0,
           proc' = [proc EXCEPT ![<<"docker", n>>] = box[n]], port' = box[n],
           paused' \subseteq paused, UNCHANGED <<box, enabled, pidfile, lingering, dep, last>>
    PROVE  /\ HostOK' /\ DepOK'
           /\ \A s \in Slots : s # <<"docker", n>> => proc'[s] = proc[s]
<1>1. <<"docker", n>> \in Slots /\ proc \in Procs /\ box \in [Names -> 0..MaxDeploys]
  BY DEF Slots, Modes, Procs, IInv, TypeOK
<1>2. /\ proc' \in Procs /\ proc'["docker", n] = box[n]
      /\ \A s \in Slots : s # <<"docker", n>> => proc'[s] = proc[s]
  BY <1>1 DEF Procs
<1>3. ASSUME NEW k \in Names
      PROVE  /\ proc'["docker", k] \in {0, box[k]}
             /\ proc'["systemd", k] # 0 => k \in enabled
             /\ proc'["nohup", k] # 0 => k \in pidfile
  <2>1. /\ <<"docker", k>> \in Slots /\ <<"systemd", k>> \in Slots /\ <<"nohup", k>> \in Slots
        /\ <<"systemd", k>> # <<"docker", n>> /\ <<"nohup", k>> # <<"docker", n>>
    BY DEF Slots, Modes
  <2>2. /\ proc["docker", k] \in {0, box[k]}
        /\ proc["systemd", k] # 0 => k \in enabled
        /\ proc["nohup", k] # 0 => k \in pidfile
    BY DEF IInv, TypeOK
  <2>3. proc'["docker", k] \in {0, box[k]}
    <3>1. CASE k = n
      BY <1>2, <3>1
    <3>2. CASE k # n
      BY <1>2, <2>1, <2>2, <3>2
    <3> QED BY <3>1, <3>2
  <2> QED BY <1>2, <2>1, <2>2, <2>3
<1>4. port' \in Alive'
  BY <1>1, <1>2, AliveIs
<1>5. HostOK'
  <2>1. paused' \cup enabled' \cup pidfile' \subseteq Names /\ lingering' \subseteq Versions
    BY DEF IInv, TypeOK
  <2> QED BY <1>1, <1>2, <1>3, <1>4, <2>1 DEF HostOK
<1>6. OldIsGone'
  <2>1. ASSUME dep.pc \in {"start", "wait", "probe", "record"}
        PROVE  \/ proc'[dep.mode, dep.name] = proc[dep.mode, dep.name]
               \/ dep.mode = "docker" /\ dep.name = n /\ proc'[dep.mode, dep.name] = box[n]
    <3>1. dep.mode \in Modes /\ dep.name \in Names /\ <<dep.mode, dep.name>> \in Slots
      BY <2>1, Where
    <3>2. CASE dep.mode = "docker" /\ dep.name = n
      BY <1>2, <3>2
    <3>3. CASE ~(dep.mode = "docker" /\ dep.name = n)
      BY <1>2, <3>1, <3>3
    <3> QED BY <3>2, <3>3
  <2>2. dep.pc = "start" => ~(dep.mode = "docker" /\ dep.name = n)
    BY DEF IInv, OldIsGone
  <2> QED BY <2>1, <2>2 DEF IInv, OldIsGone
<1>7. OthersAreGone'
  <2>1. ASSUME dep.pc # "idle", NEW m \in {"systemd", "nohup"}
        PROVE  proc'[m, dep.name] = proc[m, dep.name]
    <3>1. <<m, dep.name>> \in Slots /\ <<m, dep.name>> # <<"docker", n>>
      BY <2>1, Where
    <3> QED BY <1>2, <3>1
  <2> QED BY <2>1 DEF IInv, OthersAreGone
<1>8. DepOK'
  BY <1>6, <1>7, InParts DEF DepOK, Busy
<1> QED BY <1>2, <1>5, <1>8

\* docker restart, which starts the container or, its port being held, only stops it.
LEMMA Restarting ==
    ASSUME IInv, NEW c \in Clients, ExecRestart(c)
    PROVE  IInv'
<1>0. call[c] \in CallRecords /\ call[c].name \in Names /\ call[c].op = "restart"
  BY DEF IInv, Typed, ExecRestart
<1>1. PICK n \in Names : n = call[c].name
  BY <1>0
<1>2. PICK freed : freed = Frees({proc["docker", n]})
  OBVIOUS
<1>3. /\ box[n] # 0
      /\ proc' = [proc EXCEPT ![<<"docker", n>>] = IF freed = 0 THEN box[n] ELSE 0]
      /\ port' = IF freed = 0 THEN box[n] ELSE freed
      /\ since' = (since \/ (about = n /\ freed = 0))
      /\ call' = [d \in Clients |->
             IF d = c THEN IF freed = 0 THEN [call[c] EXCEPT !.op = "inspect"] ELSE NoCall
             ELSE [call[d] EXCEPT !.old = @ \/ (SawStopped(d, n) /\ freed = 0)]]
      /\ paused' = paused \ {n}
      /\ UNCHANGED <<app, probing, status, about, box, enabled, pidfile, lingering, dep, last>>
  BY <1>1, <1>2 DEF ExecRestart
<1>4. /\ HostOK' /\ DepOK' /\ \A s \in Slots : s # <<"docker", n>> => proc'[s] = proc[s]
      /\ freed # 0 => proc'["docker", n] = 0
  <2>1. CASE freed = 0
    <3>1. proc' = [proc EXCEPT ![<<"docker", n>>] = box[n]] /\ port' = box[n]
      BY <1>3, <2>1
    <3>2. paused' \subseteq paused /\ UNCHANGED <<box, enabled, pidfile, lingering, dep, last>>
      BY <1>3
    <3> QED BY <1>3, <2>1, <3>1, <3>2, ContainerStarts
  <2>2. CASE freed # 0
    <3>1. /\ proc' = [proc EXCEPT ![<<"docker", n>>] = 0] /\ port' = Frees({proc["docker", n]})
          /\ "docker" \in Modes /\ enabled' \subseteq Names /\ paused' \subseteq Names
      BY <1>2, <1>3, <2>2 DEF Modes, IInv, TypeOK
    <3>2. /\ Ends /\ proc'["docker", n] = 0
          /\ \A s \in Slots : s # <<"docker", n>> => proc'[s] = proc[s]
      BY <1>3, <3>1, OneEnds
    <3>3. HostOK' /\ DepOK'
      BY <1>3, <3>2, EndsAround
    <3> QED BY <3>2, <3>3
  <2> QED BY <2>1, <2>2
<1>5. /\ call'[c] \in CallRecords /\ call'[c].op # "write"
      /\ call'[c].op # "none" => call'[c].name \in Names
  <2>1. CASE freed = 0
    <3>1. call'[c] = [call[c] EXCEPT !.op = "inspect"]
      BY <1>3, <2>1
    <3> QED BY <1>0, <3>1 DEF CallRecords
  <2>2. CASE freed # 0
    BY <1>3, <2>2, NoCallIs
  <2> QED BY <2>1, <2>2
<1>6. ASSUME NEW d \in Clients, d # c
      PROVE  /\ call'[d] \in CallRecords
             /\ call'[d].op = call[d].op /\ call'[d].name = call[d].name
             /\ call'[d].seen = call[d].seen
             /\ call'[d].old <=>
                   (call[d].old \/ (call[d].seen = "stopped" /\ call[d].name = n /\ freed = 0))
  <2>1. PICK k \in CallRecords : k = call[d]
    BY DEF IInv, Typed
  <2>2. PICK o \in BOOLEAN : o = (k.old \/ (k.seen = "stopped" /\ k.name = n /\ freed = 0))
    OBVIOUS
  <2>3. call'[d] = [k EXCEPT !.old = o]
    BY <1>3, <1>6, <2>1, <2>2 DEF SawStopped
  <2> QED BY <2>1, <2>2, <2>3 DEF CallRecords
<1>7. call' \in [Clients -> CallRecords]
  <2>1. call' = [d \in Clients |-> call'[d]]
    BY <1>3
  <2>2. \A d \in Clients : call'[d] \in CallRecords
    BY <1>5, <1>6
  <2> QED BY <2>1, <2>2
<1>8. ASSUME NEW k \in Names, k # n \/ freed # 0, proc["docker", k] = 0
      PROVE  proc'["docker", k] = 0
  <2>1. <<"docker", k>> \in Slots
    BY DEF Slots, Modes
  <2>2. CASE k = n
    BY <1>4, <1>8, <2>2
  <2>3. CASE k # n
    BY <1>4, <1>8, <2>1, <2>3
  <2> QED BY <2>2, <2>3
<1>9. SeenIsTrue'
  <2> SUFFICES ASSUME NEW d \in Clients, call'[d].op = "write"
               PROVE  /\ call'[d].seen # "none"
                      /\ call'[d].seen = "stopped" /\ ~call'[d].old =>
                            proc'["docker", call'[d].name] = 0
    BY DEF SeenIsTrue
  <2>1. d # c /\ call[d].op = "write" /\ call[d].name \in Names
    BY <1>5, <1>6 DEF IInv, Typed
  <2> QED BY <1>6, <1>8, <2>1 DEF IInv, SeenIsTrue
<1>10. since' \in BOOLEAN /\ (since' <=> since \/ (about = n /\ freed = 0))
  BY <1>3 DEF IInv, TypeOK
<1>11. StatusIsOfAContainer' /\ StoppedMeansStopped'
  BY <1>3, <1>8, <1>10 DEF IInv, StatusIsOfAContainer, StoppedMeansStopped
<1>12. CallsOK'
  <2>1. \A d \in Clients : call'[d].op # "none" => call'[d].name \in Names
    BY <1>5, <1>6 DEF IInv, Typed
  <2> QED BY <1>3, <1>7, <1>9, <1>10, <1>11, <2>1 DEF CallsOK, IInv, TypeOK
<1>13. RestOK'
  BY <1>3, InParts DEF RestOK
<1> QED BY <1>4, <1>12, <1>13, OfParts

\* What happens otherwise and starts no program.
LEMMA EventSteps ==
    ASSUME IInv,
           \/ \E m \in Modes, n \in Names : ChangeSettings(m, n)
           \/ \E s \in DOMAIN proc : TakePort(s) \/ Crash(s)
           \/ \E n \in Names : \/ PortHeld(n) \/ HandStop(n, TRUE) \/ HandStop(n, FALSE)
                             \/ HandPause(n) \/ HandResume(n)
           \/ \E v \in Versions : LingeringEnds(v)
           \/ Reboot
    PROVE  IInv'
<1>0. /\ DOMAIN proc = Slots /\ paused \subseteq Names /\ enabled \subseteq Names /\ pidfile \subseteq Names
      /\ lingering \subseteq Versions /\ Modes = {"systemd", "nohup", "docker"}
      /\ proc \in Procs /\ box \in [Names -> 0..MaxDeploys]
      /\ \A n \in Names :
            /\ proc["docker", n] \in {0, box[n]}
            /\ proc["systemd", n] # 0 => n \in enabled
            /\ proc["nohup", n] # 0 => n \in pidfile
  BY DEF IInv, TypeOK, Modes, Slots, Procs
<1>a. ASSUME Ends, UNCHANGED <<app, probing, rowVars, dep, last, call, enabled>>
      PROVE  IInv'
  <2>1. HostOK' /\ CallsOK' /\ RestOK'
    BY <1>a, EndsElsewhere
  <2>2. DepOK'
    BY <1>a, DepStays, InParts
  <2> QED BY <2>1, <2>2, OfParts
<1>1. ASSUME NEW m \in Modes, NEW n \in Names, ChangeSettings(m, n)
      PROVE  IInv'
  <2>1. RestOK'
    BY <1>1, InParts DEF RestOK, ChangeSettings
  <2>2. Ends /\ enabled' = enabled
    BY <1>1, HostStays DEF ChangeSettings
  <2>3. UNCHANGED <<rowVars, call, dep, last>>
    BY <1>1 DEF ChangeSettings
  <2>4. \A k \in Names : proc'["docker", k] = proc["docker", k]
    BY <1>1 DEF ChangeSettings, hostVars
  <2> QED BY <2>1, <2>2, <2>3, <2>4, CallsStay, DepStays, HostEnds, InParts, OfParts
<1>2. ASSUME NEW s \in Slots, TakePort(s)
      PROVE  IInv'
  <2>1. Ends
    BY <1>0, <1>2, NoneEnds DEF TakePort
  <2> QED BY <1>2, <2>1, <1>a DEF TakePort
<1>3. ASSUME NEW s \in Slots, Crash(s)
      PROVE  IInv'
  <2>1. UNCHANGED <<app, probing, rowVars, box, paused, enabled, pidfile, lingering, dep, last,
                    call>>
        /\ port' = Frees({proc[s]})
    BY <1>3 DEF Crash
  <2>2. CASE s[1] = "nohup"
    <3>1. PICK n \in Names : s = <<"nohup", n>>
      BY <2>2, SlotIs
    <3>2. proc' = [proc EXCEPT ![<<"nohup", n>>] = 0] /\ port' = Frees({proc["nohup", n]})
      BY <1>3, <2>1, <2>2, <3>1 DEF Crash
    <3>3. Ends
      BY <1>0, <2>1, <3>2, OneEnds
    <3> QED BY <2>1, <3>3, <1>a
  <2>3. CASE s[1] # "nohup"
    <3>1. proc' = proc
      BY <1>3, <2>3 DEF Crash
    <3>2. port' \in {0, port}
      BY <2>1 DEF Frees
    <3>3. Ends
      BY <1>0, <2>1, <3>1, <3>2, NoneEnds
    <3> QED BY <2>1, <3>3, <1>a
  <2> QED BY <2>2, <2>3
<1>4. ASSUME NEW n \in Names, PortHeld(n)
      PROVE  IInv'
  <2>1. /\ proc' = [proc EXCEPT ![<<"nohup", n>>] = 0] /\ port' = port
        /\ port # proc["nohup", n]
        /\ paused' = paused
        /\ UNCHANGED <<app, probing, rowVars, box, enabled, pidfile, lingering, dep, last, call>>
    BY <1>4 DEF PortHeld
  <2>2. port' = Frees({proc["nohup", n]})
    BY <2>1 DEF Frees
  <2>3. Ends
    BY <1>0, <2>1, <2>2, OneEnds
  <2> QED BY <2>1, <2>3, <1>a
<1>5. ASSUME NEW n \in Names, HandStop(n, TRUE) \/ HandStop(n, FALSE)
      PROVE  IInv'
  <2>1. /\ proc' = [proc EXCEPT ![<<"docker", n>>] = 0] /\ port' = Frees({proc["docker", n]})
        /\ box' = box \/ box' = [box EXCEPT ![n] = 0]
        /\ paused' = paused \ {n}
        /\ UNCHANGED <<app, probing, rowVars, enabled, pidfile, lingering, dep, last, call>>
    BY <1>5 DEF HandStop
  <2>2. Ends
    BY <1>0, <2>1, OneEnds
  <2> QED BY <2>1, <2>2, <1>a
<1>6. ASSUME NEW v \in Versions, LingeringEnds(v)
      PROVE  IInv'
  <2>1. /\ lingering' = lingering \ {v} /\ port' = Frees({v})
        /\ paused' = paused
        /\ UNCHANGED <<app, probing, rowVars, proc, box, enabled, pidfile, dep, last, call>>
    BY <1>6 DEF LingeringEnds
  <2>2. port' = 0 \/ (port' = port /\ (port \in lingering => port \in lingering'))
    BY <2>1 DEF Frees
  <2>3. Ends
    BY <1>0, <2>1, <2>2, NoneEnds
  <2> QED BY <2>1, <2>3, <1>a
<1>7. CASE Reboot
  <2>1. /\ proc' = [s \in Slots |->
             IF s[1] = "nohup" \/ (s[1] = "systemd" /\ s[2] \notin enabled) THEN 0 ELSE proc[s]]
        /\ lingering' = {} /\ port' = 0 /\ paused' = {}
        /\ UNCHANGED <<app, probing, rowVars, box, enabled, pidfile, dep, last, call>>
    BY <1>0, <1>7 DEF Reboot
  <2>2. \A s \in Slots : proc'[s] \in {0, proc[s]}
    BY <2>1
  <2>3. proc' \in Procs
    <3>1. \A s \in Slots : proc'[s] \in 0..MaxDeploys
      BY <1>0, <2>2, Zero DEF Procs
    <3> QED BY <2>1, <3>1 DEF Procs
  <2>4. ASSUME NEW n \in Names
        PROVE  /\ proc'["docker", n] \in {0, box[n]}
               /\ proc'["systemd", n] # 0 => n \in enabled
               /\ proc'["nohup", n] # 0 => n \in pidfile
    <3>1. /\ <<"docker", n>> \in Slots /\ <<"systemd", n>> \in Slots /\ <<"nohup", n>> \in Slots
      BY DEF Slots, Modes
    <3> QED BY <1>0, <2>2, <3>1
  <2>5. Ends
    BY <1>0, <2>1, <2>2, <2>3, <2>4 DEF Ends
  <2> QED BY <2>1, <2>5, <1>a
<1>8. ASSUME NEW n \in Names, HandPause(n) \/ HandResume(n)
      PROVE  IInv'
  <2>1. /\ paused' \subseteq paused \cup {n}
        /\ UNCHANGED <<app, probing, rowVars, proc, box, enabled, pidfile, lingering, port, dep,
                       last, call>>
    BY <1>8 DEF HandPause, HandResume
  <2>2. Ends
    BY <1>0, <2>1, NoneEnds
  <2> QED BY <2>1, <2>2, <1>a
<1> QED BY <1>0, <1>1, <1>2, <1>3, <1>4, <1>5, <1>6, <1>7, <1>8

\* The user starts a container.
LEMMA HandStarts ==
    ASSUME IInv, NEW n \in Names, HandStart(n)
    PROVE  IInv'
<1>1. /\ box[n] # 0 /\ proc' = [proc EXCEPT ![<<"docker", n>>] = box[n]] /\ port' = box[n]
      /\ Started(n) /\ paused' = paused
      /\ UNCHANGED <<app, probing, status, about, box, enabled, pidfile, lingering, dep, last>>
  BY DEF HandStart
<1>2. /\ HostOK' /\ DepOK'
      /\ \A s \in Slots : s # <<"docker", n>> => proc'[s] = proc[s]
  BY <1>1, ContainerStarts
<1>3. CallsOK'
  BY <1>1, <1>2, StartedCalls
<1>4. RestOK'
  BY <1>1, InParts DEF RestOK
<1> QED BY <1>2, <1>3, <1>4, OfParts


-----------------------------------------------------------------------------
(* The theorems                                                             *)

\* Nothing runs to begin with, and nobody asks for anything.
LEMMA Start == HostRuntimesAssumption /\ Init => IInv
<1> SUFFICES ASSUME HostRuntimesAssumption, Init PROVE IInv
  OBVIOUS
<1>1. 0 \in 0..MaxDeploys
  BY Zero
<1>2. /\ proc = [s \in Modes \X Names |-> 0] /\ box = [n \in Names |-> 0]
      /\ \A m \in Modes, n \in Names : proc[m, n] = 0
      /\ {"systemd", "nohup", "docker"} = Modes
  BY DEF Init, Modes
<1>3. NoCall \in CallRecords /\ NoCall.op = "none"
  BY NoCallIs
<1>4. NoDep \in DepRecords /\ NoDep.pc = "idle"
  BY DEF NoDep, DepRecords, Modes
<1>5. TypeOK
  <2>1. /\ proc \in [Modes \X Names -> 0..MaxDeploys]
        /\ \A n \in Names : proc["docker", n] = 0 /\ proc["systemd", n] = 0 /\ proc["nohup", n] = 0
        /\ box \in [Names -> 0..MaxDeploys] /\ \A n \in Names : box[n] = 0
    BY <1>1, <1>2
  <2>2. \A c \in Clients : call[c].op = "none"
    BY <1>3 DEF Init
  <2> QED BY <2>1, <2>2, <1>1, <1>4 DEF TypeOK, Init
<1>6. Typed /\ SeenIsTrue
  BY <1>3, <1>4 DEF Typed, SeenIsTrue, Busy, Init
<1>7. OldIsGone /\ OthersAreGone
  BY <1>4 DEF OldIsGone, OthersAreGone, Init
<1>8. StatusIsOfAContainer /\ StoppedMeansStopped
  BY DEF StatusIsOfAContainer, StoppedMeansStopped, Init
<1> QED BY <1>5, <1>6, <1>7, <1>8 DEF IInv

\* Every step keeps the invariant.
LEMMA Step == HostRuntimesAssumption /\ IInv /\ [Next]_vars => IInv'
<1> SUFFICES ASSUME HostRuntimesAssumption, IInv, [Next]_vars PROVE IInv'
  OBVIOUS
<1>1. CASE DeployNext
  <2>1. CASE Begin \/ StopOtherFails \/ SeenRunning \/ ProbeAnswered
    BY <2>1, LookingStep
  <2>2. CASE Fail \/ WaitFails \/ ProbeFails \/ Record \/ RecordFails
    BY <2>2, OverSteps
  <2>3. CASE SystemdStopsOthers \/ NohupStopsOthers \/ DockerStopsOthers
    BY <2>3, StopsOthers
  <2>4. CASE StopOldSystemd \/ StopOldNohup \/ StopOldDocker
    BY <2>4, StopsOld
  <2>5. CASE StartProgram \/ StartContainer
    BY <2>5, Starts
  <2> QED BY <1>1, <2>1, <2>2, <2>3, <2>4, <2>5 DEF DeployNext
<1>2. CASE ClientNext
  <2>1. PICK c \in Clients :
          \/ \E op \in {"list", "stop", "restart"} : Load(c, op)
          \/ CallFails(c) \/ ExecStop(c) \/ ExecRestart(c) \/ WriteStatus(c)
          \/ ReadState(c) \/ ReadUnknown(c)
    BY <1>2 DEF ClientNext
  <2>2. CASE \/ \E op \in {"list", "stop", "restart"} : Load(c, op)
             \/ CallFails(c) \/ ReadState(c) \/ ReadUnknown(c) \/ WriteStatus(c)
    BY <2>2, RequestSteps
  <2>3. CASE ExecStop(c)
    BY <2>3, Stopping
  <2>4. CASE ExecRestart(c)
    BY <2>4, Restarting
  <2> QED BY <2>1, <2>2, <2>3, <2>4
<1>3. CASE HostNext
  <2>1. CASE \E n \in Names : HandStart(n)
    BY <2>1, HandStarts
  <2>2. CASE \/ \E m \in Modes, n \in Names : ChangeSettings(m, n)
             \/ \E s \in DOMAIN proc : TakePort(s) \/ Crash(s)
             \/ \E n \in Names : \/ PortHeld(n) \/ HandStop(n, TRUE) \/ HandStop(n, FALSE)
                               \/ HandPause(n) \/ HandResume(n)
             \/ \E v \in Versions : LingeringEnds(v)
             \/ Reboot
    BY <2>2, EventSteps
  <2> QED BY <1>3, <2>1, <2>2 DEF HostNext
<1>4. CASE UNCHANGED vars
  <2>1. UNCHANGED <<app, probing, rowVars, hostVars, dep, last, call>>
    BY <1>4 DEF vars
  <2>2. Ends /\ enabled' = enabled /\ \A s \in Slots : proc'[s] = proc[s]
    BY <2>1, HostStays
  <2>3. HostOK' /\ DepOK' /\ RestOK'
    BY <2>1, <2>2, EndsAround
  <2>4. \A n \in Names : proc["docker", n] = 0 => proc'["docker", n] = 0
    BY <2>2 DEF Slots, Modes
  <2>5. CallsOK'
    BY <2>1, <2>4, InParts, CallsStay
  <2> QED BY <2>3, <2>5, OfParts
<1> QED BY <1>1, <1>2, <1>3, <1>4 DEF Next

(* The inductive invariant holds of every behaviour.                        *)
THEOREM Invariance == Spec => []IInv
<1>1. HostRuntimesAssumption
  BY HostRuntimesAssumption
<1> QED BY <1>1, Start, Step, PTL DEF Spec

(* The variables keep their types, a live container is there, and who holds *)
(* the port is alive.                                                       *)
THEOREM TypeCorrect == Spec => []TypeOK
<1>1. IInv => TypeOK
  BY DEF IInv
<1> QED BY <1>1, Invariance, PTL

(* A row that says stopped tells the truth of the container it was read     *)
(* from, whatever StopRuntime, RestartRuntime, SyncRuntimeByApp and         *)
(* deployments do at the same time: unless it has been started since, or    *)
(* was paused or not to be inspected when it was read.                      *)
THEOREM StoppedMeansStoppedHolds == Spec => []StoppedMeansStopped
<1>1. IInv => StoppedMeansStopped
  BY DEF IInv
<1> QED BY <1>1, Invariance, PTL

\* Of the steps of a deployment only an answered probe leads from the probe to the record.
LEMMA OnlyTheProbe ==
    ASSUME IInv, [Next]_vars, dep.pc = "probe", dep'.pc = "record"
    PROVE  ProbeAnswered
<1>1. NoDep.pc = "idle"
  BY DEF NoDep
<1>2. CASE DeployNext
  <2>1. ASSUME NEW p \in Pcs, Moving(p)
        PROVE  dep'.pc = p
    BY <2>1, MovesTo
  <2>2. {"prepare", "start", "wait"} \subseteq Pcs
    BY DEF Pcs
  <2>3. ~Begin /\ ~Fail /\ ~StopOtherFails /\ ~SeenRunning /\ ~WaitFails /\ ~Record
        /\ ~RecordFails
    BY DEF Begin, Fail, StopOtherFails, SeenRunning, WaitFails, Record, RecordFails
  <2>4. ~SystemdStopsOthers /\ ~NohupStopsOthers /\ ~DockerStopsOthers
    BY DEF SystemdStopsOthers, NohupStopsOthers, DockerStopsOthers
  <2>5. ~StopOldSystemd /\ ~StopOldNohup /\ ~StopOldDocker /\ ~StartProgram /\ ~StartContainer
    BY DEF StopOldSystemd, StopOldNohup, StopOldDocker, StartProgram, StartContainer
  <2>6. ~ProbeFails
    BY <1>1 DEF ProbeFails
  <2> QED BY <1>2, <2>3, <2>4, <2>5, <2>6 DEF DeployNext
<1>3. CASE dep' = dep
  BY <1>3
<1>4. ClientNext => dep' = dep
  BY DEF ClientNext, Load, CallFails, ExecStop, ExecRestart, ReadState, ReadUnknown, WriteStatus
<1>5. HostNext => dep' = dep
  BY DEF HostNext, ChangeSettings, TakePort, Crash, PortHeld, HandStop, HandStart, HandPause,
         HandResume, LingeringEnds, Reboot
<1>6. UNCHANGED vars => dep' = dep
  BY DEF vars
<1> QED BY <1>2, <1>3, <1>4, <1>5, <1>6 DEF Next

\* Who holds the port then is the new program, or something a deployment does not stop.
LEMMA WhoAnswers ==
    ASSUME IInv, dep.pc = "probe", port # 0
    PROVE  port = last \/ dep.missed \/ port \in OutOfReach
<1> SUFFICES ASSUME ~dep.missed, port \notin OutOfReach
    PROVE  port = last
  OBVIOUS
<1>1. dep.mode \in Modes /\ dep.name \in Names /\ Modes = {"systemd", "nohup", "docker"}
  BY Where
<1>2. PICK s \in Slots : port = proc[s]
  BY PortIs DEF OutOfReach
<1>3. PICK m \in Modes, n \in Names : s = <<m, n>> /\ port = proc[m, n]
  <2>1. s[1] \in Modes /\ s[2] \in Names /\ s = <<s[1], s[2]>>
    BY SlotIs
  <2>2. proc[s] = proc[s[1], s[2]]
    BY <2>1
  <2> QED BY <1>2, <2>1, <2>2
<1>4. ASSUME n # dep.name \/ (m = "docker" /\ dep.mode # "docker")
      PROVE  FALSE
  <2>1. s \in DOMAIN proc /\ s[1] = m /\ s[2] = n
    BY <1>3 DEF IInv, TypeOK
  <2> QED BY <1>4, <1>2, <2>1 DEF OutOfReach
<1>5. CASE n # dep.name
  BY <1>4, <1>5
<1>6. CASE n = dep.name /\ m = "docker" /\ dep.mode # "docker"
  BY <1>4, <1>6
<1>7. CASE n = dep.name /\ m = dep.mode
  <2>1. proc[dep.mode, dep.name] \in {0, last}
    BY DEF IInv, OldIsGone
  <2> QED BY <1>3, <1>7, <2>1
<1>8. CASE n = dep.name /\ m # dep.mode /\ m # "docker"
  <2>1. m \in {"systemd", "nohup"} \ {dep.mode}
    BY <1>1, <1>8
  <2>2. proc[m, dep.name] = 0
    BY <2>1 DEF IInv, OthersAreGone
  <2> QED BY <1>3, <1>8, <2>2
<1> QED BY <1>5, <1>6, <1>7, <1>8

(* The health probe of a deployment is answered by the program it started,  *)
(* unless StopOther failed or the port is held by a program out of reach of *)
(* the deployment.                                                          *)
THEOREM AnsweredByTheNewProgramHolds == Spec => AnsweredByTheNewProgram
<1>1. IInv /\ [Next]_vars =>
        [dep.pc = "probe" /\ dep'.pc = "record" =>
          port = last \/ dep.missed \/ port \in OutOfReach]_vars
  <2> SUFFICES ASSUME IInv, [Next]_vars, dep.pc = "probe", dep'.pc = "record"
               PROVE  port = last \/ dep.missed \/ port \in OutOfReach
    OBVIOUS
  <2>1. port # 0
    BY OnlyTheProbe DEF ProbeAnswered
  <2> QED BY <2>1, WhoAnswers
<1> QED BY <1>1, Invariance, PTL DEF Spec, AnsweredByTheNewProgram
=============================================================================
