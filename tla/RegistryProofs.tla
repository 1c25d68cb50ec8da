---------------------------- MODULE RegistryProofs ----------------------------
(***************************************************************************)
(* Proofs about Registry for any number of applications, hosts, services,  *)
(* deployments, requests and runs.  The inductive invariant IInv says what *)
(* a request that has read its rows may still count on: an identifier      *)
(* means the same service wherever it is kept, and a request about to      *)
(* delete has missed only what the properties except.                      *)
(***************************************************************************)
EXTENDS Registry, TLAPS

\* The handlers that work on an application, and those that carry a service they have read.
AppOps == {"insert service", "save service", "count service", "delete service",
           "import", "import insert", "upsert", "upsert save", "upsert insert",
           "bind host", "bind service", "bind"}
BindOps == {"bind host", "bind service", "bind"}
ReadOps == {"save service", "count service", "delete service", "upsert save"}

CallRecords ==
    [op : Ops, parent : Parents \cup {NoRow}, host : Hosts \cup {NoRow}, id : Nat, code : Codes,
     others : BOOLEAN, todo : SUBSET Codes, known : SUBSET Service]
RunRecords ==
    [pc : {"none", "read", "seeded", "deploying", "over"}, deps : SUBSET Deployment,
     bundle : BOOLEAN, items : SUBSET Codes, checked : SUBSET Codes, loaded : SUBSET Codes,
     deployed : SUBSET (1..MaxDeps), lost : SUBSET (1..MaxDeps),
     stop : {"none", "cancelled", "expired"},
     result : {"none", "failed", "cancelled", "success"}]

\* What TypeOK leaves out: the records of requests and runs, and which identifiers are in use.
Typed ==
    /\ call \in [Clients -> CallRecords]
    /\ run \in [Apps -> RunRecords] /\ runs \in [Apps -> 0..MaxRuns]
    /\ \A s \in services : s.id <= lastService
    /\ \A d \in deps : d.id <= lastDep

\* What a request keeps of a service, and what is kept of it anywhere.
Carries(k, i, a, x) ==
    \/ k.op \in ReadOps /\ k.id = i /\ k.parent = a /\ k.code = x
    \/ \E s \in k.known : s.id = i /\ s.app = a /\ s.code = x
Known(i, a, x) ==
    \/ \E s \in services : s.id = i /\ s.app = a /\ s.code = x
    \/ \E c \in Clients : Carries(call[c], i, a, x)

\* An identifier stands for one service, in the table and in every request that has read
\* it, whether the row is still there or not.
IdsStand ==
    /\ \A i \in 1..MaxServices, a \in Apps, x \in Codes : Known(i, a, x) => i <= lastService
    /\ \A i \in 1..MaxServices : \A a, b \in Apps, x, y \in Codes :
          Known(i, a, x) /\ Known(i, b, y) => a = b /\ x = y

\* A deployment, by its identifier, is among those a run in progress has read.
InActive(i) ==
    \E a \in Apps : run[a].pc \notin {"none", "over"} /\ \E d \in run[a].deps : d.id = i

\* The row of a deployment need not say running: its program has not been delivered, or has
\* been stopped since, or the row has been told otherwise.
Loose(i) == i \notin delivered \/ i \in misstated

\* A request is as its handler has left it.  One that has counted the deployments of what it
\* is about to delete has missed only those bound since; one that is about to unbind has
\* missed only a run that had read the row.
Fits(k) ==
    /\ k.op \in {"save", "delete"} => k.parent \in created
    /\ k.op \in AppOps => k.parent \in Apps
    /\ k.op \in BindOps => k.host \in Hosts
    /\ k.op \in ReadOps => k.id \in 1..MaxServices
    /\ k.op = "delete" => \A d \in deps : k.parent \in {d.app, d.host} => d.id \in raced
    /\ k.op = "delete service" =>
          \A d \in deps : d.app = k.parent /\ d.code = k.code => d.id \in raced
    /\ k.op = "unbind" => k.id \in overlapped \/ (Loose(k.id) /\ ~InActive(k.id))
    /\ \A s \in k.known : s.app = k.parent
CallsFit == \A c \in Clients : Fits(call[c])

\* The deployments of a run are those of its application, and while it goes on they are
\* bound, unless they were being unbound when it read them.
PlansAreBound ==
    \A a \in Apps : \A d \in run[a].deps :
        /\ d.app = a /\ d.id <= lastDep
        /\ \A e \in deps : e.id = d.id => e.app = a
        /\ run[a].pc \notin {"none", "over"} =>
              d.id \in overlapped \/ \E e \in deps : e.id = d.id

\* An accepted bundle has an item for each service, but for the default one.
PlansAreChecked ==
    \A a \in Apps :
        /\ (run[a].pc \in {"seeded", "deploying"} \/ run[a].result = "success") /\ run[a].bundle =>
              \A x \in run[a].checked : x = Default \/ x \in run[a].items
        /\ run[a].pc # "over" => run[a].result = "none"

IInv ==
    /\ TypeOK
    /\ Typed
    /\ IdsStand
    /\ CallsFit
    /\ PlansAreBound
    /\ PlansAreChecked
    /\ BoundRowsHaveParents
    /\ DeliveredProgramsAreBound
    /\ AcceptedServicesAreDeployed

-----------------------------------------------------------------------------
(* Requests                                                                 *)

\* A request at rest fits, and carries nothing.
LEMMA NoCallFits ==
    ASSUME RegistryAssumption
    PROVE  /\ NoCall \in CallRecords /\ NoCall.op = "none" /\ NoCall.known = {}
           /\ Fits(NoCall)
           /\ \A i, a, x : ~Carries(NoCall, i, a, x)
<1>1. NoCall \in CallRecords
  BY DEF NoCall, CallRecords, Ops, RegistryAssumption
<1>2. NoCall.op = "none" /\ NoCall.known = {}
  BY DEF NoCall
<1>3. Fits(NoCall)
  BY <1>2 DEF Fits, AppOps, BindOps, ReadOps
<1>4. \A i, a, x : ~Carries(NoCall, i, a, x)
  BY <1>2 DEF Carries, ReadOps
<1> QED BY <1>1, <1>2, <1>3, <1>4

\* What a request counts on does not change when the rows it counts on do not.
LEMMA FitsStay ==
    ASSUME NEW k, Fits(k), created \subseteq created',
           UNCHANGED <<deps, raced, misstated, run>>, delivered' \subseteq delivered,
           overlapped \subseteq overlapped'
    PROVE  Fits(k)'
<1>1. InActive(k.id)' = InActive(k.id) /\ (Loose(k.id) => Loose(k.id)')
  BY DEF InActive, Loose
<1> QED BY <1>1 DEF Fits

\* Nor when they only change their status, as long as an Unbind keeps what it counts on.
LEMMA FitsRestated ==
    ASSUME NEW k, Fits(k), UNCHANGED <<created, raced>>,
           \A e \in deps' : \E f \in deps :
               e.id = f.id /\ e.app = f.app /\ e.host = f.host /\ e.code = f.code,
           k.op = "unbind" => k.id \in overlapped' \/ (Loose(k.id)' /\ ~InActive(k.id)')
    PROVE  Fits(k)'
<1>1. k.op = "delete" => \A e \in deps' : k.parent \in {e.app, e.host} => e.id \in raced'
  <2>1. k.op = "delete" => \A f \in deps : k.parent \in {f.app, f.host} => f.id \in raced
    BY DEF Fits
  <2> SUFFICES ASSUME k.op = "delete", NEW e \in deps', k.parent \in {e.app, e.host}
               PROVE  e.id \in raced
    OBVIOUS
  <2>2. PICK f \in deps : e.id = f.id /\ e.app = f.app /\ e.host = f.host
    OBVIOUS
  <2> QED BY <2>1, <2>2
<1>2. k.op = "delete service" =>
         \A e \in deps' : e.app = k.parent /\ e.code = k.code => e.id \in raced'
  <2>1. k.op = "delete service" =>
           \A f \in deps : f.app = k.parent /\ f.code = k.code => f.id \in raced
    BY DEF Fits
  <2> SUFFICES ASSUME k.op = "delete service", NEW e \in deps', e.app = k.parent, e.code = k.code
               PROVE  e.id \in raced
    OBVIOUS
  <2>2. PICK f \in deps : e.id = f.id /\ e.app = f.app /\ e.code = f.code
    OBVIOUS
  <2> QED BY <2>1, <2>2
<1> QED BY <1>1, <1>2 DEF Fits

\* Nothing is known of a service after a step that neither writes one nor has a request
\* carry what was not known.
LEMMA NothingNewKnown ==
    ASSUME Typed, services' = services, NEW c \in Clients, NEW k,
           call' = [call EXCEPT ![c] = k],
           \A i, a, x : Carries(k, i, a, x) => Known(i, a, x)
    PROVE  \A i, a, x : Known(i, a, x)' => Known(i, a, x)
<1>1. \A d \in Clients : call'[d] = IF d = c THEN k ELSE call[d]
  BY DEF Typed
<1> SUFFICES ASSUME NEW i, NEW a, NEW x, Known(i, a, x)'
             PROVE  Known(i, a, x)
  OBVIOUS
<1>2. CASE \E s \in services' : s.id = i /\ s.app = a /\ s.code = x
  BY <1>2 DEF Known
<1>3. CASE \E d \in Clients : Carries(call'[d], i, a, x)
  <2>1. PICK d \in Clients : Carries(call'[d], i, a, x)
    BY <1>3
  <2>2. CASE d = c
    BY <2>1, <2>2, <1>1
  <2>3. CASE d # c
    BY <2>1, <2>3, <1>1 DEF Known
  <2> QED BY <2>2, <2>3
<1> QED BY <1>2, <1>3 DEF Known

\* What is known stands as long as nothing new is.
LEMMA IdsStillStand ==
    ASSUME IdsStand, lastService' = lastService,
           \A i, a, x : Known(i, a, x)' => Known(i, a, x)
    PROVE  IdsStand'
BY DEF IdsStand

\* A step of the request of c to k, which writes no row; it may stop a program.
CallMoves(c, k) ==
    /\ k \in CallRecords /\ Fits(k)'
    /\ \A i, a, x : Carries(k, i, a, x) => Known(i, a, x)
    /\ call' = [call EXCEPT ![c] = k] /\ calls' \in 0..MaxCalls
    /\ UNCHANGED <<rows, created, svcVars, depVars, run, runs, raced, misstated>>
    /\ delivered' \subseteq delivered
    /\ overlapped \subseteq overlapped' /\ overlapped' \subseteq 1..MaxDeps

\* Such a step keeps the invariant.
LEMMA CallStep ==
    ASSUME IInv, NEW c \in Clients, NEW k, CallMoves(c, k)
    PROVE  IInv'
<1> USE DEF IInv, CallMoves, svcVars, depVars
<1>1. /\ call' \in [Clients -> CallRecords]
      /\ \A d \in Clients : call'[d] = IF d = c THEN k ELSE call[d]
  BY DEF Typed
<1>2. \A d \in Clients : call'[d].op \in Ops
  BY <1>1 DEF CallRecords
<1>3. TypeOK'
  BY <1>2 DEF TypeOK
<1>4. Typed'
  BY <1>1 DEF Typed
<1>5. IdsStand'
  BY NothingNewKnown, IdsStillStand
<1>6. CallsFit'
  <2>1. ASSUME NEW d \in Clients, d # c
        PROVE  Fits(call[d])'
    <3>1. PICK l : l = call[d]
      OBVIOUS
    <3>2. Fits(l)'
      BY <3>1, FitsStay DEF CallsFit
    <3>3. call'[d] = l
      BY <3>1, <2>1, <1>1
    <3> QED BY <3>2, <3>3
  <2>2. Fits(call[c])'
    BY <1>1
  <2> QED BY <2>1, <2>2 DEF CallsFit
<1>7. PlansAreBound' /\ PlansAreChecked'
  BY DEF PlansAreBound, PlansAreChecked
<1>8. BoundRowsHaveParents' /\ DeliveredProgramsAreBound' /\ AcceptedServicesAreDeployed'
  BY DEF BoundRowsHaveParents, ServiceRows, DeliveredProgramsAreBound, AcceptedServicesAreDeployed
<1> QED BY <1>3, <1>4, <1>5, <1>6, <1>7, <1>8

\* The same for a step that changes no history.
JustCalls(c, k) ==
    /\ k \in CallRecords /\ Fits(k)
    /\ \A i, a, x : Carries(k, i, a, x) => Known(i, a, x)
    /\ call' = [call EXCEPT ![c] = k]
    /\ calls' = calls \/ (calls < MaxCalls /\ calls' = calls + 1)
    /\ UNCHANGED <<rows, created, svcVars, depVars, runVars, history>>

\* It keeps the invariant by CallStep.
LEMMA JustCallsStep ==
    ASSUME RegistryAssumption, IInv, NEW c \in Clients, NEW k, JustCalls(c, k)
    PROVE  IInv'
<1>1. Fits(k)'
  BY FitsStay DEF JustCalls, depVars, runVars, history
<1>2. calls' \in 0..MaxCalls
  BY DEF JustCalls, IInv, TypeOK, RegistryAssumption
<1>3. overlapped' \subseteq 1..MaxDeps
  BY DEF JustCalls, IInv, TypeOK, history
<1>4. CallMoves(c, k)
  BY <1>1, <1>2, <1>3 DEF JustCalls, CallMoves, runVars, history
<1> QED BY <1>4, CallStep

\* A request that returns without writing.
LEMMA Returns ==
    ASSUME RegistryAssumption, IInv, NEW c \in Clients, Return(c),
           UNCHANGED <<rows, created, svcVars, depVars, runVars, history>>
    PROVE  IInv'
<1>1. JustCalls(c, NoCall)
  BY NoCallFits DEF JustCalls, Return, Keep
<1> QED BY <1>1, JustCallsStep

\* The first query of an update or a deletion of an application or a host: the count of the
\* deployments is of this moment.
LEMMA ParentFinds ==
    ASSUME RegistryAssumption, IInv, NEW c \in Clients, NEW p \in Parents,
           UpdateFind(c, p) \/ DeleteCount(c, p)
    PROVE  IInv'
<1> USE NoCallFits
<1>1. CASE UpdateFind(c, p)
  <2>1. PICK k : k = [NoCall EXCEPT !.op = "save", !.parent = p]
    OBVIOUS
  <2>2. k \in CallRecords /\ k.op = "save" /\ k.parent = p /\ k.known = {}
    BY <2>1 DEF CallRecords, Ops
  <2>3. Fits(k) /\ \A i, a, x : ~Carries(k, i, a, x)
    BY <2>2, <1>1 DEF Fits, AppOps, BindOps, ReadOps, Carries, UpdateFind, IInv, TypeOK
  <2>4. JustCalls(c, k)
    BY <2>1, <2>2, <2>3, <1>1 DEF JustCalls, UpdateFind, Idle, Accept
  <2> QED BY <2>4, JustCallsStep
<1>2. CASE DeleteCount(c, p)
  <2>1. PICK k : k = [NoCall EXCEPT !.op = "delete", !.parent = p]
    OBVIOUS
  <2>2. k \in CallRecords /\ k.op = "delete" /\ k.parent = p /\ k.known = {}
    BY <2>1 DEF CallRecords, Ops
  <2>3. p \in created /\ \A d \in deps : p \notin {d.app, d.host}
    BY <1>2 DEF DeleteCount, Unreferenced, BoundTo
  <2>4. Fits(k) /\ \A i, a, x : ~Carries(k, i, a, x)
    BY <2>2, <2>3 DEF Fits, AppOps, BindOps, ReadOps, Carries
  <2>5. JustCalls(c, k)
    BY <2>1, <2>2, <2>4, <1>2 DEF JustCalls, DeleteCount, Idle, Accept
  <2> QED BY <2>5, JustCallsStep
<1> QED BY <1>1, <1>2

\* The first query of a creation, an update or a deletion of a service, and of a binding.
LEMMA ServiceFinds ==
    ASSUME RegistryAssumption, IInv, NEW c \in Clients
    PROVE  /\ \A a \in Apps, x \in Codes : ServiceCreate(c, a, x) => IInv'
           /\ \A s \in services, op \in {"save service", "count service"} :
                 ServiceFind(c, s, op) => IInv'
           /\ \A a \in Apps, h \in Hosts : BindApp(c, a, h) => IInv'
<1>0. \A i \in 1..MaxServices : i \in Nat
  BY DEF RegistryAssumption
<1> USE NoCallFits
<1>1. ASSUME NEW a \in Apps, NEW x \in Codes, ServiceCreate(c, a, x)
      PROVE  IInv'
  <2>1. PICK k : k = [NoCall EXCEPT !.op = "insert service", !.parent = a, !.code = x]
    OBVIOUS
  <2>2. k \in CallRecords /\ k.op = "insert service" /\ k.parent = a /\ k.known = {}
    BY <2>1 DEF CallRecords, Ops, Parents
  <2>3. Fits(k) /\ \A i, b, y : ~Carries(k, i, b, y)
    BY <2>2 DEF Fits, AppOps, BindOps, ReadOps, Carries
  <2>4. JustCalls(c, k)
    BY <2>1, <2>2, <2>3, <1>1 DEF JustCalls, ServiceCreate, Idle, Accept
  <2> QED BY <2>4, JustCallsStep
<1>2. ASSUME NEW s \in services, NEW op \in {"save service", "count service"},
             ServiceFind(c, s, op)
      PROVE  IInv'
  <2>1. PICK k : k = [NoCall EXCEPT !.op = op, !.parent = s.app, !.id = s.id, !.code = s.code]
    OBVIOUS
  <2>2. s.app \in Apps /\ s.id \in 1..MaxServices /\ s.id \in Nat /\ s.code \in Codes
        /\ s.app \in Parents /\ op \in Ops
    <3>1. s \in Service
      BY DEF IInv, TypeOK
    <3>2. s.app \in Apps /\ s.id \in 1..MaxServices /\ s.code \in Codes
      BY <3>1 DEF Service
    <3> QED BY <1>0, <3>2 DEF Parents, Ops
  <2>3. /\ k \in CallRecords /\ k.op = op /\ k.parent = s.app /\ k.id = s.id
        /\ k.code = s.code /\ k.known = {}
    BY <2>1, <2>2 DEF CallRecords
  <2>4. Fits(k)
    BY <2>2, <2>3 DEF Fits, BindOps
  <2>5. \A i, a, x : Carries(k, i, a, x) => Known(i, a, x)
    BY <2>3 DEF Carries, Known
  <2>6. JustCalls(c, k)
    BY <2>1, <2>3, <2>4, <2>5, <1>2 DEF JustCalls, ServiceFind, Idle, Accept
  <2> QED BY <2>6, JustCallsStep
<1>3. ASSUME NEW a \in Apps, NEW h \in Hosts, BindApp(c, a, h)
      PROVE  IInv'
  <2>1. PICK k : k = [NoCall EXCEPT !.op = "bind host", !.parent = a, !.host = h]
    OBVIOUS
  <2>2. k \in CallRecords /\ k.op = "bind host" /\ k.parent = a /\ k.host = h /\ k.known = {}
    BY <2>1 DEF CallRecords, Ops, Parents
  <2>3. Fits(k) /\ \A i, b, y : ~Carries(k, i, b, y)
    BY <2>2 DEF Fits, ReadOps, Carries
  <2>4. JustCalls(c, k)
    BY <2>1, <2>2, <2>3, <1>3 DEF JustCalls, BindApp, Idle, Accept
  <2> QED BY <2>4, JustCallsStep
<1> QED BY <1>1, <1>2, <1>3

\* A request goes on with what it carries, to a query that asks no more of it.
GoesOn(c, k) ==
    /\ k \in CallRecords
    /\ k.parent = call[c].parent /\ k.host = call[c].host /\ k.known = call[c].known
    /\ call[c].op \in AppOps /\ (k.op \in BindOps => call[c].op \in BindOps)
    /\ k.op \in AppOps /\ k.op # "delete service"
    /\ k.op \in ReadOps =>
          /\ k.id \in 1..MaxServices
          /\ Known(k.id, k.parent, k.code)

\* Such a request fits.
LEMMA GoesOnFits ==
    ASSUME IInv, NEW c \in Clients, NEW k, GoesOn(c, k)
    PROVE  /\ k \in CallRecords /\ Fits(k)
           /\ \A i, a, x : Carries(k, i, a, x) => Known(i, a, x)
<1>1. Fits(call[c])
  BY DEF IInv, CallsFit
<1>2. Fits(k)
  BY <1>1 DEF Fits, GoesOn, AppOps
<1>3. ASSUME NEW i, NEW a, NEW x, Carries(k, i, a, x)
      PROVE  Known(i, a, x)
  <2>1. CASE k.op \in ReadOps /\ k.id = i /\ k.parent = a /\ k.code = x
    BY <2>1 DEF GoesOn
  <2>2. CASE \E s \in k.known : s.id = i /\ s.app = a /\ s.code = x
    BY <2>2 DEF GoesOn, Known, Carries
  <2> QED BY <1>3, <2>1, <2>2 DEF Carries
<1> QED BY <1>2, <1>3 DEF GoesOn

\* It keeps the invariant.
LEMMA GoesOnStep ==
    ASSUME RegistryAssumption, IInv, NEW c \in Clients, NEW k, GoesOn(c, k), Keep(c, k),
           UNCHANGED <<rows, created, svcVars, depVars, runVars, history>>
    PROVE  IInv'
<1>1. JustCalls(c, k)
  BY GoesOnFits DEF JustCalls, Keep
<1> QED BY <1>1, JustCallsStep

\* The count before the deletion of a service; an import that looks at its next item.
LEMMA ServiceGoesOn ==
    ASSUME RegistryAssumption, IInv, NEW c \in Clients,
           \/ ServiceCount(c)
           \/ \E x \in Codes : ImportSkip(c, x) \/ ImportFind(c, x) \/ ImportApp(c, x)
    PROVE  IInv'
<1>0. call[c] \in CallRecords /\ Fits(call[c])
  BY DEF IInv, Typed, CallsFit
<1>1. CASE ServiceCount(c)
  <2>1. CASE ServiceUnreferenced(call[c].parent, call[c].code)
    <3>1. PICK k : k = [call[c] EXCEPT !.op = "delete service"]
      OBVIOUS
    <3>2. /\ k \in CallRecords /\ k.op = "delete service" /\ k.parent = call[c].parent
          /\ k.id = call[c].id /\ k.code = call[c].code /\ k.known = call[c].known
      BY <1>0, <3>1 DEF CallRecords, Ops
    <3>3. call[c].op = "count service"
      BY <1>1 DEF ServiceCount
    <3>4. \A d \in deps : ~(d.app = k.parent /\ d.code = k.code)
      BY <2>1, <3>2 DEF ServiceUnreferenced
    <3>5. Fits(k)
      BY <1>0, <3>2, <3>3, <3>4 DEF Fits, AppOps, BindOps, ReadOps
    <3>6. \A i, a, x : Carries(k, i, a, x) => Known(i, a, x)
      BY <3>2, <3>3 DEF Carries, Known, ReadOps
    <3>7. JustCalls(c, k)
      BY <1>1, <2>1, <3>1, <3>2, <3>5, <3>6 DEF JustCalls, ServiceCount, Keep
    <3> QED BY <3>7, JustCallsStep
  <2>2. CASE ~ServiceUnreferenced(call[c].parent, call[c].code)
    BY <1>1, <2>2, Returns DEF ServiceCount
  <2> QED BY <2>1, <2>2
<1>2. ASSUME NEW x \in Codes, ImportSkip(c, x)
      PROVE  IInv'
  <2>1. PICK k : k = [call[c] EXCEPT !.todo = @ \ {x}]
    OBVIOUS
  <2>2. /\ k \in CallRecords /\ k.op = call[c].op /\ k.parent = call[c].parent
        /\ k.host = call[c].host /\ k.known = call[c].known
    BY <1>0, <2>1 DEF CallRecords
  <2>3. GoesOn(c, k)
    BY <1>2, <2>2 DEF GoesOn, ImportSkip, AppOps, BindOps, ReadOps
  <2> QED BY <1>2, <2>1, <2>3, GoesOnStep DEF ImportSkip
<1>3. ASSUME NEW x \in Codes, ImportFind(c, x)
      PROVE  IInv'
  <2>1. PICK s \in KnownAs(c, x) :
           IF \E t \in services : t.id = s.id
           THEN Keep(c, [call[c] EXCEPT !.op = "upsert save", !.id = s.id, !.code = x])
           ELSE Return(c)
    BY <1>3 DEF ImportFind
  <2>2. /\ s \in call[c].known /\ s \in Service /\ s.code = x
        /\ s.app = call[c].parent /\ s.id \in 1..MaxServices /\ s.id \in Nat
    <3>1. s \in call[c].known /\ s \in Service /\ s.code = x /\ s.app = call[c].parent
      BY <1>0 DEF KnownAs, CallRecords, Fits
    <3>2. s.id \in 1..MaxServices
      BY <3>1 DEF Service
    <3>3. \A i \in 1..MaxServices : i \in Nat
      BY DEF RegistryAssumption
    <3> QED BY <3>1, <3>2, <3>3
  <2>3. CASE \E t \in services : t.id = s.id
    <3>1. PICK k : k = [call[c] EXCEPT !.op = "upsert save", !.id = s.id, !.code = x]
      OBVIOUS
    <3>2. /\ k \in CallRecords /\ k.op = "upsert save" /\ k.id = s.id /\ k.code = x
          /\ k.parent = call[c].parent /\ k.host = call[c].host /\ k.known = call[c].known
      BY <1>0, <2>2, <3>1 DEF CallRecords, Ops
    <3>3. Known(k.id, k.parent, k.code)
      BY <2>2, <3>2 DEF Known, Carries
    <3>4. GoesOn(c, k)
      BY <1>3, <2>2, <3>2, <3>3 DEF GoesOn, ImportFind, AppOps, BindOps, ReadOps
    <3> QED BY <1>3, <2>1, <2>3, <3>1, <3>4, GoesOnStep DEF ImportFind
  <2>4. CASE ~ \E t \in services : t.id = s.id
    BY <1>3, <2>1, <2>4, Returns DEF ImportFind
  <2> QED BY <2>3, <2>4
<1>4. ASSUME NEW x \in Codes, ImportApp(c, x)
      PROVE  IInv'
  <2>1. CASE call[c].parent \in rows
    <3>1. PICK k : k = [call[c] EXCEPT !.op = Inserting(@), !.code = x]
      OBVIOUS
    <3>2. call[c].op \in {"import", "upsert"}
      BY <1>4 DEF ImportApp, Importing
    <3>3. Inserting(call[c].op) \in {"import insert", "upsert insert"}
      BY DEF Inserting
    <3>4. /\ k \in CallRecords /\ k.op \in {"import insert", "upsert insert"}
          /\ k.parent = call[c].parent /\ k.host = call[c].host /\ k.known = call[c].known
      BY <1>0, <3>1, <3>3 DEF CallRecords, Ops
    <3>5. GoesOn(c, k)
      BY <3>2, <3>4 DEF GoesOn, AppOps, BindOps, ReadOps
    <3> QED BY <1>4, <2>1, <3>1, <3>5, GoesOnStep DEF ImportApp
  <2>2. CASE call[c].parent \notin rows
    BY <1>4, <2>2, Returns DEF ImportApp
  <2> QED BY <2>1, <2>2
<1> QED BY <1>1, <1>2, <1>3, <1>4

\* An import begins with the services it finds.
LEMMA ImportBegins ==
    ASSUME RegistryAssumption, IInv, NEW c \in Clients, NEW a \in Apps, NEW K \in SUBSET Codes,
           NEW upsert \in BOOLEAN, Import(c, a, K, upsert)
    PROVE  IInv'
<1>1. PICK known : known = {s \in services : s.app = a /\ s.code \in K}
  OBVIOUS
<1>2. PICK op : op = IF upsert /\ known # {} THEN "upsert" ELSE "import"
  OBVIOUS
<1>3. PICK others : others = (K # {Default})
  OBVIOUS
<1>4. PICK k : k = [NoCall EXCEPT !.op = op, !.parent = a, !.todo = K, !.known = known,
                                  !.others = others]
  OBVIOUS
<1>5. known \in SUBSET Service /\ op \in {"import", "upsert"} /\ op \in Ops
      /\ others \in BOOLEAN /\ a \in Parents
  BY <1>1, <1>2, <1>3 DEF IInv, TypeOK, Parents, Ops
<1>6. k \in CallRecords /\ k.op = op /\ k.parent = a /\ k.known = known
  BY <1>4, <1>5, NoCallFits DEF CallRecords
<1>7. Fits(k)
  BY <1>1, <1>5, <1>6 DEF Fits, BindOps, ReadOps
<1>8. \A i, b, x : Carries(k, i, b, x) => Known(i, b, x)
  BY <1>1, <1>5, <1>6 DEF Carries, Known, ReadOps
<1>9. Idle(c) /\ Accept(c, k) /\ UNCHANGED <<rows, created, svcVars, depVars, runVars, history>>
  BY <1>1, <1>2, <1>3, <1>4 DEF Import
<1>10. JustCalls(c, k)
  BY <1>6, <1>7, <1>8, <1>9 DEF JustCalls, Idle, Accept
<1> QED BY <1>10, JustCallsStep

\* A binding that finds its host, or chooses its service.
LEMMA BindGoesOn ==
    ASSUME RegistryAssumption, IInv, NEW c \in Clients, BindHost(c) \/ BindService(c)
    PROVE  IInv'
<1>0. call[c] \in CallRecords /\ Fits(call[c])
  BY DEF IInv, Typed, CallsFit
<1>1. CASE BindHost(c) /\ call[c].host \in rows
  <2>1. PICK k : k = [call[c] EXCEPT !.op = "bind service"]
    OBVIOUS
  <2>2. /\ k \in CallRecords /\ k.op = "bind service" /\ k.parent = call[c].parent
        /\ k.host = call[c].host /\ k.known = call[c].known
    BY <1>0, <2>1 DEF CallRecords, Ops
  <2>3. GoesOn(c, k)
    BY <1>1, <2>2 DEF GoesOn, BindHost, AppOps, BindOps, ReadOps
  <2> QED BY <1>1, <2>1, <2>3, GoesOnStep DEF BindHost
<1>2. CASE BindHost(c) /\ call[c].host \notin rows
  BY <1>2, Returns DEF BindHost
<1>3. ASSUME BindService(c), NEW x \in Enabled(call[c].parent),
             Keep(c, [call[c] EXCEPT !.op = "bind", !.code = x])
      PROVE  IInv'
  <2>1. PICK k : k = [call[c] EXCEPT !.op = "bind", !.code = x]
    OBVIOUS
  <2>2. x \in Codes
    BY DEF Enabled, IInv, TypeOK, Service
  <2>3. /\ k \in CallRecords /\ k.op = "bind" /\ k.parent = call[c].parent
        /\ k.host = call[c].host /\ k.known = call[c].known
    BY <1>0, <2>1, <2>2 DEF CallRecords, Ops
  <2>4. GoesOn(c, k)
    BY <1>3, <2>3 DEF GoesOn, BindService, AppOps, BindOps, ReadOps
  <2> QED BY <1>3, <2>1, <2>4, GoesOnStep DEF BindService
<1>4. CASE BindService(c) /\ Return(c)
  BY <1>4, Returns DEF BindService
<1> QED BY <1>1, <1>2, <1>3, <1>4 DEF BindService

\* An Unbind finds a row that does not say running: no run has put its program on the host,
\* and a run that has read the row is noted.
LEMMA UnbindFinds ==
    ASSUME RegistryAssumption, IInv, NEW c \in Clients, NEW d \in deps, UnbindFind(c, d)
    PROVE  IInv'
<1> USE DEF IInv
<1>1. PICK k : k = [NoCall EXCEPT !.op = "unbind", !.id = d.id]
  OBVIOUS
<1>2. d.id \in 1..MaxDeps /\ d.id \in Nat
  BY DEF TypeOK, Deployment, RegistryAssumption
<1>3. k \in CallRecords /\ k.op = "unbind" /\ k.id = d.id /\ k.known = {}
  BY <1>1, <1>2, NoCallFits DEF CallRecords, Ops
<1>4. \A i, a, x : Carries(k, i, a, x) => Known(i, a, x)
  BY <1>3 DEF Carries, ReadOps
<1>5. overlapped \subseteq overlapped' /\ overlapped' \subseteq 1..MaxDeps
      /\ (InRun(d) => d.id \in overlapped')
  BY <1>2 DEF UnbindFind, TypeOK
<1>6. Loose(d.id) \/ d.id \in overlapped'
  <2>1. d.status # "running"
    BY DEF UnbindFind, MayUnbind
  <2>2. \A e \in deps : e.id = d.id => e = d
    BY DEF TypeOK
  <2> QED BY <1>5, <2>1, <2>2 DEF DeliveredProgramsAreBound, Loose
<1>7. InActive(d.id) => d.id \in overlapped'
  <2> SUFFICES ASSUME NEW a \in Apps, run[a].pc \notin {"none", "over"},
                      NEW e \in run[a].deps, e.id = d.id
               PROVE  d.id \in overlapped'
    BY DEF InActive
  <2>1. d.app = a
    BY DEF PlansAreBound
  <2>2. InRun(d)
    BY <2>1 DEF InRun
  <2> QED BY <2>2, <1>5
<1>8. Fits(k)'
  <2>1. InActive(d.id)' = InActive(d.id) /\ Loose(d.id)' = Loose(d.id)
    BY DEF UnbindFind, InActive, Loose, runVars
  <2> QED BY <1>3, <1>6, <1>7, <2>1 DEF Fits, AppOps, BindOps, ReadOps
<1>9. calls' \in 0..MaxCalls
  BY DEF UnbindFind, Idle, Accept, TypeOK, RegistryAssumption
<1>10. CallMoves(c, k)
  BY <1>1, <1>3, <1>4, <1>5, <1>8, <1>9 DEF CallMoves, UnbindFind, Accept, runVars
<1> QED BY <1>10, CallStep

\* A docker command, and what comes before and after it, writes no row.
LEMMA RuntimeGoesOn ==
    ASSUME RegistryAssumption, IInv, NEW c \in Clients
    PROVE  /\ \A d \in deps, op \in {"control", "report"} : RuntimeFind(c, d, op) => IInv'
           /\ \A gone, ok \in BOOLEAN : RuntimeExec(c, gone, ok) => IInv'
           /\ ReportFails(c) => IInv'
<1>1. ASSUME NEW d \in deps, NEW op \in {"control", "report"}, RuntimeFind(c, d, op)
      PROVE  IInv'
  <2>1. PICK k : k = [NoCall EXCEPT !.op = op, !.id = d.id]
    OBVIOUS
  <2>2. d.id \in Nat
    BY DEF IInv, TypeOK, Deployment, RegistryAssumption
  <2>3. k \in CallRecords /\ k.op = op /\ k.known = {}
    BY <2>1, <2>2, NoCallFits DEF CallRecords, Ops
  <2>4. Fits(k) /\ \A i, a, x : ~Carries(k, i, a, x)
    BY <2>3 DEF Fits, AppOps, BindOps, ReadOps, Carries
  <2>5. JustCalls(c, k)
    BY <2>1, <2>3, <2>4, <1>1 DEF JustCalls, RuntimeFind, Idle, Accept
  <2> QED BY <2>5, JustCallsStep
<1>2. ASSUME NEW gone \in BOOLEAN, NEW ok \in BOOLEAN, RuntimeExec(c, gone, ok)
      PROVE  IInv'
  <2>1. PICK k : k = IF ok THEN [call[c] EXCEPT !.op = "report"] ELSE NoCall
    OBVIOUS
  <2>2. call[c] \in CallRecords /\ Fits(call[c])
    BY DEF IInv, Typed, CallsFit
  <2>3. /\ k \in CallRecords /\ Fits(k)
        /\ \A i, a, x : Carries(k, i, a, x) => Known(i, a, x)
    <3>1. CASE ok
      <4>1. /\ k \in CallRecords /\ k.op = "report" /\ k.parent = call[c].parent
            /\ k.known = call[c].known
        BY <2>1, <2>2, <3>1 DEF CallRecords, Ops
      <4>2. Fits(k)
        BY <2>2, <4>1 DEF Fits, AppOps, BindOps, ReadOps
      <4>3. \A i, a, x : Carries(k, i, a, x) => Known(i, a, x)
        BY <4>1 DEF Carries, Known, ReadOps
      <4> QED BY <4>1, <4>2, <4>3
    <3>2. CASE ~ok
      BY <2>1, <3>2, NoCallFits
    <3> QED BY <3>1, <3>2
  <2>4. /\ call' = [call EXCEPT ![c] = k] /\ calls' = calls
        /\ UNCHANGED <<rows, created, svcVars, depVars, run, runs, history>>
        /\ delivered' \subseteq delivered
    BY <1>2, <2>1 DEF RuntimeExec, Return, Keep
  <2>5. Fits(k)'
    BY <2>3, <2>4, FitsStay DEF depVars, history
  <2>6. calls' \in 0..MaxCalls /\ overlapped' \subseteq 1..MaxDeps
    BY <2>4 DEF IInv, TypeOK, history
  <2>7. CallMoves(c, k)
    BY <2>3, <2>4, <2>5, <2>6 DEF CallMoves, history
  <2> QED BY <2>7, CallStep
<1>3. ASSUME ReportFails(c)
      PROVE  IInv'
  BY <1>3, Returns DEF ReportFails
<1> QED BY <1>1, <1>2, <1>3

-----------------------------------------------------------------------------
(* Rows                                                                     *)

\* A request that returns, or none: every request is as it was, or at rest.
LEMMA AtRest ==
    ASSUME RegistryAssumption, IInv,
           UNCHANGED callVars \/ \E c \in Clients : Return(c)
    PROVE  /\ call' \in [Clients -> CallRecords]
           /\ \A c \in Clients : call'[c] = call[c] \/ call'[c] = NoCall
           /\ \A c \in Clients : call'[c].op \in Ops
           /\ calls' = calls
           /\ services' = services => \A i, a, x : Known(i, a, x)' => Known(i, a, x)
<1>1. CASE UNCHANGED callVars
  <2>1. services' = services => \A i, a, x : Known(i, a, x)' => Known(i, a, x)
    BY <1>1 DEF callVars, Known
  <2> QED BY <1>1, <2>1 DEF callVars, IInv, Typed, TypeOK
<1>2. ASSUME NEW c \in Clients, Return(c)
      PROVE  /\ call' \in [Clients -> CallRecords]
             /\ \A d \in Clients : call'[d] = call[d] \/ call'[d] = NoCall
             /\ \A d \in Clients : call'[d].op \in Ops
             /\ calls' = calls
             /\ services' = services => \A i, a, x : Known(i, a, x)' => Known(i, a, x)
  <2>1. call' = [call EXCEPT ![c] = NoCall] /\ calls' = calls
    BY <1>2 DEF Return, Keep
  <2>2. /\ call' \in [Clients -> CallRecords]
        /\ \A d \in Clients : call'[d] = call[d] \/ call'[d] = NoCall
    BY <2>1, NoCallFits DEF IInv, Typed
  <2>3. \A d \in Clients : call'[d].op \in Ops
    BY <2>2 DEF CallRecords
  <2>4. services' = services => \A i, a, x : Known(i, a, x)' => Known(i, a, x)
    BY <2>1, NoCallFits, NothingNewKnown DEF IInv
  <2> QED BY <2>1, <2>2, <2>3, <2>4
<1> QED BY <1>1, <1>2

\* What a step that changes rows of applications and hosts must see to: who deletes one
\* leaves no deployment behind, but those bound while it was being deleted.
RowMoves ==
    /\ rows' \subseteq created' /\ created' \subseteq Parents /\ created \subseteq created'
    /\ UNCHANGED callVars \/ \E c \in Clients : Return(c)
    /\ \A p \in rows \ rows' : \A d \in deps : p \in {d.app, d.host} => d.id \in raced
    /\ UNCHANGED <<svcVars, depVars, runVars, history>>

\* Such a step keeps the invariant.
LEMMA RowStep ==
    ASSUME RegistryAssumption, IInv, RowMoves
    PROVE  IInv'
<1> USE DEF IInv, RowMoves, svcVars, depVars, runVars, history
<1>1. /\ call' \in [Clients -> CallRecords]
      /\ \A c \in Clients : call'[c] = call[c] \/ call'[c] = NoCall
      /\ \A c \in Clients : call'[c].op \in Ops
      /\ calls' = calls
      /\ \A i, a, x : Known(i, a, x)' => Known(i, a, x)
  BY AtRest
<1>2. TypeOK'
  BY <1>1 DEF TypeOK
<1>3. Typed'
  BY <1>1 DEF Typed
<1>4. IdsStand'
  BY <1>1, IdsStillStand
<1>5. CallsFit'
  <2> SUFFICES ASSUME NEW c \in Clients
               PROVE  Fits(call[c])'
    BY DEF CallsFit
  <2>1. PICK k : k = call'[c]
    OBVIOUS
  <2>2. Fits(k)
    BY <2>1, <1>1, NoCallFits DEF CallsFit
  <2>3. Fits(k)'
    BY <2>2, FitsStay
  <2> QED BY <2>1, <2>3
<1>6. PlansAreBound' /\ PlansAreChecked'
  BY DEF PlansAreBound, PlansAreChecked
<1>7. BoundRowsHaveParents'
  BY DEF BoundRowsHaveParents, ServiceRows
<1>8. DeliveredProgramsAreBound' /\ AcceptedServicesAreDeployed'
  BY DEF DeliveredProgramsAreBound, AcceptedServicesAreDeployed
<1> QED BY <1>2, <1>3, <1>4, <1>5, <1>6, <1>7, <1>8

\* The writes of the handlers of applications and hosts.
LEMMA ParentWrites ==
    ASSUME RegistryAssumption, IInv,
           \/ \E p \in Parents : Create(p)
           \/ \E c \in Clients : UpdateSave(c) \/ DeleteRow(c)
    PROVE  IInv'
<1>1. ASSUME NEW p \in Parents, Create(p)
      PROVE  IInv'
  <2>1. RowMoves
    BY <1>1 DEF RowMoves, Create, IInv, TypeOK
  <2> QED BY <2>1, RowStep
<1>2. ASSUME NEW c \in Clients, UpdateSave(c)
      PROVE  IInv'
  <2>1. call[c].parent \in created
    BY <1>2 DEF UpdateSave, IInv, CallsFit, Fits
  <2>2. RowMoves
    BY <1>2, <2>1 DEF RowMoves, UpdateSave, IInv, TypeOK
  <2> QED BY <2>2, RowStep
<1>3. ASSUME NEW c \in Clients, DeleteRow(c)
      PROVE  IInv'
  <2>1. \A d \in deps : call[c].parent \in {d.app, d.host} => d.id \in raced
    BY <1>3 DEF DeleteRow, IInv, CallsFit, Fits
  <2>2. \A p \in rows \ rows' : p = call[c].parent
    BY <1>3 DEF DeleteRow
  <2>3. RowMoves
    BY <1>3, <2>1, <2>2 DEF RowMoves, DeleteRow, IInv, TypeOK
  <2> QED BY <2>3, RowStep
<1> QED BY <1>1, <1>2, <1>3

\* What a step that writes services must see to, the request of c becoming k: a row is one
\* that was known, or has the next identifier, and the last row of a service goes only when
\* its deployments were bound while it was being deleted.
ServiceMoves(c, k) ==
    /\ k \in CallRecords /\ Fits(k)
    /\ \A i, a, x : Carries(k, i, a, x) => Known(i, a, x)
    /\ call' = [call EXCEPT ![c] = k] /\ calls' = calls
    /\ services' \subseteq Service
    /\ \A s, t \in services' : s.id = t.id \/ (s.app = t.app /\ s.code = t.code) => s = t
    /\ lastService' \in 0..MaxServices /\ lastService <= lastService'
    /\ \A s \in services' :
          /\ s.id <= lastService'
          /\ Known(s.id, s.app, s.code) \/ lastService < s.id
    /\ \A s \in services :
          \/ \E t \in services' : t.app = s.app /\ t.code = s.code
          \/ \A d \in deps : d.app = s.app /\ d.code = s.code => d.id \in raced
    /\ UNCHANGED <<rows, created, depVars, runVars, history>>

\* Such a step keeps the invariant.
LEMMA ServiceStep ==
    ASSUME RegistryAssumption, IInv, NEW c \in Clients, NEW k, ServiceMoves(c, k)
    PROVE  IInv'
<1> USE DEF IInv, ServiceMoves, depVars, runVars, history
<1>1. /\ call' \in [Clients -> CallRecords]
      /\ \A d \in Clients : call'[d] = IF d = c THEN k ELSE call[d]
  BY DEF Typed
<1>2. \A d \in Clients : call'[d].op \in Ops
  BY <1>1 DEF CallRecords
<1>3. TypeOK'
  BY <1>2 DEF TypeOK
<1>4. Typed'
  BY <1>1 DEF Typed
<1>5. ASSUME NEW i, NEW a, NEW x, Known(i, a, x)'
      PROVE  \/ Known(i, a, x)
             \/ lastService < i /\ \E s \in services' : s.id = i /\ s.app = a /\ s.code = x
  <2>1. CASE \E s \in services' : s.id = i /\ s.app = a /\ s.code = x
    BY <2>1
  <2>2. ASSUME NEW d \in Clients, Carries(call'[d], i, a, x)
        PROVE  Known(i, a, x)
    BY <2>2, <1>1 DEF Known
  <2> QED BY <1>5, <2>1, <2>2 DEF Known
<1>6. IdsStand'
  <2>1. \A i \in 1..MaxServices, a \in Apps, x \in Codes : Known(i, a, x)' => i <= lastService'
    <3> SUFFICES ASSUME NEW i \in 1..MaxServices, NEW a \in Apps, NEW x \in Codes,
                        Known(i, a, x)'
                 PROVE  i <= lastService'
      OBVIOUS
    <3>1. Known(i, a, x) => i <= lastService
      BY DEF IdsStand
    <3>2. i \in Nat /\ lastService \in Nat /\ lastService' \in Nat
      BY DEF RegistryAssumption, TypeOK
    <3> QED BY <1>5, <3>1, <3>2
  <2>2. ASSUME NEW i \in 1..MaxServices, NEW a \in Apps, NEW b \in Apps, NEW x \in Codes,
               NEW y \in Codes, Known(i, a, x)', Known(i, b, y)'
        PROVE  a = b /\ x = y
    <3>1. i \in Nat /\ lastService \in Nat
      BY DEF RegistryAssumption, TypeOK
    <3>2. CASE i <= lastService
      <4>1. Known(i, a, x) /\ Known(i, b, y)
        BY <1>5, <2>2, <3>1, <3>2
      <4> QED BY <4>1 DEF IdsStand
    <3>3. CASE lastService < i
      <4>1. ~Known(i, a, x) /\ ~Known(i, b, y)
        BY <3>1, <3>3 DEF IdsStand
      <4>2. PICK s \in services' : s.id = i /\ s.app = a /\ s.code = x
        BY <1>5, <2>2, <4>1
      <4>3. PICK t \in services' : t.id = i /\ t.app = b /\ t.code = y
        BY <1>5, <2>2, <4>1
      <4> QED BY <4>2, <4>3
    <3> QED BY <3>1, <3>2, <3>3
  <2> QED BY <2>1, <2>2 DEF IdsStand
<1>7. CallsFit'
  <2> SUFFICES ASSUME NEW d \in Clients
               PROVE  Fits(call[d])'
    BY DEF CallsFit
  <2>1. PICK l : l = call'[d]
    OBVIOUS
  <2>2. Fits(l)
    BY <2>1, <1>1 DEF CallsFit
  <2>3. Fits(l)'
    BY <2>2, FitsStay
  <2> QED BY <2>1, <2>3
<1>8. PlansAreBound' /\ PlansAreChecked'
  BY DEF PlansAreBound, PlansAreChecked
<1>9. BoundRowsHaveParents'
  BY DEF BoundRowsHaveParents, ServiceRows
<1>10. DeliveredProgramsAreBound' /\ AcceptedServicesAreDeployed'
  BY DEF DeliveredProgramsAreBound, AcceptedServicesAreDeployed
<1> QED BY <1>3, <1>4, <1>6, <1>7, <1>8, <1>9, <1>10

\* The identifier a request carries stands for a row of its application and its code.
LEMMA CarriedRow ==
    ASSUME RegistryAssumption, IInv, NEW c \in Clients, call[c].op \in ReadOps,
           NEW s \in services, s.id = call[c].id
    PROVE  s.app = call[c].parent /\ s.code = call[c].code
<1>1. /\ s.app \in Apps /\ s.code \in Codes /\ s.id \in 1..MaxServices
      /\ call[c].parent \in Apps /\ call[c].code \in Codes
  <2>1. s \in Service /\ call[c] \in CallRecords /\ Fits(call[c])
    BY DEF IInv, TypeOK, Typed, CallsFit
  <2> QED BY <2>1 DEF Service, CallRecords, Fits, AppOps, ReadOps
<1>2. Known(s.id, s.app, s.code)
  BY DEF Known
<1>3. Known(s.id, call[c].parent, call[c].code)
  BY DEF Known, Carries
<1> QED BY <1>1, <1>2, <1>3 DEF IInv, IdsStand

\* Save writes the row it has read, or puts it back; a Create inserts one, unless the
\* unique index has the service already.
LEMMA Writes ==
    ASSUME RegistryAssumption, IInv, NEW c \in Clients, NEW on \in BOOLEAN,
           \/ /\ call[c].op \in ReadOps
              /\ SaveServiceRow(call[c].id, call[c].parent, call[c].code, on)
              /\ lastService' = lastService
           \/ /\ call[c].op \in AppOps
              /\ lastService < MaxServices /\ lastService' = lastService + 1
              /\ InsertServiceRow(lastService', call[c].parent, call[c].code, on)
    PROVE  /\ services' \subseteq Service
           /\ \A s, t \in services' : s.id = t.id \/ (s.app = t.app /\ s.code = t.code) => s = t
           /\ lastService' \in 0..MaxServices /\ lastService <= lastService'
           /\ \A s \in services' :
                 /\ s.id <= lastService'
                 /\ Known(s.id, s.app, s.code) \/ lastService < s.id
           /\ \A s \in services : \E t \in services' : t.app = s.app /\ t.code = s.code
<1>1. PICK a : a = call[c].parent
  OBVIOUS
<1>2. PICK x : x = call[c].code
  OBVIOUS
<1>3. a \in Apps /\ x \in Codes
  <2>1. call[c] \in CallRecords /\ Fits(call[c])
    BY DEF IInv, Typed, CallsFit
  <2> QED BY <2>1, <1>1, <1>2 DEF CallRecords, Fits, AppOps, ReadOps
<1>4. /\ services \subseteq Service /\ lastService \in 0..MaxServices
      /\ \A s, t \in services : s.id = t.id \/ (s.app = t.app /\ s.code = t.code) => s = t
      /\ \A s \in services : s.id <= lastService
      /\ lastService \in Nat /\ MaxServices \in Nat
      /\ \A s \in services : s.id \in Nat
  <2>1. \A s \in services : s.id \in Nat
    BY DEF IInv, TypeOK, Service, RegistryAssumption
  <2> QED BY <2>1 DEF IInv, TypeOK, Typed, RegistryAssumption
<1>5. \A s \in services : Known(s.id, s.app, s.code)
  BY DEF Known
<1>6. CASE /\ call[c].op \in AppOps
           /\ lastService < MaxServices /\ lastService' = lastService + 1
           /\ InsertServiceRow(lastService', call[c].parent, call[c].code, on)
  <2>1. PICK r : r = [id |-> lastService + 1, app |-> a, code |-> x, on |-> on]
    OBVIOUS
  <2>2. lastService + 1 \in 1..MaxServices /\ lastService < lastService + 1
    BY <1>4, <1>6
  <2>3. r \in Service /\ r.id = lastService + 1 /\ r.app = a /\ r.code = x
    BY <2>1, <2>2, <1>3 DEF Service
  <2>4. CASE ServiceRows(a, x) = {}
    <3>1. services' = services \cup {r}
      BY <1>1, <1>2, <1>6, <2>1, <2>4 DEF InsertServiceRow
    <3>2. \A s \in services : ~(s.app = a /\ s.code = x)
      BY <2>4 DEF ServiceRows
    <3>3. \A s \in services : s.id # lastService + 1
      BY <1>4
    <3>4. \A s, t \in services' : s.id = t.id \/ (s.app = t.app /\ s.code = t.code) => s = t
      BY <1>4, <2>3, <3>1, <3>2, <3>3
    <3>5. \A s \in services' :
             /\ s.id <= lastService'
             /\ Known(s.id, s.app, s.code) \/ lastService < s.id
      BY <1>4, <1>5, <1>6, <2>3, <2>2, <3>1
    <3> QED BY <1>4, <1>6, <2>2, <2>3, <3>1, <3>4, <3>5
  <2>5. CASE ServiceRows(a, x) # {}
    <3>1. services' = services
      BY <1>1, <1>2, <1>6, <2>5 DEF InsertServiceRow
    <3>2. \A s \in services' : s.id <= lastService'
      BY <1>4, <1>6, <3>1
    <3>3. lastService' \in 0..MaxServices /\ lastService <= lastService'
      BY <1>4, <1>6
    <3> QED BY <1>4, <1>5, <3>1, <3>2, <3>3
  <2> QED BY <2>4, <2>5
<1>7. CASE /\ call[c].op \in ReadOps
           /\ SaveServiceRow(call[c].id, call[c].parent, call[c].code, on)
           /\ lastService' = lastService
  <2>1. PICK i : i = call[c].id
    OBVIOUS
  <2>2. PICK r : r = [id |-> i, app |-> a, code |-> x, on |-> on]
    OBVIOUS
  <2>3. i \in 1..MaxServices
    BY <1>7, <2>1 DEF IInv, CallsFit, Fits
  <2>4. Known(i, a, x)
    BY <1>7, <1>1, <1>2, <2>1 DEF Known, Carries
  <2>5. i <= lastService
    BY <1>3, <2>3, <2>4 DEF IInv, IdsStand
  <2>6. r \in Service /\ r.id = i /\ r.app = a /\ r.code = x
    BY <2>2, <2>3, <1>3 DEF Service
  <2>7. \A s \in services : s.id = i => s.app = a /\ s.code = x
    BY <1>7, <1>1, <1>2, <2>1, CarriedRow
  <2>8. CASE services' = {s \in services : s.id # i} \cup {r} /\ \E s \in services : s.id = i
    <3>1. \A s \in services : s.app = a /\ s.code = x => s.id = i
      BY <2>7, <2>8, <1>4
    <3>2. \A s, t \in services' : s.id = t.id \/ (s.app = t.app /\ s.code = t.code) => s = t
      BY <1>4, <2>6, <2>8, <3>1
    <3>3. \A s \in services' : s.id <= lastService /\ Known(s.id, s.app, s.code)
      BY <1>4, <1>5, <2>4, <2>5, <2>6, <2>8
    <3>4. \A s \in services : \E t \in services' : t.app = s.app /\ t.code = s.code
      BY <2>6, <2>7, <2>8
    <3> QED BY <1>4, <1>7, <2>6, <2>8, <3>2, <3>3, <3>4
  <2>9. CASE /\ services' = services \cup {r} /\ ~ \E s \in services : s.id = i
             /\ ServiceRows(a, x) = {}
    <3>1. \A s \in services : ~(s.app = a /\ s.code = x)
      BY <2>9 DEF ServiceRows
    <3>2. \A s, t \in services' : s.id = t.id \/ (s.app = t.app /\ s.code = t.code) => s = t
      BY <1>4, <2>6, <2>9, <3>1
    <3>3. \A s \in services' : s.id <= lastService /\ Known(s.id, s.app, s.code)
      BY <1>4, <1>5, <2>4, <2>5, <2>6, <2>9
    <3> QED BY <1>4, <1>7, <2>6, <2>9, <3>2, <3>3
  <2>10. CASE services' = services
    BY <1>4, <1>5, <1>7, <2>10
  <2>11. \/ services' = {s \in services : s.id # i} \cup {r} /\ \E s \in services : s.id = i
         \/ /\ services' = services \cup {r} /\ ~ \E s \in services : s.id = i
            /\ ServiceRows(a, x) = {}
         \/ services' = services
    BY <1>7, <1>1, <1>2, <2>1, <2>2 DEF SaveServiceRow, InsertServiceRow
  <2> QED BY <2>8, <2>9, <2>10, <2>11
<1> QED BY <1>6, <1>7

\* A request that writes a service and goes on, or returns.
LEMMA WriteMoves ==
    ASSUME RegistryAssumption, IInv, NEW c \in Clients, NEW k, NEW on \in BOOLEAN,
           GoesOn(c, k) \/ k = NoCall, Keep(c, k),
           \/ /\ call[c].op \in ReadOps
              /\ SaveServiceRow(call[c].id, call[c].parent, call[c].code, on)
              /\ lastService' = lastService
           \/ /\ call[c].op \in AppOps
              /\ lastService < MaxServices /\ lastService' = lastService + 1
              /\ InsertServiceRow(lastService', call[c].parent, call[c].code, on),
           UNCHANGED <<rows, created, depVars, runVars, history>>
    PROVE  IInv'
<1>1. /\ k \in CallRecords /\ Fits(k)
      /\ \A i, a, x : Carries(k, i, a, x) => Known(i, a, x)
  BY GoesOnFits, NoCallFits
<1>2. ServiceMoves(c, k)
  BY <1>1, Writes DEF ServiceMoves, Keep
<1> QED BY <1>2, ServiceStep

\* The end of an item leaves the request to look at the next.
LEMMA ItemGoesOn ==
    ASSUME RegistryAssumption, IInv, NEW c \in Clients, NEW op \in {"import", "upsert"},
           call[c].op \in {"import insert", "upsert insert", "upsert save"}, ItemDone(c, op)
    PROVE  \E k \in CallRecords : Keep(c, k) /\ GoesOn(c, k)
<1>1. call[c] \in CallRecords /\ Fits(call[c])
  BY DEF IInv, Typed, CallsFit
<1>2. PICK k : k = [call[c] EXCEPT !.op = op, !.todo = @ \ {call[c].code}, !.id = 0,
                                   !.code = Default]
  OBVIOUS
<1>3. Default \in Codes /\ op \in Ops /\ 0 \in Nat
  BY DEF RegistryAssumption, Ops
<1>4. /\ k \in CallRecords /\ k.op = op /\ k.parent = call[c].parent
      /\ k.host = call[c].host /\ k.known = call[c].known
  BY <1>1, <1>2, <1>3 DEF CallRecords
<1>5. GoesOn(c, k)
  BY <1>4 DEF GoesOn, AppOps, BindOps, ReadOps
<1> QED BY <1>2, <1>4, <1>5 DEF ItemDone

\* The creation and the update of a service.
LEMMA ServiceWrites ==
    ASSUME RegistryAssumption, IInv, NEW c \in Clients, NEW on \in BOOLEAN,
           ServiceInsert(c, on) \/ ServiceSave(c, on)
    PROVE  IInv'
<1>1. CASE ServiceInsert(c, on)
  <2>1. call[c].op \in AppOps /\ Keep(c, NoCall)
    BY <1>1 DEF ServiceInsert, AppOps, Return
  <2> QED BY <1>1, <2>1, WriteMoves DEF ServiceInsert
<1>2. CASE ServiceSave(c, on)
  <2>1. call[c].op \in ReadOps /\ Keep(c, NoCall)
    BY <1>2 DEF ServiceSave, ReadOps, Return
  <2> QED BY <1>2, <2>1, WriteMoves DEF ServiceSave
<1> QED BY <1>1, <1>2

\* The same for an item of an import.
LEMMA ImportWrites ==
    ASSUME RegistryAssumption, IInv, NEW c \in Clients, NEW on \in BOOLEAN,
           ImportSave(c, on) \/ ImportInsert(c, on)
    PROVE  IInv'
<1>1. CASE ImportSave(c, on)
  <2>1. call[c].op \in ReadOps
    BY <1>1 DEF ImportSave, ReadOps
  <2>2. PICK k \in CallRecords : Keep(c, k) /\ GoesOn(c, k)
    BY <1>1, ItemGoesOn DEF ImportSave
  <2> QED BY <1>1, <2>1, <2>2, WriteMoves DEF ImportSave
<1>2. CASE ImportInsert(c, on)
  <2>1. call[c].op \in AppOps
    BY <1>2 DEF ImportInsert, AppOps
  <2>2. CASE Return(c)
    BY <1>2, <2>1, <2>2, WriteMoves DEF ImportInsert, Return
  <2>3. CASE ItemDone(c, IF call[c].op = "import insert" THEN "import" ELSE "upsert")
    <3>1. PICK op : op = IF call[c].op = "import insert" THEN "import" ELSE "upsert"
      OBVIOUS
    <3>2. op \in {"import", "upsert"} /\ ItemDone(c, op)
      BY <2>3, <3>1
    <3>3. PICK k \in CallRecords : Keep(c, k) /\ GoesOn(c, k)
      BY <1>2, <3>2, ItemGoesOn DEF ImportInsert
    <3> QED BY <1>2, <2>1, <3>3, WriteMoves DEF ImportInsert
  <2> QED BY <1>2, <2>2, <2>3 DEF ImportInsert
<1> QED BY <1>1, <1>2

\* A service is deleted by its identifier, which is that of the row that was counted.
LEMMA ServiceDeletes ==
    ASSUME RegistryAssumption, IInv, NEW c \in Clients, ServiceDelete(c)
    PROVE  IInv'
<1> USE DEF IInv
<1>1. /\ call[c].op = "delete service" /\ call[c].op \in ReadOps
      /\ services' = {s \in services : s.id # call[c].id}
  BY DEF ServiceDelete, ReadOps
<1>0. lastService' = lastService
  BY DEF ServiceDelete
<1>2. ASSUME NEW s \in services
      PROVE  \/ \E t \in services' : t.app = s.app /\ t.code = s.code
             \/ \A d \in deps : d.app = s.app /\ d.code = s.code => d.id \in raced
  <2>1. CASE s.id # call[c].id
    BY <1>1, <2>1
  <2>2. CASE s.id = call[c].id
    <3>1. s.app = call[c].parent /\ s.code = call[c].code
      BY <1>1, <2>2, CarriedRow
    <3> QED BY <1>1, <3>1 DEF CallsFit, Fits
  <2> QED BY <2>1, <2>2
<1>3. \A s \in services' :
         /\ s.id <= lastService'
         /\ Known(s.id, s.app, s.code) \/ lastService < s.id
  BY <1>0, <1>1 DEF Typed, Known
<1>4. /\ services' \subseteq Service
      /\ \A s, t \in services' : s.id = t.id \/ (s.app = t.app /\ s.code = t.code) => s = t
      /\ lastService' \in 0..MaxServices /\ lastService <= lastService'
  <2>1. lastService \in Nat
    BY DEF TypeOK, RegistryAssumption
  <2>2. \A s, t \in services' : s.id = t.id \/ (s.app = t.app /\ s.code = t.code) => s = t
    BY <1>1 DEF TypeOK
  <2>3. services' \subseteq Service /\ lastService' \in 0..MaxServices
    BY <1>0, <1>1 DEF TypeOK
  <2> HIDE DEF IInv
  <2>4. lastService <= lastService'
    BY <1>0, <2>1
  <2> QED BY <2>2, <2>3, <2>4
<1>5. ServiceMoves(c, NoCall)
  BY <1>2, <1>3, <1>4, NoCallFits DEF ServiceMoves, ServiceDelete, Return, Keep
<1> QED BY <1>5, ServiceStep

\* The end of an import may disable a service, and takes none away.
LEMMA ImportEnds ==
    ASSUME RegistryAssumption, IInv, NEW c \in Clients, ImportEnd(c)
    PROVE  IInv'
<1> USE DEF IInv
<1> DEFINE off(disable, s) == disable /\ s.app = call[c].parent /\ s.code = Default
           kept(disable, s) == IF off(disable, s) THEN [s EXCEPT !.on = FALSE] ELSE s
<1>1. PICK disable \in {FALSE, call[c].others} : services' = {kept(disable, s) : s \in services}
  BY DEF ImportEnd
<1>2. ASSUME NEW s \in services
      PROVE  /\ kept(disable, s) \in Service
             /\ kept(disable, s).id = s.id /\ kept(disable, s).app = s.app
             /\ kept(disable, s).code = s.code
  <2>1. s \in Service
    BY DEF TypeOK
  <2> QED BY <2>1 DEF Service
<1>3. lastService' = lastService /\ lastService \in Nat
  BY DEF ImportEnd, TypeOK, RegistryAssumption
<1> HIDE DEF kept
<1>4. \A t \in services' : \E s \in services :
         /\ t = kept(disable, s) /\ t \in Service
         /\ t.id = s.id /\ t.app = s.app /\ t.code = s.code
  BY <1>1, <1>2
<1>5. services' \subseteq Service
  BY <1>4
<1>6. \A s, t \in services' : s.id = t.id \/ (s.app = t.app /\ s.code = t.code) => s = t
  BY <1>4 DEF TypeOK
<1>7. \A s \in services' :
         /\ s.id <= lastService'
         /\ Known(s.id, s.app, s.code) \/ lastService < s.id
  <2> SUFFICES ASSUME NEW t \in services'
               PROVE  t.id <= lastService' /\ Known(t.id, t.app, t.code)
    OBVIOUS
  <2>1. PICK s \in services : t.id = s.id /\ t.app = s.app /\ t.code = s.code
    BY <1>4
  <2> QED BY <1>3, <2>1 DEF Typed, Known
<1>8. \A s \in services : \E t \in services' : t.app = s.app /\ t.code = s.code
  BY <1>1, <1>2
<1>9. lastService' \in 0..MaxServices /\ lastService <= lastService'
  BY <1>3 DEF TypeOK
<1>10. ServiceMoves(c, NoCall)
  BY <1>5, <1>6, <1>7, <1>8, <1>9, NoCallFits DEF ServiceMoves, ImportEnd, Return, Keep
<1> QED BY <1>10, ServiceStep

-----------------------------------------------------------------------------
(* Deployments and runs                                                     *)

\* What stays of deployments is unique, and so are their identifiers, when a step takes some
\* away or changes their status.
LEMMA DepsStay ==
    ASSUME RegistryAssumption, IInv, lastDep' = lastDep, deps' \subseteq Deployment,
           \A e \in deps' : \E d \in deps :
               e.id = d.id /\ e.app = d.app /\ e.host = d.host /\ e.code = d.code,
           \A d, e \in deps' : d.id = e.id => d = e
    PROVE  /\ \A d, e \in deps' :
                 d.id = e.id \/ (d.app = e.app /\ d.host = e.host /\ d.code = e.code) => d = e
           /\ \A d \in deps' : d.id <= lastDep'
           /\ rows' = rows /\ services' = services /\ raced' = raced => BoundRowsHaveParents'
<1> USE DEF IInv
<1>1. \A d, e \in deps' :
         d.id = e.id \/ (d.app = e.app /\ d.host = e.host /\ d.code = e.code) => d = e
  BY DEF TypeOK
<1>2. \A d \in deps' : d.id <= lastDep'
  BY DEF Typed
<1>3. rows' = rows /\ services' = services /\ raced' = raced => BoundRowsHaveParents'
  BY DEF BoundRowsHaveParents, ServiceRows
<1> QED BY <1>1, <1>2, <1>3

\* A new binding: a parent that is gone, or about to go, has it noted.
LEMMA BindInserts ==
    ASSUME RegistryAssumption, IInv, NEW c \in Clients, BindInsert(c)
    PROVE  IInv'
<1> USE DEF IInv
<1>1. PICK a : a = call[c].parent
  OBVIOUS
<1>2. PICK h : h = call[c].host
  OBVIOUS
<1>3. PICK x : x = call[c].code
  OBVIOUS
<1>4. a \in Apps /\ h \in Hosts /\ x \in Codes
  <2>1. call[c] \in CallRecords /\ Fits(call[c]) /\ call[c].op = "bind"
    BY DEF Typed, CallsFit, BindInsert
  <2> QED BY <2>1, <1>1, <1>2, <1>3 DEF CallRecords, Fits, AppOps, BindOps
<1>5. CASE \E d \in deps : d.app = a /\ d.host = h /\ d.code = x
  BY <1>1, <1>2, <1>3, <1>5, Returns DEF BindInsert, history
<1>6. CASE ~ \E d \in deps : d.app = a /\ d.host = h /\ d.code = x
  <2>1. PICK r : r = [id |-> lastDep + 1, app |-> a, host |-> h, code |-> x, status |-> "pending"]
    OBVIOUS
  <2>2. /\ lastDep < MaxDeps /\ lastDep' = lastDep + 1 /\ deps' = deps \cup {r}
        /\ raced' = IF BeingDeleted(a, h, x) THEN raced \cup {lastDep'} ELSE raced
        /\ Return(c)
        /\ UNCHANGED <<rows, created, svcVars, runVars, overlapped, misstated>>
    BY <1>1, <1>2, <1>3, <1>6, <2>1 DEF BindInsert
  <2>3. /\ lastDep \in Nat /\ MaxDeps \in Nat /\ lastDep + 1 \in 1..MaxDeps
        /\ \A d \in deps : d.id \in Nat /\ d.id <= lastDep
    <3>1. lastDep \in Nat /\ MaxDeps \in Nat /\ \A i \in 1..MaxDeps : i \in Nat
      BY DEF TypeOK, RegistryAssumption
    <3>2. \A d \in deps : d.id \in 1..MaxDeps
      BY DEF TypeOK, Deployment
    <3> QED BY <2>2, <3>1, <3>2 DEF Typed
  <2>4. /\ r \in Deployment /\ r.id = lastDep + 1 /\ r.app = a /\ r.host = h /\ r.code = x
        /\ r.status = "pending"
    BY <1>4, <2>1, <2>3 DEF Deployment, Statuses
  <2>5. /\ call' \in [Clients -> CallRecords]
        /\ \A d \in Clients : call'[d] = call[d] \/ call'[d] = NoCall
        /\ \A d \in Clients : call'[d].op \in Ops
        /\ calls' = calls
        /\ \A i, b, y : Known(i, b, y)' => Known(i, b, y)
    <3>1. services' = services
      BY <2>2 DEF svcVars
    <3> QED BY <2>2, <3>1, AtRest
  <2>6. raced \subseteq raced' /\ raced' \subseteq 1..MaxDeps
    BY <2>2, <2>3 DEF TypeOK
  <2>7. TypeOK'
    <3>1. \A d, e \in deps' :
             d.id = e.id \/ (d.app = e.app /\ d.host = e.host /\ d.code = e.code) => d = e
      <4>1. \A d \in deps : d.id # r.id /\ ~(d.app = r.app /\ d.host = r.host /\ d.code = r.code)
        BY <1>6, <2>3, <2>4
      <4>2. \A d, e \in deps :
               d.id = e.id \/ (d.app = e.app /\ d.host = e.host /\ d.code = e.code) => d = e
        BY DEF TypeOK
      <4> HIDE DEF IInv
      <4> QED BY <2>2, <4>1, <4>2
    <3>2. deps' \subseteq Deployment /\ lastDep' \in 0..MaxDeps
      BY <2>2, <2>3, <2>4 DEF TypeOK
    <3> QED BY <2>2, <2>5, <2>6, <3>1, <3>2 DEF TypeOK, svcVars, runVars
  <2>8. Typed'
    BY <2>2, <2>3, <2>4, <2>5 DEF Typed, svcVars, runVars
  <2>9. IdsStand'
    BY <2>2, <2>5, IdsStillStand DEF svcVars
  <2>10. CallsFit'
    <3> SUFFICES ASSUME NEW d \in Clients
                 PROVE  Fits(call[d])'
      BY DEF CallsFit
    <3>1. PICK k : k = call'[d]
      OBVIOUS
    <3>2. Fits(k) /\ k \in CallRecords
      BY <3>1, <2>5, NoCallFits DEF CallsFit
    <3>3. k.op \in {"delete", "delete service"} => call[d] = k
      BY <3>1, <2>5, NoCallFits
    <3>4. k.op = "delete" => \A e \in deps' : k.parent \in {e.app, e.host} => e.id \in raced'
      <4>1. k.op = "delete" /\ k.parent \in {a, h} => lastDep' \in raced'
        BY <2>2, <3>3 DEF BeingDeleted
      <4> QED BY <2>2, <2>4, <2>6, <3>2, <4>1 DEF Fits
    <3>5. k.op = "delete service" =>
             \A e \in deps' : e.app = k.parent /\ e.code = k.code => e.id \in raced'
      <4>1. k.op = "delete service" /\ k.parent = a /\ k.code = x => lastDep' \in raced'
        BY <2>2, <3>3 DEF BeingDeleted
      <4> QED BY <2>2, <2>4, <2>6, <3>2, <4>1 DEF Fits
    <3>6. InActive(k.id)' = InActive(k.id) /\ Loose(k.id)' = Loose(k.id)
      BY <2>2 DEF InActive, Loose, runVars
    <3>7. Fits(k)'
      BY <2>2, <3>2, <3>4, <3>5, <3>6 DEF Fits, runVars
    <3> QED BY <3>1, <3>7
  <2>11. PlansAreBound'
    <3> SUFFICES ASSUME NEW b \in Apps, NEW d \in run'[b].deps
                 PROVE  /\ d.app = b /\ d.id <= lastDep'
                        /\ \A e \in deps' : e.id = d.id => e.app = b
                        /\ run'[b].pc \notin {"none", "over"} =>
                              d.id \in overlapped' \/ \E e \in deps' : e.id = d.id
      BY DEF PlansAreBound
    <3>1. d \in run[b].deps /\ run' = run /\ overlapped' = overlapped
      BY <2>2 DEF runVars
    <3>2. d.id \in Nat
      <4>1. d.id \in 1..MaxDeps
        BY <3>1 DEF TypeOK, Deployment
      <4> QED BY <4>1, <2>3
    <3>3. d.app = b /\ d.id <= lastDep /\ d.id # r.id /\ d.id <= lastDep'
      BY <2>2, <2>3, <2>4, <3>1, <3>2 DEF PlansAreBound
    <3> QED BY <2>2, <2>4, <3>1, <3>3 DEF PlansAreBound
  <2>12. PlansAreChecked' /\ AcceptedServicesAreDeployed'
    BY <2>2 DEF PlansAreChecked, AcceptedServicesAreDeployed, runVars
  <2>13. BoundRowsHaveParents'
    <3>1. r.id \in raced' \/ ({a, h} \subseteq rows /\ ServiceRows(a, x) # {})
      BY <2>2, <2>4 DEF BeingDeleted
    <3>2. ServiceRows(a, x)' = ServiceRows(a, x) /\ rows' = rows
      BY <2>2 DEF ServiceRows, svcVars
    <3>3. \A d \in deps : ServiceRows(d.app, d.code)' = ServiceRows(d.app, d.code)
      BY <2>2 DEF ServiceRows, svcVars
    <3>4. \A d \in deps : d.id \in raced'
             \/ ({d.app, d.host} \subseteq rows' /\ ServiceRows(d.app, d.code)' # {})
      BY <2>6, <3>2, <3>3 DEF BoundRowsHaveParents
    <3> QED BY <2>2, <2>4, <3>1, <3>2, <3>4 DEF BoundRowsHaveParents, ServiceRows
  <2>14. DeliveredProgramsAreBound'
    BY <2>2 DEF DeliveredProgramsAreBound, runVars
  <2> QED BY <2>7, <2>8, <2>9, <2>10, <2>11, <2>12, <2>13, <2>14
<1> QED BY <1>5, <1>6

\* An Unbind deletes a row that no run has delivered and none is about to, but those noted.
LEMMA UnbindDeletes ==
    ASSUME RegistryAssumption, IInv, NEW c \in Clients, UnbindDelete(c)
    PROVE  IInv'
<1> USE DEF IInv
<1>1. PICK i : i = call[c].id
  OBVIOUS
<1>2. /\ deps' = {d \in deps : d.id # i}
      /\ Return(c)
      /\ UNCHANGED <<rows, created, svcVars, lastDep, runVars, history>>
  BY <1>1 DEF UnbindDelete
<1>3. i \in overlapped \/ (Loose(i) /\ ~InActive(i))
  BY <1>1 DEF UnbindDelete, CallsFit, Fits
<1>4. /\ call' \in [Clients -> CallRecords]
      /\ \A d \in Clients : call'[d] = call[d] \/ call'[d] = NoCall
      /\ \A d \in Clients : call'[d].op \in Ops
      /\ calls' = calls
      /\ \A j, b, y : Known(j, b, y)' => Known(j, b, y)
  <2>1. services' = services
    BY <1>2 DEF svcVars
  <2> QED BY <1>2, <2>1, AtRest
<1>5. /\ \A d, e \in deps' :
            d.id = e.id \/ (d.app = e.app /\ d.host = e.host /\ d.code = e.code) => d = e
      /\ \A d \in deps' : d.id <= lastDep'
      /\ BoundRowsHaveParents'
  <2>1. /\ deps' \subseteq Deployment /\ lastDep' = lastDep
        /\ rows' = rows /\ services' = services /\ raced' = raced
    BY <1>2 DEF TypeOK, svcVars, history
  <2>2. \A e \in deps' : \E d \in deps :
           e.id = d.id /\ e.app = d.app /\ e.host = d.host /\ e.code = d.code
    BY <1>2
  <2>3. \A d, e \in deps' : d.id = e.id => d = e
    BY <1>2 DEF TypeOK
  <2> QED BY <2>1, <2>2, <2>3, DepsStay
<1>6. TypeOK'
  BY <1>2, <1>4, <1>5 DEF TypeOK, svcVars, runVars, history
<1>7. Typed'
  BY <1>2, <1>4, <1>5 DEF Typed, svcVars, runVars
<1>8. IdsStand'
  BY <1>2, <1>4, IdsStillStand DEF svcVars
<1>9. CallsFit'
  <2> SUFFICES ASSUME NEW d \in Clients
               PROVE  Fits(call[d])'
    BY DEF CallsFit
  <2>1. PICK k : k = call'[d]
    OBVIOUS
  <2>2. Fits(k)
    BY <2>1, <1>4, NoCallFits DEF CallsFit
  <2>3. InActive(k.id)' = InActive(k.id) /\ Loose(k.id)' = Loose(k.id)
    BY <1>2 DEF InActive, Loose, runVars, history
  <2>4. Fits(k)'
    BY <1>2, <2>2, <2>3 DEF Fits, runVars, history
  <2> QED BY <2>1, <2>4
<1>10. PlansAreBound'
  <2> SUFFICES ASSUME NEW b \in Apps, NEW d \in run'[b].deps
               PROVE  /\ d.app = b /\ d.id <= lastDep'
                      /\ \A e \in deps' : e.id = d.id => e.app = b
                      /\ run'[b].pc \notin {"none", "over"} =>
                            d.id \in overlapped' \/ \E e \in deps' : e.id = d.id
    BY DEF PlansAreBound
  <2>1. d \in run[b].deps /\ run' = run /\ overlapped' = overlapped /\ lastDep' = lastDep
    BY <1>2 DEF runVars, history
  <2>2. run[b].pc \notin {"none", "over"} /\ d.id = i => i \in overlapped
    BY <1>3, <2>1 DEF InActive
  <2> QED BY <1>2, <2>1, <2>2 DEF PlansAreBound
<1>11. PlansAreChecked' /\ AcceptedServicesAreDeployed'
  BY <1>2 DEF PlansAreChecked, AcceptedServicesAreDeployed, runVars
<1>12. DeliveredProgramsAreBound'
  BY <1>2, <1>3 DEF DeliveredProgramsAreBound, Loose, runVars, history
<1> QED BY <1>5, <1>6, <1>7, <1>8, <1>9, <1>10, <1>11, <1>12

\* A report changes the status of one row at most; what it says of a program that runs, but
\* that it runs, is noted.
LEMMA Reports ==
    ASSUME RegistryAssumption, IInv, NEW c \in Clients, NEW status \in Statuses,
           RuntimeReport(c, status)
    PROVE  IInv'
<1> USE DEF IInv
<1> DEFINE restated(e) == IF e.id = call[c].id THEN [e EXCEPT !.status = status] ELSE e
<1>1. /\ deps' = {restated(e) : e \in deps}
      /\ misstated' = IF status # "running" THEN misstated \cup ({call[c].id} \cap delivered)
                                            ELSE misstated
      /\ Return(c)
      /\ UNCHANGED <<rows, created, svcVars, lastDep, runVars, raced, overlapped>>
  BY DEF RuntimeReport
<1>2. ASSUME NEW e \in deps
      PROVE  /\ restated(e) \in Deployment
             /\ restated(e).id = e.id /\ restated(e).app = e.app /\ restated(e).host = e.host
             /\ restated(e).code = e.code
             /\ e.status = "running" =>
                   restated(e).status = "running" \/ (e.id = call[c].id /\ status # "running")
  <2>1. e \in Deployment
    BY DEF TypeOK
  <2> QED BY <2>1 DEF Deployment
<1> HIDE DEF restated
<1>3. /\ deps' \subseteq Deployment
      /\ \A e \in deps' : \E f \in deps :
            /\ e = restated(f)
            /\ e.id = f.id /\ e.app = f.app /\ e.host = f.host /\ e.code = f.code
      /\ \A f \in deps : \E e \in deps' : e.id = f.id
  BY <1>1, <1>2
<1>4. /\ \A f, e \in deps' :
            f.id = e.id \/ (f.app = e.app /\ f.host = e.host /\ f.code = e.code) => f = e
      /\ \A f \in deps' : f.id <= lastDep'
      /\ BoundRowsHaveParents'
  <2>1. lastDep' = lastDep /\ rows' = rows /\ services' = services /\ raced' = raced
    BY <1>1 DEF svcVars
  <2>2. \A f, e \in deps' : f.id = e.id => f = e
    BY <1>3 DEF TypeOK
  <2>3. \A e \in deps' : \E f \in deps :
           e.id = f.id /\ e.app = f.app /\ e.host = f.host /\ e.code = f.code
    BY <1>3
  <2> QED BY <1>3, <2>1, <2>2, <2>3, DepsStay
<1>5. /\ call' \in [Clients -> CallRecords]
      /\ \A d \in Clients : call'[d] = call[d] \/ call'[d] = NoCall
      /\ \A d \in Clients : call'[d].op \in Ops
      /\ calls' = calls
      /\ \A j, b, y : Known(j, b, y)' => Known(j, b, y)
  <2>1. services' = services
    BY <1>1 DEF svcVars
  <2> QED BY <1>1, <2>1, AtRest
<1>6. misstated \subseteq misstated' /\ misstated' \subseteq 1..MaxDeps
  BY <1>1 DEF TypeOK
<1>7. TypeOK'
  BY <1>1, <1>3, <1>4, <1>5, <1>6 DEF TypeOK, svcVars, runVars
<1>8. Typed'
  BY <1>1, <1>4, <1>5 DEF Typed, svcVars, runVars
<1>9. IdsStand'
  BY <1>1, <1>5, IdsStillStand DEF svcVars
<1>10. CallsFit'
  <2> SUFFICES ASSUME NEW d \in Clients
               PROVE  Fits(call[d])'
    BY DEF CallsFit
  <2>1. PICK k : k = call'[d]
    OBVIOUS
  <2>2. Fits(k)
    BY <2>1, <1>5, NoCallFits DEF CallsFit
  <2>3. k.op = "unbind" => k.id \in overlapped' \/ (Loose(k.id)' /\ ~InActive(k.id)')
    <3>1. InActive(k.id)' = InActive(k.id) /\ (Loose(k.id) => Loose(k.id)')
      BY <1>1, <1>6 DEF InActive, Loose, runVars
    <3>2. overlapped' = overlapped
      BY <1>1
    <3> QED BY <2>2, <3>1, <3>2 DEF Fits
  <2>4. \A e \in deps' : \E f \in deps :
           e.id = f.id /\ e.app = f.app /\ e.host = f.host /\ e.code = f.code
    BY <1>3
  <2>5. Fits(k)'
    <3> HIDE DEF IInv
    <3> QED BY <1>1, <2>2, <2>3, <2>4, FitsRestated
  <2> QED BY <2>1, <2>5
<1>11. PlansAreBound'
  BY <1>1, <1>3 DEF PlansAreBound, runVars
<1>12. PlansAreChecked' /\ AcceptedServicesAreDeployed'
  BY <1>1 DEF PlansAreChecked, AcceptedServicesAreDeployed, runVars
<1>13. DeliveredProgramsAreBound'
  <2> SUFFICES ASSUME NEW i \in delivered', i \notin overlapped', i \notin misstated'
               PROVE  \E e \in deps' : e.id = i /\ e.status = "running"
    BY DEF DeliveredProgramsAreBound
  <2>1. i \in delivered /\ i \notin overlapped /\ i \notin misstated
    BY <1>1, <1>6 DEF runVars
  <2>2. PICK f \in deps : f.id = i /\ f.status = "running"
    BY <2>1 DEF DeliveredProgramsAreBound
  <2>3. ~(i = call[c].id /\ status # "running")
    BY <1>1, <2>1
  <2>4. restated(f) \in deps' /\ restated(f).id = i /\ restated(f).status = "running"
    BY <1>1, <1>2, <2>2, <2>3
  <2> QED BY <2>4
<1> QED BY <1>4, <1>7, <1>8, <1>9, <1>10, <1>11, <1>12, <1>13

\* What a step of the run of a to r, which writes no row, must see to.
RunMoves(a, r) ==
    /\ r \in RunRecords /\ run' = [run EXCEPT ![a] = r] /\ runs' \in [Apps -> 0..MaxRuns]
    /\ r.deployed \subseteq {d.id : d \in r.deps}
    /\ overlapped \subseteq overlapped' /\ overlapped' \subseteq 1..MaxDeps
    /\ \A d \in r.deps :
          /\ d.app = a /\ d.id <= lastDep
          /\ \A e \in deps : e.id = d.id => e.app = a
          /\ r.pc \notin {"none", "over"} =>
                d.id \in overlapped' \/ \E e \in deps : e.id = d.id
    /\ \A c \in Clients : \A d \in r.deps :
          call[c].op = "unbind" /\ r.pc \notin {"none", "over"} /\ call[c].id = d.id =>
              d.id \in overlapped'
    /\ (r.pc \in {"seeded", "deploying"} \/ r.result = "success") /\ r.bundle =>
          \A x \in r.checked : x = Default \/ x \in r.items
    /\ r.pc # "over" => r.result = "none"
    /\ r.result = "success" /\ r.stop = "none" => \A x \in r.checked \cap r.loaded :
          \/ x = Default /\ r.bundle /\ Default \notin r.items
          \/ \A d \in r.deps : d.code = x => d.id \in r.deployed
    /\ UNCHANGED <<rows, created, svcVars, depVars, callVars, delivered, raced, misstated>>

\* Such a step keeps the invariant.
LEMMA RunStep ==
    ASSUME RegistryAssumption, IInv, NEW a \in Apps, NEW r, RunMoves(a, r)
    PROVE  IInv'
<1> USE DEF IInv, RunMoves, svcVars, depVars, callVars
<1>1. /\ run' \in [Apps -> RunRecords]
      /\ \A b \in Apps : run'[b] = IF b = a THEN r ELSE run[b]
  BY DEF Typed
<1>2. TypeOK'
  <2>1. ASSUME NEW b \in Apps
        PROVE  /\ run'[b].pc \in {"none", "read", "seeded", "deploying", "over"}
               /\ run'[b].deps \subseteq Deployment
               /\ runs'[b] \in 0..MaxRuns
    BY <1>1 DEF RunRecords
  <2>2. ASSUME NEW b \in Apps
        PROVE  run'[b].deployed \subseteq {d.id : d \in run'[b].deps}
    <3>1. CASE b = a
      BY <1>1, <3>1
    <3>2. CASE b # a
      BY <1>1, <3>2 DEF TypeOK
    <3> QED BY <3>1, <3>2
  <2> QED BY <2>1, <2>2 DEF TypeOK
<1>3. Typed'
  BY <1>1 DEF Typed
<1>4. IdsStand'
  BY IdsStillStand DEF Known
<1>5. ASSUME NEW c \in Clients, call[c].op = "unbind"
      PROVE  call[c].id \in overlapped' \/ (Loose(call[c].id)' /\ ~InActive(call[c].id)')
  <2>1. CASE call[c].id \in overlapped'
    BY <2>1
  <2>2. CASE call[c].id \notin overlapped'
    <3>1. Loose(call[c].id)' /\ ~InActive(call[c].id)
      BY <1>5, <2>2 DEF CallsFit, Fits, Loose
    <3>2. ASSUME NEW b \in Apps, run'[b].pc \notin {"none", "over"},
                 NEW d \in run'[b].deps, d.id = call[c].id
          PROVE  FALSE
      <4>1. CASE b = a
        BY <1>1, <1>5, <2>2, <3>2, <4>1
      <4>2. CASE b # a
        BY <1>1, <3>1, <3>2, <4>2 DEF InActive
      <4> QED BY <4>1, <4>2
    <3> QED BY <3>1, <3>2 DEF InActive
  <2> QED BY <2>1, <2>2
<1>6. CallsFit'
  BY <1>5 DEF CallsFit, Fits
<1>7. PlansAreBound'
  <2> SUFFICES ASSUME NEW b \in Apps, NEW d \in run'[b].deps
               PROVE  /\ d.app = b /\ d.id <= lastDep
                      /\ \A e \in deps : e.id = d.id => e.app = b
                      /\ run'[b].pc \notin {"none", "over"} =>
                            d.id \in overlapped' \/ \E e \in deps : e.id = d.id
    BY DEF PlansAreBound
  <2>1. CASE b = a
    BY <1>1, <2>1
  <2>2. CASE b # a
    BY <1>1, <2>2 DEF PlansAreBound
  <2> QED BY <2>1, <2>2
<1>8. PlansAreChecked'
  BY <1>1 DEF PlansAreChecked
<1>9. AcceptedServicesAreDeployed'
  BY <1>1 DEF AcceptedServicesAreDeployed
<1>10. BoundRowsHaveParents' /\ DeliveredProgramsAreBound'
  BY DEF BoundRowsHaveParents, ServiceRows, DeliveredProgramsAreBound
<1> QED BY <1>2, <1>3, <1>4, <1>6, <1>7, <1>8, <1>9, <1>10

\* A run at rest, and a run that has failed.
LEMMA RunsAtRest ==
    /\ NoRun \in RunRecords /\ NoRun.pc = "none" /\ NoRun.result = "none" /\ NoRun.deps = {}
    /\ NoRun.deployed = {}
    /\ LET r == [NoRun EXCEPT !.pc = "over"]
       IN  r \in RunRecords /\ r.pc = "over" /\ r.result = "none" /\ r.deps = {} /\ r.deployed = {}
    /\ FailedRun \in RunRecords /\ FailedRun.pc = "over" /\ FailedRun.result = "failed"
    /\ FailedRun.deps = {} /\ FailedRun.deployed = {}
    /\ LET r == [FailedRun EXCEPT !.result = "cancelled"]
       IN  /\ r \in RunRecords /\ r.pc = "over" /\ r.result = "cancelled"
           /\ r.deps = {} /\ r.deployed = {}
<1>1. NoRun \in RunRecords /\ NoRun.deps = {} /\ NoRun.deployed = {}
  BY DEF NoRun, RunRecords
<1> QED BY <1>1 DEF NoRun, FailedRun, RunRecords

\* A run ends at once, without a host.
LEMMA RunGivesUp ==
    ASSUME RegistryAssumption, IInv, NEW a \in Apps, 
           NEW r \in {[NoRun EXCEPT !.pc = "over"], FailedRun,
                      [FailedRun EXCEPT !.result = "cancelled"]},
           SetRun(a, r), UNCHANGED <<rows, created, svcVars, depVars, callVars, runs, delivered, history>>
    PROVE  IInv'
<1>1. /\ r \in RunRecords /\ r.pc = "over" /\ r.result # "success" /\ r.deps = {}
      /\ r.deployed = {}
  BY RunsAtRest
<1>2. UNCHANGED <<overlapped, raced, misstated>> /\ overlapped \subseteq 1..MaxDeps
  BY DEF IInv, TypeOK, history
<1>3. runs' \in [Apps -> 0..MaxRuns]
  BY DEF IInv, Typed
<1>4. RunMoves(a, r)
  BY <1>1, <1>2, <1>3 DEF RunMoves, SetRun
<1> QED BY <1>4, RunStep

\* A run reads its deployments, and notes those that are being unbound.
LEMMA Reads ==
    ASSUME RegistryAssumption, IInv, NEW a \in Apps, NEW bundle \in BOOLEAN,
           NEW items \in SUBSET Codes, ReadPlan(a, bundle, items)
    PROVE  IInv'
<1> USE DEF IInv
<1>1. PICK mine : mine = {d \in deps : d.app = a}
  OBVIOUS
<1>2. PICK r : r = [NoRun EXCEPT !.pc = "read", !.deps = mine, !.bundle = bundle, !.items = items]
  OBVIOUS
<1>3. mine \in SUBSET Deployment /\ \A d \in mine : d.id \in 1..MaxDeps
  BY <1>1 DEF TypeOK, Deployment
<1>4. /\ r \in RunRecords /\ r.pc = "read" /\ r.deps = mine /\ r.result = "none"
      /\ r.deployed = {}
  BY <1>2, <1>3, RunsAtRest DEF RunRecords
<1>5. /\ overlapped' = overlapped \cup {d.id : d \in {e \in mine :
                          \E c \in Clients : call[c].op = "unbind" /\ call[c].id = e.id}}
      /\ SetRun(a, r) /\ runs[a] < MaxRuns /\ runs' = [runs EXCEPT ![a] = @ + 1]
      /\ UNCHANGED <<rows, created, svcVars, depVars, callVars, delivered, raced, misstated>>
  BY <1>1, <1>2 DEF ReadPlan
<1>6. overlapped \subseteq overlapped' /\ overlapped' \subseteq 1..MaxDeps
  BY <1>3, <1>5 DEF TypeOK
<1>7. runs' \in [Apps -> 0..MaxRuns]
  <2>1. runs[a] + 1 \in 0..MaxRuns
    BY <1>5 DEF Typed, RegistryAssumption
  <2> QED BY <1>5, <2>1 DEF Typed
<1>8. \A d \in r.deps :
         /\ d.app = a /\ d.id <= lastDep
         /\ \A e \in deps : e.id = d.id => e.app = a
         /\ d.id \in overlapped' \/ \E e \in deps : e.id = d.id
  BY <1>1, <1>4 DEF Typed, TypeOK
<1>9. \A c \in Clients : \A d \in r.deps :
         call[c].op = "unbind" /\ call[c].id = d.id => d.id \in overlapped'
  BY <1>4, <1>5
<1>10. RunMoves(a, r)
  BY <1>4, <1>5, <1>6, <1>7, <1>8, <1>9 DEF RunMoves, SetRun
<1> QED BY <1>10, RunStep

\* A run in progress goes on with the deployments it has read.
LEMMA PlanGoesOn ==
    ASSUME RegistryAssumption, IInv, NEW a \in Apps, NEW r \in RunRecords, SetRun(a, r),
           run[a].pc \notin {"none", "over"},
           r.deps = run[a].deps, r.deployed = run[a].deployed,
           (r.pc \in {"seeded", "deploying"} \/ r.result = "success") /\ r.bundle =>
               \A x \in r.checked : x = Default \/ x \in r.items,
           r.pc # "over" => r.result = "none",
           r.result = "success" /\ r.stop = "none" => \A x \in r.checked \cap r.loaded :
              \/ x = Default /\ r.bundle /\ Default \notin r.items
              \/ \A d \in r.deps : d.code = x => d.id \in r.deployed,
           UNCHANGED <<rows, created, svcVars, depVars, callVars, runs, delivered, history>>
    PROVE  IInv'
<1>1. UNCHANGED <<overlapped, raced, misstated>> /\ overlapped \subseteq 1..MaxDeps
  BY DEF IInv, TypeOK, history
<1>2. runs' \in [Apps -> 0..MaxRuns]
  BY DEF IInv, Typed
<1>3. \A d \in r.deps :
         /\ d.app = a /\ d.id <= lastDep
         /\ \A e \in deps : e.id = d.id => e.app = a
         /\ d.id \in overlapped' \/ \E e \in deps : e.id = d.id
  BY <1>1 DEF IInv, PlansAreBound
<1>4. \A c \in Clients : \A d \in r.deps :
         call[c].op = "unbind" /\ call[c].id = d.id => d.id \in overlapped'
  <2>1. ASSUME NEW c \in Clients, NEW d \in r.deps, call[c].op = "unbind", call[c].id = d.id
        PROVE  d.id \in overlapped'
    <3>1. InActive(d.id)
      BY <2>1 DEF InActive
    <3>2. call[c].id \in overlapped \/ ~InActive(call[c].id)
      BY <2>1 DEF IInv, CallsFit, Fits
    <3> QED BY <1>1, <2>1, <3>1, <3>2
  <2> QED BY <2>1
<1>5. r.deployed \subseteq {d.id : d \in r.deps}
  BY DEF IInv, TypeOK
<1>6. RunMoves(a, r)
  BY <1>1, <1>2, <1>3, <1>4, <1>5 DEF RunMoves, SetRun
<1> QED BY <1>6, RunStep

\* The check of the plan, the second reading of the services, the end of a run.
LEMMA RunGoesOn ==
    ASSUME RegistryAssumption, IInv, NEW a \in Apps,
           ValidatePlan(a) \/ LoadServices(a)
    PROVE  IInv'
<1>0. /\ run[a] \in RunRecords
      /\ Enabled(a) \in SUBSET Codes
      /\ run[a].pc # "over" => run[a].result = "none"
      /\ run[a].pc \in {"seeded", "deploying"} /\ run[a].bundle =>
            \A x \in run[a].checked : x = Default \/ x \in run[a].items
  <2>1. Enabled(a) \in SUBSET Codes
    BY DEF Enabled, IInv, TypeOK, Service
  <2> QED BY <2>1 DEF IInv, Typed, PlansAreChecked
<1>1. CASE ValidatePlan(a) /\ Deployable(a)
  <2>1. PICK r : r = [run[a] EXCEPT !.pc = "seeded", !.checked = Enabled(a)]
    OBVIOUS
  <2>2. /\ r \in RunRecords /\ r.pc = "seeded" /\ r.checked = Enabled(a)
        /\ r.deps = run[a].deps /\ r.deployed = run[a].deployed
        /\ r.bundle = run[a].bundle /\ r.items = run[a].items /\ r.result = run[a].result
    BY <1>0, <2>1 DEF RunRecords
  <2>3. r.bundle => \A x \in r.checked : x = Default \/ x \in r.items
    BY <1>1, <2>2 DEF Deployable, HasItem
  <2>4. /\ run[a].pc = "read" /\ SetRun(a, r)
        /\ UNCHANGED <<rows, created, svcVars, depVars, callVars, runs, delivered, history>>
    BY <1>1, <2>1 DEF ValidatePlan
  <2>5. r.result = "none"
    BY <1>0, <2>2, <2>4
  <2> QED BY <2>2, <2>3, <2>4, <2>5, PlanGoesOn
<1>2. CASE ValidatePlan(a) /\ ~Deployable(a)
  BY <1>2, RunGivesUp DEF ValidatePlan
<1>3. CASE LoadServices(a) /\ Enabled(a) # {}
  <2>1. PICK r : r = [run[a] EXCEPT !.pc = "deploying", !.loaded = Enabled(a)]
    OBVIOUS
  <2>2. /\ r \in RunRecords /\ r.pc = "deploying" /\ r.checked = run[a].checked
        /\ r.deps = run[a].deps /\ r.deployed = run[a].deployed
        /\ r.bundle = run[a].bundle /\ r.items = run[a].items /\ r.result = run[a].result
    BY <1>0, <2>1 DEF RunRecords
  <2>3. /\ run[a].pc = "seeded" /\ SetRun(a, r)
        /\ UNCHANGED <<rows, created, svcVars, depVars, callVars, runs, delivered, history>>
    BY <1>3, <2>1 DEF LoadServices
  <2>4. r.result = "none"
    BY <1>0, <2>2, <2>3
  <2> QED BY <1>0, <2>2, <2>3, <2>4, PlanGoesOn
<1>4. CASE LoadServices(a) /\ Enabled(a) = {}
  BY <1>4, RunGivesUp DEF LoadServices
<1> QED BY <1>1, <1>2, <1>3, <1>4

\* A host fails, and the run goes on with the others.
LEMMA Loses ==
    ASSUME RegistryAssumption, IInv, NEW a \in Apps, NEW d, LoseHost(a, d)
    PROVE  IInv'
<1>1. PICK r : r = [run[a] EXCEPT !.lost = @ \cup {d.id}]
  OBVIOUS
<1>2. /\ run[a].pc = "deploying" /\ d \in run[a].deps /\ SetRun(a, r)
      /\ UNCHANGED <<rows, created, svcVars, depVars, callVars, runs, delivered, history>>
  BY <1>1 DEF LoseHost, Planned
<1>3. run[a] \in RunRecords /\ d.id \in 1..MaxDeps
  BY <1>2 DEF IInv, TypeOK, Typed, Deployment
<1>4. /\ r \in RunRecords /\ r.pc = run[a].pc /\ r.deps = run[a].deps
      /\ r.deployed = run[a].deployed /\ r.bundle = run[a].bundle
      /\ r.items = run[a].items /\ r.checked = run[a].checked /\ r.result = run[a].result
  BY <1>1, <1>3 DEF RunRecords
<1>5. /\ r.result = "none"
      /\ r.bundle => \A x \in r.checked : x = Default \/ x \in r.items
  BY <1>2, <1>4 DEF IInv, PlansAreChecked
<1> QED BY <1>2, <1>4, <1>5, PlanGoesOn

\* The end of a run: success, with time left, when each host of its plan is done.
LEMMA RunEnds ==
    ASSUME RegistryAssumption, IInv, NEW a \in Apps,
           NEW stop \in {"none", "cancelled", "expired"}, EndRun(a, stop)
    PROVE  IInv'
<1>0. /\ run[a] \in RunRecords /\ run[a].pc = "deploying"
      /\ run[a].bundle => \A x \in run[a].checked : x = Default \/ x \in run[a].items
      /\ UNCHANGED <<rows, created, svcVars, depVars, callVars, runs, delivered, history>>
  BY DEF IInv, Typed, PlansAreChecked, EndRun
<1>1. CASE run[a].lost # {} \/ stop = "cancelled"
  <2>1. PICK r \in {FailedRun, [FailedRun EXCEPT !.result = "cancelled"]} : SetRun(a, r)
    BY <1>1 DEF EndRun
  <2> QED BY <1>0, <2>1, RunGivesUp
<1>2. CASE run[a].lost = {} /\ stop # "cancelled"
  <2>1. PICK r : r = [run[a] EXCEPT !.pc = "over", !.stop = stop, !.result = "success"]
    OBVIOUS
  <2>2. /\ r \in RunRecords /\ r.pc = "over" /\ r.checked = run[a].checked
        /\ r.loaded = run[a].loaded /\ r.result = "success" /\ r.stop = stop
        /\ r.deps = run[a].deps /\ r.deployed = run[a].deployed
        /\ r.bundle = run[a].bundle /\ r.items = run[a].items
    BY <1>0, <2>1 DEF RunRecords
  <2>3. SetRun(a, r)
    BY <1>2, <2>1 DEF EndRun
  <2>4. stop = "none" =>
           \A d \in r.deps : d.code \in r.loaded /\ (r.bundle => d.code \in r.items) =>
               d.id \in r.deployed
    <3>1. stop = "none" => \A d \in Planned(a) : d.id \in run[a].deployed
      BY <1>2 DEF EndRun
    <3> QED BY <2>2, <3>1 DEF Planned
  <2>5. r.result = "success" /\ r.stop = "none" => \A x \in r.checked \cap r.loaded :
           \/ x = Default /\ r.bundle /\ Default \notin r.items
           \/ \A d \in r.deps : d.code = x => d.id \in r.deployed
    BY <1>0, <2>2, <2>4
  <2> QED BY <1>0, <2>2, <2>3, <2>5, PlanGoesOn
<1> QED BY <1>1, <1>2

\* A deployment on its host: its row, where there is one and it has been told, says running;
\* where there is none, it was being unbound when the run read it.
LEMMA Deploys ==
    ASSUME RegistryAssumption, IInv, NEW a \in Apps, NEW d, NEW told \in BOOLEAN,
           DeployHost(a, d, told)
    PROVE  IInv'
<1> USE DEF IInv
<1> DEFINE marked(e) == IF told /\ e.id = d.id THEN [e EXCEPT !.status = "running"] ELSE e
<1>1. PICK r : r = [run[a] EXCEPT !.deployed = @ \cup {d.id}]
  OBVIOUS
<1>2. /\ run[a].pc = "deploying" /\ d \in run[a].deps /\ run' = [run EXCEPT ![a] = r]
      /\ deps' = {marked(e) : e \in deps}
      /\ delivered' = delivered \cup {d.id}
      /\ misstated' = IF told THEN misstated \ {d.id} ELSE misstated \cup {d.id}
      /\ UNCHANGED <<rows, created, svcVars, lastDep, callVars, runs, raced, overlapped>>
  <2>1. deps' = {marked(e) : e \in deps}
    <3>1. CASE told
      BY <3>1 DEF DeployHost, MarkRunning
    <3>2. CASE ~told
      BY <3>2 DEF DeployHost
    <3> QED BY <3>1, <3>2
  <2> HIDE DEF marked
  <2> QED BY <1>1, <2>1 DEF DeployHost, Planned, SetRun
<1>3. run[a] \in RunRecords /\ d \in Deployment /\ d.id \in 1..MaxDeps
  BY <1>2 DEF TypeOK, Typed, Deployment
<1>4. /\ r \in RunRecords /\ r.pc = "deploying" /\ r.deps = run[a].deps
      /\ r.deployed = run[a].deployed \cup {d.id} /\ r.bundle = run[a].bundle
      /\ r.items = run[a].items /\ r.checked = run[a].checked /\ r.result = run[a].result
  BY <1>1, <1>2, <1>3 DEF RunRecords
<1>5. /\ run' \in [Apps -> RunRecords]
      /\ \A b \in Apps : run'[b] = IF b = a THEN r ELSE run[b]
      /\ \A b \in Apps : run'[b].pc = run[b].pc /\ run'[b].deps = run[b].deps
  BY <1>2, <1>4 DEF Typed
<1>6. ASSUME NEW e \in deps
      PROVE  /\ marked(e) \in Deployment
             /\ marked(e).id = e.id /\ marked(e).app = e.app /\ marked(e).host = e.host
             /\ marked(e).code = e.code
             /\ (told /\ e.id = d.id) \/ e.status = "running" => marked(e).status = "running"
  <2>1. e \in Deployment
    BY DEF TypeOK
  <2> QED BY <2>1 DEF Deployment, Statuses
<1> HIDE DEF marked
<1>7. /\ deps' \subseteq Deployment
      /\ \A e \in deps' : \E f \in deps :
            /\ e = marked(f)
            /\ e.id = f.id /\ e.app = f.app /\ e.host = f.host /\ e.code = f.code
      /\ \A f \in deps : \E e \in deps' : e.id = f.id
  BY <1>2, <1>6
<1>8. /\ \A f, e \in deps' :
            f.id = e.id \/ (f.app = e.app /\ f.host = e.host /\ f.code = e.code) => f = e
      /\ \A f \in deps' : f.id <= lastDep'
      /\ BoundRowsHaveParents'
  <2>1. lastDep' = lastDep /\ rows' = rows /\ services' = services /\ raced' = raced
    BY <1>2 DEF svcVars
  <2>2. \A f, e \in deps' : f.id = e.id => f = e
    BY <1>7 DEF TypeOK
  <2>3. \A e \in deps' : \E f \in deps :
           e.id = f.id /\ e.app = f.app /\ e.host = f.host /\ e.code = f.code
    BY <1>7
  <2> QED BY <1>7, <2>1, <2>2, <2>3, DepsStay
<1>9. TypeOK'
  <2>1. ASSUME NEW b \in Apps
        PROVE  /\ run'[b].pc \in {"none", "read", "seeded", "deploying", "over"}
               /\ run'[b].deps \subseteq Deployment
               /\ run'[b].deployed \subseteq {e.id : e \in run'[b].deps}
               /\ runs'[b] \in 0..MaxRuns
    BY <1>2, <1>4, <1>5 DEF TypeOK
  <2>2. (delivered \cup raced \cup overlapped \cup misstated)' \subseteq 1..MaxDeps
    BY <1>2, <1>3 DEF TypeOK
  <2> QED BY <1>2, <1>7, <1>8, <2>1, <2>2 DEF TypeOK, svcVars, callVars
<1>10. Typed'
  BY <1>2, <1>5, <1>8 DEF Typed, svcVars, callVars
<1>11. IdsStand'
  BY <1>2, IdsStillStand DEF Known, svcVars, callVars
<1>12. CallsFit'
  <2> SUFFICES ASSUME NEW c \in Clients
               PROVE  Fits(call[c])'
    BY DEF CallsFit
  <2>1. PICK k : k = call[c] /\ k = call'[c]
    BY <1>2 DEF callVars
  <2>2. Fits(k)
    BY <2>1 DEF CallsFit
  <2>3. InActive(k.id)' = InActive(k.id)
    BY <1>5 DEF InActive
  <2>4. InActive(d.id)
    BY <1>2 DEF InActive
  <2>5. k.op = "unbind" => k.id \in overlapped' \/ (Loose(k.id)' /\ ~InActive(k.id)')
    BY <1>2, <2>2, <2>3, <2>4 DEF Fits, Loose
  <2>6. \A e \in deps' : \E f \in deps :
           e.id = f.id /\ e.app = f.app /\ e.host = f.host /\ e.code = f.code
    BY <1>7
  <2>7. Fits(k)'
    <3> HIDE DEF IInv
    <3> QED BY <1>2, <2>2, <2>5, <2>6, FitsRestated
  <2> QED BY <2>1, <2>7
<1>13. PlansAreBound'
  <2> SUFFICES ASSUME NEW b \in Apps, NEW f \in run'[b].deps
               PROVE  /\ f.app = b /\ f.id <= lastDep'
                      /\ \A e \in deps' : e.id = f.id => e.app = b
                      /\ run'[b].pc \notin {"none", "over"} =>
                            f.id \in overlapped' \/ \E e \in deps' : e.id = f.id
    BY DEF PlansAreBound
  <2>1. f \in run[b].deps /\ run'[b].pc = run[b].pc /\ lastDep' = lastDep /\ overlapped' = overlapped
    BY <1>2, <1>5
  <2> QED BY <1>7, <2>1 DEF PlansAreBound
<1>14. PlansAreChecked'
  BY <1>2, <1>4, <1>5 DEF PlansAreChecked
<1>15. AcceptedServicesAreDeployed'
  <2>1. r.result # "success"
    BY <1>2, <1>4 DEF PlansAreChecked
  <2> QED BY <1>5, <2>1 DEF AcceptedServicesAreDeployed
<1>16. DeliveredProgramsAreBound'
  <2> SUFFICES ASSUME NEW i \in delivered', i \notin overlapped', i \notin misstated'
               PROVE  \E e \in deps' : e.id = i /\ e.status = "running"
    BY DEF DeliveredProgramsAreBound
  <2>1. i \notin overlapped /\ (i = d.id => told) /\ (i # d.id => i \in delivered \ misstated)
    BY <1>2
  <2>2. PICK f \in deps : f.id = i /\ ((told /\ i = d.id) \/ f.status = "running")
    BY <1>2, <2>1 DEF DeliveredProgramsAreBound, PlansAreBound
  <2>3. marked(f) \in deps' /\ marked(f).id = i /\ marked(f).status = "running"
    BY <1>2, <1>6, <2>2
  <2> QED BY <2>3
<1> QED BY <1>8, <1>9, <1>10, <1>11, <1>12, <1>13, <1>14, <1>15, <1>16

-----------------------------------------------------------------------------
(* The invariant                                                            *)

\* At the start there are no rows and no requests.
LEMMA Start == RegistryAssumption /\ Init => IInv
<1> SUFFICES ASSUME RegistryAssumption, Init
             PROVE  IInv
  OBVIOUS
<1> USE DEF Init
<1>1. Typed
  BY NoCallFits, RunsAtRest DEF Typed, RegistryAssumption
<1>2. TypeOK
  <2>1. \A c \in Clients : call[c].op \in Ops
    BY NoCallFits DEF Ops
  <2>2. \A a \in Apps :
           /\ run[a].pc \in {"none", "read", "seeded", "deploying", "over"}
           /\ run[a].deps \subseteq Deployment
           /\ run[a].deployed \subseteq {d.id : d \in run[a].deps}
           /\ runs[a] \in 0..MaxRuns
    BY RunsAtRest DEF RegistryAssumption
  <2> QED BY <2>1, <2>2 DEF TypeOK, RegistryAssumption
<1>3. IdsStand
  <2>1. \A i, a, x : ~Known(i, a, x)
    BY NoCallFits DEF Known
  <2> QED BY <2>1 DEF IdsStand
<1>4. CallsFit
  BY NoCallFits DEF CallsFit
<1>5. PlansAreBound /\ PlansAreChecked /\ AcceptedServicesAreDeployed
  BY RunsAtRest DEF PlansAreBound, PlansAreChecked, AcceptedServicesAreDeployed
<1>6. BoundRowsHaveParents /\ DeliveredProgramsAreBound
  BY DEF BoundRowsHaveParents, DeliveredProgramsAreBound
<1> QED BY <1>1, <1>2, <1>3, <1>4, <1>5, <1>6 DEF IInv

\* Every query and write of every handler, and every step of a run, keeps the invariant.
LEMMA Step == RegistryAssumption /\ IInv /\ [Next]_vars => IInv'
<1> SUFFICES ASSUME RegistryAssumption, IInv, [Next]_vars
             PROVE  IInv'
  OBVIOUS
<1>1. CASE ParentNext
  BY <1>1, ParentFinds, ParentWrites DEF ParentNext
<1>2. CASE ServiceNext
  <2>1. ASSUME NEW c \in Clients,
               \/ \E a \in Apps, k \in Codes : ServiceCreate(c, a, k)
               \/ \E s \in services, op \in {"save service", "count service"} : ServiceFind(c, s, op)
        PROVE  IInv'
    BY <2>1, ServiceFinds
  <2>2. ASSUME NEW c \in Clients, NEW on \in BOOLEAN,
               ServiceInsert(c, on) \/ ServiceSave(c, on) \/ ImportSave(c, on) \/ ImportInsert(c, on)
        PROVE  IInv'
    BY <2>2, ServiceWrites, ImportWrites
  <2>3. ASSUME NEW c \in Clients,
               \/ ServiceCount(c)
               \/ \E k \in Codes : ImportSkip(c, k) \/ ImportFind(c, k) \/ ImportApp(c, k)
        PROVE  IInv'
    BY <2>3, ServiceGoesOn
  <2>4. ASSUME NEW c \in Clients, ServiceDelete(c) \/ ImportEnd(c)
        PROVE  IInv'
    BY <2>4, ServiceDeletes, ImportEnds
  <2>5. ASSUME NEW c \in Clients, NEW a \in Apps, NEW K \in SUBSET Codes, NEW upsert \in BOOLEAN,
               Import(c, a, K, upsert)
        PROVE  IInv'
    BY <2>5, ImportBegins
  <2> QED BY <1>2, <2>1, <2>2, <2>3, <2>4, <2>5 DEF ServiceNext
<1>3. CASE BindingNext
  <2>1. ASSUME NEW c \in Clients, NEW a \in Apps, NEW h \in Hosts, BindApp(c, a, h)
        PROVE  IInv'
    BY <2>1, ServiceFinds
  <2>2. ASSUME NEW c \in Clients, BindHost(c) \/ BindService(c)
        PROVE  IInv'
    BY <2>2, BindGoesOn
  <2>3. ASSUME NEW c \in Clients, BindInsert(c) \/ UnbindDelete(c)
        PROVE  IInv'
    BY <2>3, BindInserts, UnbindDeletes
  <2>4. ASSUME NEW c \in Clients, NEW d \in deps, UnbindFind(c, d)
        PROVE  IInv'
    BY <2>4, UnbindFinds
  <2>5. ASSUME NEW c \in Clients,
               \/ \E d \in deps, op \in {"control", "report"} : RuntimeFind(c, d, op)
               \/ \E gone, ok \in BOOLEAN : RuntimeExec(c, gone, ok)
               \/ ReportFails(c)
        PROVE  IInv'
    BY <2>5, RuntimeGoesOn
  <2>6. ASSUME NEW c \in Clients, NEW status \in Statuses, RuntimeReport(c, status)
        PROVE  IInv'
    BY <2>6, Reports
  <2> QED BY <1>3, <2>1, <2>2, <2>3, <2>4, <2>5, <2>6 DEF BindingNext
<1>4. CASE RunNext
  <2>1. ASSUME NEW a \in Apps, NEW bundle \in BOOLEAN, NEW items \in SUBSET Codes,
               ReadPlan(a, bundle, items)
        PROVE  IInv'
    BY <2>1, Reads
  <2>2. ASSUME NEW a \in Apps, ValidatePlan(a) \/ LoadServices(a)
        PROVE  IInv'
    BY <2>2, RunGoesOn
  <2>3. ASSUME NEW a \in Apps, NEW d \in run[a].deps, NEW told \in BOOLEAN,
               DeployHost(a, d, told)
        PROVE  IInv'
    BY <2>3, Deploys
  <2>4. ASSUME NEW a \in Apps, NEW d \in run[a].deps, LoseHost(a, d)
        PROVE  IInv'
    BY <2>4, Loses
  <2>5. ASSUME NEW a \in Apps, NEW stop \in {"none", "cancelled", "expired"}, EndRun(a, stop)
        PROVE  IInv'
    BY <2>5, RunEnds
  <2> QED BY <1>4, <2>1, <2>2, <2>3, <2>4, <2>5 DEF RunNext
<1>5. CASE UNCHANGED vars
  <2>1. RowMoves
    BY <1>5 DEF vars, RowMoves, callVars, IInv, TypeOK
  <2> QED BY <2>1, RowStep
<1> QED BY <1>1, <1>2, <1>3, <1>4, <1>5 DEF Next

\* The invariant holds of every state that can be reached.
THEOREM Invariance == Spec => []IInv
<1>1. Init => IInv
  BY Start, RegistryAssumption
<1>2. IInv /\ [Next]_vars => IInv'
  BY Step, RegistryAssumption
<1> QED BY <1>1, <1>2, PTL DEF Spec

\* Every variable keeps its type; no two rows of a table have the same identifier, nor the
\* same key in a unique index.
THEOREM TypeCorrect == Spec => []TypeOK
<1>1. IInv => TypeOK
  BY DEF IInv
<1> QED BY <1>1, Invariance, PTL

\* No deployment is left without its application, host or service, but those inserted while
\* one of them was being deleted: the count of DeleteCount and ServiceCount is what holds.
THEOREM BoundRowsHaveParentsHolds == Spec => []BoundRowsHaveParents
<1>1. IInv => BoundRowsHaveParents
  BY DEF IInv
<1> QED BY <1>1, Invariance, PTL

\* No Unbind takes the row of a program that a run has delivered and nobody has stopped, but
\* one that overlaps with the run, or that follows a report at odds with the host, or a run
\* that could not tell the row.
THEOREM DeliveredProgramsAreBoundHolds == Spec => []DeliveredProgramsAreBound
<1>1. IInv => DeliveredProgramsAreBound
  BY DEF IInv
<1> QED BY <1>1, Invariance, PTL

\* A run that ends in success with time left has deployed what it was accepted for.
THEOREM AcceptedServicesAreDeployedHolds == Spec => []AcceptedServicesAreDeployed
<1>1. IInv => AcceptedServicesAreDeployed
  BY DEF IInv
<1> QED BY <1>1, Invariance, PTL
=============================================================================
