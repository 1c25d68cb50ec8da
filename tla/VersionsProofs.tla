---------------------------- MODULE VersionsProofs ----------------------------
(***************************************************************************)
(* Proofs about Versions for any number of deployments, requests, builds,  *)
(* runs and clean-ups.  The inductive invariant IInv says what a bundle    *)
(* condemned by a clean-up may still be (nothing a run was promised, and   *)
(* without managed files once its rows are the next to go), that an ingest *)
(* copies files nobody else knows of, and what the four version pointers   *)
(* of a deployment know of the two versions it ran last, before and after  *)
(* the run has written them.                                               *)
(***************************************************************************)
EXTENDS Versions, FiniteSetTheorems, TLAPS

\* Requests and clean-ups are records of their fields.
RequestRecords ==
    [pc : {"idle", "read", "running"},
     snap : [Deps -> [curItem : 0..MaxBundle, curArt : {0} \cup Arts]],
     target : [Deps -> Versions], ref : Versions, todo : SUBSET Deps, deployed : SUBSET Deps,
     failed : BOOLEAN]
CleanerRecords ==
    [candidates : SUBSET Nat, condemned : Nat, stage : {"idle", "next", "files", "rows"}]
Records ==
    /\ req \in [Requests -> RequestRecords]
    /\ cleaner \in [Cleaners -> CleanerRecords]

\* The bundle a request is going to refer to has been built.
BuiltBefore == \A q \in Requests : req[q].ref.item <= built

\* The bundle being ingested has no rows yet, and no clean-up can have listed it.
IngestingIsNew ==
    ingesting # 0 =>
        /\ ingesting \notin bundles
        /\ \A k \in Cleaners : ingesting \notin cleaner[k].candidates \cup {cleaner[k].condemned}

\* A condemned bundle is none a run was promised, and has no file left when its rows are
\* about to go, but for those the clean-up has passed over.
CondemnedIsFree ==
    \A k \in Cleaners :
        /\ cleaner[k].condemned \notin protected
        /\ cleaner[k].stage = "rows" => cleaner[k].condemned \notin files \cap managed

\* One request has a run; the deployments between their last step and the write of their
\* pointers run its target, and their pointers do not know it.
OneRun ==
    \A q \in Requests :
        /\ req[q].pc = "running" =>
              locked /\ \A p \in Requests : req[p].pc = "running" => p = q
        /\ req[q].pc # "running" => req[q].deployed = {}
        /\ \A d \in req[q].deployed :
              /\ ran[d].now = req[q].target[d] /\ req[q].target[d] # NoVersion
              /\ ~told[d].now

\* A deployment that has a previous version of a kind has a current one of that kind; while
\* its pointers have seen one kind only, they are the last two versions it ran, each when
\* it was told, or the current one is the version before last when the last was not.
PointersKnow ==
    \A d \in Deps :
        /\ ptr[d].curItem = 0 => ptr[d].prevItem = 0
        /\ ptr[d].curArt = 0 => ptr[d].prevArt = 0
        /\ ~Mixed(d) /\ told[d].now => ran[d].now = Version(ptr[d].curItem, ptr[d].curArt)
        /\ ~Mixed(d) /\ told[d].now /\ told[d].before =>
              ran[d].before = Version(ptr[d].prevItem, ptr[d].prevArt)
        /\ ~Mixed(d) /\ ~told[d].now /\ told[d].before =>
              ran[d].before = Version(ptr[d].curItem, ptr[d].curArt)

IInv ==
    /\ TypeOK
    /\ Records
    /\ BuiltBefore
    /\ ProtectedBundlesStay
    /\ NoOrphanFiles
    /\ IngestingIsNew
    /\ CondemnedIsFree
    /\ OneRun
    /\ PointersKnow

-----------------------------------------------------------------------------
(* Numbers and versions                                                     *)

\* A set of naturals that is not empty has a least element.
LEMMA NatLeast ==
    ASSUME NEW S \in SUBSET Nat, S # {}
    PROVE  \E m \in S : \A n \in S : m <= n
<1> DEFINE R == OpToRel(<, Nat)
<1>1. IsWellFoundedOn(R, Nat)
  BY NatLessThanWellFounded
<1> HIDE DEF R
<1>2. \E m \in S : \A n \in S : ~(<<n, m>> \in R)
  BY <1>1, WFMin
<1>3. PICK m \in S : \A n \in S : ~(<<n, m>> \in R)
  BY <1>2
<1>4. \A n \in S : ~(n < m)
  BY <1>3 DEF R, OpToRel
<1> QED BY <1>4, <1>3

\* So has one that is bounded, a greatest element: the newest candidate of a clean-up.
LEMMA NatGreatest ==
    ASSUME NEW n \in Nat, NEW S \in SUBSET (0..n), S # {}
    PROVE  \E m \in S : \A k \in S : k <= m
<1> DEFINE T == {i \in 0..n : n - i \in S}
<1>1. PICK s \in S : TRUE
  OBVIOUS
<1>2. T \subseteq Nat /\ n - s \in T
  OBVIOUS
<1>3. PICK m \in T : \A k \in T : m <= k
  BY <1>2, NatLeast
<1>4. ASSUME NEW k \in S PROVE k <= n - m
  <2>1. n - k \in 0..n /\ n - (n - k) = k
    OBVIOUS
  <2>2. m <= n - k
    BY <2>1, <1>3
  <2> QED BY <2>1, <2>2
<1> QED BY <1>3, <1>4

\* A version is an item or an artifact, not both.
LEMMA VersionFields ==
    ASSUME NEW v \in Versions
    PROVE  /\ v = Version(v.item, v.art)
           /\ v.item \in 0..MaxBundle /\ v.art \in {0} \cup Arts
           /\ v.item = 0 \/ v.art = 0
           /\ v # NoVersion <=> (v.item # 0 \/ v.art # 0)
BY VersionsAssumption DEF Versions, Version, NoVersion

\* Items, artifacts and no version at all are versions.
LEMMA AreVersions ==
    /\ NoVersion \in Versions
    /\ \A i \in 0..MaxBundle : Version(i, 0) \in Versions
    /\ \A a \in Arts : Version(0, a) \in Versions
<1>1. \A i \in 0..MaxBundle : Version(i, 0) \in Versions
  BY DEF Versions
<1>2. \A a \in Arts : Version(0, a) \in Versions
  BY DEF Versions
<1>3. NoVersion \in Versions
  BY <1>1, VersionsAssumption DEF NoVersion
<1> QED BY <1>1, <1>2, <1>3

\* A request at rest is a request.
LEMMA IdleType ==
    /\ Idle \in RequestRecords /\ Idle.ref.item = 0
    /\ Idle.pc = "idle" /\ Idle.deployed = {}
BY AreVersions, VersionsAssumption
   DEF Idle, Snapshot, NoPointers, NoVersion, Version, RequestRecords

\* A clean-up at rest has no candidates and condemns nothing.
LEMMA NoCleanerType ==
    NoCleaner \in CleanerRecords /\ NoCleaner.candidates = {}
        /\ NoCleaner.condemned = 0 /\ NoCleaner.stage = "idle"
BY DEF NoCleaner, CleanerRecords

\* What a rollback installs is a version, and its item is stored.
LEMMA RollbackTargetType ==
    ASSUME TypeOK, NEW d \in Deps
    PROVE  /\ RollbackTarget(ptr[d]) \in Versions
           /\ RollbackTarget(ptr[d]).item \in {0} \cup bundles
<1>1. bundles \subseteq 0..MaxBundle /\ arts \subseteq Arts
  BY VersionsAssumption DEF TypeOK
<1>2. CASE ptr[d].prevItem \in bundles
  BY <1>1, <1>2, AreVersions DEF RollbackTarget, Version
<1>3. CASE ptr[d].prevItem \notin bundles /\ ptr[d].prevArt \in arts
  BY <1>1, <1>3, AreVersions DEF RollbackTarget, Version
<1>4. CASE ptr[d].prevItem \notin bundles /\ ptr[d].prevArt \notin arts
  BY <1>4, AreVersions DEF RollbackTarget, Version, NoVersion
<1> QED BY <1>2, <1>3, <1>4

\* What a request reads and aims at keeps the invariant: it is written nowhere but in the
\* request.
LEMMA ReadStep ==
    ASSUME IInv, NEW q \in Requests, NEW target \in [Deps -> Versions], NEW ref \in Versions,
           ref.item <= built, Read(q, target, ref)
    PROVE  IInv'
<1> DEFINE sn == [d \in Deps |-> Snapshot(ptr[d])]
           new == [Idle EXCEPT !.pc = "read", !.snap = sn, !.target = target, !.ref = ref]
<1> USE DEF IInv, storeVars, runDb, history
<1>1. req' = [req EXCEPT ![q] = new]
  BY DEF Read
<1>2. sn \in [Deps -> [curItem : 0..MaxBundle, curArt : {0} \cup Arts]]
  BY DEF TypeOK, Pointers, Snapshot
<1> HIDE DEF sn
<1>3. new \in RequestRecords /\ new.ref = ref /\ new.pc = "read" /\ new.deployed = {}
  BY <1>2, IdleType DEF RequestRecords
<1> HIDE DEF new
<1>4. UNCHANGED <<storeVars, runDb, locked, history, cleaner, remover>>
  BY DEF Read
<1>5. Records' /\ BuiltBefore'
  BY <1>1, <1>3, <1>4 DEF Records, BuiltBefore
<1>6. TypeOK'
  BY <1>1, <1>3, <1>4 DEF RequestRecords, Records, TypeOK
<1>7. ProtectedBundlesStay' /\ NoOrphanFiles' /\ IngestingIsNew' /\ CondemnedIsFree'
  BY <1>4 DEF ProtectedBundlesStay, NoOrphanFiles, IngestingIsNew, CondemnedIsFree
<1>8. PointersKnow'
  BY <1>4 DEF PointersKnow, Mixed
<1>9. OneRun'
  BY <1>1, <1>3, <1>4 DEF Records, OneRun
<1> QED BY <1>5, <1>6, <1>7, <1>8, <1>9

\* The four requests that read before they take the lock: each aims at versions, and the
\* bundle its row is going to name is stored.
LEMMA RequestReads ==
    ASSUME IInv, NEW q \in Requests,
           \/ \E b \in 1..MaxBundle : TriggerBundle(q, b)
           \/ \E a \in Arts : TriggerArtifact(q, a)
           \/ Rollback(q)
           \/ \E v \in Versions : RollbackToRun(q, v)
    PROVE  IInv'
<1> USE DEF IInv
<1>1. bundles \subseteq 1..built /\ built \in 0..MaxBundle /\ arts \subseteq Arts
  BY DEF TypeOK
<1>2. \A v \in Versions : Everywhere(v) \in [Deps -> Versions]
  BY DEF Everywhere
<1>3. ASSUME NEW b \in 1..MaxBundle, TriggerBundle(q, b) PROVE IInv'
  <2>1. Version(b, 0) \in Versions /\ Version(b, 0).item <= built
    BY <1>1, <1>3, AreVersions, VersionsAssumption DEF TriggerBundle, Version
  <2>2. Everywhere(Version(b, 0)) \in [Deps -> Versions]
    BY <1>2, <2>1
  <2> QED BY <1>3, <2>1, <2>2, ReadStep DEF TriggerBundle
<1>4. ASSUME NEW a \in Arts, TriggerArtifact(q, a) PROVE IInv'
  <2>1. Version(0, a) \in Versions /\ Version(0, a).item <= built
    BY <1>1, AreVersions, VersionsAssumption DEF Version
  <2>2. Everywhere(Version(0, a)) \in [Deps -> Versions]
    BY <1>2, <2>1
  <2> QED BY <1>4, <2>1, <2>2, ReadStep DEF TriggerArtifact
<1>5. ASSUME NEW v \in Versions, RollbackToRun(q, v) PROVE IInv'
  <2>1. v.item <= built
    BY <1>1, <1>5, VersionFields, VersionsAssumption DEF RollbackToRun
  <2>2. Everywhere(v) \in [Deps -> Versions]
    BY <1>2
  <2> QED BY <1>5, <2>1, <2>2, ReadStep DEF RollbackToRun
<1>6. CASE Rollback(q)
  <2> DEFINE target == [d \in Deps |-> RollbackTarget(ptr[d])]
             withItem == {d \in Deps : target[d].item > 0}
             ref == IF withItem = {} THEN NoVersion
                    ELSE target[CHOOSE d \in withItem : \A e \in withItem : d <= e]
  <2>1. Read(q, target, ref)
    BY <1>6 DEF Rollback
  <2>2. target \in [Deps -> Versions]
    BY RollbackTargetType
  <2>3. \A d \in Deps : target[d].item \in {0} \cup bundles
    BY RollbackTargetType
  <2>4. CASE withItem = {}
    <3>1. ref = NoVersion
      BY <2>4
    <3> HIDE DEF target, ref
    <3>2. ref \in Versions /\ ref.item <= built
      BY <1>1, <3>1, AreVersions, VersionsAssumption DEF NoVersion, Version
    <3> QED BY <2>1, <2>2, <3>2, ReadStep
  <2>5. CASE withItem # {}
    <3> HIDE DEF target
    <3>1. withItem \subseteq Nat
      BY VersionsAssumption
    <3>2. PICK d \in withItem : \A e \in withItem : d <= e
      BY <2>5, <3>1, NatLeast
    <3>3. (CHOOSE e \in withItem : \A f \in withItem : e <= f) \in withItem
      BY <3>2
    <3>4. PICK e \in Deps : ref = target[e]
      BY <2>5, <3>3
    <3> HIDE DEF ref, withItem
    <3>5. ref \in Versions /\ ref.item <= built
      <4>1. ref.item = 0 \/ ref.item \in bundles
        BY <2>3, <3>4
      <4>2. built \in Nat /\ \A b \in bundles : b <= built
        BY <1>1, VersionsAssumption
      <4> QED BY <2>2, <3>4, <4>1, <4>2
    <3> QED BY <2>1, <2>2, <3>5, ReadStep
  <2> QED BY <2>4, <2>5
<1> QED BY <1>3, <1>4, <1>5, <1>6

\* The run of a request, from the lock to its release.
LEMMA RunStep ==
    ASSUME IInv, NEW q \in Requests,
           \/ Start(q) \/ Reject(q) \/ EndRun(q)
           \/ \E d \in Deps : HostFails(q, d) \/ HostSkipped(q, d) \/ PointerFails(q, d)
    PROVE  IInv'
<1> USE DEF IInv, storeVars, runDb, history
<1>1. CASE Start(q)
  <2>0. \A p \in Requests : /\ req'[p] \in RequestRecords
                            /\ req'[p].ref = req[p].ref
                            /\ req'[p].target = req[p].target
                            /\ req'[p].deployed = req[p].deployed
                            /\ req'[p].pc = IF p = q THEN "running" ELSE req[p].pc
    <3>1. req \in [Requests -> RequestRecords]
      BY DEF Records
    <3>2. req' = [req EXCEPT ![q].pc = "running", ![q].todo = Deps]
      BY <1>1 DEF Start
    <3> HIDE DEF IInv
    <3>3. /\ req'[q] \in RequestRecords /\ req'[q].ref = req[q].ref
          /\ req'[q].target = req[q].target /\ req'[q].deployed = req[q].deployed
          /\ req'[q].pc = "running"
      <4>1. PICK r : r = [req[q] EXCEPT !.pc = "running", !.todo = Deps]
        OBVIOUS
      <4>2. req'[q] = r
        BY <3>1, <3>2, <4>1
      <4>3. req[q] \in RequestRecords
        BY <3>1
      <4>4. /\ r \in RequestRecords /\ r.ref = req[q].ref /\ r.target = req[q].target
            /\ r.deployed = req[q].deployed /\ r.pc = "running"
        BY <4>1, <4>3 DEF RequestRecords
      <4> QED BY <4>2, <4>4
    <3>4. \A p \in Requests \ {q} : req'[p] = req[p]
      BY <3>1, <3>2
    <3> QED BY <3>1, <3>3, <3>4
  <2>1. Records' /\ BuiltBefore'
    <3>1. cleaner' = cleaner /\ built' = built
      BY <1>1 DEF Start
    <3>2. req' \in [Requests -> RequestRecords]
      <4>1. req' = [p \in Requests |-> req'[p]]
        BY <1>1 DEF Start, Records
      <4> QED BY <2>0, <4>1
    <3> QED BY <2>0, <3>1, <3>2 DEF Records, BuiltBefore
  <2> USE <1>1 DEF Start
  <2>2. refersTo(req[q].ref) \subseteq 1..built
    BY VersionsAssumption, VersionFields DEF refersTo, BuiltBefore, TypeOK
  <2>3. TypeOK'
    <3>1. protected' \subseteq runRefs'
      BY DEF TypeOK
    <3> QED BY <2>2, <3>1, VersionsAssumption DEF TypeOK, Records, RequestRecords
  <2>4. ProtectedBundlesStay' /\ NoOrphanFiles' /\ IngestingIsNew'
    BY DEF ProtectedBundlesStay, NoOrphanFiles, IngestingIsNew
  <2>5. CondemnedIsFree'
    BY DEF CondemnedIsFree, Condemned
  <2>6. PointersKnow'
    BY DEF PointersKnow, Mixed
  <2>7. OneRun'
    <3>1. ~locked /\ locked' /\ UNCHANGED <<ran, told>>
      OBVIOUS
    <3>2. \A p \in Requests : req[p].pc # "running" /\ req[p].deployed = {}
      BY <3>1 DEF OneRun
    <3>3. \A p \in Requests : /\ req'[p].deployed = {}
                              /\ req'[p].pc = "running" => p = q
      <4> HIDE <1>1 DEF Start, IInv
      <4> QED BY <2>0, <3>2
    <3>4. ASSUME NEW p \in Requests
          PROVE  /\ req'[p].pc = "running" =>
                       locked' /\ \A r \in Requests : req'[r].pc = "running" => r = p
                 /\ req'[p].pc # "running" => req'[p].deployed = {}
                 /\ req'[p].deployed = {}
      BY <3>1, <3>3
    <3> HIDE <1>1 DEF Start, IInv
    <3> QED BY <3>4 DEF OneRun
  <2> QED BY <2>1, <2>3, <2>4, <2>5, <2>6, <2>7
<1>2. CASE Reject(q) \/ EndRun(q)
  <2>1. Records' /\ BuiltBefore'
    BY <1>2, IdleType, VersionsAssumption DEF Reject, EndRun, Records, BuiltBefore, TypeOK
  <2>2. \A p \in Requests : req'[p] \in RequestRecords
    BY <2>1 DEF Records
  <2>3. good' \subseteq Versions \ {NoVersion}
    BY <1>2 DEF Reject, EndRun, Records, RequestRecords, TypeOK
  <2>4. TypeOK'
    BY <1>2, <2>2, <2>3 DEF Reject, EndRun, RequestRecords, TypeOK
  <2>5. ProtectedBundlesStay' /\ NoOrphanFiles' /\ IngestingIsNew' /\ CondemnedIsFree'
    BY <1>2 DEF Reject, EndRun, ProtectedBundlesStay, NoOrphanFiles, IngestingIsNew,
                CondemnedIsFree
  <2>6. PointersKnow'
    BY <1>2 DEF Reject, EndRun, PointersKnow, Mixed
  <2>7. OneRun'
    <3>1. req' = [req EXCEPT ![q] = Idle] /\ UNCHANGED <<ran, told>>
      BY <1>2 DEF Reject, EndRun
    <3>2. \A p \in Requests : req'[p] = IF p = q THEN Idle ELSE req[p]
      BY <3>1 DEF Records
    <3>3. CASE Reject(q)
      BY <3>1, <3>2, <3>3, IdleType DEF Reject, OneRun
    <3>4. CASE EndRun(q)
      <4>1. \A p \in Requests : req'[p].pc # "running"
        BY <3>2, <3>4, IdleType DEF EndRun, OneRun
      <4> QED BY <3>1, <3>2, <4>1, IdleType DEF OneRun
    <3> QED BY <1>2, <3>3, <3>4
  <2> QED BY <2>1, <2>4, <2>5, <2>6, <2>7
<1>3. ASSUME NEW d \in Deps, HostFails(q, d) \/ HostSkipped(q, d) \/ PointerFails(q, d)
      PROVE  IInv'
  <2>0. /\ req'[q] \in RequestRecords
        /\ req'[q].pc = req[q].pc /\ req'[q].ref = req[q].ref
        /\ req'[q].target = req[q].target /\ req'[q].deployed \subseteq req[q].deployed
        /\ req' = [req EXCEPT ![q] = req'[q]]
    <3>1. CASE HostFails(q, d)
      BY <3>1 DEF HostFails, Records, RequestRecords
    <3>2. CASE HostSkipped(q, d)
      <4>1. req' = [req EXCEPT ![q].todo = @ \ {d}]
        BY <3>2 DEF HostSkipped
      <4> QED BY <4>1 DEF Records, RequestRecords
    <3>3. CASE PointerFails(q, d)
      <4> DEFINE r == [req[q] EXCEPT !.deployed = @ \ {d}]
      <4>1. req' = [req EXCEPT ![q] = r]
        BY <3>3 DEF PointerFails, Records
      <4>2. /\ r \in RequestRecords /\ r.pc = req[q].pc /\ r.ref = req[q].ref
            /\ r.target = req[q].target /\ r.deployed \subseteq req[q].deployed
        BY DEF Records, RequestRecords
      <4> HIDE DEF r
      <4> QED BY <4>1, <4>2 DEF Records
    <3> QED BY <1>3, <3>1, <3>2, <3>3
  <2>2. UNCHANGED <<storeVars, runDb, locked, history, cleaner, remover>>
    BY <1>3 DEF HostFails, HostSkipped, PointerFails
  <2>1. Records' /\ BuiltBefore'
    BY <2>0, <2>2 DEF Records, BuiltBefore
  <2>3. \A p \in Requests : req'[p] \in RequestRecords
    BY <2>1 DEF Records
  <2>4. TypeOK'
    BY <2>2, <2>3 DEF RequestRecords, TypeOK
  <2>5. ProtectedBundlesStay' /\ NoOrphanFiles' /\ IngestingIsNew' /\ CondemnedIsFree'
    BY <2>2 DEF ProtectedBundlesStay, NoOrphanFiles, IngestingIsNew, CondemnedIsFree
  <2>6. PointersKnow'
    BY <2>2 DEF PointersKnow, Mixed
  <2>7. OneRun'
    <3>1. \A p \in Requests : p # q => req'[p] = req[p]
      BY <2>0 DEF Records
    <3>2. UNCHANGED <<locked, ran, told>>
      BY <2>2
    <3> QED BY <2>0, <3>1, <3>2 DEF OneRun
  <2> QED BY <2>1, <2>4, <2>5, <2>6, <2>7
<1> QED BY <1>1, <1>2, <1>3

\* A host runs the target: what its pointers knew as the version it ran, they now know as
\* the one before.
LEMMA DeployedStep ==
    ASSUME IInv, NEW q \in Requests, NEW d \in Deps, HostDeployed(q, d)
    PROVE  IInv'
<1> USE DEF IInv, storeVars, runDb
<1> DEFINE v == req[q].target[d]
           r == [req[q] EXCEPT !.todo = @ \ {d}, !.deployed = @ \cup {d}]
<1>1. v \in Versions /\ v # NoVersion /\ req[q].pc = "running" /\ locked
  BY DEF HostDeployed, Working, Records, RequestRecords, OneRun
<1>2. /\ ran' = [ran EXCEPT ![d] = [now |-> v, before |-> ran[d].now]]
      /\ told' = [told EXCEPT ![d] = [now |-> FALSE, before |-> told[d].now]]
      /\ req' = [req EXCEPT ![q] = r]
      /\ UNCHANGED <<storeVars, runDb, locked, protected, cleaner, remover>>
  BY DEF HostDeployed, Records
<1>3. /\ r \in RequestRecords /\ r.ref = req[q].ref /\ r.pc = "running"
      /\ r.target = req[q].target /\ r.deployed = req[q].deployed \cup {d}
  BY <1>1 DEF Records, RequestRecords
<1>4. r.target[d] = v
  BY <1>3
<1> HIDE DEF v, r
<1>5. Records' /\ BuiltBefore'
  BY <1>2, <1>3 DEF Records, BuiltBefore
<1>6. \A p \in Requests : req'[p] \in RequestRecords
  BY <1>5 DEF Records
<1>7. ran' \in [Deps -> [now : Versions, before : Versions]]
      /\ told' \in [Deps -> [now : BOOLEAN, before : BOOLEAN]]
  BY <1>1, <1>2 DEF TypeOK
<1>8. TypeOK'
  BY <1>2, <1>6, <1>7 DEF RequestRecords, TypeOK
<1>9. ProtectedBundlesStay' /\ NoOrphanFiles' /\ IngestingIsNew' /\ CondemnedIsFree'
  BY <1>2 DEF ProtectedBundlesStay, NoOrphanFiles, IngestingIsNew, CondemnedIsFree
<1>10. \A e \in Deps : e # d => ran'[e] = ran[e] /\ told'[e] = told[e]
  BY <1>2 DEF TypeOK
<1>11. /\ ran'[d].now = v /\ ran'[d].before = ran[d].now
       /\ told'[d].now = FALSE /\ told'[d].before = told[d].now
  BY <1>2 DEF TypeOK
<1>12. OneRun'
  <2>1. \A p \in Requests : req'[p] = IF p = q THEN r ELSE req[p]
    BY <1>2 DEF Records
  <2>2. \A p \in Requests : p # q => req[p].pc # "running" /\ req[p].deployed = {}
    BY <1>1 DEF OneRun
  <2>3. ASSUME NEW e \in r.deployed
        PROVE  /\ ran'[e].now = r.target[e] /\ r.target[e] # NoVersion
               /\ ~told'[e].now
    <3>1. CASE e = d
      BY <1>1, <1>4, <1>11, <3>1
    <3>2. CASE e # d
      <4>1. e \in req[q].deployed /\ e \in Deps
        BY <1>3, <2>3, <3>2 DEF Records, RequestRecords
      <4> QED BY <1>3, <1>10, <3>2, <4>1 DEF OneRun
    <3> QED BY <3>1, <3>2
  <2>4. locked'
    BY <1>1, <1>2
  <2> QED BY <1>3, <2>1, <2>2, <2>3, <2>4 DEF OneRun
<1>13. PointersKnow'
  <2>1. UNCHANGED ptr
    BY <1>2
  <2> QED BY <1>10, <1>11, <2>1 DEF PointersKnow, Mixed
<1> QED BY <1>5, <1>8, <1>9, <1>12, <1>13

\* The pointers of a host that runs the target move on, and know the last two versions
\* again if the run had read them as they were.
LEMMA AdvanceStep ==
    ASSUME IInv, NEW q \in Requests, NEW d \in Deps, OnDeploymentSuccess(q, d)
    PROVE  IInv'
<1> USE DEF IInv, storeVars
<1> DEFINE v == req[q].target[d]
           s == req[q].snap[d]
           r == [req[q] EXCEPT !.deployed = @ \ {d}]
<1>1. /\ v \in Versions /\ v # NoVersion /\ ran[d].now = v /\ ~told[d].now
      /\ s \in [curItem : 0..MaxBundle, curArt : {0} \cup Arts]
  BY DEF OnDeploymentSuccess, Records, RequestRecords, OneRun
<1>2. /\ ptr' = [ptr EXCEPT ![d] = Advance(ptr[d], s, v)]
      /\ told' = [told EXCEPT ![d] = [now |-> TRUE,
                                      before |-> told[d].before /\ s = Snapshot(ptr[d])]]
      /\ req' = [req EXCEPT ![q] = r]
      /\ UNCHANGED <<storeVars, runs, runRefs, good, locked, ran, protected, cleaner, remover>>
  BY DEF OnDeploymentSuccess, Records, TypeOK
<1>3. /\ r \in RequestRecords /\ r.ref = req[q].ref /\ r.pc = req[q].pc
       /\ r.target = req[q].target /\ r.deployed = req[q].deployed \ {d}
  BY DEF Records, RequestRecords
<1> HIDE DEF v, s, r
<1>4. Records' /\ BuiltBefore'
  BY <1>2, <1>3 DEF Records, BuiltBefore
<1>5. \A p \in Requests : req'[p] \in RequestRecords
  BY <1>4 DEF Records
<1>6. ptr' \in [Deps -> Pointers]
  <2>1. Advance(ptr[d], s, v) \in Pointers
    BY <1>1, VersionFields DEF Advance, Pointers, TypeOK
  <2> QED BY <1>2, <2>1 DEF TypeOK
<1>7. TypeOK'
  <2>1. told' \in [Deps -> [now : BOOLEAN, before : BOOLEAN]]
    BY <1>2 DEF TypeOK
  <2> QED BY <1>2, <1>5, <1>6, <2>1 DEF RequestRecords, TypeOK
<1>8. ProtectedBundlesStay' /\ NoOrphanFiles' /\ IngestingIsNew' /\ CondemnedIsFree'
  BY <1>2 DEF ProtectedBundlesStay, NoOrphanFiles, IngestingIsNew, CondemnedIsFree
<1>9. \A e \in Deps : e # d => ptr'[e] = ptr[e] /\ told'[e] = told[e]
  BY <1>2 DEF TypeOK
<1>10. ran' = ran
  BY <1>2
<1>11. OneRun'
  <2>1. \A p \in Requests : req'[p] = IF p = q THEN r ELSE req[p]
    BY <1>2 DEF Records
  <2>2. \A p \in Requests : p # q => req[p].pc # "running" /\ req[p].deployed = {}
    BY DEF OnDeploymentSuccess, OneRun
  <2>3. \A e \in r.deployed : e \in Deps /\ e # d /\ e \in req[q].deployed
    BY <1>3 DEF RequestRecords
  <2>4. locked' = locked
    BY <1>2
  <2> QED BY <1>3, <1>9, <1>10, <2>1, <2>2, <2>3, <2>4 DEF OneRun
<1>12. PointersKnow'
  <2>2. ptr'[d] = Advance(ptr[d], s, v) /\ told'[d].now
    BY <1>2 DEF TypeOK
  <2>3. told'[d].before => told[d].before /\ s = Snapshot(ptr[d])
    BY <1>2 DEF TypeOK
  <2>4. /\ ptr'[d].curItem = 0 => ptr'[d].prevItem = 0
        /\ ptr'[d].curArt = 0 => ptr'[d].prevArt = 0
    BY <1>1, <2>2, VersionFields, VersionsAssumption DEF Advance, PointersKnow, TypeOK, Pointers
  <2>5. ASSUME ~Mixed(d)'
        PROVE  /\ ran[d].now = Version(ptr'[d].curItem, ptr'[d].curArt)
               /\ told'[d].before => ran[d].before = Version(ptr'[d].prevItem, ptr'[d].prevArt)
    <3>1. ~(ptr'[d].curItem # 0 /\ ptr'[d].curArt # 0)
      BY <2>5 DEF Mixed
    <3>2. CASE v.item > 0
      <4>1. v.art = 0 /\ v = Version(v.item, 0)
        BY <1>1, <3>2, VersionFields, VersionsAssumption
      <4>2. /\ ptr'[d].curItem = v.item /\ ptr'[d].curArt = ptr[d].curArt
            /\ ptr'[d].prevItem = s.curItem /\ ptr'[d].prevArt = ptr[d].prevArt
        BY <2>2, <3>2, <4>1 DEF Advance
      <4>3. ptr[d].curArt = 0 /\ ptr[d].prevArt = 0
        BY <3>1, <3>2, <4>2, VersionsAssumption, <1>1, VersionFields DEF PointersKnow
      <4>4. told'[d].before => ran[d].before = Version(ptr[d].curItem, 0)
        BY <1>1, <2>3, <4>3 DEF PointersKnow, Mixed
      <4>5. told'[d].before => s.curItem = ptr[d].curItem
        BY <2>3 DEF Snapshot
      <4> QED BY <1>1, <4>1, <4>2, <4>3, <4>4, <4>5
    <3>3. CASE ~(v.item > 0)
      <4>1. v.item = 0 /\ v.art > 0 /\ v = Version(0, v.art)
        <5>1. v.item = 0
          BY <1>1, <3>3, VersionFields, VersionsAssumption
        <5>2. v.art # 0 /\ v = Version(0, v.art)
          BY <1>1, <5>1, VersionFields
        <5>3. v.art \in Arts
          BY <1>1, <5>2, VersionFields
        <5>4. v.art \in Nat
          BY <5>3, VersionsAssumption
        <5> QED BY <5>1, <5>2, <5>4
      <4>2. /\ ptr'[d].curItem = ptr[d].curItem /\ ptr'[d].curArt = v.art
            /\ ptr'[d].prevItem = ptr[d].prevItem /\ ptr'[d].prevArt = s.curArt
        BY <2>2, <3>3, <4>1 DEF Advance
      <4>3. ptr[d].curItem = 0 /\ ptr[d].prevItem = 0
        BY <3>1, <4>1, <4>2 DEF PointersKnow
      <4>4. told'[d].before => ran[d].before = Version(0, ptr[d].curArt)
        BY <1>1, <2>3, <4>3 DEF PointersKnow, Mixed
      <4>5. told'[d].before => s.curArt = ptr[d].curArt
        BY <2>3 DEF Snapshot
      <4> QED BY <1>1, <4>1, <4>2, <4>3, <4>4, <4>5
    <3> QED BY <3>2, <3>3
  <2> QED BY <1>9, <1>10, <2>2, <2>4, <2>5 DEF PointersKnow, Mixed
<1> QED BY <1>4, <1>7, <1>8, <1>12, <1>11

\* The clean-up condemns what nothing refers to, deletes its files, then its rows.
LEMMA CleanUpStep ==
    ASSUME IInv, NEW k \in Cleaners, CleanNext(k)
    PROVE  IInv'
<1> USE DEF IInv, CleanStep, runVars, runDb, history
<1>1. bundles \subseteq 0..MaxBundle /\ built \in 0..MaxBundle /\ MaxBundle \in Nat
  BY VersionsAssumption DEF TypeOK
<1>2. ASSUME NEW c \in CleanerRecords, cleaner' = [cleaner EXCEPT ![k] = c],
             c.candidates \subseteq 1..built, c.condemned \in 0..built,
             c.condemned \notin protected,
             ingesting # 0 => ingesting \notin c.candidates \cup {c.condemned},
             c.stage = "rows" => c.condemned \notin files' \cap managed',
             files' \subseteq files, bundles' \subseteq bundles, managed' \subseteq managed,
             files' \cap managed' \subseteq bundles', protected \subseteq bundles' \cap files',
             UNCHANGED <<built, ingesting, arts, runVars, remover>>
      PROVE  IInv'
  <2>1. Records' /\ BuiltBefore'
    BY <1>2 DEF Records, BuiltBefore
  <2>2. \A l \in Cleaners : l # k => cleaner'[l] = cleaner[l]
    BY <1>2 DEF Records
  <2>3. cleaner'[k] = c
    BY <1>2 DEF Records
  <2>4. TypeOK'
    BY <1>2, <2>2, <2>3 DEF CleanerRecords, TypeOK
  <2>5. ProtectedBundlesStay' /\ NoOrphanFiles' /\ IngestingIsNew'
    BY <1>2, <2>2, <2>3 DEF ProtectedBundlesStay, NoOrphanFiles, IngestingIsNew
  <2>6. CondemnedIsFree'
    BY <1>2, <2>2, <2>3 DEF CondemnedIsFree
  <2>7. PointersKnow' /\ OneRun'
    BY <1>2 DEF PointersKnow, Mixed, OneRun
  <2> QED BY <2>1, <2>4, <2>5, <2>6, <2>7
<1>3. /\ 0 \notin protected /\ 0 \in 0..built
      /\ protected \subseteq bundles \cap files /\ files \cap managed \subseteq bundles
      /\ ingesting # 0 => ingesting \notin cleaner[k].candidates \cup {cleaner[k].condemned}
      /\ ingesting # 0 => ingesting \notin bundles
      /\ cleaner[k] \in CleanerRecords
      /\ cleaner[k].candidates \subseteq 1..built /\ cleaner[k].condemned \in 0..built
      /\ cleaner[k].condemned \notin protected
  BY <1>1 DEF TypeOK, Records, ProtectedBundlesStay, NoOrphanFiles, IngestingIsNew,
              CondemnedIsFree
<1>4. ASSUME NEW keep \in Keep..MaxBundle, CleanList(k, keep) PROVE IInv'
  <2> DEFINE c == [NoCleaner EXCEPT !.candidates = Candidates(bundles, keep), !.stage = "next"]
  <2>1. Candidates(bundles, keep) \subseteq 1..built /\ Candidates(bundles, keep) \subseteq Nat
    <3>1. Candidates(bundles, keep) \subseteq bundles
      BY DEF Candidates
    <3>2. bundles \subseteq 1..built /\ bundles \subseteq Nat
      BY <1>1 DEF TypeOK
    <3> QED BY <3>1, <3>2
  <2>4. ingesting # 0 => ingesting \notin Candidates(bundles, keep)
    BY <1>3 DEF Candidates
  <2>2. c \in CleanerRecords /\ c.candidates = Candidates(bundles, keep)
        /\ c.condemned = 0 /\ c.stage = "next"
    BY <2>1, NoCleanerType DEF CleanerRecords
  <2>3. cleaner' = [cleaner EXCEPT ![k] = c] /\ UNCHANGED <<storeVars, runVars, remover>>
    BY <1>4 DEF CleanList
  <2> HIDE DEF c
  <2> QED BY <1>2, <1>3, <2>1, <2>2, <2>3, <2>4 DEF storeVars
<1>5. CASE CleanCheck(k)
  <2> DEFINE b == CHOOSE c \in cleaner[k].candidates : \A e \in cleaner[k].candidates : e <= c
  <2>1. b \in cleaner[k].candidates
    <3>1. cleaner[k].candidates \subseteq 0..MaxBundle /\ cleaner[k].candidates # {}
      BY <1>1, <1>3, <1>5 DEF CleanCheck
    <3> QED BY <1>1, <3>1, NatGreatest
  <2> HIDE DEF b
  <2>2. b \in 1..built
    BY <1>3, <2>1
  <2> DEFINE c == [candidates |-> cleaner[k].candidates \ {b},
                   condemned |-> IF bundleInUse(b) THEN 0 ELSE b,
                   stage |-> IF bundleInUse(b) THEN "next" ELSE "files"]
  <2>3. cleaner' = [cleaner EXCEPT ![k] = c] /\ UNCHANGED <<storeVars, runVars, remover>>
    BY <1>5 DEF CleanCheck, b
  <2>4. c \in CleanerRecords /\ c.stage # "rows"
    BY <1>1, <1>3, <2>2 DEF CleanerRecords
  <2>5. c.candidates \subseteq 1..built /\ c.condemned \in 0..built
    BY <1>1, <1>3, <2>2
  <2>6. c.condemned \notin protected
    BY <1>3 DEF bundleInUse, TypeOK
  <2>7. ingesting # 0 => ingesting \notin c.candidates \cup {c.condemned}
    BY <1>3, <2>1
  <2> HIDE DEF c
  <2> QED BY <1>2, <1>3, <2>3, <2>4, <2>5, <2>6, <2>7 DEF storeVars
<1>6. NextCandidate(k) \in CleanerRecords /\ NextCandidate(k).candidates = cleaner[k].candidates
      /\ NextCandidate(k).condemned = 0 /\ NextCandidate(k).stage = "next"
  BY <1>3 DEF NextCandidate, CleanerRecords
<1>7. CASE CleanFiles(k)
  <2> DEFINE c == [cleaner[k] EXCEPT !.stage = "rows"]
  <2>1. c \in CleanerRecords /\ c.candidates = cleaner[k].candidates
        /\ c.condemned = cleaner[k].condemned
    BY <1>3 DEF CleanerRecords
  <2>2. /\ cleaner' = [cleaner EXCEPT ![k] = c]
        /\ \/ files' = files \ {cleaner[k].condemned} /\ managed' = managed
           \/ managed' = managed \ {cleaner[k].condemned} /\ files' = files
        /\ UNCHANGED <<built, ingesting, bundles, arts, runVars, remover>>
    BY <1>7 DEF CleanFiles, deleteBundleFiles
  <2> HIDE DEF c
  <2> QED BY <1>2, <1>3, <2>1, <2>2
<1>8. CASE CleanFilesFails(k)
  <2>1. /\ cleaner' = [cleaner EXCEPT ![k] = NextCandidate(k)]
        /\ files' \in {files, files \ {cleaner[k].condemned}}
        /\ UNCHANGED <<built, ingesting, bundles, arts, managed, runVars, remover>>
    BY <1>8 DEF CleanFilesFails
  <2>2. files' \subseteq files /\ protected \subseteq files'
    BY <1>3, <2>1
  <2> QED BY <1>2, <1>3, <1>6, <2>1, <2>2
<1>9. CASE CleanRows(k)
  <2>1. cleaner[k].condemned \notin files \cap managed
    BY <1>9 DEF CleanRows, CondemnedIsFree
  <2>2. /\ cleaner' = [cleaner EXCEPT ![k] = NextCandidate(k)]
        /\ bundles' = bundles \ {cleaner[k].condemned}
        /\ UNCHANGED <<built, ingesting, files, arts, managed, runVars, remover>>
    BY <1>9 DEF CleanRows
  <2>3. bundles' \subseteq bundles /\ protected \subseteq bundles'
        /\ files' \cap managed' \subseteq bundles'
    BY <1>3, <2>1, <2>2
  <2> QED BY <1>2, <1>3, <1>6, <2>2, <2>3
<1>10. CASE CleanEnd(k)
  <2>1. cleaner' = [cleaner EXCEPT ![k] = NoCleaner] /\ UNCHANGED <<storeVars, runVars, remover>>
    BY <1>10 DEF CleanEnd
  <2> QED BY <1>2, <1>3, <2>1, NoCleanerType DEF storeVars
<1> QED BY <1>4, <1>5, <1>7, <1>8, <1>9, <1>10 DEF CleanNext

\* An ingest: it copies files under a fresh name, and inserts their rows or gives up.
LEMMA IngestStep ==
    ASSUME IInv, CopyFiles \/ InsertBundle \/ IngestFails
    PROVE  IInv'
<1> USE DEF IInv, storeVars, runVars, runDb, history
<1>1. /\ built \in 0..MaxBundle /\ MaxBundle \in Nat
      /\ bundles \subseteq 1..built /\ files \subseteq 1..built /\ managed \subseteq 1..built
      /\ protected \subseteq bundles \cap files /\ files \cap managed \subseteq bundles
  BY VersionsAssumption DEF TypeOK, ProtectedBundlesStay, NoOrphanFiles
<1>2. CASE CopyFiles
  <2> USE <1>2 DEF CopyFiles
  <2>1. Records' /\ BuiltBefore'
    BY <1>1, VersionFields DEF Records, RequestRecords, BuiltBefore
  <2>2. TypeOK'
    BY <1>1 DEF TypeOK
  <2>3. ProtectedBundlesStay' /\ NoOrphanFiles'
    BY <1>1 DEF ProtectedBundlesStay, NoOrphanFiles
  <2>4. IngestingIsNew' /\ CondemnedIsFree'
    BY <1>1 DEF IngestingIsNew, CondemnedIsFree, TypeOK
  <2>5. PointersKnow' /\ OneRun'
    BY DEF PointersKnow, Mixed, OneRun
  <2> QED BY <2>1, <2>2, <2>3, <2>4, <2>5
<1>3. CASE InsertBundle \/ IngestFails
  <2>1. /\ ingesting # 0 /\ ingesting \in 1..built /\ ingesting' = 0
        /\ ingesting \notin bundles
        /\ \A k \in Cleaners : cleaner[k].condemned # ingesting
        /\ UNCHANGED <<built, arts, runVars, cleaner, remover>>
    BY <1>1, <1>3 DEF InsertBundle, IngestFails, IngestEnds, IngestingIsNew, TypeOK
  <2>2. \/ /\ bundles' = bundles \cup {ingesting} /\ managed' = managed \cup {ingesting}
           /\ files' = files
        \/ /\ bundles' = bundles /\ managed' = managed
           /\ files' = files \/ files' = files \ {ingesting}
    BY <1>3 DEF InsertBundle, IngestFails
  <2>3. Records' /\ BuiltBefore'
    BY <2>1 DEF Records, BuiltBefore
  <2>4. TypeOK'
    <3>1. /\ bundles' \subseteq 1..built /\ files' \subseteq 1..built
          /\ managed' \subseteq 1..built /\ 0 \in 0..built
      <4> HIDE DEF IInv
      <4>1. 0 \in 0..built
        BY <1>1
      <4>2. files' \subseteq files /\ bundles' \subseteq bundles \cup {ingesting}
            /\ managed' \subseteq managed \cup {ingesting}
        BY <2>2
      <4> QED BY <1>1, <2>1, <4>1, <4>2
    <3>2. /\ ingesting' = 0
          /\ UNCHANGED <<built, arts, ptr, runs, runRefs, good, locked, req, cleaner, remover,
                        ran, told, protected>>
      BY <2>1
    <3>3. TypeOK
      OBVIOUS
    <3> HIDE DEF IInv, storeVars, runVars, runDb, history
    <3> QED BY <3>1, <3>2, <3>3 DEF TypeOK
  <2>5. ProtectedBundlesStay' /\ NoOrphanFiles'
    BY <1>1, <2>1, <2>2 DEF ProtectedBundlesStay, NoOrphanFiles
  <2>6. IngestingIsNew' /\ CondemnedIsFree'
    BY <2>1, <2>2 DEF IngestingIsNew, CondemnedIsFree
  <2>7. PointersKnow' /\ OneRun'
    BY <2>1 DEF PointersKnow, Mixed, OneRun
  <2> QED BY <2>3, <2>4, <2>5, <2>6, <2>7
<1> QED BY <1>2, <1>3

\* The removal of an artifact and a crash.
LEMMA StoreStep ==
    ASSUME IInv,
           (\E a \in Arts : RemoveCheck(a)) \/ RemoveRow \/ Crash
    PROVE  IInv'
<1> USE DEF IInv, storeVars, runVars, runDb, history
<1>1. built \in 0..MaxBundle /\ MaxBundle \in Nat
  BY VersionsAssumption DEF TypeOK
<1>3. CASE (\E a \in Arts : RemoveCheck(a)) \/ RemoveRow
  <2>1. /\ arts' \subseteq arts /\ remover' \in {0} \cup Arts
        /\ UNCHANGED <<built, ingesting, bundles, files, managed, runVars, cleaner>>
    BY <1>3 DEF RemoveCheck, RemoveRow, TypeOK
  <2>2. Records' /\ BuiltBefore' /\ TypeOK'
    BY <2>1 DEF Records, BuiltBefore, TypeOK
  <2>3. ProtectedBundlesStay' /\ NoOrphanFiles' /\ IngestingIsNew' /\ CondemnedIsFree'
    BY <2>1 DEF ProtectedBundlesStay, NoOrphanFiles, IngestingIsNew, CondemnedIsFree
  <2>4. PointersKnow' /\ OneRun'
    BY <2>1 DEF PointersKnow, Mixed, OneRun
  <2> QED BY <2>2, <2>3, <2>4
<1>4. CASE Crash
  <2>2. /\ req' = [q \in Requests |-> Idle] /\ cleaner' = [k \in Cleaners |-> NoCleaner]
        /\ locked' = FALSE /\ remover' = 0 /\ ingesting' = 0
        /\ UNCHANGED <<built, bundles, files, arts, managed, runDb, history>>
    BY <1>4 DEF Crash
  <2>3. Records' /\ BuiltBefore'
    BY <1>1, <2>2, IdleType, NoCleanerType DEF Records, BuiltBefore
  <2>4. TypeOK'
    <3>1. \A q \in Requests : req'[q] = Idle
      BY <2>2
    <3>2. \A k \in Cleaners : cleaner'[k] = NoCleaner
      BY <2>2
    <3>3. \A q \in Requests :
             /\ req'[q].pc \in {"idle", "read", "running"}
             /\ req'[q].snap \in [Deps -> [curItem : 0..MaxBundle, curArt : {0} \cup Arts]]
             /\ req'[q].target \in [Deps -> Versions]
             /\ req'[q].ref \in Versions
             /\ req'[q].todo \subseteq Deps /\ req'[q].deployed \subseteq Deps
             /\ req'[q].failed \in BOOLEAN
      BY <3>1, IdleType DEF RequestRecords
    <3>4. \A k \in Cleaners :
             /\ cleaner'[k].candidates \subseteq 1..built /\ cleaner'[k].condemned \in 0..built
             /\ cleaner'[k].stage \in {"idle", "next", "files", "rows"}
      BY <1>1, <3>2, NoCleanerType
    <3>5. 0 \in 0..built
      BY <1>1
    <3> QED BY <2>2, <3>3, <3>4, <3>5 DEF TypeOK
  <2>5. ProtectedBundlesStay' /\ NoOrphanFiles' /\ IngestingIsNew' /\ CondemnedIsFree'
    <3>1. 0 \notin protected
      BY <1>1 DEF TypeOK
    <3> QED BY <2>2, <3>1, NoCleanerType
            DEF ProtectedBundlesStay, NoOrphanFiles, IngestingIsNew, CondemnedIsFree
  <2>6. PointersKnow' /\ OneRun'
    BY <2>2, IdleType DEF PointersKnow, Mixed, OneRun
  <2> QED BY <2>3, <2>4, <2>5, <2>6
<1> QED BY <1>3, <1>4

\* No step of the store, of a request, of a run or of a clean-up leaves the invariant.
LEMMA Step == IInv /\ [Next]_vars => IInv'
<1> SUFFICES ASSUME IInv, [Next]_vars PROVE IInv'
  OBVIOUS
<1>1. CASE (\E a \in Arts : RemoveCheck(a)) \/ RemoveRow \/ Crash
  BY <1>1, StoreStep
<1>2. CASE CopyFiles \/ InsertBundle \/ IngestFails
  BY <1>2, IngestStep
<1>3. ASSUME NEW q \in Requests, RequestNext(q) PROVE IInv'
  BY <1>3, RequestReads, RunStep, DeployedStep, AdvanceStep DEF RequestNext
<1>4. ASSUME NEW k \in Cleaners, CleanNext(k) PROVE IInv'
  BY <1>4, CleanUpStep
<1>5. CASE UNCHANGED vars
  <2> USE <1>5 DEF IInv, vars, storeVars, runVars, runDb, history
  <2>1. TypeOK' /\ Records' /\ BuiltBefore'
    BY DEF TypeOK, Records, BuiltBefore
  <2>2. ProtectedBundlesStay' /\ NoOrphanFiles' /\ IngestingIsNew' /\ CondemnedIsFree'
    BY DEF ProtectedBundlesStay, NoOrphanFiles, IngestingIsNew, CondemnedIsFree
  <2>3. PointersKnow' /\ OneRun'
    BY DEF PointersKnow, Mixed, OneRun
  <2> QED BY <2>1, <2>2, <2>3
<1> QED BY <1>1, <1>2, <1>3, <1>4, <1>5 DEF Next

-----------------------------------------------------------------------------

\* The invariant holds of every state that can be reached.
THEOREM Invariance == Spec => []IInv
<1>1. Init => IInv
  <2> SUFFICES ASSUME Init PROVE IInv
    OBVIOUS
  <2> USE DEF Init
  <2>1. Records /\ BuiltBefore
    BY IdleType, NoCleanerType DEF Records, BuiltBefore
  <2>2. TypeOK
    <3>1. ptr \in [Deps -> Pointers]
      <4>1. NoPointers \in Pointers
        BY VersionsAssumption DEF NoPointers, Pointers
      <4> QED BY <4>1
    <3>2. \A q \in Requests :
             /\ req[q].pc \in {"idle", "read", "running"}
             /\ req[q].snap \in [Deps -> [curItem : 0..MaxBundle, curArt : {0} \cup Arts]]
             /\ req[q].target \in [Deps -> Versions]
             /\ req[q].ref \in Versions
             /\ req[q].todo \subseteq Deps /\ req[q].deployed \subseteq Deps
             /\ req[q].failed \in BOOLEAN
      BY <2>1 DEF Records, RequestRecords
    <3>3. \A k \in Cleaners :
             /\ cleaner[k].candidates \subseteq 1..built /\ cleaner[k].condemned \in 0..built
             /\ cleaner[k].stage \in {"idle", "next", "files", "rows"}
      BY NoCleanerType
    <3>4. ran \in [Deps -> [now : Versions, before : Versions]] 
          /\ told \in [Deps -> [now : BOOLEAN, before : BOOLEAN]]
      BY AreVersions
    <3>5. built \in 0..MaxBundle /\ runs \in 0..MaxRuns /\ ingesting \in 0..built
      BY VersionsAssumption
    <3> QED BY <3>1, <3>2, <3>3, <3>4, <3>5 DEF TypeOK
  <2>3. ProtectedBundlesStay /\ NoOrphanFiles /\ IngestingIsNew /\ CondemnedIsFree
    BY DEF ProtectedBundlesStay, NoOrphanFiles, IngestingIsNew, CondemnedIsFree
  <2>4. PointersKnow /\ OneRun
    BY IdleType DEF PointersKnow, NoPointers, NoVersion, OneRun
  <2> QED BY <2>1, <2>2, <2>3, <2>4 DEF IInv
<1> QED BY <1>1, Step, PTL DEF Spec

\* Every variable keeps its type.
THEOREM TypeCorrect == Spec => []TypeOK
<1>1. IInv => TypeOK
  BY DEF IInv
<1> QED BY <1>1, Invariance, PTL

\* A bundle that a run was promised while it was complete keeps its rows and files: the
\* clean-up condemns only what no run refers to, and a run promises nothing condemned.
THEOREM ProtectedBundlesStayHolds == Spec => []ProtectedBundlesStay
<1>1. IInv => ProtectedBundlesStay
  BY DEF IInv
<1> QED BY <1>1, Invariance, PTL

\* The rows of a bundle go only after its files, but for the files the clean-up passes over
\* and those of an ingest that never got its rows.
THEOREM NoOrphanFilesHolds == Spec => []NoOrphanFiles
<1>1. IInv => NoOrphanFiles
  BY DEF IInv
<1> QED BY <1>1, Invariance, PTL

\* A rollback installs the version that ran before, if the pointers know the last two versions
\* the deployment ran: no update of them was lost, none came from an old read.
THEOREM RollbackGoesBackHolds == Spec => []RollbackGoesBack
<1>1. IInv => RollbackGoesBack
  <2> SUFFICES ASSUME IInv, NEW d \in Deps, told[d].now, told[d].before, ~Mixed(d),
                      Stored(ran[d].before)
               PROVE  RollbackTarget(ptr[d]) = ran[d].before
    BY DEF RollbackGoesBack
  <2> DEFINE p == ptr[d]
             b == ran[d].before
  <2>1. b \in Versions /\ b = Version(p.prevItem, p.prevArt)
    BY DEF IInv, TypeOK, PointersKnow
  <2>2. b.item = p.prevItem /\ b.art = p.prevArt
    BY <2>1 DEF Version
  <2>3. 0 \notin bundles /\ 0 \notin arts
    BY VersionsAssumption DEF IInv, TypeOK
  <2>4. CASE p.prevItem # 0
    <3>1. b = Version(p.prevItem, 0) /\ b # NoVersion
      BY <2>1, <2>2, <2>4, VersionFields
    <3>2. p.prevItem \in bundles
      BY <2>2, <2>3, <2>4, <3>1 DEF Stored, Version
    <3> QED BY <3>1, <3>2 DEF RollbackTarget
  <2>5. CASE p.prevItem = 0 /\ p.prevArt # 0
    <3>1. b = Version(0, p.prevArt) /\ b # NoVersion
      BY <2>1, <2>2, <2>5, VersionFields
    <3>2. p.prevArt \in arts
      BY <2>2, <2>3, <2>5, <3>1 DEF Stored
    <3> QED BY <2>3, <2>5, <3>1, <3>2 DEF RollbackTarget
  <2>6. CASE p.prevItem = 0 /\ p.prevArt = 0
    BY <2>1, <2>3, <2>6 DEF RollbackTarget, NoVersion
  <2> QED BY <2>4, <2>5, <2>6
<1> QED BY <1>1, Invariance, PTL

\* The version marked as current, and not partial, is the one deployed last wherever the
\* update of the pointers was not lost.
THEOREM CurrentIsDeployedHolds == Spec => []CurrentIsDeployed
<1>1. IInv => CurrentIsDeployed
  <2> DEFINE items == {ptr[d].curItem : d \in Deps} \ {0}
             artOnly == {ptr[d].curArt : d \in {e \in Deps : ptr[e].curItem = 0}} \ {0}
             missing == \E d \in Deps : ptr[d].curItem = 0 /\ ptr[d].curArt = 0
  <2> SUFFICES ASSUME IInv, CurrentVersion.version # NoVersion, ~CurrentVersion.partial,
                      \A d \in Deps : ~Mixed(d), NEW d \in Deps, told[d].now
               PROVE  ran[d].now = CurrentVersion.version
    BY DEF CurrentIsDeployed
  <2>1. ran[d].now = Version(ptr[d].curItem, ptr[d].curArt)
    BY DEF IInv, PointersKnow
  <2>2. CASE items # {}
    <3>1. items \subseteq bundles /\ Cardinality(items) = 1
          /\ CurrentVersion = View(Version(CHOOSE b \in items : TRUE, 0), missing \/ artOnly # {})
      BY <2>2 DEF CurrentVersion, View
    <3>2. ~missing /\ artOnly = {}
      BY <3>1 DEF View
    <3>3. \A e \in Deps : ptr[e].curItem # 0 /\ ptr[e].curArt = 0
      BY <3>2 DEF Mixed
    <3>4. PICK b : items = {b}
      <4>1. IsFiniteSet(items)
        <5>1. bundles \in SUBSET (1..built) /\ IsFiniteSet(1..built)
          BY FS_Interval, VersionsAssumption DEF IInv, TypeOK
        <5> QED BY <3>1, <5>1, FS_Subset
      <4> QED BY <3>1, <4>1, FS_Singleton
    <3>5. \A e \in Deps : ptr[e].curItem = b
      BY <3>3, <3>4
    <3>6. CurrentVersion.version = Version(b, 0)
      BY <3>1, <3>4 DEF View
    <3> QED BY <2>1, <3>3, <3>5, <3>6
  <2>3. CASE items = {}
    <3>1. Cardinality(artOnly) = 1
          /\ CurrentVersion = View(Version(0, CHOOSE a \in artOnly : TRUE), missing)
      BY <2>3 DEF CurrentVersion, View
    <3>2. \A e \in Deps : ptr[e].curItem = 0
      BY <2>3
    <3>3. \A e \in Deps : ptr[e].curArt # 0
      BY <3>1, <3>2 DEF View
    <3>4. PICK a : artOnly = {a}
      <4>1. IsFiniteSet(artOnly)
        <5> DEFINE f == [e \in Deps |-> ptr[e].curArt]
                   T == {ptr[e].curArt : e \in Deps}
        <5>1. f \in Surjection(Deps, T)
          BY DEF Surjection
        <5>2. IsFiniteSet(T)
          BY <5>1, FS_Surjection, VersionsAssumption
        <5>3. artOnly \in SUBSET T
          OBVIOUS
        <5> QED BY <5>2, <5>3, FS_Subset
      <4> QED BY <3>1, <4>1, FS_Singleton
    <3>5. \A e \in Deps : ptr[e].curArt = a
      BY <3>2, <3>3, <3>4
    <3>6. CurrentVersion.version = Version(0, a)
      BY <3>1, <3>4 DEF View
    <3> QED BY <2>1, <3>2, <3>5, <3>6
  <2> QED BY <2>2, <2>3
<1> QED BY <1>1, Invariance, PTL
=============================================================================
