------------------------------- MODULE Versions -------------------------------
(***************************************************************************)
(* The versions of one application: the bundles and artifacts the server   *)
(* stores (internal/service/artifact_service.go), the version pointers of  *)
(* its deployments, the runs that move them                                *)
(* (internal/service/pipeline_service.go), and the clean-up of old         *)
(* bundles that runs after every build and on demand.                      *)
(*                                                                         *)
(* A request reads the deployments before it takes the application's lock  *)
(* and works with what it read until the end of its run.  How a run goes   *)
(* about its hosts is the subject of Waves, who may run is the subject of  *)
(* PipelineRuns.  A bundle stands for its items: the item a deployment     *)
(* gets is the one of its service.                                         *)
(***************************************************************************)
EXTENDS Naturals, FiniteSets

CONSTANTS
    Deps,        \* the deployments of the application, by identifier
    Requests,    \* Trigger and rollback requests in flight, with their runs
    Arts,        \* artifacts registered from the start (legacy single-jar path)
    MaxBundle,   \* bound on the number of builds
    MaxRuns,     \* bound on the number of runs
    Keep,        \* the least number of bundles a clean-up is asked to keep
    Cleaners     \* clean-ups in progress: of the build that ended, and on demand

ASSUME VersionsAssumption ==
    /\ IsFiniteSet(Deps) /\ Deps \subseteq Nat
    /\ Arts \subseteq Nat \ {0}
    /\ MaxBundle \in Nat
    /\ MaxRuns \in Nat
    /\ Keep \in Nat \ {0}

VARIABLES
    built,       \* number of bundles ingested; their identifiers are 1..built
    ingesting,   \* the bundle whose files are copied and whose rows are not there yet, or 0
    bundles,     \* database: artifact_bundles and their items
    files,       \* disk: bundles whose files exist
    arts,        \* database: artifacts
    ptr,         \* database: the four version pointers of each deployment
    runs,        \* database: number of pipeline runs
    runRefs,     \* database: bundles some pipeline run refers to
    good,        \* database: versions of the runs that ended in success
    locked,      \* memory: the application's lock
    req,         \* each request, then the run it started
    cleaner,     \* each CleanupBundleHistory: its candidates, the one it has condemned
    remover,     \* ArtifactService.Delete: the artifact it found unreferenced, or 0
    managed,     \* history: bundles stored once that no clean-up has passed over
    ran,         \* history: the last two versions deployed with success
    told,        \* history: whether the pointers know each of the two
    protected    \* history: bundles a run came to refer to while they were complete

storeVars == <<built, ingesting, bundles, files, arts, managed>>
runDb     == <<ptr, runs, runRefs, good>>
history   == <<ran, told, protected>>
runVars   == <<runDb, locked, req, history>>
vars == <<storeVars, runVars, cleaner, remover>>

\* A version is the item of a bundle or an artifact; 0 stands for none.
Version(i, a) == [item |-> i, art |-> a]
NoVersion == Version(0, 0)
Versions == {Version(i, 0) : i \in 0..MaxBundle} \cup {Version(0, a) : a \in Arts}

NoPointers == [curItem |-> 0, prevItem |-> 0, curArt |-> 0, prevArt |-> 0]
Pointers == [curItem : 0..MaxBundle, prevItem : 0..MaxBundle,
             curArt : {0} \cup Arts, prevArt : {0} \cup Arts]

\* What a run keeps of a deployment it read: its current version.
Snapshot(p) == [curItem |-> p.curItem, curArt |-> p.curArt]

Idle ==
    [pc |-> "idle", snap |-> [d \in Deps |-> Snapshot(NoPointers)],
     target |-> [d \in Deps |-> NoVersion], ref |-> NoVersion, todo |-> {}, deployed |-> {},
     failed |-> FALSE]

NoCleaner == [candidates |-> {}, condemned |-> 0, stage |-> "idle"]
Condemned == {cleaner[k].condemned : k \in Cleaners}

Init ==
    /\ built = 0 /\ ingesting = 0 /\ bundles = {} /\ files = {} /\ managed = {}
    /\ arts = Arts
    /\ ptr = [d \in Deps |-> NoPointers]
    /\ runs = 0 /\ runRefs = {} /\ good = {}
    /\ locked = FALSE
    /\ req = [q \in Requests |-> Idle]
    /\ cleaner = [k \in Cleaners |-> NoCleaner]
    /\ remover = 0
    /\ ran = [d \in Deps |-> [now |-> NoVersion, before |-> NoVersion]]
    /\ told = [d \in Deps |-> [now |-> TRUE, before |-> TRUE]]
    /\ protected = {}

-----------------------------------------------------------------------------
(* Helpers, each after the slips that the properties must catch.            *)

\* What a rollback installs: the previous item if its row is there, else the previous artifact.
CurrentAgain(p) == Version(p.curItem, 0)
RollbackTarget(p) ==
    IF p.prevItem \in bundles THEN Version(p.prevItem, 0)
    ELSE IF p.prevArt \in arts THEN Version(0, p.prevArt)
    ELSE NoVersion

\* The pointers after a success: what the run read as current becomes the previous one.
Advance(now, snap, v) ==
    [curItem  |-> IF v.item > 0 THEN v.item ELSE now.curItem,
     prevItem |-> IF v.item > 0 THEN snap.curItem ELSE now.prevItem,
     curArt   |-> IF v.art > 0 THEN v.art ELSE now.curArt,
     prevArt  |-> IF v.art > 0 THEN snap.curArt ELSE now.prevArt]

Candidates(B, keep) == {b \in B : Cardinality({c \in B : c > b}) >= keep}

\* bundle_id or previous_bundle_id of the row of a run for v, unless it is 0.
ZeroToo(v) == {v.item}
refersTo(v) == {v.item} \ {0}

OnlyPointers(b) == \E d \in Deps : b \in {ptr[d].curItem, ptr[d].prevItem}
bundleInUse(b) == b \in runRefs \/ \E d \in Deps : b \in {ptr[d].curItem, ptr[d].prevItem}

RowsFirst(b) == bundles' = bundles \ {b} /\ UNCHANGED <<files, managed>>

\* Files outside the artifactDir the server has now are passed over, and the caller does not
\* learn it.
deleteBundleFiles(b) ==
    /\ \/ files' = files \ {b} /\ UNCHANGED managed
       \/ managed' = managed \ {b} /\ UNCHANGED files
    /\ UNCHANGED bundles

-----------------------------------------------------------------------------
(* IngestBundle, one build of the application at a time: it copies the       *)
(* files under fresh names, then inserts the rows in one transaction.        *)

CopyFiles ==
    /\ ingesting = 0 /\ built < MaxBundle
    /\ built' = built + 1
    /\ ingesting' = built + 1
    /\ files' = files \cup {built + 1}
    /\ UNCHANGED <<bundles, arts, managed, runVars, cleaner, remover>>

IngestEnds ==
    /\ ingesting # 0
    /\ ingesting' = 0
    /\ UNCHANGED <<built, arts, runVars, cleaner, remover>>

InsertBundle ==
    /\ IngestEnds
    /\ bundles' = bundles \cup {ingesting}
    /\ managed' = managed \cup {ingesting}
    /\ UNCHANGED files

\* A copy or the transaction fails; what cannot be removed then is not told.
IngestFails ==
    /\ IngestEnds
    /\ files' \in {files, files \ {ingesting}}
    /\ UNCHANGED <<bundles, managed>>

-----------------------------------------------------------------------------
(* Requests: all reads come before the lock                                  *)

Read(q, target, ref) ==
    /\ req[q].pc = "idle" /\ runs < MaxRuns
    /\ req' = [req EXCEPT ![q] = [Idle EXCEPT
                  !.pc = "read",
                  !.snap = [d \in Deps |-> Snapshot(ptr[d])], !.target = target, !.ref = ref]]
    /\ UNCHANGED <<storeVars, runDb, locked, history, cleaner, remover>>

Everywhere(v) == [d \in Deps |-> v]

TriggerBundle(q, b) ==
    b \in bundles /\ Read(q, Everywhere(Version(b, 0)), Version(b, 0))
TriggerArtifact(q, a) ==
    a \in arts /\ Read(q, Everywhere(Version(0, a)), Version(0, a))

\* The row of the run names the bundle of the first deployment that has one.
Rollback(q) ==
    LET target == [d \in Deps |-> RollbackTarget(ptr[d])]
        withItem == {d \in Deps : target[d].item > 0}
    IN  /\ \E d \in Deps : target[d] # NoVersion
        /\ Read(q, target,
                IF withItem = {} THEN NoVersion
                ELSE target[CHOOSE d \in withItem : \A e \in withItem : d <= e])

RollbackToRun(q, v) ==
    /\ v \in good
    /\ v.item \in bundles \/ v.art \in arts
    /\ Read(q, Everywhere(v), v)

\* The lock and the row of the run, which protects its bundle from the clean-up.
Start(q) ==
    /\ req[q].pc = "read" /\ ~locked /\ runs < MaxRuns
    /\ locked' = TRUE
    /\ runs' = runs + 1
    /\ req' = [req EXCEPT ![q].pc = "running", ![q].todo = Deps]
    /\ runRefs' = runRefs \cup refersTo(req[q].ref)
    /\ protected' = protected \cup
           ((refersTo(req[q].ref) \cap bundles \cap files) \ Condemned)
    /\ UNCHANGED <<storeVars, ptr, good, ran, told, cleaner, remover>>

Reject(q) ==
    /\ req[q].pc = "read" /\ locked
    /\ req' = [req EXCEPT ![q] = Idle]
    /\ UNCHANGED <<storeVars, runDb, locked, history, cleaner, remover>>

-----------------------------------------------------------------------------
(* The run                                                                  *)

Working(q, d) == req[q].pc = "running" /\ d \in req[q].todo

\* deployHost succeeds, which takes the file of the item.  The file of an artifact
\* outlives its row.
HostDeployed(q, d) ==
    LET v == req[q].target[d]
    IN  /\ Working(q, d)
        /\ v # NoVersion
        /\ v.item \in files \cup {0}
        /\ ran' = [ran EXCEPT ![d] = [now |-> v, before |-> ran[d].now]]
        /\ told' = [told EXCEPT ![d] = [now |-> FALSE, before |-> told[d].now]]
        /\ req' = [req EXCEPT ![q].todo = @ \ {d}, ![q].deployed = @ \cup {d}]
        /\ UNCHANGED <<storeVars, runDb, locked, protected, cleaner, remover>>

\* Its last call moves the pointers, by what the run had read before the lock.
OnDeploymentSuccess(q, d) ==
    /\ req[q].pc = "running" /\ d \in req[q].deployed
    /\ ptr' = [ptr EXCEPT ![d] = Advance(ptr[d], req[q].snap[d], req[q].target[d])]
    /\ told' = [told EXCEPT ![d] = [now |-> TRUE,
                                    before |-> @.before /\ req[q].snap[d] = Snapshot(ptr[d])]]
    /\ req' = [req EXCEPT ![q].deployed = @ \ {d}]
    /\ UNCHANGED <<storeVars, runs, runRefs, good, locked, ran, protected, cleaner, remover>>

\* The update fails and is only logged; the deployment is a success all the same.
PointerFails(q, d) ==
    /\ req[q].pc = "running" /\ d \in req[q].deployed
    /\ req' = [req EXCEPT ![q].deployed = @ \ {d}]
    /\ UNCHANGED <<storeVars, runDb, locked, history, cleaner, remover>>

HostFails(q, d) ==
    /\ Working(q, d)
    /\ req[q].target[d] # NoVersion
    /\ req' = [req EXCEPT ![q].todo = @ \ {d}, ![q].failed = TRUE]
    /\ UNCHANGED <<storeVars, runDb, locked, history, cleaner, remover>>

\* Nothing to roll back to, or an earlier host failed.
HostSkipped(q, d) ==
    /\ Working(q, d)
    /\ req[q].target[d] = NoVersion \/ req[q].failed
    /\ req' = [req EXCEPT ![q].todo = @ \ {d}]
    /\ UNCHANGED <<storeVars, runDb, locked, history, cleaner, remover>>

\* A successful run is a target for RollbackToRun, by the version its row names.
EndRun(q) ==
    /\ req[q].pc = "running" /\ req[q].todo = {} /\ req[q].deployed = {}
    /\ locked' = FALSE
    /\ good' = IF req[q].failed THEN good
               ELSE good \cup ({req[q].ref} \ {NoVersion})
    /\ req' = [req EXCEPT ![q] = Idle]
    /\ UNCHANGED <<storeVars, ptr, runs, runRefs, history, cleaner, remover>>

-----------------------------------------------------------------------------
(* CleanupBundleHistory                                                     *)

CleanStep(k, from, next) ==
    /\ cleaner[k].stage = from
    /\ cleaner' = [cleaner EXCEPT ![k] = next]
    /\ UNCHANGED <<runVars, remover>>

CleanList(k, keep) ==
    /\ Candidates(bundles, keep) # {}
    /\ CleanStep(k, "idle", [NoCleaner EXCEPT !.candidates = Candidates(bundles, keep),
                                              !.stage = "next"])
    /\ UNCHANGED storeVars

\* Newest candidate first.
CleanCheck(k) ==
    /\ cleaner[k].candidates # {}
    /\ LET b == CHOOSE c \in cleaner[k].candidates : \A e \in cleaner[k].candidates : e <= c
           spared == bundleInUse(b)
       IN  CleanStep(k, "next", [candidates |-> cleaner[k].candidates \ {b},
                                 condemned |-> IF spared THEN 0 ELSE b,
                                 stage |-> IF spared THEN "next" ELSE "files"])
    /\ UNCHANGED storeVars

NextCandidate(k) == [cleaner[k] EXCEPT !.condemned = 0, !.stage = "next"]

CleanFiles(k) ==
    /\ CleanStep(k, "files", [cleaner[k] EXCEPT !.stage = "rows"])
    /\ deleteBundleFiles(cleaner[k].condemned)
    /\ UNCHANGED <<built, ingesting, arts>>

\* A file that cannot be removed spares the rows; those before it are gone.
CleanFilesFails(k) ==
    /\ CleanStep(k, "files", NextCandidate(k))
    /\ files' \in {files, files \ {cleaner[k].condemned}}
    /\ UNCHANGED <<built, ingesting, bundles, arts, managed>>

CleanRows(k) ==
    /\ CleanStep(k, "rows", NextCandidate(k))
    /\ bundles' = bundles \ {cleaner[k].condemned}
    /\ UNCHANGED <<built, ingesting, files, arts, managed>>

\* The end of the list, or an error of the database.
CleanEnd(k) ==
    /\ \E stage \in {"next", "rows"} : CleanStep(k, stage, NoCleaner)
    /\ UNCHANGED storeVars

-----------------------------------------------------------------------------
(* ArtifactService.Delete: count the references, then delete the row         *)

RemoveCheck(a) ==
    /\ remover = 0 /\ a \in arts
    /\ \A d \in Deps : a \notin {ptr[d].curArt, ptr[d].prevArt}
    /\ remover' = a
    /\ UNCHANGED <<storeVars, runVars, cleaner>>

RemoveRow ==
    /\ remover # 0
    /\ arts' = arts \ {remover}
    /\ remover' = 0
    /\ UNCHANGED <<built, ingesting, bundles, files, managed, runVars, cleaner>>

-----------------------------------------------------------------------------

Crash ==
    /\ ingesting' = 0
    /\ locked' = FALSE
    /\ req' = [q \in Requests |-> Idle]
    /\ cleaner' = [k \in Cleaners |-> NoCleaner]
    /\ remover' = 0
    /\ UNCHANGED <<built, bundles, files, arts, managed, runDb, history>>

RequestNext(q) ==
    \/ \E b \in 1..MaxBundle : TriggerBundle(q, b)
    \/ \E a \in Arts : TriggerArtifact(q, a)
    \/ Rollback(q)
    \/ \E v \in Versions : RollbackToRun(q, v)
    \/ Start(q) \/ Reject(q) \/ EndRun(q)
    \/ \E d \in Deps :
          \/ HostDeployed(q, d) \/ OnDeploymentSuccess(q, d) \/ PointerFails(q, d)
          \/ HostFails(q, d) \/ HostSkipped(q, d)

CleanNext(k) ==
    \/ \E keep \in Keep..MaxBundle : CleanList(k, keep)
    \/ CleanCheck(k) \/ CleanFiles(k) \/ CleanFilesFails(k) \/ CleanRows(k) \/ CleanEnd(k)

Next ==
    \/ CopyFiles \/ InsertBundle \/ IngestFails
    \/ \E q \in Requests : RequestNext(q)
    \/ \E k \in Cleaners : CleanNext(k)
    \/ \E a \in Arts : RemoveCheck(a)
    \/ RemoveRow
    \/ Crash

Spec == Init /\ [][Next]_vars

-----------------------------------------------------------------------------
(* What the run list says is current (currentDeploymentVersion)             *)

NeverPartial(b, p) == [version |-> b, partial |-> FALSE]
View(v, p) == [version |-> v, partial |-> p]
CurrentVersion ==
    LET items   == {ptr[d].curItem : d \in Deps} \ {0}
        artOnly == {ptr[d].curArt : d \in {e \in Deps : ptr[e].curItem = 0}} \ {0}
        missing == \E d \in Deps : ptr[d].curItem = 0 /\ ptr[d].curArt = 0
    IN  IF items # {} THEN
            IF items \subseteq bundles /\ Cardinality(items) = 1
            THEN View(Version(CHOOSE b \in items : TRUE, 0), missing \/ artOnly # {})
            ELSE View(NoVersion, FALSE)
        ELSE IF Cardinality(artOnly) = 1
            THEN View(Version(0, CHOOSE a \in artOnly : TRUE), missing)
            ELSE View(NoVersion, FALSE)

-----------------------------------------------------------------------------
(* Properties                                                               *)

\* Every variable has its type.
TypeOK ==
    /\ built \in 0..MaxBundle /\ ingesting \in 0..built
    /\ bundles \subseteq 1..built /\ files \subseteq 1..built /\ managed \subseteq 1..built
    /\ arts \subseteq Arts
    /\ ptr \in [Deps -> Pointers]
    /\ runs \in 0..MaxRuns /\ runRefs \subseteq 1..built
    /\ good \subseteq Versions \ {NoVersion}
    /\ locked \in BOOLEAN
    /\ \A q \in Requests :
          /\ req[q].pc \in {"idle", "read", "running"}
          /\ req[q].snap \in [Deps -> [curItem : 0..MaxBundle, curArt : {0} \cup Arts]]
          /\ req[q].target \in [Deps -> Versions]
          /\ req[q].ref \in Versions
          /\ req[q].todo \subseteq Deps /\ req[q].deployed \subseteq Deps
          /\ req[q].failed \in BOOLEAN
    /\ \A k \in Cleaners :
          /\ cleaner[k].candidates \subseteq 1..built /\ cleaner[k].condemned \in 0..built
          /\ cleaner[k].stage \in {"idle", "next", "files", "rows"}
    /\ remover \in {0} \cup Arts
    /\ ran \in [Deps -> [now : Versions, before : Versions]]
    /\ told \in [Deps -> [now : BOOLEAN, before : BOOLEAN]]
    /\ protected \subseteq runRefs

\* Bundles and artifacts have both been deployed there: nothing clears the other pointer.
Mixed(d) == ptr[d].curItem # 0 /\ ptr[d].curArt # 0
Stored(v) == v = NoVersion \/ v.item \in bundles \/ v.art \in arts

\* A bundle that is complete and not condemned by the clean-up when a run's row comes to
\* refer to it keeps its rows and its files, whatever the pointers do afterwards
\* (bundleInUse looks at the runs as well as at the deployments).
ProtectedBundlesStay == protected \subseteq bundles \cap files

\* The files of a stored bundle go before its rows, whatever step of a clean-up fails or the
\* server dies in (CleanupBundleHistory leaves no file without a row).  Not counted are the
\* files of an ingest that never inserted rows, and those deleteBundleFiles passes over as
\* outside its directory.
NoOrphanFiles == files \cap managed \subseteq bundles

\* A rollback goes back to the version that ran before, also when what ran before was a
\* rollback, provided bundles and artifacts were not mixed, the version is still stored, and
\* the pointers know both it and the version that runs: no update of them failed, and the
\* last one came from an up-to-date read.
RollbackGoesBack ==
    \A d \in Deps :
        told[d].now /\ told[d].before /\ ~Mixed(d) /\ Stored(ran[d].before) =>
            RollbackTarget(ptr[d]) = ran[d].before

\* The version the run list marks as current, and not partial, is what was deployed last
\* on every deployment whose pointers know of it (annotateCurrentRuns).
CurrentIsDeployed ==
    CurrentVersion.version # NoVersion /\ ~CurrentVersion.partial
      /\ (\A d \in Deps : ~Mixed(d)) =>
        \A d \in Deps : told[d].now => ran[d].now = CurrentVersion.version
=============================================================================
