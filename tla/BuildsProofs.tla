----------------------------- MODULE BuildsProofs -----------------------------
(***************************************************************************)
(* Proofs about Builds for any number of applications, builds, requests,   *)
(* pages, failed updates and restarts.  The inductive invariant IInv says  *)
(* who owes the lock of an application, that the build that holds it is    *)
(* the newest of the application (which is what saves its bundle from      *)
(* every clean-up), and that nothing is written to the log of a build      *)
(* whose end has been announced.                                           *)
(***************************************************************************)
EXTENDS Builds, FiniteSetTheorems, TLAPS

\* The steps of a goroutine before its row is closed.
AtWork == {"spawned", "opened", "working", "ingested", "cleaning", "recording"}

\* A request that is not at rest has an application; between the insert and the goroutine
\* it has a row of that application, still open, that no other request has.
ReqShape ==
    /\ \A q \in Requests :
          /\ req[q].pc = "idle" => req[q] = NoRequest
          /\ req[q].pc # "idle" => req[q].app \in Apps
          /\ req[q].pc \in {"checked", "locked"} => req[q].build = 0
          /\ req[q].pc \in {"created", "released", "ready"} =>
                /\ req[q].build \in Ids
                /\ appOf[req[q].build] = req[q].app
                /\ exec[req[q].build] = "none"
                /\ status[req[q].build] = "building"
    /\ \A q1, q2 \in Requests :
          req[q1].build = req[q2].build /\ req[q1].build # 0 => q1 = q2

\* Rows are numbered in the order of their inserts and have an application; a goroutine
\* has a row, open until it closes it, and knows its verdict when it does.
RowShape ==
    /\ \A b \in Ids :
          /\ status[b] = "none" => appOf[b] = NoApp /\ exec[b] = "none"
          /\ status[b] # "none" => appOf[b] \in Apps
          /\ exec[b] \in AtWork => status[b] = "building"
          /\ exec[b] \in {"ingested", "cleaning"} => verdict[b] = "success"
          /\ exec[b] = "recording" => verdict[b] \in {"success", "failed"}
    /\ \A b, c \in Ids : b < c /\ status[b] = "none" => status[c] = "none"

\* Mutual exclusion, pair by pair, and the lock every owner holds.
Exclusion ==
    /\ \A q1, q2 \in Requests :
          ReqOwns(q1) /\ ReqOwns(q2) /\ req[q1].app = req[q2].app => q1 = q2
    /\ \A b1, b2 \in Ids :
          ExecOwns(b1) /\ ExecOwns(b2) /\ appOf[b1] = appOf[b2] => b1 = b2
    /\ \A q \in Requests, b \in Ids :
          ReqOwns(q) /\ ExecOwns(b) => req[q].app # appOf[b]
    /\ \A q \in Requests : ReqOwns(q) => req[q].app \in busyApps
    /\ \A b \in Ids : ExecOwns(b) => appOf[b] \in busyApps

\* No later row is of the same application; true of the build that holds one.
Newest(b) == \A c \in Ids : b < c => appOf[c] # appOf[b]
HolderIsNewest ==
    /\ \A b \in Ids : ExecOwns(b) => Newest(b)
    /\ \A q \in Requests : ReqOwns(q) /\ req[q].build # 0 => Newest(req[q].build)

\* A build on its way to success has its bundle.
BundleKept ==
    \A b \in Ids :
        exec[b] \in {"ingested", "cleaning", "recording"} /\ verdict[b] = "success" => b \in bundles

\* Nobody writes to the log of b, or records its path, any more.
Over(b) ==
    /\ status[b] # "none"
    /\ exec[b] \in {"none", "releasing", "done"}
    /\ \A q \in Requests : req[q].build # b

\* A page has a build; it is told the end, and fetches the log, when the build is over.
PageShape ==
    \A p \in Pages :
        /\ page[p].pc # "idle" => page[p].build \in Ids /\ status[page[p].build] # "none"
        /\ page[p].pc \in {"idle", "opened"} => queue[p] = <<>>
        /\ page[p].pc = "subscribed" => Len(queue[p]) <= QueueSize
        /\ page[p].pc \in {"fetching", "done"} => Over(page[p].build)
        /\ \A i \in 1..Len(queue[p]) :
              queue[p][i].kind = "status" => Over(page[p].build)

\* A page's queue is a sequence of frames.
Queues == queue \in [Pages -> Seq(Frames)]

IInv ==
    /\ TypeOK
    /\ Queues
    /\ ReqShape
    /\ RowShape
    /\ Exclusion
    /\ HolderIsNewest
    /\ BundleKept
    /\ BuildingRowsHaveBuilder
    /\ PageShape
    /\ FinishedPagesShowTheWholeLog

-----------------------------------------------------------------------------
(* The frames                                                               *)

\* A frame published about b reaches, at the end of its queue, a page of b that listens
\* and has room, and no other.
Gets(p, b, f) ==
    /\ page[p].pc \in {"subscribed", "live"} /\ page[p].build = b
    /\ Len(queue[p]) < QueueSize
    /\ queue'[p] = Append(queue[p], f)

\* What Publish does to the queues of the pages.
LEMMA PublishFacts ==
    ASSUME TypeOK, Queues, NEW b \in Ids, NEW f \in Frames, Publish(b, f)
    PROVE  /\ Queues' /\ page' = page /\ behind' \subseteq Pages
           /\ \A p \in Pages : Len(queue'[p]) <= QueueSize + 1
           /\ \A p \in Pages : queue'[p] = queue[p] \/ Gets(p, b, f)
<1>1. ASSUME NEW p \in Pages
      PROVE  /\ queue'[p] \in Seq(Frames) /\ Len(queue'[p]) <= QueueSize + 1
             /\ queue'[p] = queue[p] \/ Gets(p, b, f)
  <2>1. queue[p] \in Seq(Frames) /\ Len(queue[p]) <= QueueSize + 1
    BY DEF Queues, TypeOK
  <2>2. CASE p \in Subscribers(b) /\ Fits(p)
    <3>1. queue'[p] = Append(queue[p], f)
      BY <2>2 DEF Publish
    <3> QED BY <2>1, <2>2, <3>1, BuildsAssumption DEF Gets, Subscribers, Fits
  <2>3. CASE ~(p \in Subscribers(b) /\ Fits(p))
    BY <2>1, <2>3 DEF Publish
  <2> QED BY <2>2, <2>3
<1>2. Queues'
  BY <1>1 DEF Publish, Queues
<1> QED BY <1>1, <1>2 DEF Publish, TypeOK, Subscribers

\* Frames are what the code publishes.
LEMMA FramesType ==
    /\ StatusFrame \in Frames
    /\ \A part \in Parts : LogFrame(part) \in Frames /\ LogFrame(part).kind = "log"
    /\ \A b \in Ids : TypeOK => SnapshotFrame(b) \in Frames /\ SnapshotFrame(b).kind = "snapshot"
<1>1. StatusFrame \in Frames
  BY DEF StatusFrame, Frames
<1>2. \A part \in Parts : LogFrame(part) \in Frames /\ LogFrame(part).kind = "log"
  BY DEF LogFrame, Frames
<1>3. ASSUME NEW b \in Ids, TypeOK
      PROVE  SnapshotFrame(b) \in Frames /\ SnapshotFrame(b).kind = "snapshot"
  <2>1. ReadableLog(b) \in SUBSET Parts
    BY <1>3 DEF ReadableLog, TypeOK
  <2> QED BY <2>1 DEF SnapshotFrame, Frames
<1> QED BY <1>1, <1>2, <1>3

\* Queues of frames, none too long, have the type that TypeOK asks for.
LEMMA QueuesTyped ==
    ASSUME Queues
    PROVE  \A p \in Pages : \A i \in DOMAIN queue[p] : queue[p][i] \in Frames
BY DEF Queues

\* A step that leaves the pages alone, or appends a frame that says the end of a build
\* only when it is over, and that writes nothing about a build that is over, keeps what
\* the pages know.
LEMMA PagesKept ==
    ASSUME IInv, page' = page, Queues',
           \A p \in Pages :
              \/ queue'[p] = queue[p]
              \/ \E b \in Ids, f \in Frames : Gets(p, b, f) /\ (f.kind = "status" => Over(b)'),
           \A b \in Ids : status[b] # "none" => status'[b] # "none",
           \A b \in Ids : Over(b) =>
              Over(b)' /\ log'[b] = log[b] /\ (b \in logged' => b \in logged)
    PROVE  PageShape' /\ FinishedPagesShowTheWholeLog'
<1> USE DEF IInv
<1>1. ASSUME NEW p \in Pages, page[p].pc # "idle"
      PROVE  page[p].build \in Ids
  BY <1>1 DEF PageShape
<1>2. ASSUME NEW p \in Pages
      PROVE  /\ page[p].pc \in {"idle", "opened"} => queue'[p] = <<>>
             /\ page[p].pc = "subscribed" => Len(queue'[p]) <= QueueSize
             /\ \A i \in 1..Len(queue'[p]) :
                   queue'[p][i].kind = "status" => Over(page[p].build)'
  <2>1. queue[p] \in Seq(Frames)
    BY DEF Queues
  <2>2. CASE queue'[p] = queue[p]
    <3>1. page[p].pc = "idle" => queue[p] = <<>>
      BY DEF PageShape
    <3> QED BY <1>1, <2>1, <2>2, <3>1 DEF PageShape
  <2>3. ASSUME NEW b \in Ids, NEW f \in Frames, Gets(p, b, f), f.kind = "status" => Over(b)'
        PROVE  /\ page[p].pc \in {"idle", "opened"} => queue'[p] = <<>>
               /\ page[p].pc = "subscribed" => Len(queue'[p]) <= QueueSize
               /\ \A i \in 1..Len(queue'[p]) :
                     queue'[p][i].kind = "status" => Over(page[p].build)'
    <3>1. Len(queue'[p]) = Len(queue[p]) + 1
      BY <2>1, <2>3 DEF Gets
    <3>2. ASSUME NEW i \in 1..Len(queue'[p]), queue'[p][i].kind = "status"
          PROVE  Over(page[p].build)'
      <4>1. CASE i = Len(queue[p]) + 1
        BY <2>1, <2>3, <3>2, <4>1 DEF Gets
      <4>2. CASE i \in 1..Len(queue[p])
        <5>1. queue'[p][i] = queue[p][i]
          BY <2>1, <2>3, <4>2 DEF Gets
        <5> QED BY <1>1, <2>3, <3>2, <4>2, <5>1 DEF Gets, PageShape
      <4> QED BY <2>1, <3>1, <4>1, <4>2
    <3> QED BY <2>1, <2>3, <3>1, <3>2, BuildsAssumption DEF Gets
  <2> QED BY <2>2, <2>3
<1>3. PageShape'
  <2>1. ASSUME NEW p \in Pages
        PROVE  /\ page[p].pc # "idle" =>
                     page[p].build \in Ids /\ status'[page[p].build] # "none"
               /\ page[p].pc \in {"fetching", "done"} => Over(page[p].build)'
    <3>1. page[p].pc # "idle" => page[p].build \in Ids /\ status[page[p].build] # "none"
      BY DEF PageShape
    <3>2. page[p].pc \in {"fetching", "done"} => Over(page[p].build)
      BY DEF PageShape
    <3> QED BY <3>1, <3>2
  <2> QED BY <1>2, <2>1 DEF PageShape
<1>4. FinishedPagesShowTheWholeLog'
  BY DEF PageShape, FinishedPagesShowTheWholeLog
<1> QED BY <1>3, <1>4

-----------------------------------------------------------------------------
(* The steps                                                                *)

\* What a request's record holds.
RequestRecords ==
    [pc : {"idle", "checked", "locked", "created", "released", "ready"},
     app : Apps \cup {NoApp}, build : 0..MaxBuilds]

\* A request at rest is a request.
LEMMA NoRequestType ==
    /\ NoRequest \in RequestRecords
    /\ NoRequest.pc = "idle" /\ NoRequest.app = NoApp /\ NoRequest.build = 0
BY BuildsAssumption DEF NoRequest, RequestRecords

\* Every step of a request but FinishAborted leaves the pages alone.
LEMMA RequestStep ==
    ASSUME IInv, NEW q \in Requests,
           RequestNext(q) \/ \E a \in Apps : Begin(q, a)
    PROVE  IInv'
<1> USE DEF IInv, rowVars, execVars, pageVars, lockVars, bounds
<1>0. req \in [Requests -> RequestRecords]
  BY DEF TypeOK, RequestRecords
<1>1. CASE \E a \in Apps : Begin(q, a)
  <2> PICK a \in Apps : Begin(q, a)
    BY <1>1
  <2> DEFINE new == [NoRequest EXCEPT !.pc = "checked", !.app = a]
  <2>1. /\ req[q] = NoRequest
        /\ req' = [req EXCEPT ![q] = new]
        /\ UNCHANGED <<busyApps, rowVars, bundles, log, execVars, pageVars, lost, bounds>>
    BY DEF Begin
  <2>2. /\ new \in RequestRecords
        /\ new.pc = "checked" /\ new.app = a /\ new.build = 0
    BY NoRequestType DEF RequestRecords
  <2> HIDE DEF new
  <2>3. /\ req'[q].pc = "checked" /\ req'[q].app = a /\ req'[q].build = 0
        /\ \A p \in Requests : p # q => req'[p] = req[p]
    BY <2>1, <2>2 DEF TypeOK
  <2>4. TypeOK' /\ Queues'
    BY <2>1, <2>2 DEF TypeOK, Queues, RequestRecords
  <2>5. ReqShape' /\ RowShape'
    BY <2>1, <2>3 DEF ReqShape, RowShape, NoRequest
  <2>6. Exclusion' /\ HolderIsNewest' /\ BundleKept'
    BY <2>1, <2>3 DEF Exclusion, HolderIsNewest, BundleKept, ReqOwns, ExecOwns, Newest
  <2>7. BuildingRowsHaveBuilder'
    BY <2>1, <2>3 DEF BuildingRowsHaveBuilder, Closing, NoRequest, Ids
  <2>8. \A b \in Ids : Over(b) => Over(b)'
    BY <2>1, <2>3 DEF Over, Ids
  <2>9. PageShape' /\ FinishedPagesShowTheWholeLog'
    BY <2>1, <2>4, <2>8, PagesKept
  <2> QED BY <2>4, <2>5, <2>6, <2>7, <2>9
<1>2. CASE AcquireLock(q)
  <2>1. /\ req[q].pc = "checked" /\ req[q].app \notin busyApps
        /\ busyApps' = busyApps \cup {req[q].app}
        /\ req' = [req EXCEPT ![q].pc = "locked"]
        /\ UNCHANGED <<rowVars, bundles, log, execVars, pageVars, lost, bounds>>
    BY <1>2 DEF AcquireLock, Busy
  <2>2. /\ req'[q].pc = "locked" /\ req'[q].app = req[q].app /\ req'[q].build = req[q].build
        /\ \A p \in Requests : p # q => req'[p] = req[p]
    BY <2>1 DEF TypeOK
  <2>3. TypeOK' /\ Queues'
    <3>1. req[q].app \in Apps
      BY <2>1 DEF ReqShape
    <3>2. PICK new : new = [req[q] EXCEPT !.pc = "locked"]
      OBVIOUS
    <3>3. new \in RequestRecords /\ req' = [req EXCEPT ![q] = new]
      <4>1. req[q] \in RequestRecords
        BY <1>0
      <4> QED BY <2>1, <3>2, <4>1 DEF RequestRecords
    <3>4. req' \in [Requests -> RequestRecords]
      BY <1>0, <3>3
    <3>5. busyApps' \subseteq Apps
      BY <2>1, <3>1 DEF TypeOK
    <3> QED BY <2>1, <3>4, <3>5 DEF TypeOK, Queues, RequestRecords
  <2>4. ReqShape' /\ RowShape'
    BY <2>1, <2>2 DEF ReqShape, RowShape
  <2>5. Exclusion'
    BY <2>1, <2>2 DEF Exclusion, ReqOwns, ExecOwns
  <2>6. HolderIsNewest' /\ BundleKept'
    BY <2>1, <2>2 DEF HolderIsNewest, BundleKept, ReqOwns, ExecOwns, Newest, ReqShape
  <2>7. BuildingRowsHaveBuilder' /\ \A b \in Ids : Over(b) => Over(b)'
    BY <2>1, <2>2 DEF BuildingRowsHaveBuilder, Closing, Over
  <2>8. PageShape' /\ FinishedPagesShowTheWholeLog'
    BY <2>1, <2>3, <2>7, PagesKept
  <2> QED BY <2>3, <2>4, <2>5, <2>6, <2>7, <2>8
<1>3. CASE RejectBusy(q) \/ GiveUp(q)
  <2>1. /\ req[q].pc \in {"checked", "locked"} /\ req[q].build = 0
        /\ busyApps' = IF req[q].pc = "locked" THEN busyApps \ {req[q].app} ELSE busyApps
        /\ req' = [req EXCEPT ![q] = NoRequest]
        /\ UNCHANGED <<rowVars, bundles, log, execVars, pageVars, lost, bounds>>
    BY <1>3 DEF RejectBusy, GiveUp, releaseLock, ReqShape
  <2>2. /\ req'[q] = NoRequest
        /\ \A p \in Requests : p # q => req'[p] = req[p]
    BY <2>1 DEF TypeOK
  <2>3. TypeOK' /\ Queues'
    BY <2>1, BuildsAssumption DEF TypeOK, Queues, NoRequest
  <2>4. ReqShape' /\ RowShape'
    BY <2>1, <2>2 DEF ReqShape, RowShape, NoRequest
  <2>5. Exclusion'
    BY <2>1, <2>2 DEF Exclusion, ReqOwns, ExecOwns, NoRequest
  <2>6. HolderIsNewest' /\ BundleKept'
    BY <2>1, <2>2 DEF HolderIsNewest, BundleKept, ReqOwns, ExecOwns, Newest, NoRequest
  <2>7. BuildingRowsHaveBuilder' /\ \A b \in Ids : Over(b) => Over(b)'
    BY <2>1, <2>2 DEF BuildingRowsHaveBuilder, Closing, Over, NoRequest, Ids
  <2>8. PageShape' /\ FinishedPagesShowTheWholeLog'
    BY <2>1, <2>3, <2>7, PagesKept
  <2> QED BY <2>3, <2>4, <2>5, <2>6, <2>7, <2>8
<1>4. ASSUME NEW b \in Ids, CreateRow(q, b) PROVE IInv'
  <2>1. /\ req[q].pc = "locked" /\ status[b] = "none"
        /\ \A c \in 1..(b - 1) : status[c] # "none"
        /\ status' = [status EXCEPT ![b] = "building"]
        /\ appOf' = [appOf EXCEPT ![b] = req[q].app]
        /\ req' = [req EXCEPT ![q].pc = "created", ![q].build = b]
        /\ UNCHANGED <<busyApps, logged, bundles, log, execVars, pageVars, lost, bounds>>
    BY <1>4 DEF CreateRow
  <2>2. /\ req'[q].pc = "created" /\ req'[q].app = req[q].app /\ req'[q].build = b
        /\ \A p \in Requests : p # q => req'[p] = req[p]
        /\ status'[b] = "building" /\ appOf'[b] = req[q].app
        /\ \A c \in Ids : c # b => status'[c] = status[c] /\ appOf'[c] = appOf[c]
    BY <2>1 DEF TypeOK
  <2>3. req[q].app \in Apps /\ exec[b] = "none" /\ b # 0
        /\ \A p \in Requests : req[p].build # b
    BY <2>1, BuildsAssumption DEF ReqShape, RowShape, Ids, TypeOK, NoRequest
  <2>4. \A c \in Ids : b < c => status[c] = "none" /\ appOf[c] = NoApp
    BY <2>1 DEF RowShape
  <2>5. TypeOK' /\ Queues'
    BY <2>1, <2>3 DEF TypeOK, Queues, Ids
  <2>6. ReqShape'
    <3>1. ASSUME NEW p \in Requests, p # q
          PROVE  /\ req'[p].pc = "idle" => req'[p] = NoRequest
                 /\ req'[p].pc # "idle" => req'[p].app \in Apps
                 /\ req'[p].pc \in {"checked", "locked"} => req'[p].build = 0
                 /\ req'[p].pc \in {"created", "released", "ready"} =>
                       /\ req'[p].build \in Ids
                       /\ appOf'[req'[p].build] = req'[p].app
                       /\ exec'[req'[p].build] = "none"
                       /\ status'[req'[p].build] = "building"
      <4>1. /\ req[p].pc = "idle" => req[p] = NoRequest
            /\ req[p].pc # "idle" => req[p].app \in Apps
            /\ req[p].pc \in {"checked", "locked"} => req[p].build = 0
            /\ req[p].pc \in {"created", "released", "ready"} =>
                  /\ req[p].build \in Ids
                  /\ appOf[req[p].build] = req[p].app
                  /\ exec[req[p].build] = "none"
                  /\ status[req[p].build] = "building"
        BY DEF ReqShape
      <4>2. req'[p] = req[p] /\ req[p].build # b /\ exec' = exec
        BY <2>1, <2>2, <2>3, <3>1
      <4> QED BY <2>2, <4>1, <4>2
    <3>2. \A p1, p2 \in Requests :
             req'[p1].build = req'[p2].build /\ req'[p1].build # 0 => p1 = p2
      BY <2>2, <2>3 DEF ReqShape
    <3>3. /\ req'[q].pc = "created" /\ req'[q].app \in Apps /\ req'[q].build \in Ids
          /\ appOf'[b] = req'[q].app /\ exec'[b] = "none" /\ status'[b] = "building"
      BY <2>1, <2>2, <2>3
    <3> QED BY <2>2, <3>1, <3>2, <3>3 DEF ReqShape
  <2>7. RowShape'
    BY <2>1, <2>2, <2>3 DEF RowShape, AtWork, Ids
  <2>8. Exclusion'
    <3>1. \A p \in Requests : ReqOwns(p)' <=> ReqOwns(p)
      BY <2>1, <2>2 DEF ReqOwns
    <3>2. \A p \in Requests : req'[p].app = req[p].app
      BY <2>2
    <3>3. \A c \in Ids : ExecOwns(c)' <=> ExecOwns(c)
      BY <2>1 DEF ExecOwns
    <3>4. ~ExecOwns(b)
      BY <2>3 DEF ExecOwns
    <3>5. busyApps' = busyApps
      BY <2>1
    <3> QED BY <2>2, <3>1, <3>2, <3>3, <3>4, <3>5 DEF Exclusion
  <2>9. HolderIsNewest'
    <3>1. Newest(b)'
      BY <2>2, <2>3, <2>4, BuildsAssumption DEF Newest, Ids
    <3>2. ASSUME NEW c \in Ids, ExecOwns(c) PROVE Newest(c)'
      <4>1. appOf[c] # req[q].app
        BY <2>1, <3>2 DEF Exclusion, ReqOwns
      <4> QED BY <2>2, <2>3, <3>2, <4>1 DEF HolderIsNewest, Newest, ExecOwns
    <3>3. ASSUME NEW p \in Requests, p # q, ReqOwns(p), req[p].build # 0
          PROVE  Newest(req[p].build)'
      <4>1. req[p].build \in Ids /\ appOf[req[p].build] = req[p].app
        BY <3>3 DEF ReqShape, ReqOwns
      <4>2. req[p].app # req[q].app
        BY <2>1, <3>3 DEF Exclusion, ReqOwns
      <4>3. Newest(req[p].build) /\ req[p].build # b
        BY <2>3, <3>3 DEF HolderIsNewest
      <4>4. \A c \in Ids : req[p].build < c => appOf'[c] # appOf'[req[p].build]
        BY <2>2, <4>1, <4>2, <4>3 DEF Newest
      <4> QED BY <2>2, <3>3, <4>4 DEF Newest
    <3> QED BY <2>1, <2>2, <3>1, <3>2, <3>3 DEF HolderIsNewest, ReqOwns, ExecOwns
  <2>10. BundleKept' /\ BuildingRowsHaveBuilder'
    <3>1. \A c \in Ids : Closing(c) \/ c = b => Closing(c)'
      <4>1. ASSUME NEW c \in Ids, NEW p \in Requests, req[p].build = c
            PROVE  req'[p].build = c
        <5>1. p # q
          BY <2>1, <4>1 DEF ReqShape, Ids
        <5> QED BY <2>2, <4>1, <5>1
      <4>2. \A c \in Ids : (\E p \in Requests : req[p].build = c) \/ c = b
                              => \E p \in Requests : req'[p].build = c
        BY <2>2, <4>1
      <4> QED BY <2>1, <4>2 DEF Closing
    <3>2. BuildingRowsHaveBuilder'
      BY <2>1, <2>2, <3>1 DEF BuildingRowsHaveBuilder
    <3>3. BundleKept'
      BY <2>1 DEF BundleKept
    <3> QED BY <3>2, <3>3
  <2>11. ASSUME NEW c \in Ids, Over(c) PROVE Over(c)'
    <3>1. c # b
      BY <2>1, <2>11 DEF Over
    <3> QED BY <2>1, <2>2, <2>11, <3>1 DEF Over
  <2>12. \A c \in Ids : status[c] # "none" => status'[c] # "none"
    BY <2>2
  <2>13. PageShape' /\ FinishedPagesShowTheWholeLog'
    BY <2>1, <2>5, <2>11, <2>12, PagesKept
  <2> QED BY <2>5, <2>6, <2>7, <2>8, <2>9, <2>10, <2>13
<1>5. ASSUME req[q].pc \in {"created", "released", "ready"}
      PROVE  /\ req[q].build \in Ids /\ req[q].build # 0 /\ req[q].app \in Apps
             /\ appOf[req[q].build] = req[q].app
             /\ exec[req[q].build] = "none" /\ status[req[q].build] = "building"
             /\ \A p \in Requests : p # q => req[p].build # req[q].build
  <2>1. req[q].build \in Ids
    BY <1>5 DEF ReqShape
  <2>2. req[q].build # 0
    BY <2>1, BuildsAssumption DEF Ids
  <2> QED BY <1>5, <2>1, <2>2 DEF ReqShape
<1>6. CASE MkdirFails(q)
  <2>1. /\ req[q].pc = "created"
        /\ busyApps' = busyApps \ {req[q].app}
        /\ req' = [req EXCEPT ![q].pc = "released"]
        /\ UNCHANGED <<rowVars, bundles, log, execVars, pageVars, lost, bounds>>
    BY <1>6 DEF MkdirFails, releaseLock
  <2>2. /\ req'[q].pc = "released" /\ req'[q].app = req[q].app /\ req'[q].build = req[q].build
        /\ \A p \in Requests : p # q => req'[p] = req[p]
    BY <2>1 DEF TypeOK
  <2>3. TypeOK' /\ Queues'
    <3>1. req' \in [Requests -> RequestRecords]
      BY <2>1, <1>0 DEF RequestRecords
    <3> QED BY <2>1, <3>1 DEF TypeOK, Queues, RequestRecords
  <2>4. ReqShape' /\ RowShape'
    BY <2>1, <2>2, <1>5 DEF ReqShape, RowShape
  <2>5. Exclusion'
    BY <2>1, <2>2, <1>5 DEF Exclusion, ReqOwns, ExecOwns
  <2>6. HolderIsNewest' /\ BundleKept'
    BY <2>1, <2>2 DEF HolderIsNewest, BundleKept, ReqOwns, ExecOwns, Newest
  <2>7. BuildingRowsHaveBuilder' /\ \A b \in Ids : Over(b) => Over(b)'
    BY <2>1, <2>2 DEF BuildingRowsHaveBuilder, Closing, Over
  <2>8. PageShape' /\ FinishedPagesShowTheWholeLog'
    BY <2>1, <2>3, <2>7, PagesKept
  <2> QED BY <2>3, <2>4, <2>5, <2>6, <2>7, <2>8
<1>7. CASE FinishAborted(q)
  <2>0. PICK b \in Ids : b = req[q].build
    BY <1>5, <1>7 DEF FinishAborted
  <2>1. /\ req[q].pc = "released"
        /\ req' = [req EXCEPT ![q] = NoRequest]
        /\ \/ status' = [status EXCEPT ![b] = "failed"] /\ lost' = lost /\ faults' = faults
           \/ /\ faults < MaxFaults /\ faults' = faults + 1
              /\ lost' = lost \cup {b} /\ status' = status
        /\ Publish(b, StatusFrame)
        /\ UNCHANGED <<busyApps, appOf, logged, bundles, log, execVars, crashes>>
    BY <1>7, <2>0 DEF FinishAborted, CloseRow
  <2>2. /\ b \in Ids /\ b # 0 /\ exec[b] = "none" /\ status[b] = "building"
        /\ \A p \in Requests : p # q => req[p].build # b
    BY <2>0, <2>1, <1>5
  <2>3. /\ req'[q] = NoRequest /\ \A p \in Requests : p # q => req'[p] = req[p]
        /\ status'[b] \in {"building", "failed"}
        /\ \A c \in Ids : c # b => status'[c] = status[c]
        /\ status'[b] = "building" => b \in lost'
    BY <2>1, <2>2 DEF TypeOK
  <2>4. /\ Queues' /\ page' = page /\ behind' \subseteq Pages
        /\ \A p \in Pages : Len(queue'[p]) <= QueueSize + 1
        /\ \A p \in Pages : queue'[p] = queue[p] \/ Gets(p, b, StatusFrame)
    BY <2>1, <2>2, PublishFacts, FramesType
  <2>5. TypeOK'
    <3>1. /\ status' \in [Ids -> {"none", "building", "success", "failed"}]
          /\ lost' \subseteq Ids
          /\ faults' \in 0..MaxFaults
      <4>1. CASE status' = [status EXCEPT ![b] = "failed"] /\ lost' = lost /\ faults' = faults
        BY <4>1, <2>2 DEF TypeOK
      <4>2. CASE /\ faults < MaxFaults /\ faults' = faults + 1
                 /\ lost' = lost \cup {b} /\ status' = status
        BY <4>2, <2>2, BuildsAssumption DEF TypeOK
      <4> QED BY <2>1, <4>1, <4>2
    <3>2. \A p \in Pages : \A i \in DOMAIN queue'[p] : queue'[p][i] \in Frames
      BY <2>4 DEF Queues
    <3>3. req' \in [Requests -> RequestRecords]
      BY <2>1, NoRequestType DEF TypeOK, RequestRecords
    <3> QED BY <2>1, <2>4, <3>1, <3>2, <3>3 DEF TypeOK, RequestRecords
  <2>6. ReqShape'
    <3>1. ASSUME NEW p \in Requests, p # q
          PROVE  /\ req'[p].pc = "idle" => req'[p] = NoRequest
                 /\ req'[p].pc # "idle" => req'[p].app \in Apps
                 /\ req'[p].pc \in {"checked", "locked"} => req'[p].build = 0
                 /\ req'[p].pc \in {"created", "released", "ready"} =>
                       /\ req'[p].build \in Ids
                       /\ appOf'[req'[p].build] = req'[p].app
                       /\ exec'[req'[p].build] = "none"
                       /\ status'[req'[p].build] = "building"
      BY <2>1, <2>2, <2>3, <3>1 DEF ReqShape
    <3>2. \A p1, p2 \in Requests :
             req'[p1].build = req'[p2].build /\ req'[p1].build # 0 => p1 = p2
      BY <2>3, NoRequestType DEF ReqShape
    <3> QED BY <2>3, <3>1, <3>2, NoRequestType DEF ReqShape
  <2>7. RowShape'
    BY <2>1, <2>2, <2>3 DEF RowShape, AtWork
  <2>8. Exclusion' /\ HolderIsNewest'
    BY <2>1, <2>3, NoRequestType DEF Exclusion, HolderIsNewest, ReqOwns, ExecOwns, Newest
  <2>9. BundleKept' /\ BuildingRowsHaveBuilder'
    <3>1. \A c \in Ids : c # b /\ Closing(c) => Closing(c)'
      BY <2>0, <2>1, <2>3 DEF Closing
    <3>2. lost \subseteq lost'
      BY <2>1
    <3>3. BuildingRowsHaveBuilder'
      BY <2>3, <3>1, <3>2 DEF BuildingRowsHaveBuilder
    <3> QED BY <2>1, <3>3 DEF BundleKept
  <2>10. \A c \in Ids : Over(c) => Over(c)'
    <3>1. \A c \in Ids : status[c] # "none" => status'[c] # "none"
      BY <2>2, <2>3
    <3>2. \A c \in Ids : \A p \in Requests : req[p].build # c => req'[p].build # c
      BY <2>3, NoRequestType, BuildsAssumption DEF Ids
    <3> QED BY <2>1, <3>1, <3>2 DEF Over
  <2>11. Over(b)'
    <3>1. \A p \in Requests : req'[p].build # b
      BY <2>2, <2>3, NoRequestType
    <3>2. exec'[b] = "none" /\ status'[b] # "none"
      BY <2>1, <2>2, <2>3
    <3> QED BY <3>1, <3>2 DEF Over
  <2>12. PageShape' /\ FinishedPagesShowTheWholeLog'
    <3>1. \A c \in Ids : status[c] # "none" => status'[c] # "none"
      BY <2>2, <2>3
    <3>2. \A p \in Pages :
             \/ queue'[p] = queue[p]
             \/ \E c \in Ids, f \in Frames : Gets(p, c, f) /\ (f.kind = "status" => Over(c)')
      BY <2>2, <2>4, <2>11, FramesType
    <3>3. \A c \in Ids : Over(c) => Over(c)' /\ log'[c] = log[c] /\ logged' = logged
      BY <2>1, <2>10
    <3> QED BY <2>4, <3>1, <3>2, <3>3, PagesKept
  <2> QED BY <2>4, <2>5, <2>6, <2>7, <2>8, <2>9, <2>12
<1>8. CASE RecordLogPath(q)
  <2>0. PICK b \in Ids : b = req[q].build
    BY <1>5, <1>8 DEF RecordLogPath
  <2>1. /\ req[q].pc = "created"
        /\ req' = [req EXCEPT ![q].pc = "ready"]
        /\ logged' \in {logged, logged \cup {b}} /\ faults' \in {faults, faults + 1}
        /\ faults' # faults => faults < MaxFaults
        /\ UNCHANGED <<busyApps, status, appOf, bundles, log, execVars, pageVars, lost, crashes>>
    BY <1>8, <2>0 DEF RecordLogPath
  <2>2. /\ b \in Ids /\ b # 0 /\ exec[b] = "none" /\ status[b] = "building"
        /\ \A p \in Requests : p # q => req[p].build # b
    BY <2>0, <2>1, <1>5
  <2>3. /\ req'[q].pc = "ready" /\ req'[q].app = req[q].app /\ req'[q].build = b
        /\ \A p \in Requests : p # q => req'[p] = req[p]
    BY <2>0, <2>1 DEF TypeOK
  <2>4. TypeOK' /\ Queues'
    <3>1. req' \in [Requests -> RequestRecords]
      BY <2>1, <1>0 DEF RequestRecords
    <3>2. faults' \in 0..MaxFaults
      BY <2>1, BuildsAssumption DEF TypeOK
    <3>3. logged' \subseteq Ids
      BY <2>1, <2>2 DEF TypeOK
    <3> QED BY <2>1, <3>1, <3>2, <3>3 DEF TypeOK, Queues, RequestRecords
  <2>5. ReqShape' /\ RowShape'
    BY <2>1, <2>3, <1>5 DEF ReqShape, RowShape
  <2>6. Exclusion'
    BY <2>1, <2>3 DEF Exclusion, ReqOwns, ExecOwns
  <2>7. HolderIsNewest' /\ BundleKept'
    BY <2>1, <2>3 DEF HolderIsNewest, BundleKept, ReqOwns, ExecOwns, Newest
  <2>8. BuildingRowsHaveBuilder' /\ \A c \in Ids : Over(c) => Over(c)'
    BY <2>1, <2>3 DEF BuildingRowsHaveBuilder, Closing, Over
  <2>9. \A c \in Ids : Over(c) => c # b
    BY <2>0 DEF Over
  <2>10. PageShape' /\ FinishedPagesShowTheWholeLog'
    BY <2>1, <2>4, <2>8, <2>9, PagesKept
  <2> QED BY <2>4, <2>5, <2>6, <2>7, <2>8, <2>10
<1>9. CASE Spawn(q)
  <2>0. PICK b \in Ids : b = req[q].build
    BY <1>5, <1>9 DEF Spawn
  <2>1. /\ req[q].pc = "ready"
        /\ req' = [req EXCEPT ![q] = NoRequest]
        /\ exec' = [exec EXCEPT ![b] = "spawned"]
        /\ UNCHANGED <<busyApps, rowVars, bundles, log, verdict, pageVars, lost, bounds>>
    BY <1>9, <2>0 DEF Spawn
  <2>2. /\ b \in Ids /\ b # 0 /\ exec[b] = "none" /\ status[b] = "building"
        /\ req[q].app \in Apps /\ appOf[b] = req[q].app
        /\ \A p \in Requests : p # q => req[p].build # b
    BY <2>0, <2>1, <1>5
  <2>3. ReqOwns(q)
    BY <2>1 DEF ReqOwns
  <2>4. /\ req'[q] = NoRequest /\ \A p \in Requests : p # q => req'[p] = req[p]
        /\ exec'[b] = "spawned" /\ \A c \in Ids : c # b => exec'[c] = exec[c]
    BY <2>1, <2>2 DEF TypeOK
  <2>5. TypeOK' /\ Queues'
    BY <2>1, <2>2, NoRequestType DEF TypeOK, Queues, RequestRecords
  <2>6. ReqShape'
    <3>1. ASSUME NEW p \in Requests, p # q
          PROVE  /\ req'[p].pc = "idle" => req'[p] = NoRequest
                 /\ req'[p].pc # "idle" => req'[p].app \in Apps
                 /\ req'[p].pc \in {"checked", "locked"} => req'[p].build = 0
                 /\ req'[p].pc \in {"created", "released", "ready"} =>
                       /\ req'[p].build \in Ids
                       /\ appOf'[req'[p].build] = req'[p].app
                       /\ exec'[req'[p].build] = "none"
                       /\ status'[req'[p].build] = "building"
      BY <2>1, <2>2, <2>4, <3>1 DEF ReqShape
    <3>2. \A p1, p2 \in Requests :
             req'[p1].build = req'[p2].build /\ req'[p1].build # 0 => p1 = p2
      BY <2>4, NoRequestType DEF ReqShape
    <3> QED BY <2>4, <3>1, <3>2, NoRequestType DEF ReqShape
  <2>7. RowShape'
    BY <2>1, <2>2, <2>4 DEF RowShape, AtWork
  <2>8. Exclusion'
    <3>1. \A p \in Requests : ReqOwns(p)' <=> ReqOwns(p) /\ p # q
      BY <2>1, <2>4, NoRequestType DEF ReqOwns
    <3>2. \A c \in Ids : ExecOwns(c)' <=> ExecOwns(c) \/ c = b
      BY <2>1, <2>4 DEF ExecOwns
    <3>3. \A p \in Requests : p # q => req'[p].app = req[p].app
      BY <2>4
    <3>4. appOf' = appOf /\ busyApps' = busyApps
      BY <2>1
    <3> QED BY <2>2, <2>3, <3>1, <3>2, <3>3, <3>4 DEF Exclusion
  <2>9. HolderIsNewest'
    <3>1. Newest(b)
      BY <2>0, <2>2, <2>3 DEF HolderIsNewest
    <3> QED BY <2>1, <2>4, <3>1, NoRequestType DEF HolderIsNewest, ReqOwns, ExecOwns, Newest
  <2>10. BundleKept' /\ BuildingRowsHaveBuilder'
    <3>1. \A c \in Ids : Closing(c) => Closing(c)'
      BY <2>0, <2>1, <2>4 DEF Closing
    <3> QED BY <2>1, <2>4, <3>1 DEF BundleKept, BuildingRowsHaveBuilder
  <2>11. \A c \in Ids : Over(c) => Over(c)'
    <3>1. \A c \in Ids : Over(c) => c # b
      BY <2>0 DEF Over
    <3>2. \A c \in Ids : \A p \in Requests : req[p].build # c => req'[p].build # c
      BY <2>4, NoRequestType, BuildsAssumption DEF Ids
    <3> QED BY <2>1, <2>4, <3>1, <3>2 DEF Over
  <2>12. PageShape' /\ FinishedPagesShowTheWholeLog'
    BY <2>1, <2>5, <2>11, PagesKept
  <2> QED BY <2>5, <2>6, <2>7, <2>8, <2>9, <2>10, <2>12
<1> QED BY <1>1, <1>2, <1>3, <1>4, <1>6, <1>7, <1>8, <1>9 DEF RequestNext

\* No clean-up takes the bundle of a build that holds its application: no bundle of the
\* application is newer.
LEMMA HolderIsNoCandidate ==
    ASSUME IInv, NEW a \in Apps, NEW b \in Ids, ExecOwns(b)
    PROVE  b \notin Candidates(a)
<1>1. NewerThan(b) = {}
  BY DEF IInv, TypeOK, HolderIsNewest, Newest, NewerThan, BundlesOf
<1>2. ~(Cardinality(NewerThan(b)) >= Keep)
  BY <1>1, FS_EmptySet, BuildsAssumption
<1> QED BY <1>2 DEF Candidates

\* Where a goroutine can be.
ExecPcs == {"none", "spawned", "opened", "working", "ingested", "cleaning",
            "recording", "publishing", "releasing", "done"}

\* What a step of the goroutine of b may do to the invariant: it moves b on, closes its row
\* at most, writes about b alone and only before its end is announced, spares the bundles
\* of the builds at work, and gives back the lock only when it is done.
LEMMA GoroutineKeeps ==
    ASSUME IInv, NEW b \in Ids, ExecOwns(b),
           NEW to \in ExecPcs \ {"none"}, exec' = [exec EXCEPT ![b] = to],
           UNCHANGED <<req, appOf, logged, crashes>>,
           busyApps' = IF to = "done" THEN busyApps \ {appOf[b]} ELSE busyApps,
           status' = status \/ \E s \in {"success", "failed"} : status' = [status EXCEPT ![b] = s],
           to \in AtWork => status'[b] = "building",
           exec[b] \in AtWork /\ to \notin AtWork => status'[b] # "building" \/ b \in lost',
           \A c \in Ids : c # b => log'[c] = log[c] /\ verdict'[c] = verdict[c],
           exec[b] = "releasing" => log'[b] = log[b] /\ to = "done",
           log' \in [Ids -> SUBSET Parts], verdict' \in [Ids -> {"none", "success", "failed"}],
           to \in {"ingested", "cleaning"} => verdict'[b] = "success",
           to = "recording" => verdict'[b] \in {"success", "failed"},
           bundles' \subseteq Ids,
           \A c \in Ids : c # b /\ ExecOwns(c) /\ c \in bundles => c \in bundles',
           to \in {"ingested", "cleaning", "recording"} /\ verdict'[b] = "success" => b \in bundles',
           lost \subseteq lost', lost' \subseteq Ids, faults' \in 0..MaxFaults,
           page' = page, Queues', behind' \subseteq Pages,
           \A p \in Pages : Len(queue'[p]) <= QueueSize + 1,
           \A p \in Pages :
              \/ queue'[p] = queue[p]
              \/ \E f \in Frames : Gets(p, b, f) /\ (f.kind = "status" => to = "releasing")
    PROVE  IInv'
<1> USE DEF IInv
<1>1. /\ exec'[b] = to /\ to # "none" /\ exec[b] # "none" /\ exec[b] # "done"
      /\ \A c \in Ids : c # b => exec'[c] = exec[c]
  BY DEF TypeOK, ExecOwns
<1>2. /\ \A c \in Ids : c # b => status'[c] = status[c]
      /\ status[b] # "none" /\ status'[b] # "none"
      /\ status' \in [Ids -> {"none", "building", "success", "failed"}]
  <2>1. status[b] # "none"
    BY <1>1 DEF RowShape
  <2>2. CASE status' = status
    BY <2>1, <2>2 DEF TypeOK
  <2>3. ASSUME NEW s \in {"success", "failed"}, status' = [status EXCEPT ![b] = s]
        PROVE  /\ \A c \in Ids : c # b => status'[c] = status[c]
               /\ status'[b] # "none"
               /\ status' \in [Ids -> {"none", "building", "success", "failed"}]
    BY <2>3 DEF TypeOK
  <2> QED BY <2>1, <2>2, <2>3
<1>3. \A q \in Requests : req[q].build # b
  BY <1>1, BuildsAssumption DEF ReqShape, TypeOK, Ids, NoRequest
<1>4. TypeOK'
  <2>1. exec' \in [Ids -> ExecPcs]
    BY DEF TypeOK, ExecPcs
  <2>2. \A p \in Pages : \A i \in DOMAIN queue'[p] : queue'[p][i] \in Frames
    BY DEF Queues
  <2>3. busyApps' \subseteq Apps
    BY DEF TypeOK
  <2> QED BY <1>2, <2>1, <2>2, <2>3 DEF TypeOK, ExecPcs
<1>5. ReqShape'
  BY <1>1, <1>2, <1>3 DEF ReqShape
<1>6. RowShape'
  BY <1>1, <1>2 DEF RowShape, AtWork
<1>7. Exclusion'
  <2>1. \A q \in Requests : ReqOwns(q)' <=> ReqOwns(q)
    BY DEF ReqOwns
  <2>2. \A c \in Ids : ExecOwns(c)' <=> ExecOwns(c) /\ (c # b \/ to # "done")
    BY <1>1 DEF ExecOwns
  <2> QED BY <2>1, <2>2 DEF Exclusion
<1>8. HolderIsNewest'
  BY <1>1 DEF HolderIsNewest, ReqOwns, ExecOwns, Newest
<1>9. BundleKept'
  BY <1>1 DEF BundleKept, ExecOwns
<1>10. BuildingRowsHaveBuilder'
  <2>1. ASSUME NEW c \in Ids, c # b, Closing(c) PROVE Closing(c)'
    BY <1>1, <2>1 DEF Closing
  <2>2. status'[b] = "building" => Closing(b)' \/ b \in lost'
    <3>1. CASE to \in AtWork
      BY <1>1, <3>1 DEF Closing, AtWork
    <3>2. CASE to \notin AtWork /\ exec[b] \in AtWork
      BY <3>2
    <3>3. CASE to \notin AtWork /\ exec[b] \notin AtWork
      <4>1. ~Closing(b)
        BY <1>3, <3>3 DEF Closing, AtWork
      <4>2. status'[b] = "building" => status[b] = "building"
        BY <1>2 DEF TypeOK
      <4> QED BY <4>1, <4>2 DEF BuildingRowsHaveBuilder
    <3> QED BY <3>1, <3>2, <3>3
  <2> QED BY <1>2, <2>1, <2>2 DEF BuildingRowsHaveBuilder
<1>11. ASSUME NEW c \in Ids, Over(c) PROVE Over(c)' /\ log'[c] = log[c]
  <2>1. CASE c = b
    BY <1>1, <1>2, <1>11, <2>1 DEF Over
  <2>2. CASE c # b
    BY <1>1, <1>2, <1>11, <2>2 DEF Over
  <2> QED BY <2>1, <2>2
<1>12. to = "releasing" => Over(b)'
  BY <1>1, <1>2, <1>3 DEF Over
<1>13. PageShape' /\ FinishedPagesShowTheWholeLog'
  <2>1. \A p \in Pages :
           \/ queue'[p] = queue[p]
           \/ \E c \in Ids, f \in Frames : Gets(p, c, f) /\ (f.kind = "status" => Over(c)')
    BY <1>12
  <2>2. \A c \in Ids : status[c] # "none" => status'[c] # "none"
    BY <1>2
  <2> QED BY <1>11, <2>1, <2>2, PagesKept
<1> QED BY <1>4, <1>5, <1>6, <1>7, <1>8, <1>9, <1>10, <1>13

\* Each step of a goroutine is such a step.
LEMMA ExecStepKeeps ==
    ASSUME IInv, NEW b \in Ids, ExecNext(b)
    PROVE  IInv'
<1> USE DEF IInv, ExecStep, pageVars, ExecPcs, AtWork
<1>1. /\ log \in [Ids -> SUBSET Parts] /\ verdict \in [Ids -> {"none", "success", "failed"}]
      /\ bundles \subseteq Ids /\ lost \subseteq Ids
      /\ faults \in 0..MaxFaults /\ behind \subseteq Pages
      /\ \A p \in Pages : Len(queue[p]) <= QueueSize + 1
  BY DEF TypeOK
<1>2. exec[b] \notin {"none", "done"} => ExecOwns(b)
  BY DEF ExecOwns
<1>3. /\ exec[b] \in AtWork => status[b] = "building"
      /\ exec[b] \in {"ingested", "cleaning"} => verdict[b] = "success"
      /\ exec[b] = "recording" => verdict[b] \in {"success", "failed"}
      /\ exec[b] \in {"ingested", "cleaning", "recording"} /\ verdict[b] = "success" => b \in bundles
  BY DEF RowShape, BundleKept
<1>4. ASSUME UNCHANGED pageVars
      PROVE  /\ page' = page /\ Queues' /\ behind' \subseteq Pages
             /\ \A p \in Pages : Len(queue'[p]) <= QueueSize + 1 /\ queue'[p] = queue[p]
  BY <1>1, <1>4 DEF Queues
<1>5. ASSUME NEW part \in Parts, WriteBoth(b, part)
      PROVE  /\ log' \in [Ids -> SUBSET Parts]
             /\ \A c \in Ids : c # b => log'[c] = log[c]
             /\ page' = page /\ Queues' /\ behind' \subseteq Pages
             /\ \A p \in Pages : Len(queue'[p]) <= QueueSize + 1
             /\ \A p \in Pages :
                  \/ queue'[p] = queue[p]
                  \/ \E f \in Frames : Gets(p, b, f) /\ f.kind # "status"
  <2>1. Publish(b, LogFrame(part)) /\ log' = [log EXCEPT ![b] = @ \cup {part}]
    BY <1>5 DEF WriteBoth
  <2>2. LogFrame(part) \in Frames /\ LogFrame(part).kind # "status"
    BY FramesType
  <2> QED BY <1>1, <2>1, <2>2, PublishFacts
<1>6. CASE OpenLog(b)
  BY <1>1, <1>2, <1>3, <1>4, <1>6, GoroutineKeeps DEF OpenLog
<1>7. CASE OpenLogFails(b)
  BY <1>1, <1>2, <1>3, <1>4, <1>7, GoroutineKeeps DEF OpenLogFails, Decide
<1>8. CASE Output(b)
  <2>1. WriteBoth(b, "output") /\ "output" \in Parts
    BY <1>8 DEF Output, Parts
  <2> QED BY <1>1, <1>2, <1>3, <1>5, <1>8, <2>1, GoroutineKeeps DEF Output
<1>9. CASE BuildFails(b)
  <2>1. log' \in [Ids -> SUBSET Parts] /\ \A c \in Ids : c # b => log'[c] = log[c]
    BY <1>1, <1>9 DEF BuildFails, Parts
  <2>2. verdict' \in [Ids -> {"none", "success", "failed"}] /\ verdict'[b] = "failed"
        /\ \A c \in Ids : c # b => verdict'[c] = verdict[c]
    BY <1>1, <1>9 DEF BuildFails, Decide
  <2> QED BY <1>1, <1>2, <1>3, <1>4, <1>9, <2>1, <2>2, GoroutineKeeps DEF BuildFails
<1>10. CASE Ingest(b)
  <2>1. verdict' \in [Ids -> {"none", "success", "failed"}] /\ verdict'[b] = "success"
        /\ \A c \in Ids : c # b => verdict'[c] = verdict[c]
    BY <1>1, <1>10 DEF Ingest, Decide
  <2> QED BY <1>1, <1>2, <1>3, <1>4, <1>10, <2>1, GoroutineKeeps DEF Ingest, Following
<1>11. CASE LogSuccess(b)
  <2>1. WriteBoth(b, "success") /\ "success" \in Parts
    BY <1>11 DEF LogSuccess, Parts
  <2> QED BY <1>1, <1>2, <1>3, <1>5, <1>11, <2>1, GoroutineKeeps DEF LogSuccess
<1>12. CASE CleanAfterBuild(b)
  <2>1. appOf[b] \in Apps /\ ExecOwns(b)
    BY <1>3, <1>12, <1>2 DEF CleanAfterBuild, RowShape
  <2>2. PICK D \in SUBSET Candidates(appOf[b]) : bundles' = bundles \ D
    BY <1>12 DEF CleanAfterBuild, CleanupBundleHistory
  <2>3. \A c \in Ids : ExecOwns(c) /\ c \in bundles => c \in bundles'
    BY <2>1, <2>2, HolderIsNoCandidate
  <2>4. /\ log' \in [Ids -> SUBSET Parts]
        /\ \A c \in Ids : c # b => log'[c] = log[c]
        /\ page' = page /\ Queues' /\ behind' \subseteq Pages
        /\ \A p \in Pages : Len(queue'[p]) <= QueueSize + 1
        /\ \A p \in Pages :
             \/ queue'[p] = queue[p]
             \/ \E f \in Frames : Gets(p, b, f) /\ f.kind # "status"
    <3>1. CASE WriteBoth(b, "cleanup")
      BY <1>5, <3>1 DEF Parts
    <3>2. CASE UNCHANGED <<log, pageVars>>
      BY <1>1, <1>4, <3>2
    <3> QED BY <1>12, <3>1, <3>2 DEF CleanAfterBuild
  <2>5. exec[b] = "cleaning" /\ exec' = [exec EXCEPT ![b] = "recording"]
    BY <1>12 DEF CleanAfterBuild, Following
  <2>6. UNCHANGED <<busyApps, status, verdict, lost, faults, req, appOf, logged, crashes>>
    BY <1>12 DEF CleanAfterBuild
  <2>7. bundles' \subseteq Ids
    BY <1>1, <2>2
  <2>8. b \in bundles'
    BY <1>3, <2>1, <2>3, <2>5
  <2>9. status[b] = "building" /\ verdict[b] = "success"
    BY <1>3, <2>5
  <2> QED BY <1>1, <2>1, <2>3, <2>4, <2>5, <2>6, <2>7, <2>8, <2>9, GoroutineKeeps
<1>13. CASE FinishBuild(b)
  BY <1>1, <1>2, <1>3, <1>4, <1>13, GoroutineKeeps DEF FinishBuild, CloseRow, TypeOK
<1>14. CASE FinishBuildFails(b)
  <2>1. faults' \in 0..MaxFaults
    BY <1>1, <1>14, BuildsAssumption DEF FinishBuildFails
  <2> QED
    BY <1>1, <1>2, <1>3, <1>4, <1>14, <2>1, GoroutineKeeps DEF FinishBuildFails, AfterFailedUpdate
<1>15. CASE PublishStatus(b)
  <2>1. Publish(b, StatusFrame)
    BY <1>15 DEF PublishStatus
  <2> QED
    BY <1>1, <1>2, <1>3, <1>15, <2>1, PublishFacts, FramesType, GoroutineKeeps
       DEF PublishStatus, Following
<1>16. CASE ReleaseLock(b)
  BY <1>1, <1>2, <1>3, <1>4, <1>16, GoroutineKeeps DEF ReleaseLock, releaseLock
<1> QED
  BY <1>6, <1>7, <1>8, <1>9, <1>10, <1>11, <1>12, <1>13, <1>14, <1>15, <1>16 DEF ExecNext

\* What a page's record holds.
PageRecords ==
    [pc : {"idle", "opened", "subscribed", "live", "fetching", "done", "stopped"},
     build : 0..MaxBuilds, shown : SUBSET Parts]

\* A page moves on by itself: it is told the end, and fetches, only what is over.
LEMMA PageStepKeeps ==
    ASSUME IInv, NEW p \in Pages,
           PageNext(p) \/ ClosePage(p) \/ \E b \in Ids : OpenPage(p, b)
    PROVE  IInv'
<1> USE DEF IInv, PageStep, lockVars, rowVars, execVars
<1>1. UNCHANGED <<lockVars, rowVars, bundles, log, execVars, lost, crashes>>
  BY DEF PageNext, Subscribe, SendSnapshot, Receive, FetchLog, FetchLogFails, ClosePage, OpenPage
<1>2. ReqShape' /\ RowShape' /\ Exclusion' /\ HolderIsNewest' /\ BundleKept'
      /\ BuildingRowsHaveBuilder'
  BY <1>1 DEF ReqShape, RowShape, Exclusion, HolderIsNewest, BundleKept, BuildingRowsHaveBuilder,
              ReqOwns, ExecOwns, Newest, Closing
<1>3. \A b \in Ids : Over(b)' <=> Over(b)
  BY <1>1 DEF Over
<1>4. ASSUME NEW new \in PageRecords, page' = [page EXCEPT ![p] = new],
             NEW frames \in Seq(Frames), queue' = [queue EXCEPT ![p] = frames],
             Len(frames) <= QueueSize + 1, behind' \subseteq Pages, faults' \in 0..MaxFaults,
             new.pc # "idle", new.build \in Ids, status[new.build] # "none",
             new.pc = "opened" => frames = <<>>,
             new.pc = "subscribed" => Len(frames) <= QueueSize,
             new.pc \in {"fetching", "done"} => Over(new.build),
             \A i \in 1..Len(frames) : frames[i].kind = "status" => Over(new.build),
             new.pc = "done" /\ new.build \in logged => new.shown = log[new.build]
      PROVE  IInv'
  <2>1. /\ page'[p] = new /\ \A r \in Pages : r # p => page'[r] = page[r]
        /\ queue'[p] = frames /\ \A r \in Pages : r # p => queue'[r] = queue[r]
    BY <1>4 DEF TypeOK, Queues
  <2>2. Queues'
    BY <1>4 DEF Queues
  <2>3. TypeOK'
    <3>1. page' \in [Pages -> PageRecords]
      BY <1>4 DEF TypeOK, PageRecords
    <3>2. \A r \in Pages : \A i \in DOMAIN queue'[r] : queue'[r][i] \in Frames
      BY <2>2 DEF Queues
    <3>3. \A r \in Pages : Len(queue'[r]) <= QueueSize + 1
      BY <1>4, <2>1 DEF TypeOK
    <3> QED BY <1>1, <1>4, <3>1, <3>2, <3>3 DEF TypeOK, PageRecords
  <2>4. PageShape'
    <3>1. ASSUME NEW r \in Pages, r # p
          PROVE  /\ page'[r].pc # "idle" =>
                       page'[r].build \in Ids /\ status'[page'[r].build] # "none"
                 /\ page'[r].pc \in {"idle", "opened"} => queue'[r] = <<>>
                 /\ page'[r].pc = "subscribed" => Len(queue'[r]) <= QueueSize
                 /\ page'[r].pc \in {"fetching", "done"} => Over(page[r].build)
                 /\ \A i \in 1..Len(queue'[r]) :
                       queue'[r][i].kind = "status" => Over(page[r].build)
      BY <1>1, <2>1, <3>1 DEF PageShape
    <3> QED BY <1>1, <1>4, <2>1, <3>1 DEF PageShape, Over
  <2>5. FinishedPagesShowTheWholeLog'
    BY <1>1, <1>4, <2>1 DEF FinishedPagesShowTheWholeLog
  <2> QED BY <1>2, <2>2, <2>3, <2>4, <2>5
<1>5. /\ page[p] \in PageRecords /\ queue[p] \in Seq(Frames)
      /\ Len(queue[p]) <= QueueSize + 1
      /\ queue = [queue EXCEPT ![p] = queue[p]]
      /\ behind \subseteq Pages /\ faults \in 0..MaxFaults
  BY DEF TypeOK, PageRecords, Queues
<1>6. /\ page[p].pc # "idle" => page[p].build \in Ids /\ status[page[p].build] # "none"
      /\ page[p].pc \in {"idle", "opened"} => queue[p] = <<>>
      /\ page[p].pc = "subscribed" => Len(queue[p]) <= QueueSize
      /\ page[p].pc \in {"fetching", "done"} => Over(page[p].build)
      /\ \A i \in 1..Len(queue[p]) : queue[p][i].kind = "status" => Over(page[p].build)
  BY DEF PageShape
<1>7. \A b \in Ids : ReadableLog(b) \in SUBSET Parts /\ (b \in logged => ReadableLog(b) = log[b])
  BY DEF ReadableLog, TypeOK
<1>8. <<>> \in Seq(Frames) /\ Len(<<>>) = 0 /\ QueueSize \in Nat
  BY BuildsAssumption
<1>9. ASSUME NEW b \in Ids, OpenPage(p, b) PROVE IInv'
  <2> DEFINE new == [pc |-> "opened", build |-> b, shown |-> ReadableLog(b)]
  <2>1. /\ page[p].pc = "idle" /\ status[b] = "building"
        /\ page' = [page EXCEPT ![p] = new]
        /\ UNCHANGED <<queue, behind, faults>>
    BY <1>9 DEF OpenPage
  <2>2. new \in PageRecords /\ new.pc = "opened" /\ new.build = b
    BY <1>7 DEF PageRecords, Ids
  <2> HIDE DEF new
  <2>3. queue[p] = <<>> /\ \A i \in 1..Len(queue[p]) : FALSE
    BY <1>6, <1>8, <2>1
  <2>4. queue' = [queue EXCEPT ![p] = queue[p]] /\ behind' \subseteq Pages /\ faults' \in 0..MaxFaults
    BY <1>5, <2>1
  <2> QED BY <1>4, <1>5, <2>1, <2>2, <2>3, <2>4
<1>10. CASE Subscribe(p)
  <2> DEFINE new == [page[p] EXCEPT !.pc = "subscribed"]
  <2>1. /\ page[p].pc = "opened"
        /\ page' = [page EXCEPT ![p] = new]
        /\ behind' \subseteq Pages /\ UNCHANGED <<queue, faults>>
    BY <1>5, <1>10 DEF Subscribe
  <2>2. new \in PageRecords /\ new.pc = "subscribed" /\ new.build = page[p].build
    BY <1>5 DEF PageRecords
  <2> HIDE DEF new
  <2>3. /\ queue[p] = <<>> /\ Len(queue[p]) <= QueueSize
        /\ \A i \in 1..Len(queue[p]) : FALSE
    BY <1>6, <1>8, <2>1
  <2>4. queue' = [queue EXCEPT ![p] = queue[p]] /\ faults' \in 0..MaxFaults
    BY <1>5, <2>1
  <2>5. new.build \in Ids /\ status[new.build] # "none"
    BY <1>6, <2>1, <2>2
  <2> QED BY <1>4, <1>5, <2>1, <2>2, <2>3, <2>4, <2>5
<1>11. CASE SendSnapshot(p)
  <2> DEFINE new == [page[p] EXCEPT !.pc = "live"]
             f == SnapshotFrame(page[p].build)
             frames == <<f>> \o queue[p]
  <2>1. /\ page[p].pc = "subscribed"
        /\ page' = [page EXCEPT ![p] = new]
        /\ queue' = [queue EXCEPT ![p] = frames]
        /\ UNCHANGED <<behind, faults>>
    BY <1>11 DEF SendSnapshot
  <2>2. new \in PageRecords /\ new.pc = "live" /\ new.build = page[p].build
    BY <1>5 DEF PageRecords
  <2>3. f \in Frames /\ f.kind = "snapshot"
    BY <1>6, <2>1, FramesType
  <2> HIDE DEF f
  <2>4. /\ frames \in Seq(Frames) /\ Len(frames) = Len(queue[p]) + 1
        /\ frames[1] = f
        /\ \A i \in 2..Len(frames) : frames[i] = queue[p][i - 1] /\ i - 1 \in 1..Len(queue[p])
    BY <1>5, <2>3
  <2>5. \A i \in 1..Len(frames) : frames[i].kind = "status" => Over(new.build)
    BY <1>6, <2>2, <2>3, <2>4
  <2>6. new.build \in Ids /\ status[new.build] # "none" /\ Len(frames) <= QueueSize + 1
    BY <1>5, <1>6, <1>8, <2>1, <2>2, <2>4
  <2>7. behind' \subseteq Pages /\ faults' \in 0..MaxFaults
    BY <1>5, <2>1
  <2> HIDE DEF new, frames
  <2> QED BY <1>4, <2>1, <2>2, <2>4, <2>5, <2>6, <2>7
<1>12. CASE Receive(p)
  <2> DEFINE f == Head(queue[p])
             new == [page[p] EXCEPT
                        !.pc = IF f.kind = "status" THEN "fetching" ELSE "live",
                        !.shown = IF f.kind = "snapshot" THEN f.parts ELSE @ \cup f.parts]
             frames == Tail(queue[p])
  <2>1. /\ page[p].pc = "live" /\ queue[p] # <<>>
        /\ page' = [page EXCEPT ![p] = new]
        /\ queue' = [queue EXCEPT ![p] = frames]
        /\ UNCHANGED <<behind, faults>>
    BY <1>12 DEF Receive
  <2>2. /\ f \in Frames /\ f = queue[p][1] /\ 1 \in 1..Len(queue[p])
        /\ frames \in Seq(Frames) /\ Len(frames) = Len(queue[p]) - 1
        /\ \A i \in 1..Len(frames) : frames[i] = queue[p][i + 1] /\ i + 1 \in 1..Len(queue[p])
    BY <1>5, <2>1
  <2> HIDE DEF f
  <2>3. /\ new \in PageRecords /\ new.build = page[p].build
        /\ new.pc \in {"fetching", "live"}
        /\ new.pc = "fetching" => f.kind = "status"
    BY <1>5, <2>2 DEF PageRecords, Frames
  <2>4. new.pc = "fetching" => Over(new.build)
    BY <1>6, <2>2, <2>3
  <2>5. \A i \in 1..Len(frames) : frames[i].kind = "status" => Over(new.build)
    BY <1>6, <2>2, <2>3
  <2>6. new.build \in Ids /\ status[new.build] # "none" /\ Len(frames) <= QueueSize + 1
    BY <1>5, <1>6, <1>8, <2>1, <2>2, <2>3
  <2>7. behind' \subseteq Pages /\ faults' \in 0..MaxFaults
    BY <1>5, <2>1
  <2> HIDE DEF new, frames
  <2> QED BY <1>4, <2>1, <2>2, <2>3, <2>4, <2>5, <2>6, <2>7
<1>13. CASE FetchLog(p)
  <2> DEFINE new == [page[p] EXCEPT !.pc = "done", !.shown = ReadableLog(page[p].build)]
  <2>1. /\ page[p].pc = "fetching"
        /\ page' = [page EXCEPT ![p] = new]
        /\ UNCHANGED <<queue, behind, faults>>
    BY <1>13 DEF FetchLog
  <2>2. /\ new \in PageRecords /\ new.pc = "done" /\ new.build = page[p].build
        /\ new.shown = ReadableLog(page[p].build)
    BY <1>5, <1>6, <1>7, <2>1 DEF PageRecords
  <2> HIDE DEF new
  <2> QED BY <1>4, <1>5, <1>6, <1>7, <1>8, <2>1, <2>2
<1>14. ASSUME NEW frames \in {queue[p], <<>>},
              page' = [page EXCEPT ![p] = [page[p] EXCEPT !.pc = "stopped"]],
              queue' = [queue EXCEPT ![p] = frames],
              behind' = behind, faults' \in 0..MaxFaults, page[p].pc # "idle"
       PROVE  IInv'
  <2> DEFINE new == [page[p] EXCEPT !.pc = "stopped"]
  <2>1. new \in PageRecords /\ new.pc = "stopped" /\ new.build = page[p].build
    BY <1>5 DEF PageRecords
  <2>2. frames \in Seq(Frames) /\ Len(frames) <= QueueSize + 1
        /\ \A i \in 1..Len(frames) : frames[i].kind = "status" => Over(page[p].build)
    <3>1. CASE frames = queue[p]
      BY <1>5, <1>6, <3>1
    <3>2. CASE frames = <<>>
      BY <1>8, <3>2
    <3> QED BY <3>1, <3>2
  <2>3. page' = [page EXCEPT ![p] = new]
    BY <1>14
  <2> HIDE DEF new
  <2> QED BY <1>4, <1>5, <1>6, <1>14, <2>1, <2>2, <2>3
<1>15. CASE FetchLogFails(p)
  <2>1. faults' \in 0..MaxFaults
    BY <1>5, <1>15, BuildsAssumption DEF FetchLogFails
  <2> QED BY <1>5, <1>14, <1>15, <2>1 DEF FetchLogFails
<1>16. CASE ClosePage(p)
  BY <1>5, <1>14, <1>16 DEF ClosePage
<1> QED BY <1>9, <1>10, <1>11, <1>12, <1>13, <1>15, <1>16 DEF PageNext

\* A clean-up on demand and a restart.
LEMMA ServerStep ==
    ASSUME IInv, Crash \/ \E a \in Apps : CleanOnDemand(a)
    PROVE  IInv'
<1> USE DEF IInv, rowVars, lockVars, execVars, pageVars, bounds
<1>1. ASSUME NEW a \in Apps, CleanOnDemand(a) PROVE IInv'
  <2>1. PICK D \in SUBSET Candidates(a) : bundles' = bundles \ D
    BY <1>1 DEF CleanOnDemand, CleanupBundleHistory
  <2>2. UNCHANGED <<lockVars, rowVars, log, execVars, pageVars, lost, bounds>>
    BY <1>1 DEF CleanOnDemand
  <2>3. TypeOK' /\ Queues'
    BY <2>1, <2>2 DEF TypeOK, Queues
  <2>4. ReqShape' /\ RowShape' /\ Exclusion' /\ HolderIsNewest' /\ BuildingRowsHaveBuilder'
    BY <2>2 DEF ReqShape, RowShape, Exclusion, HolderIsNewest, BuildingRowsHaveBuilder,
                ReqOwns, ExecOwns, Newest, Closing
  <2>5. BundleKept'
    <3>1. \A b \in Ids : ExecOwns(b) /\ b \in bundles => b \in bundles'
      BY <2>1, HolderIsNoCandidate
    <3> QED BY <2>2, <3>1 DEF BundleKept, ExecOwns
  <2>6. \A b \in Ids : Over(b) => Over(b)'
    BY <2>2 DEF Over
  <2>7. PageShape' /\ FinishedPagesShowTheWholeLog'
    BY <2>2, <2>3, <2>6, PagesKept
  <2> QED BY <2>3, <2>4, <2>5, <2>7
<1>2. CASE Crash
  <2> USE NoRequestType
  <2>1. /\ crashes < MaxCrashes /\ crashes' = crashes + 1 /\ busyApps' = {}
        /\ req' = [q \in Requests |-> NoRequest]
        /\ exec' = [b \in Ids |-> IF exec[b] = "none" THEN "none" ELSE "done"]
        /\ lost' = lost \cup {b \in Ids : status[b] = "building"}
        /\ page' = [p \in Pages |-> IF page[p].pc = "idle" THEN page[p]
                                    ELSE [page[p] EXCEPT !.pc = IF @ = "done" THEN @ ELSE "stopped"]]
        /\ queue' = [p \in Pages |-> <<>>]
        /\ UNCHANGED <<rowVars, bundles, log, verdict, behind, faults>>
    BY <1>2 DEF Crash
  <2>2. ASSUME NEW p \in Pages
        PROVE  /\ page'[p] \in PageRecords /\ page'[p].build = page[p].build
               /\ page'[p].shown = page[p].shown
               /\ page'[p].pc = IF page[p].pc \in {"idle", "done"} THEN page[p].pc ELSE "stopped"
    <3>1. page[p] \in PageRecords
      BY DEF TypeOK, PageRecords
    <3>2. page'[p] = IF page[p].pc = "idle" THEN page[p]
                     ELSE [page[p] EXCEPT !.pc = IF @ = "done" THEN @ ELSE "stopped"]
      BY <2>1
    <3> QED BY <3>1, <3>2 DEF PageRecords
  <2>3. TypeOK' /\ Queues'
    <3>1. page' \in [Pages -> PageRecords]
      BY <2>1, <2>2
    <3>2. queue' \in [Pages -> Seq(Frames)] /\ \A p \in Pages : queue'[p] = <<>>
      BY <2>1
    <3>3. req' \in [Requests -> RequestRecords]
      BY <2>1
    <3>4. crashes' \in 0..MaxCrashes
      BY <2>1, BuildsAssumption DEF TypeOK
    <3>5. exec' \in [Ids -> ExecPcs]
      BY <2>1 DEF ExecPcs
    <3>6. \A p \in Pages : Len(queue'[p]) <= QueueSize + 1
                            /\ \A i \in DOMAIN queue'[p] : queue'[p][i] \in Frames
      BY <3>2, BuildsAssumption
    <3> QED BY <2>1, <3>1, <3>2, <3>3, <3>4, <3>5, <3>6
            DEF TypeOK, Queues, PageRecords, RequestRecords, ExecPcs
  <2>4. \A q \in Requests : req'[q] = NoRequest
    BY <2>1
  <2>5. \A b \in Ids : exec'[b] \in {"none", "done"} /\ (exec'[b] = "none" <=> exec[b] = "none")
    BY <2>1
  <2>6. ReqShape' /\ RowShape'
    BY <2>1, <2>4, <2>5 DEF ReqShape, RowShape, AtWork
  <2>7. Exclusion' /\ HolderIsNewest' /\ BundleKept'
    BY <2>4, <2>5 DEF Exclusion, HolderIsNewest, BundleKept, ReqOwns, ExecOwns
  <2>8. BuildingRowsHaveBuilder'
    BY <2>1 DEF BuildingRowsHaveBuilder
  <2>9. \A b \in Ids : Over(b) => Over(b)'
    BY <2>1, <2>4, <2>5, BuildsAssumption DEF Over, Ids
  <2>10. PageShape'
    <3>1. ASSUME NEW p \in Pages, page[p].pc = "done" PROVE Over(page[p].build)'
      <4>1. PICK b \in Ids : b = page[p].build
        BY <3>1 DEF PageShape
      <4>2. Over(b)'
        BY <2>9, <3>1, <4>1 DEF PageShape
      <4>3. b = page'[p].build
        BY <2>2, <4>1
      <4> QED BY <4>2, <4>3 DEF Over
    <3>2. ASSUME NEW p \in Pages
          PROVE  page'[p].pc # "idle" =>
                    page'[p].build \in Ids /\ status'[page'[p].build] # "none"
      BY <2>1, <2>2 DEF PageShape
    <3>3. ASSUME NEW p \in Pages
          PROVE  queue'[p] = <<>> /\ Len(queue'[p]) = 0
      BY <2>1
    <3> QED BY <2>2, <3>1, <3>2, <3>3, BuildsAssumption DEF PageShape
  <2>11. FinishedPagesShowTheWholeLog'
    BY <2>1, <2>2 DEF FinishedPagesShowTheWholeLog
  <2> QED BY <2>3, <2>6, <2>7, <2>8, <2>10, <2>11
<1> QED BY <1>1, <1>2

\* No step of a request, a goroutine, a page or the server leaves the invariant.
LEMMA Step == IInv /\ [Next]_vars => IInv'
<1> SUFFICES ASSUME IInv, [Next]_vars PROVE IInv'
  OBVIOUS
<1>1. ASSUME NEW q \in Requests, RequestNext(q) \/ \E a \in Apps : Begin(q, a) PROVE IInv'
  BY <1>1, RequestStep
<1>2. ASSUME NEW b \in Ids, ExecNext(b) PROVE IInv'
  BY <1>2, ExecStepKeeps
<1>3. ASSUME NEW p \in Pages, PageNext(p) \/ ClosePage(p) \/ \E b \in Ids : OpenPage(p, b)
      PROVE  IInv'
  BY <1>3, PageStepKeeps
<1>4. CASE Crash \/ \E a \in Apps : CleanOnDemand(a)
  BY <1>4, ServerStep
<1>5. CASE UNCHANGED vars
  <2> USE <1>5 DEF IInv, vars, lockVars, rowVars, execVars, pageVars, bounds
  <2>1. TypeOK' /\ Queues'
    BY DEF TypeOK, Queues
  <2>2. ReqShape' /\ RowShape' /\ Exclusion' /\ HolderIsNewest' /\ BundleKept'
        /\ BuildingRowsHaveBuilder'
    BY DEF ReqShape, RowShape, Exclusion, HolderIsNewest, BundleKept, BuildingRowsHaveBuilder,
           ReqOwns, ExecOwns, Newest, Closing
  <2>3. PageShape' /\ FinishedPagesShowTheWholeLog'
    BY DEF PageShape, FinishedPagesShowTheWholeLog, Over
  <2> QED BY <2>1, <2>2, <2>3
<1> QED BY <1>1, <1>2, <1>3, <1>4, <1>5 DEF Next

-----------------------------------------------------------------------------
(* The theorems                                                             *)

\* The invariant holds of every state that can be reached.
THEOREM Invariance == Spec => []IInv
<1>1. Init => IInv
  <2> SUFFICES ASSUME Init PROVE IInv
    OBVIOUS
  <2> USE DEF Init
  <2>1. TypeOK /\ Queues
    <3>1. req \in [Requests -> RequestRecords]
      BY NoRequestType
    <3>2. page \in [Pages -> PageRecords]
      BY BuildsAssumption DEF PageRecords
    <3>3. queue \in [Pages -> Seq(Frames)] /\ \A p \in Pages : queue[p] = <<>>
      OBVIOUS
    <3>4. \A p \in Pages : Len(queue[p]) <= QueueSize + 1
                            /\ \A i \in DOMAIN queue[p] : queue[p][i] \in Frames
      BY <3>3, BuildsAssumption
    <3>5. faults \in 0..MaxFaults /\ crashes \in 0..MaxCrashes
      BY BuildsAssumption
    <3> QED BY <3>1, <3>2, <3>3, <3>4, <3>5 DEF TypeOK, Queues, PageRecords, RequestRecords
  <2>2. ReqShape /\ RowShape
    BY NoRequestType DEF ReqShape, RowShape, AtWork
  <2>3. Exclusion /\ HolderIsNewest /\ BundleKept /\ BuildingRowsHaveBuilder
    BY NoRequestType DEF Exclusion, HolderIsNewest, BundleKept, BuildingRowsHaveBuilder,
                         ReqOwns, ExecOwns
  <2>4. PageShape /\ FinishedPagesShowTheWholeLog
    BY DEF PageShape, FinishedPagesShowTheWholeLog
  <2> QED BY <2>1, <2>2, <2>3, <2>4 DEF IInv
<1> QED BY <1>1, Step, PTL DEF Spec

\* Every variable keeps its type, the queues their bound.
THEOREM TypeCorrect == Spec => []TypeOK
<1>1. IInv => TypeOK
  BY DEF IInv
<1> QED BY <1>1, Invariance, PTL

\* Who opened a row closes it, or its update failed, or the server stopped.
THEOREM BuildingRowsHaveBuilderHolds == Spec => []BuildingRowsHaveBuilder
<1>1. IInv => BuildingRowsHaveBuilder
  BY DEF IInv
<1> QED BY <1>1, Invariance, PTL

\* A page that was told the end shows the whole log.
THEOREM FinishedPagesShowTheWholeLogHolds == Spec => []FinishedPagesShowTheWholeLog
<1>1. IInv => FinishedPagesShowTheWholeLog
  BY DEF IInv
<1> QED BY <1>1, Invariance, PTL

\* Only a goroutine records success, and its bundle is there.
LEMMA SuccessStep ==
    IInv /\ [Next]_vars
        => [\A b \in Ids : status'[b] = "success" /\ status[b] # "success" => b \in bundles']_vars
<1> SUFFICES ASSUME IInv, Next, NEW b \in Ids, status'[b] = "success", status[b] # "success"
             PROVE  b \in bundles'
  OBVIOUS
<1> USE DEF IInv, rowVars, pageVars
<1>1. ASSUME NEW q \in Requests, RequestNext(q) \/ \E a \in Apps : Begin(q, a) PROVE FALSE
  <2>1. status' = status \/ \E c \in Ids, s \in {"building", "failed"} :
                               status' = [status EXCEPT ![c] = s]
    BY <1>1 DEF RequestNext, AcquireLock, RejectBusy, CreateRow, GiveUp, MkdirFails,
           FinishAborted, CloseRow, RecordLogPath, Spawn, Begin, ReqShape
  <2> QED BY <2>1 DEF TypeOK
<1>2. ASSUME NEW c \in Ids, ExecNext(c) PROVE b \in bundles'
  <2>1. CASE FinishBuild(c)
    <3>1. c = b /\ verdict[b] = "success" /\ exec[b] = "recording" /\ bundles' = bundles
      BY <2>1 DEF FinishBuild, ExecStep, CloseRow, TypeOK
    <3> QED BY <3>1 DEF BundleKept
  <2>2. CASE ~FinishBuild(c)
    <3>1. status' = status
      BY <1>2, <2>2 DEF ExecNext, OpenLog, OpenLogFails, Output, BuildFails, Ingest, LogSuccess,
             CleanAfterBuild, FinishBuildFails, PublishStatus, ReleaseLock
    <3> QED BY <3>1
  <2> QED BY <2>1, <2>2
<1>3. ASSUME NEW p \in Pages, PageNext(p) \/ ClosePage(p) \/ \E c \in Ids : OpenPage(p, c)
      PROVE  FALSE
  BY <1>3 DEF PageNext, Subscribe, SendSnapshot, Receive, FetchLog, FetchLogFails, ClosePage,
              OpenPage, PageStep
<1>4. ASSUME Crash \/ \E a \in Apps : CleanOnDemand(a) PROVE FALSE
  BY <1>4 DEF Crash, CleanOnDemand
<1> QED BY <1>1, <1>2, <1>3, <1>4 DEF Next

\* Success is recorded only while the bundle is stored, whatever clean-ups have done since.
THEOREM SuccessHasBundleHolds == Spec => SuccessHasBundle
BY SuccessStep, Invariance, PTL DEF Spec, SuccessHasBundle

-----------------------------------------------------------------------------
(* Builds implement ExclusiveRuns                                           *)

\* The variables of ExclusiveRuns, as the state of Builds shows them.
HolderBar == [a \in Apps |-> HolderOf(a)]
RecordBar == [b \in Ids |-> RecordOf(b)]

\* Somebody works on the build b.
Holds(b) == ExecOwns(b) \/ \E q \in Requests : req[q].build = b /\ ReqOwns(q)

\* Whoever holds a build holds its application alone.
LEMMA SoleHolder ==
    ASSUME IInv, NEW b \in Ids, Holds(b)
    PROVE  appOf[b] \in Apps /\ HolderBar[appOf[b]] = {b}
<1> USE DEF IInv
<1>1. ASSUME NEW q \in Requests, NEW c \in Ids, req[q].build = c, ReqOwns(q)
      PROVE  req[q].app = appOf[c] /\ req[q].app \in Apps
  <2>1. req[q].pc \in {"created", "ready"}
    BY <1>1, BuildsAssumption DEF ReqOwns, ReqShape, Ids
  <2> QED BY <1>1, <2>1 DEF ReqShape
<1>2. appOf[b] \in Apps
  <2>1. CASE ExecOwns(b)
    BY <2>1 DEF RowShape, ExecOwns
  <2> QED BY <1>1, <2>1 DEF Holds
<1>3. ASSUME NEW c \in Ids, Holds(c), appOf[c] = appOf[b] PROVE c = b
  <2>1. CASE ExecOwns(b) /\ ExecOwns(c)
    BY <1>3, <2>1 DEF Exclusion
  <2>2. CASE ExecOwns(b) /\ ~ExecOwns(c)
    BY <1>1, <1>3, <2>2 DEF Exclusion, Holds
  <2>3. CASE ~ExecOwns(b) /\ ExecOwns(c)
    BY <1>1, <1>3, <2>3 DEF Exclusion, Holds
  <2>4. CASE ~ExecOwns(b) /\ ~ExecOwns(c)
    BY <1>1, <1>3, <2>4 DEF Exclusion, Holds
  <2> QED BY <2>1, <2>2, <2>3, <2>4
<1> QED BY <1>2, <1>3 DEF HolderBar, HolderOf, Holds

\* Nobody holds an application whose lock a request has just taken.
LEMMA LockedMeansFree ==
    ASSUME IInv, NEW q \in Requests, req[q].pc = "locked"
    PROVE  HolderBar[req[q].app] = {} /\ req[q].app \in Apps
<1> USE DEF IInv
<1>1. ReqOwns(q) /\ req[q].app \in Apps /\ req[q].build = 0
  BY DEF ReqOwns, ReqShape
<1>2. ASSUME NEW b \in Ids, Holds(b), appOf[b] = req[q].app PROVE FALSE
  <2>1. CASE ExecOwns(b)
    BY <1>1, <1>2, <2>1 DEF Exclusion
  <2>2. ASSUME NEW p \in Requests, req[p].build = b, ReqOwns(p) PROVE FALSE
    <3>1. req[p].pc \in {"created", "ready"}
      BY <2>2, BuildsAssumption DEF ReqOwns, ReqShape, Ids
    <3>2. req[p].app = appOf[b]
      BY <2>2, <3>1 DEF ReqShape
    <3> QED BY <1>1, <1>2, <2>2, <3>1, <3>2 DEF Exclusion
  <2> QED BY <1>2, <2>1, <2>2 DEF Holds
<1> QED BY <1>1, <1>2 DEF HolderBar, HolderOf, Holds

\* The request that gives back the lock of its build lets go of it.
LEMMA LetsGo ==
    ASSUME IInv, NEW b \in Ids, Holds(b), appOf' = appOf,
           \A c \in Ids : Holds(c)' <=> Holds(c) /\ c # b
    PROVE  /\ HolderBar[appOf[b]] = {b}
           /\ HolderBar' = [HolderBar EXCEPT ![appOf[b]] = {}]
<1>1. appOf[b] \in Apps /\ HolderBar[appOf[b]] = {b}
  BY SoleHolder
<1>2. \A c \in Ids : appOf[c] = appOf[b] /\ Holds(c) => c = b
  BY <1>1 DEF HolderBar, HolderOf, Holds
<1>3. \A a \in Apps : HolderOf(a)' = IF a = appOf[b] THEN {} ELSE HolderOf(a)
  BY <1>2 DEF HolderOf, Holds
<1> QED BY <1>1, <1>3 DEF HolderBar

\* A step that leaves the rows' applications and the holders alone leaves the holders alone.
LEMMA HoldersKept ==
    ASSUME appOf' = appOf, \A c \in Ids : Holds(c)' <=> Holds(c)
    PROVE  HolderBar' = HolderBar
BY DEF HolderBar, HolderOf, Holds

\* Closing a row that says building ends it; it stays ended.
LEMMA RowCloses ==
    ASSUME IInv, NEW b \in Ids, status[b] = "building", NEW s \in {"success", "failed"},
           status' = [status EXCEPT ![b] = s]
    PROVE  RecordBar[b] = "running" /\ RecordBar' = [RecordBar EXCEPT ![b] = "ended"]
<1>1. status'[b] = s /\ \A c \in Ids : c # b => status'[c] = status[c]
  BY DEF IInv, TypeOK
<1>2. RecordOf(b) = "running"
  BY DEF RecordOf
<1>3. \A c \in Ids : RecordOf(c)' = IF c = b THEN "ended" ELSE RecordOf(c)
  BY <1>1 DEF RecordOf
<1> QED BY <1>2, <1>3 DEF RecordBar

\* Every step is a step of ExclusiveRuns or leaves its variables alone.
LEMMA StepRefines ==
    IInv /\ [Next]_vars => [Abstract!AbsNext]_(Abstract!absVars)
<1> DEFINE Stutters == HolderBar' = HolderBar /\ RecordBar' = RecordBar
<1> SUFFICES ASSUME IInv, [Next]_vars
             PROVE  Abstract!AbsNext \/ Stutters
    BY DEF Abstract!absVars, HolderBar, RecordBar
<1> USE DEF IInv, rowVars, execVars, pageVars, lockVars, bounds
<1>1. ASSUME status' = status PROVE RecordBar' = RecordBar
  BY <1>1 DEF RecordBar, RecordOf
<1>2. ASSUME NEW q \in Requests, RequestNext(q) \/ \E a \in Apps : Begin(q, a)
      PROVE  Abstract!AbsNext \/ Stutters
  <2>0. /\ req \in [Requests -> RequestRecords]
        /\ req[q].pc \in {"idle", "checked", "locked"} => req[q].build = 0
    BY NoRequestType DEF TypeOK, RequestRecords, ReqShape
  <2>1. CASE (\E a \in Apps : Begin(q, a)) \/ AcquireLock(q) \/ RejectBusy(q) \/ GiveUp(q)
    <3>1. /\ req[q].build = 0 /\ req'[q].build = 0
          /\ \A p \in Requests : p # q => req'[p] = req[p]
      <4>1. ASSUME NEW a \in Apps, Begin(q, a)
            PROVE  req[q].build = 0 /\ req'[q].build = 0
                   /\ \A p \in Requests : p # q => req'[p] = req[p]
        BY <2>0, <4>1, NoRequestType DEF Begin, RequestRecords
      <4>2. CASE AcquireLock(q)
        BY <2>0, <4>2 DEF AcquireLock, RequestRecords
      <4>3. CASE RejectBusy(q) \/ GiveUp(q)
        BY <2>0, <4>3, NoRequestType DEF RejectBusy, GiveUp
      <4> QED BY <2>1, <4>1, <4>2, <4>3
    <3>2. UNCHANGED <<status, appOf, exec>>
      BY <2>1 DEF Begin, AcquireLock, RejectBusy, GiveUp
    <3>3. \A c \in Ids : Holds(c)' <=> Holds(c)
      BY <3>1, <3>2, BuildsAssumption DEF Holds, ExecOwns, ReqOwns, Ids
    <3> QED BY <1>1, <3>2, <3>3, HoldersKept
  <2>2. CASE RecordLogPath(q)
    <3>1. /\ req[q].pc = "created" /\ req'[q].pc = "ready" /\ req'[q].build = req[q].build
          /\ \A p \in Requests : p # q => req'[p] = req[p]
      BY <2>0, <2>2 DEF RecordLogPath, RequestRecords
    <3>2. UNCHANGED <<status, appOf, exec>>
      BY <2>2 DEF RecordLogPath
    <3>3. \A c \in Ids : Holds(c)' <=> Holds(c)
      BY <3>1, <3>2 DEF Holds, ExecOwns, ReqOwns
    <3> QED BY <1>1, <3>2, <3>3, HoldersKept
  <2>3. CASE Spawn(q)
    <3>1. PICK b \in Ids : b = req[q].build /\ exec[b] = "none"
      BY <2>3 DEF Spawn, ReqShape
    <3>2. /\ req[q].pc = "ready" /\ req'[q] = NoRequest
          /\ \A p \in Requests : p # q => req'[p] = req[p]
          /\ exec'[b] = "spawned" /\ \A c \in Ids : c # b => exec'[c] = exec[c]
          /\ UNCHANGED <<status, appOf>>
      BY <2>0, <2>3, <3>1 DEF Spawn, TypeOK
    <3>3. \A c \in Ids : Holds(c)' <=> Holds(c)
      BY <3>1, <3>2, NoRequestType, BuildsAssumption DEF Holds, ExecOwns, ReqOwns, Ids
    <3> QED BY <1>1, <3>2, <3>3, HoldersKept
  <2>4. CASE MkdirFails(q)
    <3>1. PICK b \in Ids : b = req[q].build /\ exec[b] = "none" /\ req[q].pc = "created"
      BY <2>4 DEF MkdirFails, ReqShape
    <3>2. /\ req'[q].pc = "released" /\ req'[q].build = b
          /\ \A p \in Requests : p # q => req'[p] = req[p] /\ req[p].build # b
          /\ UNCHANGED <<status, appOf, exec>>
      BY <2>0, <2>4, <3>1, BuildsAssumption DEF MkdirFails, RequestRecords, ReqShape, Ids
    <3>3. Holds(b) /\ \A c \in Ids : Holds(c)' <=> Holds(c) /\ c # b
      BY <3>1, <3>2 DEF Holds, ExecOwns, ReqOwns
    <3>4. HolderBar[appOf[b]] = {b} /\ HolderBar' = [HolderBar EXCEPT ![appOf[b]] = {}]
      BY <3>2, <3>3, LetsGo
    <3>5. appOf[b] \in Apps /\ RecordBar' = RecordBar
      BY <1>1, <3>2, <3>3, SoleHolder
    <3> QED BY <3>4, <3>5 DEF Abstract!AbsNext, Abstract!LetGo, HolderBar, RecordBar
  <2>5. CASE FinishAborted(q)
    <3>1. PICK b \in Ids : b = req[q].build /\ status[b] = "building" /\ req[q].pc = "released"
      BY <2>5 DEF FinishAborted, ReqShape
    <3>2. /\ req'[q] = NoRequest
          /\ \A p \in Requests : p # q => req'[p] = req[p]
          /\ UNCHANGED <<appOf, exec>>
      BY <2>0, <2>5 DEF FinishAborted
    <3>3. \A c \in Ids : Holds(c)' <=> Holds(c)
      BY <3>1, <3>2, NoRequestType DEF Holds, ExecOwns, ReqOwns
    <3>4. HolderBar' = HolderBar
      BY <3>2, <3>3, HoldersKept
    <3>5. status' = status \/ status' = [status EXCEPT ![b] = "failed"]
      BY <2>5, <3>1 DEF FinishAborted, CloseRow
    <3>6. CASE status' = status
      BY <1>1, <3>4, <3>6
    <3>7. CASE status' = [status EXCEPT ![b] = "failed"]
      <4>1. RecordBar[b] = "running" /\ RecordBar' = [RecordBar EXCEPT ![b] = "ended"]
        BY <3>1, <3>7, RowCloses
      <4> QED BY <3>4, <4>1 DEF Abstract!AbsNext, Abstract!End, HolderBar, RecordBar
    <3> QED BY <3>5, <3>6, <3>7
  <2>6. ASSUME NEW b \in Ids, CreateRow(q, b)
        PROVE  Abstract!Start(req[q].app, b) /\ req[q].app \in Apps
    <3>1. /\ req[q].pc = "locked" /\ status[b] = "none"
          /\ req'[q].pc = "created" /\ req'[q].build = b
          /\ \A p \in Requests : p # q => req'[p] = req[p]
          /\ status' = [status EXCEPT ![b] = "building"]
          /\ appOf' = [appOf EXCEPT ![b] = req[q].app] /\ exec' = exec
      BY <2>0, <2>6 DEF CreateRow, RequestRecords
    <3>2. HolderBar[req[q].app] = {} /\ req[q].app \in Apps
      BY <3>1, LockedMeansFree
    <3>3. /\ status'[b] = "building" /\ \A c \in Ids : c # b => status'[c] = status[c]
          /\ appOf'[b] = req[q].app /\ \A c \in Ids : c # b => appOf'[c] = appOf[c]
      BY <3>1 DEF TypeOK
    <3>4. /\ ~Holds(b) /\ req[q].build = 0
      <4>1. exec[b] = "none" /\ req[q].build = 0
        BY <3>1 DEF RowShape, ReqShape
      <4>2. ASSUME NEW p \in Requests, req[p].build = b, ReqOwns(p) PROVE FALSE
        <5>1. req[p].pc \in {"locked", "created", "ready"}
          BY <4>2 DEF ReqOwns
        <5>2. req[p].pc # "locked"
          BY <4>2, BuildsAssumption DEF ReqShape, Ids
        <5> QED BY <3>1, <4>2, <5>1, <5>2 DEF ReqShape
      <4> QED BY <4>1, <4>2 DEF Holds, ExecOwns
    <3>5. \A c \in Ids : Holds(c)' <=> Holds(c) \/ c = b
      BY <3>1, <3>4, BuildsAssumption DEF Holds, ExecOwns, ReqOwns, Ids
    <3>6. \A c \in Ids : Holds(c) => appOf[c] # req[q].app
      BY <3>2 DEF HolderBar, HolderOf, Holds
    <3>7. \A a \in Apps : HolderOf(a)' = IF a = req[q].app THEN {b} ELSE HolderOf(a)
      BY <3>2, <3>3, <3>4, <3>5, <3>6 DEF HolderOf, Holds
    <3>8. HolderBar' = [HolderBar EXCEPT ![req[q].app] = {b}]
      BY <3>2, <3>7 DEF HolderBar
    <3>9. RecordBar[b] = "none" /\ RecordBar' = [RecordBar EXCEPT ![b] = "running"]
      <4>1. \A c \in Ids : RecordOf(c)' = IF c = b THEN "running" ELSE RecordOf(c)
        BY <3>3 DEF RecordOf
      <4> QED BY <3>1, <4>1 DEF RecordBar, RecordOf
    <3> QED BY <3>2, <3>8, <3>9 DEF Abstract!Start, HolderBar, RecordBar
  <2> QED
    BY <1>2, <2>1, <2>2, <2>3, <2>4, <2>5, <2>6 DEF RequestNext, Abstract!AbsNext
<1>3. ASSUME NEW b \in Ids, ExecNext(b) PROVE Abstract!AbsNext \/ Stutters
  <2>1. /\ exec[b] # "none" /\ exec[b] # "done" /\ req' = req /\ appOf' = appOf
        /\ \A c \in Ids : c # b => exec'[c] = exec[c]
        /\ exec'[b] = "done" <=> ReleaseLock(b)
        /\ exec'[b] # "none"
    BY <1>3 DEF ExecNext, OpenLog, OpenLogFails, Output, BuildFails, Ingest, LogSuccess,
                CleanAfterBuild, FinishBuild, FinishBuildFails, PublishStatus, ReleaseLock,
                ExecStep, Following, AfterFailedUpdate, TypeOK
  <2>2. CASE ReleaseLock(b)
    <3>1. Holds(b) /\ \A c \in Ids : Holds(c)' <=> Holds(c) /\ c # b
      <4>1. \A p \in Requests : req[p].build # b
        BY <2>1, BuildsAssumption DEF ReqShape, TypeOK, NoRequest, Ids
      <4> QED BY <2>1, <2>2, <4>1 DEF Holds, ExecOwns, ReqOwns
    <3>2. HolderBar[appOf[b]] = {b} /\ HolderBar' = [HolderBar EXCEPT ![appOf[b]] = {}]
      BY <2>1, <3>1, LetsGo
    <3>3. appOf[b] \in Apps /\ RecordBar' = RecordBar
      BY <1>1, <2>2, <3>1, SoleHolder DEF ReleaseLock
    <3> QED BY <3>2, <3>3 DEF Abstract!AbsNext, Abstract!LetGo, HolderBar, RecordBar
  <2>3. CASE ~ReleaseLock(b)
    <3>1. \A c \in Ids : Holds(c)' <=> Holds(c)
      BY <2>1, <2>3 DEF Holds, ExecOwns, ReqOwns
    <3>2. HolderBar' = HolderBar
      BY <2>1, <3>1, HoldersKept
    <3>3. CASE FinishBuild(b)
      <4>1. /\ status[b] = "building" /\ verdict[b] \in {"success", "failed"}
            /\ status' = [status EXCEPT ![b] = verdict[b]]
        BY <3>3 DEF FinishBuild, ExecStep, CloseRow, RowShape, AtWork
      <4>2. RecordBar[b] = "running" /\ RecordBar' = [RecordBar EXCEPT ![b] = "ended"]
        BY <4>1, RowCloses
      <4> QED BY <3>2, <4>2 DEF Abstract!AbsNext, Abstract!End, HolderBar, RecordBar
    <3>4. CASE ~FinishBuild(b)
      <4>1. status' = status
        BY <1>3, <2>3, <3>4 DEF ExecNext, OpenLog, OpenLogFails, Output, BuildFails, Ingest,
               LogSuccess, CleanAfterBuild, FinishBuildFails, PublishStatus
      <4> QED BY <1>1, <3>2, <4>1
    <3> QED BY <3>3, <3>4
  <2> QED BY <2>2, <2>3
<1>4. ASSUME UNCHANGED <<lockVars, rowVars, execVars>> PROVE Stutters
  <2>1. \A c \in Ids : Holds(c)' <=> Holds(c)
    BY <1>4 DEF Holds, ExecOwns, ReqOwns
  <2> QED BY <1>1, <1>4, <2>1, HoldersKept
<1>5. ASSUME NEW p \in Pages, PageNext(p) \/ ClosePage(p) \/ \E b \in Ids : OpenPage(p, b)
      PROVE  Stutters
  BY <1>4, <1>5 DEF PageNext, Subscribe, SendSnapshot, Receive, FetchLog, FetchLogFails, ClosePage,
                    OpenPage, PageStep
<1>6. ASSUME NEW a \in Apps, CleanOnDemand(a) PROVE Stutters
  BY <1>4, <1>6 DEF CleanOnDemand
<1>7. CASE Crash
  <2>1. /\ \A q \in Requests : req'[q] = NoRequest
        /\ \A b \in Ids : exec'[b] \in {"none", "done"}
        /\ status' = status
    BY <1>7 DEF Crash
  <2>2. \A b \in Ids : ~Holds(b)'
    BY <2>1, NoRequestType DEF Holds, ExecOwns, ReqOwns
  <2>3. HolderBar' = [a \in Apps |-> {}]
    BY <2>2 DEF HolderBar, HolderOf, Holds
  <2> QED BY <1>1, <2>1, <2>3 DEF Abstract!AbsNext, Abstract!LoseAll, HolderBar, RecordBar
<1>8. CASE UNCHANGED vars
  BY <1>4, <1>8 DEF vars
<1> QED BY <1>2, <1>3, <1>5, <1>6, <1>7, <1>8 DEF Next

\* One build at a time works on an application, and a row that has ended stays ended.
THEOREM ImplementsExclusiveRunsHolds == Spec => ImplementsExclusiveRuns
<1>1. Init => Abstract!AbsInit
  <2> SUFFICES ASSUME Init PROVE Abstract!AbsInit
    OBVIOUS
  <2>1. \A b \in Ids : ~Holds(b)
    BY NoRequestType DEF Init, Holds, ExecOwns, ReqOwns
  <2>2. \A a \in Apps : HolderOf(a) = {}
    BY <2>1 DEF HolderOf, Holds
  <2>3. \A b \in Ids : RecordOf(b) = "none"
    BY DEF Init, RecordOf
  <2> QED BY <2>2, <2>3 DEF Abstract!AbsInit
<1> QED
  BY <1>1, StepRefines, Invariance, PTL DEF Spec, ImplementsExclusiveRuns, Abstract!AbsSpec
=============================================================================
