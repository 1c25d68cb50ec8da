---------------------------- MODULE RunStreamProofs ----------------------------
(***************************************************************************)
(* Proofs about RunStream for any number of hosts, steps, connections and  *)
(* faults and any capacity of the queues.  The inductive invariant IInv    *)
(* follows a step and the end of the run from the row to the browser: what *)
(* has been sent to a connection is on its screen, or in the queue or the  *)
(* channel before it, whose frames get there in one order (OnItsWay).      *)
(***************************************************************************)
EXTENDS RunStream, SequenceTheorems, TLAPS

-----------------------------------------------------------------------------
(* The inductive invariant                                                  *)

\* Only a step leaves the status that is shown as it was.
Fits == {f \in Frames : f.kind = "step" <=> f.status = "none"}

\* What is on its way to the browser of c, in the order in which it gets there.
OnItsWay(c) == queue[c] \o chan[c]

Views == [steps : SUBSET AllSteps, status : {"none", "running", "ended"}]
NoView == [steps |-> {}, status |-> "none"]

\* The rows, the hosts and the frames, as TypeOK has them.
RowsTyped ==
    /\ steps \subseteq AllSteps /\ status \in {"running", "ended"}
    /\ writer \subseteq Hosts
    /\ pc \in [Publishers -> {"idle", "writing", "publishing", "sending", "over"}]
    /\ done \in [Hosts -> 0..Stages] /\ buffer \in [Hosts -> SUBSET AllSteps]
    /\ frame \in [Publishers -> Frames \cup {NoFrame}] /\ to \in [Publishers -> SUBSET Conns]
    /\ late \in BOOLEAN /\ faults \in 0..MaxFaults /\ alive \in BOOLEAN

\* The connections, whose channels and queues are sequences of frames.
ConnsTyped ==
    /\ subs \subseteq Conns /\ dropped \subseteq Conns
    /\ handler \in [Conns -> {"none", "subscribed", "open", "closed", "removed", "gone"}]
    /\ forwarder \in [Conns -> {"none", "running", "over"}]
    /\ screen \in [Conns -> Views]
    /\ queue \in [Conns -> Seq(Fits)]
    /\ chan \in [Conns -> Seq(Fits)]

\* A host that writes has s.mu, and the snapshot it has read is that of the row.
Locked ==
    \A h \in Hosts :
        /\ pc[h] \in {"idle", "writing", "publishing", "sending"}
        /\ pc[h] # "idle" => done[h] < Stages
        /\ pc[h] = "writing" => writer = {h} /\ buffer[h] = steps

\* What each publisher sends.
FramesFit ==
    /\ \A h \in Hosts : pc[h] = "sending" => frame[h] = StepFrame(<<h, done[h] + 1>>)
    /\ pc[Exec] \in {"idle", "publishing", "sending", "over"}
    /\ pc[Trigger] \in {"idle", "sending", "over"}
    /\ pc[Exec] = "sending" => frame[Exec] = StatusFrame("ended")
    /\ pc[Trigger] = "sending" => frame[Trigger] = StatusFrame("running")

\* While no database call has failed, the row holds every step that is or has been published.
Recorded ==
    faults = 0 =>
        /\ \A h \in Hosts, k \in 1..Stages :
              k <= done[h] \/ (k = done[h] + 1 /\ pc[h] \in {"publishing", "sending"})
              => <<h, k>> \in steps
        /\ pc[Exec] # "idle" => status = "ended"

\* Nothing reaches a connection before it subscribes, and the snapshot is the first frame
\* that its browser gets.
ConnFits(c) ==
    /\ handler[c] = "none" => /\ c \notin subs /\ chan[c] = <<>>
                              /\ \A p \in Publishers : c \notin to[p]
    /\ handler[c] \in {"none", "subscribed"} =>
          queue[c] = <<>> /\ forwarder[c] = "none" /\ screen[c] = NoView
    /\ handler[c] \in {"subscribed", "open"} => c \in subs
    /\ Len(chan[c]) <= QueueSize /\ Len(queue[c]) <= QueueSize
    /\ \A i \in 1..Len(chan[c]) : chan[c][i].kind # "snapshot"
    /\ \A i \in 1..Len(queue[c]) :
          queue[c][i].kind = "snapshot" => i = 1 /\ screen[c].steps = {}

\* A step that has been sent to c, if c was to get it, is on the screen or on its way to it.
Sent(h, k, c) == k <= done[h] \/ (k = done[h] + 1 /\ pc[h] = "sending" /\ c \notin to[h])
Gets(w, view, s) == s \in view.steps \/ \E i \in 1..Len(w) : s \in w[i].steps
StepsArrive(c) ==
    faults = 0 /\ c \notin dropped /\ handler[c] = "open" =>
        \A h \in Hosts, k \in 1..Stages :
            Sent(h, k, c) => Gets(OnItsWay(c), screen[c], <<h, k>>)

\* The status that a browser will have shown last is that of the end of the run.  (One that
\* has not got its snapshot will find the end there.)
EndSent(c) == pc[Exec] = "over" \/ (pc[Exec] = "sending" /\ c \notin to[Exec])
SaysEnded(w, shown) ==
    \/ \E i \in 1..Len(w) :
          w[i].status = "ended" /\ \A j \in 1..Len(w) : j > i => w[j].status # "running"
    \/ shown = "ended" /\ \A j \in 1..Len(w) : w[j].status # "running"
Shown(c) == IF handler[c] = "subscribed" THEN "ended" ELSE screen[c].status
EndArrives(c) ==
    faults = 0 /\ ~late /\ c \notin dropped /\ handler[c] \in {"subscribed", "open"} /\ EndSent(c)
        => SaysEnded(OnItsWay(c), Shown(c))

RowsFit == RowsTyped /\ Locked /\ FramesFit /\ Recorded
ConnsFit == ConnsTyped /\ \A c \in Conns : ConnFits(c)
Arrives == \A c \in Conns : StepsArrive(c) /\ EndArrives(c)

IInv == RowsFit /\ ConnsFit /\ Arrives

-----------------------------------------------------------------------------
(* Queues and what they do to a screen                                      *)

\* Forwarding a frame from the channel to the queue changes nothing of what is on its way.
LEMMA ForwardKeeps ==
    ASSUME NEW S, NEW q \in Seq(S), NEW w \in Seq(S), w # <<>>
    PROVE  Append(q, Head(w)) \o Tail(w) = q \o w
<1> DEFINE l == Append(q, Head(w)) \o Tail(w)
<1>1. /\ Head(w) \in S /\ Head(w) = w[1] /\ Len(w) \in Nat /\ Len(w) > 0 /\ Len(q) \in Nat
      /\ Tail(w) \in Seq(S) /\ Len(Tail(w)) = Len(w) - 1
      /\ \A i \in 1..Len(Tail(w)) : Tail(w)[i] = w[i + 1]
  BY HeadTailProperties, LenProperties, EmptySeq
<1>2. /\ Append(q, Head(w)) \in Seq(S) /\ Len(Append(q, Head(w))) = Len(q) + 1
      /\ \A i \in 1..Len(q) : Append(q, Head(w))[i] = q[i]
      /\ Append(q, Head(w))[Len(q) + 1] = Head(w)
  BY <1>1, AppendProperties
<1>3. /\ l \in Seq(S) /\ Len(l) = Len(q) + Len(w)
      /\ \A i \in 1..Len(q) + Len(w) :
            l[i] = IF i <= Len(q) + 1 THEN Append(q, Head(w))[i] ELSE Tail(w)[i - (Len(q) + 1)]
  BY <1>1, <1>2, ConcatProperties
<1>4. /\ q \o w \in Seq(S) /\ Len(q \o w) = Len(q) + Len(w)
      /\ \A i \in 1..Len(q) + Len(w) : (q \o w)[i] = IF i <= Len(q) THEN q[i] ELSE w[i - Len(q)]
  BY ConcatProperties
<1> HIDE DEF l
<1>5. ASSUME NEW i \in 1..Len(l)
      PROVE  l[i] = (q \o w)[i]
  <2>1. i \in 1..Len(q) + Len(w)
    BY <1>3
  <2>2. CASE i <= Len(q)
    BY <2>1, <2>2, <1>1, <1>2, <1>3, <1>4
  <2>3. CASE i = Len(q) + 1
    <3>1. i - Len(q) = 1
      BY <2>3, <1>1
    <3> QED BY <3>1, <2>1, <2>3, <1>1, <1>2, <1>3, <1>4
  <2>4. CASE i > Len(q) + 1
    <3>1. i - (Len(q) + 1) \in 1..Len(Tail(w)) /\ (i - (Len(q) + 1)) + 1 = i - Len(q)
      BY <2>1, <2>4, <1>1
    <3>2. Tail(w)[i - (Len(q) + 1)] = w[i - Len(q)]
      BY <3>1, <1>1
    <3>3. ~(i <= Len(q) + 1) /\ ~(i <= Len(q))
      BY <2>1, <2>4, <1>1
    <3>4. l[i] = Tail(w)[i - (Len(q) + 1)]
      BY <3>3, <2>1, <1>3
    <3>5. (q \o w)[i] = w[i - Len(q)]
      BY <3>3, <2>1, <1>4
    <3> QED BY <3>2, <3>4, <3>5
  <2> QED BY <2>1, <2>2, <2>3, <2>4, <1>1
<1>6. l = q \o w
  BY <1>3, <1>4, <1>5, SeqEqual
<1> QED BY <1>6 DEF l

\* A frame sent to the channel is the last on its way.
LEMMA SendAppends ==
    ASSUME NEW q \in Seq(Fits), NEW w \in Seq(Fits), NEW f \in Fits
    PROVE  q \o Append(w, f) = Append(q \o w, f)
<1>1. Append(w, f) = w \o <<f>> /\ <<f>> \in Seq(Fits)
  BY AppendIsConcat
<1>2. q \o w \in Seq(Fits)
  BY ConcatProperties
<1>3. Append(q \o w, f) = (q \o w) \o <<f>>
  BY <1>2, AppendIsConcat
<1> QED BY <1>1, <1>3, ConcatAssociative

\* The write pump takes the first frame from the way.
LEMMA PumpTakes ==
    ASSUME NEW S, NEW q \in Seq(S), NEW w \in Seq(S), q # <<>>
    PROVE  /\ q \o w \in Seq(S) /\ q \o w # <<>>
           /\ Tail(q) \o w = Tail(q \o w) /\ (q \o w)[1] = Head(q)
<1>1. Head(q) \in S /\ Tail(q) \in Seq(S) /\ <<Head(q)>> \in Seq(S) /\ Head(q) = q[1]
      /\ Len(q) \in Nat /\ Len(q) > 0 /\ Len(w) \in Nat
      /\ Len(Tail(q)) = Len(q) - 1
      /\ \A i \in 1..Len(Tail(q)) : Tail(q)[i] = q[i + 1]
  BY HeadTailProperties, EmptySeq, LenProperties
<1>2. /\ q \o w \in Seq(S) /\ Len(q \o w) = Len(q) + Len(w)
      /\ \A i \in 1..Len(q) + Len(w) : (q \o w)[i] = IF i <= Len(q) THEN q[i] ELSE w[i - Len(q)]
  BY ConcatProperties
<1>3. q \o w # <<>>
  BY <1>1, <1>2, EmptySeq
<1>4. /\ Tail(q \o w) \in Seq(S) /\ Len(Tail(q \o w)) = Len(q) + Len(w) - 1
      /\ \A i \in 1..Len(q) + Len(w) - 1 : Tail(q \o w)[i] = (q \o w)[i + 1]
  BY <1>1, <1>2, <1>3, HeadTailProperties
<1> DEFINE l == Tail(q) \o w
<1>5. /\ l \in Seq(S) /\ Len(l) = Len(q) + Len(w) - 1
      /\ \A i \in 1..Len(q) + Len(w) - 1 :
            l[i] = IF i <= Len(q) - 1 THEN Tail(q)[i] ELSE w[i - (Len(q) - 1)]
  BY <1>1, ConcatProperties
<1> HIDE DEF l
<1>6. ASSUME NEW i \in 1..Len(l)
      PROVE  l[i] = Tail(q \o w)[i]
  <2>1. i \in 1..Len(q) + Len(w) - 1 /\ i + 1 \in 1..Len(q) + Len(w)
    BY <1>1, <1>5
  <2>2. CASE i <= Len(q) - 1
    BY <2>1, <2>2, <1>1, <1>2, <1>4, <1>5
  <2>3. CASE i > Len(q) - 1
    <3>1. i - (Len(q) - 1) = (i + 1) - Len(q) /\ i + 1 > Len(q)
      BY <2>1, <2>3, <1>1
    <3> QED BY <3>1, <2>1, <2>3, <1>1, <1>2, <1>4, <1>5
  <2> QED BY <2>1, <2>2, <2>3, <1>1
<1>7. l = Tail(q \o w)
  BY <1>4, <1>5, <1>6, SeqEqual
<1>8. (q \o w)[1] = q[1]
  BY <1>1, <1>2
<1> QED BY <1>1, <1>2, <1>3, <1>7, <1>8 DEF l

\* A frame in front of what is on the way.
LEMMA FirstOnTheWay ==
    ASSUME NEW S, NEW f \in S, NEW w \in Seq(S)
    PROVE  /\ <<f>> \o w \in Seq(S) /\ Len(<<f>> \o w) = Len(w) + 1 /\ Len(w) \in Nat
           /\ (<<f>> \o w)[1] = f /\ \A i \in 1..Len(w) : (<<f>> \o w)[i + 1] = w[i]
<1>1. <<f>> \in Seq(S) /\ Len(<<f>>) = 1 /\ <<f>>[1] = f /\ Len(w) \in Nat
  BY LenProperties
<1>2. /\ <<f>> \o w \in Seq(S) /\ Len(<<f>> \o w) = 1 + Len(w)
      /\ \A i \in 1..1 + Len(w) : (<<f>> \o w)[i] = IF i <= 1 THEN <<f>>[i] ELSE w[i - 1]
  BY <1>1, ConcatProperties
<1>3. (<<f>> \o w)[1] = f
  BY <1>1, <1>2
<1>4. ASSUME NEW i \in 1..Len(w)
      PROVE  (<<f>> \o w)[i + 1] = w[i]
  <2>1. i + 1 \in 1..1 + Len(w) /\ ~(i + 1 <= 1) /\ (i + 1) - 1 = i
    BY <1>1
  <2> QED BY <2>1, <1>2
<1> QED BY <1>1, <1>2, <1>3, <1>4

\* What is on its way stays so when another frame is sent ...
LEMMA SendGets ==
    ASSUME NEW w \in Seq(Fits), NEW f \in Fits, NEW view, NEW s,
           Gets(w, view, s) \/ s \in f.steps
    PROVE  Gets(Append(w, f), view, s)
<1>1. /\ Len(Append(w, f)) = Len(w) + 1 /\ Len(w) \in Nat
      /\ \A i \in 1..Len(w) : Append(w, f)[i] = w[i]
      /\ Append(w, f)[Len(w) + 1] = f
  BY AppendProperties, LenProperties
<1>2. CASE s \in f.steps
  <2>1. Len(w) + 1 \in 1..Len(Append(w, f))
    BY <1>1
  <2> QED BY <1>1, <1>2, <2>1 DEF Gets
<1>3. CASE s \in view.steps
  BY <1>3 DEF Gets
<1>4. CASE \E i \in 1..Len(w) : s \in w[i].steps
  <2>1. PICK i \in 1..Len(w) : s \in w[i].steps
    BY <1>4
  <2>2. i \in 1..Len(Append(w, f)) /\ s \in Append(w, f)[i].steps
    BY <1>1, <2>1
  <2> QED BY <2>2 DEF Gets
<1> QED BY <1>2, <1>3, <1>4 DEF Gets

\* ... or when the first one is shown, as the snapshot comes to an empty screen.
LEMMA ShowGets ==
    ASSUME NEW w \in Seq(Fits), w # <<>>, NEW view, NEW s, Gets(w, view, s),
           w[1].kind = "snapshot" => view.steps = {}
    PROVE  Gets(Tail(w), Show(view, w[1]), s)
<1>1. /\ Len(Tail(w)) = Len(w) - 1 /\ Len(w) \in Nat
      /\ \A i \in 1..Len(Tail(w)) : Tail(w)[i] = w[i + 1]
  BY HeadTailProperties, LenProperties
<1>2. view.steps \subseteq Show(view, w[1]).steps /\ w[1].steps \subseteq Show(view, w[1]).steps
  BY DEF Show
<1>3. CASE s \in view.steps
  BY <1>2, <1>3 DEF Gets
<1>4. CASE \E i \in 1..Len(w) : s \in w[i].steps
  <2>1. PICK i \in 1..Len(w) : s \in w[i].steps
    BY <1>4
  <2>2. CASE i = 1
    BY <1>2, <2>1, <2>2 DEF Gets
  <2>3. CASE i # 1
    <3>1. i - 1 \in 1..Len(Tail(w)) /\ (i - 1) + 1 = i
      BY <1>1, <2>3
    <3>2. s \in Tail(w)[i - 1].steps
      BY <1>1, <2>1, <3>1
    <3> QED BY <3>1, <3>2 DEF Gets
  <2> QED BY <2>2, <2>3
<1> QED BY <1>3, <1>4 DEF Gets

\* The end of the run stays the last that is said when a frame is sent that does not say
\* "running" ...
LEMMA SendSaysEnded ==
    ASSUME NEW w \in Seq(Fits), NEW f \in Fits, NEW shown,
           f.status = "ended" \/ (SaysEnded(w, shown) /\ f.status # "running")
    PROVE  SaysEnded(Append(w, f), shown)
<1> DEFINE l == Append(w, f)
<1>1. /\ Len(l) = Len(w) + 1 /\ Len(w) \in Nat
      /\ \A i \in 1..Len(w) : l[i] = w[i]
      /\ l[Len(w) + 1] = f
  BY AppendProperties, LenProperties
<1> HIDE DEF l
<1>2. \A i \in 1..Len(l) : i \in 1..Len(w) \/ i = Len(w) + 1
  BY <1>1
<1>3. Len(w) + 1 \in 1..Len(l) /\ \A i \in 1..Len(l) : ~(i > Len(w) + 1)
  BY <1>1
<1>4. CASE f.status = "ended"
  BY <1>1, <1>3, <1>4 DEF SaysEnded, l
<1>5. CASE SaysEnded(w, shown) /\ f.status # "running"
  <2>1. CASE \E i \in 1..Len(w) :
               w[i].status = "ended" /\ \A j \in 1..Len(w) : j > i => w[j].status # "running"
    <3>1. PICK i \in 1..Len(w) :
             w[i].status = "ended" /\ \A j \in 1..Len(w) : j > i => w[j].status # "running"
      BY <2>1
    <3>2. i \in 1..Len(l) /\ l[i].status = "ended"
      BY <1>1, <3>1
    <3>3. \A j \in 1..Len(l) : j > i => l[j].status # "running"
      BY <1>1, <1>2, <1>5, <3>1
    <3> QED BY <3>2, <3>3 DEF SaysEnded, l
  <2>2. CASE shown = "ended" /\ \A j \in 1..Len(w) : w[j].status # "running"
    <3>1. \A j \in 1..Len(l) : l[j].status # "running"
      BY <1>1, <1>2, <1>5, <2>2
    <3> QED BY <2>2, <3>1 DEF SaysEnded, l
  <2> QED BY <1>5, <2>1, <2>2 DEF SaysEnded
<1> QED BY <1>4, <1>5

\* ... or when the first frame is shown.
LEMMA ShowSaysEnded ==
    ASSUME NEW w \in Seq(Fits), w # <<>>, NEW view, SaysEnded(w, view.status)
    PROVE  SaysEnded(Tail(w), Show(view, w[1]).status)
<1> DEFINE l == Tail(w)
           shown == Show(view, w[1]).status
<1>1. /\ Len(l) = Len(w) - 1 /\ Len(w) \in Nat /\ Len(w) > 0 /\ w[1] \in Fits
      /\ \A i \in 1..Len(l) : l[i] = w[i + 1]
  BY HeadTailProperties, LenProperties, EmptySeq
<1>2. /\ w[1].status = "ended" => shown = "ended"
      /\ view.status = "ended" /\ w[1].status # "running" => shown = "ended"
  BY <1>1 DEF Show, Fits, Frames
<1> HIDE DEF l, shown
<1>3. \A j \in 1..Len(l) : j + 1 \in 1..Len(w) /\ j + 1 > 1
  BY <1>1
<1>4. CASE \E i \in 1..Len(w) :
             w[i].status = "ended" /\ \A j \in 1..Len(w) : j > i => w[j].status # "running"
  <2>1. PICK i \in 1..Len(w) :
           w[i].status = "ended" /\ \A j \in 1..Len(w) : j > i => w[j].status # "running"
    BY <1>4
  <2>2. CASE i = 1
    <3>1. shown = "ended"
      BY <1>2, <2>1, <2>2
    <3>2. \A j \in 1..Len(l) : l[j].status # "running"
      BY <1>1, <1>3, <2>1, <2>2
    <3> QED BY <3>1, <3>2 DEF SaysEnded, l, shown
  <2>3. CASE i # 1
    <3>1. i - 1 \in 1..Len(l) /\ (i - 1) + 1 = i
      BY <1>1, <2>3
    <3>2. l[i - 1].status = "ended"
      BY <1>1, <2>1, <3>1
    <3>3. ASSUME NEW j \in 1..Len(l), j > i - 1
          PROVE  l[j].status # "running"
      <4>1. j + 1 \in 1..Len(w) /\ j + 1 > i
        BY <1>1, <3>3
      <4> QED BY <1>1, <2>1, <4>1
    <3> QED BY <3>1, <3>2, <3>3 DEF SaysEnded, l
  <2> QED BY <2>2, <2>3
<1>5. CASE view.status = "ended" /\ \A j \in 1..Len(w) : w[j].status # "running"
  <2>1. 1 \in 1..Len(w)
    BY <1>1
  <2>2. shown = "ended"
    BY <1>2, <1>5, <2>1
  <2>3. \A j \in 1..Len(l) : l[j].status # "running"
    BY <1>1, <1>3, <1>5
  <2> QED BY <2>2, <2>3 DEF SaysEnded, l, shown
<1> QED BY <1>4, <1>5 DEF SaysEnded

\* A snapshot of the end in front of it says so too.
LEMMA SnapshotSaysEnded ==
    ASSUME NEW w \in Seq(Fits), NEW f \in Fits, NEW shown,
           SaysEnded(w, "ended"), f.status = "ended"
    PROVE  SaysEnded(<<f>> \o w, shown)
<1> DEFINE l == <<f>> \o w
<1>1. /\ Len(l) = Len(w) + 1 /\ Len(w) \in Nat
      /\ l[1] = f /\ \A i \in 1..Len(w) : l[i + 1] = w[i]
  BY FirstOnTheWay
<1> HIDE DEF l
<1>2. ASSUME NEW j \in 1..Len(l), j > 1
      PROVE  j - 1 \in 1..Len(w) /\ l[j] = w[j - 1]
  <2>1. j - 1 \in 1..Len(w) /\ (j - 1) + 1 = j
    BY <1>1, <1>2
  <2> QED BY <1>1, <2>1
<1>3. CASE \E i \in 1..Len(w) :
             w[i].status = "ended" /\ \A j \in 1..Len(w) : j > i => w[j].status # "running"
  <2>1. PICK i \in 1..Len(w) :
           w[i].status = "ended" /\ \A j \in 1..Len(w) : j > i => w[j].status # "running"
    BY <1>3
  <2>2. i + 1 \in 1..Len(l) /\ l[i + 1].status = "ended"
    BY <1>1, <2>1
  <2>3. ASSUME NEW j \in 1..Len(l), j > i + 1
        PROVE  l[j].status # "running"
    <3>1. j > 1 /\ j - 1 > i
      BY <1>1, <2>3
    <3>2. j - 1 \in 1..Len(w) /\ l[j] = w[j - 1]
      BY <1>2, <3>1
    <3> QED BY <2>1, <3>1, <3>2
  <2> QED BY <2>2, <2>3 DEF SaysEnded, l
<1>4. CASE \A j \in 1..Len(w) : w[j].status # "running"
  <2>1. 1 \in 1..Len(l) /\ l[1].status = "ended"
    BY <1>1
  <2>2. \A j \in 1..Len(l) : j > 1 => l[j].status # "running"
    BY <1>2, <1>4
  <2> QED BY <2>1, <2>2 DEF SaysEnded, l
<1> QED BY <1>3, <1>4 DEF SaysEnded

-----------------------------------------------------------------------------
(* The run                                                                  *)

\* The publishers are different, and there is room for a frame.
LEMMA Assumed ==
    /\ Exec \notin Hosts /\ Trigger \notin Hosts /\ Trigger # Exec
    /\ Stages \in Nat \ {0} /\ QueueSize \in Nat \ {0} /\ MaxFaults \in Nat
    /\ \A p : p \in Publishers <=> p \in Hosts \/ p = Exec \/ p = Trigger
BY RunStreamAssumption DEF RunStreamAssumption, Publishers

\* The invariant gives every variable its type.
LEMMA TypesFollow == IInv => TypeOK
<1> SUFFICES ASSUME IInv PROVE TypeOK
  OBVIOUS
<1> USE DEF IInv, RowsFit, ConnsFit
<1>1. ASSUME NEW c \in Conns
      PROVE  /\ Len(chan[c]) <= QueueSize /\ Len(queue[c]) <= QueueSize
             /\ \A i \in DOMAIN chan[c] : chan[c][i] \in Frames
             /\ \A i \in DOMAIN queue[c] : queue[c][i] \in Frames
  <2>1. chan[c] \in Seq(Fits) /\ queue[c] \in Seq(Fits)
    BY DEF ConnsTyped
  <2>2. /\ \A i \in DOMAIN chan[c] : chan[c][i] \in Fits
        /\ \A i \in DOMAIN queue[c] : queue[c][i] \in Fits
    BY <2>1, LenProperties, ElementOfSeq
  <2> QED BY <2>2 DEF ConnFits, Fits
<1> QED BY <1>1 DEF TypeOK, RowsTyped, ConnsTyped, Views

\* A step of a publisher that sends nothing keeps what has been sent.
LEMMA ConnsStay ==
    ASSUME IInv, UNCHANGED <<subs, chan, connVars, dropped, late>>, faults' = 0 => faults = 0,
           \A p \in Publishers : to'[p] \subseteq to[p] \cup subs,
           \A c \in subs, h \in Hosts, k \in 1..Stages : Sent(h, k, c)' => Sent(h, k, c),
           \A c \in subs : EndSent(c)' => EndSent(c)
    PROVE  ConnsFit' /\ Arrives'
<1>1. /\ subs' = subs /\ chan' = chan /\ handler' = handler /\ forwarder' = forwarder
      /\ queue' = queue /\ screen' = screen /\ dropped' = dropped /\ late' = late
  BY DEF connVars
<1>2. ConnsTyped'
  BY <1>1 DEF IInv, ConnsFit, ConnsTyped
<1>3. ASSUME NEW c \in Conns
      PROVE  ConnFits(c)' /\ StepsArrive(c)' /\ EndArrives(c)'
  <2>1. ConnFits(c) /\ StepsArrive(c) /\ EndArrives(c)
    BY DEF IInv, ConnsFit, Arrives
  <2>2. ConnFits(c)'
    BY <1>1, <2>1 DEF ConnFits
  <2>3. OnItsWay(c)' = OnItsWay(c) /\ Shown(c)' = Shown(c)
    BY <1>1 DEF OnItsWay, Shown
  <2>4. handler[c] \in {"subscribed", "open"} => c \in subs
    BY <2>1 DEF ConnFits
  <2>5. StepsArrive(c)'
    BY <1>1, <2>1, <2>3, <2>4 DEF StepsArrive
  <2>6. EndArrives(c)'
    BY <1>1, <2>1, <2>3, <2>4 DEF EndArrives
  <2> QED BY <2>2, <2>5, <2>6
<1> QED BY <1>2, <1>3 DEF ConnsFit, Arrives

\* What PubStep says.
LEMMA PubStepIs ==
    ASSUME IInv, NEW p \in Publishers,
           NEW from \in {"idle", "writing", "publishing", "sending"},
           NEW next \in {"idle", "writing", "publishing", "sending", "over"}, PubStep(p, from, next)
    PROVE  /\ pc' \in [Publishers -> {"idle", "writing", "publishing", "sending", "over"}]
           /\ pc[p] = from /\ pc'[p] = next /\ \A q \in Publishers \ {p} : pc'[q] = pc[q]
           /\ UNCHANGED <<subs, chan, connVars, dropped>> /\ alive' = alive
BY DEF PubStep, IInv, RowsFit, RowsTyped

\* Steps of a host that publish nothing yet.
LEMMA SnapshotSteps ==
    ASSUME IInv, NEW h \in Hosts, ReadSnapshot(h) \/ WriteSnapshot(h) \/ SnapshotFails(h)
    PROVE  IInv'
<1>1. h \in Publishers /\ Exec \in Publishers /\ Hosts \subseteq Publishers /\ h # Exec /\ h # Trigger
      /\ Trigger \in Publishers
  BY Assumed
<1>2. /\ pc' \in [Publishers -> {"idle", "writing", "publishing", "sending", "over"}]
      /\ \A q \in Publishers \ {h} : pc'[q] = pc[q]
      /\ UNCHANGED <<subs, chan, connVars, dropped>> /\ alive' = alive
      /\ ReadSnapshot(h) => pc[h] = "idle" /\ pc'[h] = "writing"
      /\ WriteSnapshot(h) \/ SnapshotFails(h) => pc[h] = "writing" /\ pc'[h] = "publishing"
  BY <1>1, PubStepIs DEF ReadSnapshot, WriteSnapshot, SnapshotFails
<1>3. /\ status' = status /\ done' = done /\ frame' = frame /\ to' = to /\ late' = late
      /\ ReadSnapshot(h) => /\ done[h] < Stages /\ writer = {} /\ writer' = writer \cup {h}
                            /\ buffer' = [buffer EXCEPT ![h] = steps]
                            /\ steps' = steps /\ faults' = faults
      /\ WriteSnapshot(h) => /\ steps' = buffer[h] \cup {<<h, done[h] + 1>>} /\ writer' = writer \ {h}
                             /\ buffer' = buffer /\ faults' = faults
      /\ SnapshotFails(h) => /\ faults < MaxFaults /\ faults' = faults + 1 /\ writer' = writer \ {h}
                             /\ buffer' = buffer /\ steps' = steps
  BY DEF ReadSnapshot, WriteSnapshot, SnapshotFails, MayLock, Appended, Unlocked, rowVars
<1>4. RowsTyped /\ Locked /\ FramesFit /\ Recorded
  BY DEF IInv, RowsFit
<1>5. /\ steps \subseteq AllSteps /\ status \in {"running", "ended"} /\ writer \subseteq Hosts
      /\ done \in [Hosts -> 0..Stages] /\ buffer \in [Hosts -> SUBSET AllSteps]
      /\ frame \in [Publishers -> Frames \cup {NoFrame}] /\ to \in [Publishers -> SUBSET Conns]
      /\ late \in BOOLEAN /\ faults \in 0..MaxFaults /\ alive \in BOOLEAN
      /\ Stages \in Nat /\ MaxFaults \in Nat
  BY <1>4, Assumed DEF RowsTyped
<1>6. WriteSnapshot(h) => steps' = steps \cup {<<h, done[h] + 1>>} /\ <<h, done[h] + 1>> \in AllSteps
  BY <1>2, <1>3, <1>4, <1>5 DEF Locked, AllSteps
<1>7. faults' \in 0..MaxFaults /\ (SnapshotFails(h) => faults' # 0) /\ steps \subseteq steps'
  BY <1>3, <1>5, <1>6
<1>8. RowsTyped'
  <2>1. steps' \subseteq AllSteps
    BY <1>3, <1>5, <1>6
  <2>2. buffer' \in [Hosts -> SUBSET AllSteps] /\ writer' \subseteq Hosts
    BY <1>3, <1>5
  <2> QED BY <1>2, <1>3, <1>5, <1>7, <2>1, <2>2 DEF RowsTyped
<1>9. Locked'
  <2> SUFFICES ASSUME NEW g \in Hosts
               PROVE  /\ pc'[g] \in {"idle", "writing", "publishing", "sending"}
                      /\ pc'[g] # "idle" => done'[g] < Stages
                      /\ pc'[g] = "writing" => writer' = {g} /\ buffer'[g] = steps'
    BY DEF Locked
  <2>1. /\ pc[g] \in {"idle", "writing", "publishing", "sending"}
        /\ pc[g] # "idle" => done[g] < Stages
        /\ pc[g] = "writing" => writer = {g} /\ buffer[g] = steps
        /\ pc[h] # "idle" => done[h] < Stages
        /\ pc[h] = "writing" => writer = {h}
    BY <1>4 DEF Locked
  <2>2. CASE g = h
    BY <1>2, <1>3, <1>5, <2>1, <2>2
  <2>3. CASE g # h
    <3>1. pc'[g] = pc[g]
      BY <1>1, <1>2, <2>3
    <3>2. pc[g] # "writing"
      BY <1>2, <1>3, <2>1, <2>3
    <3> QED BY <1>3, <2>1, <3>1, <3>2
  <2> QED BY <2>2, <2>3
<1>10. FramesFit'
  BY <1>1, <1>2, <1>3, <1>4 DEF FramesFit
<1>11. Recorded'
  <2> SUFFICES ASSUME faults' = 0
               PROVE  /\ \A g \in Hosts, k \in 1..Stages :
                            k <= done'[g] \/ (k = done'[g] + 1 /\ pc'[g] \in {"publishing", "sending"})
                            => <<g, k>> \in steps'
                      /\ pc'[Exec] # "idle" => status' = "ended"
    BY DEF Recorded
  <2>1. faults = 0 /\ ~SnapshotFails(h)
    BY <1>3, <1>5, <1>7
  <2>2. pc'[Exec] # "idle" => status' = "ended"
    BY <1>1, <1>2, <1>3, <1>4, <2>1 DEF Recorded
  <2>3. ASSUME NEW g \in Hosts, NEW k \in 1..Stages,
               k <= done'[g] \/ (k = done'[g] + 1 /\ pc'[g] \in {"publishing", "sending"})
        PROVE  <<g, k>> \in steps'
    <3>1. CASE k <= done[g] \/ (k = done[g] + 1 /\ pc[g] \in {"publishing", "sending"})
      BY <1>4, <1>7, <2>1, <3>1 DEF Recorded
    <3>2. CASE g = h /\ k = done[g] + 1 /\ WriteSnapshot(h)
      BY <1>6, <3>2
    <3> QED BY <1>1, <1>2, <1>3, <2>1, <2>3, <3>1, <3>2
  <2> QED BY <2>2, <2>3
<1>12. ConnsFit' /\ Arrives'
  <2>1. \A c \in subs, g \in Hosts, k \in 1..Stages : Sent(g, k, c)' => Sent(g, k, c)
    BY <1>1, <1>2, <1>3 DEF Sent
  <2>2. \A c \in subs : EndSent(c)' => EndSent(c)
    BY <1>1, <1>2, <1>3 DEF EndSent
  <2>3. faults' = 0 => faults = 0
    BY <1>3, <1>5
  <2> QED BY <1>2, <1>3, <2>1, <2>2, <2>3, ConnsStay
<1> QED BY <1>8, <1>9, <1>10, <1>11, <1>12 DEF IInv, RowsFit

\* The frames that publishers send.
LEMMA FramesAre ==
    /\ \A s \in AllSteps : StepFrame(s) \in Fits /\ StepFrame(s).steps = {s}
                           /\ StepFrame(s).kind = "step" /\ StepFrame(s).status = "none"
    /\ \A st \in {"running", "ended"} : StatusFrame(st) \in Fits /\ StatusFrame(st).kind = "status"
                                        /\ StatusFrame(st).status = st
    /\ \A f \in Fits : f \in Frames
BY DEF StepFrame, StatusFrame, Fits, Frames

\* The rows and locks when the row of the run is left alone and a publisher goes on.
LEMMA RowsStay ==
    ASSUME IInv, UNCHANGED <<rowVars, writer, done, buffer, late, faults, alive>>,
           NEW p \in Publishers, NEW next \in {"sending", "over"},
           pc' \in [Publishers -> {"idle", "writing", "publishing", "sending", "over"}],
           pc'[p] = next, \A q \in Publishers \ {p} : pc'[q] = pc[q] /\ frame'[q] = frame[q],
           frame' \in [Publishers -> Frames \cup {NoFrame}],
           to' \in [Publishers -> SUBSET Conns],
           p \in Hosts => next = "sending" /\ pc[p] = "publishing"
                          /\ frame'[p] = StepFrame(<<p, done[p] + 1>>),
           p = Exec => pc[p] # "idle" /\ (next = "sending" => frame'[p] = StatusFrame("ended")),
           p = Trigger /\ next = "sending" => frame'[p] = StatusFrame("running")
    PROVE  RowsFit'
<1>1. /\ steps' = steps /\ status' = status /\ writer' = writer /\ done' = done
      /\ buffer' = buffer /\ late' = late /\ faults' = faults /\ alive' = alive
  BY DEF rowVars
<1>2. RowsTyped /\ Locked /\ FramesFit /\ Recorded
  BY DEF IInv, RowsFit
<1>3. Exec \in Publishers /\ Trigger \in Publishers /\ Hosts \subseteq Publishers
      /\ Exec \notin Hosts /\ Trigger \notin Hosts /\ Trigger # Exec
      /\ (p \in Hosts \/ p = Exec \/ p = Trigger)
  BY Assumed
<1>4. RowsTyped'
  BY <1>1, <1>2 DEF RowsTyped
<1>5. \A h \in Hosts : /\ h # p => pc'[h] = pc[h] /\ frame'[h] = frame[h]
                       /\ h = p => pc[h] = "publishing" /\ pc'[h] = "sending"
  BY <1>3
<1>6. Locked'
  BY <1>1, <1>2, <1>5 DEF Locked
<1>7. FramesFit'
  BY <1>1, <1>2, <1>3, <1>5 DEF FramesFit
<1>8. Recorded'
  <2>1. pc'[Exec] # "idle" => pc[Exec] # "idle"
    BY <1>3
  <2>2. \A h \in Hosts : pc'[h] \in {"publishing", "sending"} => pc[h] \in {"publishing", "sending"}
    BY <1>5
  <2> QED BY <1>1, <1>2, <2>1, <2>2 DEF Recorded
<1> QED BY <1>4, <1>6, <1>7, <1>8 DEF RowsFit

\* What is published goes to whoever has subscribed.
LEMMA PublishSteps ==
    ASSUME IInv, (\E h \in Hosts : PublishStep(h)) \/ PublishFinal \/ PublishRunning
    PROVE  IInv'
<1>1. /\ Exec \in Publishers /\ Trigger \in Publishers /\ Hosts \subseteq Publishers
      /\ Exec \notin Hosts /\ Trigger \notin Hosts /\ Trigger # Exec
  BY Assumed
<1>2. PICK p \in Publishers :
        /\ (p \in Hosts /\ PublishStep(p)) \/ (p = Exec /\ PublishFinal)
              \/ (p = Trigger /\ PublishRunning)
  BY <1>1
<1>3. UNCHANGED <<rowVars, writer, done, buffer, late, faults>>
  BY <1>2 DEF PublishStep, PublishFinal, PublishRunning
<1>4. /\ RowsTyped /\ Locked /\ FramesFit /\ Recorded /\ ConnsTyped
  BY DEF IInv, RowsFit, ConnsFit
<1>5. p \in Hosts => pc[p] = "publishing" /\ <<p, done[p] + 1>> \in AllSteps
  <2>1. ASSUME p \in Hosts PROVE pc[p] = "publishing"
    BY <1>1, <1>2, <2>1 DEF PublishStep, PubStep
  <2>2. ASSUME p \in Hosts PROVE done[p] \in 0..Stages /\ done[p] < Stages /\ Stages \in Nat
    BY <1>4, <2>1, <2>2, Assumed DEF Locked, RowsTyped
  <2> QED BY <2>1, <2>2 DEF AllSteps
<1>6. PICK f \in Fits : /\ Publish(p, f)
                        /\ p \in Hosts => f = StepFrame(<<p, done[p] + 1>>)
                        /\ p = Exec => f = StatusFrame("ended")
                        /\ p = Trigger => f = StatusFrame("running")
  <2>1. CASE p \in Hosts
    BY <1>1, <1>2, <1>5, <2>1, FramesAre DEF PublishStep
  <2>2. CASE p = Exec
    BY <1>1, <1>2, <2>2, FramesAre DEF PublishFinal
  <2>3. CASE p = Trigger
    BY <1>1, <1>2, <2>3, FramesAre DEF PublishRunning
  <2> QED BY <1>2, <2>1, <2>2, <2>3
<1>7. /\ frame' = [frame EXCEPT ![p] = f] /\ to' = [to EXCEPT ![p] = subs]
      /\ frame' \in [Publishers -> Frames \cup {NoFrame}] /\ to' \in [Publishers -> SUBSET Conns]
      /\ frame'[p] = f /\ \A q \in Publishers \ {p} : frame'[q] = frame[q] /\ to'[q] = to[q]
      /\ to'[p] = subs
  <2>1. f \in Frames
    BY FramesAre
  <2> QED BY <1>4, <1>6, <2>1 DEF Publish, RowsTyped, ConnsTyped
<1>8. /\ pc' \in [Publishers -> {"idle", "writing", "publishing", "sending", "over"}]
      /\ pc'[p] = "sending" /\ \A q \in Publishers \ {p} : pc'[q] = pc[q]
      /\ UNCHANGED <<subs, chan, connVars, dropped>> /\ alive' = alive
      /\ p = Exec => pc[p] = "publishing"
  <2>1. CASE p \in Hosts
    BY <1>1, <1>2, <2>1, PubStepIs DEF PublishStep
  <2>2. CASE p = Exec
    BY <1>1, <1>2, <2>2, PubStepIs DEF PublishFinal
  <2>3. CASE p = Trigger
    BY <1>1, <1>2, <2>3, PubStepIs DEF PublishRunning
  <2> QED BY <1>2, <2>1, <2>2, <2>3
<1>9. RowsFit'
  BY <1>1, <1>3, <1>5, <1>6, <1>7, <1>8, RowsStay
<1>10. ConnsFit' /\ Arrives'
  <2>1. \A q \in Publishers : to'[q] \subseteq to[q] \cup subs
    BY <1>7
  <2>2. \A c \in subs, g \in Hosts, k \in 1..Stages : Sent(g, k, c)' => Sent(g, k, c)
    <3> SUFFICES ASSUME NEW c \in subs, NEW g \in Hosts, NEW k \in 1..Stages, Sent(g, k, c)'
                 PROVE  Sent(g, k, c)
      OBVIOUS
    <3>1. CASE g = p
      BY <1>3, <1>7, <3>1 DEF Sent
    <3>2. CASE g # p
      <4>1. pc'[g] = pc[g] /\ to'[g] = to[g]
        BY <1>1, <1>7, <1>8, <3>2
      <4> QED BY <1>3, <4>1 DEF Sent
    <3> QED BY <3>1, <3>2
  <2>3. \A c \in subs : EndSent(c)' => EndSent(c)
    <3>1. CASE p = Exec
      BY <1>7, <1>8, <3>1 DEF EndSent
    <3>2. CASE p # Exec
      BY <1>1, <1>7, <1>8, <3>2 DEF EndSent
    <3> QED BY <3>1, <3>2
  <2> QED BY <1>3, <1>8, <2>1, <2>2, <2>3, ConnsStay
<1> QED BY <1>9, <1>10 DEF IInv

\* The end of the run takes no step out of the row, as no host is about to write it.
LEMMA FinishSteps ==
    ASSUME IInv, FinishRun \/ FinishRunFails
    PROVE  IInv'
<1>1. /\ Exec \in Publishers /\ Trigger \in Publishers /\ Hosts \subseteq Publishers
      /\ Exec \notin Hosts /\ Trigger \notin Hosts /\ Trigger # Exec /\ MaxFaults \in Nat
  BY Assumed
<1>2. /\ RowsTyped /\ Locked /\ FramesFit /\ Recorded
  BY DEF IInv, RowsFit
<1>3. /\ UNCHANGED <<writer, done, buffer, frame, to, late>>
      /\ FinishRun => steps' = AllSteps /\ status' = "ended" /\ faults' = faults
      /\ FinishRunFails => faults < MaxFaults /\ faults' = faults + 1 /\ UNCHANGED <<steps, status>>
      /\ \A h \in Hosts : done[h] = Stages
  BY DEF FinishRun, FinishRunFails, rowVars
<1>4. /\ pc' \in [Publishers -> {"idle", "writing", "publishing", "sending", "over"}]
      /\ pc[Exec] = "idle" /\ pc'[Exec] = "publishing"
      /\ \A q \in Publishers \ {Exec} : pc'[q] = pc[q]
      /\ UNCHANGED <<subs, chan, connVars, dropped>> /\ alive' = alive
  BY <1>1, PubStepIs DEF FinishRun, FinishRunFails
<1>5. \A h \in Hosts : pc'[h] = "idle"
  <2>1. \A h \in Hosts : pc'[h] = pc[h]
    BY <1>1, <1>4
  <2>2. \A h \in Hosts : ~(Stages < Stages)
    BY Assumed
  <2> QED BY <1>2, <1>3, <2>1, <2>2 DEF Locked
<1>6. RowsTyped'
  <2>1. faults' \in 0..MaxFaults
    BY <1>1, <1>2, <1>3 DEF RowsTyped
  <2>2. steps' \subseteq AllSteps /\ status' \in {"running", "ended"}
    BY <1>2, <1>3 DEF RowsTyped
  <2> QED BY <1>2, <1>3, <1>4, <2>1, <2>2 DEF RowsTyped
<1>7. Locked'
  BY <1>5 DEF Locked
<1>8. FramesFit'
  BY <1>1, <1>2, <1>3, <1>4, <1>5 DEF FramesFit
<1>9. faults' = 0 => faults = 0 /\ FinishRun
  BY <1>2, <1>3 DEF RowsTyped
<1>10. Recorded'
  BY <1>3, <1>9 DEF Recorded, AllSteps
<1>11. ConnsFit' /\ Arrives'
  <2>1. \A c \in subs, g \in Hosts, k \in 1..Stages : Sent(g, k, c)' => Sent(g, k, c)
    BY <1>3, <1>5 DEF Sent
  <2>2. \A c \in subs : EndSent(c)' => EndSent(c)
    BY <1>4 DEF EndSent
  <2> QED BY <1>3, <1>4, <1>9, <2>1, <2>2, ConnsStay
<1> QED BY <1>6, <1>7, <1>8, <1>10, <1>11 DEF IInv, RowsFit

\* A publisher is done when its frame has gone to every connection it was to go to.
LEMMA EndSteps ==
    ASSUME IInv, NEW p \in Publishers, EndPublish(p)
    PROVE  IInv'
<1>1. /\ Exec \in Publishers /\ Trigger \in Publishers /\ Hosts \subseteq Publishers
      /\ Exec \notin Hosts /\ Trigger \notin Hosts /\ Trigger # Exec /\ Stages \in Nat
      /\ (p \in Hosts \/ p = Exec \/ p = Trigger)
  BY Assumed
<1>2. /\ RowsTyped /\ Locked /\ FramesFit /\ Recorded
  BY DEF IInv, RowsFit
<1>3. /\ UNCHANGED <<rowVars, writer, buffer, to, late, faults>> /\ to[p] = {}
      /\ done' = [h \in Hosts |-> IF h = p THEN done[h] + 1 ELSE done[h]]
      /\ frame' = [frame EXCEPT ![p] = NoFrame]
  BY DEF EndPublish
<1>4. /\ pc' \in [Publishers -> {"idle", "writing", "publishing", "sending", "over"}]
      /\ pc[p] = "sending" /\ \A q \in Publishers \ {p} : pc'[q] = pc[q]
      /\ p \in Hosts => pc'[p] = "idle"
      /\ p \notin Hosts => pc'[p] = "over"
      /\ UNCHANGED <<subs, chan, connVars, dropped>> /\ alive' = alive
  BY PubStepIs DEF EndPublish
<1>5. /\ frame' \in [Publishers -> Frames \cup {NoFrame}]
      /\ \A q \in Publishers \ {p} : frame'[q] = frame[q]
  BY <1>2, <1>3 DEF RowsTyped
<1>6. /\ steps' = steps /\ status' = status /\ writer' = writer /\ buffer' = buffer /\ to' = to
      /\ late' = late /\ faults' = faults
  BY <1>3 DEF rowVars
<1>7. ASSUME NEW h \in Hosts
      PROVE  /\ done[h] \in 0..Stages /\ done'[h] \in 0..Stages
             /\ h = p => done'[h] = done[h] + 1
             /\ h # p => done'[h] = done[h] /\ pc'[h] = pc[h] /\ frame'[h] = frame[h]
  <2>1. done[h] \in 0..Stages /\ (pc[h] # "idle" => done[h] < Stages)
    BY <1>2 DEF RowsTyped, Locked
  <2> QED BY <1>1, <1>3, <1>4, <1>5, <2>1
<1>8. RowsTyped'
  <2>1. done' \in [Hosts -> 0..Stages]
    BY <1>3, <1>7
  <2> QED BY <1>2, <1>4, <1>5, <1>6, <2>1 DEF RowsTyped
<1>9. Locked'
  BY <1>2, <1>4, <1>6, <1>7 DEF Locked
<1>10. FramesFit'
  <2>1. \A h \in Hosts : pc'[h] = "sending" => frame'[h] = StepFrame(<<h, done'[h] + 1>>)
    BY <1>2, <1>4, <1>7 DEF FramesFit
  <2>2. /\ pc'[Exec] \in {"idle", "publishing", "sending", "over"}
        /\ pc'[Trigger] \in {"idle", "sending", "over"}
        /\ pc'[Exec] = "sending" => frame'[Exec] = StatusFrame("ended")
        /\ pc'[Trigger] = "sending" => frame'[Trigger] = StatusFrame("running")
    BY <1>1, <1>2, <1>4, <1>5 DEF FramesFit
  <2> QED BY <2>1, <2>2 DEF FramesFit
<1>11. \A h \in Hosts, k \in 1..Stages :
          k <= done'[h] => k <= done[h] \/ (k = done[h] + 1 /\ h = p)
  <2> SUFFICES ASSUME NEW h \in Hosts, NEW k \in 1..Stages, k <= done'[h]
               PROVE  k <= done[h] \/ (k = done[h] + 1 /\ h = p)
    OBVIOUS
  <2> QED BY <1>7
<1>12. Recorded'
  <2> SUFFICES ASSUME faults = 0
               PROVE  /\ \A h \in Hosts, k \in 1..Stages :
                            k <= done'[h] \/ (k = done'[h] + 1 /\ pc'[h] \in {"publishing", "sending"})
                            => <<h, k>> \in steps
                      /\ pc'[Exec] # "idle" => status = "ended"
    BY <1>6 DEF Recorded
  <2>1. pc'[Exec] # "idle" => pc[Exec] # "idle"
    BY <1>1, <1>4
  <2>2. ASSUME NEW h \in Hosts, NEW k \in 1..Stages,
               k <= done'[h] \/ (k = done'[h] + 1 /\ pc'[h] \in {"publishing", "sending"})
        PROVE  k <= done[h] \/ (k = done[h] + 1 /\ pc[h] \in {"publishing", "sending"})
    <3>1. CASE h = p
      BY <1>4, <1>11, <2>2, <3>1
    <3>2. CASE h # p
      BY <1>7, <2>2, <3>2
    <3> QED BY <3>1, <3>2
  <2> QED BY <1>2, <2>1, <2>2 DEF Recorded
<1>13. ConnsFit' /\ Arrives'
  <2>1. \A c \in subs, g \in Hosts, k \in 1..Stages : Sent(g, k, c)' => Sent(g, k, c)
    <3> SUFFICES ASSUME NEW c \in subs, NEW g \in Hosts, NEW k \in 1..Stages, Sent(g, k, c)'
                 PROVE  Sent(g, k, c)
      OBVIOUS
    <3>1. CASE g = p
      BY <1>3, <1>4, <1>11, <3>1 DEF Sent
    <3>2. CASE g # p
      BY <1>6, <1>7, <3>2 DEF Sent
    <3> QED BY <3>1, <3>2
  <2>2. \A c \in subs : EndSent(c)' => EndSent(c)
    <3>1. CASE p = Exec
      BY <1>3, <1>4, <3>1 DEF EndSent
    <3>2. CASE p # Exec
      BY <1>1, <1>4, <1>6, <3>2 DEF EndSent
    <3> QED BY <3>1, <3>2
  <2> QED BY <1>4, <1>6, <2>1, <2>2, ConnsStay
<1> QED BY <1>8, <1>9, <1>10, <1>12, <1>13 DEF IInv, RowsFit

\* A panic loses only what Trigger had to say, or ends everything.
LEMMA PanicSteps ==
    ASSUME IInv, NEW p \in Publishers, NEW c \in Conns, Panic(p, c)
    PROVE  IInv'
<1>1. /\ UNCHANGED <<rowVars, writer, pc, done, buffer, frame, subs, chan, connVars, history, faults>>
      /\ p = Trigger => to' = [to EXCEPT ![p] = {}] /\ alive' = alive
      /\ p # Trigger => to' = to /\ alive' = FALSE
  BY DEF Panic
<1>2. /\ steps' = steps /\ status' = status /\ writer' = writer /\ pc' = pc /\ done' = done
      /\ buffer' = buffer /\ frame' = frame /\ faults' = faults /\ dropped' = dropped /\ late' = late
  BY <1>1 DEF rowVars, history
<1>3. /\ RowsTyped /\ Locked /\ FramesFit /\ Recorded
  BY DEF IInv, RowsFit
<1>4. /\ to' \in [Publishers -> SUBSET Conns] /\ \A q \in Publishers : to'[q] \subseteq to[q]
      /\ \A q \in Publishers \ {Trigger} : to'[q] = to[q]
  BY <1>1, <1>3 DEF RowsTyped
<1>5. RowsTyped'
  BY <1>1, <1>2, <1>3, <1>4 DEF RowsTyped
<1>6. Locked' /\ FramesFit' /\ Recorded'
  BY <1>2, <1>3 DEF Locked, FramesFit, Recorded
<1>7. ConnsFit' /\ Arrives'
  <2>1. \A h \in Hosts : to'[h] = to[h]
    BY <1>4, Assumed
  <2>2. to'[Exec] = to[Exec]
    BY <1>4, Assumed
  <2>3. \A d \in subs, g \in Hosts, k \in 1..Stages : Sent(g, k, d)' => Sent(g, k, d)
    BY <1>2, <2>1 DEF Sent
  <2>4. \A d \in subs : EndSent(d)' => EndSent(d)
    BY <1>2, <2>2 DEF EndSent
  <2>5. \A q \in Publishers : to'[q] \subseteq to[q] \cup subs
    BY <1>4
  <2> QED BY <1>1, <1>2, <2>3, <2>4, <2>5, ConnsStay DEF history
<1> QED BY <1>5, <1>6, <1>7 DEF IInv, RowsFit

-----------------------------------------------------------------------------
(* The connections                                                          *)

\* The queue after a push, and what is on its way after a frame that was not dropped.
LEMMA PushIs ==
    ASSUME NEW q \in Seq(Fits), Len(q) <= QueueSize, NEW f \in Fits, NEW c \in Conns
    PROVE  /\ Push(q, f) \in Seq(Fits) /\ Len(Push(q, f)) <= QueueSize
           /\ DropsFrom(q, c) \in {dropped, dropped \cup {c}}
           /\ c \notin DropsFrom(q, c) => Push(q, f) = Append(q, f)
           /\ \A i \in 1..Len(Push(q, f)) :
                 \/ i \in 1..Len(q) /\ Push(q, f)[i] = q[i]
                 \/ i = Len(q) + 1 /\ Push(q, f)[i] = f
<1>1. /\ Append(q, f) \in Seq(Fits) /\ Len(Append(q, f)) = Len(q) + 1
      /\ \A i \in 1..Len(q) : Append(q, f)[i] = q[i]
      /\ Append(q, f)[Len(q) + 1] = f /\ Len(q) \in Nat /\ QueueSize \in Nat
  BY AppendProperties, LenProperties, Assumed
<1>2. CASE Len(q) < QueueSize
  <2>1. Push(q, f) = Append(q, f) /\ DropsFrom(q, c) = dropped
    BY <1>2 DEF Push, DropsFrom
  <2>2. \A i \in 1..Len(q) + 1 : i \in 1..Len(q) \/ i = Len(q) + 1
    BY <1>1
  <2> QED BY <1>1, <1>2, <2>1, <2>2
<1>3. CASE ~(Len(q) < QueueSize)
  <2>1. Push(q, f) = q /\ DropsFrom(q, c) = dropped \cup {c}
    BY <1>3 DEF Push, DropsFrom
  <2> QED BY <2>1
<1> QED BY <1>2, <1>3

\* A step of one connection leaves the others and the run alone.
LEMMA ConnMoves ==
    ASSUME IInv, NEW c \in Conns, UNCHANGED <<rowVars, pubVars, late, alive>>,
           faults' \in 0..MaxFaults, faults' = 0 => faults = 0,
           ConnsTyped', dropped' \in {dropped, dropped \cup {c}},
           \A d \in Conns \ {c} :
              /\ (d \in subs' <=> d \in subs) /\ handler'[d] = handler[d]
              /\ forwarder'[d] = forwarder[d] /\ chan'[d] = chan[d]
              /\ queue'[d] = queue[d] /\ screen'[d] = screen[d],
           ConnFits(c)', StepsArrive(c)', EndArrives(c)'
    PROVE  IInv'
<1>1. /\ steps' = steps /\ status' = status /\ writer' = writer /\ pc' = pc /\ done' = done
      /\ buffer' = buffer /\ frame' = frame /\ to' = to /\ late' = late /\ alive' = alive
  BY DEF rowVars, pubVars
<1>2. RowsFit'
  BY <1>1 DEF IInv, RowsFit, RowsTyped, Locked, FramesFit, Recorded
<1>3. ASSUME NEW d \in Conns \ {c}
      PROVE  ConnFits(d)' /\ StepsArrive(d)' /\ EndArrives(d)'
  <2>1. ConnFits(d) /\ StepsArrive(d) /\ EndArrives(d)
    BY DEF IInv, ConnsFit, Arrives
  <2>2. /\ (d \in subs' <=> d \in subs) /\ handler'[d] = handler[d]
        /\ forwarder'[d] = forwarder[d] /\ chan'[d] = chan[d]
        /\ queue'[d] = queue[d] /\ screen'[d] = screen[d]
        /\ (d \in dropped' <=> d \in dropped)
    OBVIOUS
  <2>3. ConnFits(d)'
    BY <1>1, <2>1, <2>2 DEF ConnFits
  <2>4. OnItsWay(d)' = OnItsWay(d) /\ Shown(d)' = Shown(d)
    BY <2>2 DEF OnItsWay, Shown
  <2>5. \A h \in Hosts, k \in 1..Stages : Sent(h, k, d)' <=> Sent(h, k, d)
    BY <1>1 DEF Sent
  <2>6. StepsArrive(d)'
    BY <2>1, <2>2, <2>4, <2>5 DEF StepsArrive
  <2>7. EndSent(d)' <=> EndSent(d)
    BY <1>1 DEF EndSent
  <2>8. EndArrives(d)'
    BY <1>1, <2>1, <2>2, <2>4, <2>7 DEF EndArrives
  <2> QED BY <2>3, <2>6, <2>8
<1>4. ConnsFit' /\ Arrives'
  BY <1>3 DEF ConnsFit, Arrives
<1> QED BY <1>2, <1>4 DEF IInv

\* What the invariant says of one connection.
LEMMA ConnIs ==
    ASSUME IInv, NEW c \in Conns
    PROVE  /\ ConnFits(c) /\ StepsArrive(c) /\ EndArrives(c)
           /\ chan[c] \in Seq(Fits) /\ queue[c] \in Seq(Fits) /\ OnItsWay(c) \in Seq(Fits)
           /\ screen[c] \in Views /\ faults \in 0..MaxFaults /\ MaxFaults \in Nat
           /\ handler[c] \in {"none", "subscribed", "open", "closed", "removed", "gone"}
           /\ queue[c] = <<>> => OnItsWay(c) = chan[c]
<1>1. /\ ConnFits(c) /\ StepsArrive(c) /\ EndArrives(c)
      /\ chan[c] \in Seq(Fits) /\ queue[c] \in Seq(Fits)
      /\ screen[c] \in Views /\ faults \in 0..MaxFaults
      /\ handler[c] \in {"none", "subscribed", "open", "closed", "removed", "gone"}
  BY DEF IInv, RowsFit, RowsTyped, ConnsFit, ConnsTyped, Arrives
<1>2. OnItsWay(c) \in Seq(Fits)
  BY <1>1, ConcatProperties DEF OnItsWay
<1>3. queue[c] = <<>> => OnItsWay(c) = chan[c]
  BY <1>1, ConcatEmptySeq DEF OnItsWay
<1> QED BY <1>1, <1>2, <1>3, Assumed

\* A handler goes to its next state.
LEMMA ConnStepIs ==
    ASSUME IInv, NEW c \in Conns,
           NEW from \in {"none", "subscribed", "open", "closed", "removed"},
           NEW next \in {"subscribed", "open", "closed", "removed", "gone"}, ConnStep(c, from, next)
    PROVE  /\ handler' \in [Conns -> {"none", "subscribed", "open", "closed", "removed", "gone"}]
           /\ handler[c] = from /\ handler'[c] = next
           /\ \A d \in Conns \ {c} : handler'[d] = handler[d]
           /\ UNCHANGED <<rowVars, pubVars, late, alive>>
BY DEF ConnStep, IInv, ConnsFit, ConnsTyped

\* The browser subscribes: nothing has been sent to it.
LEMMA Subscribing ==
    ASSUME IInv, NEW c \in Conns, Subscribe(c)
    PROVE  IInv'
<1>1. /\ handler' \in [Conns -> {"none", "subscribed", "open", "closed", "removed", "gone"}]
      /\ handler[c] = "none" /\ handler'[c] = "subscribed"
      /\ \A d \in Conns \ {c} : handler'[d] = handler[d]
      /\ UNCHANGED <<rowVars, pubVars, late, alive>>
  BY ConnStepIs DEF Subscribe
<1>2. /\ subs' = subs \cup {c} /\ chan' = chan /\ forwarder' = forwarder /\ queue' = queue
      /\ screen' = screen /\ dropped' = dropped /\ faults' = faults
  BY DEF Subscribe
<1>3. /\ ConnFits(c) /\ faults \in 0..MaxFaults
  BY ConnIs
<1>4. ConnsTyped'
  BY <1>1, <1>2 DEF IInv, ConnsFit, ConnsTyped
<1>5. ConnFits(c)'
  BY <1>1, <1>2, <1>3 DEF ConnFits
<1>6. StepsArrive(c)'
  BY <1>1 DEF StepsArrive
<1>7. EndArrives(c)'
  <2>1. chan[c] = <<>> /\ queue[c] = <<>>
    BY <1>1, <1>3 DEF ConnFits
  <2>2. OnItsWay(c)' = <<>>
    BY <1>2, <2>1, ConnIs DEF OnItsWay
  <2>3. Shown(c)' = "ended"
    BY <1>1 DEF Shown
  <2>4. Len(<<>>) = 0 /\ \A j \in 1..0 : FALSE
    OBVIOUS
  <2>5. SaysEnded(<<>>, "ended")
    BY <2>4 DEF SaysEnded
  <2> QED BY <2>2, <2>3, <2>5 DEF EndArrives
<1> QED BY <1>1, <1>2, <1>3, <1>4, <1>5, <1>6, <1>7, ConnMoves

\* The snapshot has every step that was sent before, and the end of the run.
LEMMA Snapshotting ==
    ASSUME IInv, NEW c \in Conns, SendSnapshot(c)
    PROVE  IInv'
<1> DEFINE f == SnapshotFrame
<1>1. /\ handler' \in [Conns -> {"none", "subscribed", "open", "closed", "removed", "gone"}]
      /\ handler[c] = "subscribed" /\ handler'[c] = "open"
      /\ \A d \in Conns \ {c} : handler'[d] = handler[d]
      /\ UNCHANGED <<rowVars, pubVars, late, alive>>
  BY ConnStepIs DEF SendSnapshot
<1>2. /\ queue' = [queue EXCEPT ![c] = <<f>>] /\ forwarder' = [forwarder EXCEPT ![c] = "running"]
      /\ subs' = subs /\ chan' = chan /\ screen' = screen /\ dropped' = dropped /\ faults' = faults
  BY DEF SendSnapshot
<1>3. /\ ConnFits(c) /\ EndArrives(c) /\ chan[c] \in Seq(Fits) /\ faults \in 0..MaxFaults
      /\ queue[c] = <<>> => OnItsWay(c) = chan[c]
  BY ConnIs
<1>4. queue[c] = <<>> /\ c \in subs /\ screen[c] = NoView
  BY <1>1, <1>3 DEF ConnFits
<1>5. /\ f \in Fits /\ f.steps = steps /\ f.status = status /\ f.kind = "snapshot"
  BY DEF IInv, RowsFit, RowsTyped, SnapshotFrame, Fits, Frames
<1> HIDE DEF f
<1>6. /\ <<f>> \in Seq(Fits) /\ Len(<<f>>) = 1 /\ <<f>>[1] = f
  BY <1>5
<1>7. ConnsTyped'
  BY <1>1, <1>2, <1>6 DEF IInv, ConnsFit, ConnsTyped
<1>8. queue'[c] = <<f>> /\ \A d \in Conns \ {c} : queue'[d] = queue[d] /\ forwarder'[d] = forwarder[d]
  BY <1>2 DEF IInv, ConnsFit, ConnsTyped
<1>9. ConnFits(c)'
  <2>1. Len(queue'[c]) <= QueueSize /\ \A i \in 1..Len(queue'[c]) : i = 1
    BY <1>6, <1>8, Assumed
  <2>2. screen'[c].steps = {}
    BY <1>2, <1>4 DEF NoView
  <2>3. /\ Len(chan'[c]) <= QueueSize /\ \A i \in 1..Len(chan'[c]) : chan'[c][i].kind # "snapshot"
    BY <1>2, <1>3 DEF ConnFits
  <2> QED BY <1>1, <1>2, <1>4, <2>1, <2>2, <2>3 DEF ConnFits
<1>10. OnItsWay(c)' = <<f>> \o chan[c]
  BY <1>2, <1>8 DEF OnItsWay
<1>11. StepsArrive(c)'
  <2> SUFFICES ASSUME faults = 0, NEW h \in Hosts, NEW k \in 1..Stages, Sent(h, k, c)
               PROVE  Gets(<<f>> \o chan[c], screen'[c], <<h, k>>)
    <3>1. \A h \in Hosts, k \in 1..Stages : Sent(h, k, c)' <=> Sent(h, k, c)
      BY <1>1 DEF Sent, pubVars
    <3> QED BY <1>2, <1>10, <3>1 DEF StepsArrive
  <2>1. <<h, k>> \in f.steps
    BY <1>5 DEF Sent, IInv, RowsFit, Recorded
  <2>2. /\ Len(<<f>> \o chan[c]) = Len(chan[c]) + 1 /\ Len(chan[c]) \in Nat
        /\ (<<f>> \o chan[c])[1] = f
    BY <1>3, <1>5, FirstOnTheWay
  <2>3. 1 \in 1..Len(<<f>> \o chan[c])
    BY <2>2
  <2> QED BY <2>1, <2>2, <2>3 DEF Gets
<1>12. EndArrives(c)'
  <2> SUFFICES ASSUME faults = 0, ~late, c \notin dropped, EndSent(c)
               PROVE  SaysEnded(<<f>> \o chan[c], Shown(c)')
    <3>1. EndSent(c)' <=> EndSent(c)
      BY <1>1 DEF EndSent, pubVars
    <3> QED BY <1>1, <1>2, <1>10, <3>1 DEF EndArrives
  <2>1. f.status = "ended"
    BY <1>5 DEF EndSent, IInv, RowsFit, Recorded
  <2>2. SaysEnded(chan[c], "ended")
    BY <1>1, <1>3, <1>4 DEF EndArrives, Shown
  <2> QED BY <1>3, <1>5, <2>1, <2>2, SnapshotSaysEnded
<1> QED BY <1>1, <1>2, <1>3, <1>7, <1>8, <1>9, <1>11, <1>12, ConnMoves

\* A handler that could not read the row sends no snapshot.
LEMMA SnapshotFailing ==
    ASSUME IInv, NEW c \in Conns, SendSnapshotFails(c)
    PROVE  IInv'
<1>1. /\ handler' \in [Conns -> {"none", "subscribed", "open", "closed", "removed", "gone"}]
      /\ handler[c] = "subscribed" /\ handler'[c] = "open"
      /\ \A d \in Conns \ {c} : handler'[d] = handler[d]
      /\ UNCHANGED <<rowVars, pubVars, late, alive>>
  BY ConnStepIs DEF SendSnapshotFails
<1>2. /\ forwarder' = [forwarder EXCEPT ![c] = "running"] /\ faults < MaxFaults /\ faults' = faults + 1
      /\ queue' = queue /\ subs' = subs /\ chan' = chan /\ screen' = screen /\ dropped' = dropped
  BY DEF SendSnapshotFails
<1>3. /\ ConnFits(c) /\ faults \in 0..MaxFaults /\ MaxFaults \in Nat
  BY ConnIs
<1>4. faults' \in 0..MaxFaults /\ faults' # 0
  BY <1>2, <1>3
<1>5. ConnsTyped' /\ \A d \in Conns \ {c} : forwarder'[d] = forwarder[d]
  BY <1>1, <1>2 DEF IInv, ConnsFit, ConnsTyped
<1>6. ConnFits(c)'
  BY <1>1, <1>2, <1>3 DEF ConnFits
<1>7. StepsArrive(c)' /\ EndArrives(c)'
  BY <1>4 DEF StepsArrive, EndArrives
<1> QED BY <1>1, <1>2, <1>4, <1>5, <1>6, <1>7, ConnMoves

\* A connection that has closed is not waited for.
LEMMA Closing ==
    ASSUME IInv, NEW c \in Conns, ConnCloses(c) \/ Unsubscribe(c) \/ CloseChannel(c)
    PROVE  IInv'
<1>1. /\ handler' \in [Conns -> {"none", "subscribed", "open", "closed", "removed", "gone"}]
      /\ handler[c] \in {"open", "closed", "removed"} /\ handler'[c] \in {"closed", "removed", "gone"}
      /\ \A d \in Conns \ {c} : handler'[d] = handler[d]
      /\ UNCHANGED <<rowVars, pubVars, late, alive>>
  BY ConnStepIs DEF ConnCloses, Unsubscribe, CloseChannel
<1>2. /\ subs' \in {subs, subs \ {c}} /\ forwarder' = forwarder /\ faults' = faults
      /\ queue' = queue /\ chan' = chan /\ screen' = screen /\ dropped' = dropped
  BY DEF ConnCloses, Unsubscribe, CloseChannel
<1>3. /\ ConnFits(c) /\ faults \in 0..MaxFaults
  BY ConnIs
<1>4. ConnsTyped' /\ \A d \in Conns \ {c} : d \in subs' <=> d \in subs
  BY <1>1, <1>2 DEF IInv, ConnsFit, ConnsTyped
<1>5. ConnFits(c)'
  BY <1>1, <1>2, <1>3 DEF ConnFits
<1>6. StepsArrive(c)' /\ EndArrives(c)'
  BY <1>1 DEF StepsArrive, EndArrives
<1> QED BY <1>1, <1>2, <1>3, <1>4, <1>5, <1>6, ConnMoves

\* The forwarder takes a frame from the channel to the queue, or drops it.
LEMMA Forwarding ==
    ASSUME IInv, NEW c \in Conns, Forward(c)
    PROVE  IInv'
<1> DEFINE f == Head(chan[c])
<1>1. /\ forwarder[c] = "running" /\ chan[c] # <<>> /\ chan' = [chan EXCEPT ![c] = Tail(@)]
      /\ handler[c] = "open" => queue' = [queue EXCEPT ![c] = Push(queue[c], f)]
                                /\ dropped' = DropsFrom(queue[c], c)
      /\ handler[c] # "open" => queue' = queue /\ dropped' = dropped
      /\ UNCHANGED <<rowVars, pubVars, late, alive>>
      /\ subs' = subs /\ handler' = handler /\ forwarder' = forwarder /\ screen' = screen
      /\ faults' = faults
  BY DEF Forward
<1>2. /\ ConnFits(c) /\ StepsArrive(c) /\ EndArrives(c) /\ faults \in 0..MaxFaults
      /\ chan[c] \in Seq(Fits) /\ queue[c] \in Seq(Fits) /\ ConnsTyped
  BY ConnIs DEF IInv, ConnsFit
<1>3. /\ f \in Fits /\ f = chan[c][1] /\ Tail(chan[c]) \in Seq(Fits) /\ Len(chan[c]) \in Nat
      /\ Len(chan[c]) > 0 /\ Len(Tail(chan[c])) = Len(chan[c]) - 1
      /\ \A i \in 1..Len(Tail(chan[c])) : Tail(chan[c])[i] = chan[c][i + 1]
  BY <1>1, <1>2, HeadTailProperties, LenProperties, EmptySeq
<1>4. handler[c] \notin {"none", "subscribed"}
  BY <1>1, <1>2 DEF ConnFits
<1>5. /\ \A i \in 1..Len(chan[c]) : chan[c][i].kind # "snapshot"
      /\ Len(chan[c]) <= QueueSize /\ Len(queue[c]) <= QueueSize /\ QueueSize \in Nat
      /\ \A i \in 1..Len(queue[c]) :
            queue[c][i].kind = "snapshot" => i = 1 /\ screen[c].steps = {}
      /\ handler[c] = "open" => c \in subs
  BY <1>2, Assumed DEF ConnFits
<1>6. f.kind # "snapshot"
  BY <1>3, <1>5
<1> DEFINE q == Push(queue[c], f)
<1>7. /\ q \in Seq(Fits) /\ Len(q) <= QueueSize /\ DropsFrom(queue[c], c) \in {dropped, dropped \cup {c}}
      /\ c \notin DropsFrom(queue[c], c) => q = Append(queue[c], f)
      /\ \A i \in 1..Len(q) : (i \in 1..Len(queue[c]) /\ q[i] = queue[c][i]) \/ q[i] = f
  BY <1>2, <1>3, <1>5, PushIs
<1>8. chan'[c] = Tail(chan[c]) /\ \A d \in Conns \ {c} : chan'[d] = chan[d] /\ queue'[d] = queue[d]
  BY <1>1, <1>2 DEF ConnsTyped
<1>9. /\ handler[c] = "open" => queue'[c] = q
      /\ handler[c] # "open" => queue'[c] = queue[c]
      /\ dropped' \in {dropped, dropped \cup {c}}
  BY <1>1, <1>2, <1>7 DEF ConnsTyped
<1> HIDE DEF f, q
<1>10. ConnsTyped'
  <2>1. chan' \in [Conns -> Seq(Fits)] /\ dropped' \subseteq Conns
    BY <1>1, <1>2, <1>3, <1>9 DEF ConnsTyped
  <2>2. queue' \in [Conns -> Seq(Fits)]
    <3>1. CASE handler[c] = "open"
      BY <1>1, <1>2, <1>7, <3>1 DEF ConnsTyped, q
    <3>2. CASE handler[c] # "open"
      BY <1>1, <1>2, <3>2 DEF ConnsTyped
    <3> QED BY <3>1, <3>2
  <2> QED BY <1>1, <1>2, <2>1, <2>2 DEF ConnsTyped
<1>11. ConnFits(c)'
  <2>1. Len(chan'[c]) <= QueueSize /\ \A i \in 1..Len(chan'[c]) : chan'[c][i].kind # "snapshot"
    <3>1. Len(chan'[c]) <= QueueSize
      BY <1>3, <1>5, <1>8
    <3>2. ASSUME NEW i \in 1..Len(chan'[c])
          PROVE  chan'[c][i].kind # "snapshot"
      <4>1. i + 1 \in 1..Len(chan[c]) /\ chan'[c][i] = chan[c][i + 1]
        BY <1>3, <1>8
      <4> QED BY <1>5, <4>1
    <3> QED BY <3>1, <3>2
  <2>2. Len(queue'[c]) <= QueueSize
    BY <1>5, <1>7, <1>9
  <2>3. \A i \in 1..Len(queue'[c]) :
           queue'[c][i].kind = "snapshot" => i = 1 /\ screen'[c].steps = {}
    <3>1. CASE handler[c] = "open"
      BY <1>1, <1>5, <1>6, <1>7, <1>9, <3>1
    <3>2. CASE handler[c] # "open"
      BY <1>1, <1>5, <1>9, <3>2
    <3> QED BY <3>1, <3>2
  <2> QED BY <1>1, <1>4, <1>5, <2>1, <2>2, <2>3 DEF ConnFits
<1>12. handler[c] = "open" /\ c \notin dropped' => OnItsWay(c)' = OnItsWay(c) /\ c \notin dropped
  <2> SUFFICES ASSUME handler[c] = "open", c \notin dropped'
               PROVE  OnItsWay(c)' = OnItsWay(c) /\ c \notin dropped
    OBVIOUS
  <2>1. c \notin DropsFrom(queue[c], c) /\ c \notin dropped
    BY <1>1, <1>9
  <2>2. queue'[c] = Append(queue[c], f) /\ chan'[c] = Tail(chan[c])
    BY <1>7, <1>8, <1>9, <2>1
  <2>3. Append(queue[c], f) \o Tail(chan[c]) = queue[c] \o chan[c]
    BY <1>1, <1>2, ForwardKeeps DEF f
  <2> QED BY <2>1, <2>2, <2>3 DEF OnItsWay
<1>13. StepsArrive(c)'
  <2>1. \A h \in Hosts, k \in 1..Stages : Sent(h, k, c)' <=> Sent(h, k, c)
    BY <1>1 DEF Sent, pubVars
  <2> QED BY <1>1, <1>2, <1>12, <2>1 DEF StepsArrive
<1>14. EndArrives(c)'
  <2>1. EndSent(c)' <=> EndSent(c)
    BY <1>1 DEF EndSent, pubVars
  <2>2. Shown(c)' = Shown(c)
    BY <1>1 DEF Shown
  <2> QED BY <1>1, <1>2, <1>4, <1>12, <2>1, <2>2 DEF EndArrives
<1> QED BY <1>1, <1>2, <1>8, <1>9, <1>10, <1>11, <1>13, <1>14, ConnMoves

\* The forwarder ends after the connection.
LEMMA ForwarderEnds ==
    ASSUME IInv, NEW c \in Conns, EndForwarder(c)
    PROVE  IInv'
<1>1. /\ handler[c] = "gone" /\ forwarder' = [forwarder EXCEPT ![c] = "over"]
      /\ UNCHANGED <<rowVars, pubVars, late, alive>>
      /\ subs' = subs /\ handler' = handler /\ chan' = chan /\ queue' = queue /\ screen' = screen
      /\ dropped' = dropped /\ faults' = faults
  BY DEF EndForwarder, history
<1>2. /\ ConnFits(c) /\ faults \in 0..MaxFaults
  BY ConnIs
<1>3. ConnsTyped' /\ \A d \in Conns \ {c} : forwarder'[d] = forwarder[d]
  BY <1>1 DEF IInv, ConnsFit, ConnsTyped
<1>4. ConnFits(c)' /\ StepsArrive(c)' /\ EndArrives(c)'
  BY <1>1, <1>2 DEF ConnFits, StepsArrive, EndArrives
<1> QED BY <1>1, <1>2, <1>3, <1>4, ConnMoves

\* The write pump shows the browser its next frame.
LEMMA Pumping ==
    ASSUME IInv, NEW c \in Conns, WritePump(c)
    PROVE  IInv'
<1> DEFINE f == Head(queue[c])
<1>1. /\ handler[c] = "open" /\ queue[c] # <<>> /\ screen' = [screen EXCEPT ![c] = Show(@, f)]
      /\ queue' = [queue EXCEPT ![c] = Tail(@)]
      /\ UNCHANGED <<rowVars, pubVars, late, alive>>
      /\ subs' = subs /\ handler' = handler /\ chan' = chan /\ forwarder' = forwarder
      /\ dropped' = dropped /\ faults' = faults
  BY DEF WritePump, history
<1>2. /\ ConnFits(c) /\ StepsArrive(c) /\ EndArrives(c) /\ faults \in 0..MaxFaults
      /\ chan[c] \in Seq(Fits) /\ queue[c] \in Seq(Fits) /\ OnItsWay(c) \in Seq(Fits)
      /\ screen[c] \in Views /\ ConnsTyped
  BY ConnIs DEF IInv, ConnsFit
<1>3. /\ f \in Fits /\ f = queue[c][1] /\ Tail(queue[c]) \in Seq(Fits) /\ Len(queue[c]) \in Nat
      /\ Len(queue[c]) > 0 /\ Len(Tail(queue[c])) = Len(queue[c]) - 1
      /\ \A i \in 1..Len(Tail(queue[c])) : Tail(queue[c])[i] = queue[c][i + 1]
  BY <1>1, <1>2, HeadTailProperties, LenProperties, EmptySeq
<1>4. /\ OnItsWay(c) # <<>> /\ Tail(queue[c]) \o chan[c] = Tail(OnItsWay(c)) /\ OnItsWay(c)[1] = f
  BY <1>1, <1>2, PumpTakes DEF OnItsWay
<1>5. /\ screen'[c] = Show(screen[c], f) /\ queue'[c] = Tail(queue[c])
      /\ \A d \in Conns \ {c} : queue'[d] = queue[d] /\ screen'[d] = screen[d]
  BY <1>1, <1>2 DEF ConnsTyped
<1>6. Show(screen[c], f) \in Views
  BY <1>2, <1>3 DEF Show, Views, Fits, Frames
<1> HIDE DEF f
<1>7. ConnsTyped'
  <2>1. queue' \in [Conns -> Seq(Fits)] /\ screen' \in [Conns -> Views]
    BY <1>1, <1>2, <1>3, <1>6 DEF ConnsTyped
  <2> QED BY <1>1, <1>2, <2>1 DEF ConnsTyped
<1>8. OnItsWay(c)' = Tail(OnItsWay(c))
  BY <1>1, <1>4, <1>5 DEF OnItsWay
<1>9. ConnFits(c)'
  <2>1. /\ \A i \in 1..Len(queue[c]) : queue[c][i].kind = "snapshot" => i = 1
        /\ Len(queue[c]) <= QueueSize /\ QueueSize \in Nat
    BY <1>2, Assumed DEF ConnFits
  <2>2. ASSUME NEW i \in 1..Len(queue'[c])
        PROVE  queue'[c][i].kind # "snapshot"
    <3>1. i + 1 \in 1..Len(queue[c]) /\ i + 1 # 1 /\ queue'[c][i] = queue[c][i + 1]
      BY <1>3, <1>5
    <3> QED BY <2>1, <3>1
  <2>3. Len(queue'[c]) <= QueueSize
    BY <1>3, <1>5, <2>1
  <2> QED BY <1>1, <1>2, <2>2, <2>3 DEF ConnFits
<1>10. StepsArrive(c)'
  <2> SUFFICES ASSUME faults = 0, c \notin dropped, NEW h \in Hosts, NEW k \in 1..Stages, Sent(h, k, c)
               PROVE  Gets(Tail(OnItsWay(c)), Show(screen[c], f), <<h, k>>)
    <3>1. \A h \in Hosts, k \in 1..Stages : Sent(h, k, c)' <=> Sent(h, k, c)
      BY <1>1 DEF Sent, pubVars
    <3> QED BY <1>1, <1>5, <1>8, <3>1 DEF StepsArrive
  <2>1. Gets(OnItsWay(c), screen[c], <<h, k>>)
    BY <1>1, <1>2 DEF StepsArrive
  <2>2. OnItsWay(c)[1].kind = "snapshot" => screen[c].steps = {}
    <3>1. 1 \in 1..Len(queue[c])
      BY <1>3
    <3> QED BY <1>2, <1>3, <1>4, <3>1 DEF ConnFits
  <2> QED BY <1>2, <1>4, <2>1, <2>2, ShowGets
<1>11. EndArrives(c)'
  <2> SUFFICES ASSUME faults = 0, ~late, c \notin dropped, EndSent(c)
               PROVE  SaysEnded(Tail(OnItsWay(c)), Show(screen[c], f).status)
    <3>1. EndSent(c)' <=> EndSent(c)
      BY <1>1 DEF EndSent, pubVars
    <3>2. Shown(c)' = Show(screen[c], f).status
      BY <1>1, <1>5 DEF Shown
    <3> QED BY <1>1, <1>8, <3>1, <3>2 DEF EndArrives
  <2>1. SaysEnded(OnItsWay(c), screen[c].status)
    BY <1>1, <1>2 DEF EndArrives, Shown
  <2> QED BY <1>2, <1>4, <2>1, ShowSaysEnded
<1> QED BY <1>1, <1>2, <1>5, <1>7, <1>9, <1>10, <1>11, ConnMoves

\* A frame goes into the channel of a connection it is for, or is dropped.
LEMMA Sending ==
    ASSUME IInv, NEW p \in Publishers, NEW c \in Conns, Send(p, c)
    PROVE  IInv'
<1> DEFINE f == frame[p]
           w == Push(chan[c], f)
<1>1. /\ pc[p] = "sending" /\ c \in to[p]
      /\ chan' = [chan EXCEPT ![c] = w] /\ dropped' = DropsFrom(chan[c], c)
      /\ to' = [to EXCEPT ![p] = @ \ {c}] /\ late' = (late \/ (p = Trigger /\ status = "ended"))
      /\ steps' = steps /\ status' = status /\ writer' = writer /\ pc' = pc /\ done' = done
      /\ buffer' = buffer /\ frame' = frame /\ subs' = subs /\ handler' = handler
      /\ forwarder' = forwarder /\ queue' = queue /\ screen' = screen /\ faults' = faults
      /\ alive' = alive
  BY DEF Send, rowVars, connVars
<1>2. /\ RowsTyped /\ Locked /\ FramesFit /\ Recorded /\ ConnsTyped
  BY DEF IInv, RowsFit, ConnsFit
<1>3. /\ ConnFits(c) /\ StepsArrive(c) /\ EndArrives(c)
      /\ chan[c] \in Seq(Fits) /\ queue[c] \in Seq(Fits) /\ OnItsWay(c) \in Seq(Fits)
  BY ConnIs
<1>4. /\ p \in Hosts => f = StepFrame(<<p, done[p] + 1>>) /\ <<p, done[p] + 1>> \in AllSteps
      /\ p = Exec => f = StatusFrame("ended")
      /\ p = Trigger => f = StatusFrame("running")
  <2>1. p \in Hosts => done[p] \in 0..Stages /\ done[p] < Stages /\ Stages \in Nat
    BY <1>1, <1>2, Assumed DEF Locked, RowsTyped
  <2> QED BY <1>1, <1>2, <2>1 DEF FramesFit, AllSteps
<1>5. /\ f \in Fits /\ f.kind # "snapshot"
      /\ p \in Hosts => f.steps = {<<p, done[p] + 1>>} /\ f.status = "none"
      /\ p = Exec => f.status = "ended"
      /\ p \in Hosts \/ p = Exec \/ p = Trigger
  BY <1>4, FramesAre, Assumed
<1>6. /\ Len(chan[c]) <= QueueSize /\ \A i \in 1..Len(chan[c]) : chan[c][i].kind # "snapshot"
      /\ handler[c] # "none"
  BY <1>1, <1>3 DEF ConnFits
<1>7. /\ w \in Seq(Fits) /\ Len(w) <= QueueSize /\ dropped' \in {dropped, dropped \cup {c}}
      /\ c \notin dropped' => w = Append(chan[c], f)
      /\ \A i \in 1..Len(w) : (i \in 1..Len(chan[c]) /\ w[i] = chan[c][i]) \/ w[i] = f
  BY <1>1, <1>3, <1>5, <1>6, PushIs
<1> HIDE DEF f, w
<1>8. /\ chan'[c] = w /\ \A d \in Conns \ {c} : chan'[d] = chan[d]
      /\ to'[p] = to[p] \ {c} /\ \A q \in Publishers \ {p} : to'[q] = to[q]
      /\ to' \in [Publishers -> SUBSET Conns] /\ late' \in BOOLEAN
      /\ chan' \in [Conns -> Seq(Fits)] /\ dropped' \subseteq Conns
  BY <1>1, <1>2, <1>7 DEF ConnsTyped, RowsTyped
<1>9. RowsFit'
  <2>1. RowsTyped'
    BY <1>1, <1>2, <1>8 DEF RowsTyped
  <2> QED BY <1>1, <1>2, <2>1 DEF RowsFit, Locked, FramesFit, Recorded
<1>10. ConnsTyped'
  BY <1>1, <1>2, <1>8 DEF ConnsTyped
<1>11. ASSUME NEW d \in Conns \ {c}
       PROVE  ConnFits(d)' /\ StepsArrive(d)' /\ EndArrives(d)'
  <2>1. ConnFits(d) /\ StepsArrive(d) /\ EndArrives(d)
    BY ConnIs
  <2>2. \A q \in Publishers : d \in to'[q] <=> d \in to[q]
    BY <1>8
  <2>3. (d \in dropped' <=> d \in dropped) /\ chan'[d] = chan[d]
    BY <1>7, <1>8
  <2>4. ConnFits(d)'
    BY <1>1, <2>1, <2>2, <2>3 DEF ConnFits
  <2>5. OnItsWay(d)' = OnItsWay(d) /\ Shown(d)' = Shown(d)
    BY <1>1, <2>3 DEF OnItsWay, Shown
  <2>6. \A h \in Hosts, k \in 1..Stages : Sent(h, k, d)' <=> Sent(h, k, d)
    BY <1>1, <2>2, Assumed DEF Sent
  <2>7. EndSent(d)' <=> EndSent(d)
    BY <1>1, <2>2, Assumed DEF EndSent
  <2>8. late => late'
    BY <1>1
  <2>9. StepsArrive(d)'
    BY <1>1, <2>1, <2>3, <2>5, <2>6 DEF StepsArrive
  <2> QED BY <1>1, <2>1, <2>3, <2>4, <2>5, <2>7, <2>8, <2>9 DEF EndArrives
<1>12. ConnFits(c)'
  <2>1. \A i \in 1..Len(w) : w[i].kind # "snapshot"
    BY <1>5, <1>6, <1>7
  <2>2. \A q \in Publishers : to'[q] \subseteq to[q]
    BY <1>8
  <2> QED BY <1>1, <1>3, <1>6, <1>7, <1>8, <2>1, <2>2 DEF ConnFits
<1>13. c \notin dropped' => OnItsWay(c)' = Append(OnItsWay(c), f) /\ c \notin dropped
  <2>1. queue[c] \o Append(chan[c], f) = Append(queue[c] \o chan[c], f)
    BY <1>3, <1>5, SendAppends
  <2> QED BY <1>1, <1>7, <1>8, <2>1 DEF OnItsWay
<1>14. StepsArrive(c)'
  <2> SUFFICES ASSUME faults = 0, c \notin dropped', handler[c] = "open",
                      NEW h \in Hosts, NEW k \in 1..Stages, Sent(h, k, c)'
               PROVE  Gets(Append(OnItsWay(c), f), screen[c], <<h, k>>)
    BY <1>1, <1>13 DEF StepsArrive
  <2>1. CASE Sent(h, k, c)
    <3>1. Gets(OnItsWay(c), screen[c], <<h, k>>)
      BY <1>3, <1>13, <2>1 DEF StepsArrive
    <3> QED BY <1>3, <1>5, <3>1, SendGets
  <2>2. CASE h = p /\ k = done[p] + 1
    <3>1. <<h, k>> \in f.steps
      BY <1>5, <2>2
    <3> QED BY <1>3, <1>5, <3>1, SendGets
  <2>3. h # p => to'[h] = to[h]
    BY <1>8, Assumed
  <2> QED BY <1>1, <2>1, <2>2, <2>3 DEF Sent
<1>15. EndArrives(c)'
  <2> SUFFICES ASSUME faults = 0, ~late', c \notin dropped',
                      handler[c] \in {"subscribed", "open"}, EndSent(c)'
               PROVE  SaysEnded(Append(OnItsWay(c), f), Shown(c))
    <3>1. Shown(c)' = Shown(c)
      BY <1>1 DEF Shown
    <3> QED BY <1>1, <1>13, <3>1 DEF EndArrives
  <2>1. CASE p = Exec
    BY <1>3, <1>5, <2>1, SendSaysEnded
  <2>2. CASE p # Exec
    <3>1. to'[Exec] = to[Exec]
      BY <1>8, <2>2, Assumed
    <3>2. EndSent(c)
      BY <1>1, <3>1 DEF EndSent
    <3>3. status = "ended"
      BY <1>2, <3>2 DEF Recorded, EndSent
    <3>4. ~late /\ p # Trigger
      BY <1>1, <3>3
    <3>5. SaysEnded(OnItsWay(c), Shown(c))
      BY <1>3, <1>13, <3>2, <3>4 DEF EndArrives
    <3>6. f.status # "running"
      BY <1>5, <2>2, <3>4
    <3> QED BY <1>3, <1>5, <3>5, <3>6, SendSaysEnded
  <2> QED BY <2>1, <2>2
<1>16. ConnsFit' /\ Arrives'
  BY <1>10, <1>11, <1>12, <1>14, <1>15 DEF ConnsFit, Arrives
<1> QED BY <1>9, <1>16 DEF IInv

-----------------------------------------------------------------------------
(* The theorems                                                             *)

\* To begin with there is nothing to see and nobody sees it.
LEMMA Start == Init => IInv
<1> SUFFICES ASSUME Init PROVE IInv
  OBVIOUS
<1>1. /\ Exec \in Publishers /\ Trigger \in Publishers /\ Hosts \subseteq Publishers
      /\ Stages \in Nat \ {0} /\ QueueSize \in Nat \ {0} /\ MaxFaults \in Nat
  BY Assumed
<1>2. RowsTyped
  <2>1. /\ done \in [Hosts -> 0..Stages] /\ faults \in 0..MaxFaults
    BY <1>1 DEF Init
  <2> QED BY <2>1 DEF Init, RowsTyped
<1>3. Locked /\ FramesFit
  BY <1>1 DEF Init, Locked, FramesFit
<1>4. Recorded
  <2>1. \A h \in Hosts, k \in 1..Stages : done[h] = 0 /\ ~(k <= 0) /\ pc[h] = "idle"
    BY <1>1 DEF Init
  <2>2. pc[Exec] = "idle"
    BY <1>1 DEF Init
  <2> QED BY <2>1, <2>2 DEF Recorded
<1>5. ConnsTyped
  <2>1. <<>> \in Seq(Fits)
    OBVIOUS
  <2>2. NoView \in Views
    BY DEF NoView, Views
  <2> QED BY <2>1, <2>2 DEF Init, ConnsTyped, NoView
<1>6. ASSUME NEW c \in Conns
      PROVE  ConnFits(c) /\ StepsArrive(c) /\ EndArrives(c)
  <2>1. /\ handler[c] = "none" /\ queue[c] = <<>> /\ chan[c] = <<>> /\ forwarder[c] = "none"
        /\ screen[c] = NoView /\ subs = {} /\ \A p \in Publishers : to[p] = {}
    BY DEF Init, NoView
  <2>2. Len(<<>>) = 0 /\ 0 <= QueueSize /\ \A i \in 1..0 : FALSE
    BY <1>1
  <2>3. ConnFits(c)
    BY <2>1, <2>2 DEF ConnFits
  <2>4. StepsArrive(c) /\ EndArrives(c)
    BY <2>1 DEF StepsArrive, EndArrives
  <2> QED BY <2>3, <2>4
<1> QED BY <1>2, <1>3, <1>4, <1>5, <1>6 DEF IInv, RowsFit, ConnsFit, Arrives

\* Every step keeps the invariant.
LEMMA Step == IInv /\ [Next]_vars => IInv'
<1> SUFFICES ASSUME IInv, [Next]_vars PROVE IInv'
  OBVIOUS
<1>1. Exec \in Publishers /\ Trigger \in Publishers /\ Hosts \subseteq Publishers
  BY Assumed
<1>2. ASSUME NEW p \in Publishers, SendNext(p)
      PROVE  IInv'
  BY <1>2, Sending, PanicSteps, EndSteps DEF SendNext
<1>3. ASSUME NEW h \in Hosts, HostNext(h)
      PROVE  IInv'
  <2>1. CASE ReadSnapshot(h) \/ WriteSnapshot(h) \/ SnapshotFails(h)
    BY <2>1, SnapshotSteps
  <2>2. CASE PublishStep(h)
    BY <2>2, PublishSteps
  <2>3. CASE SendNext(h)
    BY <1>1, <1>2, <2>3
  <2> QED BY <1>3, <2>1, <2>2, <2>3 DEF HostNext
<1>4. CASE ExecNext \/ TriggerNext
  <2>1. CASE FinishRun \/ FinishRunFails
    BY <2>1, FinishSteps
  <2>2. CASE PublishFinal \/ PublishRunning
    BY <2>2, PublishSteps
  <2>3. CASE SendNext(Exec) \/ SendNext(Trigger)
    BY <1>1, <1>2, <2>3
  <2> QED BY <1>4, <2>1, <2>2, <2>3 DEF ExecNext, TriggerNext
<1>5. ASSUME NEW c \in Conns,
             Subscribe(c) \/ HandlerNext(c) \/ ConnCloses(c) \/ ForwarderNext(c) \/ WritePump(c)
      PROVE  IInv'
  <2>1. CASE Subscribe(c)
    BY <2>1, Subscribing
  <2>2. CASE HandlerNext(c)
    BY <2>2, Snapshotting, SnapshotFailing, Closing DEF HandlerNext
  <2>3. CASE ConnCloses(c)
    BY <2>3, Closing
  <2>4. CASE ForwarderNext(c)
    BY <2>4, Forwarding, ForwarderEnds DEF ForwarderNext
  <2>5. CASE WritePump(c)
    BY <2>5, Pumping
  <2> QED BY <1>5, <2>1, <2>2, <2>3, <2>4, <2>5
<1>6. CASE UNCHANGED vars
  <2>1. UNCHANGED <<rowVars, pubVars, subs, chan, connVars, history, faults, alive>>
    BY <1>6 DEF vars
  <2>2. /\ UNCHANGED <<subs, chan, connVars, dropped, late>> /\ faults' = faults /\ to' = to
        /\ steps' = steps /\ status' = status /\ writer' = writer /\ pc' = pc /\ done' = done
        /\ buffer' = buffer /\ frame' = frame /\ alive' = alive
    BY <2>1 DEF rowVars, pubVars, history
  <2>3. RowsFit'
    BY <2>2 DEF IInv, RowsFit, RowsTyped, Locked, FramesFit, Recorded
  <2>4. \A c \in subs, h \in Hosts, k \in 1..Stages : Sent(h, k, c)' => Sent(h, k, c)
    BY <2>2 DEF Sent
  <2>5. \A c \in subs : EndSent(c)' => EndSent(c)
    BY <2>2 DEF EndSent
  <2>6. ConnsFit' /\ Arrives'
    BY <2>2, <2>4, <2>5, ConnsStay
  <2> QED BY <2>3, <2>6 DEF IInv
<1> QED BY <1>3, <1>4, <1>5, <1>6 DEF Next

(* The inductive invariant holds of every behaviour.                        *)
THEOREM Invariance == Spec => []IInv
BY Start, Step, PTL DEF Spec

(* The variables keep their types, and no channel of a subscription and no  *)
(* queue of a connection holds more than its capacity.                      *)
THEOREM TypeCorrect == Spec => []TypeOK
BY Invariance, TypesFollow, PTL

\* With nothing on its way, a browser shows what has been sent to it.
LEMMA NothingOnItsWay == IInv => CaughtUp
<1> SUFFICES ASSUME IInv, NEW c \in Conns, Quiet, faults = 0, c \notin dropped,
                    handler[c] = "open", chan[c] = <<>>, queue[c] = <<>>
             PROVE  screen[c].steps = AllSteps /\ (screen[c].status = "ended" \/ late)
  BY DEF CaughtUp
<1>1. StepsArrive(c) /\ EndArrives(c) /\ screen[c] \in Views /\ OnItsWay(c) = <<>>
  BY ConnIs
<1>2. Len(<<>>) = 0 /\ \A i \in 1..0 : FALSE
  OBVIOUS
<1>3. ASSUME NEW h \in Hosts, NEW k \in 1..Stages
      PROVE  <<h, k>> \in screen[c].steps
  <2>1. k <= done[h]
    BY Assumed DEF Quiet
  <2>2. Gets(<<>>, screen[c], <<h, k>>)
    BY <1>1, <2>1 DEF StepsArrive, Sent
  <2> QED BY <1>2, <2>2 DEF Gets
<1>4. screen[c].steps = AllSteps
  BY <1>1, <1>3 DEF AllSteps, Views
<1>5. screen[c].status = "ended" \/ late
  <2>1. ASSUME ~late PROVE SaysEnded(<<>>, screen[c].status)
    BY <1>1, <2>1 DEF EndArrives, EndSent, Shown, Quiet
  <2> QED BY <1>2, <2>1 DEF SaysEnded
<1> QED BY <1>4, <1>5

(* A browser that connected at any moment of the run, and for which no      *)
(* frame was dropped, shows every step and the final status once all is     *)
(* quiet: nothing is lost between the snapshot and the first frame.         *)
THEOREM CaughtUpHolds == Spec => []CaughtUp
BY Invariance, NothingOnItsWay, PTL

\* Steps that write the row, which hold s.mu or come after every host.
LEMMA RowGrows == IInv /\ [Next]_vars => steps \subseteq steps'
<1> SUFFICES ASSUME IInv, [Next]_vars PROVE steps \subseteq steps'
  OBVIOUS
<1>1. RowsTyped /\ Locked
  BY DEF IInv, RowsFit
<1>2. ASSUME NEW h \in Hosts, WriteSnapshot(h)
      PROVE  steps \subseteq steps'
  <2>1. pc[h] = "writing" /\ steps' = buffer[h] \cup {<<h, done[h] + 1>>}
    BY <1>2 DEF WriteSnapshot, PubStep, Appended
  <2> QED BY <1>1, <2>1 DEF Locked
<1>3. ASSUME FinishRun
      PROVE  steps \subseteq steps'
  BY <1>1, <1>3 DEF FinishRun, RowsTyped
<1>4. ASSUME NEW p \in Publishers, SendNext(p)
      PROVE  steps' = steps
  BY <1>4 DEF SendNext, Send, Panic, EndPublish, rowVars
<1>5. ASSUME NEW h \in Hosts, ReadSnapshot(h) \/ SnapshotFails(h) \/ PublishStep(h)
      PROVE  steps' = steps
  BY <1>5 DEF ReadSnapshot, SnapshotFails, PublishStep, rowVars
<1>6. ASSUME FinishRunFails \/ PublishFinal \/ PublishRunning
      PROVE  steps' = steps
  BY <1>6 DEF FinishRunFails, PublishFinal, PublishRunning, rowVars
<1>7. ASSUME NEW c \in Conns,
             Subscribe(c) \/ HandlerNext(c) \/ ConnCloses(c) \/ ForwarderNext(c) \/ WritePump(c)
      PROVE  steps' = steps
  <2>1. ASSUME Subscribe(c) \/ HandlerNext(c) \/ ConnCloses(c)
        PROVE  steps' = steps
    BY <2>1 DEF Subscribe, HandlerNext, SendSnapshot, SendSnapshotFails, Unsubscribe, CloseChannel,
                ConnCloses, ConnStep, rowVars
  <2>2. ASSUME ForwarderNext(c) \/ WritePump(c)
        PROVE  steps' = steps
    BY <2>2 DEF ForwarderNext, Forward, EndForwarder, WritePump, rowVars
  <2> QED BY <1>7, <2>1, <2>2
<1>8. CASE UNCHANGED vars
  BY <1>8 DEF vars, rowVars
<1>9. CASE Next
  <2>1. Exec \in Publishers /\ Trigger \in Publishers /\ Hosts \subseteq Publishers
    BY Assumed
  <2>2. CASE \E h \in Hosts : HostNext(h)
    BY <1>2, <1>4, <1>5, <2>1, <2>2 DEF HostNext
  <2>3. CASE ExecNext \/ TriggerNext
    BY <1>3, <1>4, <1>6, <2>1, <2>3 DEF ExecNext, TriggerNext
  <2>4. CASE \E c \in Conns : \/ Subscribe(c) \/ HandlerNext(c) \/ ConnCloses(c)
                              \/ ForwarderNext(c) \/ WritePump(c)
    BY <1>7, <2>4
  <2> QED BY <1>9, <2>2, <2>3, <2>4 DEF Next
<1> QED BY <1>8, <1>9

(* A step that has been recorded in the row stays there: no host that       *)
(* records its own at the same time takes it out, nor does the end of the   *)
(* run.                                                                     *)
THEOREM RecordedStayHolds == Spec => RecordedStay
<1>1. IInv /\ [Next]_vars => [steps \subseteq steps']_vars
  BY RowGrows
<1> QED BY <1>1, Invariance, PTL DEF Spec, RecordedStay
=============================================================================
