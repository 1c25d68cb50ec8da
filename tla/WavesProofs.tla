----------------------------- MODULE WavesProofs -----------------------------
(***************************************************************************)
(* Proofs about Waves for any number of services and deployments, any plan *)
(* and any number of failed database writes.  The inductive invariant IInv *)
(* says where the goroutines can be while RunWaves is where it is, what a  *)
(* host has been through, what is known of the waves and the batches       *)
(* behind, and why anything was skipped.                                   *)
(***************************************************************************)
EXTENDS Waves, FiniteSetTheorems, TLAPS

\* A deployHost is at work; a deployment of the run has failed.
Active == {"dial", "connected", "switching", "recorded"}
AnyFailed == \E d \in Deps : outcome[d] = "failed"

\* The wave of s has been taken up; all its deployments have their final outcome.
Reached(s) == s \in plan.enabled /\ plan.order[s] \notin left
SettledAll(s) == \A d \in SubDeps(s) : outcome[d] \in Settled

\* Waves are taken in their order, one at a time: the goroutines at work are those of the
\* wave that runs, and no later service has begun.
WaveShape ==
    /\ \A s, t \in plan.enabled :
          plan.order[s] \notin left /\ plan.order[t] \in left => plan.order[s] < plan.order[t]
    /\ main = "waiting" =>
          /\ stopReason = "none" /\ wave # {}
          /\ \A s \in wave : plan.order[s] \notin left /\ svcPc[s] # "idle"
          /\ \A s \in wave, t \in plan.enabled : plan.order[t] \notin left =>
                plan.order[t] < plan.order[s] \/ t \in wave
          /\ \A s, t \in wave : plan.order[s] = plan.order[t]
    /\ \A s \in Services :
          /\ svcPc[s] # "idle" => Reached(s)
          /\ svcPc[s] \in {"next", "waiting"} => main \in {"waiting", "dead"} /\ s \in wave
    /\ main = "finished" => left = {}
    /\ result # "none" =>
          main = "finished" /\ result = AggregateStatus(AnyFailed)

\* What a host has been through tells its outcome; nobody works on a host but under its
\* service, and a host of a wave that was not reached is untouched.
HostShape ==
    \A d \in Deps :
        /\ hostPc[d] = "idle" => outcome[d] \in {"none", "skipped"} /\ ~touched[d]
        /\ hostPc[d] \in Active => outcome[d] = "none" /\ svcPc[plan.service[d]] = "waiting"
        /\ hostPc[d] = "done" => outcome[d] \in {"success", "failed"}
        /\ hostPc[d] # "idle" => d \in plan.sourced /\ svcPc[plan.service[d]] # "idle"
        /\ hostPc[d] \in {"switching", "recorded"} => touched[d]
        /\ outcome[d] = "success" => touched[d]
        /\ outcome[d] # "none" => Reached(plan.service[d])

\* Until a database write fails, rows and pointers say what the outcomes say.
RowsFollow ==
    missed = 0 => \A d \in Deps :
        /\ outcome[d] \in Settled => row[d] = outcome[d]
        /\ outcome[d] = "success" => pointer[d]
        /\ hostPc[d] = "recorded" => row[d] = "success"

\* The waves behind are over: all their hosts are settled, unless the run was told to end,
\* and no required service among them failed, or the loop has taken note.
WavesBehind ==
    /\ \A s \in Services : svcPc[s] = "done" => SettledAll(s)
    /\ main \in {"next", "finished"} /\ stopReason # "ctx done" =>
          \A s \in plan.enabled : Reached(s) => SettledAll(s)
    /\ main = "next" /\ stopReason = "none" =>
          \A s \in plan.enabled : Reached(s) /\ s \notin plan.optional => ~Failed(s)

\* Once the loop has found the context done, the hosts without an outcome are those of the
\* one wave it left at that moment, and no service of it has begun.
OneWaveIsPassedOver ==
    main \in {"next", "finished"} /\ stopReason = "ctx done" =>
        \A s, t \in plan.enabled :
            Reached(s) /\ ~SettledAll(s) /\ Reached(t) /\ ~SettledAll(t) =>
                svcPc[s] = "idle" /\ plan.order[s] = plan.order[t]

\* The wave barrier, from the moment a service begins.
Barrier ==
    \A s, t \in plan.enabled : svcPc[s] # "idle" /\ plan.order[t] < plan.order[s] =>
        SettledAll(t) /\ (t \notin plan.optional => ~Failed(t))

\* What is left of a service that goes on is whole batches, the last ones; nothing in the
\* others was skipped without a reason or, between two batches, has failed.
WholeBatches ==
    \A s \in Services : svcPc[s] \in {"next", "waiting"} /\ ~svcStop[s] =>
        /\ \A d, e \in SubDeps(s) : d \in Pending(s) /\ Rank(d) <= Rank(e) => e \in Pending(s)
        /\ \A d \in SubDeps(s) : outcome[d] = "skipped" => d \notin plan.sourced
        /\ svcPc[s] = "next" => ~Failed(s)

\* The batches in front of a host that was begun went well.
BatchesWaitTheirTurn ==
    \A s \in plan.enabled : \A d, e \in SubDeps(s) :
        Rank(d) < Rank(e) /\ hostPc[e] # "idle" =>
            outcome[d] = "success" \/ d \notin plan.sourced

\* Nothing is skipped, and no loop stops, but for the end of the context or a failure.
SkippedForAReason ==
    /\ stopReason = "ctx done" => ctxDone
    /\ stopReason = "required failed" => AnyFailed
    /\ \A s \in Services : svcStop[s] => ctxDone \/ AnyFailed
    /\ \A d \in Deps : outcome[d] = "skipped" /\ d \in plan.sourced => ctxDone \/ AnyFailed

IInv ==
    /\ TypeOK
    /\ WaveShape
    /\ HostShape
    /\ RowsFollow
    /\ WavesBehind
    /\ OneWaveIsPassedOver
    /\ Barrier
    /\ WholeBatches
    /\ BatchesWaitTheirTurn
    /\ SkippedForAReason

-----------------------------------------------------------------------------
(* Numbers, plans and batches                                               *)

\* A set of naturals that is not empty has a least element.
LEMMA NatLeast ==
    ASSUME NEW S \in SUBSET Nat, S # {}
    PROVE  \E m \in S : \A n \in S : m <= n
<1> DEFINE R == OpToRel(<, Nat)
<1>1. IsWellFoundedOn(R, Nat)
  BY NatLessThanWellFounded
<1> HIDE DEF R
<1>2. \E m \in S : \A n \in S : ~(<<n, m>> \in R)
  BY <1>1, WFMin
<1>3. PICK m \in S : \A n \in S : ~(<<n, m>> \in R)
  BY <1>2
<1>4. \A n \in S : ~(n < m)
  BY <1>3 DEF R, OpToRel
<1> QED BY <1>4, <1>3

\* A set of naturals below n that is not empty has a greatest element.
LEMMA NatGreatest ==
    ASSUME NEW n \in Nat, NEW S \in SUBSET (0..n), S # {}
    PROVE  \E m \in S : \A k \in S : k <= m
<1> DEFINE T == {i \in 0..n : n - i \in S}
<1>1. PICK s \in S : TRUE
  OBVIOUS
<1>2. T \subseteq Nat /\ n - s \in T
  OBVIOUS
<1>3. PICK m \in T : \A k \in T : m <= k
  BY <1>2, NatLeast
<1>4. ASSUME NEW k \in S PROVE k <= n - m
  <2>1. n - k \in 0..n /\ n - (n - k) = k
    OBVIOUS
  <2>2. m <= n - k
    BY <2>1, <1>3
  <2> QED BY <2>1, <2>2
<1> QED BY <1>3, <1>4

\* Division, as batches are counted.
LEMMA DivFacts ==
    ASSUME NEW n \in Nat, NEW z \in Nat \ {0}
    PROVE  /\ n \div z \in Nat
           /\ (n \div z) * z <= n
           /\ n < (n \div z) * z + z
OBVIOUS

\* A number below k batches is in a batch before the k-th, and the other way round.
LEMMA DivBelow ==
    ASSUME NEW n \in Nat, NEW z \in Nat \ {0}, NEW k \in Nat
    PROVE  n \div z < k <=> n < k * z
<1>1. PICK q \in Nat : q = n \div z /\ q * z <= n /\ n < q * z + z
  BY DivFacts
<1>2. CASE q < k
  <2>1. PICK i \in Nat : k = q + 1 + i
    <3>1. k - q - 1 \in Nat /\ k = q + 1 + (k - q - 1)
      BY <1>2
    <3> QED BY <3>1
  <2>2. k * z = q * z + z + i * z /\ i * z >= 0
    BY <2>1
  <2> QED BY <1>1, <1>2, <2>2
<1>3. CASE ~(q < k)
  <2>1. PICK i \in Nat : q = k + i
    <3>1. q - k \in Nat /\ q = k + (q - k)
      BY <1>3
    <3> QED BY <3>1
  <2>2. q * z = k * z + i * z /\ i * z >= 0
    BY <2>1
  <2> QED BY <1>1, <1>3, <2>2
<1> QED BY <1>2, <1>3

\* What a plan holds.
LEMMA PlanFacts ==
    ASSUME TypeOK
    PROVE  /\ plan.enabled \subseteq Services
           /\ plan.order \in [Services -> Nat]
           /\ plan.service \in [Deps -> Services]
           /\ plan.sourced \subseteq Deps
           /\ Size \in Nat \ {0}
           /\ left \subseteq Nat
<1>1. plan \in [strategy : Strategies, batch : Nat \ {0}, enabled : SUBSET Services,
                order : [Services -> Nat], optional : SUBSET Services,
                service : [Deps -> Services], sourced : SUBSET Deps]
  BY WavesAssumption DEF TypeOK, PlanType
<1>2. Size \in Nat \ {0}
  BY <1>1 DEF Size
<1>3. /\ plan.enabled \subseteq Services /\ plan.order \in [Services -> Nat]
      /\ plan.service \in [Deps -> Services] /\ plan.sourced \subseteq Deps
  BY <1>1
<1>4. left \subseteq Nat
  <2>1. \A o \in left : \E s \in plan.enabled : o = plan.order[s]
    BY DEF TypeOK
  <2> QED BY <1>3, <2>1
<1> QED BY <1>2, <1>3, <1>4

\* The sub-plans share no deployment.
LEMMA SubDepsFacts ==
    /\ \A s : SubDeps(s) \subseteq Deps
    /\ \A s : \A d \in SubDeps(s) : plan.service[d] = s
    /\ \A d \in Deps : d \in plan.sourced => d \in SubDeps(plan.service[d])
BY DEF SubDeps

\* The least order is one that is left.
LEMMA NextOrderFacts ==
    ASSUME TypeOK, left # {}
    PROVE  /\ NextOrder \in left
           /\ \A o \in left : NextOrder <= o
BY PlanFacts, NatLeast DEF NextOrder

\* Deployments of S before d.
Below(S, d) == {e \in S : e < d}

\* A rank is a number of whole batches.
LEMMA RankFacts ==
    ASSUME TypeOK, NEW s \in Services, NEW d \in SubDeps(s)
    PROVE  /\ Cardinality(Below(SubDeps(s), d)) \in Nat
           /\ Rank(d) = Cardinality(Below(SubDeps(s), d)) \div Size
           /\ Rank(d) \in Nat
<1>1. IsFiniteSet(Below(SubDeps(s), d))
  BY SubDepsFacts, WavesAssumption, FS_Subset DEF Below
<1>2. Cardinality(Below(SubDeps(s), d)) \in Nat
  BY <1>1, FS_CardinalityType
<1>3. Rank(d) = Cardinality(Below(SubDeps(s), d)) \div Size
  BY SubDepsFacts DEF Rank, Below
<1> QED BY <1>2, <1>3, PlanFacts, DivFacts

\* While what is left of a service is whole batches, the next batch is one of them.
LEMMA FirstBatch ==
    ASSUME TypeOK, NEW s \in Services, Pending(s) # {},
           \A d, e \in SubDeps(s) : d \in Pending(s) /\ Rank(d) <= Rank(e) => e \in Pending(s)
    PROVE  \E k \in Nat : \A d \in Pending(s) :
              Rank(d) >= k /\ (d \in Batch(s) <=> Rank(d) = k)
<1> DEFINE S == SubDeps(s)
           P == Pending(s)
           N(d) == Cardinality(Below(S, d))
<1>1. /\ S \in SUBSET Nat /\ IsFiniteSet(S) /\ P \subseteq S
      /\ Size \in Nat \ {0}
  <2>1. S \subseteq Deps /\ P \subseteq S
    BY SubDepsFacts DEF Pending
  <2> QED BY <2>1, WavesAssumption, FS_Subset, PlanFacts
<1>2. /\ \A d \in S : IsFiniteSet(Below(S, d)) /\ N(d) \in Nat
      /\ \A d \in S : Rank(d) \in Nat /\ Rank(d) = N(d) \div Size
  <2>1. \A d \in S : Below(S, d) \subseteq S
    BY DEF Below
  <2>2. \A d \in S : IsFiniteSet(Below(S, d)) /\ N(d) \in Nat
    BY <1>1, <2>1, FS_Subset, FS_CardinalityType
  <2>3. \A d \in S : Rank(d) \in Nat /\ Rank(d) = N(d) \div Size
    BY RankFacts
  <2> QED BY <2>2, <2>3
<1>3. ASSUME NEW d \in S, NEW e \in S, d <= e PROVE N(d) <= N(e)
  <2>1. Below(S, d) \subseteq Below(S, e)
    BY <1>1, <1>3 DEF Below
  <2> QED BY <1>2, <2>1, FS_Subset
<1>4. PICK m \in P : \A d \in P : m <= d
  BY <1>1, NatLeast
<1> DEFINE k == Rank(m)
<1>5. k \in Nat /\ k * Size \in Nat /\ k * Size <= N(m)
  BY <1>1, <1>2, <1>4, DivFacts
<1>6. ASSUME NEW e \in S, e \notin P PROVE N(e) < k * Size /\ e < m
  <2>1. Rank(e) < k
    BY <1>1, <1>2, <1>4, <1>6
  <2>2. N(e) < k * Size
    BY <1>1, <1>2, <1>5, <2>1, DivBelow
  <2>3. ~(m <= e)
    BY <1>1, <1>2, <1>3, <1>4, <1>5, <2>2
  <2> QED BY <1>1, <1>4, <2>2, <2>3
<1>7. N(m) = k * Size
  <2>1. CASE Below(S, m) = {}
    BY <1>5, <2>1, FS_EmptySet
  <2>2. CASE Below(S, m) # {}
    <3>1. m \in Nat /\ Below(S, m) \subseteq 0..m
      BY <1>1, <1>4 DEF Below
    <3>2. PICK g \in Below(S, m) : \A e \in Below(S, m) : e <= g
      BY <2>2, <3>1, NatGreatest
    <3>3. g \in S /\ g \notin P /\ g < m
      BY <1>1, <1>4, <3>2 DEF Below
    <3>4. Below(S, m) = Below(S, g) \cup {g} /\ g \notin Below(S, g)
      BY <1>1, <1>4, <3>2, <3>3 DEF Below
    <3>5. N(m) = N(g) + 1
      BY <1>2, <3>3, <3>4, FS_AddElement
    <3> QED BY <1>2, <1>5, <1>6, <3>3, <3>5
  <2> QED BY <2>1, <2>2
<1>8. ASSUME NEW d \in P PROVE Rank(d) >= k /\ (d \in Batch(s) <=> Rank(d) = k)
  <2>1. d \in S /\ m \in S /\ N(m) <= N(d)
    BY <1>1, <1>3, <1>4
  <2>2. Rank(d) >= k
    <3>1. N(d) < k * Size <=> Rank(d) < k
      BY <1>1, <1>2, <1>5, <2>1, DivBelow
    <3> QED BY <1>2, <1>5, <2>1, <3>1
  <2>3. /\ Below(S, d) = Below(P, d) \cup Below(S, m)
        /\ Below(P, d) \cap Below(S, m) = {}
    <3>1. d \in Nat /\ m \in Nat /\ m <= d
      BY <1>1, <1>4
    <3>2. \A e \in S : e \notin P => e < m
      BY <1>6
    <3>3. \A e \in P : ~(e < m) /\ e \in Nat
      BY <1>1, <1>4
    <3> QED BY <1>1, <3>1, <3>2, <3>3 DEF Below
  <2>4. IsFiniteSet(Below(P, d)) /\ IsFiniteSet(Below(S, m))
    <3>1. Below(P, d) \subseteq S
      BY <1>1 DEF Below
    <3> QED BY <1>1, <1>2, <2>1, <3>1, FS_Subset
  <2>5. N(d) = Cardinality(Below(P, d)) + k * Size /\ Cardinality(Below(P, d)) \in Nat
    <3>1. Cardinality(Below(P, d) \cup Below(S, m)) =
             Cardinality(Below(P, d)) + Cardinality(Below(S, m))
               - Cardinality(Below(P, d) \cap Below(S, m))
      BY <2>4, FS_Union
    <3>2. Cardinality(Below(P, d) \cap Below(S, m)) = 0
      BY <2>3, FS_EmptySet
    <3>3. Cardinality(Below(P, d)) \in Nat
      BY <2>4, FS_CardinalityType
    <3> QED BY <1>5, <1>7, <2>3, <3>1, <3>2, <3>3
  <2>6. d \in Batch(s) <=> Cardinality(Below(P, d)) < Size
    BY DEF Batch, Below
  <2>7. (k + 1) * Size = k * Size + Size
    BY <1>1, <1>5
  <2>8. d \in Batch(s) <=> N(d) < (k + 1) * Size
    BY <1>1, <1>5, <2>5, <2>6, <2>7
  <2>9. N(d) < (k + 1) * Size <=> Rank(d) < k + 1
    BY <1>1, <1>2, <1>5, <2>1, DivBelow
  <2> QED BY <1>2, <1>5, <2>1, <2>2, <2>8, <2>9
<1> QED BY <1>5, <1>8

\* What the updates of the rows may do.
LEMMA OnHostStatusFacts ==
    ASSUME TypeOK, NEW D \in SUBSET Deps,
           NEW status \in {"running"} \cup Settled, OnHostStatus(D, status)
    PROVE  /\ missed' \in 0..MaxMissed /\ (missed' = 0 => missed = 0)
           /\ row' \in [Deps -> {"pending", "running"} \cup Settled]
           /\ missed' = 0 => \A d \in Deps : row'[d] = IF d \in D THEN status ELSE row[d]
<1>1. PICK M \in SUBSET D :
         /\ missed + Cardinality(M) <= MaxMissed
         /\ missed' = missed + Cardinality(M)
         /\ row' = [d \in Deps |-> IF d \in D \ M THEN status ELSE row[d]]
  BY DEF OnHostStatus
<1>2. IsFiniteSet(M) /\ Cardinality(M) \in Nat /\ missed \in Nat /\ MaxMissed \in Nat
  <2>1. M \subseteq Deps /\ IsFiniteSet(Deps)
    BY <1>1, WavesAssumption
  <2>2. IsFiniteSet(M)
    BY <2>1, FS_Subset
  <2>3. MaxMissed \in Nat /\ missed \in 0..MaxMissed
    <3>1. MaxMissed \in Nat
      BY WavesAssumption
    <3>2. missed \in 0..MaxMissed
      BY DEF TypeOK
    <3> QED BY <3>1, <3>2
  <2> QED BY <2>2, <2>3, FS_CardinalityType
<1>3. missed' \in 0..MaxMissed /\ (missed' = 0 => missed = 0 /\ Cardinality(M) = 0)
  BY <1>1, <1>2
<1>4. Cardinality(M) = 0 => M = {}
  BY <1>2, FS_EmptySet
<1>5. row' \in [Deps -> {"pending", "running"} \cup Settled]
  BY <1>1 DEF TypeOK
<1> QED BY <1>1, <1>3, <1>4, <1>5

-----------------------------------------------------------------------------
(* The steps of a host                                                      *)

\* A step of deployHost is a step of a host whose service waits for it; the outcome is
\* written once, at the end.
LEMMA HostStepFacts ==
    ASSUME IInv, NEW d \in Deps, HostNext(d)
    PROVE  /\ main = "waiting" /\ result = "none"
           /\ UNCHANGED <<plan, loopVars, svcVars, ctxVars, result>>
           /\ d \in SubDeps(plan.service[d]) /\ svcPc[plan.service[d]] = "waiting"
           /\ hostPc[d] \in Active /\ outcome[d] = "none"
           /\ hostPc' \in [Deps -> HostPcs] /\ hostPc'[d] \in {"connected", "switching", "recorded", "done"}
           /\ outcome' \in [Deps -> {"none"} \cup Settled]
           /\ touched' \in [Deps -> BOOLEAN]
           /\ \A e \in Deps : e # d =>
                 hostPc'[e] = hostPc[e] /\ outcome'[e] = outcome[e] /\ touched'[e] = touched[e]
           /\ hostPc'[d] = "done" => outcome'[d] \in {"success", "failed"}
           /\ hostPc'[d] # "done" => outcome'[d] = "none"
           /\ hostPc'[d] \in {"switching", "recorded"} \/ outcome'[d] = "success" => touched'[d]
           /\ row' \in [Deps -> {"pending", "running"} \cup Settled]
           /\ pointer' \in [Deps -> BOOLEAN] /\ missed' \in 0..MaxMissed
           /\ RowsFollow'
<1> USE DEF IInv
<1>1. TypeOK /\ HostShape /\ RowsFollow
  OBVIOUS
<1>2. main = "waiting" /\ hostPc[d] \in Active
  BY DEF HostNext, HostStarts, HostSwitches, HostFails, HostSucceeds, OnDeploymentSuccess,
         HostStep, Active
<1>3. /\ d \in plan.sourced /\ svcPc[plan.service[d]] = "waiting" /\ outcome[d] = "none"
      /\ d \in SubDeps(plan.service[d]) /\ result = "none"
  <2>1. d \in plan.sourced /\ svcPc[plan.service[d]] = "waiting" /\ outcome[d] = "none"
    BY <1>2 DEF HostShape, Active
  <2>2. result = "none"
    BY <1>2 DEF WaveShape
  <2> QED BY <2>1, <2>2, SubDepsFacts
<1>4. CASE HostStarts(d)
  <2>1. /\ hostPc' = [hostPc EXCEPT ![d] = "connected"] /\ hostPc[d] = "dial"
        /\ UNCHANGED <<plan, loopVars, svcVars, ctxVars, result, outcome, pointer, touched>>
        /\ OnHostStatus({d}, "running")
    BY <1>4 DEF HostStarts, HostStep
  <2>2. /\ missed' \in 0..MaxMissed /\ (missed' = 0 => missed = 0)
        /\ row' \in [Deps -> {"pending", "running"} \cup Settled]
        /\ missed' = 0 => \A e \in Deps : e # d => row'[e] = row[e]
    BY <1>1, <2>1, OnHostStatusFacts
  <2>3. hostPc' \in [Deps -> HostPcs] /\ hostPc'[d] = "connected"
        /\ \A e \in Deps : e # d => hostPc'[e] = hostPc[e]
    BY <1>1, <2>1 DEF TypeOK, HostPcs
  <2>4. RowsFollow'
    BY <1>1, <1>3, <2>1, <2>2, <2>3 DEF RowsFollow, Settled
  <2> QED BY <1>1, <1>2, <1>3, <2>1, <2>2, <2>3, <2>4 DEF TypeOK
<1>5. CASE HostSwitches(d)
  <2>1. /\ hostPc' = [hostPc EXCEPT ![d] = "switching"]
        /\ touched' = [touched EXCEPT ![d] = TRUE]
        /\ UNCHANGED <<plan, loopVars, svcVars, ctxVars, result, outcome, row, pointer, missed>>
    BY <1>5 DEF HostSwitches, HostStep
  <2>2. /\ hostPc' \in [Deps -> HostPcs] /\ hostPc'[d] = "switching"
        /\ touched' \in [Deps -> BOOLEAN] /\ touched'[d]
        /\ \A e \in Deps : e # d => hostPc'[e] = hostPc[e] /\ touched'[e] = touched[e]
    BY <1>1, <2>1 DEF TypeOK, HostPcs
  <2>3. RowsFollow'
    BY <1>1, <2>1, <2>2 DEF RowsFollow
  <2> QED BY <1>1, <1>2, <1>3, <2>1, <2>2, <2>3 DEF TypeOK
<1>6. CASE HostFails(d)
  <2>1. /\ hostPc' = [hostPc EXCEPT ![d] = "done"] /\ outcome' = Outcomes({d}, "failed")
        /\ UNCHANGED <<plan, loopVars, svcVars, ctxVars, result, pointer, touched>>
        /\ OnHostStatus({d}, "failed")
    BY <1>6 DEF HostFails, HostStep
  <2>2. /\ missed' \in 0..MaxMissed /\ (missed' = 0 => missed = 0)
        /\ row' \in [Deps -> {"pending", "running"} \cup Settled]
        /\ missed' = 0 => \A e \in Deps : row'[e] = IF e = d THEN "failed" ELSE row[e]
    BY <1>1, <2>1, OnHostStatusFacts DEF Settled
  <2>3. /\ hostPc' \in [Deps -> HostPcs] /\ hostPc'[d] = "done"
        /\ outcome' \in [Deps -> {"none"} \cup Settled] /\ outcome'[d] = "failed"
        /\ \A e \in Deps : e # d => hostPc'[e] = hostPc[e] /\ outcome'[e] = outcome[e]
    BY <1>1, <2>1 DEF TypeOK, HostPcs, Outcomes, Settled
  <2>4. RowsFollow'
    BY <1>1, <2>1, <2>2, <2>3 DEF RowsFollow
  <2> QED BY <1>1, <1>2, <1>3, <2>1, <2>2, <2>3, <2>4 DEF TypeOK
<1>7. CASE HostSucceeds(d)
  <2>1. /\ hostPc' = [hostPc EXCEPT ![d] = "recorded"] /\ hostPc[d] = "switching"
        /\ UNCHANGED <<plan, loopVars, svcVars, ctxVars, result, outcome, pointer, touched>>
        /\ OnHostStatus({d}, "success")
    BY <1>7 DEF HostSucceeds, HostStep
  <2>2. /\ missed' \in 0..MaxMissed /\ (missed' = 0 => missed = 0)
        /\ row' \in [Deps -> {"pending", "running"} \cup Settled]
        /\ missed' = 0 => \A e \in Deps : row'[e] = IF e = d THEN "success" ELSE row[e]
    BY <1>1, <2>1, OnHostStatusFacts DEF Settled
  <2>3. hostPc' \in [Deps -> HostPcs] /\ hostPc'[d] = "recorded"
        /\ \A e \in Deps : e # d => hostPc'[e] = hostPc[e]
    BY <1>1, <2>1 DEF TypeOK, HostPcs
  <2>4. RowsFollow'
    BY <1>1, <1>3, <2>1, <2>2, <2>3 DEF RowsFollow, Settled
  <2>5. touched[d]
    BY <1>1, <2>1 DEF HostShape
  <2> QED BY <1>1, <1>2, <1>3, <2>1, <2>2, <2>3, <2>4, <2>5 DEF TypeOK
<1>8. CASE OnDeploymentSuccess(d)
  <2>1. /\ hostPc' = [hostPc EXCEPT ![d] = "done"] /\ hostPc[d] = "recorded"
        /\ outcome' = Outcomes({d}, "success")
        /\ UNCHANGED <<plan, loopVars, svcVars, ctxVars, result, row, touched>>
    BY <1>8 DEF OnDeploymentSuccess, HostStep
  <2>2. /\ hostPc' \in [Deps -> HostPcs] /\ hostPc'[d] = "done"
        /\ outcome' \in [Deps -> {"none"} \cup Settled] /\ outcome'[d] = "success"
        /\ \A e \in Deps : e # d => hostPc'[e] = hostPc[e] /\ outcome'[e] = outcome[e]
    BY <1>1, <2>1 DEF TypeOK, HostPcs, Outcomes, Settled
  <2>3. /\ missed' \in 0..MaxMissed /\ (missed' = 0 => missed = 0)
        /\ pointer' \in [Deps -> BOOLEAN]
        /\ missed' = 0 => pointer'[d] /\ \A e \in Deps : pointer[e] => pointer'[e]
    <3>1. CASE pointer' = [pointer EXCEPT ![d] = TRUE] /\ UNCHANGED missed
      BY <1>1, <3>1 DEF TypeOK
    <3>2. CASE missed < MaxMissed /\ missed' = missed + 1 /\ UNCHANGED pointer
      <4>1. MaxMissed \in Nat
        BY WavesAssumption
      <4>2. missed \in 0..MaxMissed /\ pointer \in [Deps -> BOOLEAN]
        BY <1>1 DEF TypeOK
      <4> QED BY <3>2, <4>1, <4>2
    <3> QED BY <1>8, <3>1, <3>2 DEF OnDeploymentSuccess
  <2>4. RowsFollow'
    BY <1>1, <2>1, <2>2, <2>3 DEF RowsFollow
  <2>5. touched[d]
    BY <1>1, <2>1 DEF HostShape
  <2> QED BY <1>1, <1>2, <1>3, <2>1, <2>2, <2>3, <2>4, <2>5 DEF TypeOK
<1> QED BY <1>4, <1>5, <1>6, <1>7, <1>8 DEF HostNext

\* While the plan is the same, so are its parts.
LEMMA PlanKept ==
    ASSUME plan' = plan
    PROVE  /\ \A s : SubDeps(s)' = SubDeps(s)
           /\ \A d : Rank(d)' = Rank(d)
<1>1. \A s : SubDeps(s)' = SubDeps(s)
  BY DEF SubDeps
<1> QED BY <1>1 DEF Rank, Size

\* The invariant says the same of the other hosts, and of this one what it has come to.
LEMMA HostKeeps ==
    ASSUME IInv, NEW d \in Deps, HostNext(d)
    PROVE  IInv'
<1> USE DEF IInv
<1>1. /\ main = "waiting" /\ result = "none"
      /\ UNCHANGED <<plan, loopVars, svcVars, ctxVars, result>>
      /\ d \in SubDeps(plan.service[d]) /\ svcPc[plan.service[d]] = "waiting"
      /\ hostPc[d] \in Active /\ outcome[d] = "none"
  BY HostStepFacts
<1>2. /\ hostPc' \in [Deps -> HostPcs] /\ hostPc'[d] \in {"connected", "switching", "recorded", "done"}
      /\ outcome' \in [Deps -> {"none"} \cup Settled]
      /\ touched' \in [Deps -> BOOLEAN]
      /\ \A e \in Deps : e # d =>
            hostPc'[e] = hostPc[e] /\ outcome'[e] = outcome[e] /\ touched'[e] = touched[e]
      /\ hostPc'[d] = "done" => outcome'[d] \in {"success", "failed"}
      /\ hostPc'[d] # "done" => outcome'[d] = "none"
      /\ hostPc'[d] \in {"switching", "recorded"} \/ outcome'[d] = "success" => touched'[d]
  BY HostStepFacts
<1>3. /\ \A s : SubDeps(s)' = SubDeps(s)
      /\ \A e : Rank(e)' = Rank(e)
  BY <1>1, PlanKept
<1>4. PICK s \in Services : s = plan.service[d]
  BY PlanFacts
<1>5. \A t : t # s => d \notin SubDeps(t)
  BY <1>4, SubDepsFacts
<1>6. \A t : SubDeps(t) \subseteq Deps
  BY SubDepsFacts
<1>7. AnyFailed => AnyFailed'
  BY <1>1, <1>2 DEF AnyFailed
<1>8. ASSUME NEW t \in Services, t # s
      PROVE  /\ SettledAll(t)' <=> SettledAll(t)
             /\ Failed(t)' <=> Failed(t)
  <2>1. \A e \in SubDeps(t) : outcome'[e] = outcome[e]
    BY <1>2, <1>5, <1>6, <1>8
  <2> QED BY <1>3, <2>1 DEF SettledAll, Failed
<1>9. ~SettledAll(s)
  BY <1>1, <1>4 DEF SettledAll, Settled
<1>10. Reached(s) /\ \A t \in Services : Reached(t)' <=> Reached(t)
  <2>1. svcPc[s] = "waiting"
    BY <1>1, <1>4
  <2> QED BY <1>1, <2>1 DEF Reached, WaveShape, loopVars
<1>11. TypeOK'
  <2>1. /\ row' \in [Deps -> {"pending", "running"} \cup Settled]
        /\ pointer' \in [Deps -> BOOLEAN] /\ missed' \in 0..MaxMissed
    BY HostStepFacts
  <2>2. left' \subseteq {plan.order[t] : t \in plan.enabled}'
    BY <1>1 DEF TypeOK, loopVars
  <2> QED BY <1>1, <1>2, <2>1, <2>2 DEF TypeOK, loopVars, svcVars, ctxVars
<1>12. WaveShape'
  BY <1>1, <1>10 DEF WaveShape, loopVars, svcVars
<1>13. HostShape'
  <2>1. \A e \in Deps : Reached(plan.service[e])' <=> Reached(plan.service[e])
    BY <1>1 DEF Reached, loopVars
  <2>2. d \in plan.sourced
    BY <1>1 DEF HostShape, Active
  <2> QED BY <1>1, <1>2, <1>4, <1>10, <2>1, <2>2 DEF HostShape, Active, svcVars
<1>14. RowsFollow'
  BY HostStepFacts
<1>15. WavesBehind'
  <2>1. svcPc[s] = "waiting"
    BY <1>1, <1>4
  <2> QED BY <1>1, <1>8, <2>1 DEF WavesBehind, loopVars, svcVars
<1>16. Barrier'
  <2>1. plan.enabled \subseteq Services
    BY PlanFacts
  <2> QED BY <1>1, <1>8, <1>9, <2>1 DEF Barrier, svcVars
<1>17. WholeBatches'
  <2>1. ASSUME NEW t \in Services, NEW e \in SubDeps(t)
        PROVE  /\ e \in Pending(t)' <=> e \in Pending(t)
               /\ outcome'[e] = "skipped" <=> outcome[e] = "skipped"
    <3>1. e \in Deps
      BY <1>6
    <3> QED BY <1>1, <1>2, <1>3, <3>1 DEF Pending, Active
  <2>2. svcPc[s] = "waiting"
    BY <1>1, <1>4
  <2> QED BY <1>1, <1>3, <1>8, <2>1, <2>2 DEF WholeBatches, svcVars
<1>18. BatchesWaitTheirTurn'
  <2>1. \A e \in Deps : /\ hostPc'[e] # "idle" <=> hostPc[e] # "idle"
                        /\ outcome[e] = "success" => outcome'[e] = "success"
    BY <1>1, <1>2 DEF Active
  <2> QED BY <1>1, <1>3, <1>6, <2>1 DEF BatchesWaitTheirTurn
<1>19. SkippedForAReason'
  <2>1. \A e \in Deps : outcome'[e] = "skipped" => outcome[e] = "skipped"
    BY <1>1, <1>2
  <2> QED BY <1>1, <1>7, <2>1 DEF SkippedForAReason, loopVars, svcVars, ctxVars, ctxDone
<1>20. OneWaveIsPassedOver'
  BY <1>1 DEF OneWaveIsPassedOver, loopVars
<1> QED BY <1>11, <1>12, <1>13, <1>14, <1>15, <1>16, <1>17, <1>18, <1>19, <1>20

-----------------------------------------------------------------------------
(* The steps of a service                                                   *)

\* Skipping deployments that nobody has come to takes no outcome back.
LEMMA SkipFacts ==
    ASSUME IInv, NEW D \in SUBSET Deps, skipHosts(D), plan' = plan,
           \A d \in D : outcome[d] = "none" /\ hostPc[d] = "idle"
    PROVE  /\ outcome' \in [Deps -> {"none"} \cup Settled]
           /\ \A d \in Deps : outcome'[d] = IF d \in D THEN "skipped" ELSE outcome[d]
           /\ row' \in [Deps -> {"pending", "running"} \cup Settled]
           /\ missed' \in 0..MaxMissed
           /\ missed' = 0 => missed = 0 /\
                 \A d \in Deps : row'[d] = IF d \in D THEN "skipped" ELSE row[d]
           /\ AnyFailed' <=> AnyFailed
           /\ \A t : Failed(t)' <=> Failed(t)
           /\ \A t : SettledAll(t) => SettledAll(t)'
<1>1. outcome' = Outcomes(D, "skipped") /\ OnHostStatus(D, "skipped") /\ TypeOK
  BY DEF skipHosts, IInv
<1>2. /\ missed' \in 0..MaxMissed /\ (missed' = 0 => missed = 0)
      /\ row' \in [Deps -> {"pending", "running"} \cup Settled]
      /\ missed' = 0 => \A d \in Deps : row'[d] = IF d \in D THEN "skipped" ELSE row[d]
  BY <1>1, OnHostStatusFacts DEF Settled
<1>3. /\ outcome' \in [Deps -> {"none"} \cup Settled]
      /\ \A d \in Deps : outcome'[d] = IF d \in D THEN "skipped" ELSE outcome[d]
  BY <1>1 DEF TypeOK, Outcomes, Settled
<1>4. AnyFailed' <=> AnyFailed
  BY <1>3 DEF AnyFailed
<1>5. /\ \A t : Failed(t)' <=> Failed(t)
      /\ \A t : SettledAll(t) => SettledAll(t)'
  <2>1. \A t : SubDeps(t) \subseteq Deps /\ SubDeps(t)' = SubDeps(t)
    BY SubDepsFacts, PlanKept
  <2> QED BY <1>3, <2>1 DEF Failed, SettledAll, Settled
<1> QED BY <1>2, <1>3, <1>4, <1>5

\* A deployment between two batches is pending or has its outcome.
LEMMA BetweenBatches ==
    ASSUME IInv, NEW s \in Services, svcPc[s] # "waiting",
           NEW d \in SubDeps(s), d \notin Pending(s)
    PROVE  \/ hostPc[d] = "done" /\ outcome[d] \in {"success", "failed"}
           \/ hostPc[d] = "idle" /\ outcome[d] = "skipped"
<1>1. d \in Deps /\ plan.service[d] = s
  BY SubDepsFacts
<1>2. hostPc[d] \in HostPcs /\ hostPc[d] \notin Active
  BY <1>1 DEF IInv, TypeOK, HostShape
<1> QED BY <1>1, <1>2 DEF IInv, HostShape, HostPcs, Active, Pending

\* What every step of the goroutine of s leaves alone.
LEMMA ServiceKeeps ==
    ASSUME IInv, NEW s \in Services,
           main = "waiting", svcPc[s] \in {"next", "waiting"},
           UNCHANGED <<plan, loopVars, ctxVars, result>>,
           svcPc' \in [Services -> {"idle", "next", "waiting", "done"}],
           svcPc'[s] \in {"next", "waiting", "done"},
           \A t \in Services : t # s => svcPc'[t] = svcPc[t],
           svcPc'[s] = "done" => SettledAll(s)',
           \A t : Failed(t)' <=> Failed(t),
           \A t : SettledAll(t) => SettledAll(t)'
    PROVE  WaveShape' /\ WavesBehind' /\ OneWaveIsPassedOver' /\ Barrier'
<1> USE DEF IInv
<1>1. result = "none" /\ s \in wave /\ Reached(s)
  BY DEF WaveShape
<1>2. \A t \in Services : Reached(t)' <=> Reached(t)
  BY DEF Reached, loopVars
<1>3. plan.enabled \subseteq Services
  BY PlanFacts
<1>4. WaveShape'
  BY <1>1, <1>2, <1>3 DEF WaveShape, loopVars, TypeOK
<1>5. WavesBehind'
  BY <1>1, <1>2, <1>3 DEF WavesBehind, loopVars
<1>6. Barrier'
  BY <1>1, <1>2, <1>3 DEF Barrier, loopVars
<1>7. OneWaveIsPassedOver'
  BY DEF OneWaveIsPassedOver, loopVars
<1> QED BY <1>4, <1>5, <1>6, <1>7

\* A batch starts: it is the first that is left, and every earlier one went well.
LEMMA StartBatchStep ==
    ASSUME IInv, NEW s \in Services, StartBatch(s)
    PROVE  IInv'
<1> USE DEF IInv
<1>1. /\ main = "waiting" /\ svcPc[s] = "next" /\ Batch(s) # {} /\ ~svcStop[s]
      /\ svcPc' = [svcPc EXCEPT ![s] = "waiting"]
      /\ hostPc' = [d \in Deps |-> IF d \in Batch(s) \cap plan.sourced THEN "dial" ELSE hostPc[d]]
      /\ skipHosts(Batch(s) \ plan.sourced)
      /\ UNCHANGED <<plan, loopVars, svcStop, pointer, touched, ctxVars, result>>
  BY DEF StartBatch
<1>2. /\ Batch(s) \subseteq Pending(s) /\ Pending(s) \subseteq SubDeps(s) /\ Pending(s) # {}
      /\ Pending(s) \subseteq Deps
      /\ \A d \in Pending(s) : hostPc[d] = "idle" /\ outcome[d] = "none" /\ plan.service[d] = s
  <2>1. Batch(s) \subseteq Pending(s) /\ Pending(s) \subseteq SubDeps(s)
    BY DEF Batch, Pending
  <2>2. \A d \in Pending(s) : hostPc[d] = "idle" /\ outcome[d] = "none"
    BY DEF Pending
  <2> QED BY <1>1, <2>1, <2>2, SubDepsFacts
<1>3. /\ outcome' \in [Deps -> {"none"} \cup Settled]
      /\ \A d \in Deps :
            outcome'[d] = IF d \in Batch(s) \ plan.sourced THEN "skipped" ELSE outcome[d]
      /\ row' \in [Deps -> {"pending", "running"} \cup Settled]
      /\ missed' \in 0..MaxMissed
      /\ missed' = 0 => missed = 0 /\
            \A d \in Deps : row'[d] = IF d \in Batch(s) \ plan.sourced THEN "skipped" ELSE row[d]
      /\ AnyFailed' <=> AnyFailed
      /\ \A t : Failed(t)' <=> Failed(t)
      /\ \A t : SettledAll(t) => SettledAll(t)'
  BY <1>1, <1>2, SkipFacts
<1>4. /\ \A t : SubDeps(t)' = SubDeps(t) /\ SubDeps(t) \subseteq Deps
      /\ \A t : \A d \in SubDeps(t) : plan.service[d] = t
      /\ \A e : Rank(e)' = Rank(e)
  BY <1>1, PlanKept, SubDepsFacts
<1>5. /\ svcPc' \in [Services -> {"idle", "next", "waiting", "done"}] /\ svcPc'[s] = "waiting"
      /\ \A t \in Services : t # s => svcPc'[t] = svcPc[t]
  BY <1>1 DEF TypeOK
<1>6. /\ hostPc' \in [Deps -> HostPcs]
      /\ \A d \in Deps :
            hostPc'[d] = IF d \in Batch(s) /\ d \in plan.sourced THEN "dial" ELSE hostPc[d]
  BY <1>1 DEF TypeOK, HostPcs
<1>7. Reached(s) /\ \A t \in Services : Reached(t)' <=> Reached(t)
  BY <1>1 DEF Reached, WaveShape, loopVars
<1>8. TypeOK'
  <2>1. left' \subseteq {plan.order[t] : t \in plan.enabled}'
    BY <1>1 DEF TypeOK, loopVars
  <2> QED BY <1>1, <1>3, <1>5, <1>6, <2>1 DEF TypeOK, loopVars, ctxVars
<1>9. WaveShape' /\ WavesBehind' /\ OneWaveIsPassedOver' /\ Barrier'
  BY <1>1, <1>3, <1>5, ServiceKeeps
<1>10. HostShape'
  <2>1. \A d \in Deps : Reached(plan.service[d])' <=> Reached(plan.service[d])
    BY <1>1 DEF Reached, loopVars
  <2>2. \A d \in Deps : plan.service[d] \in Services
    BY PlanFacts
  <2>3. ASSUME NEW d \in Deps, d \notin Batch(s)
        PROVE  /\ hostPc'[d] = hostPc[d] /\ outcome'[d] = outcome[d]
               /\ svcPc[plan.service[d]] = "waiting" => svcPc'[plan.service[d]] = "waiting"
               /\ svcPc[plan.service[d]] # "idle" => svcPc'[plan.service[d]] # "idle"
    BY <1>3, <1>5, <1>6, <2>2, <2>3
  <2>4. ASSUME NEW d \in Deps, d \in Batch(s)
        PROVE  /\ plan.service[d] = s /\ ~touched[d] /\ hostPc[d] = "idle"
               /\ IF d \in plan.sourced
                  THEN hostPc'[d] = "dial" /\ outcome'[d] = "none"
                  ELSE hostPc'[d] = "idle" /\ outcome'[d] = "skipped"
    BY <1>2, <1>3, <1>6, <2>4 DEF HostShape
  <2> QED BY <1>1, <1>5, <1>7, <2>1, <2>3, <2>4 DEF HostShape, Active
<1>11. RowsFollow'
  BY <1>1, <1>2, <1>3, <1>6 DEF RowsFollow, Settled
<1>12. ASSUME NEW t \in Services, t # s PROVE Pending(t)' = Pending(t)
  <2>1. \A d \in SubDeps(t) : d \notin Batch(s) /\ d \in Deps
    BY <1>2, <1>4, <1>12
  <2> QED BY <1>3, <1>4, <1>6, <2>1 DEF Pending
<1>13. Pending(s)' = Pending(s) \ Batch(s)
  <2>1. \A d \in SubDeps(s) : d \in Deps
    BY <1>4
  <2> QED BY <1>2, <1>3, <1>4, <1>6, <2>1 DEF Pending
<1>14. PICK k \in Nat : \A d \in Pending(s) : Rank(d) >= k /\ (d \in Batch(s) <=> Rank(d) = k)
  BY <1>1, <1>2, FirstBatch DEF WholeBatches
<1>15. \A d \in SubDeps(s) : Rank(d) \in Nat
  BY RankFacts
<1>16. WholeBatches'
  <2>1. ASSUME NEW t \in Services, t # s, svcPc'[t] \in {"next", "waiting"}, ~svcStop'[t]
        PROVE  /\ \A d, e \in SubDeps(t)' :
                     d \in Pending(t)' /\ Rank(d)' <= Rank(e)' => e \in Pending(t)'
               /\ \A d \in SubDeps(t)' : outcome'[d] = "skipped" => d \notin plan'.sourced
               /\ svcPc'[t] = "next" => ~Failed(t)'
    <3>1. svcPc[t] = svcPc'[t] /\ ~svcStop[t]
      BY <1>1, <1>5, <2>1
    <3>2. \A d \in SubDeps(t) : d \in Deps /\ outcome'[d] = outcome[d]
      BY <1>2, <1>3, <1>4, <2>1
    <3> QED BY <1>1, <1>3, <1>4, <1>12, <2>1, <3>1, <3>2 DEF WholeBatches
  <2>2. \A d, e \in SubDeps(s)' :
           d \in Pending(s)' /\ Rank(d)' <= Rank(e)' => e \in Pending(s)'
    <3>1. ASSUME NEW d \in SubDeps(s), NEW e \in SubDeps(s),
                 d \in Pending(s), d \notin Batch(s), Rank(d) <= Rank(e)
          PROVE  e \in Pending(s) /\ e \notin Batch(s)
      <4>1. e \in Pending(s)
        BY <1>1, <3>1 DEF WholeBatches
      <4>2. Rank(d) >= k /\ Rank(d) # k /\ Rank(d) \in Nat /\ Rank(e) \in Nat
        BY <1>14, <1>15, <3>1
      <4> QED BY <1>14, <3>1, <4>1, <4>2
    <3> QED BY <1>4, <1>13, <3>1
  <2>3. \A d \in SubDeps(s)' : outcome'[d] = "skipped" => d \notin plan'.sourced
    <3>1. \A d \in SubDeps(s) : d \in Deps
      BY <1>4
    <3> QED BY <1>1, <1>3, <1>4, <3>1 DEF WholeBatches
  <2> QED BY <1>5, <2>1, <2>2, <2>3 DEF WholeBatches
<1>17. BatchesWaitTheirTurn'
  <2>1. \A d \in Deps : outcome[d] = "success" => outcome'[d] = "success"
    BY <1>2, <1>3
  <2>2. ASSUME NEW t \in plan.enabled, NEW d \in SubDeps(t), NEW e \in SubDeps(t),
               Rank(d) < Rank(e), hostPc'[e] # "idle"
        PROVE  outcome'[d] = "success" \/ d \notin plan.sourced
    <3>1. d \in Deps /\ e \in Deps
      BY <1>4
    <3>2. CASE hostPc[e] # "idle"
      BY <2>1, <2>2, <3>1, <3>2 DEF BatchesWaitTheirTurn
    <3>3. CASE hostPc[e] = "idle"
      <4>1. e \in Batch(s) /\ t = s
        BY <1>2, <1>4, <1>6, <2>2, <3>1, <3>3
      <4>2. Rank(e) = k /\ d \notin Pending(s)
        <5>1. Rank(e) = k
          BY <1>2, <1>14, <4>1
        <5>2. ~(Rank(d) >= k)
          BY <1>15, <2>2, <4>1, <5>1
        <5> QED BY <1>14, <5>1, <5>2
      <4>3. outcome[d] # "failed"
        BY <1>1, <2>2, <4>1 DEF WholeBatches, Failed
      <4>4. outcome[d] = "success" \/ outcome[d] = "skipped"
        BY <1>1, <2>2, <4>1, <4>2, <4>3, BetweenBatches
      <4>5. outcome[d] = "skipped" => d \notin plan.sourced
        BY <1>1, <2>2, <4>1 DEF WholeBatches
      <4> QED BY <2>1, <3>1, <4>4, <4>5
    <3> QED BY <3>2, <3>3
  <2> QED BY <1>1, <1>4, <2>2 DEF BatchesWaitTheirTurn
<1>18. SkippedForAReason'
  BY <1>1, <1>3 DEF SkippedForAReason, loopVars, ctxVars, ctxDone
<1> QED BY <1>8, <1>9, <1>10, <1>11, <1>16, <1>17, <1>18

\* The rest of a service is skipped after a failure or at the end of the context.
LEMMA SkipRestStep ==
    ASSUME IInv, NEW s \in Services, SkipRest(s)
    PROVE  IInv'
<1> USE DEF IInv
<1>1. /\ main = "waiting" /\ svcPc[s] = "next" /\ (svcStop[s] \/ ctxDone)
      /\ svcStop' = [svcStop EXCEPT ![s] = TRUE]
      /\ skipHosts(Pending(s))
      /\ UNCHANGED <<plan, loopVars, svcPc, hostPc, pointer, touched, ctxVars, result>>
  BY DEF SkipRest
<1>2. /\ Pending(s) \subseteq SubDeps(s) /\ Pending(s) \subseteq Deps
      /\ \A d \in Pending(s) : hostPc[d] = "idle" /\ outcome[d] = "none" /\ plan.service[d] = s
  <2>1. /\ Pending(s) \subseteq SubDeps(s)
        /\ \A d \in Pending(s) : hostPc[d] = "idle" /\ outcome[d] = "none"
    BY DEF Pending
  <2> QED BY <2>1, SubDepsFacts
<1>3. /\ outcome' \in [Deps -> {"none"} \cup Settled]
      /\ \A d \in Deps : outcome'[d] = IF d \in Pending(s) THEN "skipped" ELSE outcome[d]
      /\ row' \in [Deps -> {"pending", "running"} \cup Settled]
      /\ missed' \in 0..MaxMissed
      /\ missed' = 0 => missed = 0 /\
            \A d \in Deps : row'[d] = IF d \in Pending(s) THEN "skipped" ELSE row[d]
      /\ AnyFailed' <=> AnyFailed
      /\ \A t : Failed(t)' <=> Failed(t)
      /\ \A t : SettledAll(t) => SettledAll(t)'
  BY <1>1, <1>2, SkipFacts
<1>4. /\ \A t : SubDeps(t)' = SubDeps(t) /\ SubDeps(t) \subseteq Deps
      /\ \A t : \A d \in SubDeps(t) : plan.service[d] = t
      /\ \A e : Rank(e)' = Rank(e)
  BY <1>1, PlanKept, SubDepsFacts
<1>5. /\ svcStop' \in [Services -> BOOLEAN] /\ svcStop'[s]
      /\ \A t \in Services : t # s => (svcStop'[t] <=> svcStop[t])
  BY <1>1 DEF TypeOK
<1>6. Reached(s) /\ \A t \in Services : Reached(t)' <=> Reached(t)
  BY <1>1 DEF Reached, WaveShape, loopVars
<1>7. TypeOK'
  <2>1. left' \subseteq {plan.order[t] : t \in plan.enabled}'
    BY <1>1 DEF TypeOK, loopVars
  <2> QED BY <1>1, <1>3, <1>5, <2>1 DEF TypeOK, loopVars, ctxVars
<1>8. WaveShape' /\ WavesBehind' /\ OneWaveIsPassedOver' /\ Barrier'
  <2>1. svcPc' \in [Services -> {"idle", "next", "waiting", "done"}]
    BY <1>1 DEF TypeOK
  <2> QED BY <1>1, <1>3, <2>1, ServiceKeeps
<1>9. HostShape'
  <2>1. \A d \in Deps : Reached(plan.service[d])' <=> Reached(plan.service[d])
    BY <1>1 DEF Reached, loopVars
  <2> QED BY <1>1, <1>2, <1>3, <1>6, <2>1 DEF HostShape, Active
<1>10. RowsFollow'
  BY <1>1, <1>2, <1>3 DEF RowsFollow, Settled
<1>11. WholeBatches'
  <2>1. ASSUME NEW t \in Services, t # s, svcPc'[t] \in {"next", "waiting"}, ~svcStop'[t]
        PROVE  /\ \A d, e \in SubDeps(t)' :
                     d \in Pending(t)' /\ Rank(d)' <= Rank(e)' => e \in Pending(t)'
               /\ \A d \in SubDeps(t)' : outcome'[d] = "skipped" => d \notin plan'.sourced
               /\ svcPc'[t] = "next" => ~Failed(t)'
    <3>1. svcPc[t] = svcPc'[t] /\ ~svcStop[t]
      BY <1>1, <1>5, <2>1
    <3>2. \A d \in SubDeps(t) : d \in Deps /\ outcome'[d] = outcome[d]
      BY <1>2, <1>3, <1>4, <2>1
    <3>3. Pending(t)' = Pending(t)
      BY <1>1, <1>4, <3>2 DEF Pending
    <3> QED BY <1>1, <1>3, <1>4, <2>1, <3>1, <3>2, <3>3 DEF WholeBatches
  <2> QED BY <1>5, <2>1 DEF WholeBatches
<1>12. BatchesWaitTheirTurn'
  <2>1. \A d \in Deps : outcome[d] = "success" => outcome'[d] = "success"
    BY <1>2, <1>3
  <2> QED BY <1>1, <1>4, <2>1 DEF BatchesWaitTheirTurn
<1>13. ctxDone \/ AnyFailed
  BY <1>1 DEF SkippedForAReason
<1>14. SkippedForAReason'
  BY <1>1, <1>3, <1>13 DEF SkippedForAReason, loopVars, ctxVars, ctxDone
<1> QED BY <1>7, <1>8, <1>9, <1>10, <1>11, <1>12, <1>14

\* A batch ends when every host of it is done, and tells whether one has failed; a service
\* ends when nothing is pending.
LEMMA EndBatchStep ==
    ASSUME IInv, NEW s \in Services, EndBatch(s) \/ ServiceDone(s)
    PROVE  IInv'
<1> USE DEF IInv
<1>1. /\ main = "waiting" /\ svcPc[s] \in {"next", "waiting"}
      /\ UNCHANGED <<plan, loopVars, hostVars, ctxVars, result>>
  BY DEF EndBatch, ServiceDone
<1>2. /\ svcPc' \in [Services -> {"idle", "next", "waiting", "done"}]
      /\ svcPc'[s] \in {"next", "done"}
      /\ \A t \in Services : t # s => svcPc'[t] = svcPc[t]
  BY DEF EndBatch, ServiceDone, TypeOK
<1>3. /\ svcStop' \in [Services -> BOOLEAN]
      /\ \A t \in Services : t # s => svcStop'[t] = svcStop[t]
      /\ svcStop[s] => svcStop'[s]
      /\ svcPc'[s] = "next" /\ ~svcStop'[s] => ~Failed(s)
      /\ svcStop'[s] => svcStop[s] \/ Failed(s)
  <2>1. CASE EndBatch(s)
    <3>1. svcStop' = [svcStop EXCEPT ![s] = @ \/ Failed(s)] /\ svcStop \in [Services -> BOOLEAN]
      BY <2>1 DEF EndBatch, TypeOK
    <3>2. Failed(s) \in BOOLEAN
      BY DEF Failed
    <3> HIDE DEF IInv
    <3> QED BY <3>1, <3>2
  <2>2. CASE ServiceDone(s)
    BY <2>2 DEF ServiceDone, TypeOK
  <2> QED BY <2>1, <2>2
<1>4. /\ \A t : SubDeps(t)' = SubDeps(t) /\ SubDeps(t) \subseteq Deps
      /\ \A t : \A d \in SubDeps(t) : plan.service[d] = t
      /\ \A e : Rank(e)' = Rank(e)
      /\ \A t : Pending(t)' = Pending(t)
  <2>1. /\ \A t : SubDeps(t)' = SubDeps(t) /\ SubDeps(t) \subseteq Deps
        /\ \A t : \A d \in SubDeps(t) : plan.service[d] = t
        /\ \A e : Rank(e)' = Rank(e)
    BY <1>1, PlanKept, SubDepsFacts
  <2> QED BY <1>1, <2>1 DEF Pending, hostVars
<1>5. /\ \A t : Failed(t)' <=> Failed(t)
      /\ \A t : SettledAll(t) <=> SettledAll(t)'
      /\ AnyFailed' <=> AnyFailed
  BY <1>1, <1>4 DEF Failed, SettledAll, AnyFailed, hostVars
<1>6. ASSUME svcPc'[s] = "done" PROVE SettledAll(s)
  <2>1. Pending(s) = {} /\ svcPc[s] = "next"
    BY <1>6 DEF EndBatch, ServiceDone, TypeOK
  <2>2. \A d \in SubDeps(s) : outcome[d] \in {"success", "failed", "skipped"}
    BY <2>1, BetweenBatches
  <2> QED BY <2>2 DEF SettledAll, Settled
<1>7. \A d \in SubDeps(s) : hostPc[d] \notin Active
  <2>1. CASE EndBatch(s)
    BY <2>1 DEF EndBatch, BatchOver, Active
  <2>2. CASE ServiceDone(s)
    BY <2>2, <1>4 DEF ServiceDone, HostShape
  <2> QED BY <2>1, <2>2
<1>8. TypeOK'
  <2>1. left' \subseteq {plan.order[t] : t \in plan.enabled}'
    BY <1>1 DEF TypeOK, loopVars
  <2> QED BY <1>1, <1>2, <1>3, <2>1 DEF TypeOK, loopVars, ctxVars, hostVars
<1>9. WaveShape' /\ WavesBehind' /\ OneWaveIsPassedOver' /\ Barrier'
  BY <1>1, <1>2, <1>5, <1>6, ServiceKeeps
<1>10. HostShape'
  <2>1. \A d \in Deps : Reached(plan.service[d])' <=> Reached(plan.service[d])
    BY <1>1 DEF Reached, loopVars
  <2>2. ASSUME NEW d \in Deps
        PROVE  /\ hostPc[d] \in Active => svcPc'[plan.service[d]] = "waiting"
               /\ hostPc[d] # "idle" => svcPc'[plan.service[d]] # "idle"
    <3>1. plan.service[d] \in Services
      BY PlanFacts
    <3>2. hostPc[d] # "idle" => d \in SubDeps(plan.service[d]) /\ svcPc[plan.service[d]] # "idle"
      BY SubDepsFacts DEF HostShape
    <3>3. hostPc[d] \in Active => plan.service[d] # s /\ svcPc[plan.service[d]] = "waiting"
      BY <1>7, <3>2 DEF HostShape, Active
    <3> QED BY <1>2, <3>1, <3>2, <3>3
  <2> QED BY <1>1, <2>1, <2>2 DEF HostShape, hostVars
<1>11. RowsFollow'
  BY <1>1 DEF RowsFollow, hostVars
<1>12. WholeBatches'
  <2>1. ASSUME NEW t \in Services, svcPc'[t] \in {"next", "waiting"}, ~svcStop'[t]
        PROVE  /\ svcPc[t] \in {"next", "waiting"} /\ ~svcStop[t]
               /\ svcPc'[t] = "next" => ~Failed(t)
    BY <1>1, <1>2, <1>3, <2>1 DEF WholeBatches
  <2> QED BY <1>1, <1>4, <1>5, <2>1 DEF WholeBatches, hostVars
<1>13. BatchesWaitTheirTurn'
  BY <1>1, <1>4 DEF BatchesWaitTheirTurn, hostVars
<1>14. SkippedForAReason'
  <2>1. Failed(s) => AnyFailed
    BY <1>4 DEF Failed, AnyFailed
  <2> QED BY <1>1, <1>3, <1>5, <2>1 DEF SkippedForAReason, hostVars, loopVars, ctxVars, ctxDone
<1> QED BY <1>8, <1>9, <1>10, <1>11, <1>12, <1>13, <1>14

-----------------------------------------------------------------------------
(* The steps of RunWaves                                                    *)

\* The next wave: services nobody has begun, behind all that were reached.
LEMMA NextWaveFacts ==
    ASSUME IInv, left # {}
    PROVE  /\ NextWave \subseteq plan.enabled /\ NextWave # {}
           /\ NextOrder \in left /\ NextOrder \in Nat
           /\ \A s \in NextWave : plan.order[s] = NextOrder /\ svcPc[s] = "idle"
           /\ \A t \in plan.enabled : plan.order[t] \in left /\ t \notin NextWave =>
                 NextOrder < plan.order[t]
           /\ \A t \in plan.enabled : plan.order[t] \notin left => plan.order[t] < NextOrder
           /\ \A t \in plan.enabled : plan.order[t] < NextOrder => plan.order[t] \notin left
           /\ \A t \in Services :
                 svcPc[t] = "idle" => \A d \in SubDeps(t) : hostPc[d] = "idle" /\ ~touched[d]
           /\ \A s \in NextWave : \A d \in SubDeps(s) : outcome[d] = "none"
<1> USE DEF IInv
<1>1. TypeOK /\ NextOrder \in left /\ \A o \in left : NextOrder <= o
  BY NextOrderFacts
<1>2. /\ plan.enabled \subseteq Services /\ plan.order \in [Services -> Nat]
      /\ left \subseteq Nat
  BY <1>1, PlanFacts
<1>3. NextWave \subseteq plan.enabled /\ \A s \in NextWave : plan.order[s] = NextOrder
  BY DEF NextWave
<1>4. PICK s \in plan.enabled : plan.order[s] = NextOrder
  BY <1>1 DEF TypeOK
<1>5. s \in NextWave
  BY <1>4 DEF NextWave
<1>6. \A t \in plan.enabled : plan.order[t] \in left /\ t \notin NextWave =>
         NextOrder < plan.order[t]
  BY <1>1, <1>2 DEF NextWave
<1>7. \A t \in plan.enabled : plan.order[t] \notin left => plan.order[t] < NextOrder
  BY <1>1, <1>4 DEF WaveShape
<1>8. \A t \in plan.enabled : plan.order[t] < NextOrder => plan.order[t] \notin left
  BY <1>1, <1>2
<1>9. \A t \in NextWave : svcPc[t] = "idle"
  BY <1>1, <1>2, <1>3 DEF WaveShape, Reached
<1>10. ASSUME NEW t \in Services, svcPc[t] = "idle", NEW d \in SubDeps(t)
       PROVE  hostPc[d] = "idle" /\ ~touched[d]
  <2>1. d \in Deps /\ plan.service[d] = t
    BY SubDepsFacts
  <2> QED BY <1>10, <2>1 DEF HostShape
<1>11. ASSUME NEW t \in NextWave, NEW d \in SubDeps(t) PROVE outcome[d] = "none"
  <2>1. d \in Deps /\ plan.service[d] = t
    BY SubDepsFacts
  <2> QED BY <1>1, <1>3, <2>1 DEF HostShape, Reached
<1> QED BY <1>1, <1>2, <1>3, <1>5, <1>6, <1>7, <1>8, <1>9, <1>10, <1>11

\* Taking up a wave takes its order off the ones that are left.
LEMMA WaveTaken ==
    ASSUME IInv, left # {}, plan' = plan, left' = left \ {NextOrder}
    PROVE  /\ \A s : Reached(s)' <=> Reached(s) \/ s \in NextWave
           /\ \A s, t \in plan.enabled :
                 plan.order[s] \notin left' /\ plan.order[t] \in left' =>
                    plan.order[s] < plan.order[t]
           /\ left' \subseteq {plan.order[t] : t \in plan.enabled}'
<1>1. \A s : Reached(s)' <=> Reached(s) \/ s \in NextWave
  BY NextWaveFacts DEF Reached, NextWave
<1>2. ASSUME NEW s \in plan.enabled, NEW t \in plan.enabled,
             plan.order[s] \notin left', plan.order[t] \in left'
      PROVE  plan.order[s] < plan.order[t]
  <2>1. plan.order[t] \in left /\ plan.order[t] # NextOrder
    BY <1>2
  <2>2. t \notin NextWave
    BY <2>1 DEF NextWave
  <2>3. CASE plan.order[s] \notin left
    BY <1>2, <2>1, <2>3 DEF IInv, WaveShape
  <2>4. CASE plan.order[s] \in left
    <3>1. plan.order[s] = NextOrder
      BY <1>2, <2>4
    <3> QED BY <2>1, <2>2, <3>1, NextWaveFacts
  <2> QED BY <2>3, <2>4
<1>3. left' \subseteq {plan.order[t] : t \in plan.enabled}'
  BY DEF IInv, TypeOK
<1> QED BY <1>1, <1>2, <1>3

\* After the loop has stopped, a wave is skipped as a whole.
LEMMA SkipWaveStep ==
    ASSUME IInv, SkipWave
    PROVE  IInv'
<1> USE DEF IInv
<1> DEFINE D == UNION {SubDeps(s) : s \in NextWave}
<1>1. /\ main = "next" /\ left # {} /\ stopReason # "none"
      /\ left' = left \ {NextOrder} /\ skipHosts(D)
      /\ UNCHANGED <<plan, main, wave, stopReason, svcVars, hostPc, pointer, touched,
                     ctxVars, result>>
  BY DEF SkipWave
<1>2. /\ D \in SUBSET Deps
      /\ \A d \in D : \E s \in NextWave : d \in SubDeps(s)
      /\ \A s \in NextWave : \A d \in SubDeps(s) : d \in D
      /\ \A d \in D : outcome[d] = "none" /\ hostPc[d] = "idle" /\ plan.service[d] \in NextWave
  <2>1. \A d \in D : \E s \in NextWave : d \in SubDeps(s)
    OBVIOUS
  <2>2. \A s \in NextWave : \A d \in SubDeps(s) : d \in D
    OBVIOUS
  <2> HIDE DEF D
  <2>3. D \in SUBSET Deps
    BY <2>1, SubDepsFacts
  <2>4. NextWave \subseteq Services
    BY <1>1, NextWaveFacts, PlanFacts
  <2> QED BY <1>1, <2>1, <2>2, <2>3, <2>4, NextWaveFacts, SubDepsFacts
<1> HIDE DEF D
<1>3. /\ outcome' \in [Deps -> {"none"} \cup Settled]
      /\ \A d \in Deps : outcome'[d] = IF d \in D THEN "skipped" ELSE outcome[d]
      /\ row' \in [Deps -> {"pending", "running"} \cup Settled]
      /\ missed' \in 0..MaxMissed
      /\ missed' = 0 => missed = 0 /\
            \A d \in Deps : row'[d] = IF d \in D THEN "skipped" ELSE row[d]
      /\ AnyFailed' <=> AnyFailed
      /\ \A t : Failed(t)' <=> Failed(t)
      /\ \A t : SettledAll(t) => SettledAll(t)'
  BY <1>1, <1>2, SkipFacts
<1>4. /\ \A t : SubDeps(t)' = SubDeps(t) /\ SubDeps(t) \subseteq Deps
      /\ \A e : Rank(e)' = Rank(e)
  BY <1>1, PlanKept, SubDepsFacts
<1>5. /\ \A s : Reached(s)' <=> Reached(s) \/ s \in NextWave
      /\ \A s, t \in plan.enabled :
            plan.order[s] \notin left' /\ plan.order[t] \in left' =>
               plan.order[s] < plan.order[t]
      /\ left' \subseteq {plan.order[t] : t \in plan.enabled}'
  BY <1>1, WaveTaken
<1>6. \A s \in NextWave : SettledAll(s)'
  <2>1. \A s \in NextWave : \A d \in SubDeps(s) : outcome'[d] = "skipped"
    BY <1>2, <1>3, <1>4
  <2> QED BY <1>4, <2>1 DEF SettledAll, Settled
<1>7. TypeOK'
  BY <1>1, <1>3, <1>5 DEF TypeOK, svcVars, ctxVars
<1>8. WaveShape'
  <2>1. \A s \in Services : svcPc[s] \notin {"next", "waiting"} \/ main = "dead"
    BY <1>1 DEF WaveShape
  <2> QED BY <1>1, <1>5, <2>1 DEF WaveShape, svcVars
<1>9. HostShape'
  <2>1. \A d \in Deps : outcome'[d] # "none" => Reached(plan.service[d])'
    <3>1. ASSUME NEW d \in Deps, outcome'[d] # "none"
          PROVE  Reached(plan.service[d]) \/ plan.service[d] \in NextWave
      BY <1>2, <1>3, <3>1 DEF HostShape
    <3>2. \A s : Reached(s) \/ s \in NextWave => s \in plan.enabled /\ plan.order[s] \notin left'
      BY <1>1, <1>5 DEF Reached
    <3> QED BY <1>1, <3>1, <3>2 DEF Reached
  <2> QED BY <1>1, <1>2, <1>3, <2>1 DEF HostShape, Active, svcVars
<1>10. RowsFollow'
  BY <1>1, <1>2, <1>3 DEF RowsFollow, Settled
<1>11. WavesBehind'
  BY <1>1, <1>3, <1>5, <1>6 DEF WavesBehind, svcVars
<1>12. Barrier'
  BY <1>1, <1>3 DEF Barrier, svcVars
<1>13. WholeBatches'
  <2>1. \A s \in Services : svcPc'[s] \notin {"next", "waiting"}
    BY <1>1 DEF WaveShape, svcVars
  <2> QED BY <2>1 DEF WholeBatches
<1>14. BatchesWaitTheirTurn'
  <2>1. \A d \in Deps : outcome[d] = "success" => outcome'[d] = "success"
    BY <1>2, <1>3
  <2> QED BY <1>1, <1>4, <2>1 DEF BatchesWaitTheirTurn
<1>15. ctxDone \/ AnyFailed
  BY <1>1 DEF SkippedForAReason, TypeOK
<1>16. SkippedForAReason'
  BY <1>1, <1>3, <1>15 DEF SkippedForAReason, svcVars, ctxVars, ctxDone
<1>17. OneWaveIsPassedOver'
  <2>1. ASSUME NEW s \in plan.enabled, Reached(s)', ~SettledAll(s)'
        PROVE  Reached(s) /\ ~SettledAll(s)
    BY <1>3, <1>5, <1>6, <2>1
  <2> QED BY <1>1, <2>1 DEF OneWaveIsPassedOver, svcVars
<1> QED BY <1>7, <1>8, <1>9, <1>10, <1>11, <1>12, <1>13, <1>14, <1>16, <1>17

\* A step that leaves the plan and the hosts alone leaves what is said of them alone.
LEMMA HostsKept ==
    ASSUME plan' = plan, UNCHANGED hostVars
    PROVE  /\ \A t : SubDeps(t)' = SubDeps(t) /\ Pending(t)' = Pending(t)
           /\ \A e : Rank(e)' = Rank(e)
           /\ \A t : Failed(t)' <=> Failed(t)
           /\ \A t : SettledAll(t)' <=> SettledAll(t)
           /\ AnyFailed' <=> AnyFailed
           /\ RowsFollow => RowsFollow'
           /\ BatchesWaitTheirTurn => BatchesWaitTheirTurn'
<1>1. \A t : SubDeps(t)' = SubDeps(t)
  BY PlanKept
<1>2. \A e : Rank(e)' = Rank(e)
  BY PlanKept
<1>3. \A t : Pending(t)' = Pending(t)
  BY <1>1 DEF Pending, hostVars
<1>4. /\ \A t : Failed(t)' <=> Failed(t)
      /\ \A t : SettledAll(t)' <=> SettledAll(t)
      /\ AnyFailed' <=> AnyFailed
  BY <1>1 DEF Failed, SettledAll, AnyFailed, hostVars
<1>5. RowsFollow => RowsFollow'
  BY DEF RowsFollow, hostVars
<1>6. BatchesWaitTheirTurn => BatchesWaitTheirTurn'
  BY <1>1, <1>2 DEF BatchesWaitTheirTurn, hostVars
<1> QED BY <1>1, <1>2, <1>3, <1>4, <1>5, <1>6

\* The context has ended: the wave gets nothing, and the loop knows why.
LEMMA StopAtWaveStep ==
    ASSUME IInv, StopAtWave
    PROVE  IInv'
<1> USE DEF IInv
<1>1. /\ main = "next" /\ left # {} /\ ctxDone
      /\ stopReason' = "ctx done" /\ left' = left \ {NextOrder}
      /\ UNCHANGED <<plan, main, wave, svcVars, hostVars, ctxVars, result>>
  BY DEF StopAtWave
<1>2. /\ \A s : Reached(s)' <=> Reached(s) \/ s \in NextWave
      /\ \A s, t \in plan.enabled :
            plan.order[s] \notin left' /\ plan.order[t] \in left' =>
               plan.order[s] < plan.order[t]
      /\ left' \subseteq {plan.order[t] : t \in plan.enabled}'
  BY <1>1, WaveTaken
<1>3. TypeOK'
  BY <1>1, <1>2 DEF TypeOK, svcVars, hostVars, ctxVars
<1>4. WaveShape'
  BY <1>1, <1>2 DEF WaveShape, svcVars
<1>5. HostShape'
  <2>1. \A d \in Deps : Reached(plan.service[d]) => Reached(plan.service[d])'
    BY <1>1 DEF Reached
  <2> QED BY <1>1, <2>1 DEF HostShape, svcVars, hostVars
<1>6. RowsFollow' /\ BatchesWaitTheirTurn'
  BY <1>1, HostsKept
<1>7. WavesBehind' /\ Barrier'
  BY <1>1, HostsKept DEF WavesBehind, Barrier, svcVars
<1>8. WholeBatches'
  <2>1. \A s \in Services : svcPc'[s] \notin {"next", "waiting"}
    BY <1>1 DEF WaveShape, svcVars
  <2> QED BY <2>1 DEF WholeBatches
<1>9. SkippedForAReason'
  BY <1>1, HostsKept DEF SkippedForAReason, svcVars, hostVars, ctxVars, ctxDone
<1>10. OneWaveIsPassedOver'
  <2>1. stopReason = "none"
    BY DEF StopAtWave
  <2>2. ASSUME NEW s \in plan.enabled, Reached(s)', ~SettledAll(s)'
        PROVE  svcPc[s] = "idle" /\ plan.order[s] = NextOrder
    <3>1. s \in NextWave
      BY <1>1, <1>2, <2>1, <2>2, HostsKept DEF WavesBehind
    <3> QED BY <1>1, <3>1, NextWaveFacts
  <2> QED BY <1>1, <2>2 DEF OneWaveIsPassedOver, svcVars
<1> QED BY <1>3, <1>4, <1>5, <1>6, <1>7, <1>8, <1>9, <1>10

\* A wave starts only when all before it are over and no required service in them failed.
LEMMA StartWaveStep ==
    ASSUME IInv, StartWave
    PROVE  IInv'
<1> USE DEF IInv
<1>1. /\ main = "next" /\ left # {} /\ stopReason = "none"
      /\ main' = "waiting" /\ wave' = NextWave /\ left' = left \ {NextOrder}
      /\ svcPc' = [s \in Services |-> IF s \in NextWave THEN "next" ELSE svcPc[s]]
      /\ UNCHANGED <<plan, stopReason, svcStop, hostVars, ctxVars, result>>
  BY DEF StartWave
<1>2. /\ \A s : Reached(s)' <=> Reached(s) \/ s \in NextWave
      /\ \A s, t \in plan.enabled :
            plan.order[s] \notin left' /\ plan.order[t] \in left' =>
               plan.order[s] < plan.order[t]
      /\ left' \subseteq {plan.order[t] : t \in plan.enabled}'
  BY <1>1, WaveTaken
<1>3. /\ NextWave \subseteq plan.enabled /\ NextWave # {} /\ NextOrder \in left
      /\ \A s \in NextWave : plan.order[s] = NextOrder /\ svcPc[s] = "idle"
      /\ \A t \in plan.enabled : plan.order[t] \notin left => plan.order[t] < NextOrder
      /\ \A t \in plan.enabled : plan.order[t] < NextOrder => plan.order[t] \notin left
      /\ \A s \in NextWave : \A d \in SubDeps(s) :
            hostPc[d] = "idle" /\ outcome[d] = "none"
  <2>1. NextWave \subseteq Services
    BY <1>1, NextWaveFacts, PlanFacts
  <2> QED BY <1>1, <2>1, NextWaveFacts
<1>4. plan.enabled \subseteq Services /\ NextWave \subseteq Services
  BY <1>3, PlanFacts
<1>5. /\ svcPc' \in [Services -> {"idle", "next", "waiting", "done"}]
      /\ \A s \in NextWave : svcPc'[s] = "next"
      /\ \A s \in Services : s \notin NextWave => svcPc'[s] = svcPc[s]
  BY <1>1, <1>4 DEF TypeOK
<1>6. \A s \in Services : svcPc[s] \in {"idle", "done"}
  BY <1>1 DEF WaveShape, TypeOK
<1>7. TypeOK'
  BY <1>1, <1>2, <1>3, <1>5 DEF TypeOK, hostVars, ctxVars
<1>8. WaveShape'
  <2>1. result = "none"
    BY <1>1 DEF WaveShape
  <2>2. \A s \in NextWave : plan.order[s] \notin left'
    BY <1>1, <1>3
  <2>3. \A s \in NextWave, t \in plan.enabled : plan.order[t] \notin left' =>
           plan.order[t] < plan.order[s] \/ t \in NextWave
    <3>1. ASSUME NEW s \in NextWave, NEW t \in plan.enabled, plan.order[t] \notin left'
          PROVE  plan.order[t] < plan.order[s] \/ t \in NextWave
      <4>1. plan.order[t] \notin left \/ plan.order[t] = NextOrder
        BY <1>1, <3>1
      <4> QED BY <1>3, <3>1, <4>1 DEF NextWave
    <3> QED BY <3>1
  <2>4. \A s, t \in NextWave : plan.order[s] = plan.order[t]
    BY <1>3
  <2>5. \A s \in Services :
           /\ svcPc'[s] # "idle" => Reached(s)'
           /\ svcPc'[s] \in {"next", "waiting"} => s \in NextWave
    BY <1>2, <1>5, <1>6 DEF WaveShape
  <2> QED BY <1>1, <1>2, <1>3, <1>5, <2>1, <2>2, <2>3, <2>4, <2>5 DEF WaveShape
<1>9. HostShape'
  <2>1. \A d \in Deps : Reached(plan.service[d]) => Reached(plan.service[d])'
    BY <1>1 DEF Reached
  <2>2. \A d \in Deps : plan.service[d] \in Services
    BY PlanFacts
  <2>3. \A d \in Deps : hostPc[d] \notin Active
    BY <1>6, <2>2 DEF HostShape
  <2>4. \A d \in Deps : svcPc[plan.service[d]] # "idle" => svcPc'[plan.service[d]] # "idle"
    BY <1>3, <1>5, <2>2
  <2> QED BY <1>1, <2>1, <2>3, <2>4 DEF HostShape, hostVars
<1>10. RowsFollow' /\ BatchesWaitTheirTurn'
  BY <1>1, HostsKept
<1>11. WavesBehind'
  <2>1. ASSUME NEW s \in Services, svcPc'[s] = "done" PROVE svcPc[s] = "done"
    BY <1>5, <2>1
  <2> QED BY <1>1, <2>1, HostsKept DEF WavesBehind
<1>12. Barrier'
  <2>1. ASSUME NEW s \in plan.enabled, NEW t \in plan.enabled,
               svcPc'[s] # "idle", plan.order[t] < plan.order[s]
        PROVE  SettledAll(t) /\ (t \notin plan.optional => ~Failed(t))
    <3>1. CASE s \in NextWave
      <4>1. Reached(t)
        BY <1>3, <2>1, <3>1 DEF Reached
      <4> QED BY <1>1, <4>1 DEF WavesBehind
    <3>2. CASE s \notin NextWave
      BY <1>4, <1>5, <2>1, <3>2 DEF Barrier
    <3> QED BY <3>1, <3>2
  <2> QED BY <1>1, <2>1, HostsKept DEF Barrier
<1>13. WholeBatches'
  <2>1. ASSUME NEW s \in Services, svcPc'[s] \in {"next", "waiting"}
        PROVE  s \in NextWave
    BY <1>5, <1>6, <2>1
  <2>2. ASSUME NEW s \in NextWave
        PROVE  /\ \A d, e \in SubDeps(s) : d \in Pending(s) /\ Rank(d) <= Rank(e) => e \in Pending(s)
               /\ \A d \in SubDeps(s) : outcome[d] = "none"
               /\ ~Failed(s)
    BY <1>3 DEF Pending, Failed
  <2> QED BY <1>1, <2>1, <2>2, HostsKept DEF WholeBatches, hostVars
<1>14. SkippedForAReason'
  BY <1>1, HostsKept DEF SkippedForAReason, hostVars, ctxVars, ctxDone
<1>15. OneWaveIsPassedOver'
  BY <1>1 DEF OneWaveIsPassedOver
<1> QED BY <1>7, <1>8, <1>9, <1>10, <1>11, <1>12, <1>13, <1>14, <1>15

\* A wave ends when all its services are done; a failed required one stops the loop.
LEMMA EndWaveStep ==
    ASSUME IInv, EndWave
    PROVE  IInv'
<1> USE DEF IInv
<1>1. /\ main = "waiting" /\ WaveOver(wave) /\ main' = "next" /\ stopReason = "none"
      /\ stopReason' = IF FailedRequired(wave) THEN "required failed" ELSE stopReason
      /\ UNCHANGED <<plan, left, wave, svcVars, hostVars, ctxVars, result>>
  BY DEF EndWave, WaveShape
<1>2. /\ \A s \in Services : Reached(s)' <=> Reached(s)
      /\ plan.enabled \subseteq Services
  BY <1>1, PlanFacts DEF Reached
<1>3. ASSUME NEW s \in plan.enabled, Reached(s)
      PROVE  /\ SettledAll(s)
             /\ s \in wave \/ (s \notin plan.optional => ~Failed(s))
  <2>1. CASE s \in wave
    BY <1>1, <1>2, <2>1 DEF WaveOver, WavesBehind
  <2>2. CASE s \notin wave
    <3>1. PICK t \in wave : svcPc[t] # "idle" /\ plan.order[s] < plan.order[t]
      BY <1>1, <1>3, <2>2 DEF WaveShape, Reached
    <3>2. t \in plan.enabled
      BY DEF TypeOK
    <3> QED BY <3>1, <3>2 DEF Barrier
  <2> QED BY <2>1, <2>2
<1>4. TypeOK'
  <2>1. left' \subseteq {plan.order[t] : t \in plan.enabled}'
    BY <1>1 DEF TypeOK
  <2> QED BY <1>1, <2>1 DEF TypeOK, svcVars, hostVars, ctxVars
<1>5. WaveShape'
  <2>1. \A s \in Services : svcPc[s] \notin {"next", "waiting"}
    BY <1>1 DEF WaveShape, WaveOver
  <2>2. result = "none"
    BY <1>1 DEF WaveShape
  <2> QED BY <1>1, <1>2, <2>1, <2>2 DEF WaveShape, svcVars
<1>6. HostShape'
  <2>1. \A d \in Deps : Reached(plan.service[d]) => Reached(plan.service[d])'
    BY <1>1 DEF Reached
  <2> QED BY <1>1, <2>1 DEF HostShape, svcVars, hostVars
<1>7. RowsFollow' /\ BatchesWaitTheirTurn'
  BY <1>1, HostsKept
<1>8. WavesBehind'
  <2>1. stopReason' = "none" => \A s \in wave : s \notin plan.optional => ~Failed(s)
    BY <1>1 DEF FailedRequired
  <2> QED BY <1>1, <1>2, <1>3, <2>1, HostsKept DEF WavesBehind, svcVars
<1>9. Barrier'
  BY <1>1, HostsKept DEF Barrier, svcVars
<1>10. WholeBatches'
  <2>1. \A s \in Services : svcPc'[s] \notin {"next", "waiting"}
    BY <1>1 DEF WaveShape, WaveOver, svcVars
  <2> QED BY <2>1 DEF WholeBatches
<1>11. SkippedForAReason'
  <2>1. FailedRequired(wave) => AnyFailed
    BY SubDepsFacts DEF FailedRequired, Failed, AnyFailed
  <2> QED BY <1>1, <2>1, HostsKept DEF SkippedForAReason, svcVars, hostVars, ctxVars, ctxDone
<1>12. OneWaveIsPassedOver'
  BY <1>1 DEF OneWaveIsPassedOver
<1> QED BY <1>4, <1>5, <1>6, <1>7, <1>8, <1>9, <1>10, <1>11, <1>12

\* The end of the run, a cancel, the timeout, a crash, and no step at all.
LEMMA OtherStep ==
    ASSUME IInv, Finish \/ Cancel \/ Timeout \/ Crash \/ UNCHANGED vars
    PROVE  IInv'
<1> USE DEF IInv
<1>1. /\ UNCHANGED <<plan, left, wave, stopReason, svcVars, hostVars>>
      /\ cancelled => cancelled'
      /\ expired => expired'
      /\ cancelled' \in BOOLEAN /\ expired' \in BOOLEAN
  BY DEF Finish, Cancel, Timeout, Crash, vars, loopVars, ctxVars, TypeOK
<1>2. /\ main' = main \/ main' = "dead" \/ (main' = "finished" /\ main = "next" /\ left = {})
      /\ main \in {"finished", "dead"} => main' = main /\ UNCHANGED ctxVars
      /\ \/ result' = result
         \/ main' = "finished" /\ result' = AggregateStatus(AnyFailed) /\ UNCHANGED ctxVars
      /\ main' = "dead" /\ main # "dead" => result' = result /\ main # "finished"
  BY DEF Finish, Cancel, Timeout, Crash, vars, loopVars, ctxVars, AnyFailed
<1>3. \A s \in Services : Reached(s)' <=> Reached(s)
  BY <1>1 DEF Reached
<1>4. TypeOK'
  <2>1. left' \subseteq {plan.order[t] : t \in plan.enabled}'
    BY <1>1 DEF TypeOK
  <2>2. result' \in {"none"} \cup Finals
    BY <1>2 DEF TypeOK, AggregateStatus, Finals
  <2> QED BY <1>1, <1>2, <2>1, <2>2 DEF TypeOK, svcVars, hostVars
<1>5. WaveShape'
  <2>1. result' # "none" => main' = "finished" /\ result' = AggregateStatus(AnyFailed)'
    <3>1. CASE result' = result
      BY <1>1, <1>2, <3>1, HostsKept DEF WaveShape, AggregateStatus, ctxVars
    <3>2. CASE main' = "finished" /\ result' = AggregateStatus(AnyFailed) /\ UNCHANGED ctxVars
      BY <1>1, <3>2, HostsKept DEF AggregateStatus, ctxVars
    <3> QED BY <1>2, <3>1, <3>2
  <2>2. \A s \in Services :
           svcPc[s] \in {"next", "waiting"} => main' \in {"waiting", "dead"} /\ s \in wave
    BY <1>2 DEF WaveShape
  <2> QED BY <1>1, <1>2, <1>3, <2>1, <2>2 DEF WaveShape, svcVars
<1>6. HostShape'
  <2>1. \A d \in Deps : Reached(plan.service[d]) => Reached(plan.service[d])'
    BY <1>1 DEF Reached
  <2> QED BY <1>1, <2>1 DEF HostShape, svcVars, hostVars
<1>7. RowsFollow' /\ BatchesWaitTheirTurn'
  BY <1>1, HostsKept
<1>8. WavesBehind'
  BY <1>1, <1>2, <1>3, HostsKept, PlanFacts DEF WavesBehind, svcVars
<1>9. Barrier'
  BY <1>1, HostsKept DEF Barrier, svcVars
<1>10. WholeBatches'
  BY <1>1, HostsKept DEF WholeBatches, svcVars, hostVars
<1>11. SkippedForAReason'
  BY <1>1, HostsKept DEF SkippedForAReason, svcVars, hostVars, ctxDone
<1>12. OneWaveIsPassedOver'
  BY <1>1, <1>2, <1>3, HostsKept, PlanFacts DEF OneWaveIsPassedOver, svcVars
<1> QED BY <1>4, <1>5, <1>6, <1>7, <1>8, <1>9, <1>10, <1>11, <1>12

-----------------------------------------------------------------------------
(* The theorems                                                             *)

\* A run begins with everything in front of it.
LEMMA Start == Init => IInv
<1> SUFFICES ASSUME Init PROVE IInv
  OBVIOUS
<1>1. TypeOK
  <2>1. MaxMissed \in Nat
    BY WavesAssumption
  <2>2. 0 \in 0..MaxMissed
    BY <2>1
  <2> QED BY <2>2 DEF Init, TypeOK, HostPcs, Settled
<1>2. \A s : ~Reached(s)
  BY DEF Init, Reached
<1>3. /\ \A d \in Deps : hostPc[d] = "idle" /\ outcome[d] = "none" /\ ~touched[d]
      /\ \A s \in Services : svcPc[s] = "idle" /\ ~svcStop[s]
  BY DEF Init
<1>4. WaveShape
  BY <1>3 DEF Init, WaveShape
<1>5. HostShape /\ RowsFollow
  BY <1>3 DEF HostShape, RowsFollow, Active, Settled
<1>6. WavesBehind /\ OneWaveIsPassedOver /\ Barrier
  BY <1>1, <1>2, <1>3, PlanFacts DEF WavesBehind, OneWaveIsPassedOver, Barrier
<1>7. WholeBatches /\ BatchesWaitTheirTurn
  BY <1>3, SubDepsFacts DEF WholeBatches, BatchesWaitTheirTurn
<1>8. SkippedForAReason
  BY <1>3 DEF Init, SkippedForAReason
<1> QED BY <1>1, <1>4, <1>5, <1>6, <1>7, <1>8 DEF IInv

\* Every step of RunWaves, of a strategy, of deployHost and of the environment keeps it.
LEMMA Step == IInv /\ [Next]_vars => IInv'
<1> SUFFICES ASSUME IInv, [Next]_vars PROVE IInv'
  OBVIOUS
<1>1. CASE LoopNext
  BY <1>1, SkipWaveStep, StopAtWaveStep, StartWaveStep, EndWaveStep, OtherStep DEF LoopNext
<1>2. ASSUME NEW s \in Services, ServiceNext(s) PROVE IInv'
  BY <1>2, StartBatchStep, SkipRestStep, EndBatchStep DEF ServiceNext
<1>3. ASSUME NEW d \in Deps, HostNext(d) PROVE IInv'
  BY <1>3, HostKeeps
<1>4. CASE Cancel \/ Timeout \/ Crash \/ UNCHANGED vars
  BY <1>4, OtherStep
<1> QED BY <1>1, <1>2, <1>3, <1>4 DEF Next

\* The invariant holds of every state that can be reached.
THEOREM Invariance == Spec => []IInv
<1>1. Init => IInv
  BY Start
<1>2. IInv /\ [Next]_vars => IInv'
  BY Step
<1> QED BY <1>1, <1>2, PTL DEF Spec

\* Every variable keeps its type, and the failed database writes their bound.
THEOREM TypeCorrect == Spec => []TypeOK
<1>1. IInv => TypeOK
  BY DEF IInv
<1> QED BY <1>1, Invariance, PTL

\* No host is touched before the waves and the batches in front of it went well: the
\* barrier of RunWaves and the fail-fast of Rolling, with any number of goroutines.
THEOREM HostsWaitTheirTurnHolds == Spec => []HostsWaitTheirTurn
<1>1. IInv => HostsWaitTheirTurn
  <2> SUFFICES ASSUME IInv PROVE HostsWaitTheirTurn
    OBVIOUS
  <2>1. ASSUME NEW s \in plan.enabled, NEW t \in plan.enabled,
               plan.order[t] < plan.order[s],
               NEW d \in SubDeps(s), NEW e \in SubDeps(t), hostPc[d] # "idle"
        PROVE  outcome[e] \in Settled /\ (t \notin plan.optional => outcome[e] # "failed")
    <3>1. svcPc[s] # "idle"
      BY <2>1, SubDepsFacts DEF IInv, HostShape
    <3> QED BY <2>1, <3>1 DEF IInv, Barrier, SettledAll, Failed
  <2> QED BY <2>1 DEF HostsWaitTheirTurn, IInv, BatchesWaitTheirTurn
<1> QED BY <1>1, Invariance, PTL

\* However a run ends, its loops and its error paths forget no deployment, but for the one
\* wave at which RunWaves finds the context done.
THEOREM NothingIsForgottenHolds == Spec => []NothingIsForgotten
<1>1. IInv => NothingIsForgotten
  <2> SUFFICES ASSUME IInv, result # "none" PROVE NothingIsForgotten
    BY DEF NothingIsForgotten
  <2>1. main = "finished" /\ left = {} /\ \A s \in plan.enabled : Reached(s)
    BY DEF IInv, WaveShape, Reached
  <2>2. ASSUME NEW d \in Planned
        PROVE  /\ d \in Deps /\ plan.service[d] \in plan.enabled
               /\ outcome[d] \notin Settled => ~SettledAll(plan.service[d])
    BY SubDepsFacts DEF Planned, SettledAll
  <2>3. ASSUME NEW d \in Planned, outcome[d] \in Settled, missed = 0
        PROVE  row[d] \in Settled
    BY <2>2, <2>3 DEF IInv, RowsFollow
  <2>4. ASSUME NEW d \in Planned, outcome[d] \notin Settled,
               NEW e \in Planned, outcome[e] \notin Settled
        PROVE  /\ stopReason = "ctx done" /\ svcPc[plan.service[d]] = "idle"
               /\ plan.order[plan.service[d]] = plan.order[plan.service[e]]
    <3>1. stopReason = "ctx done"
      BY <2>1, <2>2, <2>4 DEF IInv, WavesBehind
    <3> QED BY <2>1, <2>2, <2>4, <3>1 DEF IInv, OneWaveIsPassedOver
  <2> QED BY <2>3, <2>4 DEF NothingIsForgotten
<1> QED BY <1>1, Invariance, PTL

\* AggregateStatus says success only of a run that installed everything it was asked to.
THEOREM SuccessMeansDeployedHolds == Spec => []SuccessMeansDeployed
<1>1. IInv => SuccessMeansDeployed
  <2> SUFFICES ASSUME IInv, result = "success", ~expired, NEW d \in Planned, d \in plan.sourced
               PROVE  touched[d] /\ (missed = 0 => row[d] = "success" /\ pointer[d])
    BY DEF SuccessMeansDeployed
  <2>1. ~AnyFailed /\ ~ctxDone /\ main = "finished" /\ left = {}
    BY DEF IInv, WaveShape, AggregateStatus, ctxDone
  <2>2. PICK s \in plan.enabled : d \in SubDeps(s)
    BY DEF Planned
  <2>3. stopReason # "ctx done"
    BY <2>1 DEF IInv, SkippedForAReason
  <2>4. SettledAll(s)
    BY <2>1, <2>3 DEF IInv, WavesBehind, Reached
  <2>5. d \in Deps /\ outcome[d] \in Settled
    BY <2>2, <2>4, SubDepsFacts DEF SettledAll
  <2>6. outcome[d] = "success"
    BY <2>1, <2>5 DEF IInv, SkippedForAReason, Settled, AnyFailed
  <2> QED BY <2>5, <2>6 DEF IInv, HostShape, RowsFollow, Settled
<1> QED BY <1>1, Invariance, PTL

\* A host that was changed without its pointer is in the report as failed, and so is the run.
THEOREM ChangedHostsAreReportedHolds == Spec => []ChangedHostsAreReported
<1>1. IInv => ChangedHostsAreReported
  <2> SUFFICES ASSUME IInv, result # "none", missed = 0,
                      NEW d \in Deps, touched[d], ~pointer[d]
               PROVE  row[d] = "failed" /\ result = "failed"
    BY DEF ChangedHostsAreReported
  <2>1. main = "finished" /\ result = AggregateStatus(AnyFailed)
    BY DEF IInv, WaveShape
  <2>2. plan.service[d] \in Services
    BY PlanFacts DEF IInv
  <2>3. hostPc[d] \notin Active
    BY <2>1, <2>2 DEF IInv, WaveShape, HostShape
  <2>4. hostPc[d] = "done"
    BY <2>3 DEF IInv, TypeOK, HostPcs, HostShape, Active
  <2>5. outcome[d] = "failed"
    BY <2>4 DEF IInv, HostShape, RowsFollow
  <2> QED BY <2>1, <2>5 DEF IInv, RowsFollow, AggregateStatus, AnyFailed, Settled
<1> QED BY <1>1, Invariance, PTL
=============================================================================
