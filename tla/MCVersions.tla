----------------------------- MODULE MCVersions -----------------------------
(* An instance of Versions for TLC.  Requests are interchangeable, and so   *)
(* are clean-ups; deployments are ordered by identifier and are not.        *)
EXTENDS Versions, TLC

Two == {1, 2}
Symmetry == Permutations(Requests) \cup Permutations(Cleaners)

Waiting == {q \in Requests : req[q].pc = "read"}
Busy == {q \in Requests : req[q].pc # "idle"}

WithArtifacts ==
    \/ remover # 0 \/ arts # Arts
    \/ \E d \in Deps : ptr[d].curArt # 0 \/ ran[d].now.art # 0 \/ ran[d].before.art # 0
    \/ \E q \in Requests, d \in Deps : req[q].target[d].art # 0

\* Two requests meet in the runs before the last, which is on its own.  Where the older
\* artifacts are used there is one request at a time, one run less and one bundle less.
Bounds ==
    /\ runs = MaxRuns \/ WithArtifacts => Cardinality(Busy) <= 1
    /\ WithArtifacts => runs + Cardinality(Waiting) < MaxRuns /\ built < MaxBundle
=============================================================================
