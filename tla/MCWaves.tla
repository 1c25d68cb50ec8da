------------------------------ MODULE MCWaves ------------------------------
(* Instances of Waves for TLC.  The plans are given by families: two         *)
(* services with every pair of startup orders, and three services of which   *)
(* two share a wave, before or after the third.                              *)
EXTENDS Waves

CONSTANTS s1, s2, s3

Three == {s1, s2, s3}
Four == 1..4

Orders(i, j, k) == [s \in Three |-> IF s = s1 THEN i ELSE IF s = s2 THEN j ELSE k]

\* Three deployments of s1 and one of s2; s3 is disabled.
Pairs(strategies, batch, optionals, sourcedSets) ==
    {[strategy |-> st, batch |-> batch, enabled |-> {s1, s2}, order |-> o, optional |-> opt,
      service |-> <<s1, s1, s1, s2>>, sourced |-> src] :
        st \in strategies, o \in {Orders(1, 1, 1), Orders(1, 2, 1), Orders(2, 1, 1)},
        opt \in optionals, src \in sourcedSets}

\* One deployment of s1 and of s2, two of s3.
Triples(optionals) ==
    {[strategy |-> "single", batch |-> 1, enabled |-> Three, order |-> o, optional |-> opt,
      service |-> <<s1, s2, s3, s3>>, sourced |-> Four] :
        o \in {Orders(1, 1, 2), Orders(1, 2, 2)}, opt \in optionals}

\* Batches of two with every choice of optional services; one host at a time; rollbacks
\* with a gap, with nothing for s2, and with a version for every host.
AllPlans ==
    Pairs({"rolling"}, 2, SUBSET {s1, s2}, {Four})
      \cup Pairs({"single"}, 1, {{}}, {Four})
      \cup Pairs({"rollback"}, 1, {{}}, {{1, 3, 4}, {1, 2}, Four})
      \cup Triples({{}, {s1}})

SmallPlans == {p \in AllPlans : p.optional = {}}
=============================================================================
