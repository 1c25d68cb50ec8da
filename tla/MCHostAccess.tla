---------------------------- MODULE MCHostAccess ----------------------------
(* Two hosts and requests that overlap: first connections, tests, samples, updates. *)
EXTENDS HostAccess, TLC

Symmetry == Permutations(Who) \cup Permutations(Hosts)
=============================================================================
