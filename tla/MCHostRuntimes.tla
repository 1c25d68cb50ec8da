--------------------------- MODULE MCHostRuntimes ---------------------------
(* Two names, two requests, and deployments that change mode in between. *)
EXTENDS HostRuntimes, TLC

Symmetry == Permutations(Clients) \cup Permutations(Names)
=============================================================================
