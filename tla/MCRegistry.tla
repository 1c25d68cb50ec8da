----------------------------- MODULE MCRegistry -----------------------------
(* Two clients and one run over one application, one host and two services. *)
EXTENDS Registry, TLC

Symmetry == Permutations(Clients)

\* The first request is over before the second begins; the others interleave.
Bounds == calls = 2 => \E c \in Clients : call[c].op = "none"
=============================================================================
