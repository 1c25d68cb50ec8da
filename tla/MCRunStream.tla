---------------------------- MODULE MCRunStream ----------------------------
(* A run of two hosts, watched by browsers that come and go.                *)
EXTENDS RunStream, TLC

CONSTANTS h1, h2, c1, c2

OneConn == {c1}
TwoConns == {c1, c2}
TwoHosts == {h1, h2}
HostSymmetry == Permutations(TwoHosts)
=============================================================================
