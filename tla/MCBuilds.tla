------------------------------ MODULE MCBuilds ------------------------------
(* Two builds that contend for an application, and a page that watches one. *)
EXTENDS Builds
=============================================================================
