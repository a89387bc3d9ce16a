----------------------------- MODULE MCRotator -----------------------------
(* Rotator with three endpoints, a pool of two and a few connections: an    *)
(* entry can be evicted, replaced and added again while a connection that   *)
(* picked it earlier is still open.                                         *)
EXTENDS Rotator
=============================================================================
