----------------------------- MODULE MCServeRun -----------------------------
(* run_serve with a pool of one (hard cap four), two endpoints, one worker  *)
(* and a place in each channel.                                             *)
EXTENDS ServeRun

(* One type by itself; the same with an AND-group of two.                   *)
PlainPlan == <<0>>
FullPlan == <<0, 1, 1>>
=============================================================================
