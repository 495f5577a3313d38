---------------------------- MODULE MCLiveDryRun ----------------------------
(* Instances of LiveDryRun: c0 passes every stage, c4 blocks at the fourth. *)
EXTENDS LiveDryRun, TLC

CONSTANTS p1, p2, c0, c4

Blocking == c0 :> 0 @@ c4 :> 4

=============================================================================
