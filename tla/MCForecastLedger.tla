-------------------------- MODULE MCForecastLedger --------------------------
(* The symmetry of ForecastLedger: claims are only compared.              *)
EXTENDS ForecastLedger, TLC

ClaimSymmetry == Permutations(Claims)

=============================================================================
