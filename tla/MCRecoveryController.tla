------------------------ MODULE MCRecoveryController ------------------------
(* Small instances of RecoveryController: one or two faults, of these classes.    *)
EXTENDS RecoveryController, TLC

CONSTANTS r1, r2

OneTransient == <<"transient">>
TwoTransient == <<"transient", "transient">>
SecurityAndTransient == <<"security", "transient">>
TransientAndSecret == <<"transient", "missing_secret">>

RunSymmetry == Permutations(Runs)

=============================================================================
