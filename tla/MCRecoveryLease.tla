-------------------------- MODULE MCRecoveryLease ---------------------------
(* Instances of RecoveryLease.  p1 and p2 share a host, and only p1 has a *)
(* local identity: p2 finds it in the process table, while p1, like p3 on *)
(* another host, must ask the probe for p2.                               *)
EXTENDS RecoveryLease, TLC

CONSTANTS p1, p2, p3, hostA, hostB

OneHost == p1 :> hostA @@ p2 :> hostA
PairPriorities == p1 :> 10 @@ p2 :> 100

TwoHosts == p1 :> hostA @@ p3 :> hostB
TwoPriorities == p1 :> 10 @@ p3 :> 100

=============================================================================
