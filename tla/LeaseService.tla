---------------------------- MODULE LeaseService ----------------------------
(***************************************************************************)
(* What a holder of a recovery lease may rely on, without clocks, calls or *)
(* generations: RecoveryLease implements this module, and LiveDryRun uses  *)
(* it.  fresh says that the lease has not run out; it only matters to      *)
(* those who want to take the lease away.                                  *)
(***************************************************************************)
CONSTANTS Procs, NoProc

VARIABLES holder,   \* whose name is on the lease file; NoProc: no file
          fresh,    \* the lease has not run out
          working   \* working[p]: p was told that it holds the lease and goes on

lease == <<holder, fresh, working>>

Init == holder = NoProc /\ fresh = FALSE /\ working = [p \in Procs |-> FALSE]

\* Mutant: a lease that has run out is free, whoever works under it.
FreeWhenStale == holder = NoProc \/ ~fresh

\* There is no lease, or it has run out and nobody works under it.
Free == holder # NoProc => ~fresh /\ ~working[holder]

\* The lease may have run out again by the time the call returns, and the call
\* may fail after the file is in place: p is then not told.
Acquire(p, told) ==
  /\ Free
  /\ holder' = p /\ fresh' \in BOOLEAN
  /\ working' = IF told THEN [working EXCEPT ![p] = TRUE] ELSE working

Heartbeat(p) ==
  /\ holder = p /\ working[p]
  /\ fresh' \in BOOLEAN
  /\ UNCHANGED <<holder, working>>

\* p finishes its work, or dies.
Stop(p) ==
  /\ working' = [working EXCEPT ![p] = FALSE]
  /\ UNCHANGED <<holder, fresh>>

Release(p) ==
  /\ holder = p /\ ~working[p]
  /\ holder' = NoProc /\ fresh' = FALSE
  /\ UNCHANGED working

Expire ==
  /\ fresh /\ fresh' = FALSE
  /\ UNCHANGED <<holder, working>>

Next ==
  \/ \E p \in Procs :
       \/ Acquire(p, TRUE) \/ Acquire(p, FALSE)
       \/ Heartbeat(p) \/ Stop(p) \/ Release(p)
  \/ Expire

Spec == Init /\ [][Next]_lease

=============================================================================
