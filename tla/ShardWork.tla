----------------------------- MODULE ShardWork ------------------------------
(***************************************************************************)
(* What a checkpoint promises whoever reads it, with no runs, generations  *)
(* or calls: every shard is tried at most twice, gets one outcome that     *)
(* never changes, and the workload is closed once, when every shard has    *)
(* its outcome.                                                            *)
(***************************************************************************)
EXTENDS Naturals

CONSTANTS Shards, Outcomes, Open, MaxTries

VARIABLES outcome, tries, closed

svars == <<outcome, tries, closed>>

Init ==
  /\ outcome = [s \in Shards |-> Open]
  /\ tries = [s \in Shards |-> 0]
  /\ closed = FALSE

Try(s) ==
  /\ ~closed /\ outcome[s] = Open /\ tries[s] < MaxTries
  /\ tries' = [tries EXCEPT ![s] = @ + 1]
  /\ UNCHANGED <<outcome, closed>>

Settle(s, v) ==
  /\ ~closed /\ outcome[s] = Open /\ tries[s] > 0
  /\ outcome' = [outcome EXCEPT ![s] = v]
  /\ UNCHANGED <<tries, closed>>

Close ==
  /\ \A s \in Shards : outcome[s] # Open
  /\ closed' = TRUE
  /\ UNCHANGED <<outcome, tries>>

Next ==
  \/ \E s \in Shards : Try(s) \/ \E v \in Outcomes : Settle(s, v)
  \/ Close

Spec == Init /\ [][Next]_svars

=============================================================================
