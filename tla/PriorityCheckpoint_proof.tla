---------------------- MODULE PriorityCheckpoint_proof ----------------------
(***************************************************************************)
(* Proofs about PriorityCheckpoint for any sets of runs, shards and        *)
(* outputs and any bounds.                                                 *)
(***************************************************************************)
EXTENDS PriorityCheckpoint, TLAPS

\* The record operators an inductive step expands.
LEMMA ReturnedType ==
  ASSUME NEW row \in ShardRows
  PROVE  /\ Returned(row) \in ShardRows
         /\ Returned(row).status # "IN_PROGRESS"
         /\ Returned(row).attempts = row.attempts
         /\ row.status # "IN_PROGRESS" => Returned(row) = row
         /\ row.status = "IN_PROGRESS" =>
              /\ Returned(row).status = "PENDING"
              /\ Returned(row).started = NoTime
              /\ Returned(row).finished = NoTime
              /\ Returned(row).output = NoOutput
  BY DEF Returned, ShardRows, NoTime

LEMMA StartedType ==
  ASSUME NEW row \in ShardRows, NEW t \in Nat, row.attempts < MaxAttempts
  PROVE  /\ Started(row, t) \in ShardRows
         /\ Started(row, t).status = "IN_PROGRESS"
         /\ Started(row, t).attempts = row.attempts + 1
         /\ Started(row, t).started = t
         /\ Started(row, t).finished = row.finished
         /\ Started(row, t).output = row.output
  <1>1. row.attempts + 1 \in 0 .. MaxAttempts
    BY DEF ShardRows, MaxAttempts
  <1> QED
    BY <1>1 DEF Started, ShardRows

LEMMA CompletedType ==
  ASSUME NEW row \in ShardRows, NEW t \in Nat, NEW out \in Outputs
  PROVE  /\ Completed(row, t, out) \in ShardRows
         /\ Completed(row, t, out).status = "COMPLETED"
         /\ Completed(row, t, out).attempts = row.attempts
         /\ Completed(row, t, out).started = row.started
         /\ Completed(row, t, out).finished = t
         /\ Completed(row, t, out).output = out
  BY DEF Completed, ShardRows

LEMMA BlockedType ==
  ASSUME NEW row \in ShardRows, NEW t \in Nat
  PROVE  /\ Blocked(row, t) \in ShardRows
         /\ Blocked(row, t).status = "BLOCKED"
         /\ Blocked(row, t).attempts = row.attempts
         /\ Blocked(row, t).started = row.started
         /\ Blocked(row, t).finished = t
         /\ Blocked(row, t).output = NoOutput
  BY DEF Blocked, ShardRows

\* The initial state satisfies the inductive invariant.
LEMMA InitInvariant == Init => IInv
  <1> SUFFICES ASSUME Init PROVE IInv
    OBVIOUS
  <1>1. TypeOK
    BY BoundAssumption DEF Init, TypeOK, ShardRows, Calls, Handles, Fresh, NoCall,
      NoHandle, NoTime, Terminal, MaxAttempts
  <1>2. RowValid /\ WorkIsFenced
    BY DEF Init, RowValid, WorkIsFenced, Fresh, Settled
  <1>3. Chronology
    BY DEF Init, Chronology, Fresh, NoTime, NoCall
  <1>4. CallsAreWellFormed /\ GenerationsAreOrdered /\ FinishedStatus
    BY DEF Init, CallsAreWellFormed, GenerationsAreOrdered, FinishedStatus, Terminal,
       NoCall, NoTime, Fresh
  <1> QED
    BY <1>1, <1>2, <1>3, <1>4 DEF IInv

\* Every action preserves the types.
LEMMA TypeStep == IInv /\ [Next]_vars => TypeOK'
  <1> SUFFICES ASSUME IInv, [Next]_vars PROVE TypeOK'
    OBVIOUS
  <1> USE DEF IInv, TypeOK
  <1>a. ASSUME NEW r \in Runs, Answer(r),
               generation' \in Nat, owner' \in Runs \cup {NoRun}
        PROVE  handle' \in [Runs -> Handles] /\ call' \in [Runs -> Calls]
               /\ clock' \in Nat /\ crashes' \in Nat
    BY <1>a DEF Answer, Handles, Calls, NoCall, NoHandle, NoTime
  <1>b. ASSUME NEW r \in Runs, NEW op \in {"create", "claim", "start", "complete",
                 "block", "preempt", "finish"},
               NEW s \in Shards \cup {NoShard}, NEW out \in Outputs \cup {NoOutput},
               Invoke(r, op, s, out)
        PROVE  TypeOK'
    BY <1>b DEF Invoke, Calls, file, history
  <1>c. \A r \in Runs : call[r] \in Calls /\ call[r].now \in Nat
    BY DEF Calls
  <1>1. ASSUME NEW r \in Runs, Create(r) PROVE TypeOK'
    BY <1>1, <1>a, <1>c DEF Create, history
  <1>2. ASSUME NEW r \in Runs, ClaimResume(r) PROVE TypeOK'
    <2>1. shard' \in [Shards -> ShardRows]
      BY <1>2, ReturnedType DEF ClaimResume
    <2> QED
      BY <1>2, <1>a, <1>c, <2>1 DEF ClaimResume, history, NoTime
  <1>3. ASSUME NEW r \in Runs, StartShard(r) PROVE TypeOK'
    <2>1. shard' \in [Shards -> ShardRows]
      BY <1>3, <1>c, StartedType DEF StartShard, StartAdmitted,
         CallsAreWellFormed
    <2>2. startGen' \in [Shards -> Nat] /\ updatedAt' \in Nat
      BY <1>3, <1>c DEF StartShard
    <2> QED
      BY <1>3, <1>a, <2>1, <2>2 DEF StartShard
  <1>4. ASSUME NEW r \in Runs, CompleteShard(r) PROVE TypeOK'
    <2>1. shard' \in [Shards -> ShardRows]
      <3>1. call[r].shard \in Shards /\ call[r].output \in Outputs
        BY <1>4 DEF CompleteShard, CompleteAdmitted, CallsAreWellFormed
      <3>2. Completed(shard[call[r].shard], call[r].now, call[r].output) \in ShardRows
        BY <3>1, <1>c, CompletedType
      <3> QED
        BY <1>4, <3>1, <3>2 DEF CompleteShard
    <2>2. settleGen' \in [Shards -> Nat] /\ updatedAt' \in Nat
      BY <1>4, <1>c DEF CompleteShard
    <2> QED
      BY <1>4, <1>a, <2>1, <2>2 DEF CompleteShard
  <1>5. ASSUME NEW r \in Runs, BlockShard(r) PROVE TypeOK'
    <2>1. shard' \in [Shards -> ShardRows]
      BY <1>5, <1>c, BlockedType DEF BlockShard, BlockAdmitted,
         CallsAreWellFormed
    <2>2. settleGen' \in [Shards -> Nat] /\ updatedAt' \in Nat
      BY <1>5, <1>c DEF BlockShard
    <2> QED
      BY <1>5, <1>a, <2>1, <2>2 DEF BlockShard
  <1>6. ASSUME NEW r \in Runs, Preempt(r) PROVE TypeOK'
    <2>1. shard' \in [Shards -> ShardRows]
      BY <1>6, ReturnedType DEF Preempt
    <2> QED
      BY <1>6, <1>a, <1>c, <2>1 DEF Preempt, history
  <1>7. ASSUME NEW r \in Runs, Finish(r) PROVE TypeOK'
    BY <1>7, <1>a, <1>c DEF Finish, history, Terminal
  <1>8. ASSUME NEW r \in Runs, Refuse(r) PROVE TypeOK'
    BY <1>8 DEF Refuse, file, history, Calls, NoCall, NoHandle, NoTime, Handles
  <1>9. ASSUME NEW r \in Runs, Work(r) PROVE TypeOK'
    BY <1>9, <1>b DEF Work, InvokeCreate, InvokeClaim, InvokePreempt, InvokeFinish,
       InvokeStart, InvokeBlock, InvokeComplete
  <1>10. ASSUME NEW r \in Runs, Load(r) PROVE TypeOK'
    BY <1>10 DEF Load, file, history, Handles
  <1>11. ASSUME NEW r \in Runs, Crash(r) PROVE TypeOK'
    BY <1>11 DEF Crash, file, history, Handles, Calls, NoHandle, NoCall, NoTime
  <1>12. CASE Tick
    BY <1>12 DEF Tick, file, history
  <1>13. CASE UNCHANGED vars
    BY <1>13 DEF vars, file, history
  <1> QED
    BY <1>1, <1>2, <1>3, <1>4, <1>5, <1>6, <1>7, <1>8, <1>9, <1>10, <1>11, <1>12,
       <1>13 DEF Next, Serve

\* A step that writes no row preserves what is said of the row.
LEMMA QuietStep ==
  ASSUME IInv, UNCHANGED <<file, history>>
  PROVE  RowValid' /\ WorkIsFenced' /\ GenerationsAreOrdered'
  <1> USE DEF IInv, file, history
  <1>1. RowValid'
    BY DEF RowValid
  <1>2. WorkIsFenced'
    BY DEF WorkIsFenced
  <1>3. GenerationsAreOrdered'
    BY DEF GenerationsAreOrdered
  <1> QED
    BY <1>1, <1>2, <1>3

\* Every action preserves the order of times.
LEMMA ChronologyStep == IInv /\ [Next]_vars => Chronology'
  <1> SUFFICES ASSUME IInv, [Next]_vars PROVE Chronology'
    OBVIOUS
  <1> USE DEF IInv, Chronology, TypeOK
  <1>0. \A s \in Shards : shard[s] \in ShardRows /\ shard[s].started \in Nat
                            /\ shard[s].finished \in Nat
    BY DEF ShardRows
  <1>c. \A r \in Runs : call[r] \in Calls /\ call[r].now \in Nat
    BY DEF Calls
  <1>a. ASSUME NEW r \in Runs, Answer(r)
        PROVE  /\ clock' = clock
               /\ \A q \in Runs : call'[q].op # "none" => call'[q].now \in 1 .. clock'
    BY <1>a DEF Answer, NoCall
  <1>s. ASSUME NEW r \in Runs, call[r].op # "none", updatedAt' = call[r].now,
               InOrder(call[r]), Answer(r),
               \A s \in Shards :
                 /\ shard'[s].started \in {shard[s].started, NoTime, call[r].now}
                 /\ shard'[s].finished \in {shard[s].finished, NoTime, call[r].now}
        PROVE  Chronology'
    BY <1>s, <1>a, <1>c, <1>0 DEF InOrder, NoTime
  <1>b. ASSUME NEW r \in Runs, NEW op \in {"create", "claim", "start", "complete",
                 "block", "preempt", "finish"}, NEW s \in Shards \cup {NoShard},
               NEW out \in Outputs \cup {NoOutput}, Invoke(r, op, s, out)
        PROVE  Chronology'
    BY <1>b DEF Invoke, file, history
  <1>1. ASSUME NEW r \in Runs, Create(r) PROVE Chronology'
    BY <1>1, <1>a, <1>c, <1>0
       DEF Create, CreateAdmitted, GenerationsAreOrdered, Fresh, NoTime
  <1>2. ASSUME NEW r \in Runs, ClaimResume(r) PROVE Chronology'
    <2>1. \A s \in Shards : /\ shard'[s].started \in {shard[s].started, NoTime}
                            /\ shard'[s].finished \in {shard[s].finished, NoTime}
      BY <1>2, <1>0, ReturnedType DEF ClaimResume
    <2> QED
      BY <1>2, <1>s, <2>1 DEF ClaimResume, ClaimAdmitted
  <1>3. ASSUME NEW r \in Runs, StartShard(r) PROVE Chronology'
    <2>1. CASE shard[call[r].shard].status # "PENDING"
      BY <1>3, <2>1, <1>a DEF StartShard
    <2>2. CASE shard[call[r].shard].status = "PENDING"
      <3>1. call[r].shard \in Shards
        BY <1>3 DEF StartShard, StartAdmitted, CallsAreWellFormed
      <3>2. \A s \in Shards :
              /\ shard'[s].started \in {shard[s].started, NoTime, call[r].now}
              /\ shard'[s].finished \in {shard[s].finished, NoTime, call[r].now}
        BY <1>3, <2>2, <3>1, <1>0, <1>c, StartedType DEF StartShard, StartAdmitted
      <3> QED
        BY <1>3, <2>2, <3>2, <1>s DEF StartShard, StartAdmitted
    <2> QED
      BY <2>1, <2>2
  <1>4. ASSUME NEW r \in Runs, CompleteShard(r) PROVE Chronology'
    <2>1. CASE UNCHANGED <<updatedAt, shard, settleGen>>
      BY <1>4, <2>1, <1>a DEF CompleteShard
    <2>2. CASE shard[call[r].shard].status = "IN_PROGRESS" /\ updatedAt' = call[r].now
               /\ shard' = [shard EXCEPT ![call[r].shard] =
                    Completed(shard[call[r].shard], call[r].now, call[r].output)]
      <3>1. call[r].shard \in Shards /\ call[r].output \in Outputs
        BY <1>4 DEF CompleteShard, CompleteAdmitted, CallsAreWellFormed
      <3>2. \A s \in Shards :
              /\ shard'[s].started \in {shard[s].started, NoTime, call[r].now}
              /\ shard'[s].finished \in {shard[s].finished, NoTime, call[r].now}
        <4>1. LET row == Completed(shard[call[r].shard], call[r].now, call[r].output) IN
              row.started = shard[call[r].shard].started /\ row.finished = call[r].now
          BY <3>1, <1>0, <1>c, CompletedType
        <4>2. shard'[call[r].shard] =
                Completed(shard[call[r].shard], call[r].now, call[r].output)
          BY <2>2, <3>1
        <4>3. \A s \in Shards \ {call[r].shard} : shard'[s] = shard[s]
          BY <2>2
        <4> QED
          BY <4>1, <4>2, <4>3
      <3> QED
        BY <1>4, <2>2, <3>2, <1>s DEF CompleteShard, CompleteAdmitted
    <2> QED
      BY <1>4, <2>1, <2>2 DEF CompleteShard
  <1>5. ASSUME NEW r \in Runs, BlockShard(r) PROVE Chronology'
    <2>1. call[r].shard \in Shards
      BY <1>5 DEF BlockShard, BlockAdmitted, CallsAreWellFormed
    <2>2. \A s \in Shards :
            /\ shard'[s].started \in {shard[s].started, NoTime, call[r].now}
            /\ shard'[s].finished \in {shard[s].finished, NoTime, call[r].now}
      <3>1. /\ Blocked(shard[call[r].shard], call[r].now).finished = call[r].now
            /\ Blocked(shard[call[r].shard], call[r].now).started
                 = shard[call[r].shard].started
        BY <2>1, <1>0, <1>c, BlockedType
      <3> QED
        BY <1>5, <2>1, <3>1 DEF BlockShard
    <2> QED
      BY <1>5, <2>2, <1>s DEF BlockShard, BlockAdmitted
  <1>6. ASSUME NEW r \in Runs, Preempt(r) PROVE Chronology'
    <2>1. \A s \in Shards : /\ shard'[s].started \in {shard[s].started, NoTime}
                            /\ shard'[s].finished \in {shard[s].finished, NoTime}
      BY <1>6, <1>0, ReturnedType DEF Preempt
    <2> QED
      BY <1>6, <1>s, <2>1 DEF Preempt, PreemptAdmitted
  <1>7. ASSUME NEW r \in Runs, Finish(r) PROVE Chronology'
    BY <1>7, <1>s DEF Finish, FinishAdmitted
  <1>8. ASSUME NEW r \in Runs, Refuse(r) PROVE Chronology'
    BY <1>8 DEF Refuse, file, NoCall
  <1>9. ASSUME NEW r \in Runs, Work(r) PROVE Chronology'
    BY <1>9, <1>b DEF Work, InvokeCreate, InvokeClaim, InvokePreempt, InvokeFinish,
       InvokeStart, InvokeBlock, InvokeComplete
  <1>10. ASSUME NEW r \in Runs, Load(r) \/ Crash(r) PROVE Chronology'
    BY <1>10 DEF Load, Crash, file, NoCall
  <1>11. CASE Tick
    BY <1>11 DEF Tick, file
  <1>12. CASE UNCHANGED vars
    BY <1>12 DEF vars, file
  <1> QED
    BY <1>1, <1>2, <1>3, <1>4, <1>5, <1>6, <1>7, <1>8, <1>9, <1>10, <1>11, <1>12
       DEF Next, Serve

\* What a critical section that touches one shard does: nothing at all (the
\* idempotent answers), or one field-by-field change of that shard.
LEMMA StartEffect ==
  ASSUME IInv, NEW r \in Runs, StartShard(r)
  PROVE  \/ UNCHANGED <<file, history>>
         \/ \E s \in Shards :
              /\ status = "RUNNING" /\ shard[s].status = "PENDING"
              /\ shard[s].attempts < MaxAttempts
              /\ shard' = [shard EXCEPT ![s] = Started(shard[s], call[r].now)]
              /\ startGen' = [startGen EXCEPT ![s] = generation]
              /\ updatedAt' = call[r].now /\ call[r].now >= updatedAt
              /\ UNCHANGED <<status, generation, owner, finishedAt, settleGen>>
  <1>1. call[r].shard \in Shards
    BY DEF IInv, CallsAreWellFormed, StartShard, StartAdmitted
  <1> QED
    BY <1>1 DEF StartShard, StartAdmitted, InOrder, file, history

LEMMA CompleteEffect ==
  ASSUME IInv, NEW r \in Runs, CompleteShard(r)
  PROVE  \/ UNCHANGED <<file, history>>
         \/ \E s \in Shards, out \in Outputs :
              /\ shard[s].status = "IN_PROGRESS"
              /\ shard' = [shard EXCEPT ![s] = Completed(shard[s], call[r].now, out)]
              /\ settleGen' = [settleGen EXCEPT ![s] = generation]
              /\ updatedAt' = call[r].now /\ call[r].now >= updatedAt
              /\ status # "ABSENT"
              /\ UNCHANGED <<status, generation, owner, finishedAt, startGen>>
  <1>1. call[r].shard \in Shards /\ call[r].output \in Outputs
    BY DEF IInv, CallsAreWellFormed, CompleteShard, CompleteAdmitted
  <1> QED
    BY <1>1 DEF CompleteShard, CompleteAdmitted, Fenced, InOrder, file, history

LEMMA BlockEffect ==
  ASSUME IInv, NEW r \in Runs, BlockShard(r)
  PROVE  \E s \in Shards :
              /\ shard[s].status = "IN_PROGRESS"
              /\ shard' = [shard EXCEPT ![s] = Blocked(shard[s], call[r].now)]
              /\ settleGen' = [settleGen EXCEPT ![s] = generation]
              /\ updatedAt' = call[r].now /\ call[r].now >= updatedAt
              /\ status # "ABSENT"
              /\ UNCHANGED <<status, generation, owner, finishedAt, startGen>>
  <1>1. call[r].shard \in Shards
    BY DEF IInv, CallsAreWellFormed, BlockShard, BlockAdmitted
  <1> QED
    BY <1>1 DEF BlockShard, BlockAdmitted, Fenced, InOrder

\* Every action preserves the validity of the row, the fencing of its work
\* and the order of its generations.
LEMMA RowStep ==
  IInv /\ [Next]_vars => RowValid' /\ WorkIsFenced' /\ GenerationsAreOrdered'
  <1> SUFFICES ASSUME IInv, [Next]_vars
               PROVE  RowValid' /\ WorkIsFenced' /\ GenerationsAreOrdered'
    OBVIOUS
  <1> DEFINE Goal == RowValid' /\ WorkIsFenced' /\ GenerationsAreOrdered'
  <1>t. /\ \A s \in Shards :
             /\ shard[s] \in ShardRows
             /\ shard[s].started \in Nat /\ shard[s].finished \in Nat
             /\ shard[s].attempts \in Nat
             /\ shard[s].started <= updatedAt
             /\ startGen[s] \in Nat /\ startGen[s] <= generation
        /\ generation \in Nat /\ updatedAt \in Nat /\ finishedAt \in Nat
        /\ shard \in [Shards -> ShardRows]
        /\ startGen \in [Shards -> Nat] /\ settleGen \in [Shards -> Nat]
    BY DEF IInv, TypeOK, ShardRows, MaxAttempts, Chronology, GenerationsAreOrdered
  <1>c. \A r \in Runs :
          call[r].now \in Nat /\ (call[r].op # "none" => call[r].now >= 1)
    BY DEF IInv, TypeOK, Calls, Chronology
  <1>1. ASSUME NEW r \in Runs, Create(r) PROVE Goal
    <2>1. /\ generation = 0 /\ finishedAt = NoTime
          /\ \A s \in Shards : shard[s] = Fresh
      BY <1>1 DEF IInv, Create, CreateAdmitted, GenerationsAreOrdered
    <2>2. RowValid'
      BY <1>1, <2>1 DEF Create, RowValid, ShardValid, Fresh, Settled, Terminal
    <2>3. WorkIsFenced'
      BY <1>1, <2>1 DEF Create, WorkIsFenced, Fresh, Settled
    <2>4. GenerationsAreOrdered'
      BY <1>1, <2>1, <1>t DEF Create, GenerationsAreOrdered, history
    <2> QED
      BY <2>2, <2>3, <2>4
  <1>2. ASSUME NEW r \in Runs, ClaimResume(r) PROVE Goal
    <2>1. /\ \A s \in Shards : shard'[s] = Returned(shard[s])
          /\ status \notin Terminal /\ status # "ABSENT"
          /\ UNCHANGED history /\ generation' = generation + 1
          /\ status' = "RUNNING" /\ finishedAt' = NoTime
      BY <1>2 DEF ClaimResume, ClaimAdmitted, Terminal
    <2>2. RowValid'
      <3>1. \A s \in Shards : ShardValid(shard[s])
        BY <2>1 DEF IInv, RowValid
      <3>2. \A s \in Shards : ShardValid(shard'[s])
        BY <2>1, <3>1, <1>t, ReturnedType DEF ShardValid, Settled
      <3> QED
        BY <2>1, <3>2, <1>t DEF RowValid, Terminal
    <2>3. WorkIsFenced'
      BY <2>1, <1>t, ReturnedType DEF IInv, WorkIsFenced, history, Settled
    <2>4. GenerationsAreOrdered'
      BY <2>1, <1>t DEF GenerationsAreOrdered, history
    <2> QED
      BY <2>2, <2>3, <2>4
  <1>3. ASSUME NEW r \in Runs, StartShard(r) PROVE Goal
    <2>1. CASE UNCHANGED <<file, history>>
      BY <2>1, QuietStep
    <2>2. ASSUME NEW s \in Shards,
                 status = "RUNNING", shard[s].status = "PENDING",
                 shard[s].attempts < MaxAttempts,
                 shard' = [shard EXCEPT ![s] = Started(shard[s], call[r].now)],
                 startGen' = [startGen EXCEPT ![s] = generation],
                 updatedAt' = call[r].now,
                 UNCHANGED <<status, generation, owner, finishedAt, settleGen>>
          PROVE  Goal
      <3>1. /\ shard'[s].status = "IN_PROGRESS"
            /\ shard'[s].attempts = shard[s].attempts + 1
            /\ shard'[s].started = call[r].now
            /\ shard'[s].finished = shard[s].finished
            /\ shard'[s].output = shard[s].output
        BY <2>2, <1>t, <1>c, StartedType
      <3>2. \A q \in Shards \ {s} : shard'[q] = shard[q] /\ startGen'[q] = startGen[q]
        BY <2>2, <1>t
      <3>3. startGen'[s] = generation
        BY <2>2, <1>t
      <3>4. call[r].now >= 1
        BY <1>3, <1>c DEF StartShard, StartAdmitted
      <3>5. RowValid'
        <4>1. ShardValid(shard'[s])
          BY <3>1, <3>4, <2>2, <1>t, <1>c DEF IInv, RowValid, ShardValid, Settled, NoTime
        <4>2. \A q \in Shards \ {s} : ShardValid(shard'[q])
          BY <2>2, <3>2 DEF IInv, RowValid
        <4>3. status' = "RUNNING" /\ generation' = generation /\ finishedAt' = finishedAt
          BY <2>2
        <4> QED
          BY <2>2, <4>1, <4>2, <4>3 DEF IInv, RowValid, Terminal
      <3>6. WorkIsFenced'
        BY <2>2, <3>1, <3>2, <3>3 DEF IInv, WorkIsFenced, Settled
      <3>7. GenerationsAreOrdered'
        BY <2>2, <3>1, <3>2, <3>3, <1>t DEF IInv, GenerationsAreOrdered
      <3> QED
        BY <3>5, <3>6, <3>7
    <2> QED
      BY <1>3, <2>1, <2>2, StartEffect
  <1>s. ASSUME NEW r \in Runs, call[r].op # "none", NEW s \in Shards,
               shard[s].status = "IN_PROGRESS", status # "ABSENT",
               NEW row \in ShardRows, row.status \in Settled,
               row.attempts = shard[s].attempts, row.started = shard[s].started,
               row.finished = call[r].now,
               row.status = "COMPLETED" => row.output # NoOutput,
               row.status = "BLOCKED" => row.output = NoOutput,
               shard' = [shard EXCEPT ![s] = row],
               settleGen' = [settleGen EXCEPT ![s] = generation],
               updatedAt' = call[r].now, call[r].now >= updatedAt,
               UNCHANGED <<status, generation, owner, finishedAt, startGen>>
        PROVE  Goal
    <2>1. shard'[s] = row /\ \A q \in Shards \ {s} :
            shard'[q] = shard[q] /\ settleGen'[q] = settleGen[q]
      BY <1>s, <1>t
    <2>2. settleGen'[s] = generation /\ startGen[s] = generation
      BY <1>s, <1>t DEF IInv, WorkIsFenced
    <2>3. status \notin Terminal
      BY <1>s DEF IInv, RowValid, Settled
    <2>4. RowValid'
      <3>1. ShardValid(row)
        BY <1>s, <1>t, <1>c DEF IInv, RowValid, ShardValid, Settled, NoTime
      <3>2. \A q \in Shards : ShardValid(shard'[q])
        BY <1>s, <2>1, <3>1 DEF IInv, RowValid
      <3> QED
        BY <1>s, <2>3, <3>2 DEF IInv, RowValid
    <2>5. WorkIsFenced'
      BY <1>s, <2>1, <2>2 DEF IInv, WorkIsFenced, Settled
    <2>6. GenerationsAreOrdered'
      BY <1>s, <2>1 DEF IInv, GenerationsAreOrdered, Settled
    <2> QED
      BY <2>4, <2>5, <2>6
  <1>4. ASSUME NEW r \in Runs, CompleteShard(r) PROVE Goal
    <2>1. CASE UNCHANGED <<file, history>>
      BY <2>1, QuietStep
    <2>2. ASSUME NEW s \in Shards, NEW out \in Outputs,
                 shard[s].status = "IN_PROGRESS",
                 shard' = [shard EXCEPT ![s] = Completed(shard[s], call[r].now, out)],
                 settleGen' = [settleGen EXCEPT ![s] = generation],
                 updatedAt' = call[r].now, call[r].now >= updatedAt,
                 status # "ABSENT",
                 UNCHANGED <<status, generation, owner, finishedAt, startGen>>
          PROVE  Goal
      <3> DEFINE row == Completed(shard[s], call[r].now, out)
      <3>1. /\ row \in ShardRows /\ row.status = "COMPLETED"
            /\ row.attempts = shard[s].attempts /\ row.started = shard[s].started
            /\ row.finished = call[r].now /\ row.output = out
        BY <1>t, <1>c, CompletedType
      <3>2. out # NoOutput
        BY NoneAssumption
      <3>3. call[r].op # "none"
        BY <1>4 DEF CompleteShard, CompleteAdmitted
      <3> HIDE DEF row
      <3> QED
        BY <2>2, <3>1, <3>2, <3>3, <1>s DEF Settled, row
    <2> QED
      BY <1>4, <2>1, <2>2, CompleteEffect
  <1>5. ASSUME NEW r \in Runs, BlockShard(r) PROVE Goal
    <2>2. ASSUME NEW s \in Shards,
                 shard[s].status = "IN_PROGRESS",
                 shard' = [shard EXCEPT ![s] = Blocked(shard[s], call[r].now)],
                 settleGen' = [settleGen EXCEPT ![s] = generation],
                 updatedAt' = call[r].now, call[r].now >= updatedAt,
                 status # "ABSENT",
                 UNCHANGED <<status, generation, owner, finishedAt, startGen>>
          PROVE  Goal
      <3> DEFINE row == Blocked(shard[s], call[r].now)
      <3>1. /\ row \in ShardRows /\ row.status = "BLOCKED"
            /\ row.attempts = shard[s].attempts /\ row.started = shard[s].started
            /\ row.finished = call[r].now /\ row.output = NoOutput
        BY <1>t, <1>c, BlockedType
      <3>3. call[r].op # "none"
        BY <1>5 DEF BlockShard, BlockAdmitted
      <3> HIDE DEF row
      <3> QED
        BY <2>2, <3>1, <3>3, <1>s DEF Settled, row
    <2> QED
      BY <1>5, <2>2, BlockEffect
  <1>6. ASSUME NEW r \in Runs, Preempt(r) PROVE Goal
    <2>1. /\ \A s \in Shards : shard'[s] = Returned(shard[s])
          /\ status = "RUNNING" /\ status' = "PREEMPTED"
          /\ UNCHANGED <<generation, finishedAt, startGen, settleGen>>
      BY <1>6 DEF Preempt, PreemptAdmitted, history
    <2>2. RowValid'
      <3>1. \A s \in Shards : ShardValid(shard[s])
        BY <2>1 DEF IInv, RowValid
      <3>2. \A s \in Shards : ShardValid(shard'[s])
        BY <2>1, <3>1, <1>t, ReturnedType DEF ShardValid, Settled
      <3> QED
        BY <2>1, <3>2, <1>t DEF IInv, RowValid, Terminal
    <2>3. WorkIsFenced'
      BY <2>1, <1>t, ReturnedType DEF IInv, WorkIsFenced, Settled
    <2>4. GenerationsAreOrdered'
      BY <2>1, <1>t DEF IInv, GenerationsAreOrdered
    <2> QED
      BY <2>2, <2>3, <2>4
  <1>7. ASSUME NEW r \in Runs, Finish(r) PROVE Goal
    <2>1. /\ \A s \in Shards : shard[s].status \in Settled
          /\ status # "ABSENT" /\ status' \in Terminal
          /\ updatedAt' = call[r].now /\ finishedAt' = call[r].now
          /\ call[r].now >= 1
          /\ UNCHANGED <<generation, shard, startGen, settleGen>>
      BY <1>7, <1>c DEF Finish, FinishAdmitted, Fenced, Terminal, history
    <2>2. RowValid'
      BY <2>1, <1>c DEF IInv, RowValid, NoTime
    <2>3. WorkIsFenced'
      BY <2>1 DEF IInv, WorkIsFenced
    <2>4. GenerationsAreOrdered'
      BY <2>1 DEF IInv, GenerationsAreOrdered, Terminal
    <2> QED
      BY <2>2, <2>3, <2>4
  <1>8. ASSUME NEW r \in Runs, Refuse(r) \/ Work(r) \/ Load(r) \/ Crash(r) PROVE Goal
    <2>1. UNCHANGED <<file, history>>
      BY <1>8 DEF Refuse, Work, Load, Crash, InvokeCreate, InvokeClaim, InvokePreempt,
         InvokeFinish, InvokeStart, InvokeBlock, InvokeComplete, Invoke
    <2> QED
      BY <2>1, QuietStep
  <1>9. CASE Tick \/ UNCHANGED vars
    BY <1>9, QuietStep DEF Tick, vars
  <1> QED
    BY <1>1, <1>2, <1>3, <1>4, <1>5, <1>6, <1>7, <1>8, <1>9 DEF Next, Serve

\* Every action keeps the calls well formed.
LEMMA CallsStep == IInv /\ [Next]_vars => CallsAreWellFormed'
  <1> SUFFICES ASSUME IInv, [Next]_vars PROVE CallsAreWellFormed'
    OBVIOUS
  <1> USE DEF IInv, TypeOK, CallsAreWellFormed
  <1>1. ASSUME NEW r \in Runs, call' = [call EXCEPT ![r] = NoCall]
        PROVE  CallsAreWellFormed'
    BY <1>1 DEF NoCall
  <1>2. ASSUME NEW r \in Runs, Serve(r) \/ Crash(r) PROVE CallsAreWellFormed'
    BY <1>2, <1>1 DEF Serve, Create, ClaimResume, StartShard, CompleteShard, BlockShard,
       Preempt, Finish, Refuse, Answer, Crash
  <1>3. ASSUME NEW r \in Runs, NEW op \in {"create", "claim", "start", "complete",
                 "block", "preempt", "finish"}, NEW s, NEW out,
               op \in {"start", "complete", "block"} => s \in Shards,
               op = "complete" => out \in Outputs, Invoke(r, op, s, out)
        PROVE  CallsAreWellFormed'
    BY <1>3 DEF Invoke
  <1>4. ASSUME NEW r \in Runs, Work(r) PROVE CallsAreWellFormed'
    BY <1>4, <1>3 DEF Work, InvokeCreate, InvokeClaim, InvokePreempt, InvokeFinish,
       InvokeStart, InvokeBlock, InvokeComplete
  <1>5. CASE (\E r \in Runs : Load(r)) \/ Tick \/ UNCHANGED vars
    BY <1>5 DEF Load, Tick, vars
  <1> QED
    BY <1>2, <1>4, <1>5 DEF Next

\* A finished row only changes by being finished again, and by then every
\* shard is settled.
LEMMA FinishedStep ==
  ASSUME IInv, [Next]_vars, status \in Terminal
  PROVE  shard' = shard /\ generation' = generation /\ status' = status
  <1> DEFINE Kept == shard' = shard /\ generation' = generation /\ status' = status
  <1>0. /\ status \notin {"ABSENT", "RUNNING", "PREEMPTED", "BLOCKED"}
        /\ \A s \in Shards : shard[s].status \in Settled
    BY DEF Terminal, IInv, RowValid
  <1>1. ASSUME NEW r \in Runs, Create(r) \/ ClaimResume(r) \/ Preempt(r) PROVE FALSE
    BY <1>0, <1>1 DEF Create, CreateAdmitted, ClaimResume, ClaimAdmitted, Preempt,
       PreemptAdmitted
  <1>2. ASSUME NEW r \in Runs, StartShard(r) PROVE Kept
    BY <1>0, <1>2, StartEffect DEF file
  <1>3. ASSUME NEW r \in Runs, CompleteShard(r) PROVE Kept
    BY <1>0, <1>3, CompleteEffect DEF file, Settled
  <1>4. ASSUME NEW r \in Runs, BlockShard(r) PROVE Kept
    BY <1>0, <1>4, BlockEffect DEF Settled
  <1>5. ASSUME NEW r \in Runs, Finish(r) PROVE Kept
    BY <1>5 DEF IInv, FinishedStatus, Finish, Terminal
  <1>6. ASSUME NEW r \in Runs, Refuse(r) \/ Work(r) \/ Load(r) \/ Crash(r) PROVE Kept
    BY <1>6 DEF Refuse, Work, Load, Crash, InvokeCreate, InvokeClaim, InvokePreempt,
       InvokeFinish, InvokeStart, InvokeBlock, InvokeComplete, Invoke, file
  <1>7. CASE Tick \/ UNCHANGED vars
    BY <1>7 DEF Tick, vars, file
  <1> QED
    BY <1>1, <1>2, <1>3, <1>4, <1>5, <1>6, <1>7 DEF Next, Serve

LEMMA FinishedStatusStep == IInv /\ [Next]_vars => FinishedStatus'
  <1> SUFFICES ASSUME IInv, [Next]_vars, status' \in Terminal
               PROVE  status' = "COMPLETED_WITH_BLOCKS" <=>
                        \E s \in Shards : shard'[s].status = "BLOCKED"
    BY DEF FinishedStatus, Terminal
  <1>1. CASE status \in Terminal
    BY <1>1, FinishedStep DEF IInv, FinishedStatus
  <1>2. CASE status \notin Terminal
    <2>1. ASSUME NEW r \in Runs, StartShard(r) \/ CompleteShard(r) \/ BlockShard(r)
          PROVE  status' = status
      BY <2>1 DEF StartShard, CompleteShard, BlockShard
    <2>2. ASSUME NEW r \in Runs, Refuse(r) \/ Work(r) \/ Load(r) \/ Crash(r)
          PROVE  status' = status
      BY <2>2 DEF Refuse, Work, Load, Crash, InvokeCreate, InvokeClaim, InvokePreempt,
         InvokeFinish, InvokeStart, InvokeBlock, InvokeComplete, Invoke, file
    <2>3. ASSUME NEW r \in Runs, Create(r) \/ ClaimResume(r) \/ Preempt(r)
          PROVE  status' \notin Terminal
      BY <2>3 DEF Create, ClaimResume, Preempt, Terminal
    <2>4. ASSUME Tick \/ UNCHANGED vars PROVE status' = status
      BY <2>4 DEF Tick, vars, file
    <2>5. PICK r \in Runs : Finish(r)
      BY <1>2, <2>1, <2>2, <2>3, <2>4 DEF Next, Serve
    <2> QED
      BY <2>5 DEF Finish
  <1> QED
    BY <1>1, <1>2

\* The inductive invariant holds throughout, for any number of runs, shards
\* and generations.
THEOREM Invariance == Spec => []IInv
  <1>1. IInv /\ [Next]_vars => IInv'
    BY TypeStep, RowStep, ChronologyStep, CallsStep, FinishedStatusStep DEF IInv
  <1> QED
    BY InitInvariant, <1>1, PTL DEF Spec

\* Types are respected.
THEOREM TypeCorrectness == Spec => []TypeOK
  BY Invariance, PTL DEF IInv

\* No interleaving of calls writes a row the next load would reject.
THEOREM RowValidity == Spec => []RowValid
  BY Invariance, PTL DEF IInv

\* A shard's work is settled by the generation that last started it: the
\* result of a preempted and replaced run never lands.
THEOREM Fencing == Spec => []WorkIsFenced
  BY Invariance, PTL DEF IInv

\* How one step changes one shard: not at all, returned to the queue, begun
\* by a newer generation, or settled.
LEMMA ShardStep ==
  ASSUME IInv, [Next]_vars, NEW s \in Shards
  PROVE  \/ shard'[s] = shard[s]
         \/ shard[s].status = "IN_PROGRESS" /\ shard'[s] = Returned(shard[s])
         \/ /\ shard[s].status = "PENDING" /\ status = "RUNNING"
            /\ shard[s].attempts < MaxAttempts
            /\ \E t \in Nat : shard'[s] = Started(shard[s], t)
         \/ /\ shard[s].status = "IN_PROGRESS"
            /\ \E t \in Nat, out \in Outputs : shard'[s] = Completed(shard[s], t, out)
         \/ /\ shard[s].status = "IN_PROGRESS"
            /\ \E t \in Nat : shard'[s] = Blocked(shard[s], t)
  <1>t. shard \in [Shards -> ShardRows] /\ \A r \in Runs : call[r].now \in Nat
    BY DEF IInv, TypeOK, Calls
  <1>1. ASSUME NEW r \in Runs, StartShard(r)
        PROVE  \/ shard'[s] = shard[s]
               \/ /\ shard[s].status = "PENDING" /\ status = "RUNNING"
                  /\ shard[s].attempts < MaxAttempts
                  /\ \E t \in Nat : shard'[s] = Started(shard[s], t)
    BY <1>1, <1>t, StartEffect DEF file
  <1>2. ASSUME NEW r \in Runs, CompleteShard(r)
        PROVE  \/ shard'[s] = shard[s]
               \/ /\ shard[s].status = "IN_PROGRESS"
                  /\ \E t \in Nat, out \in Outputs :
                       shard'[s] = Completed(shard[s], t, out)
    BY <1>2, <1>t, CompleteEffect DEF file
  <1>3. ASSUME NEW r \in Runs, BlockShard(r)
        PROVE  \/ shard'[s] = shard[s]
               \/ /\ shard[s].status = "IN_PROGRESS"
                  /\ \E t \in Nat : shard'[s] = Blocked(shard[s], t)
    BY <1>3, <1>t, BlockEffect
  <1>4. ASSUME NEW r \in Runs, ClaimResume(r) \/ Preempt(r)
        PROVE  \/ shard'[s] = shard[s]
               \/ shard[s].status = "IN_PROGRESS" /\ shard'[s] = Returned(shard[s])
    BY <1>4, <1>t, ReturnedType DEF ClaimResume, Preempt
  <1>5. ASSUME NEW r \in Runs,
               Create(r) \/ Finish(r) \/ Refuse(r) \/ Work(r) \/ Load(r) \/ Crash(r)
        PROVE  shard'[s] = shard[s]
    BY <1>5 DEF Create, Finish, Refuse, Work, Load, Crash, InvokeCreate, InvokeClaim,
       InvokePreempt, InvokeFinish, InvokeStart, InvokeBlock, InvokeComplete, Invoke,
       file
  <1>6. CASE Tick \/ UNCHANGED vars
    BY <1>6 DEF Tick, vars, file
  <1> QED
    BY <1>1, <1>2, <1>3, <1>4, <1>5, <1>6 DEF Next, Serve

\* A completed shard never changes.
THEOREM Immutability == Spec => CompletedIsImmutable
  <1>1. IInv /\ [Next]_vars =>
          [\A s \in Shards : shard[s].status = "COMPLETED" => shard'[s] = shard[s]]_vars
    BY ShardStep
  <1> QED
    BY <1>1, Invariance, PTL DEF Spec, CompletedIsImmutable

\* Attempts are counted across generations and are at most two.
THEOREM Counting == Spec => AttemptsAreCounted
  <1> DEFINE A == \A s \in Shards :
                    shard'[s].attempts # shard[s].attempts =>
                      /\ shard'[s].attempts = shard[s].attempts + 1
                      /\ startGen[s] < generation
  <1>1. IInv /\ [Next]_vars => [A]_vars
    <2> SUFFICES ASSUME IInv, [Next]_vars, NEW s \in Shards,
                        shard'[s].attempts # shard[s].attempts
                 PROVE  /\ shard'[s].attempts = shard[s].attempts + 1
                        /\ startGen[s] < generation
      OBVIOUS
    <2>1. shard[s] \in ShardRows
      BY DEF IInv, TypeOK
    <2>2. /\ shard[s].status = "PENDING" /\ status = "RUNNING"
          /\ shard[s].attempts < MaxAttempts
          /\ \E t \in Nat : shard'[s] = Started(shard[s], t)
      BY <2>1, ShardStep, ReturnedType, CompletedType, BlockedType
    <2>3. shard'[s].attempts = shard[s].attempts + 1
      BY <2>1, <2>2, StartedType
    <2> QED
      BY <2>2, <2>3 DEF IInv, GenerationsAreOrdered
  <1> QED
    BY <1>1, Invariance, PTL DEF Spec, AttemptsAreCounted

\* A finished checkpoint is final.
THEOREM Finality == Spec => FinishedIsFinal
  <1>1. IInv /\ [Next]_vars =>
          [(status \in Terminal) =>
             status' = status /\ generation' = generation /\ shard' = shard]_vars
    BY FinishedStep
  <1> QED
    BY <1>1, Invariance, PTL DEF Spec, FinishedIsFinal

\* The store keeps the promise of ShardWork: start_shard is a try, the first
\* complete_shard or block_shard settles, finish closes, and every other step
\* is invisible.
THEOREM Refinement == Spec => KeepsPromise
  <1> DEFINE oc == [s \in Shards |-> OutcomeOf(s)]
             tr == [s \in Shards |-> shard[s].attempts]
             cl == status \in Terminal
  <1>1. Init => Promise!Init
    BY DEF Init, Promise!Init, OutcomeOf, Fresh, Terminal
  <1>2. IInv /\ [Next]_vars => [Promise!Next]_(Promise!svars)
    <2> SUFFICES ASSUME IInv, [Next]_vars
                 PROVE  Promise!Next \/ UNCHANGED Promise!svars
      OBVIOUS
    <2>t. /\ shard \in [Shards -> ShardRows] /\ \A r \in Runs : call[r].now \in Nat
          /\ \A s \in Shards : shard[s] \in ShardRows /\ shard[s].attempts \in Nat
      BY DEF IInv, TypeOK, Calls, ShardRows, MaxAttempts
    <2>1. ASSUME NEW r \in Runs, StartShard(r)
          PROVE  Promise!Next \/ UNCHANGED Promise!svars
      <3>1. CASE UNCHANGED <<file, history>>
        BY <3>1 DEF Promise!svars, OutcomeOf, file
      <3>2. ASSUME NEW s \in Shards,
                   status = "RUNNING", shard[s].status = "PENDING",
                   shard[s].attempts < MaxAttempts,
                   shard' = [shard EXCEPT ![s] = Started(shard[s], call[r].now)],
                   UNCHANGED status
            PROVE  Promise!Try(s)
        <4>1. /\ shard'[s].status = "IN_PROGRESS"
              /\ shard'[s].attempts = shard[s].attempts + 1
              /\ \A q \in Shards \ {s} : shard'[q] = shard[q]
          BY <3>2, <2>t, StartedType
        <4>2. oc' = oc
          BY <3>2, <4>1 DEF OutcomeOf
        <4>3. tr' = [tr EXCEPT ![s] = tr[s] + 1]
          BY <4>1
        <4> QED
          BY <3>2, <4>2, <4>3 DEF Promise!Try, OutcomeOf, Terminal
      <3> QED
        BY <2>1, <3>1, <3>2, StartEffect DEF Promise!Next
    <2>s. ASSUME NEW s \in Shards, shard[s].status = "IN_PROGRESS",
                 NEW row \in ShardRows, row.attempts = shard[s].attempts,
                 row.status \in Settled,
                 row.status = "COMPLETED" => row.output \in Outputs,
                 shard' = [shard EXCEPT ![s] = row], UNCHANGED status
          PROVE  Promise!Next
      <3> DEFINE v == IF row.status = "COMPLETED" THEN row.output ELSE BlockedOutcome
      <3>1. shard'[s] = row /\ \A q \in Shards \ {s} : shard'[q] = shard[q]
        BY <2>s, <2>t
      <3>2. oc' = [oc EXCEPT ![s] = v]
        <4>1. row.status = "COMPLETED" \/ row.status = "BLOCKED"
          BY <2>s DEF Settled
        <4>2. OutcomeOf(s)' = v
          BY <3>1, <4>1 DEF OutcomeOf
        <4>3. \A q \in Shards \ {s} : OutcomeOf(q)' = OutcomeOf(q)
          BY <3>1 DEF OutcomeOf
        <4> HIDE DEF v
        <4> QED
          BY <4>2, <4>3
      <3>3. tr' = tr
        BY <2>s, <3>1
      <3>4. status \notin Terminal /\ shard[s].attempts > 0
        <4>1. status \notin Terminal
          BY <2>s DEF IInv, RowValid, Settled, Terminal
        <4>2. status # "ABSENT"
          BY <2>s DEF IInv, GenerationsAreOrdered, Fresh
        <4>3. shard[s].attempts >= 1
          BY <2>s, <4>2 DEF IInv, RowValid, ShardValid
        <4> QED
          BY <4>1, <4>3, <2>t
      <3>5. v \in Outputs \cup {BlockedOutcome}
        BY <2>s
      <3>6. Promise!Settle(s, v)
        BY <2>s, <3>2, <3>3, <3>4 DEF Promise!Settle, OutcomeOf
      <3> QED
        BY <3>5, <3>6 DEF Promise!Next
    <2>2. ASSUME NEW r \in Runs, CompleteShard(r)
          PROVE  Promise!Next \/ UNCHANGED Promise!svars
      <3>1. CASE UNCHANGED <<file, history>>
        BY <3>1 DEF Promise!svars, OutcomeOf, file
      <3>2. ASSUME NEW s \in Shards, NEW out \in Outputs,
                   shard[s].status = "IN_PROGRESS",
                   shard' = [shard EXCEPT ![s] = Completed(shard[s], call[r].now, out)],
                   UNCHANGED status
            PROVE  Promise!Next
        <4> DEFINE row == Completed(shard[s], call[r].now, out)
        <4>1. /\ row \in ShardRows /\ row.status = "COMPLETED" /\ row.output = out
              /\ row.attempts = shard[s].attempts
          BY <2>t, CompletedType
        <4> HIDE DEF row
        <4> QED
          BY <3>2, <4>1, <2>s DEF Settled, row
      <3> QED
        BY <2>2, <3>1, <3>2, CompleteEffect
    <2>3. ASSUME NEW r \in Runs, BlockShard(r) PROVE Promise!Next
      <3>2. ASSUME NEW s \in Shards, shard[s].status = "IN_PROGRESS",
                   shard' = [shard EXCEPT ![s] = Blocked(shard[s], call[r].now)],
                   UNCHANGED status
            PROVE  Promise!Next
        <4> DEFINE row == Blocked(shard[s], call[r].now)
        <4>1. /\ row \in ShardRows /\ row.status = "BLOCKED"
              /\ row.attempts = shard[s].attempts
          BY <2>t, BlockedType
        <4> HIDE DEF row
        <4> QED
          BY <3>2, <4>1, <2>s DEF Settled, row
      <3> QED
        BY <2>3, <3>2, BlockEffect
    <2>4. ASSUME NEW r \in Runs, ClaimResume(r) \/ Preempt(r)
          PROVE  UNCHANGED Promise!svars
      <3>1. \A s \in Shards : shard'[s] = Returned(shard[s])
        BY <2>4 DEF ClaimResume, Preempt
      <3>2. oc' = oc /\ tr' = tr
        BY <3>1, <2>t, ReturnedType DEF OutcomeOf
      <3>3. cl' = cl
        BY <2>4 DEF ClaimResume, ClaimAdmitted, Preempt, PreemptAdmitted, Terminal
      <3> QED
        BY <3>2, <3>3 DEF Promise!svars
    <2>5. ASSUME NEW r \in Runs, Finish(r) PROVE Promise!Close
      <3>1. \A s \in Shards : OutcomeOf(s) # OpenOutcome
        <4> SUFFICES ASSUME NEW s \in Shards PROVE OutcomeOf(s) # OpenOutcome
          OBVIOUS
        <4>1. status # "ABSENT" /\ shard[s].status \in Settled
          BY <2>5 DEF Finish, FinishAdmitted, Fenced
        <4>2. shard[s].status = "COMPLETED" => shard[s].output \in Outputs
          BY <4>1, <2>t DEF IInv, RowValid, ShardValid, ShardRows
        <4> QED
          BY <4>1, <4>2, OutcomeAssumption
             DEF OutcomeOf, Settled, OpenOutcome, BlockedOutcome
      <3>2. cl' = TRUE /\ shard' = shard
        BY <2>5 DEF Finish, Terminal
      <3>3. oc' = oc /\ tr' = tr
        BY <3>2 DEF OutcomeOf
      <3> QED
        BY <3>1, <3>2, <3>3 DEF Promise!Close
    <2>6. ASSUME NEW r \in Runs, Create(r) PROVE UNCHANGED Promise!svars
      BY <2>6 DEF Create, CreateAdmitted, Promise!svars, OutcomeOf, Terminal
    <2>7. ASSUME UNCHANGED file PROVE UNCHANGED Promise!svars
      BY <2>7 DEF Promise!svars, OutcomeOf, file
    <2>8. ASSUME NEW r \in Runs, Refuse(r) \/ Work(r) \/ Load(r) \/ Crash(r)
          PROVE  UNCHANGED file
      BY <2>8 DEF Refuse, Work, Load, Crash, InvokeCreate, InvokeClaim, InvokePreempt,
         InvokeFinish, InvokeStart, InvokeBlock, InvokeComplete, Invoke
    <2>9. ASSUME Tick \/ UNCHANGED vars PROVE UNCHANGED file
      BY <2>9 DEF Tick, vars
    <2> QED
      BY <2>1, <2>2, <2>3, <2>4, <2>5, <2>6, <2>7, <2>8, <2>9
         DEF Next, Serve, Promise!Next
  <1> QED
    BY <1>1, <1>2, Invariance, PTL DEF Spec, KeepsPromise, Promise!Spec

=============================================================================
