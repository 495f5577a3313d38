------------------------- MODULE PriorityCheckpoint -------------------------
(***************************************************************************)
(* The checkpoint of one sharded workload as AtomicCheckpointStore keeps   *)
(* it (priority_runtime.py).  The checkpoint is one JSON file; every       *)
(* method takes a flock, reads the file, tests the caller's generation and *)
(* fencing token, changes the row and replaces the file.                   *)
(*                                                                         *)
(* A call is two steps.  Invoke samples what the method takes in before    *)
(* it holds the lock: the handle the caller got from an earlier call, its  *)
(* clock, the content of the shard's output file.  The operation's own     *)
(* action is the critical section.  Between the two the other runs may     *)
(* preempt, resume and finish the checkpoint.                              *)
(*                                                                         *)
(* A fencing token is a hash of the checkpoint, the generation and the     *)
(* owner, so a handle [generation, owner] stands for both the expected     *)
(* generation and the token.  Failure codes are left out: a shard has one  *)
(* exactly when it is BLOCKED.                                             *)
(***************************************************************************)
EXTENDS Naturals

CONSTANTS Runs,           \* the workflow runs that call the store
          Shards,         \* the shard ids of the workload
          Outputs,        \* what an output file may contain (path, hash, size)
          NoRun, NoShard, NoOutput,
          MaxTime,        \* bound: the clock
          MaxGeneration,  \* bound: how often the checkpoint is claimed
          MaxCrashes      \* bound: crashes of a run

ASSUME NoneAssumption ==
  NoRun \notin Runs /\ NoShard \notin Shards /\ NoOutput \notin Outputs

\* The two outcomes of a shard that are not an output.
OpenOutcome == "open"
BlockedOutcome == "blocked"

ASSUME OutcomeAssumption ==
  OpenOutcome \notin Outputs /\ BlockedOutcome \notin Outputs

ASSUME BoundAssumption ==
  MaxTime \in Nat /\ MaxGeneration \in Nat /\ MaxCrashes \in Nat

VARIABLES
  status,      \* of the checkpoint; "ABSENT" while there is no file
  generation, owner, updatedAt, finishedAt, shard,
  clock,       \* the time every run reads
  handle,      \* handle[r]: the generation and token r took from a returned row
  call,        \* call[r]: the method r is inside of, before its critical section
  crashes,
  startGen,    \* history: the generation that last started a shard
  settleGen    \* history: the generation that completed or blocked it

file == <<status, generation, owner, updatedAt, finishedAt, shard>>
history == <<startGen, settleGen>>
vars == <<file, clock, handle, call, crashes, history>>

MaxAttempts == 2
Terminal == {"COMPLETED", "COMPLETED_WITH_BLOCKS"}
Settled == {"COMPLETED", "BLOCKED"}
NoTime == 0
NoHandle == [generation |-> 0, owner |-> NoRun]
NoCall == [op |-> "none", handle |-> NoHandle, now |-> NoTime,
           shard |-> NoShard, output |-> NoOutput]
Fresh == [status |-> "PENDING", attempts |-> 0, started |-> NoTime,
          finished |-> NoTime, output |-> NoOutput]

Handles == [generation : Nat, owner : Runs \cup {NoRun}]
ShardRows == [status : {"PENDING", "IN_PROGRESS", "COMPLETED", "BLOCKED"},
              attempts : 0 .. MaxAttempts, started : Nat, finished : Nat,
              output : Outputs \cup {NoOutput}]
Calls == [op : {"none", "create", "claim", "start", "complete", "block",
                "preempt", "finish"},
          handle : Handles, now : Nat, shard : Shards \cup {NoShard},
          output : Outputs \cup {NoOutput}]

TypeOK ==
  /\ status \in {"ABSENT", "RUNNING", "PREEMPTED", "BLOCKED"} \cup Terminal
  /\ generation \in Nat
  /\ owner \in Runs \cup {NoRun}
  /\ updatedAt \in Nat /\ finishedAt \in Nat
  /\ shard \in [Shards -> ShardRows]
  /\ clock \in Nat /\ crashes \in Nat
  /\ handle \in [Runs -> Handles]
  /\ call \in [Runs -> Calls]
  /\ startGen \in [Shards -> Nat] /\ settleGen \in [Shards -> Nat]

Init ==
  /\ status = "ABSENT" /\ generation = 0 /\ owner = NoRun
  /\ updatedAt = NoTime /\ finishedAt = NoTime
  /\ shard = [s \in Shards |-> Fresh]
  /\ clock = 1 /\ crashes = 0
  /\ handle = [r \in Runs |-> NoHandle]
  /\ call = [r \in Runs |-> NoCall]
  /\ startGen = [s \in Shards |-> 0] /\ settleGen = [s \in Shards |-> 0]

-----------------------------------------------------------------------------
(* What the critical sections test. *)

\* The file is there and neither the generation nor the token is stale.
Fenced(c) ==
  /\ status # "ABSENT"
  /\ c.handle.generation = generation
  /\ c.handle.owner = owner

\* The caller's clock is not behind the row.
InOrder(c) == c.now >= updatedAt

\* Slips in what an interruption gives back, for the mutation runs: the start
\* time is kept; nothing is given back; the attempt is given back too.
ReturnedKeepsStart(row) ==
  IF row.status = "IN_PROGRESS" THEN [row EXCEPT !.status = "PENDING"] ELSE row

ReturnedNothing(row) == row

ReturnedForgets(row) == IF row.status = "IN_PROGRESS" THEN Fresh ELSE row

\* A shard an interruption takes back: its attempts stay counted.
Returned(row) ==
  IF row.status = "IN_PROGRESS"
  THEN [row EXCEPT !.status = "PENDING", !.started = NoTime,
                   !.finished = NoTime, !.output = NoOutput]
  ELSE row

Started(row, t) ==
  [row EXCEPT !.status = "IN_PROGRESS", !.started = t,
              !.attempts = row.attempts + 1]

Completed(row, t, out) ==
  [row EXCEPT !.status = "COMPLETED", !.finished = t, !.output = out]

Blocked(row, t) ==
  [row EXCEPT !.status = "BLOCKED", !.finished = t, !.output = NoOutput]

CreateAdmitted(c) == c.op = "create" /\ status = "ABSENT"

\* A slip: a finished checkpoint is resumed like a stopped one.
ClaimAdmittedAnyStopped(c) ==
  /\ c.op = "claim"
  /\ status \in {"PREEMPTED", "BLOCKED"} \cup Terminal
  /\ c.handle.generation = generation
  /\ InOrder(c)

ClaimAdmitted(c) ==
  /\ c.op = "claim"
  /\ status \in {"PREEMPTED", "BLOCKED"}
  /\ c.handle.generation = generation
  /\ InOrder(c)

\* A slip: the attempt budget is not tested.
StartAdmittedNoBudget(c) ==
  /\ c.op = "start"
  /\ Fenced(c)
  /\ status = "RUNNING"
  /\ \/ shard[c.shard].status \in {"COMPLETED", "IN_PROGRESS"}
     \/ shard[c.shard].status = "PENDING" /\ InOrder(c)

StartAdmitted(c) ==
  /\ c.op = "start"
  /\ Fenced(c)
  /\ status = "RUNNING"
  /\ \/ shard[c.shard].status \in {"COMPLETED", "IN_PROGRESS"}
     \/ /\ shard[c.shard].status = "PENDING"
        /\ shard[c.shard].attempts < MaxAttempts
        /\ InOrder(c)

CompleteAdmitted(c) ==
  /\ c.op = "complete"
  /\ Fenced(c)
  /\ \/ shard[c.shard].status = "COMPLETED" /\ shard[c.shard].output = c.output
     \/ shard[c.shard].status = "IN_PROGRESS" /\ InOrder(c)

\* A slip: whatever its status, a shard that was started is blocked.
BlockAdmittedStarted(c) ==
  /\ c.op = "block"
  /\ Fenced(c)
  /\ shard[c.shard].status # "PENDING"
  /\ InOrder(c)

BlockAdmitted(c) ==
  /\ c.op = "block"
  /\ Fenced(c)
  /\ shard[c.shard].status = "IN_PROGRESS"
  /\ InOrder(c)

PreemptAdmitted(c) ==
  c.op = "preempt" /\ Fenced(c) /\ status = "RUNNING" /\ InOrder(c)

\* Slips in finish: open shards are overlooked; blocked ones are not accepted.
FinishAdmittedEarly(c) == c.op = "finish" /\ Fenced(c) /\ InOrder(c)

FinishAdmittedAllCompleted(c) ==
  /\ c.op = "finish"
  /\ Fenced(c)
  /\ \A s \in Shards : shard[s].status = "COMPLETED"
  /\ InOrder(c)

FinishAdmitted(c) ==
  /\ c.op = "finish"
  /\ Fenced(c)
  /\ \A s \in Shards : shard[s].status \in Settled
  /\ InOrder(c)

-----------------------------------------------------------------------------
(* The critical sections.  Each ends in _atomic_write.  Its os.replace is  *)
(* followed by the fsync of the directory, so the method may raise, or its *)
(* process may die, after the new row is in place: the caller then keeps   *)
(* the handle it had.                                                      *)

Answer(r) ==
  /\ call' = [call EXCEPT ![r] = NoCall]
  /\ \/ handle' = [handle EXCEPT
                     ![r] = [generation |-> generation', owner |-> owner']]
     \/ UNCHANGED handle
  /\ UNCHANGED <<clock, crashes>>

Create(r) ==
  LET c == call[r] IN
  /\ CreateAdmitted(c)
  /\ status' = "RUNNING" /\ generation' = 1 /\ owner' = r
  /\ updatedAt' = c.now
  /\ UNCHANGED <<finishedAt, shard, history>>
  /\ Answer(r)

ClaimResume(r) ==
  LET c == call[r] IN
  /\ ClaimAdmitted(c)
  /\ status' = "RUNNING" /\ generation' = generation + 1 /\ owner' = r
  /\ updatedAt' = c.now /\ finishedAt' = NoTime
  /\ shard' = [s \in Shards |-> Returned(shard[s])]
  /\ UNCHANGED history
  /\ Answer(r)

StartShard(r) ==
  LET c == call[r] IN
  /\ StartAdmitted(c)
  /\ \/ /\ shard[c.shard].status # "PENDING"      \* returns changed = False
        /\ UNCHANGED <<updatedAt, shard, startGen>>
     \/ /\ shard[c.shard].status = "PENDING"
        /\ updatedAt' = c.now
        /\ shard' = [shard EXCEPT ![c.shard] = Started(shard[c.shard], c.now)]
        /\ startGen' = [startGen EXCEPT ![c.shard] = generation]
  /\ UNCHANGED <<status, generation, owner, finishedAt, settleGen>>
  /\ Answer(r)

CompleteShard(r) ==
  LET c == call[r] IN
  /\ CompleteAdmitted(c)
  /\ \/ /\ shard[c.shard].status = "COMPLETED"    \* the same output again
        /\ UNCHANGED <<updatedAt, shard, settleGen>>
     \/ /\ shard[c.shard].status = "IN_PROGRESS"
        /\ updatedAt' = c.now
        /\ shard' = [shard EXCEPT
                       ![c.shard] = Completed(shard[c.shard], c.now, c.output)]
        /\ settleGen' = [settleGen EXCEPT ![c.shard] = generation]
  /\ UNCHANGED <<status, generation, owner, finishedAt, startGen>>
  /\ Answer(r)

BlockShard(r) ==
  LET c == call[r] IN
  /\ BlockAdmitted(c)
  /\ updatedAt' = c.now
  /\ shard' = [shard EXCEPT ![c.shard] = Blocked(shard[c.shard], c.now)]
  /\ settleGen' = [settleGen EXCEPT ![c.shard] = generation]
  /\ UNCHANGED <<status, generation, owner, finishedAt, startGen>>
  /\ Answer(r)

Preempt(r) ==
  LET c == call[r] IN
  /\ PreemptAdmitted(c)
  /\ status' = "PREEMPTED"
  /\ updatedAt' = c.now
  /\ shard' = [s \in Shards |-> Returned(shard[s])]
  /\ UNCHANGED <<generation, owner, finishedAt, history>>
  /\ Answer(r)

Finish(r) ==
  LET c == call[r] IN
  /\ FinishAdmitted(c)
  /\ status' = IF \E s \in Shards : shard[s].status = "BLOCKED"
               THEN "COMPLETED_WITH_BLOCKS" ELSE "COMPLETED"
  /\ updatedAt' = c.now /\ finishedAt' = c.now
  /\ UNCHANGED <<generation, owner, shard, history>>
  /\ Answer(r)

\* The method raises: nothing is written and the caller keeps its handle.
Refuse(r) ==
  LET c == call[r] IN
  /\ c.op # "none"
  /\ ~ \/ CreateAdmitted(c) \/ ClaimAdmitted(c) \/ StartAdmitted(c)
       \/ CompleteAdmitted(c) \/ BlockAdmitted(c) \/ PreemptAdmitted(c)
       \/ FinishAdmitted(c)
  /\ call' = [call EXCEPT ![r] = NoCall]
  /\ UNCHANGED <<file, clock, handle, crashes, history>>

-----------------------------------------------------------------------------
(* The callers. *)

\* r enters a method with what it knows: its handle, the time and, to
\* complete a shard, the output file it has just read.
Invoke(r, op, s, out) ==
  /\ call[r] = NoCall
  /\ call' = [call EXCEPT ![r] = [op |-> op, handle |-> handle[r], now |-> clock,
                                  shard |-> s, output |-> out]]
  /\ UNCHANGED <<file, clock, handle, crashes, history>>

InvokeCreate(r) == Invoke(r, "create", NoShard, NoOutput)

InvokeClaim(r) == /\ handle[r] # NoHandle
                  /\ handle[r].generation < MaxGeneration
                  /\ Invoke(r, "claim", NoShard, NoOutput)

InvokeStart(r, s) == handle[r] # NoHandle /\ Invoke(r, "start", s, NoOutput)

InvokeComplete(r, s, out) == handle[r] # NoHandle /\ Invoke(r, "complete", s, out)

InvokeBlock(r, s) == handle[r] # NoHandle /\ Invoke(r, "block", s, NoOutput)

\* The bound leaves room for the claim that must follow.
InvokePreempt(r) == /\ handle[r] # NoHandle
                    /\ handle[r].generation < MaxGeneration
                    /\ Invoke(r, "preempt", NoShard, NoOutput)

InvokeFinish(r) == handle[r] # NoHandle /\ Invoke(r, "finish", NoShard, NoOutput)

\* load returns the row, with its generation and token, to any run.
Load(r) ==
  /\ call[r] = NoCall /\ status # "ABSENT"
  /\ handle' = [handle EXCEPT ![r] = [generation |-> generation, owner |-> owner]]
  /\ UNCHANGED <<file, clock, call, crashes, history>>

\* The process of r dies before its write lands, or between two calls.
Crash(r) ==
  /\ crashes < MaxCrashes
  /\ crashes' = crashes + 1
  /\ handle' = [handle EXCEPT ![r] = NoHandle]
  /\ call' = [call EXCEPT ![r] = NoCall]
  /\ UNCHANGED <<file, clock, history>>

Tick ==
  /\ clock < MaxTime
  /\ clock' = clock + 1
  /\ UNCHANGED <<file, handle, call, crashes, history>>

Work(r) ==
  \/ InvokeCreate(r) \/ InvokeClaim(r) \/ InvokePreempt(r) \/ InvokeFinish(r)
  \/ \E s \in Shards : InvokeStart(r, s) \/ InvokeBlock(r, s)
  \/ \E s \in Shards, out \in Outputs : InvokeComplete(r, s, out)

Serve(r) ==
  \/ Create(r) \/ ClaimResume(r) \/ StartShard(r) \/ CompleteShard(r)
  \/ BlockShard(r) \/ Preempt(r) \/ Finish(r) \/ Refuse(r)

Next ==
  \/ \E r \in Runs : Work(r) \/ Serve(r) \/ Load(r) \/ Crash(r)
  \/ Tick

Spec == Init /\ [][Next]_vars

\* A cooperating caller never stops: a call it is inside of returns, it
\* reloads the row, and every kind of call that serves progress is made
\* again and again.  Nothing obliges a run to create, preempt or crash.
Cooperates(r) ==
  /\ WF_vars(Serve(r))
  /\ SF_vars(Load(r))
  /\ SF_vars(InvokeClaim(r))
  /\ SF_vars(InvokeFinish(r))
  /\ \A s \in Shards : SF_vars(InvokeStart(r, s))
  /\ \A s \in Shards : SF_vars(\E out \in Outputs : InvokeComplete(r, s, out))

FairSpec == Spec /\ \A r \in Runs : Cooperates(r)

-----------------------------------------------------------------------------
(* Properties. *)

\* _validate_shard on one row.
ShardValid(row) ==
  /\ row.status = "PENDING" =>
       row.started = NoTime /\ row.finished = NoTime /\ row.output = NoOutput
  /\ row.status # "PENDING" => row.attempts >= 1 /\ row.started # NoTime
  /\ row.status = "IN_PROGRESS" =>
       row.finished = NoTime /\ row.output = NoOutput
  /\ row.status \in Settled => row.finished >= row.started
  /\ row.status = "COMPLETED" => row.output # NoOutput
  /\ row.status = "BLOCKED" => row.output = NoOutput

\* No interleaving of admitted calls writes a row that _validate_checkpoint
\* refuses.  A method validates the row it read before it does anything, so
\* one such row would make every later call of every run fail.
RowValid ==
  status # "ABSENT" =>
    /\ generation >= 1
    /\ \A s \in Shards : ShardValid(shard[s])
    /\ finishedAt # NoTime <=> status \in Terminal
    /\ status \in Terminal =>
         /\ finishedAt >= updatedAt
         /\ \A s \in Shards : shard[s].status \in Settled

\* Nothing about the row is later than its updated_at, and a run never knows
\* a time that has not come.
Chronology ==
  /\ clock >= 1 /\ updatedAt <= clock
  /\ \A s \in Shards : shard[s].started <= updatedAt /\ shard[s].finished <= updatedAt
  /\ \A r \in Runs : call[r].op # "none" => call[r].now \in 1 .. clock

\* Every method is entered with the arguments it takes.
CallsAreWellFormed ==
  \A r \in Runs :
    /\ call[r].op \in {"start", "complete", "block"} => call[r].shard \in Shards
    /\ call[r].op = "complete" => call[r].output \in Outputs

\* Before create there is no generation and no work; afterwards no shard was
\* started by a generation that is still to come, and a shard that waits
\* under a running checkpoint was not started by the present one.
GenerationsAreOrdered ==
  /\ status = "ABSENT" =>
       /\ generation = 0 /\ updatedAt = NoTime /\ finishedAt = NoTime
       /\ shard = [s \in Shards |-> Fresh]
  /\ status # "ABSENT" => generation >= 1
  /\ \A s \in Shards :
       /\ startGen[s] <= generation
       /\ (status = "RUNNING" /\ shard[s].status = "PENDING") =>
             startGen[s] < generation

\* Work is fenced: a shard in progress was started under the generation the
\* row has now, and a settled one was settled by the generation that last
\* started it.  The result of a run that was preempted and replaced never
\* lands on the attempt of its successor.
WorkIsFenced ==
  \A s \in Shards :
    /\ shard[s].status = "IN_PROGRESS" => startGen[s] = generation
    /\ shard[s].status \in Settled => settleGen[s] = startGen[s]

\* The status of a finished checkpoint tells whether a shard was blocked.
FinishedStatus ==
  status \in Terminal =>
    (status = "COMPLETED_WITH_BLOCKS" <=> \E s \in Shards : shard[s].status = "BLOCKED")

\* The inductive invariant.
IInv ==
  /\ TypeOK /\ RowValid /\ WorkIsFenced
  /\ Chronology /\ CallsAreWellFormed /\ GenerationsAreOrdered /\ FinishedStatus

\* A completed shard never changes again, whatever is preempted, resumed,
\* retried or completed a second time with another output.
CompletedIsImmutable ==
  [][\A s \in Shards :
       shard[s].status = "COMPLETED" => shard'[s] = shard[s]]_vars

\* The attempt count survives preemption, resumption and crashes, and one
\* generation starts a shard at most once: the second attempt belongs to a
\* later owner.
AttemptsAreCounted ==
  [][\A s \in Shards :
       shard'[s].attempts # shard[s].attempts =>
         /\ shard'[s].attempts = shard[s].attempts + 1
         /\ startGen[s] < generation]_vars

\* A finished checkpoint is never resumed, preempted or restarted, although
\* neither complete_shard, block_shard nor finish looks at its status.
FinishedIsFinal ==
  [][(status \in Terminal) =>
       status' = status /\ generation' = generation /\ shard' = shard]_vars

\* A shard that was interrupted on its last attempt: start_shard refuses it
\* and complete_shard and block_shard want it in progress.
Exhausted(s) == shard[s].status = "PENDING" /\ shard[s].attempts = MaxAttempts

\* With callers that cooperate, a checkpoint that exists is finished unless
\* an interrupted shard has used up its attempts; that is the only way the
\* workload gets stuck.
FinishedOrExhausted ==
  status # "ABSENT" ~>
    (status \in Terminal \/ \E s \in Shards : Exhausted(s))

OutcomeOf(s) == CASE shard[s].status = "COMPLETED" -> shard[s].output
              [] shard[s].status = "BLOCKED" -> BlockedOutcome
              [] OTHER -> OpenOutcome

Promise == INSTANCE ShardWork WITH
  Outcomes <- Outputs \cup {BlockedOutcome}, Open <- OpenOutcome,
  MaxTries <- MaxAttempts,
  outcome <- [s \in Shards |-> OutcomeOf(s)],
  tries <- [s \in Shards |-> shard[s].attempts],
  closed <- status \in Terminal

\* The store implements the promise: tokens, generations, stale calls,
\* crashes and lost answers are invisible in the outcomes of the shards.
KeepsPromise == Promise!Spec

=============================================================================
