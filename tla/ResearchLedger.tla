--------------------------- MODULE ResearchLedger ---------------------------
(***************************************************************************)
(* The research decision ledger (src/src/kubo/research_ledger.py): a       *)
(* stream of decisions and a stream of outcomes, each a JSONL file with a  *)
(* lock of its own, appended to by any number of processes, and a seal     *)
(* over both.                                                              *)
(*                                                                         *)
(* A report, a payload and an evidence packet are checked on themselves    *)
(* alone: they are valid, stay so and are not modelled.  The content of a  *)
(* stream stands for its hashes.  A part of a line that a write left       *)
(* behind lacks its newline, so every later read refuses the stream; the   *)
(* content is then torn.  The wall clock may be set back: each reading of  *)
(* it is any time.                                                         *)
(***************************************************************************)
EXTENDS Naturals, Sequences, SequencesExt, FiniteSets

CONSTANTS
  Procs, Decisions, Outcomes,
  NoProc,
  MaxTime,    \* bound: readings of the clock
  MaxCalls,   \* bound: calls made
  MaxMishaps  \* bound: short writes, failed fsyncs and deaths

ASSUME NoProcAssumption == NoProc \notin Procs
ASSUME BoundsAssumption == {MaxTime, MaxCalls, MaxMishaps} \subseteq Nat

VARIABLES
  order,    \* the streams in the order of their path names
  stream,   \* the two files
  lock,     \* the holder of the lock beside each
  proc,     \* the call that each process is in
  seal,     \* what the seal file covers
  calls, mishaps

vars == <<order, stream, lock, proc, seal, calls, mishaps>>

Streams == {"decisions", "outcomes"}
Times == 0..MaxTime

DecisionEvents == [decision : Decisions, recorded : Times]
OutcomeEvents == [outcome : Outcomes, decision : Decisions, observed : Times, recorded : Times]

\* The calls: record_report, append_outcome, seal, and the readers verify and
\* verify_seal.
Calls ==
  [op : {"record"}, decision : Decisions]
    \cup [op : {"outcome"}, outcome : Outcomes, decision : Decisions, observed : Times]
    \cup [op : {"seal", "read"}]

Idle == [pc |-> "idle"]
Nobody == [s \in Streams |-> NoProc]
Missing == [pc |-> "missing"]

Init ==
  /\ order \in {<<"decisions", "outcomes">>, <<"outcomes", "decisions">>}
  /\ stream = [s \in Streams |-> [log |-> <<>>, torn |-> FALSE]]
  /\ lock = Nobody /\ proc = [p \in Procs |-> Idle]
  /\ seal = Missing /\ calls = 0 /\ mishaps = 0

-----------------------------------------------------------------------------
(* The checks. *)

decisions == stream["decisions"].log
outcomes == stream["outcomes"].log

Monotonic(log) == \A i \in DOMAIN log : i > 1 => log[i - 1].recorded <= log[i].recorded

Follows(event, log) ==
  \E i \in DOMAIN log :
    /\ log[i].decision = event.decision /\ log[i].recorded <= event.observed
    /\ event.observed <= event.recorded

VerifiesDecisions ==
  /\ \A i, j \in DOMAIN decisions : decisions[i].decision = decisions[j].decision => i = j
  /\ Monotonic(decisions)

VerifiesOutcomes ==
  /\ \A i, j \in DOMAIN outcomes : outcomes[i].outcome = outcomes[j].outcome => i = j
  /\ Monotonic(outcomes)
  /\ \A i \in DOMAIN outcomes : Follows(outcomes[i], decisions)

LastRecorded(log) == IF log = <<>> THEN 0 ELSE Last(log).recorded

Readable(s) == ~stream[s].torn

\* record_report looks at its own stream only.
MayRecord(call, now) ==
  /\ Readable("decisions") /\ VerifiesDecisions
  /\ \A i \in DOMAIN decisions : decisions[i].decision # call.decision
  /\ now >= LastRecorded(decisions)

NewOutcome(call, now) ==
  [outcome |-> call.outcome, decision |-> call.decision, observed |-> call.observed,
   recorded |-> now]

MayAppend(call, now) ==
  /\ \A s \in Streams : Readable(s)
  /\ VerifiesDecisions /\ VerifiesOutcomes
  /\ Follows(NewOutcome(call, now), decisions)
  /\ \A i \in DOMAIN outcomes : outcomes[i].outcome # call.outcome
  /\ now >= LastRecorded(outcomes)

MaySeal(now) ==
  /\ \A s \in Streams : Readable(s)
  /\ VerifiesDecisions /\ VerifiesOutcomes /\ decisions # <<>>
  /\ now >= LastRecorded(decisions) /\ now >= LastRecorded(outcomes)

-----------------------------------------------------------------------------
(* The steps of a call. *)

Start(p, call) ==
  /\ proc[p] = Idle /\ calls < MaxCalls
  /\ proc' = [proc EXCEPT ![p] = [pc |-> "locking", call |-> call, held |-> <<>>]]
  /\ calls' = calls + 1
  /\ UNCHANGED <<order, stream, lock, seal, mishaps>>

\* Mutant: a seal takes the locks in the other order than the rest.
LocksReversed(call) ==
  CASE call.op = "record" -> <<"decisions">>
    [] call.op = "seal" -> Reverse(order)
    [] OTHER -> order

\* Mutant: a seal is made under the lock of the outcomes.
LocksOfOutcomes(call) ==
  CASE call.op = "record" -> <<"decisions">>
    [] call.op = "seal" -> <<"outcomes">>
    [] OTHER -> order

\* The locks of a call, in the order it takes them.
Locks(call) == IF call.op = "record" THEN <<"decisions">> ELSE order

TakeLock(p) ==
  /\ proc[p].pc = "locking" /\ proc[p].held # Locks(proc[p].call)
  /\ LET s == Locks(proc[p].call)[Len(proc[p].held) + 1]
     IN /\ lock[s] = NoProc
        /\ lock' = [lock EXCEPT ![s] = p]
        /\ proc' = [proc EXCEPT ![p].held = Append(@, s)]
  /\ UNCHANGED <<order, stream, seal, calls, mishaps>>

Locked(p) == proc[p].pc = "locking" /\ proc[p].held = Locks(proc[p].call)

\* The call is over, and with it its locks.
Return(p) ==
  /\ proc' = [proc EXCEPT ![p] = Idle]
  /\ lock' = [s \in Streams |-> IF lock[s] = p THEN NoProc ELSE lock[s]]

May(call, now) ==
  CASE call.op = "record" -> MayRecord(call, now)
    [] call.op = "outcome" -> MayAppend(call, now)
    [] call.op = "seal" -> MaySeal(now)
    [] call.op = "read" -> FALSE

\* The call raises, or, a reader, returns its verdict: nothing is written.
Refuse(p) ==
  /\ Locked(p) /\ \E now \in Times : ~May(proc[p].call, now)
  /\ Return(p)
  /\ UNCHANGED <<order, stream, seal, calls, mishaps>>

\* Mutant: both appends write to one path.
TargetDecisions(call) == "decisions"

Target(call) == IF call.op = "record" THEN "decisions" ELSE "outcomes"

Event(call, now) ==
  IF call.op = "record" THEN [decision |-> call.decision, recorded |-> now]
  ELSE NewOutcome(call, now)

\* One write to the end of the file, of the line or of a part of it.
Write(p) ==
  /\ Locked(p) /\ proc[p].call.op \in {"record", "outcome"}
  /\ \E now \in Times, whole \in BOOLEAN :
       LET s == Target(proc[p].call)
       IN /\ May(proc[p].call, now)
          /\ whole \/ mishaps < MaxMishaps
          /\ stream' = [stream EXCEPT ![s] =
                          [log |-> IF whole THEN Append(@.log, Event(proc[p].call, now)) ELSE @.log,
                           torn |-> ~whole]]
          /\ mishaps' = IF whole THEN mishaps ELSE mishaps + 1
          /\ proc' = [proc EXCEPT ![p].pc = IF whole THEN "written" ELSE "short"]
  /\ UNCHANGED <<order, lock, seal, calls>>

Acknowledge(p) ==
  /\ proc[p].pc = "written"
  /\ Return(p)
  /\ UNCHANGED <<order, stream, seal, calls, mishaps>>

\* A short write, or a failed fsync: the file is cut back and the call raises.
RollBack(p) ==
  /\ proc[p].pc = "short" \/ (proc[p].pc = "written" /\ mishaps < MaxMishaps)
  /\ mishaps' = IF proc[p].pc = "short" THEN mishaps ELSE mishaps + 1
  /\ LET s == Target(proc[p].call)
     IN stream' = [stream EXCEPT ![s] =
                     [log |-> IF proc[p].pc = "short" THEN @.log ELSE Front(@.log),
                      torn |-> FALSE]]
  /\ Return(p)
  /\ UNCHANGED <<order, seal, calls>>

\* The seal is put in place of the former one at once.
Seal(p) ==
  /\ Locked(p) /\ proc[p].call.op = "seal"
  /\ \E now \in Times : MaySeal(now)
  /\ seal' = [pc |-> "sealed", decisions |-> decisions, outcomes |-> outcomes]
  /\ Return(p)
  /\ UNCHANGED <<order, stream, calls, mishaps>>

\* The process dies, or the file cannot be cut back: what was written stays,
\* and the locks are free.
Die(p) ==
  /\ proc[p] # Idle /\ mishaps < MaxMishaps
  /\ mishaps' = mishaps + 1
  /\ Return(p)
  /\ UNCHANGED <<order, stream, seal, calls>>

-----------------------------------------------------------------------------
Step(p) == TakeLock(p) \/ Refuse(p) \/ Write(p) \/ Acknowledge(p) \/ RollBack(p) \/ Seal(p)

Next == \E p \in Procs : Step(p) \/ Die(p) \/ \E call \in Calls : Start(p, call)

\* A process that can go on in its call does.
FairSpec == Init /\ [][Next]_vars /\ \A p \in Procs : WF_vars(Step(p))

-----------------------------------------------------------------------------
TypeOK ==
  /\ stream \in [Streams -> [log : Seq(DecisionEvents \cup OutcomeEvents), torn : BOOLEAN]]
  /\ decisions \in Seq(DecisionEvents) /\ outcomes \in Seq(OutcomeEvents)
  /\ lock \in [Streams -> Procs \cup {NoProc}]
  /\ \A p \in Procs :
       proc[p] = Idle \/ proc[p] \in [pc : {"locking", "written", "short"}, call : Calls,
                                      held : Seq(Streams)]
  /\ \A s \in Streams, p \in Procs :
       lock[s] = p <=> proc[p] # Idle /\ s \in {proc[p].held[i] : i \in DOMAIN proc[p].held}
  /\ seal = Missing \/ seal \in [pc : {"sealed"}, decisions : Seq(DecisionEvents),
                                 outcomes : Seq(OutcomeEvents)]
  /\ calls \in 0..MaxCalls /\ mishaps \in 0..MaxMishaps

\* The events of a stream that no append may still take back.
Committed(s) ==
  IF \E p \in Procs : proc[p].pc = "written" /\ Target(proc[p].call) = s
  THEN Front(stream[s].log) ELSE stream[s].log

\* A seal (research_ledger.py) covers one state of both streams: only events that
\* stay for good, every outcome with the one decision that was recorded before
\* it was observed, whatever was written, cut back or left behind meanwhile.
SealIsTrue ==
  seal # Missing =>
    /\ IsPrefix(seal.decisions, Committed("decisions"))
    /\ IsPrefix(seal.outcomes, Committed("outcomes"))
    /\ \A i \in DOMAIN seal.outcomes :
         /\ Follows(seal.outcomes[i], seal.decisions)
         /\ Cardinality({j \in DOMAIN seal.decisions :
                           seal.decisions[j].decision = seal.outcomes[i].decision}) = 1

\* Of finitely many calls every one returns or dies with its process: the two
\* locks are taken in one order by all calls, and a death frees them.
CallsReturn == \A p \in Procs : proc[p] # Idle ~> proc[p] = Idle

=============================================================================
