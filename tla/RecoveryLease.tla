--------------------------- MODULE RecoveryLease ----------------------------
(***************************************************************************)
(* The lease of one failure fingerprint (recovery.py): a JSON file that    *)
(* acquire, heartbeat, preemption request and release read and replace     *)
(* under a flock.  Only the probe and the liveness of a local process say  *)
(* whether the owner of an expired lease is still at work.                 *)
(*                                                                         *)
(* As in the code, the caller's clock is read before the guard is taken:   *)
(* Invoke records it and the operation's own action is the critical        *)
(* section, with any delay between the two.  A process stands for its      *)
(* run_id, owner and process_identity; a restarted run is a new process.   *)
(***************************************************************************)
EXTENDS Integers, FiniteSets

CONSTANTS Procs,
          HostOf,         \* HostOf[p]: where p runs
          LocalIdentity,  \* processes whose identity is local:<host>:<pid>:<start>
          Priority,       \* Priority[p]: what p asks for, 0 .. 100
          Generations,    \* generations a caller may ask for
          Expectations,   \* expected generations a caller may pass; NoExpectation
          NoExpectation, NoProc, NoLease,
          Duration,       \* lease.duration_seconds, in ticks
          MaxTime,        \* bound: the clock
          MaxTenures      \* bound: how often the lease is acquired

ASSUME ProcAssumption ==
  NoProc \notin Procs /\ LocalIdentity \subseteq Procs /\ Priority \in [Procs -> 0 .. 100]

ASSUME GenerationAssumption ==
  /\ Generations \subseteq Nat \ {0} /\ Expectations \subseteq Nat \cup {NoExpectation}
  /\ NoExpectation \notin Nat

ASSUME TimeAssumption ==
  Duration \in Nat \ {0} /\ MaxTime \in Nat /\ MaxTenures \in Nat

VARIABLES
  lease,     \* the file, or NoLease
  clock,
  alive, working,  \* a working process has been told that it owns the lease
  call,      \* the method a process is inside of, before its critical section
  seen,      \* seen[p]: the lease p last read, for its preemption request
  tenure,    \* history: how many leases were ever acquired
  seenTenure \* history: the tenure of the lease p last read

vars == <<lease, clock, alive, working, call, seen, tenure, seenTenure>>

LeaseRows ==
  [holder : Procs, generation : Nat \ {0}, priority : 0 .. 100,
   created : Nat, heartbeat : Nat, expires : Nat,
   preemptBy : Procs \cup {NoProc}, preemptPriority : -1 .. 100, preemptAt : Nat]

ASSUME LeaseAssumption == NoLease \notin LeaseRows

NoCall == [op |-> "none", now |-> 0, generation |-> 1, expected |-> NoExpectation]
Calls == [op : {"none", "acquire", "heartbeat", "preempt", "release"}, now : Nat,
          generation : Nat \ {0}, expected : Expectations \cup {NoExpectation} \cup Nat]

TypeOK ==
  /\ lease \in LeaseRows \cup {NoLease}
  /\ clock \in Nat /\ tenure \in Nat
  /\ alive \in [Procs -> BOOLEAN] /\ working \in [Procs -> BOOLEAN]
  /\ call \in [Procs -> Calls]
  /\ seen \in [Procs -> Nat] /\ seenTenure \in [Procs -> Nat]

Init ==
  /\ lease = NoLease /\ clock = 1 /\ tenure = 0
  /\ alive = [p \in Procs |-> TRUE] /\ working = [p \in Procs |-> FALSE]
  /\ call = [p \in Procs |-> NoCall]
  /\ seen = [p \in Procs |-> 0] /\ seenTenure = [p \in Procs |-> 0]

-----------------------------------------------------------------------------
(* What p can find out about the owner of an expired lease. *)

\* _local_process_active: only for a local identity of p's own host.
LocallyVisible(p, q) == q \in LocalIdentity /\ HostOf[q] = HostOf[p]
\* A slip, for the mutation runs: the process table is not looked at.
LocalProcessUnchecked(p, q) == FALSE

LocalProcessActive(p, q) == LocallyVisible(p, q) /\ alive[q]

\* active_run_probe is the caller's.  It may be missing, fail or report a run
\* that is none; it is trusted to see every run at work that p's host cannot.
ProbeAnswers(p) ==
  {"missing", "failed", "active"} \cup
  (IF \A q \in Procs : working[q] => LocallyVisible(p, q) THEN {"idle"} ELSE {})

Expired(row, now) == row.expires <= now
Owns(p) == lease # NoLease /\ lease.holder = p

\* Slips: generations are counted from zero; a recovery does not raise the
\* generation it was given by default.
GrantedFromZero(c) == c.generation - 1

GrantedAsAsked(c) == c.generation

\* The generation a new lease gets: an explicit one is kept, the default one
\* continues the existing lease.
GrantedGeneration(c) ==
  IF lease # NoLease /\ c.generation = 1 /\ c.expected = NoExpectation
  THEN lease.generation + 1 ELSE c.generation

\* A slip: an explicit generation need not grow.
AcquireAdmittedSameGeneration(p, c, probe) ==
  /\ c.op = "acquire"
  /\ IF lease = NoLease
     THEN c.expected \in {NoExpectation, 0}
     ELSE /\ c.expected \in {NoExpectation, lease.generation}
          /\ Expired(lease, c.now)
          /\ ~LocalProcessActive(p, lease.holder)
          /\ probe = "idle"

AcquireAdmitted(p, c, probe) ==
  /\ c.op = "acquire"
  /\ IF lease = NoLease
     THEN c.expected \in {NoExpectation, 0}
     ELSE /\ c.expected \in {NoExpectation, lease.generation}
          /\ Expired(lease, c.now)
          /\ ~LocalProcessActive(p, lease.holder)
          /\ probe = "idle"
          /\ GrantedGeneration(c) > lease.generation

HeartbeatAdmitted(p, c) ==
  /\ c.op = "heartbeat" /\ Owns(p)
  /\ ~Expired(lease, c.now) /\ c.now >= lease.heartbeat

\* A slip: an equal priority is enough.
PreemptAdmittedEqual(p, c) ==
  /\ c.op = "preempt" /\ lease # NoLease
  /\ lease.generation = c.expected
  /\ ~Expired(lease, c.now)
  /\ Priority[p] >= lease.priority
  /\ lease.preemptBy \in {NoProc, p}
  /\ lease.preemptBy = NoProc => c.now >= lease.created

PreemptAdmitted(p, c) ==
  /\ c.op = "preempt" /\ lease # NoLease
  /\ lease.generation = c.expected
  /\ ~Expired(lease, c.now)
  /\ Priority[p] > lease.priority
  /\ lease.preemptBy \in {NoProc, p}
  /\ lease.preemptBy = NoProc => c.now >= lease.created   \* _validate_lease

\* A slip: whoever asks may release.
ReleaseAdmittedToAnyone(p, c) == c.op = "release"

ReleaseAdmitted(p, c) == c.op = "release" /\ (lease = NoLease \/ Owns(p))

-----------------------------------------------------------------------------
(* The critical sections. *)

Return(p) ==
  /\ call' = [call EXCEPT ![p] = NoCall]
  /\ UNCHANGED <<clock, alive, seen, seenTenure>>

NewLease(p, c) ==
  [holder |-> p, generation |-> GrantedGeneration(c), priority |-> Priority[p],
   created |-> c.now, heartbeat |-> c.now, expires |-> c.now + Duration,
   preemptBy |-> NoProc, preemptPriority |-> -1, preemptAt |-> 0]

\* A slip: the heartbeat writes the row as acquire does, without a request.
RenewedAfresh(row, now) ==
  [row EXCEPT !.heartbeat = now, !.expires = now + Duration,
              !.preemptBy = NoProc, !.preemptPriority = -1, !.preemptAt = 0]

Renewed(row, now) == [row EXCEPT !.heartbeat = now, !.expires = now + Duration]

Marked(row, p, now) ==
  [row EXCEPT !.preemptBy = p, !.preemptPriority = Priority[p], !.preemptAt = now]

\* The write is in place before the directory is synced, so acquire may raise
\* although the lease stands: p then does not know that it owns it.
Acquire(p) ==
  LET c == call[p] IN
  /\ \E probe \in ProbeAnswers(p) : AcquireAdmitted(p, c, probe)
  /\ lease' = NewLease(p, c)
  /\ tenure' = tenure + 1
  /\ working' \in {working, [working EXCEPT ![p] = TRUE]}
  /\ Return(p)

Heartbeat(p) ==
  LET c == call[p] IN
  /\ HeartbeatAdmitted(p, c)
  /\ lease' = Renewed(lease, c.now)
  /\ Return(p)
  /\ UNCHANGED <<working, tenure>>

RequestPreemption(p) ==
  LET c == call[p] IN
  /\ PreemptAdmitted(p, c)
  /\ lease' = IF lease.preemptBy = p THEN lease ELSE Marked(lease, p, c.now)
  /\ Return(p)
  /\ UNCHANGED <<working, tenure>>

Release(p) ==
  /\ ReleaseAdmitted(p, call[p])
  /\ lease' = NoLease
  /\ Return(p)
  /\ UNCHANGED <<working, tenure>>

\* The method raises.  An acquire may always be refused by a probe that is
\* missing, fails or answers that a run is active.
Refuse(p) ==
  LET c == call[p] IN
  /\ c.op # "none"
  /\ \/ c.op = "acquire" /\ \E probe \in ProbeAnswers(p) : ~AcquireAdmitted(p, c, probe)
     \/ c.op = "heartbeat" /\ ~HeartbeatAdmitted(p, c)
     \/ c.op = "preempt" /\ ~PreemptAdmitted(p, c)
     \/ c.op = "release" /\ ~ReleaseAdmitted(p, c)
  /\ Return(p)
  /\ UNCHANGED <<lease, working, tenure>>

-----------------------------------------------------------------------------
(* The callers. *)

Invoke(p, op, generation, expected) ==
  /\ alive[p] /\ call[p] = NoCall
  /\ call' = [call EXCEPT ![p] = [op |-> op, now |-> clock, generation |-> generation,
                                  expected |-> expected]]
  /\ UNCHANGED <<lease, clock, alive, seen, tenure, seenTenure>>

InvokeAcquire(p) ==
  /\ ~working[p] /\ tenure < MaxTenures
  /\ \E g \in Generations, e \in Expectations : Invoke(p, "acquire", g, e)
  /\ UNCHANGED working

InvokeHeartbeat(p) ==
  /\ working[p] /\ clock <= MaxTime
  /\ Invoke(p, "heartbeat", 1, NoExpectation) /\ UNCHANGED working

\* A process stops working before it gives the lease back.
InvokeRelease(p) ==
  /\ working[p] /\ Invoke(p, "release", 1, NoExpectation)
  /\ working' = [working EXCEPT ![p] = FALSE]

\* The expected generation is the one of the lease p last read.
InvokePreempt(p) ==
  seen[p] # 0 /\ Invoke(p, "preempt", 1, seen[p]) /\ UNCHANGED working

Read(p) ==
  /\ alive[p] /\ call[p] = NoCall /\ lease # NoLease
  /\ seen' = [seen EXCEPT ![p] = lease.generation]
  /\ seenTenure' = [seenTenure EXCEPT ![p] = tenure]
  /\ UNCHANGED <<lease, clock, alive, working, call, tenure>>

Crash(p) ==
  /\ alive[p]
  /\ alive' = [alive EXCEPT ![p] = FALSE]
  /\ working' = [working EXCEPT ![p] = FALSE]
  /\ call' = [call EXCEPT ![p] = NoCall]
  /\ UNCHANGED <<lease, clock, seen, tenure, seenTenure>>

\* The clock may pass MaxTime only far enough for the lease to run out.
Tick ==
  /\ clock < MaxTime \/ (lease # NoLease /\ ~Expired(lease, clock))
  /\ clock' = clock + 1
  /\ UNCHANGED <<lease, alive, working, call, seen, tenure, seenTenure>>

Next ==
  \/ \E p \in Procs :
       \/ InvokeAcquire(p) \/ InvokeHeartbeat(p) \/ InvokePreempt(p) \/ InvokeRelease(p)
       \/ Acquire(p) \/ Heartbeat(p) \/ RequestPreemption(p) \/ Release(p) \/ Refuse(p)
       \/ Read(p) \/ Crash(p)
  \/ Tick

Spec == Init /\ [][Next]_vars

\* What a recovery run asks for when it does not choose a generation.
InvokeDefaultAcquire(p) ==
  /\ ~working[p] /\ tenure < MaxTenures
  /\ Invoke(p, "acquire", 1, NoExpectation)
  /\ UNCHANGED working

\* Time passes, every call of a live process returns, a live process that
\* wants the lease asks again, and the probe does not report a phantom run
\* for ever.
FairSpec ==
  /\ Spec /\ WF_vars(Tick)
  /\ \A p \in Procs :
       /\ WF_vars(Heartbeat(p) \/ RequestPreemption(p) \/ Release(p) \/ Refuse(p))
       /\ SF_vars(Acquire(p)) /\ SF_vars(InvokeDefaultAcquire(p))

-----------------------------------------------------------------------------
(* Properties. *)

\* At most one process works under the lease, although a lease can run out
\* under a process that is merely slow: between them the process table of the
\* host and the probe see every worker an acquirer must not replace.
MutualExclusion ==
  \A p, q \in Procs : working[p] /\ working[q] => p = q

\* No interleaving writes a lease that _validate_lease refuses, which would
\* make every later call of every process fail.
LeaseValid ==
  lease # NoLease =>
    /\ lease.heartbeat >= lease.created /\ lease.expires > lease.heartbeat
    /\ lease.preemptBy # NoProc =>
         lease.preemptPriority > lease.priority /\ lease.preemptAt >= lease.created
    /\ lease.preemptBy = NoProc => lease.preemptPriority = -1

\* A process at work owns the lease; a process inside a method is alive, does
\* not know a time to come, works if it renews and has stopped if it releases.
WorkersOwn ==
  \A p \in Procs :
    /\ working[p] => alive[p] /\ Owns(p)
    /\ call[p].op # "none" => alive[p] /\ call[p].now <= clock
    /\ call[p].op = "heartbeat" => working[p]
    /\ call[p].op = "release" => ~working[p]

\* The inductive invariant.
IInv == TypeOK /\ LeaseValid /\ WorkersOwn

\* The same lease, perhaps renewed or marked.
SameLease(a, b) ==
  /\ a # NoLease /\ b # NoLease
  /\ a.holder = b.holder /\ a.generation = b.generation /\ a.created = b.created

\* docs/RECOVERY_AND_RESUME_AR.md, "Lease": a lease that has not expired is
\* never replaced, and an expired one only when its owner is not at work.  Its
\* generation then grows, so that its fencing token is a new one.
ReplacedOnlyWhenAbandoned ==
  [][(lease # NoLease /\ lease' # NoLease /\ ~SameLease(lease, lease')) =>
       /\ lease.expires <= clock
       /\ ~working[lease.holder]
       /\ lease'.generation > lease.generation]_vars

\* A preemption request stays on the lease it was made for until the lease is
\* released or replaced: a heartbeat that was under way does not lose it, and
\* a second requester does not overwrite it.
PreemptionIsKept ==
  [][(lease # NoLease /\ SameLease(lease, lease') /\ lease.preemptBy # NoProc) =>
       /\ lease'.preemptBy = lease.preemptBy
       /\ lease'.preemptPriority = lease.preemptPriority]_vars

\* A lease disappears only by the hand of its owner, which has stopped working.
ReleasedByItsOwner ==
  [][(lease # NoLease /\ lease' = NoLease) =>
       call[lease.holder].op = "release" /\ ~working[lease.holder]]_vars

\* The lease of a dead process is recovered, if anyone is left to do it.
DeadLeaseIsRecovered ==
  (lease # NoLease /\ ~alive[lease.holder]) ~>
    \/ lease = NoLease \/ alive[lease.holder]
    \/ tenure >= MaxTenures \/ \A p \in Procs : ~alive[p]

\* Whose lease it is, and whether it has not run out.
Holder == IF lease = NoLease THEN NoProc ELSE lease.holder
Fresh == lease # NoLease /\ ~Expired(lease, clock)

Service == INSTANCE LeaseService WITH holder <- Holder, fresh <- Fresh

\* The lease keeps what LeaseService promises: delayed calls, generations,
\* preemption requests and failing probes come down to a lease that is taken
\* when nobody works under it, and removed by its idle holder.
KeepsService == Service!Spec

\* request_recovery_lease_preemption is said to CAS-mark a lease: the lease it
\* marks is then the one whose generation the requester had read.
PreemptionHitsTheLeaseRead ==
  [][\A p \in Procs :
       (SameLease(lease, lease') /\ lease.preemptBy = NoProc /\ lease'.preemptBy = p)
         => seenTenure[p] = tenure]_vars

=============================================================================
