------------------------ MODULE RecoveryLease_proof -------------------------
(***************************************************************************)
(* Proofs about RecoveryLease for any processes, hosts, priorities,        *)
(* generations, lease duration and bounds.                                 *)
(***************************************************************************)
EXTENDS RecoveryLease, TLAPS

\* Facts about the lease file that every step uses.
LEMMA LeaseTyped ==
  ASSUME TypeOK, lease # NoLease
  PROVE  lease \in LeaseRows
  BY DEF TypeOK

LEMMA NewLeaseType ==
  ASSUME TypeOK, NEW p \in Procs, NEW c \in Calls
  PROVE  /\ NewLease(p, c) \in LeaseRows
         /\ NewLease(p, c) # NoLease
         /\ NewLease(p, c).holder = p
         /\ NewLease(p, c).generation = GrantedGeneration(c)
         /\ NewLease(p, c).created = c.now /\ NewLease(p, c).heartbeat = c.now
         /\ NewLease(p, c).expires = c.now + Duration
         /\ NewLease(p, c).preemptBy = NoProc
         /\ NewLease(p, c).preemptPriority = -1
  <1>1. Priority[p] \in 0 .. 100 /\ c.now \in Nat /\ c.now + Duration \in Nat
    BY ProcAssumption, TimeAssumption DEF Calls
  <1>2. GrantedGeneration(c) \in Nat \ {0}
    BY LeaseTyped DEF GrantedGeneration, Calls, LeaseRows
  <1>3. NewLease(p, c) \in LeaseRows
    BY <1>1, <1>2 DEF NewLease, LeaseRows
  <1> QED
    BY <1>3, LeaseAssumption DEF NewLease

LEMMA RenewedType ==
  ASSUME NEW row \in LeaseRows, NEW t \in Nat
  PROVE  LET new == Renewed(row, t) IN
         /\ new \in LeaseRows /\ new # NoLease
         /\ new.heartbeat = t /\ new.expires = t + Duration
         /\ new.holder = row.holder /\ new.generation = row.generation
         /\ new.created = row.created /\ new.priority = row.priority
         /\ new.preemptBy = row.preemptBy
         /\ new.preemptPriority = row.preemptPriority /\ new.preemptAt = row.preemptAt
  <1>1. t + Duration \in Nat
    BY TimeAssumption
  <1>2. Renewed(row, t) = [row EXCEPT !.heartbeat = t, !.expires = t + Duration]
    BY DEF Renewed
  <1>3. Renewed(row, t) \in LeaseRows
    <2> DEFINE a == [row EXCEPT !.heartbeat = t]
               b == [a EXCEPT !.expires = t + Duration]
    <2>1. a \in LeaseRows
      BY DEF LeaseRows
    <2>2. b \in LeaseRows
      <3> HIDE DEF a
      <3> QED
        BY <1>1, <2>1 DEF LeaseRows
    <2> QED
      BY <1>2, <2>2, Zenon
  <1>4. /\ Renewed(row, t).heartbeat = t /\ Renewed(row, t).expires = t + Duration
        /\ Renewed(row, t).holder = row.holder
        /\ Renewed(row, t).generation = row.generation
        /\ Renewed(row, t).created = row.created
        /\ Renewed(row, t).priority = row.priority
    BY <1>1, <1>2 DEF LeaseRows
  <1>5. /\ Renewed(row, t).preemptBy = row.preemptBy
        /\ Renewed(row, t).preemptPriority = row.preemptPriority
        /\ Renewed(row, t).preemptAt = row.preemptAt
    BY <1>1, <1>2 DEF LeaseRows
  <1> QED
    BY <1>3, <1>4, <1>5, LeaseAssumption

LEMMA MarkedType ==
  ASSUME NEW row \in LeaseRows, NEW p \in Procs, NEW t \in Nat
  PROVE  LET new == Marked(row, p, t) IN
         /\ new \in LeaseRows /\ new # NoLease
         /\ new.heartbeat = row.heartbeat /\ new.expires = row.expires
         /\ new.holder = row.holder /\ new.generation = row.generation
         /\ new.created = row.created /\ new.priority = row.priority
         /\ new.preemptBy = p
         /\ new.preemptPriority = Priority[p] /\ new.preemptAt = t
  <1>1. Priority[p] \in 0 .. 100 /\ Priority[p] \in -1 .. 100
    BY ProcAssumption
  <1>2. Marked(row, p, t) = [row EXCEPT !.preemptBy = p, !.preemptPriority = Priority[p],
                                        !.preemptAt = t]
    BY DEF Marked
  <1>3. Marked(row, p, t) \in LeaseRows
    <2> DEFINE a == [row EXCEPT !.preemptBy = p]
               b == [a EXCEPT !.preemptPriority = Priority[p]]
               c == [b EXCEPT !.preemptAt = t]
    <2>1. a \in LeaseRows
      BY DEF LeaseRows
    <2>2. b \in LeaseRows
      <3> HIDE DEF a
      <3> QED
        BY <1>1, <2>1 DEF LeaseRows
    <2>3. c \in LeaseRows
      <3> HIDE DEF b
      <3> QED
        BY <2>2 DEF LeaseRows
    <2> QED
      BY <1>2, <2>3, Zenon
  <1> QED
    BY <1>2, <1>3, LeaseAssumption DEF LeaseRows

\* The initial state satisfies the inductive invariant.
LEMMA InitInvariant == Init => IInv
  BY DEF Init, IInv, TypeOK, LeaseValid, WorkersOwn, Calls, NoCall

\* An owner that is at work is never found abandoned: p sees it in its
\* process table or the probe does not answer "idle".
LEMMA WorkerIsSeen ==
  ASSUME IInv, NEW p \in Procs, NEW c,
         NEW probe \in ProbeAnswers(p), AcquireAdmitted(p, c, probe), lease # NoLease
  PROVE  ~working[lease.holder]
  <1>1. lease.holder \in Procs
    BY LeaseTyped DEF IInv, LeaseRows
  <1>2. probe = "idle" /\ ~LocalProcessActive(p, lease.holder)
    BY DEF AcquireAdmitted
  <1>3. \A q \in Procs : working[q] => LocallyVisible(p, q)
    BY <1>2 DEF ProbeAnswers
  <1> QED
    BY <1>1, <1>2, <1>3 DEF LocalProcessActive, IInv, WorkersOwn

\* Nobody works when a lease is acquired.
LEMMA AcquireFindsNoWorker ==
  ASSUME IInv, NEW p \in Procs, Acquire(p)
  PROVE  \A q \in Procs : ~working[q]
  <1>1. PICK probe \in ProbeAnswers(p) : AcquireAdmitted(p, call[p], probe)
    BY DEF Acquire
  <1>2. CASE lease = NoLease
    BY <1>2 DEF IInv, WorkersOwn, Owns
  <1>3. CASE lease # NoLease
    BY <1>1, <1>3, WorkerIsSeen DEF IInv, WorkersOwn, Owns
  <1> QED
    BY <1>2, <1>3

\* Every action preserves the inductive invariant.
LEMMA StepInvariant == IInv /\ [Next]_vars => IInv'
  <1> SUFFICES ASSUME IInv, [Next]_vars PROVE IInv'
    OBVIOUS
  <1> USE DEF IInv
  <1>c. \A p \in Procs : call[p] \in Calls /\ call[p].now \in Nat
    BY DEF TypeOK, Calls
  <1>n. NoCall \in Calls /\ NoCall.op = "none"
    BY DEF NoCall, Calls
  <1>r. ASSUME NEW p \in Procs, Return(p),
               lease' \in LeaseRows \cup {NoLease}, tenure' \in Nat,
               working' \in [Procs -> BOOLEAN],
               \A q \in Procs : working'[q] => alive[q] /\ Owns(q)',
               \A q \in Procs \ {p} : working'[q] = working[q]
        PROVE  TypeOK' /\ WorkersOwn'
    <2>1. TypeOK'
      BY <1>r, <1>n DEF TypeOK, Return
    <2>2. \A q \in Procs : call'[q] = IF q = p THEN NoCall ELSE call[q]
      BY <1>r DEF Return, TypeOK
    <2>3. WorkersOwn'
      <3>1. ASSUME NEW q \in Procs, q # p
            PROVE  call'[q] = call[q] /\ alive'[q] = alive[q] /\ clock' = clock
                   /\ working'[q] = working[q]
        BY <1>r, <2>2, <3>1 DEF Return
      <3>2. call'[p].op = "none"
        BY <1>n, <2>2
      <3>3. alive' = alive
        BY <1>r DEF Return
      <3> QED
        BY <1>r, <3>1, <3>2, <3>3 DEF WorkersOwn
    <2> QED
      BY <2>1, <2>3
  <1>i. ASSUME NEW p \in Procs, NEW op \in {"acquire", "heartbeat", "preempt", "release"},
               NEW g \in Nat \ {0}, NEW e \in Expectations \cup {NoExpectation} \cup Nat,
               Invoke(p, op, g, e), op = "release" => ~working'[p],
               op = "heartbeat" => working'[p],
               working' \in [Procs -> BOOLEAN],
               working'[p] => working[p],
               \A q \in Procs \ {p} : working'[q] = working[q]
        PROVE  IInv'
    <2>1. call' \in [Procs -> Calls]
      BY <1>i DEF Invoke, TypeOK, Calls
    <2>2. TypeOK' /\ LeaseValid'
      BY <1>i, <2>1 DEF Invoke, TypeOK, LeaseValid
    <2>3. call'[p].op = op /\ call'[p].now = clock
      BY <1>i DEF Invoke, TypeOK
    <2>4. \A q \in Procs \ {p} : call'[q] = call[q]
      BY <1>i DEF Invoke, TypeOK
    <2>5. WorkersOwn'
      <3>1. lease' = lease /\ alive' = alive /\ clock' = clock /\ alive[p] /\ clock \in Nat
        BY <1>i DEF Invoke, TypeOK
      <3>2. \A q \in Procs : working'[q] => alive'[q] /\ Owns(q)'
        BY <1>i, <3>1 DEF WorkersOwn, Owns
      <3>3. /\ alive'[p] /\ call'[p].now <= clock'
            /\ call'[p].op = "heartbeat" => working'[p]
            /\ call'[p].op = "release" => ~working'[p]
        BY <1>i, <2>3, <3>1
      <3>4. \A q \in Procs \ {p} :
              /\ call'[q].op # "none" => alive'[q] /\ call'[q].now <= clock'
              /\ call'[q].op = "heartbeat" => working'[q]
              /\ call'[q].op = "release" => ~working'[q]
        BY <1>i, <2>4, <3>1 DEF WorkersOwn
      <3> QED
        BY <3>2, <3>3, <3>4 DEF WorkersOwn
    <2> QED
      BY <2>2, <2>5
  <1>1. ASSUME NEW p \in Procs, Acquire(p) PROVE IInv'
    <2>1. lease' = NewLease(p, call[p]) /\ Return(p) /\ tenure' = tenure + 1
          /\ working' \in {working, [working EXCEPT ![p] = TRUE]}
      BY <1>1 DEF Acquire
    <2>2. lease' \in LeaseRows /\ lease' # NoLease /\ lease'.holder = p
      BY <2>1, <1>c, NewLeaseType
    <2>3. LeaseValid'
      BY <2>1, <1>c, NewLeaseType, TimeAssumption DEF LeaseValid
    <2>4. \A q \in Procs : ~working[q]
      BY <1>1, AcquireFindsNoWorker
    <2>5. alive[p]
      BY <1>1 DEF Acquire, AcquireAdmitted, WorkersOwn
    <2>6. /\ working' \in [Procs -> BOOLEAN]
          /\ \A q \in Procs \ {p} : working'[q] = working[q]
          /\ \A q \in Procs : working'[q] => q = p
      BY <2>1, <2>4 DEF TypeOK
    <2>7. TypeOK' /\ WorkersOwn'
      BY <2>1, <2>2, <2>5, <2>6, <1>r DEF Owns, TypeOK
    <2> QED
      BY <2>3, <2>7
  <1>2. ASSUME NEW p \in Procs, Heartbeat(p) PROVE IInv'
    <2>1. /\ lease # NoLease /\ call[p].now >= lease.heartbeat
          /\ lease' = Renewed(lease, call[p].now)
          /\ Return(p) /\ UNCHANGED <<working, tenure>>
      BY <1>2 DEF Heartbeat, HeartbeatAdmitted, Owns
    <2>2. lease \in LeaseRows /\ lease.heartbeat \in Nat /\ lease.created \in Nat
      BY <2>1, LeaseTyped DEF LeaseRows
    <2>5. /\ lease' \in LeaseRows /\ lease' # NoLease /\ lease'.holder = lease.holder
          /\ lease'.heartbeat = call[p].now /\ lease'.expires = call[p].now + Duration
          /\ lease'.created = lease.created /\ lease'.priority = lease.priority
          /\ lease'.preemptBy = lease.preemptBy /\ lease'.preemptAt = lease.preemptAt
          /\ lease'.preemptPriority = lease.preemptPriority
      BY <2>1, <2>2, <1>c, RenewedType
    <2>6. call[p].now >= lease.created /\ call[p].now + Duration > call[p].now
      BY <2>1, <2>2, <1>c, TimeAssumption DEF LeaseValid
    <2>7. LeaseValid'
      BY <2>1, <2>5, <2>6 DEF LeaseValid
    <2>3. lease' \in LeaseRows /\ lease' # NoLease /\ lease'.holder = lease.holder
      BY <2>5
    <2>4. TypeOK' /\ WorkersOwn'
      BY <2>1, <2>3, <1>r DEF Owns, TypeOK, WorkersOwn
    <2> QED
      BY <2>7, <2>4
  <1>3. ASSUME NEW p \in Procs, RequestPreemption(p) PROVE IInv'
    <2>1. /\ lease # NoLease /\ Priority[p] > lease.priority
          /\ lease.preemptBy = NoProc => call[p].now >= lease.created
          /\ lease.preemptBy \in {NoProc, p}
          /\ Return(p) /\ UNCHANGED <<working, tenure>>
      BY <1>3 DEF RequestPreemption, PreemptAdmitted
    <2>2. lease \in LeaseRows
      BY <2>1, LeaseTyped
    <2>3. CASE lease.preemptBy = p
      <3>1. lease' = lease
        BY <1>3, <2>3 DEF RequestPreemption
      <3>2. TypeOK' /\ WorkersOwn'
        BY <2>1, <2>2, <3>1, <1>r DEF Owns, TypeOK, WorkersOwn
      <3> QED
        BY <3>1, <3>2 DEF LeaseValid
    <2>4. CASE lease.preemptBy # p
      <3>1. lease' = Marked(lease, p, call[p].now)
        BY <1>3, <2>4 DEF RequestPreemption
      <3>4. /\ lease' \in LeaseRows /\ lease' # NoLease /\ lease'.holder = lease.holder
            /\ lease'.heartbeat = lease.heartbeat /\ lease'.expires = lease.expires
            /\ lease'.created = lease.created /\ lease'.priority = lease.priority
            /\ lease'.preemptBy = p /\ lease'.preemptAt = call[p].now
            /\ lease'.preemptPriority = Priority[p]
        BY <2>2, <3>1, <1>c, MarkedType
      <3>5. lease.preemptBy = NoProc /\ p # NoProc
        BY <2>1, <2>4, ProcAssumption
      <3>2. /\ lease' \in LeaseRows /\ lease' # NoLease /\ lease'.holder = lease.holder
            /\ LeaseValid'
        BY <2>1, <3>4, <3>5 DEF LeaseValid
      <3>3. TypeOK' /\ WorkersOwn'
        BY <2>1, <3>2, <1>r DEF Owns, TypeOK, WorkersOwn
      <3> QED
        BY <3>2, <3>3
    <2> QED
      BY <2>3, <2>4
  <1>4. ASSUME NEW p \in Procs, Release(p) PROVE IInv'
    <2>1. lease' = NoLease /\ Return(p) /\ UNCHANGED <<working, tenure>>
          /\ call[p].op = "release" /\ (lease = NoLease \/ Owns(p))
      BY <1>4 DEF Release, ReleaseAdmitted
    <2>2. \A q \in Procs : ~working[q]
      BY <2>1 DEF WorkersOwn, Owns
    <2>3. TypeOK' /\ WorkersOwn'
      BY <2>1, <2>2, <1>r DEF TypeOK
    <2> QED
      BY <2>1, <2>3 DEF LeaseValid
  <1>5. ASSUME NEW p \in Procs, Refuse(p) PROVE IInv'
    <2>1. TypeOK' /\ WorkersOwn'
      BY <1>5, <1>r DEF Refuse, Owns, TypeOK, WorkersOwn
    <2> QED
      BY <1>5, <2>1 DEF Refuse, LeaseValid
  <1>6. ASSUME NEW p \in Procs, InvokeAcquire(p) PROVE IInv'
    BY <1>6, <1>i, GenerationAssumption DEF InvokeAcquire, TypeOK
  <1>7. ASSUME NEW p \in Procs, InvokeHeartbeat(p) \/ InvokePreempt(p) PROVE IInv'
    BY <1>7, <1>i DEF InvokeHeartbeat, InvokePreempt, TypeOK
  <1>8. ASSUME NEW p \in Procs, InvokeRelease(p) PROVE IInv'
    <2>1. /\ Invoke(p, "release", 1, NoExpectation)
          /\ working' = [working EXCEPT ![p] = FALSE]
      BY <1>8 DEF InvokeRelease
    <2>2. /\ working' \in [Procs -> BOOLEAN] /\ ~working'[p]
          /\ \A q \in Procs \ {p} : working'[q] = working[q]
      BY <2>1 DEF TypeOK
    <2>3. /\ "release" \in {"acquire", "heartbeat", "preempt", "release"}
          /\ 1 \in Nat \ {0} /\ NoExpectation \in Expectations \cup {NoExpectation} \cup Nat
          /\ "release" # "heartbeat"
      OBVIOUS
    <2>4. working'[p] => working[p]
      BY <2>2
    <2> HIDE DEF IInv
    <2> QED
      BY <2>1, <2>2, <2>3, <2>4, <1>i
  <1>9. ASSUME NEW p \in Procs, Read(p) PROVE IInv'
    <2>1. lease \in LeaseRows /\ lease.generation \in Nat
      BY <1>9, LeaseTyped DEF Read, LeaseRows
    <2> QED
      BY <1>9, <2>1 DEF Read, TypeOK, LeaseValid, WorkersOwn, Owns
  <1>10. ASSUME NEW p \in Procs, Crash(p) PROVE IInv'
    <2>1. TypeOK' /\ LeaseValid'
      BY <1>10, <1>n DEF Crash, TypeOK, LeaseValid
    <2>2. \A q \in Procs :
            /\ call'[q] = IF q = p THEN NoCall ELSE call[q]
            /\ alive'[q] = IF q = p THEN FALSE ELSE alive[q]
            /\ working'[q] = IF q = p THEN FALSE ELSE working[q]
      BY <1>10 DEF Crash, TypeOK
    <2>3. UNCHANGED <<lease, clock>>
      BY <1>10 DEF Crash
    <2>4. ASSUME NEW q \in Procs
          PROVE  /\ working'[q] => alive'[q] /\ Owns(q)'
                 /\ call'[q].op # "none" => alive'[q] /\ call'[q].now <= clock'
                 /\ call'[q].op = "heartbeat" => working'[q]
                 /\ call'[q].op = "release" => ~working'[q]
      <3>1. CASE q = p
        BY <3>1, <2>2, <1>n
      <3>2. CASE q # p
        <4>1. /\ call'[q] = call[q] /\ alive'[q] = alive[q] /\ working'[q] = working[q]
              /\ lease' = lease /\ clock' = clock
          BY <3>2, <2>2, <2>3
        <4>2. Owns(q)' = Owns(q)
          BY <4>1 DEF Owns
        <4> HIDE DEF IInv
        <4>3. WorkersOwn
          BY DEF IInv
        <4> QED
          BY <4>1, <4>2, <4>3 DEF WorkersOwn
      <3> QED
        BY <3>1, <3>2
    <2>5. WorkersOwn'
      BY <2>4 DEF WorkersOwn
    <2> QED
      BY <2>1, <2>5
  <1>11. CASE Tick
    BY <1>11, <1>c DEF Tick, TypeOK, LeaseValid, WorkersOwn, Owns
  <1>12. CASE UNCHANGED vars
    BY <1>12 DEF vars, TypeOK, LeaseValid, WorkersOwn, Owns
  <1> QED
    BY <1>1, <1>2, <1>3, <1>4, <1>5, <1>6, <1>7, <1>8, <1>9, <1>10, <1>11, <1>12 DEF Next

\* The inductive invariant holds throughout.
THEOREM Invariance == Spec => []IInv
  BY InitInvariant, StepInvariant, PTL DEF Spec

\* Types are respected.
THEOREM TypeCorrectness == Spec => []TypeOK
  BY Invariance, PTL DEF IInv

\* No interleaving writes a lease the next reader would reject.
THEOREM Validity == Spec => []LeaseValid
  BY Invariance, PTL DEF IInv

\* Whatever the hosts, identities, durations and delays: at most one process
\* works under the lease, provided the probe sees what the host cannot.
THEOREM Exclusion == Spec => []MutualExclusion
  <1>1. IInv => MutualExclusion
    BY DEF IInv, WorkersOwn, MutualExclusion, Owns
  <1> QED
    BY <1>1, Invariance, PTL

\* A lease is replaced only when it has expired and its owner is not at work,
\* and by one of a later generation.
THEOREM Replacement == Spec => ReplacedOnlyWhenAbandoned
  <1> DEFINE A == (lease # NoLease /\ lease' # NoLease /\ ~SameLease(lease, lease')) =>
                    /\ lease.expires <= clock
                    /\ ~working[lease.holder]
                    /\ lease'.generation > lease.generation
  <1>1. IInv /\ [Next]_vars => [A]_vars
    <2> SUFFICES ASSUME IInv, [Next]_vars, lease # NoLease, lease' # NoLease,
                        ~SameLease(lease, lease')
                 PROVE  /\ lease.expires <= clock
                        /\ ~working[lease.holder]
                        /\ lease'.generation > lease.generation
      OBVIOUS
    <2>t. lease \in LeaseRows /\ \A p \in Procs : call[p] \in Calls /\ call[p].now \in Nat
      BY LeaseTyped DEF IInv, TypeOK, Calls
    <2>1. ASSUME NEW p \in Procs, Heartbeat(p) PROVE FALSE
      BY <2>1, <2>t, RenewedType DEF Heartbeat, SameLease
    <2>2. ASSUME NEW p \in Procs, RequestPreemption(p) PROVE FALSE
      <3>1. CASE lease' = lease
        BY <3>1 DEF SameLease
      <3>2. CASE lease' = Marked(lease, p, call[p].now)
        BY <3>2, <2>t, MarkedType DEF SameLease
      <3> QED
        BY <2>2, <3>1, <3>2 DEF RequestPreemption
    <2>3. lease' # lease
      BY DEF SameLease
    <2>4. PICK p \in Procs : Acquire(p)
      BY <2>1, <2>2, <2>3 DEF Next, vars, InvokeAcquire, InvokeHeartbeat, InvokePreempt,
         InvokeRelease, Invoke, Release, Refuse, Read, Crash, Tick
    <2>5. PICK probe \in ProbeAnswers(p) : AcquireAdmitted(p, call[p], probe)
      BY <2>4 DEF Acquire
    <2>6. lease.expires <= clock
      <3>1. lease.expires <= call[p].now /\ call[p].now <= clock
        BY <2>5 DEF AcquireAdmitted, Expired, IInv, WorkersOwn
      <3> QED
        BY <3>1, <2>t DEF LeaseRows, IInv, TypeOK
    <2>7. ~working[lease.holder]
      BY <2>5, WorkerIsSeen
    <2>8. lease'.generation > lease.generation
      BY <2>4, <2>5, <2>t, NewLeaseType DEF Acquire, AcquireAdmitted, IInv
    <2> QED
      BY <2>6, <2>7, <2>8
  <1> QED
    BY <1>1, Invariance, PTL DEF Spec, ReplacedOnlyWhenAbandoned

\* How one step changes the lease file.
LEMMA LeaseStep ==
  ASSUME IInv, [Next]_vars, lease # NoLease
  PROVE  \/ lease' = lease
         \/ \E p \in Procs : Acquire(p)
         \/ \E t \in Nat : lease' = Renewed(lease, t)
         \/ lease.preemptBy = NoProc /\ \E p \in Procs, t \in Nat : lease' = Marked(lease, p, t)
         \/ \E p \in Procs : Release(p) /\ lease.holder = p
  <1>c. \A p \in Procs : call[p].now \in Nat
    BY DEF IInv, TypeOK, Calls
  <1>1. ASSUME NEW p \in Procs, Heartbeat(p)
        PROVE  \E t \in Nat : lease' = Renewed(lease, t)
    BY <1>1, <1>c DEF Heartbeat
  <1>2. ASSUME NEW p \in Procs, RequestPreemption(p)
        PROVE  \/ lease' = lease
               \/ /\ lease.preemptBy = NoProc
                  /\ \E q \in Procs, t \in Nat : lease' = Marked(lease, q, t)
    BY <1>2, <1>c DEF RequestPreemption, PreemptAdmitted
  <1>3. ASSUME NEW p \in Procs, Release(p)
        PROVE  \E q \in Procs : Release(q) /\ lease.holder = q
    BY <1>3 DEF Release, ReleaseAdmitted, Owns
  <1> QED
    BY <1>1, <1>2, <1>3 DEF Next, vars, InvokeAcquire, InvokeHeartbeat, InvokePreempt,
       InvokeRelease, Invoke, Refuse, Read, Crash, Tick

\* A preemption request is neither lost nor overwritten while its lease stands.
THEOREM Preemption == Spec => PreemptionIsKept
  <1> DEFINE A == (lease # NoLease /\ SameLease(lease, lease')
                     /\ lease.preemptBy # NoProc) =>
                    /\ lease'.preemptBy = lease.preemptBy
                    /\ lease'.preemptPriority = lease.preemptPriority
  <1>1. IInv /\ [Next]_vars => [A]_vars
    <2> SUFFICES ASSUME IInv, [Next]_vars, lease # NoLease, SameLease(lease, lease'),
                        lease.preemptBy # NoProc
                 PROVE  /\ lease'.preemptBy = lease.preemptBy
                        /\ lease'.preemptPriority = lease.preemptPriority
      OBVIOUS
    <2>t. lease \in LeaseRows /\ \A p \in Procs : call[p] \in Calls
      BY LeaseTyped DEF IInv, TypeOK
    <2>1. ASSUME NEW p \in Procs, Acquire(p) PROVE FALSE
      <3>1. PICK probe \in ProbeAnswers(p) : AcquireAdmitted(p, call[p], probe)
        BY <2>1 DEF Acquire
      <3>2. lease'.generation = GrantedGeneration(call[p])
        BY <2>1, <2>t, NewLeaseType DEF Acquire, IInv
      <3>3. GrantedGeneration(call[p]) > lease.generation
        BY <3>1 DEF AcquireAdmitted
      <3> QED
        BY <3>2, <3>3, <2>t DEF SameLease, LeaseRows
    <2>2. ASSUME NEW t \in Nat, lease' = Renewed(lease, t)
          PROVE  /\ lease'.preemptBy = lease.preemptBy
                 /\ lease'.preemptPriority = lease.preemptPriority
      BY <2>2, <2>t, RenewedType
    <2>3. ASSUME NEW p \in Procs, Release(p) PROVE FALSE
      BY <2>3 DEF Release, SameLease
    <2> QED
      BY <2>1, <2>2, <2>3, LeaseStep
  <1> QED
    BY <1>1, Invariance, PTL DEF Spec, PreemptionIsKept

\* Only the owner, having stopped, removes the lease.
THEOREM Ownership == Spec => ReleasedByItsOwner
  <1> DEFINE A == (lease # NoLease /\ lease' = NoLease) =>
                    call[lease.holder].op = "release" /\ ~working[lease.holder]
  <1>1. IInv /\ [Next]_vars => [A]_vars
    <2> SUFFICES ASSUME IInv, [Next]_vars, lease # NoLease, lease' = NoLease
                 PROVE  call[lease.holder].op = "release" /\ ~working[lease.holder]
      OBVIOUS
    <2>t. lease \in LeaseRows /\ \A p \in Procs : call[p] \in Calls
      BY LeaseTyped DEF IInv, TypeOK
    <2>1. ASSUME NEW p \in Procs, Acquire(p) PROVE FALSE
      BY <2>1, <2>t, NewLeaseType DEF Acquire, IInv
    <2>2. ASSUME NEW p \in Procs, NEW t \in Nat,
                 lease' = Renewed(lease, t) \/ lease' = Marked(lease, p, t)
          PROVE  FALSE
      BY <2>2, <2>t, RenewedType, MarkedType
    <2>3. PICK p \in Procs : Release(p) /\ lease.holder = p
      BY <2>1, <2>2, LeaseStep, <2>t DEF LeaseRows
    <2> QED
      BY <2>3 DEF Release, ReleaseAdmitted, IInv, WorkersOwn
  <1> QED
    BY <1>1, Invariance, PTL DEF Spec, ReleasedByItsOwner


\* What each action does in the terms of LeaseService.
LEMMA ServiceAcquire ==
  ASSUME IInv, NEW p \in Procs, Acquire(p)
  PROVE  \E told \in BOOLEAN : Service!Acquire(p, told)
  <1>t. call[p] \in Calls
    BY DEF IInv, TypeOK
  <1>1. PICK probe \in ProbeAnswers(p) : AcquireAdmitted(p, call[p], probe)
    BY DEF Acquire
  <1>2. Service!Free
    <2>1. CASE lease = NoLease
      BY <2>1 DEF Service!Free, Holder
    <2>2. CASE lease # NoLease
      <3>1. lease \in LeaseRows /\ call[p].now \in Nat /\ call[p].now <= clock
        BY <2>2, <1>t, <1>1, LeaseTyped DEF IInv, AcquireAdmitted, WorkersOwn, Calls
      <3>2. Expired(lease, clock)
        BY <2>2, <3>1, <1>1 DEF AcquireAdmitted, Expired, LeaseRows, IInv, TypeOK
      <3>3. ~working[lease.holder]
        BY <1>1, <2>2, WorkerIsSeen
      <3> QED
        BY <2>2, <3>2, <3>3 DEF Service!Free, Holder, Fresh
    <2> QED
      BY <2>1, <2>2
  <1>3. lease' # NoLease /\ lease'.holder = p
    BY <1>t, NewLeaseType DEF Acquire, IInv
  <1>4. Holder' = p /\ Fresh' \in BOOLEAN
    BY <1>3 DEF Holder, Fresh, Expired
  <1>5. CASE working' = working
    BY <1>2, <1>4, <1>5 DEF Service!Acquire
  <1>6. CASE working' = [working EXCEPT ![p] = TRUE]
    BY <1>2, <1>4, <1>6 DEF Service!Acquire
  <1> QED
    BY <1>5, <1>6 DEF Acquire

LEMMA ServiceHeartbeat ==
  ASSUME IInv, NEW p \in Procs, Heartbeat(p), working[p]
  PROVE  Service!Heartbeat(p)
  <1>1. lease # NoLease /\ lease.holder = p /\ lease \in LeaseRows /\ call[p].now \in Nat
    BY LeaseTyped DEF Heartbeat, HeartbeatAdmitted, Owns, IInv, TypeOK, Calls
  <1>2. lease' # NoLease /\ lease'.holder = p
    BY <1>1, RenewedType DEF Heartbeat
  <1> QED
    BY <1>1, <1>2 DEF Service!Heartbeat, Heartbeat, Holder, Fresh, Expired

\* Nothing that LeaseService speaks of changes.
LEMMA ServiceQuiet ==
  ASSUME lease' = lease, clock' = clock, working' = working
  PROVE  UNCHANGED Service!lease
  BY DEF Service!lease, Holder, Fresh, Expired

LEMMA ServicePreempt ==
  ASSUME IInv, NEW p \in Procs, RequestPreemption(p)
  PROVE  UNCHANGED Service!lease
  <1>1. lease # NoLease /\ lease \in LeaseRows /\ call[p].now \in Nat
    BY LeaseTyped DEF RequestPreemption, PreemptAdmitted, IInv, TypeOK, Calls
  <1>2. clock' = clock /\ working' = working
    BY DEF RequestPreemption, Return
  <1>3. CASE lease' = lease
    BY <1>2, <1>3, ServiceQuiet
  <1>4. CASE lease' = Marked(lease, p, call[p].now)
    <2>1. lease' # NoLease /\ lease'.holder = lease.holder /\ lease'.expires = lease.expires
      BY <1>1, <1>4, MarkedType
    <2> QED
      BY <1>1, <1>2, <2>1 DEF Service!lease, Holder, Fresh, Expired
  <1> QED
    BY <1>3, <1>4 DEF RequestPreemption

LEMMA ServiceRelease ==
  ASSUME IInv, NEW p \in Procs, Release(p)
  PROVE  Service!Release(p) \/ UNCHANGED Service!lease
  <1>1. lease' = NoLease /\ clock' = clock /\ working' = working
    BY DEF Release, Return
  <1>2. CASE lease = NoLease
    BY <1>1, <1>2, ServiceQuiet
  <1>3. CASE lease # NoLease
    <2>1. lease.holder = p /\ ~working[p]
      BY <1>3 DEF Release, ReleaseAdmitted, Owns, IInv, WorkersOwn
    <2> QED
      BY <1>1, <1>3, <2>1 DEF Service!Release, Holder, Fresh
  <1> QED
    BY <1>2, <1>3

LEMMA ServiceTick ==
  ASSUME IInv, Tick
  PROVE  Service!Expire \/ UNCHANGED Service!lease
  <1>1. lease' = lease /\ working' = working /\ clock' = clock + 1 /\ clock \in Nat
    BY DEF Tick, IInv, TypeOK
  <1>2. Holder' = Holder
    BY <1>1 DEF Holder
  <1>3. CASE lease = NoLease \/ Expired(lease, clock)' = Expired(lease, clock)
    <2>1. Fresh' = Fresh
      BY <1>1, <1>3 DEF Fresh
    <2> QED
      BY <1>1, <1>2, <2>1 DEF Service!lease
  <1>4. CASE lease # NoLease /\ Expired(lease, clock)' # Expired(lease, clock)
    <2>1. lease.expires \in Nat
      BY <1>4, LeaseTyped DEF IInv, LeaseRows
    <2>2. ~Expired(lease, clock) /\ Expired(lease, clock)'
      BY <1>1, <1>4, <2>1 DEF Expired
    <2>3. Fresh /\ Fresh' = FALSE
      BY <1>1, <1>4, <2>2 DEF Fresh
    <2> QED
      BY <1>1, <1>2, <2>3 DEF Service!Expire
  <1> QED
    BY <1>3, <1>4

\* The detailed lease implements LeaseService: what LiveDryRun is built on.
THEOREM Implementation == Spec => KeepsService
  <1>1. Init => Service!Init
    BY DEF Init, Service!Init, Holder, Fresh
  <1>2. IInv /\ [Next]_vars => [Service!Next]_(Service!lease)
    <2> SUFFICES ASSUME IInv, [Next]_vars
                 PROVE  Service!Next \/ UNCHANGED Service!lease
      OBVIOUS
    <2> DEFINE Goal == Service!Next \/ UNCHANGED Service!lease
    <2>1. ASSUME NEW p \in Procs, Acquire(p) PROVE Goal
      <3>1. PICK told \in BOOLEAN : Service!Acquire(p, told)
        BY <2>1, ServiceAcquire
      <3>2. Service!Acquire(p, TRUE) \/ Service!Acquire(p, FALSE)
        BY <3>1
      <3> QED
        BY <3>2 DEF Service!Next
    <2>2. ASSUME NEW p \in Procs, Heartbeat(p) PROVE Goal
      <3>1. working[p]
        BY <2>2 DEF Heartbeat, HeartbeatAdmitted, IInv, WorkersOwn
      <3> QED
        BY <2>2, <3>1, ServiceHeartbeat DEF Service!Next
    <2>3. ASSUME NEW p \in Procs, RequestPreemption(p) PROVE Goal
      BY <2>3, ServicePreempt
    <2>4. ASSUME NEW p \in Procs, Release(p) PROVE Goal
      BY <2>4, ServiceRelease DEF Service!Next
    <2>5. ASSUME NEW p \in Procs, InvokeRelease(p) \/ Crash(p) PROVE Goal
      <3>1. /\ lease' = lease /\ clock' = clock
            /\ working' = [working EXCEPT ![p] = FALSE]
        BY <2>5 DEF InvokeRelease, Invoke, Crash
      <3>2. Service!Stop(p)
        BY <3>1 DEF Service!Stop, Holder, Fresh, Expired
      <3> QED
        BY <3>2 DEF Service!Next
    <2>6. ASSUME NEW p \in Procs,
                 \/ InvokeAcquire(p) \/ InvokeHeartbeat(p) \/ InvokePreempt(p)
                 \/ Refuse(p) \/ Read(p)
          PROVE  Goal
      BY <2>6, ServiceQuiet
         DEF InvokeAcquire, InvokeHeartbeat, InvokePreempt, Invoke, Refuse, Return, Read
    <2>7. CASE Tick
      BY <2>7, ServiceTick DEF Service!Next
    <2>8. CASE UNCHANGED vars
      BY <2>8, ServiceQuiet DEF vars
    <2> QED
      BY <2>1, <2>2, <2>3, <2>4, <2>5, <2>6, <2>7, <2>8 DEF Next
  <1> QED
    BY <1>1, <1>2, Invariance, PTL DEF Spec, KeepsService, Service!Spec

=============================================================================
