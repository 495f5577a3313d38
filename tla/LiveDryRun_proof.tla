-------------------------- MODULE LiveDryRun_proof --------------------------
(***************************************************************************)
(* Proof that a daily dry run leaves the files of one run of one contract, *)
(* for any processes and contracts, crashes, takeovers and late stages.    *)
(* The invariant ties the lease to the processes that are at work, and     *)
(* what such a process knows of the run to the files that are there.       *)
(***************************************************************************)
EXTENDS LiveDryRun, TLAPS

Files == [contract : Contracts \cup {Absent, Bare, Torn},
          receipts : [Stages -> Receipts \cup {Absent, Torn}],
          sealed : Contracts \cup {Absent, Torn},
          report : Reports \cup {Absent, Torn}]

Jobs == [pc : {"gone", "lease", "open", "contract", "beat", "work", "receipt", "report", "check",
               "release"},
         contract : Contracts, seq : Stages, prev : Procs \cup {NoProc},
         blocked : {0} \cup Stages]

\* The steps at which a process goes on under the lease, and those of the stages.
Running == {"beat", "work", "receipt", "report", "check"}
Active == {"open", "contract"} \cup Running

Types ==
  /\ holder \in Procs \cup {NoProc} /\ fresh \in BOOLEAN
  /\ working \in [Procs -> BOOLEAN]
  /\ dir \in Files /\ job \in [Procs -> Jobs] /\ mishaps \in 0..MaxMishaps

\* Who works has the lease.
LeaseOK ==
  \A p \in Procs : (working[p] <=> job[p].pc \in Active) /\ (working[p] => holder = p)

-----------------------------------------------------------------------------
(* The files. *)

Present(i) == dir.receipts[i] \notin {Absent, Torn}

NothingYet ==
  /\ \A i \in Stages : dir.receipts[i] = Absent
  /\ dir.sealed = Absent /\ dir.report = Absent

\* The files are an initial part of those of one run of contract c.
RunOf(c) ==
  /\ \A i, k \in Stages : i < k /\ dir.receipts[k] # Absent => Present(i)
  /\ Chained(c)
  /\ dir.sealed # Absent => Sealing(c) /\ Passed(6)
  /\ dir.receipts[SealStage] # Absent /\ Sealing(c) => dir.sealed = c
  /\ dir.report # Absent => Present(10)
  /\ dir.report \notin {Absent, Torn} =>
       dir.report = [blocked |-> BlockedAt[c], last |-> dir.receipts[10].by]

DirOK ==
  /\ dir.contract \notin Contracts => NothingYet
  /\ dir.contract \in Contracts => RunOf(dir.contract)

-----------------------------------------------------------------------------
(* The processes. *)

\* The first stage that a process has not passed.
StageOf(j) == IF j.pc \in {"report", "check"} THEN 11 ELSE j.seq

\* What a process knows of the stages that it passed is in the files.
Knows(j) ==
  LET n == StageOf(j) IN
  /\ dir.contract = j.contract
  /\ \A i \in Stages : i < n => Present(i)
  /\ j.prev = IF n = 1 THEN NoProc ELSE dir.receipts[n - 1].by
  /\ j.blocked = IF BlockedAt[j.contract] < n THEN BlockedAt[j.contract] ELSE 0

JobOK(j) ==
  /\ j.pc \in {"gone", "lease", "open", "contract"} => j.seq = 1 /\ j.prev = NoProc /\ j.blocked = 0
  /\ j.pc = "contract" => dir.contract = Bare
  /\ j.pc \in Running => Knows(j)
  /\ j.pc \in {"report", "check"} => j.seq = 10
  /\ j.pc = "receipt" => /\ j.seq = SealStage /\ j.blocked = 0
                         /\ dir.receipts[SealStage] = Absent /\ dir.sealed = j.contract
  /\ j.pc = "check" => dir.report = [blocked |-> j.blocked, last |-> j.prev]

IInv == Types /\ LeaseOK /\ DirOK /\ \A p \in Procs : JobOK(job[p])

\* The step of OnlyTheHolderWrites.
WritesUnderLease == dir' # dir => holder \in Procs /\ working[holder] /\ job[holder]' # job[holder]

-----------------------------------------------------------------------------
(* Who does not move knows nothing that a write could make untrue. *)

LEMMA OnlyOneWorks ==
  ASSUME IInv, NEW p \in Procs, NEW q \in Procs, working[p], working[q]
  PROVE  q = p
BY DEF IInv, LeaseOK

LEMMA OthersKnow ==
  ASSUME IInv, NEW p \in Procs, working[p] \/ dir' = dir
  PROVE  \A q \in Procs : q # p /\ job'[q] = job[q] => JobOK(job[q])'
<1> SUFFICES ASSUME NEW q \in Procs, q # p, job'[q] = job[q] PROVE JobOK(job[q])'
  OBVIOUS
<1>1. JobOK(job[q])
  BY DEF IInv
<1>2. CASE dir' = dir
  BY <1>1, <1>2 DEF JobOK, Knows, StageOf, Present
<1>3. CASE working[p]
  <2>1. job[q].pc \notin Active
    BY <1>3, OnlyOneWorks DEF IInv, LeaseOK
  <2>2. /\ job[q].pc \notin {"open", "contract", "beat", "work", "receipt", "report", "check"}
        /\ job[q].pc \notin Running
    BY <2>1 DEF Active, Running
  <2> QED
    BY <1>1, <2>2 DEF JobOK
<1> QED
  BY <1>2, <1>3

\* One process moves, or keeps the lease.
LEMMA OneJob ==
  ASSUME IInv, NEW p \in Procs, NEW j \in Jobs, job' = [job EXCEPT ![p] = j]
  PROVE  /\ job' \in [Procs -> Jobs] /\ job'[p] = j
         /\ \A q \in Procs : q # p => job'[q] = job[q]
BY DEF IInv, Types

\* The process p makes a step under its lease: no other is concerned.
LEMMA HolderSteps ==
  ASSUME IInv, NEW p \in Procs, working[p], NEW j \in Jobs, job' = [job EXCEPT ![p] = j],
         j.pc \in Active, UNCHANGED <<holder, working>>, fresh' \in BOOLEAN,
         dir' \in Files, DirOK', JobOK(j)', mishaps' \in 0..MaxMishaps
  PROVE  IInv'
<1>1. /\ job' \in [Procs -> Jobs] /\ job'[p] = j
      /\ \A q \in Procs : q # p => job'[q] = job[q]
  BY OneJob
<1>2. \A q \in Procs : JobOK(job[q])'
  <2>1. JobOK(job[p])'
    BY <1>1 DEF JobOK, Knows, StageOf, Present
  <2> QED
    BY <1>1, <2>1, OthersKnow
<1>3. LeaseOK'
  BY <1>1 DEF IInv, LeaseOK
<1>4. Types'
  BY <1>1 DEF IInv, Types
<1> QED
  BY <1>2, <1>3, <1>4 DEF IInv

\* The process p is at work no more.
LEMMA Stops ==
  ASSUME IInv, NEW p \in Procs, NEW j \in Jobs, job' = [job EXCEPT ![p] = j],
         j.pc \notin Active, JobOK(j)', Lease!Stop(p), working[p] \/ dir' = dir,
         dir' \in Files, DirOK', mishaps' \in 0..MaxMishaps
  PROVE  IInv'
<1>1. /\ job' \in [Procs -> Jobs] /\ job'[p] = j
      /\ \A q \in Procs : q # p => job'[q] = job[q]
  BY OneJob
<1>2. /\ working' = [working EXCEPT ![p] = FALSE] /\ UNCHANGED <<holder, fresh>>
      /\ working \in [Procs -> BOOLEAN]
  BY DEF Lease!Stop, IInv, Types
<1>3. \A q \in Procs : JobOK(job[q])'
  <2>1. JobOK(job[p])'
    BY <1>1 DEF JobOK, Knows, StageOf, Present
  <2> QED
    BY <1>1, <2>1, OthersKnow
<1>4. LeaseOK'
  BY <1>1, <1>2 DEF IInv, LeaseOK
<1>5. Types'
  BY <1>1, <1>2 DEF IInv, Types
<1> QED
  BY <1>3, <1>4, <1>5 DEF IInv

LEMMA GoneJob ==
  ASSUME NEW j \in Jobs
  PROVE  /\ Gone(j) \in Jobs /\ Gone(j).pc = "gone" /\ Gone(j).pc \notin Active
         /\ JobOK(Gone(j))' /\ JobOK(Gone(j))
<1>1. Gone(j) = [pc |-> "gone", contract |-> j.contract, seq |-> 1, prev |-> NoProc, blocked |-> 0]
  BY DEF Gone, Called
<1>2. j.contract \in Contracts /\ 1 \in Stages
  BY DEF Jobs, Stages
<1> QED
  BY <1>1, <1>2 DEF Jobs, JobOK, Active, Running

LEMMA GoneJobOf ==
  ASSUME IInv, NEW p \in Procs
  PROVE  \E j \in Jobs : j = Gone(job[p]) /\ j.pc \notin Active /\ JobOK(j)'
<1>1. PICK k \in Jobs : k = job[p]
  BY DEF IInv, Types
<1>2. Gone(k) \in Jobs /\ Gone(k).pc \notin Active /\ JobOK(Gone(k))'
  BY GoneJob
<1> QED
  BY <1>1, <1>2

LEMMA MovedJob ==
  ASSUME NEW j \in Jobs, NEW pc \in Active \cup {"gone", "lease", "release"}
  PROVE  /\ [j EXCEPT !.pc = pc] \in Jobs /\ [j EXCEPT !.pc = pc].pc = pc
         /\ [j EXCEPT !.pc = pc].contract = j.contract /\ [j EXCEPT !.pc = pc].seq = j.seq
         /\ [j EXCEPT !.pc = pc].prev = j.prev /\ [j EXCEPT !.pc = pc].blocked = j.blocked
BY DEF Jobs, Active, Running

\* A process leaves the try statement.
LEMMA LeaveKeeps ==
  ASSUME IInv, NEW p \in Procs, Leave(p), working[p] \/ dir' = dir,
         dir' \in Files, DirOK', mishaps' \in 0..MaxMishaps
  PROVE  IInv' /\ job'[p].pc = "release" /\ UNCHANGED holder
<1>1. PICK j : j = [job[p] EXCEPT !.pc = "release"]
  OBVIOUS
<1>2. j \in Jobs /\ j.pc = "release"
  BY <1>1, MovedJob DEF IInv, Types
<1>3. job' = [job EXCEPT ![p] = j] /\ Lease!Stop(p)
  BY <1>1 DEF Leave
<1>4. JobOK(j)' /\ j.pc \notin Active
  BY <1>2 DEF JobOK, Running, Active
<1>5. IInv'
  BY <1>2, <1>3, <1>4, Stops
<1> QED
  BY <1>2, <1>3, <1>5, OneJob DEF Lease!Stop

\* A process goes on to another step under its lease.
LEMMA GoKeeps ==
  ASSUME IInv, NEW p \in Procs, working[p], NEW pc \in Active, Go(p, pc),
         dir' \in Files, DirOK', mishaps' \in 0..MaxMishaps,
         \A j \in Jobs : /\ j.pc = pc /\ j.contract = job[p].contract /\ j.seq = job[p].seq
                         /\ j.prev = job[p].prev /\ j.blocked = job[p].blocked
                         => JobOK(j)'
  PROVE  IInv' /\ job'[p].pc = pc /\ UNCHANGED holder
<1>1. PICK j : j = [job[p] EXCEPT !.pc = pc]
  OBVIOUS
<1>2. /\ j \in Jobs /\ j.pc = pc /\ j.contract = job[p].contract /\ j.seq = job[p].seq
      /\ j.prev = job[p].prev /\ j.blocked = job[p].blocked
  BY <1>1, MovedJob DEF IInv, Types
<1>3. job' = [job EXCEPT ![p] = j] /\ UNCHANGED <<holder, fresh, working>>
  BY <1>1 DEF Go, lease
<1>4. JobOK(j)'
  BY <1>2
<1>5. fresh' \in BOOLEAN
  BY <1>3 DEF IInv, Types
<1>6. IInv'
  BY <1>2, <1>3, <1>4, <1>5, HolderSteps
<1> QED
  BY <1>2, <1>3, <1>6, OneJob

-----------------------------------------------------------------------------
(* The calls and the lease. *)

LEMMA InitIInv == Init => IInv
<1> SUFFICES ASSUME Init PROVE IInv
  OBVIOUS
<1>1. /\ dir = NoFiles /\ working = [p \in Procs |-> FALSE] /\ holder = NoProc /\ fresh = FALSE
      /\ mishaps = 0
  BY DEF Init, Lease!Init
<1>2. job \in [Procs -> {Gone(Called(c)) : c \in Contracts}]
  BY DEF Init
<1>3. \A p \in Procs : job[p] \in Jobs /\ job[p].pc = "gone" /\ JobOK(job[p])
  <2> SUFFICES ASSUME NEW p \in Procs PROVE job[p] \in Jobs /\ job[p].pc = "gone" /\ JobOK(job[p])
    OBVIOUS
  <2>1. PICK c \in Contracts : job[p] = Gone(Called(c))
    BY <1>2
  <2>2. Called(c) \in Jobs
    BY DEF Called, Jobs, Stages
  <2>3. Gone(Called(c)) \in Jobs /\ Gone(Called(c)).pc = "gone" /\ JobOK(Gone(Called(c)))
    BY <2>2, GoneJob
  <2> QED
    BY <2>1, <2>3
<1>4. LeaseOK
  BY <1>1, <1>3 DEF LeaseOK, Active, Running
<1>5. dir \in Files /\ DirOK
  BY <1>1, ContractsAssumption DEF NoFiles, Files, DirOK, NothingYet, Stages
<1>6. job \in [Procs -> Jobs]
  BY <1>2, <1>3
<1>7. Types
  <2>1. holder \in Procs \cup {NoProc} /\ mishaps \in 0..MaxMishaps
    BY <1>1, BoundAssumption
  <2>2. working \in [Procs -> BOOLEAN] /\ fresh \in BOOLEAN
    BY <1>1, Zenon
  <2> QED
    BY <1>5, <1>6, <2>1, <2>2 DEF Types
<1> QED
  BY <1>3, <1>4, <1>5, <1>7 DEF IInv

LEMMA BoundedMishap ==
  ASSUME IInv, Mishap \/ UNCHANGED mishaps
  PROVE  mishaps' \in 0..MaxMishaps
BY BoundAssumption DEF IInv, Types, Mishap

LEMMA SameDir ==
  ASSUME IInv, UNCHANGED dir
  PROVE  dir' \in Files /\ DirOK'
BY DEF IInv, Types, DirOK, NothingYet, RunOf, Present, Chained, Passed, Sealing

LEMMA CallKeeps ==
  ASSUME IInv, NEW p \in Procs, NEW c \in Contracts, Call(p, c)
  PROVE  IInv'
<1>1. PICK j : j = Called(c)
  OBVIOUS
<1>2. j \in Jobs /\ j.pc = "lease" /\ JobOK(j)'
  BY <1>1 DEF Called, Jobs, Stages, JobOK, Running
<1>3. /\ job' = [job EXCEPT ![p] = j] /\ UNCHANGED <<holder, fresh, working, dir>>
      /\ Mishap \/ UNCHANGED mishaps
      /\ ~ working[p]
  BY <1>1 DEF Call, lease, IInv, LeaseOK, Active, Running, At
<1>4. Lease!Stop(p)
  BY <1>3 DEF Lease!Stop, IInv, Types
<1> QED
  BY <1>2, <1>3, <1>4, Stops, SameDir, BoundedMishap DEF Active, Running

\* A process takes the lease: nobody works under it.
LEMMA TakesKeeps ==
  ASSUME IInv, NEW p \in Procs, NEW told \in BOOLEAN, Takes(p, told),
         NEW j \in Jobs, job' = [job EXCEPT ![p] = j],
         (told <=> j.pc \in Active), JobOK(j)', Mishap \/ UNCHANGED mishaps
  PROVE  IInv'
<1>1. /\ job' \in [Procs -> Jobs] /\ job'[p] = j
      /\ \A q \in Procs : q # p => job'[q] = job[q]
  BY OneJob
<1>2. /\ holder' = p /\ fresh' \in BOOLEAN /\ UNCHANGED dir
      /\ working' = IF told THEN [working EXCEPT ![p] = TRUE] ELSE working
      /\ holder # NoProc => ~working[holder]
  BY DEF Takes, Lease!Acquire, Lease!Free
<1>3. \A q \in Procs : ~working[q]
  BY <1>2, ContractsAssumption DEF IInv, LeaseOK
<1>4. working' \in [Procs -> BOOLEAN] /\ \A q \in Procs : working'[q] <=> told /\ q = p
  <2>1. CASE told
    BY <1>2, <1>3, <2>1 DEF IInv, Types
  <2>2. CASE ~told
    BY <1>2, <1>3, <2>2 DEF IInv, Types
  <2> QED
    BY <2>1, <2>2
<1>5. LeaseOK'
  <2> SUFFICES ASSUME NEW q \in Procs
               PROVE  (working'[q] <=> job'[q].pc \in Active) /\ (working'[q] => holder' = q)
    BY DEF LeaseOK
  <2>1. CASE q = p
    BY <1>1, <1>2, <1>4, <2>1
  <2>2. CASE q # p
    BY <1>1, <1>2, <1>3, <1>4, <2>2 DEF IInv, LeaseOK
  <2> QED
    BY <2>1, <2>2
<1>6. \A q \in Procs : JobOK(job[q])'
  <2>1. JobOK(job[p])'
    BY <1>1 DEF JobOK, Knows, StageOf, Present
  <2> QED
    BY <1>1, <1>2, <2>1, OthersKnow
<1>7. Types'
  BY <1>1, <1>2, <1>4, SameDir, BoundedMishap DEF Types
<1> QED
  BY <1>2, <1>5, <1>6, <1>7, SameDir DEF IInv

LEMMA GetLeaseKeeps ==
  ASSUME IInv, NEW p \in Procs, GetLease(p) \/ GetLeaseAndRaise(p)
  PROVE  IInv' /\ UNCHANGED dir
<1>1. job[p] \in Jobs /\ job[p].pc = "lease" /\ JobOK(job[p])
  BY DEF IInv, Types, GetLease, GetLeaseAndRaise, Takes, At
<1>2. CASE GetLease(p)
  <2>1. PICK j : j = [job[p] EXCEPT !.pc = "open"]
    OBVIOUS
  <2>2. /\ j \in Jobs /\ j.pc = "open" /\ j.seq = job[p].seq
        /\ j.prev = job[p].prev /\ j.blocked = job[p].blocked
    BY <1>1, <2>1, MovedJob DEF Active
  <2>3. JobOK(j)' /\ j.pc \in Active
    BY <1>1, <2>2 DEF JobOK, Running, Active
  <2>4. Takes(p, TRUE) /\ job' = [job EXCEPT ![p] = j] /\ UNCHANGED <<mishaps, dir>>
    BY <1>2, <2>1 DEF GetLease, Takes
  <2> QED
    BY <2>2, <2>3, <2>4, TakesKeeps
<1>3. CASE GetLeaseAndRaise(p)
  <2>1. PICK j \in Jobs : j = Gone(job[p]) /\ j.pc \notin Active /\ JobOK(j)'
    BY GoneJobOf
  <2>3. Takes(p, FALSE) /\ job' = [job EXCEPT ![p] = j] /\ Mishap /\ UNCHANGED dir
    BY <1>3, <2>1 DEF GetLeaseAndRaise, Takes
  <2> QED
    BY <2>1, <2>3, TakesKeeps
<1> QED
  BY <1>2, <1>3

\* A call ends: it was refused, its lease is given back, or its process dies.
LEMMA EndKeeps ==
  ASSUME IInv, NEW p \in Procs, Refused(p) \/ Release(p) \/ Crash(p)
  PROVE  IInv' /\ UNCHANGED dir
<1>1. PICK j \in Jobs : j = Gone(job[p]) /\ j.pc \notin Active /\ JobOK(j)'
  BY GoneJobOf
<1>2. /\ job' = [job EXCEPT ![p] = j] /\ UNCHANGED dir
      /\ Mishap \/ UNCHANGED mishaps
  BY <1>1 DEF Refused, Release, Crash
<1>3. dir' \in Files /\ DirOK' /\ mishaps' \in 0..MaxMishaps
  BY <1>2, SameDir, BoundedMishap
<1>4. CASE Lease!Stop(p)
  BY <1>1, <1>2, <1>3, <1>4, Stops
<1>5. CASE Refused(p) \/ (Release(p) /\ holder # p)
  <2>1. UNCHANGED lease /\ job[p].pc \notin Active
    BY <1>5 DEF Refused, Release, At, Active, Running
  <2>2. Lease!Stop(p)
    BY <2>1 DEF lease, Lease!Stop, IInv, LeaseOK, Types
  <2> QED
    BY <1>1, <1>2, <1>3, <2>2, Stops
<1>6. CASE Release(p) /\ holder = p
  <2>1. /\ ~working[p] /\ holder' = NoProc /\ fresh' = FALSE /\ UNCHANGED working
    BY <1>6 DEF Release, Lease!Release
  <2>2. \A q \in Procs : ~working[q]
    BY <1>6, <2>1 DEF IInv, LeaseOK
  <2>3. /\ job' \in [Procs -> Jobs] /\ job'[p] = j
        /\ \A q \in Procs : q # p => job'[q] = job[q]
    BY <1>1, <1>2, OneJob
  <2>4. LeaseOK'
    BY <1>1, <2>1, <2>2, <2>3 DEF IInv, LeaseOK
  <2>5. \A q \in Procs : JobOK(job[q])'
    <3>1. JobOK(job[p])'
      BY <1>1, <2>3 DEF JobOK, Knows, StageOf, Present
    <3> QED
      BY <1>2, <2>3, <3>1, OthersKnow
  <2>6. Types'
    BY <1>3, <2>1, <2>3 DEF IInv, Types
  <2> QED
    BY <1>2, <1>3, <2>4, <2>5, <2>6 DEF IInv
<1> QED
  BY <1>2, <1>4, <1>5, <1>6 DEF Crash, Lease!Stop

LEMMA RunOutKeeps ==
  ASSUME IInv, RunOut
  PROVE  IInv' /\ UNCHANGED dir
<1>1. /\ fresh' = FALSE /\ UNCHANGED <<holder, working, dir, job>>
      /\ Mishap \/ UNCHANGED mishaps
  BY DEF RunOut, Lease!Expire
<1>2. dir' \in Files /\ DirOK' /\ mishaps' \in 0..MaxMishaps
  BY <1>1, SameDir, BoundedMishap
<1>3. \A q \in Procs : JobOK(job[q])'
  BY <1>1 DEF IInv, JobOK, Knows, StageOf, Present
<1>4. LeaseOK' /\ Types'
  BY <1>1, <1>2 DEF IInv, LeaseOK, Types
<1> QED
  BY <1>1, <1>2, <1>3, <1>4 DEF IInv

-----------------------------------------------------------------------------
(* What a write makes of the files. *)

LEMMA ContractWritten ==
  ASSUME IInv, dir.contract \notin Contracts, NEW v \in Contracts \cup {Bare, Torn},
         dir' = [dir EXCEPT !.contract = v]
  PROVE  dir' \in Files /\ DirOK' /\ dir'.contract = v
<1>1. dir \in Files /\ NothingYet
  BY DEF IInv, Types, DirOK
<1>2. /\ dir' \in Files /\ dir'.contract = v /\ dir'.receipts = dir.receipts
      /\ dir'.sealed = dir.sealed /\ dir'.report = dir.report
  BY <1>1 DEF Files
<1>3. NothingYet'
  BY <1>1, <1>2 DEF NothingYet
<1>4. \A c : RunOf(c)'
  BY <1>3 DEF NothingYet, RunOf, Chained, Stages, SealStage
<1> QED
  BY <1>2, <1>3, <1>4 DEF DirOK

\* What is known of a process that is about to write in stage n.
LEMMA AtStage ==
  ASSUME IInv, NEW p \in Procs, job[p].pc \in {"work", "receipt"}
  PROVE  /\ working[p] /\ job[p] \in Jobs /\ Knows(job[p]) /\ StageOf(job[p]) = job[p].seq
         /\ dir \in Files /\ dir.contract \in Contracts /\ RunOf(dir.contract)
         /\ dir.contract = job[p].contract /\ job[p].seq \in 1..10
         /\ \A i \in Stages : i < job[p].seq => Present(i)
         /\ job[p].prev = IF job[p].seq = 1 THEN NoProc ELSE dir.receipts[job[p].seq - 1].by
         /\ job[p].blocked = IF BlockedAt[dir.contract] < job[p].seq
                             THEN BlockedAt[dir.contract] ELSE 0
<1>1. working[p] /\ job[p] \in Jobs /\ JobOK(job[p]) /\ dir \in Files
  BY DEF IInv, Types, LeaseOK, Active, Running
<1>2. Knows(job[p]) /\ StageOf(job[p]) = job[p].seq /\ dir.contract = job[p].contract
  BY <1>1 DEF JobOK, Running, Knows, StageOf
<1>3. dir.contract \in Contracts /\ job[p].seq \in 1..10
  BY <1>1, <1>2 DEF Jobs, Stages
<1> QED
  BY <1>1, <1>2, <1>3 DEF Knows, IInv, DirOK

LEMMA Verdict ==
  ASSUME NEW c, NEW b, NEW i
  PROVE  StageResult(c, b, i) \in {"PASS", "BLOCKED", "SKIPPED"}
BY DEF StageResult

LEMMA NewReceiptIsReceipt ==
  ASSUME IInv, NEW p \in Procs, job[p].pc \in {"work", "receipt"}
  PROVE  /\ NewReceipt(p) \in Receipts /\ NewReceipt(p) \notin {Absent, Torn}
         /\ NewReceipt(p).status = StageResult(dir.contract, job[p].blocked, job[p].seq)
         /\ NewReceipt(p).by = p /\ NewReceipt(p).prev = job[p].prev
<1>1. job[p].prev \in Procs \cup {NoProc} /\ dir.contract = job[p].contract
  BY AtStage DEF Jobs
<1>2. NewReceipt(p) \in Receipts
  BY <1>1, Verdict DEF NewReceipt, Receipts
<1> QED
  BY <1>1, <1>2, FilesAssumption DEF NewReceipt

\* The receipts are chained when they are those of rs.
LEMMA ChainedAfter ==
  ASSUME NEW c, NEW rs, dir'.receipts = rs,
         \A i \in Stages :
            rs[i] \notin {Absent, Torn} =>
              /\ rs[i].status = StageResult(c, IF BlockedAt[c] < i THEN BlockedAt[c] ELSE 0, i)
              /\ rs[i].prev = IF i = 1 THEN NoProc ELSE rs[i - 1].by
  PROVE  Chained(c)'
BY DEF Chained

\* A receipt of stage n, or a part of it, is written behind those of the others.
LEMMA ReceiptWritten ==
  ASSUME IInv, NEW p \in Procs, job[p].pc \in {"work", "receipt"}, NEW n, n = job[p].seq,
         dir.receipts[n] = Absent, NEW v, v \in {NewReceipt(p), Torn},
         n = SealStage /\ Sealing(dir.contract) => dir.sealed = dir.contract,
         dir' = [dir EXCEPT !.receipts = [dir.receipts EXCEPT ![n] = v]]
  PROVE  /\ dir' \in Files /\ DirOK' /\ dir'.contract = dir.contract
         /\ dir'.receipts[n] = v /\ \A i \in Stages : i # n => dir'.receipts[i] = dir.receipts[i]
         /\ dir'.sealed = dir.sealed /\ dir'.report = dir.report
<1>0. PICK c : c = dir.contract
  OBVIOUS
<1>1. /\ dir \in Files /\ c \in Contracts /\ RunOf(c) /\ n \in 1..10
      /\ \A i \in Stages : i < n => Present(i)
      /\ job[p].prev = IF n = 1 THEN NoProc ELSE dir.receipts[n - 1].by
      /\ job[p].blocked = IF BlockedAt[c] < n THEN BlockedAt[c] ELSE 0
  BY <1>0, AtStage
<1>2. /\ v \in Receipts \cup {Absent, Torn} /\ v # Absent
      /\ v # Torn => /\ v.status = StageResult(c, job[p].blocked, n)
                     /\ v.prev = job[p].prev
  BY <1>0, NewReceiptIsReceipt, FilesAssumption
<1>3. dir.receipts \in [Stages -> Receipts \cup {Absent, Torn}] /\ n \in Stages
  BY <1>1 DEF Files, Stages
<1>4. PICK rs : rs = [dir.receipts EXCEPT ![n] = v]
  OBVIOUS
<1>5. /\ rs \in [Stages -> Receipts \cup {Absent, Torn}]
      /\ rs[n] = v /\ \A i \in Stages : i # n => rs[i] = dir.receipts[i]
  BY <1>2, <1>3, <1>4
<1>6. /\ dir' \in Files /\ dir'.contract = c /\ dir'.receipts = rs
      /\ dir'.sealed = dir.sealed /\ dir'.report = dir.report
  BY <1>0, <1>1, <1>4, <1>5 DEF Files
<1>7. \A i \in Stages : dir.receipts[i] # Absent => i < n
  <2> SUFFICES ASSUME NEW i \in Stages, dir.receipts[i] # Absent, ~ (i < n) PROVE FALSE
    OBVIOUS
  <2>1. i # n /\ n < i
    BY <1>1 DEF Stages
  <2>2. Present(n)
    BY <1>1, <1>3, <2>1 DEF RunOf
  <2> QED
    BY <2>2 DEF Present
<1>8. RunOf(c)'
  <2>1. \A i, k \in Stages : i < k /\ rs[k] # Absent => rs[i] \notin {Absent, Torn}
    <3> SUFFICES ASSUME NEW i \in Stages, NEW k \in Stages, i < k, rs[k] # Absent
                 PROVE  rs[i] \notin {Absent, Torn}
      OBVIOUS
    <3>1. k <= n
      BY <1>1, <1>5, <1>7 DEF Stages
    <3>2. i < n
      BY <1>1, <3>1 DEF Stages
    <3> QED
      BY <1>1, <1>5, <3>2 DEF Present, Stages
  <2>2. Chained(c)'
    <3>1. ASSUME NEW i \in Stages, rs[i] \notin {Absent, Torn}
          PROVE  /\ rs[i].status =
                      StageResult(c, IF BlockedAt[c] < i THEN BlockedAt[c] ELSE 0, i)
                 /\ rs[i].prev = IF i = 1 THEN NoProc ELSE rs[i - 1].by
      <4>1. CASE i = n
        <5>1. n # 1 => n - 1 \in Stages /\ n - 1 # n
          BY <1>1 DEF Stages
        <5>2. n # 1 => rs[n - 1] = dir.receipts[n - 1]
          BY <1>5, <5>1
        <5> QED
          BY <1>1, <1>2, <1>5, <3>1, <4>1, <5>2
      <4>2. CASE i # n
        <5>1. dir.receipts[i] = rs[i] /\ i < n
          BY <1>5, <1>7, <3>1, <4>2
        <5>2. i # 1 => i - 1 \in Stages /\ i - 1 # n
          BY <1>1, <5>1 DEF Stages
        <5>3. i # 1 => rs[i - 1] = dir.receipts[i - 1]
          BY <1>5, <5>2
        <5>4. /\ dir.receipts[i].status =
                   StageResult(c, IF BlockedAt[c] < i THEN BlockedAt[c] ELSE 0, i)
              /\ dir.receipts[i].prev = IF i = 1 THEN NoProc ELSE dir.receipts[i - 1].by
          BY <1>1, <3>1, <5>1 DEF RunOf, Chained
        <5> QED
          BY <5>1, <5>3, <5>4
      <4> QED
        BY <4>1, <4>2
    <3>2. \A i \in Stages :
            rs[i] \notin {Absent, Torn} =>
              /\ rs[i].status = StageResult(c, IF BlockedAt[c] < i THEN BlockedAt[c] ELSE 0, i)
              /\ rs[i].prev = IF i = 1 THEN NoProc ELSE rs[i - 1].by
      BY <3>1
    <3> QED
      BY <1>6, <3>2, ChainedAfter
  <2>3. dir.sealed # Absent => Sealing(c) /\ Passed(6)'
    <3>1. dir.sealed # Absent => Sealing(c) /\ Passed(6)
      BY <1>1 DEF RunOf
    <3>2. Passed(6) => rs[6] = dir.receipts[6]
      BY <1>5, <1>7 DEF Passed, Stages
    <3> QED
      BY <1>6, <3>1, <3>2 DEF Passed
  <2>4. rs[SealStage] # Absent /\ Sealing(c) => dir.sealed = c
    <3>1. SealStage \in Stages
      BY DEF SealStage, Stages
    <3> QED
      BY <1>0, <1>1, <1>5, <3>1 DEF RunOf
  <2>5. dir.report = Absent
    <3>1. dir.report # Absent => dir.receipts[10] # Absent
      BY <1>1 DEF RunOf, Present
    <3>2. dir.receipts[10] # Absent => 10 < n
      BY <1>7 DEF Stages
    <3> QED
      BY <1>1, <3>1, <3>2
  <2> QED
    BY <1>6, <2>1, <2>2, <2>3, <2>4, <2>5 DEF RunOf, Present, Sealing
<1> QED
  BY <1>0, <1>1, <1>5, <1>6, <1>8 DEF DirOK

\* The output of stage 7 is written, or a part of it.
LEMMA SealWritten ==
  ASSUME IInv, NEW p \in Procs, job[p].pc = "work", job[p].seq = SealStage, job[p].blocked = 0,
         dir.receipts[SealStage] = Absent, NEW v, v \in {job[p].contract, Torn},
         dir' = [dir EXCEPT !.sealed = v]
  PROVE  /\ dir' \in Files /\ DirOK' /\ dir'.contract = dir.contract
         /\ dir'.receipts = dir.receipts /\ dir'.sealed = v /\ dir'.report = dir.report
<1>0. PICK c : c = dir.contract
  OBVIOUS
<1>1. /\ dir \in Files /\ c \in Contracts /\ RunOf(c) /\ c = job[p].contract
      /\ Present(6) /\ 0 = IF BlockedAt[c] < 7 THEN BlockedAt[c] ELSE 0
  BY <1>0, AtStage DEF Stages, SealStage
<1>2. /\ dir' \in Files /\ dir'.contract = c /\ dir'.receipts = dir.receipts
      /\ dir'.sealed = v /\ dir'.report = dir.report
  BY <1>0, <1>1 DEF Files
<1>3. BlockedAt[c] = 0
  <2>1. BlockedAt[c] \in {0} \cup 2..6
    BY <1>1, ContractsAssumption
  <2> QED
    BY <1>1, <2>1
<1>4. dir.receipts[6].status = "PASS"
  <2>1. 6 \in Stages
    BY DEF Stages
  <2>2. dir.receipts[6].status = StageResult(c, IF BlockedAt[c] < 6 THEN BlockedAt[c] ELSE 0, 6)
    BY <1>1, <2>1 DEF RunOf, Chained, Present
  <2>3. dir.receipts[6].status = StageResult(c, 0, 6)
    BY <1>3, <2>2
  <2> QED
    BY <1>3, <2>3 DEF StageResult
<1>5. RunOf(c)'
  BY <1>1, <1>2, <1>3, <1>4 DEF RunOf, Present, Chained, Sealing, Passed
<1> QED
  BY <1>0, <1>1, <1>2, <1>5 DEF DirOK

\* What is known of a process that has passed every stage.
LEMMA AtReport ==
  ASSUME IInv, NEW p \in Procs, job[p].pc \in {"report", "check"}
  PROVE  /\ working[p] /\ job[p] \in Jobs /\ Knows(job[p]) /\ StageOf(job[p]) = 11
         /\ dir \in Files /\ dir.contract \in Contracts /\ RunOf(dir.contract)
         /\ dir.contract = job[p].contract /\ Present(10) /\ job[p].prev = dir.receipts[10].by
         /\ job[p].blocked = BlockedAt[dir.contract]
         /\ NewReport(p) = [blocked |-> BlockedAt[dir.contract], last |-> dir.receipts[10].by]
         /\ NewReport(p) \in Reports
<1>1. working[p] /\ job[p] \in Jobs /\ JobOK(job[p]) /\ dir \in Files
  BY DEF IInv, Types, LeaseOK, Active, Running
<1>2. Knows(job[p]) /\ StageOf(job[p]) = 11 /\ dir.contract = job[p].contract
  BY <1>1 DEF JobOK, Running, Knows, StageOf
<1>3. dir.contract \in Contracts /\ RunOf(dir.contract)
  BY <1>1, <1>2 DEF Jobs, IInv, DirOK
<1>4. BlockedAt[dir.contract] \in {0} \cup 2..6
  BY <1>3, ContractsAssumption
<1>5. /\ Present(10) /\ job[p].prev = dir.receipts[10].by
      /\ job[p].blocked = BlockedAt[dir.contract]
  BY <1>2, <1>4 DEF Knows, Stages
<1>6. dir.receipts[10] \in Receipts
  BY <1>1, <1>5 DEF Files, Present, Stages
<1>7. /\ NewReport(p) = [blocked |-> BlockedAt[dir.contract], last |-> dir.receipts[10].by]
      /\ NewReport(p) \in Reports
  BY <1>4, <1>5, <1>6 DEF NewReport, Reports, Receipts, Stages
<1> QED
  BY <1>1, <1>2, <1>3, <1>5, <1>7

\* The report is written, or a part of it.
LEMMA ReportWritten ==
  ASSUME IInv, NEW p \in Procs, job[p].pc = "report", NEW v, v \in {NewReport(p), Torn},
         dir' = [dir EXCEPT !.report = v]
  PROVE  /\ dir' \in Files /\ DirOK' /\ dir'.contract = dir.contract
         /\ dir'.receipts = dir.receipts /\ dir'.sealed = dir.sealed /\ dir'.report = v
<1>0. PICK c : c = dir.contract
  OBVIOUS
<1>1. /\ dir \in Files /\ c \in Contracts /\ RunOf(c) /\ Present(10)
      /\ NewReport(p) = [blocked |-> BlockedAt[c], last |-> dir.receipts[10].by]
      /\ NewReport(p) \in Reports
  BY <1>0, AtReport
<1>2. /\ dir' \in Files /\ dir'.contract = c /\ dir'.receipts = dir.receipts
      /\ dir'.sealed = dir.sealed /\ dir'.report = v
  BY <1>0, <1>1 DEF Files
<1>3. RunOf(c)'
  BY <1>1, <1>2 DEF RunOf, Present, Chained, Sealing, Passed
<1> QED
  BY <1>0, <1>1, <1>2, <1>3 DEF DirOK

-----------------------------------------------------------------------------
(* The steps under the lease. *)

LEMMA UnderLease ==
  ASSUME IInv, NEW p \in Procs, working[p], job'[p].pc # job[p].pc, UNCHANGED holder
  PROVE  WritesUnderLease
BY DEF WritesUnderLease, IInv, LeaseOK

\* Which file a process writes at each of its steps.
LEMMA FilesAtStep ==
  ASSUME NEW p \in Procs, NEW v
  PROVE  /\ At(p, "contract") => /\ Pending(p) <=> dir.contract = Bare
                                 /\ Written(p, v) = [dir EXCEPT !.contract = v]
         /\ AtReceipt(p) =>
              /\ Pending(p) <=> dir.receipts[job[p].seq] = Absent
              /\ Written(p, v) =
                   [dir EXCEPT !.receipts = [dir.receipts EXCEPT ![job[p].seq] = v]]
         /\ AtSeal(p) =>
              /\ Pending(p) <=> dir.receipts[job[p].seq] = Absent /\ dir.sealed = Absent
              /\ Written(p, v) = [dir EXCEPT !.sealed = v]
         /\ At(p, "report") => /\ Pending(p) <=> dir.report = Absent
                               /\ Written(p, v) = [dir EXCEPT !.report = v]
         /\ Pending(p) => At(p, "contract") \/ At(p, "report") \/ AtReceipt(p) \/ AtSeal(p)
<1>1. CASE At(p, "contract")
  BY <1>1 DEF At, AtReceipt, AtSeal, Pending, Written
<1>2. CASE AtReceipt(p)
  BY <1>2 DEF At, AtReceipt, AtSeal, Pending, Written
<1>3. CASE AtSeal(p)
  BY <1>3 DEF At, AtReceipt, AtSeal, Pending, Written
<1>4. CASE At(p, "report")
  BY <1>4 DEF At, AtReceipt, AtSeal, Pending, Written
<1>5. CASE ~(At(p, "contract") \/ At(p, "report") \/ AtReceipt(p) \/ AtSeal(p))
  BY <1>5 DEF Pending
<1> QED
  BY <1>1, <1>2, <1>3, <1>4, <1>5

LEMMA MakeDirectoryKeeps ==
  ASSUME IInv, NEW p \in Procs, MakeDirectory(p)
  PROVE  IInv' /\ WritesUnderLease
<1>1. /\ job[p].pc = "open" /\ dir.contract = Absent /\ dir' = [dir EXCEPT !.contract = Bare]
      /\ Go(p, "contract") /\ UNCHANGED mishaps
  BY DEF MakeDirectory, At
<1>2. working[p] /\ JobOK(job[p])
  BY <1>1 DEF IInv, LeaseOK, Active
<1>3. dir' \in Files /\ DirOK' /\ dir'.contract = Bare
  BY <1>1, ContractWritten, ContractsAssumption
<1>4. \A j \in Jobs : /\ j.pc = "contract" /\ j.contract = job[p].contract /\ j.seq = job[p].seq
                      /\ j.prev = job[p].prev /\ j.blocked = job[p].blocked
                      => JobOK(j)'
  BY <1>1, <1>2, <1>3 DEF JobOK, Running
<1>5. IInv' /\ job'[p].pc = "contract" /\ UNCHANGED holder
  BY <1>1, <1>2, <1>3, <1>4, GoKeeps, BoundedMishap DEF Active
<1> QED
  BY <1>1, <1>2, <1>5, UnderLease

\* A process that has a contract and no receipt before it knows what there is to know.
LEMMA FirstStage ==
  ASSUME IInv, NEW p \in Procs, job[p].pc \in {"open", "contract"},
         dir'.contract = job[p].contract
  PROVE  \A j \in Jobs : /\ j.pc = "beat" /\ j.contract = job[p].contract /\ j.seq = job[p].seq
                         /\ j.prev = job[p].prev /\ j.blocked = job[p].blocked
                         => JobOK(j)'
<1> SUFFICES ASSUME NEW j \in Jobs, j.pc = "beat", j.contract = job[p].contract,
                    j.seq = job[p].seq, j.prev = job[p].prev, j.blocked = job[p].blocked
             PROVE  JobOK(j)'
  OBVIOUS
<1>1. j.seq = 1 /\ j.prev = NoProc /\ j.blocked = 0 /\ j.contract \in Contracts
  BY DEF IInv, JobOK, Jobs
<1>2. BlockedAt[j.contract] \in {0} \cup 2..6
  BY <1>1, ContractsAssumption
<1>3. Knows(j)'
  BY <1>1, <1>2 DEF Knows, StageOf, Stages
<1> QED
  BY <1>3 DEF JobOK

LEMMA WriteContractKeeps ==
  ASSUME IInv, NEW p \in Procs, WriteContract(p)
  PROVE  IInv' /\ WritesUnderLease
<1>1. job[p].pc = "contract" /\ working[p] /\ dir.contract = Bare /\ job[p].contract \in Contracts
  BY DEF WriteContract, At, IInv, LeaseOK, Active, JobOK, Types, Jobs
<1>2. /\ dir' = [dir EXCEPT !.contract = job[p].contract] /\ Go(p, "beat") /\ UNCHANGED mishaps
  BY <1>1, FilesAtStep DEF WriteContract, At
<1>3. dir' \in Files /\ DirOK' /\ dir'.contract = job[p].contract
  BY <1>1, <1>2, ContractWritten, ContractsAssumption
<1>4. IInv' /\ job'[p].pc = "beat" /\ UNCHANGED holder
  BY <1>1, <1>2, <1>3, FirstStage, GoKeeps, BoundedMishap DEF Active, Running
<1> QED
  BY <1>1, <1>4, UnderLease

LEMMA ReopenKeeps ==
  ASSUME IInv, NEW p \in Procs, Reopen(p)
  PROVE  IInv' /\ UNCHANGED dir
<1>1. /\ job[p].pc = "open" /\ working[p] /\ UNCHANGED <<dir, mishaps>>
  BY DEF Reopen, At, IInv, LeaseOK, Active
<1>2. dir' \in Files /\ DirOK' /\ mishaps' \in 0..MaxMishaps
  BY <1>1, SameDir, BoundedMishap
<1>3. CASE SameContract(p)
  <2>1. Go(p, "beat") /\ dir'.contract = job[p].contract
    BY <1>1, <1>3 DEF Reopen, SameContract
  <2> QED
    BY <1>1, <1>2, <2>1, FirstStage, GoKeeps DEF Active, Running
<1>4. CASE ~SameContract(p)
  BY <1>1, <1>2, <1>4, LeaveKeeps DEF Reopen
<1> QED
  BY <1>3, <1>4

LEMMA BeatKeeps ==
  ASSUME IInv, NEW p \in Procs, Beat(p)
  PROVE  IInv' /\ UNCHANGED dir
<1>1. /\ job[p].pc = "beat" /\ working[p] /\ UNCHANGED <<dir, mishaps>> /\ JobOK(job[p])
  BY DEF Beat, At, IInv, LeaseOK, Active, Running
<1>2. dir' \in Files /\ DirOK' /\ mishaps' \in 0..MaxMishaps
  BY <1>1, SameDir, BoundedMishap
<1>3. CASE fresh
  <2>1. PICK j : j = [job[p] EXCEPT !.pc = "work"]
    OBVIOUS
  <2>2. /\ j \in Jobs /\ j.pc = "work" /\ j.contract = job[p].contract /\ j.seq = job[p].seq
        /\ j.prev = job[p].prev /\ j.blocked = job[p].blocked
    <3>1. job[p] \in Jobs
      BY DEF IInv, Types
    <3>2. "work" \in Active
      BY DEF Active, Running
    <3> QED
      BY <2>1, <3>1, <3>2, MovedJob
  <2>3. Lease!Heartbeat(p) /\ job' = [job EXCEPT ![p] = j]
    BY <1>3, <2>1 DEF Beat
  <2>4. UNCHANGED <<holder, working>> /\ fresh' \in BOOLEAN
    BY <2>3 DEF Lease!Heartbeat
  <2>5. JobOK(j)'
    BY <1>1, <2>2 DEF JobOK, Knows, StageOf, Present, Running
  <2> QED
    BY <1>1, <1>2, <2>2, <2>3, <2>4, <2>5, HolderSteps DEF Active, Running
<1>4. CASE ~fresh
  BY <1>1, <1>2, <1>4, LeaveKeeps DEF Beat
<1> QED
  BY <1>1, <1>3, <1>4

\* What is blocked when the stage n of a run is behind a process.
LEMMA BlockedAfter ==
  ASSUME NEW c \in Contracts, NEW n \in 1..10, NEW b, b = IF BlockedAt[c] < n THEN BlockedAt[c] ELSE 0,
         NEW s, s = StageResult(c, b, n)
  PROVE  (IF s = "BLOCKED" /\ b = 0 THEN n ELSE b) = IF BlockedAt[c] < n + 1 THEN BlockedAt[c] ELSE 0
<1>1. BlockedAt[c] \in {0} \cup 2..6
  BY ContractsAssumption
<1>2. CASE b # 0
  BY <1>1, <1>2
<1>3. CASE b = 0 /\ BlockedAt[c] = n
  BY <1>1, <1>3 DEF StageResult
<1>4. CASE b = 0 /\ BlockedAt[c] # n
  <2>1. s # "BLOCKED"
    BY <1>4 DEF StageResult
  <2> QED
    BY <1>1, <1>4, <2>1
<1> QED
  BY <1>2, <1>3, <1>4

\* A process that has read or written the receipt of its stage goes on to the next one.
LEMMA AdvanceKeeps ==
  ASSUME IInv, NEW p \in Procs, job[p].pc \in {"work", "receipt"}, NEW n, n = job[p].seq,
         NEW r \in Receipts, r \notin {Absent, Torn}, Advance(p, r),
         dir' \in Files, DirOK', dir'.contract = dir.contract, dir'.receipts[n] = r,
         \A i \in Stages : i # n => dir'.receipts[i] = dir.receipts[i],
         UNCHANGED mishaps
  PROVE  IInv' /\ WritesUnderLease
<1>0. PICK c : c = dir.contract
  OBVIOUS
<1>1. PICK b : b = job[p].blocked
  OBVIOUS
<1>2. /\ working[p] /\ job[p] \in Jobs /\ c \in Contracts /\ c = job[p].contract /\ n \in 1..10
      /\ \A i \in Stages : i < n => Present(i)
      /\ b = IF BlockedAt[c] < n THEN BlockedAt[c] ELSE 0
  BY <1>0, <1>1, AtStage
<1>3. n \in Stages /\ dir'.contract = c /\ mishaps' \in 0..MaxMishaps
  BY <1>0, <1>2, BoundedMishap DEF Stages
<1>4. CASE Leave(p)
  BY <1>2, <1>3, <1>4, LeaveKeeps, UnderLease
<1>5. CASE ~Leave(p)
  <2>1. PICK blocked : blocked = IF r.status = "BLOCKED" /\ b = 0 THEN n ELSE b
    OBVIOUS
  <2>2. PICK j : j = [pc |-> IF n = 10 THEN "report" ELSE "beat", contract |-> c,
                      seq |-> NextStage(n), prev |-> r.by, blocked |-> blocked]
    OBVIOUS
  <2>3. job' = [job EXCEPT ![p] = j] /\ UNCHANGED lease
    BY <1>1, <1>2, <1>5, <2>1, <2>2 DEF Advance
  <2>4. r.status = StageResult(c, b, n)
    <3>1. Chained(c)'
      BY <1>2, <1>3 DEF DirOK, RunOf
    <3>2. r.status = StageResult(c, IF BlockedAt[c] < n THEN BlockedAt[c] ELSE 0, n)
      BY <1>3, <3>1 DEF Chained
    <3> QED
      BY <1>2, <3>2
  <2>5. blocked = IF BlockedAt[c] < n + 1 THEN BlockedAt[c] ELSE 0
    BY <1>2, <2>1, <2>4, BlockedAfter
  <2>6. BlockedAt[c] \in {0} \cup 2..6
    BY <1>2, ContractsAssumption
  <2>7. /\ j \in Jobs /\ j.pc = IF n = 10 THEN "report" ELSE "beat"
        /\ j.contract = c /\ j.seq = NextStage(n) /\ j.prev = r.by /\ j.blocked = blocked
    <3>1. NextStage(n) \in Stages /\ blocked \in {0} \cup Stages
      BY <1>2, <2>5, <2>6 DEF NextStage, Stages
    <3>2. r.by \in Procs
      BY DEF Receipts
    <3> QED
      BY <1>2, <2>2, <3>1, <3>2 DEF Jobs
  <2>8. StageOf(j) = n + 1
    BY <1>2, <2>7 DEF StageOf, NextStage
  <2>9. \A i \in Stages : i < n + 1 => Present(i)'
    BY <1>2 DEF Present, Stages
  <2>10. Knows(j)'
    <3> DEFINE k == n + 1
    <3>1. k # 1 /\ k - 1 = n
      BY <1>2
    <3>2. j.prev = dir'.receipts[k - 1].by
      BY <2>7, <3>1
    <3>3. StageOf(j) = k /\ dir'.contract = j.contract
      BY <1>3, <2>7, <2>8
    <3>4. j.blocked = IF BlockedAt[j.contract] < k THEN BlockedAt[j.contract] ELSE 0
      BY <2>5, <2>7
    <3>5. \A i \in Stages : i < k => Present(i)'
      BY <2>9
    <3> HIDE DEF k
    <3> QED
      BY <3>1, <3>2, <3>3, <3>4, <3>5 DEF Knows
  <2>11. JobOK(j)' /\ j.pc \in Active /\ j.pc # job[p].pc
    <3>1. j.pc \in {"beat", "report"} /\ (j.pc = "report" => j.seq = 10)
      BY <1>2, <2>7 DEF NextStage
    <3> QED
      BY <2>10, <3>1 DEF JobOK, Active, Running
  <2>12. UNCHANGED <<holder, working>> /\ fresh' \in BOOLEAN
    BY <2>3 DEF lease, IInv, Types
  <2>13. IInv' /\ job'[p] = j
    BY <1>2, <1>3, <2>3, <2>7, <2>11, <2>12, HolderSteps, OneJob
  <2> QED
    BY <1>2, <2>11, <2>12, <2>13, UnderLease
<1> QED
  BY <1>4, <1>5

LEMMA ReadReceiptKeeps ==
  ASSUME IInv, NEW p \in Procs, ReadReceipt(p)
  PROVE  IInv' /\ UNCHANGED dir
<1>1. PICK n : n = job[p].seq
  OBVIOUS
<1>2. PICK r : r = dir.receipts[n]
  OBVIOUS
<1>3. /\ job[p].pc = "work" /\ r # Absent /\ UNCHANGED <<dir, mishaps>>
      /\ IF Validated(r, job[p].prev) THEN Advance(p, r) ELSE Leave(p)
  BY <1>1, <1>2 DEF ReadReceipt, At
<1>4. dir' \in Files /\ DirOK' /\ mishaps' \in 0..MaxMishaps /\ working[p]
  BY <1>3, SameDir, BoundedMishap, AtStage
<1>5. CASE Validated(r, job[p].prev)
  <2>1. n \in Stages /\ dir \in Files
    BY <1>1, <1>3, AtStage DEF Stages
  <2>2. r \in Receipts \cup {Absent, Torn}
    BY <1>2, <2>1 DEF Files
  <2>3. r \in Receipts /\ r \notin {Absent, Torn}
    BY <1>3, <1>5, <2>2 DEF Validated
  <2> QED
    BY <1>1, <1>2, <1>3, <1>4, <1>5, <2>3, AdvanceKeeps
<1>6. CASE ~Validated(r, job[p].prev)
  BY <1>3, <1>4, <1>6, LeaveKeeps
<1> QED
  BY <1>3, <1>5, <1>6

LEMMA SealKeeps ==
  ASSUME IInv, NEW p \in Procs, Seal(p)
  PROVE  IInv' /\ WritesUnderLease
<1>1. /\ job[p].pc = "work" /\ job[p].seq = SealStage /\ job[p].blocked = 0
      /\ dir.receipts[SealStage] = Absent /\ UNCHANGED mishaps /\ AtSeal(p)
  BY DEF Seal, AtSeal, At
<1>2. working[p] /\ JobOK(job[p]) /\ Knows(job[p]) /\ mishaps' \in 0..MaxMishaps
  BY <1>1, AtStage, BoundedMishap DEF IInv
<1>3. CASE Pending(p)
  <2>1. dir' = [dir EXCEPT !.sealed = job[p].contract] /\ Go(p, "receipt")
    BY <1>1, <1>3, FilesAtStep DEF Seal
  <2>2. /\ dir' \in Files /\ DirOK' /\ dir'.contract = dir.contract
        /\ dir'.receipts = dir.receipts /\ dir'.sealed = job[p].contract
    BY <1>1, <2>1, SealWritten
  <2>3. \A j \in Jobs : /\ j.pc = "receipt" /\ j.contract = job[p].contract /\ j.seq = job[p].seq
                        /\ j.prev = job[p].prev /\ j.blocked = job[p].blocked
                        => JobOK(j)'
    BY <1>1, <1>2, <2>2 DEF JobOK, Knows, StageOf, Present
  <2>4. IInv' /\ job'[p].pc = "receipt" /\ UNCHANGED holder
    BY <1>2, <2>1, <2>2, <2>3, GoKeeps DEF Active, Running
  <2> QED
    BY <1>1, <1>2, <2>4, UnderLease
<1>4. CASE ~Pending(p)
  <2>1. UNCHANGED dir /\ Leave(p)
    BY <1>4 DEF Seal
  <2>2. dir' \in Files /\ DirOK'
    BY <2>1, SameDir
  <2> QED
    BY <1>1, <1>2, <2>1, <2>2, LeaveKeeps, UnderLease
<1> QED
  BY <1>3, <1>4

\* The output is there when the receipt of stage 7 is written.
LEMMA SealedBefore ==
  ASSUME IInv, NEW p \in Procs, AtReceipt(p)
  PROVE  /\ job[p].pc \in {"work", "receipt"}
         /\ job[p].seq = SealStage /\ Sealing(dir.contract) => dir.sealed = dir.contract
<1>1. job[p].pc \in {"work", "receipt"}
  BY DEF AtReceipt, At
<1>2. CASE job[p].pc = "receipt"
  <2>1. JobOK(job[p]) /\ dir.contract = job[p].contract
    BY <1>2, AtStage DEF IInv
  <2> QED
    BY <1>2, <2>1 DEF JobOK
<1>3. CASE job[p].pc = "work" /\ ~AtSeal(p)
  <2>1. job[p].blocked = IF BlockedAt[dir.contract] < job[p].seq THEN BlockedAt[dir.contract] ELSE 0
    BY <1>3, AtStage
  <2> QED
    BY <1>3, <2>1 DEF AtSeal, At, Sealing, SealStage
<1> QED
  BY <1>1, <1>2, <1>3 DEF AtReceipt, At

LEMMA WriteReceiptKeeps ==
  ASSUME IInv, NEW p \in Procs, WriteReceipt(p)
  PROVE  IInv' /\ WritesUnderLease
<1>1. PICK n : n = job[p].seq
  OBVIOUS
<1>2. PICK r : r = NewReceipt(p)
  OBVIOUS
<1>3. /\ AtReceipt(p) /\ job[p].pc \in {"work", "receipt"} /\ UNCHANGED mishaps
      /\ n = SealStage /\ Sealing(dir.contract) => dir.sealed = dir.contract
  BY <1>1, SealedBefore DEF WriteReceipt
<1>4. working[p] /\ mishaps' \in 0..MaxMishaps
  BY <1>3, AtStage, BoundedMishap
<1>5. CASE Pending(p)
  <2>1. /\ dir.receipts[n] = Absent /\ Advance(p, r)
        /\ dir' = [dir EXCEPT !.receipts = [dir.receipts EXCEPT ![n] = r]]
    BY <1>1, <1>2, <1>3, <1>5, FilesAtStep DEF WriteReceipt
  <2>2. r \in Receipts /\ r \notin {Absent, Torn}
    BY <1>2, <1>3, NewReceiptIsReceipt
  <2>3. /\ dir' \in Files /\ DirOK' /\ dir'.contract = dir.contract
        /\ dir'.receipts[n] = r /\ \A i \in Stages : i # n => dir'.receipts[i] = dir.receipts[i]
    BY <1>1, <1>2, <1>3, <2>1, ReceiptWritten
  <2> QED
    BY <1>1, <1>3, <2>1, <2>2, <2>3, AdvanceKeeps
<1>6. CASE ~Pending(p)
  <2>1. UNCHANGED dir /\ Leave(p)
    BY <1>6 DEF WriteReceipt
  <2>2. dir' \in Files /\ DirOK'
    BY <2>1, SameDir
  <2> QED
    BY <1>3, <1>4, <2>1, <2>2, LeaveKeeps, UnderLease
<1> QED
  BY <1>5, <1>6

LEMMA WriteReportKeeps ==
  ASSUME IInv, NEW p \in Procs, WriteReport(p)
  PROVE  IInv' /\ WritesUnderLease
<1>1. At(p, "report") /\ job[p].pc = "report" /\ UNCHANGED mishaps
  BY DEF WriteReport, At
<1>2. /\ working[p] /\ JobOK(job[p]) /\ Knows(job[p]) /\ mishaps' \in 0..MaxMishaps
      /\ job[p].seq = 10
  BY <1>1, AtReport, BoundedMishap DEF IInv, JobOK
<1>3. PICK r : r = NewReport(p)
  OBVIOUS
<1>4. r = [blocked |-> job[p].blocked, last |-> job[p].prev]
  BY <1>3 DEF NewReport
<1>5. ASSUME dir' \in Files, DirOK', dir'.contract = dir.contract,
             dir'.receipts = dir.receipts, dir'.report = r, Go(p, "check")
      PROVE  IInv' /\ WritesUnderLease
  <2>1. \A j \in Jobs : /\ j.pc = "check" /\ j.contract = job[p].contract /\ j.seq = job[p].seq
                        /\ j.prev = job[p].prev /\ j.blocked = job[p].blocked
                        => JobOK(j)'
    BY <1>1, <1>2, <1>4, <1>5 DEF JobOK, Knows, StageOf, Present
  <2>2. IInv' /\ job'[p].pc = "check" /\ UNCHANGED holder
    BY <1>2, <1>5, <2>1, GoKeeps DEF Active, Running
  <2> QED
    BY <1>1, <1>2, <2>2, UnderLease
<1>6. CASE Pending(p)
  <2>1. dir' = [dir EXCEPT !.report = r] /\ Go(p, "check")
    BY <1>1, <1>3, <1>6, FilesAtStep DEF WriteReport
  <2>2. /\ dir' \in Files /\ DirOK' /\ dir'.contract = dir.contract
        /\ dir'.receipts = dir.receipts /\ dir'.report = r
    BY <1>1, <1>3, <2>1, ReportWritten
  <2> QED
    BY <1>5, <2>1, <2>2
<1>7. CASE ~Pending(p)
  <2>1. UNCHANGED dir /\ IF dir.report = r THEN Go(p, "check") ELSE Leave(p)
    BY <1>3, <1>7 DEF WriteReport
  <2>2. dir' \in Files /\ DirOK'
    BY <2>1, SameDir
  <2>3. CASE dir.report = r
    BY <1>5, <2>1, <2>2, <2>3
  <2>4. CASE dir.report # r
    BY <1>1, <1>2, <2>1, <2>2, <2>4, LeaveKeeps, UnderLease
  <2> QED
    BY <2>3, <2>4
<1> QED
  BY <1>6, <1>7

LEMMA CheckKeeps ==
  ASSUME IInv, NEW p \in Procs, Check(p)
  PROVE  IInv' /\ UNCHANGED dir
<1>1. Leave(p) /\ UNCHANGED <<dir, mishaps>>
  BY DEF Check
<1> QED
  BY <1>1, SameDir, BoundedMishap, LeaveKeeps

LEMMA CutShortKeeps ==
  ASSUME IInv, NEW p \in Procs, CutShort(p)
  PROVE  IInv' /\ WritesUnderLease
<1>1. Pending(p) /\ dir' = Written(p, Torn) /\ Leave(p) /\ mishaps' \in 0..MaxMishaps
  BY BoundedMishap DEF CutShort
<1>2. At(p, "contract") \/ At(p, "report") \/ AtReceipt(p) \/ AtSeal(p)
  BY <1>1, FilesAtStep
<1>3. working[p] /\ job[p].pc # "release"
  BY <1>2 DEF IInv, LeaseOK, At, AtReceipt, AtSeal, Active, Running
<1>4. CASE At(p, "contract")
  <2>1. dir' = [dir EXCEPT !.contract = Torn] /\ dir.contract = Bare
    BY <1>1, <1>4, FilesAtStep
  <2> QED
    BY <1>1, <1>3, <2>1, ContractWritten, ContractsAssumption, LeaveKeeps, UnderLease
<1>5. CASE At(p, "report")
  <2>1. dir' = [dir EXCEPT !.report = Torn] /\ job[p].pc = "report"
    BY <1>1, <1>5, FilesAtStep DEF At
  <2> QED
    BY <1>1, <1>3, <2>1, ReportWritten, LeaveKeeps, UnderLease
<1>6. CASE AtReceipt(p)
  <2>1. PICK n : n = job[p].seq
    OBVIOUS
  <2>2. /\ dir.receipts[n] = Absent
        /\ dir' = [dir EXCEPT !.receipts = [dir.receipts EXCEPT ![n] = Torn]]
    BY <1>1, <1>6, <2>1, FilesAtStep
  <2>3. /\ job[p].pc \in {"work", "receipt"}
        /\ n = SealStage /\ Sealing(dir.contract) => dir.sealed = dir.contract
    BY <1>6, <2>1, SealedBefore
  <2>4. dir' \in Files /\ DirOK'
    BY <2>1, <2>2, <2>3, ReceiptWritten
  <2> QED
    BY <1>1, <1>3, <2>4, LeaveKeeps, UnderLease
<1>7. CASE AtSeal(p)
  <2>1. /\ dir' = [dir EXCEPT !.sealed = Torn] /\ job[p].pc = "work"
        /\ job[p].seq = SealStage /\ job[p].blocked = 0 /\ dir.receipts[SealStage] = Absent
    BY <1>1, <1>7, FilesAtStep DEF AtSeal, At
  <2> QED
    BY <1>1, <1>3, <2>1, SealWritten, LeaveKeeps, UnderLease
<1> QED
  BY <1>2, <1>4, <1>5, <1>6, <1>7

-----------------------------------------------------------------------------
(* The theorems. *)

LEMMA StepKeeps ==
  ASSUME IInv, NEW p \in Procs, Step(p)
  PROVE  IInv' /\ WritesUnderLease
<1>1. CASE GetLease(p) \/ Refused(p) \/ Release(p) \/ Reopen(p) \/ Beat(p) \/ ReadReceipt(p) \/ Check(p)
  <2>1. IInv' /\ UNCHANGED dir
    BY <1>1, GetLeaseKeeps, EndKeeps, ReopenKeeps, BeatKeeps, ReadReceiptKeeps, CheckKeeps
  <2> QED
    BY <2>1 DEF WritesUnderLease
<1>2. CASE MakeDirectory(p) \/ WriteContract(p) \/ Seal(p) \/ WriteReceipt(p) \/ WriteReport(p)
  BY <1>2, MakeDirectoryKeeps, WriteContractKeeps, SealKeeps, WriteReceiptKeeps, WriteReportKeeps
<1> QED
  BY <1>1, <1>2, Zenon DEF Step

LEMMA NextKeeps ==
  ASSUME IInv, [Next]_vars
  PROVE  IInv' /\ WritesUnderLease
<1>1. ASSUME NEW p \in Procs, NEW c \in Contracts, Call(p, c)
      PROVE  IInv' /\ WritesUnderLease
  <2>1. UNCHANGED dir
    BY <1>1 DEF Call
  <2> QED
    BY <1>1, <2>1, CallKeeps DEF WritesUnderLease
<1>2. ASSUME NEW p \in Procs, GetLeaseAndRaise(p) \/ Crash(p)
      PROVE  IInv' /\ WritesUnderLease
  <2>1. IInv' /\ UNCHANGED dir
    BY <1>2, GetLeaseKeeps, EndKeeps
  <2> QED
    BY <2>1 DEF WritesUnderLease
<1>3. CASE RunOut
  <2>1. IInv' /\ UNCHANGED dir
    BY <1>3, RunOutKeeps
  <2> QED
    BY <2>1 DEF WritesUnderLease
<1>4. CASE UNCHANGED vars
  <2>1. UNCHANGED <<holder, fresh, working, dir, job, mishaps>>
    BY <1>4 DEF vars
  <2>2. Types' /\ LeaseOK' /\ DirOK'
    BY <2>1, SameDir DEF IInv, Types, LeaseOK
  <2>3. \A q \in Procs : JobOK(job[q])'
    BY <2>1 DEF IInv, JobOK, Knows, StageOf, Present
  <2> QED
    BY <2>1, <2>2, <2>3 DEF IInv, WritesUnderLease
<1> QED
  BY <1>1, <1>2, <1>3, <1>4, StepKeeps, CutShortKeeps, Zenon DEF Next

\* What IInv says of the files and of every process holds of every run: whoever
\* works holds the lease, and knows of the files what the code read or wrote.
THEOREM Invariance == Spec => []IInv
<1>1. IInv /\ [Next]_vars => IInv'
  BY NextKeeps
<1> QED
  BY InitIInv, <1>1, PTL DEF Spec

LEMMA TypesGiveTypeOK == IInv => TypeOK
<1> SUFFICES ASSUME IInv PROVE TypeOK
  OBVIOUS
<1>1. Types
  BY DEF IInv
<1>2. job \in [Procs -> [pc : {"gone", "lease", "open", "contract", "beat", "work", "receipt",
                               "report", "check", "release"},
                         contract : Contracts, seq : Stages, prev : Procs \cup {NoProc},
                         blocked : {0} \cup Stages]]
  BY <1>1 DEF Types, Jobs
<1>3. /\ dir.contract \in Contracts \cup {Absent, Bare, Torn}
      /\ dir.receipts \in [Stages -> Receipts \cup {Absent, Torn}]
      /\ dir.sealed \in Contracts \cup {Absent, Torn}
      /\ dir.report \in Reports \cup {Absent, Torn}
  BY <1>1 DEF Types, Files
<1> QED
  BY <1>1, <1>2, <1>3 DEF TypeOK, Types

\* The lease, the files of the run and the calls of every process stay of their
\* types (run_daily_dry_run, RecoveryLease).
THEOREM TypeCorrectness == Spec => []TypeOK
BY Invariance, TypesGiveTypeOK, PTL

LEMMA FilesAreAPrefix == IInv => DirectoryIsAPrefix
<1> SUFFICES ASSUME IInv PROVE DirectoryIsAPrefix
  OBVIOUS
<1>1. dir \in Files /\ DirOK
  BY DEF IInv, Types
<1>2. CASE dir.contract \notin Contracts
  <2>1. NothingYet
    BY <1>1, <1>2 DEF DirOK
  <2>2. dir.receipts = [i \in Stages |-> Absent]
    BY <1>1, <2>1 DEF Files, NothingYet
  <2>3. dir = [contract |-> dir.contract, receipts |-> [i \in Stages |-> Absent],
               sealed |-> Absent, report |-> Absent]
    BY <1>1, <2>1, <2>2 DEF Files, NothingYet
  <2>4. dir = [NoFiles EXCEPT !.contract = dir.contract]
    BY <2>3 DEF NoFiles
  <2> QED
    BY <1>2, <2>4 DEF DirectoryIsAPrefix
<1>3. CASE dir.contract \in Contracts
  <2>1. RunOf(dir.contract)
    BY <1>1, <1>3 DEF DirOK
  <2>2. \A i \in Stages \ {1} : dir.receipts[i] # Absent => dir.receipts[i - 1] \notin {Absent, Torn}
    <3> SUFFICES ASSUME NEW i \in Stages \ {1}, dir.receipts[i] # Absent
                 PROVE  dir.receipts[i - 1] \notin {Absent, Torn}
      OBVIOUS
    <3>1. i - 1 \in Stages /\ i - 1 < i
      BY DEF Stages
    <3>2. Present(i - 1)
      BY <2>1, <3>1 DEF RunOf
    <3> QED
      BY <3>2 DEF Present
  <2> QED
    BY <1>3, <2>1, <2>2 DEF DirectoryIsAPrefix, RunOf, Present
<1> QED
  BY <1>2, <1>3

\* Through interruptions, resumptions and torn writes of run_daily_dry_run, the
\* directory holds an initial part of the files of one run of its contract.
THEOREM OneRun == Spec => []DirectoryIsAPrefix
BY Invariance, FilesAreAPrefix, PTL

LEMMA ReportedIsValid == IInv => ReportStaysValid
<1> SUFFICES ASSUME IInv, dir.report \notin {Absent, Torn} PROVE Validates
  BY DEF ReportStaysValid
<1>1. dir \in Files /\ DirOK
  BY DEF IInv, Types
<1>2. dir.contract \in Contracts
  BY <1>1 DEF DirOK, NothingYet
<1>3. PICK c : c = dir.contract
  OBVIOUS
<1>4. c \in Contracts /\ RunOf(c) /\ BlockedAt[c] \in {0} \cup 2..6
  BY <1>1, <1>2, <1>3, ContractsAssumption DEF DirOK
<1>5. PICK b : b = BlockedAt[c]
  OBVIOUS
<1>6. dir.report \in Reports /\ dir.report = [blocked |-> b, last |-> dir.receipts[10].by]
  BY <1>1, <1>4, <1>5 DEF Files, RunOf
<1>7. \A i \in Stages : Present(i) /\ dir.receipts[i] \in Receipts
  <2>1. Present(10) /\ 10 \in Stages
    BY <1>4 DEF RunOf, Stages
  <2>2. \A i \in Stages : i = 10 \/ i < 10
    BY DEF Stages
  <2>3. \A i \in Stages : Present(i)
    BY <1>4, <2>1, <2>2 DEF RunOf, Present
  <2> QED
    BY <1>1, <2>3 DEF Files, Present
<1>8. \A i \in Stages :
        /\ dir.receipts[i].prev = IF i = 1 THEN NoProc ELSE dir.receipts[i - 1].by
        /\ dir.receipts[i].status = StageResult(c, IF b < i THEN b ELSE 0, i)
  BY <1>4, <1>5, <1>7 DEF RunOf, Chained, Present
<1>9. \A i \in Stages : dir.receipts[i].status =
        IF (b # 0 /\ b < i) \/ i \in {9, 10} THEN "SKIPPED" ELSE IF i = b THEN "BLOCKED" ELSE "PASS"
  <2> SUFFICES ASSUME NEW i \in Stages
               PROVE  StageResult(c, IF b < i THEN b ELSE 0, i) =
                        IF (b # 0 /\ b < i) \/ i \in {9, 10} THEN "SKIPPED"
                        ELSE IF i = b THEN "BLOCKED" ELSE "PASS"
    BY <1>8
  <2>1. CASE b # 0 /\ b < i
    BY <2>1 DEF StageResult
  <2>2. CASE ~(b # 0 /\ b < i) /\ i \in {9, 10}
    BY <1>4, <1>5, <2>2 DEF StageResult
  <2>3. CASE ~(b # 0 /\ b < i) /\ i \notin {9, 10}
    BY <1>5, <2>3 DEF StageResult
  <2> QED
    BY <2>1, <2>2, <2>3
<1>10. \A i, k \in Stages :
         i < k /\ dir.receipts[i].status = "BLOCKED" => dir.receipts[k].status = "SKIPPED"
  BY <1>4, <1>5, <1>9 DEF Stages
<1>11. IF \E i \in Stages : dir.receipts[i].status = "BLOCKED"
       THEN dir.report.blocked # 0 /\ dir.receipts[dir.report.blocked].status = "BLOCKED"
       ELSE dir.report.blocked = 0
  <2>1. dir.report.blocked = b
    BY <1>6
  <2>2. CASE b = 0
    <3>1. \A i \in Stages : dir.receipts[i].status # "BLOCKED"
      BY <1>9, <2>2 DEF Stages
    <3> QED
      BY <2>1, <2>2, <3>1
  <2>3. CASE b # 0
    <3>1. b \in Stages /\ dir.receipts[b].status = "BLOCKED"
      BY <1>4, <1>5, <1>9, <2>3 DEF Stages
    <3> QED
      BY <2>1, <2>3, <3>1
  <2> QED
    BY <2>2, <2>3
<1>12. IF Passed(SealStage) THEN Passed(6) /\ dir.sealed = dir.contract ELSE dir.sealed = Absent
  <2>1. Passed(SealStage) <=> b = 0
    BY <1>4, <1>5, <1>7, <1>9 DEF Passed, Present, SealStage, Stages
  <2>2. dir.receipts[SealStage] # Absent /\ (Sealing(c) <=> b = 0)
    BY <1>5, <1>7 DEF Present, SealStage, Stages, Sealing
  <2>3. b = 0 => dir.sealed = c /\ dir.sealed # Absent
    BY <1>4, <2>2, ContractsAssumption DEF RunOf
  <2>4. dir.sealed # Absent => b = 0 /\ Passed(6)
    BY <1>4, <2>2 DEF RunOf
  <2> QED
    BY <1>3, <2>1, <2>3, <2>4
<1> QED
  <2>1. dir.report.last = dir.receipts[10].by
    BY <1>6
  <2> QED
    BY <1>2, <1>6, <1>7, <1>8, <1>10, <1>11, <1>12, <2>1 DEF Validates

\* Once run_daily_dry_run has written the report, validate_live_dry_run accepts
\* the directory, whatever calls follow.
THEOREM ReportsLast == Spec => []ReportStaysValid
BY Invariance, ReportedIsValid, PTL

\* Only the process that holds the lease, and was told so, makes or writes a file
\* of the run, also when a stage outlasts the lease.
THEOREM HolderWrites == Spec => OnlyTheHolderWrites
<1>1. IInv /\ [Next]_vars =>
        [dir' # dir => holder \in Procs /\ working[holder] /\ job[holder]' # job[holder]]_vars
  BY NextKeeps DEF WritesUnderLease
<1> QED
  BY Invariance, <1>1, PTL DEF Spec, OnlyTheHolderWrites

-----------------------------------------------------------------------------
(* The lease, as the calls use it. *)

\* Who renews the lease has it, and who releases it works no more.
AsAllowed ==
  \A p \in Procs :
    /\ At(p, "beat") => holder = p /\ working[p]
    /\ At(p, "release") => ~working[p]

\* What a call does to the lease is a step of LeaseService, or nothing.
LEMMA UsesLease == [Next]_vars => Lease!Next \/ UNCHANGED Lease!lease
<1> SUFFICES ASSUME [Next]_vars PROVE Lease!Next \/ UNCHANGED lease
  BY DEF lease, Lease!lease
<1> DEFINE Goal == Lease!Next \/ UNCHANGED lease
<1>1. ASSUME NEW p \in Procs, Leave(p) \/ Crash(p) PROVE Goal
  BY <1>1 DEF Leave, Crash, Lease!Next
<1>2. ASSUME NEW p \in Procs, GetLease(p) \/ GetLeaseAndRaise(p) PROVE Goal
  BY <1>2 DEF GetLease, GetLeaseAndRaise, Takes, Lease!Next
<1>3. ASSUME NEW p \in Procs, Beat(p) \/ Release(p) PROVE Goal
  BY <1>1, <1>3 DEF Beat, Release, Lease!Next
<1>4. ASSUME NEW p \in Procs, NEW r, Advance(p, r) PROVE Goal
  BY <1>1, <1>4 DEF Advance
<1>5. ASSUME NEW p \in Procs,
             \/ Refused(p) \/ MakeDirectory(p) \/ WriteContract(p) \/ Reopen(p) \/ ReadReceipt(p)
             \/ Seal(p) \/ WriteReceipt(p) \/ WriteReport(p) \/ Check(p) \/ CutShort(p)
      PROVE  Goal
  BY <1>1, <1>4, <1>5 DEF Refused, MakeDirectory, WriteContract, Reopen, ReadReceipt, Seal, WriteReceipt,
     WriteReport, Check, CutShort, Go
<1>6. ASSUME NEW p \in Procs, NEW c \in Contracts, Call(p, c) PROVE Goal
  BY <1>6 DEF Call
<1>7. CASE RunOut
  BY <1>7 DEF RunOut, Lease!Next
<1>8. CASE UNCHANGED vars
  BY <1>8 DEF vars, lease
<1>9. ASSUME NEW p \in Procs, Step(p) PROVE Goal
  BY <1>2, <1>3, <1>5, <1>9, Zenon DEF Step
<1>10. Next => Goal
  BY <1>1, <1>2, <1>5, <1>6, <1>7, <1>9, Zenon DEF Next
<1> QED
  BY <1>8, <1>10

\* run_daily_dry_run uses the lease as a client of LeaseService does: it takes no
\* other steps, and at no call of heartbeat or release does the guard of the
\* service stand in its way.  RecoveryLease implements that service.
THEOREM LeaseIsUsed == Spec => Lease!Spec /\ []AsAllowed
<1>1. Init => Lease!Init
  BY DEF Init
<1>2. [Next]_vars => [Lease!Next]_(Lease!lease)
  BY UsesLease
<1>3. IInv => AsAllowed
  BY DEF IInv, LeaseOK, AsAllowed, At, Active, Running
<1> QED
  BY <1>1, <1>2, <1>3, Invariance, PTL DEF Spec, Lease!Spec

=============================================================================
