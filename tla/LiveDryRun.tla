----------------------------- MODULE LiveDryRun -----------------------------
(***************************************************************************)
(* One daily dry run (src/src/kubo/live_dry_run.py): ten stages in order,  *)
(* a receipt file per stage chained to the one before, a sealed output     *)
(* written in stage 7, a report at the end.  Every file is created         *)
(* exclusively and never replaced, so a run that was interrupted is        *)
(* resumed from what it left, by any process that makes the same call.     *)
(* The processes exclude each other by a recovery lease, of which this     *)
(* module assumes what LeaseService states and RecoveryLease implements.   *)
(***************************************************************************)
EXTENDS Naturals

CONSTANTS
  Procs,       \* processes; one that has ended may be started again
  NoProc,
  Contracts,   \* what a call binds: the inputs and the verdicts on them
  BlockedAt,   \* the first stage, 2 to 6, that a contract blocks; 0: none
  Absent,      \* no such file
  Bare,        \* the directory is there, its contract is not
  Torn,        \* a file that was not written to its end
  MaxMishaps   \* bound: crashes, failed writes, late stages, stray calls

ASSUME ContractsAssumption ==
  /\ BlockedAt \in [Contracts -> {0} \cup 2..6]
  /\ {Absent, Bare, Torn} \cap Contracts = {}
  /\ NoProc \notin Procs

VARIABLES
  holder, fresh, working,   \* the lease: see LeaseService
  dir,                      \* the directory of the run
  job,                      \* job[p]: how far the call of p has come
  mishaps

lease == <<holder, fresh, working>>
vars == <<holder, fresh, working, dir, job, mishaps>>

Lease == INSTANCE LeaseService

Stages == 1..10
SealStage == 7

\* A receipt is known by who wrote it, its time of writing standing in its
\* hash, and names the one before.
Receipts == [status : {"PASS", "BLOCKED", "SKIPPED"}, by : Procs,
             prev : Procs \cup {NoProc}]
Reports == [blocked : {0} \cup Stages, last : Procs]

ASSUME BoundAssumption == MaxMishaps \in Nat

\* No file, a torn one and a directory without a contract are told apart, and
\* from everything that is read from a whole file.
ASSUME FilesAssumption ==
  /\ Absent # Bare /\ Absent # Torn /\ Bare # Torn
  /\ {Absent, Torn} \cap (Receipts \cup Reports) = {}

\* Mutant: one stage too many.
OneMore(i) == i + 1

NextStage(i) == IF i = 10 THEN 10 ELSE i + 1

StageResult(c, blocked, i) ==
  CASE blocked # 0 \/ i \in {9, 10} -> "SKIPPED"
    [] blocked = 0 /\ i = BlockedAt[c] -> "BLOCKED"
    [] OTHER -> "PASS"

NoFiles == [contract |-> Absent, receipts |-> [i \in Stages |-> Absent],
            sealed |-> Absent, report |-> Absent]

\* A call before it has opened the directory.
Called(c) == [pc |-> "lease", contract |-> c, seq |-> 1, prev |-> NoProc, blocked |-> 0]
Gone(j) == [Called(j.contract) EXCEPT !.pc = "gone"]

Init ==
  /\ Lease!Init
  /\ dir = NoFiles
  /\ job \in [Procs -> {Gone(Called(c)) : c \in Contracts}]
  /\ \A p, q \in Procs : job[p] = job[q]
  /\ mishaps = 0

At(p, pc) == job[p].pc = pc
Go(p, pc) == job' = [job EXCEPT ![p].pc = pc] /\ UNCHANGED lease

\* The body of the try statement is left, by a return or by an exception.
Leave(p) == job' = [job EXCEPT ![p].pc = "release"] /\ Lease!Stop(p)

Mishap == mishaps < MaxMishaps /\ mishaps' = mishaps + 1

\* The directory as p leaves it when it writes content to its next file, and
\* whether that file is still to be made: O_EXCL refuses one that exists.
AtSeal(p) == At(p, "work") /\ job[p].seq = SealStage /\ job[p].blocked = 0
AtReceipt(p) == At(p, "receipt") \/ (At(p, "work") /\ ~AtSeal(p))
Pending(p) ==
  CASE At(p, "contract") -> dir.contract = Bare
    [] AtReceipt(p) -> dir.receipts[job[p].seq] = Absent
    [] AtSeal(p) -> dir.receipts[job[p].seq] = Absent /\ dir.sealed = Absent
    [] At(p, "report") -> dir.report = Absent
    [] OTHER -> FALSE
Written(p, content) ==
  CASE At(p, "contract") -> [dir EXCEPT !.contract = content]
    [] AtReceipt(p) -> [dir EXCEPT !.receipts = [@ EXCEPT ![job[p].seq] = content]]
    [] AtSeal(p) -> [dir EXCEPT !.sealed = content]
    [] At(p, "report") -> [dir EXCEPT !.report = content]

\* Inputs are validated and the contract is made before the lease is asked for.
\* The verdict on the same inputs may be another one later: a probe expires.
Call(p, c) ==
  /\ At(p, "gone") /\ holder # p
  /\ job' = [job EXCEPT ![p] = Called(c)]
  /\ IF dir.contract \in {Absent, c} THEN UNCHANGED mishaps ELSE Mishap
  /\ UNCHANGED <<lease, dir>>

\* A lease that ran out is taken over from a run that has ended, if the caller
\* brought a probe of active runs.
Takes(p, told) ==
  /\ At(p, "lease")
  /\ Lease!Acquire(p, told) /\ fresh'
  /\ UNCHANGED dir

GetLease(p) ==
  /\ Takes(p, TRUE)
  /\ job' = [job EXCEPT ![p].pc = "open"]
  /\ UNCHANGED mishaps

\* The lease file is in place, and then its directory cannot be synchronised.
GetLeaseAndRaise(p) ==
  /\ Takes(p, FALSE)
  /\ job' = [job EXCEPT ![p] = Gone(@)]
  /\ Mishap

\* The lease is held, or ran out and no probe says that its holder has ended.
Refused(p) ==
  /\ At(p, "lease") /\ holder # NoProc
  /\ job' = [job EXCEPT ![p] = Gone(@)]
  /\ UNCHANGED <<lease, dir, mishaps>>

MakeDirectory(p) ==
  /\ At(p, "open") /\ dir.contract = Absent
  /\ dir' = [dir EXCEPT !.contract = Bare]
  /\ Go(p, "contract")
  /\ UNCHANGED mishaps

WriteContract(p) ==
  /\ At(p, "contract")
  /\ IF Pending(p)
     THEN dir' = Written(p, job[p].contract) /\ Go(p, "beat")
     ELSE UNCHANGED dir /\ Leave(p)
  /\ UNCHANGED mishaps

\* Mutant: a directory that has a contract is good enough.
AnyContract(p) == dir.contract \in Contracts

SameContract(p) == dir.contract = job[p].contract

Reopen(p) ==
  /\ At(p, "open") /\ dir.contract # Absent
  /\ IF SameContract(p) THEN Go(p, "beat") ELSE Leave(p)
  /\ UNCHANGED <<dir, mishaps>>

\* The lease is renewed at the head of every stage, unless it has run out.
Beat(p) ==
  /\ At(p, "beat")
  /\ IF fresh
     THEN Lease!Heartbeat(p) /\ fresh' /\ job' = [job EXCEPT ![p].pc = "work"]
     ELSE Leave(p)
  /\ UNCHANGED <<dir, mishaps>>

\* Mutant: a receipt must be of the writer of the one before.
ValidatedOneWriter(r, prev) ==
  r # Torn /\ r.prev = prev /\ (prev # NoProc => r.by = prev)

Validated(r, prev) == r # Torn /\ r.prev = prev

\* The end of a pass of the loop, after receipt r was read or written.
Advance(p, r) ==
  LET j == job[p]
      blocked == IF r.status = "BLOCKED" /\ j.blocked = 0 THEN j.seq ELSE j.blocked
  IN IF r.status = "SKIPPED" /\ j.seq < 9 /\ j.blocked = 0
     THEN Leave(p)
     ELSE /\ job' = [job EXCEPT ![p] =
               [pc |-> IF j.seq = 10 THEN "report" ELSE "beat", contract |-> j.contract,
                seq |-> NextStage(j.seq), prev |-> r.by, blocked |-> blocked]]
          /\ UNCHANGED lease

ReadReceipt(p) ==
  /\ At(p, "work") /\ dir.receipts[job[p].seq] # Absent
  /\ IF Validated(dir.receipts[job[p].seq], job[p].prev)
     THEN Advance(p, dir.receipts[job[p].seq])
     ELSE Leave(p)
  /\ UNCHANGED <<dir, mishaps>>

\* Stage 7 writes its output before its receipt; an output without a receipt
\* stays in the way of every later call.
Seal(p) ==
  /\ AtSeal(p) /\ dir.receipts[job[p].seq] = Absent
  /\ IF Pending(p)
     THEN dir' = Written(p, job[p].contract) /\ Go(p, "receipt")
     ELSE UNCHANGED dir /\ Leave(p)
  /\ UNCHANGED mishaps

NewReceipt(p) == [status |-> StageResult(job[p].contract, job[p].blocked, job[p].seq),
                  by |-> p, prev |-> job[p].prev]

WriteReceipt(p) ==
  /\ AtReceipt(p) /\ (At(p, "work") => dir.receipts[job[p].seq] = Absent)
  /\ IF Pending(p)
     THEN dir' = Written(p, NewReceipt(p)) /\ Advance(p, NewReceipt(p))
     ELSE UNCHANGED dir /\ Leave(p)
  /\ UNCHANGED mishaps

\* Mutant: the report forgets which stage was blocked.
ReportUnblocked(p) == [blocked |-> 0, last |-> job[p].prev]

NewReport(p) == [blocked |-> job[p].blocked, last |-> job[p].prev]

WriteReport(p) ==
  /\ At(p, "report")
  /\ IF Pending(p)
     THEN dir' = Written(p, NewReport(p)) /\ Go(p, "check")
     ELSE /\ UNCHANGED dir
          /\ IF dir.report = NewReport(p) THEN Go(p, "check") ELSE Leave(p)
  /\ UNCHANGED mishaps

\* validate_live_dry_run returns or raises: either way the lease is released.
Check(p) ==
  /\ At(p, "check")
  /\ Leave(p)
  /\ UNCHANGED <<dir, mishaps>>

\* A write fails half way.
CutShort(p) ==
  /\ Pending(p)
  /\ dir' = Written(p, Torn)
  /\ Leave(p)
  /\ Mishap

\* The finally clause; a lease that someone took meanwhile is left alone.
Release(p) ==
  /\ At(p, "release")
  /\ IF holder = p THEN Lease!Release(p) ELSE UNCHANGED lease
  /\ job' = [job EXCEPT ![p] = Gone(@)]
  /\ UNCHANGED <<dir, mishaps>>

Crash(p) ==
  /\ ~At(p, "gone")
  /\ Lease!Stop(p)
  /\ job' = [job EXCEPT ![p] = Gone(@)]
  /\ Mishap
  /\ UNCHANGED dir

\* The lease runs out, under a stage that takes too long or after its holder.
RunOut ==
  /\ Lease!Expire
  /\ IF working[holder] THEN Mishap ELSE UNCHANGED mishaps
  /\ UNCHANGED <<dir, job>>

Step(p) ==
  \/ GetLease(p) \/ Refused(p)
  \/ MakeDirectory(p) \/ WriteContract(p) \/ Reopen(p)
  \/ Beat(p) \/ ReadReceipt(p) \/ Seal(p) \/ WriteReceipt(p)
  \/ WriteReport(p) \/ Check(p) \/ Release(p)

Next ==
  \/ \E p \in Procs :
       \/ \E c \in Contracts : Call(p, c)
       \/ Step(p) \/ GetLeaseAndRaise(p) \/ CutShort(p) \/ Crash(p)
  \/ RunOut

Spec == Init /\ [][Next]_vars

Retry == dir.contract \in Contracts /\ \E p \in Procs : Call(p, dir.contract)

\* A process that runs goes on; leases run out; somebody repeats the call of
\* the run, with a probe, and not only when the lease happens to be held.
FairSpec ==
  /\ Spec
  /\ WF_vars(RunOut)
  /\ WF_vars(Retry)
  /\ SF_vars(\E p \in Procs : GetLease(p))
  /\ \A p \in Procs : WF_vars(Step(p))

-----------------------------------------------------------------------------
TypeOK ==
  /\ holder \in Procs \cup {NoProc} /\ fresh \in BOOLEAN
  /\ working \in [Procs -> BOOLEAN]
  /\ dir.contract \in Contracts \cup {Absent, Bare, Torn}
  /\ dir.receipts \in [Stages -> Receipts \cup {Absent, Torn}]
  /\ dir.sealed \in Contracts \cup {Absent, Torn}
  /\ dir.report \in Reports \cup {Absent, Torn}
  /\ job \in [Procs -> [pc : {"gone", "lease", "open", "contract", "beat", "work", "receipt",
                              "report", "check", "release"},
                        contract : Contracts, seq : Stages, prev : Procs \cup {NoProc},
                        blocked : {0} \cup Stages]]
  /\ mishaps \in 0..MaxMishaps

Passed(i) == dir.receipts[i] \notin {Absent, Torn} /\ dir.receipts[i].status = "PASS"
Sealing(c) == BlockedAt[c] = 0

\* The receipts bear the verdicts of contract c and name each other in order.
Chained(c) ==
  \A i \in Stages :
    dir.receipts[i] \notin {Absent, Torn} =>
      /\ dir.receipts[i].status =
           StageResult(c, IF BlockedAt[c] < i THEN BlockedAt[c] ELSE 0, i)
      /\ dir.receipts[i].prev = IF i = 1 THEN NoProc ELSE dir.receipts[i - 1].by

\* What validate_live_dry_run accepts.
Validates ==
  /\ dir.contract \in Contracts /\ dir.report \in Reports
  /\ \A i \in Stages : dir.receipts[i] \in Receipts
  /\ \A i \in Stages : dir.receipts[i].prev = IF i = 1 THEN NoProc ELSE dir.receipts[i - 1].by
  /\ \A i, k \in Stages :
       i < k /\ dir.receipts[i].status = "BLOCKED" => dir.receipts[k].status = "SKIPPED"
  /\ dir.report.last = dir.receipts[10].by
  /\ IF \E i \in Stages : dir.receipts[i].status = "BLOCKED"
     THEN dir.report.blocked # 0 /\ dir.receipts[dir.report.blocked].status = "BLOCKED"
     ELSE dir.report.blocked = 0
  /\ IF Passed(SealStage) THEN Passed(6) /\ dir.sealed = dir.contract ELSE dir.sealed = Absent

\* Whatever was interrupted and by whom it was resumed, the files are an initial
\* part of those of one run of one contract, and only the last one may be torn.
DirectoryIsAPrefix ==
  /\ dir.contract \notin Contracts => dir = [NoFiles EXCEPT !.contract = dir.contract]
  /\ dir.contract \in Contracts =>
       /\ \A i \in Stages \ {1} :
            dir.receipts[i] # Absent => dir.receipts[i - 1] \notin {Absent, Torn}
       /\ Chained(dir.contract)
       /\ dir.sealed # Absent => Sealing(dir.contract) /\ Passed(6)
       /\ dir.receipts[SealStage] # Absent /\ Sealing(dir.contract) => dir.sealed = dir.contract
       /\ dir.report # Absent => dir.receipts[10] \notin {Absent, Torn}

\* Once the report is written, validate_live_dry_run accepts the directory, and
\* no later call, whatever its inputs, changes that.
ReportStaysValid == dir.report \notin {Absent, Torn} => Validates

\* Only the process that holds the lease, and was told so, touches the run: also
\* when a stage outlasts the lease and another process waits to take it over.
OnlyTheHolderWrites ==
  [][dir' # dir => holder \in Procs /\ working[holder] /\ job[holder]' # job[holder]]_vars

\* What no call can mend: a torn file, or an output that was sealed without its receipt.
Cut ==
  /\ \A p \in Procs : ~working[p]
  /\ \/ Torn \in {dir.sealed, dir.report} \cup {dir.receipts[i] : i \in Stages}
     \/ dir.sealed # Absent /\ dir.receipts[SealStage] = Absent

\* A run whose contract was written is finished, through any crashes, takeovers
\* and refused calls, unless one of them cut a file or the sealing in two.
FinishedOrCut ==
  dir.contract \in Contracts ~> (dir.report \notin {Absent, Torn} \/ Cut)

=============================================================================
