------------------------- MODULE RecoveryController -------------------------
(***************************************************************************)
(* The recovery of failed pipeline runs: scripts/recovery_controller.py    *)
(* over the incidents of recovery.py.  A failed run of the market pipeline *)
(* uploads an incident; a pass of the controller reads the newest incident *)
(* of every fingerprint, reruns or resumes the pipeline, raises and closes *)
(* alerts and, as its very last step, uploads the incidents it changed.    *)
(*                                                                         *)
(* A fault stands for a fingerprint and its incident id.  Pipeline runs    *)
(* and passes share one GitHub concurrency group: nothing runs during a    *)
(* pass, but runs may be queued.  Artifacts are not outlived here: record  *)
(* is what _latest_incidents makes of every incident ever uploaded, with   *)
(* the newer artifact winning a tie.  retry_after is last_seen_at whenever *)
(* it is not null, so no field stands for it.                              *)
(***************************************************************************)
EXTENDS Naturals, FiniteSetsExt

CONSTANTS Faults,         \* numbered in the order of their incident ids
          ClassOf,        \* ClassOf[f]: the error class of f's fingerprint
          Runs,           \* ids of pipeline runs
          NoIncident,
          Window, Grace, Suppression,  \* policy: hours, seconds, hours; in ticks
          MaxTime,        \* bound: the clock
          MaxGranted  \* bound: attempts that GitHub grants, over all runs

NoFault == 0
Classes == {"transient", "missing_secret", "deterministic_code", "security"}

ASSUME FaultAssumption ==
  /\ Faults \subseteq Nat \ {NoFault} /\ ClassOf \in [Faults -> Classes]

ASSUME PolicyAssumption ==
  /\ Window \in Nat /\ Grace \in Nat /\ Suppression \in Nat
  /\ MaxTime \in Nat /\ MaxGranted \in Nat

VARIABLES
  clock,
  run,       \* GitHub's pipeline runs
  events,    \* completions of run attempts that may still be delivered, or again
  record,    \* record[f]: the newest uploaded incident of f
  receipts,  \* faults for which a resumed run uploaded a success receipt
  issue,     \* issue[f]: the GitHub issue of f
  pass       \* the controller pass under way

vars == <<clock, run, events, record, receipts, issue, pass>>

MaxAttempts == 2
NoTime == 0
Retriable(f) == ClassOf[f] = "transient"
AlertsAtOnce(f) == ClassOf[f] \in {"missing_secret", "security"}
Category(f) == IF Retriable(f) THEN "RETRY_SCHEDULED" ELSE "BLOCKED"

Outcomes == {"failed", "succeeded", "cancelled"}
RunRows == [state : {"unused", "queued", "running"} \cup Outcomes,
            attempt : Nat, resumes : Faults \cup {NoFault}]
Events == [run : Runs, attempt : Nat, outcome : Outcomes]
Incidents == [run : Runs, attempts : 0 .. MaxAttempts,
              status : {"RETRY_SCHEDULED", "BLOCKED", "EXHAUSTED", "RESOLVED"},
              first : Nat, last : Nat, alert : Nat]
Issues == [state : {"none", "open", "closed"}, updated : Nat]
Idle == [kind |-> "idle"]
Kinds == {"pipeline", "watchdog", "requested", "ci"}
Passes == [kind : Kinds, event : Events \cup {Idle}, todo : SUBSET Faults,
           out : [Faults -> Incidents \cup {NoIncident}],
           active : BOOLEAN, secret : BOOLEAN, fixed : SUBSET Faults]

ASSUME NoIncidentAssumption == NoIncident \notin Incidents

TypeOK ==
  /\ clock \in Nat
  /\ run \in [Runs -> RunRows] /\ events \subseteq Events
  /\ record \in [Faults -> Incidents \cup {NoIncident}]
  /\ receipts \subseteq Faults
  /\ issue \in [Faults -> Issues]
  /\ \/ pass = Idle
     \/ /\ pass.kind \in Kinds /\ pass.todo \subseteq Faults /\ pass.fixed \subseteq Faults
        /\ pass.event \in Events \cup {Idle}
        /\ pass.out \in [Faults -> Incidents \cup {NoIncident}]
        /\ pass.active \in BOOLEAN /\ pass.secret \in BOOLEAN

Init ==
  /\ clock = 1
  /\ run = [r \in Runs |-> [state |-> "unused", attempt |-> 0, resumes |-> NoFault]]
  /\ events = {}
  /\ record = [f \in Faults |-> NoIncident]
  /\ receipts = {}
  /\ issue = [f \in Faults |-> [state |-> "none", updated |-> NoTime]]
  /\ pass = Idle

-----------------------------------------------------------------------------
(* The pipeline workflow. *)

Known == {f \in Faults : record[f] # NoIncident}

GroupFree == pass = Idle /\ \A r \in Runs : run[r].state # "running"

\* _latest_incidents: the later last_seen_at wins, then the larger count, then
\* the artifact that was created later.
Newest(old, new) ==
  IF \/ old = NoIncident
     \/ new.last > old.last
     \/ new.last = old.last /\ new.attempts >= old.attempts
  THEN new ELSE old

StatusAt(f, attempts) ==
  IF Retriable(f) /\ attempts >= MaxAttempts THEN "EXHAUSTED" ELSE Category(f)

\* Mutant: the retries of earlier attempts are not recorded.
NewIncidentAfresh(f, r) ==
  [run |-> r, attempts |-> 0, status |-> StatusAt(f, 0),
   first |-> clock, last |-> clock, alert |-> NoTime]

\* create-incident: build_incident, then one recorded retry for every attempt
\* the run has already had.
NewIncident(f, r) ==
  LET attempts == IF Retriable(f) THEN run[r].attempt - 1 ELSE 0 IN
  [run |-> r, attempts |-> attempts, status |-> StatusAt(f, attempts),
   first |-> clock, last |-> clock, alert |-> NoTime]

\* The bound on attempts.
Granted == MapThenSumSet(LAMBDA r : run[r].attempt, Runs) < MaxGranted

Dispatch(r, f) ==
  /\ run[r].state = "unused" /\ Granted
  /\ run' = [run EXCEPT ![r] = [state |-> "queued", attempt |-> 1, resumes |-> f]]

\* The schedule queues a run, or a person resumes a known incident.
QueueRun(r) ==
  /\ \E f \in Known \cup {NoFault} : Dispatch(r, f)
  /\ UNCHANGED <<clock, events, record, receipts, issue, pass>>

StartRun(r) ==
  /\ run[r].state = "queued" /\ GroupFree
  /\ run' = [run EXCEPT ![r].state = "running"]
  /\ UNCHANGED <<clock, events, record, receipts, issue, pass>>

Complete(r, outcome) ==
  /\ run' = [run EXCEPT ![r].state = outcome]
  /\ events' = events \cup {[run |-> r, attempt |-> run[r].attempt, outcome |-> outcome]}
  /\ UNCHANGED <<clock, issue, pass>>

\* The failed job uploads an incident; create-incident refuses a run attempt
\* above three, and a job that times out uploads nothing.
Fail(r, f) ==
  /\ run[r].state = "running" /\ Complete(r, "failed")
  /\ \/ /\ run[r].attempt \in 1 .. 3
        /\ record' = [record EXCEPT ![f] = Newest(record[f], NewIncident(f, r))]
     \/ UNCHANGED record
  /\ UNCHANGED receipts

\* recovery_success: a run that was resumed for an incident uploads a receipt.
Succeed(r) ==
  /\ run[r].state = "running" /\ Complete(r, "succeeded")
  /\ receipts' = receipts \cup ({run[r].resumes} \ {NoFault})
  /\ UNCHANGED record

\* A queued run gives its place in the group to a newer one.
Cancel(r) ==
  /\ run[r].state = "queued" /\ Complete(r, "cancelled")
  /\ UNCHANGED <<record, receipts>>

\* Only the newest 64 artifacts of the repository are looked at, and no pass
\* uploads a receipt again.
ForgetReceipt(f) ==
  /\ f \in receipts /\ pass = Idle
  /\ receipts' = receipts \ {f}
  /\ UNCHANGED <<clock, run, events, record, issue, pass>>

-----------------------------------------------------------------------------
(* A controller pass. *)

\* The records and the active runs are read once.
StartPass(kind, event, todo, secret, fixed) ==
  /\ GroupFree
  /\ pass' = [kind |-> kind, event |-> event, todo |-> todo,
              out |-> [f \in Faults |-> NoIncident],
              active |-> \E r \in Runs : run[r].state = "queued",
              secret |-> secret, fixed |-> fixed]
  /\ UNCHANGED <<clock, run, events, record, receipts, issue>>

StartPipelinePass ==
  \E e \in events, secret \in BOOLEAN :
    StartPass("pipeline", e, {f \in Known : record[f].run = e.run}, secret, {})

StartWatchdogPass ==
  \E secret \in BOOLEAN : StartPass("watchdog", Idle, Known, secret, {})

\* The half-hourly schedule, or a dispatch for all incidents or for one.
StartRequestedPass ==
  \E todo \in {Known} \cup {{f} : f \in Known}, secret \in BOOLEAN :
    StartPass("requested", Idle, todo, secret, {})

\* fixed: the faults whose component the new, tested code touches.
StartCIPass ==
  LET broken == {f \in Known : ClassOf[f] = "deterministic_code"} IN
  \E fixed \in SUBSET broken, secret \in BOOLEAN :
    StartPass("ci", Idle, broken, secret, fixed)

\* Incidents are handled in the order of their ids.
Handling(f) == pass # Idle /\ f \in pass.todo /\ \A g \in pass.todo : f <= g

FailedEvent == pass.kind = "pipeline" /\ pass.event.outcome = "failed"
Least(a, b) == IF a <= b THEN a ELSE b

\* Mutant: the failed attempt counts as a retry.
ObservedTooMany == Least(pass.event.attempt, MaxAttempts)

\* A failed run's own attempt number says how many retries it has had.
Observed == Least(pass.event.attempt - 1, MaxAttempts)

\* Mutant: what the event says about earlier retries is ignored.
ChargedNothing(f) == record[f]

\* record_retry_attempt, up to the n-th retry.
Recorded(f, row, n) ==
  [row EXCEPT !.attempts = n, !.last = clock, !.status = StatusAt(f, n)]

Charged(f) ==
  IF FailedEvent /\ Retriable(f) /\ record[f].attempts < Observed
  THEN Recorded(f, record[f], Observed)
  ELSE record[f]

OutOfWindow(row) == clock > row.first + Window

\* record_retry_attempt raises, and with it the pass.
ChargeRefused(f) ==
  /\ FailedEvent /\ Retriable(f) /\ record[f].attempts < Observed
  /\ record[f].status = "RESOLVED" \/ OutOfWindow(record[f])

\* The event is one whose retry has been counted.
Duplicate(f, row) ==
  /\ FailedEvent /\ Retriable(f)
  /\ row.attempts >= Least(pass.event.attempt, MaxAttempts)

\* Mutant: no cap on the retries.
MayRetryUncapped(f, row) ==
  /\ Retriable(f) /\ row.status # "RESOLVED" /\ ~pass.active /\ ~OutOfWindow(row)
  /\ pass.kind = "watchdog" => clock >= row.last + Grace

MayRetry(f, row) ==
  /\ Retriable(f) /\ ~Duplicate(f, row)
  /\ row.status # "RESOLVED" /\ ~pass.active
  /\ row.attempts < MaxAttempts /\ ~OutOfWindow(row)
  /\ pass.kind = "watchdog" => clock >= row.last + Grace

MayResume(f, row) ==
  /\ row.status # "RESOLVED" /\ ~pass.active
  /\ \/ ClassOf[f] = "missing_secret" /\ pass.secret
     \/ ClassOf[f] = "deterministic_code" /\ f \in pass.fixed

AlertDue(row) == row.alert = NoTime \/ clock >= row.alert + Suppression

\* Mutant: no alert when the retries are used up.
AlertNeededNotAtCap(f, row) ==
  \/ AlertsAtOnce(f) /\ AlertDue(row)
  \/ Retriable(f) /\ row.status # "RESOLVED" /\ OutOfWindow(row) /\ row.attempts < MaxAttempts

\* Mutant: no alert when the window closes.
AlertNeededInWindow(f, row) ==
  \/ AlertsAtOnce(f) /\ AlertDue(row)
  \/ row.status = "EXHAUSTED"

\* For an incident that is neither retried nor resumed.
AlertNeeded(f, row) ==
  \/ AlertsAtOnce(f) /\ AlertDue(row)
  \/ row.status = "EXHAUSTED"
  \/ Duplicate(f, row) /\ row.attempts >= MaxAttempts
  \/ /\ Retriable(f) /\ ~Duplicate(f, row) /\ row.status # "RESOLVED"
     /\ ~pass.active /\ OutOfWindow(row) /\ AlertDue(row)

Suppressed(f) ==
  issue[f].state # "none" /\ clock < issue[f].updated + Suppression

Handled(f, row) ==
  [pass EXCEPT !.todo = pass.todo \ {f}, !.out = [pass.out EXCEPT ![f] = row]]

\* The incident leaves the pass as row, with an alert if one is needed and the
\* issue was not touched too recently.
Settle(f, row, needed) ==
  LET raised == needed /\ ~Suppressed(f) IN
  /\ issue' = IF raised
              THEN [issue EXCEPT ![f] = [state |-> "open", updated |-> clock]]
              ELSE issue
  /\ pass' = Handled(f, IF raised THEN [row EXCEPT !.alert = clock] ELSE row)

\* A success receipt closes the incident and its issue, whatever its age.
ResolveIncident(f) ==
  /\ Handling(f) /\ f \in receipts
  /\ issue' = IF issue[f].state = "open"
              THEN [issue EXCEPT ![f] = [state |-> "closed", updated |-> clock]]
              ELSE issue
  /\ pass' = Handled(f, [record[f] EXCEPT !.status = "RESOLVED", !.last = clock])
  /\ UNCHANGED <<clock, run, events, record, receipts>>

\* A pipeline that succeeded or was cancelled calls for nothing.
KeepIncident(f) ==
  /\ Handling(f) /\ f \notin receipts
  /\ pass.kind = "pipeline" /\ ~FailedEvent
  /\ Settle(f, record[f], FALSE)
  /\ UNCHANGED <<clock, run, events, record, receipts>>

Decides(f) ==
  /\ Handling(f) /\ f \notin receipts
  /\ pass.kind = "pipeline" => FailedEvent
  /\ ~ChargeRefused(f)

\* rerun_failed_jobs: GitHub refuses it for a run that has not ended badly.
Rerun(r) ==
  /\ run[r].state \in {"failed", "cancelled"} /\ Granted
  /\ run' = [run EXCEPT ![r] = [@ EXCEPT !.state = "queued", !.attempt = run[r].attempt + 1]]

RetryIncident(f) ==
  LET row == Charged(f) IN
  /\ Decides(f) /\ MayRetry(f, row)
  /\ Rerun(record[f].run)
  /\ Settle(f, Recorded(f, row, row.attempts + 1), FALSE)
  /\ UNCHANGED <<clock, events, record, receipts>>

\* dispatch_pipeline in mode resume.
ResumeIncident(f) ==
  /\ Decides(f) /\ MayResume(f, record[f])
  /\ \E r \in Runs : Dispatch(r, f)
  /\ Settle(f, record[f], AlertsAtOnce(f) /\ AlertDue(record[f]))
  /\ UNCHANGED <<clock, events, record, receipts>>

LeaveIncident(f) ==
  LET row == Charged(f) IN
  /\ Decides(f) /\ ~MayRetry(f, row) /\ ~MayResume(f, row)
  /\ Settle(f, row, AlertNeeded(f, row))
  /\ UNCHANGED <<clock, run, events, record, receipts>>

\* The report and the changed incidents are written and uploaded.
FinishPass ==
  /\ pass # Idle /\ pass.todo = {}
  /\ record' = [f \in Faults |-> IF pass.out[f] = NoIncident THEN record[f]
                                 ELSE Newest(record[f], pass.out[f])]
  /\ pass' = Idle
  /\ UNCHANGED <<clock, run, events, receipts, issue>>

\* GitHub refuses a request, an answer is lost, a retry cannot be recorded or
\* the job dies: what was done on GitHub stays, no incident is uploaded.
AbortPass ==
  /\ pass # Idle
  /\ pass' = Idle
  /\ UNCHANGED <<clock, run, events, record, receipts, issue>>

\* now is read once in a pass, and a pass is shorter than a tick.
Tick ==
  /\ pass = Idle /\ clock < MaxTime /\ clock' = clock + 1
  /\ UNCHANGED <<run, events, record, receipts, issue, pass>>

Progress ==
  \/ \E f \in Faults : \/ ResolveIncident(f) \/ KeepIncident(f) \/ RetryIncident(f)
                       \/ ResumeIncident(f) \/ LeaveIncident(f)
  \/ FinishPass

Next ==
  \/ \E r \in Runs : QueueRun(r) \/ StartRun(r) \/ Succeed(r) \/ Cancel(r)
  \/ \E f \in Faults : ForgetReceipt(f) \/ \E r \in Runs : Fail(r, f)
  \/ StartPipelinePass \/ StartWatchdogPass \/ StartRequestedPass \/ StartCIPass
  \/ Progress \/ AbortPass \/ Tick

Spec == Init /\ [][Next]_vars

InWatchdog(step) == pass # Idle /\ pass.kind = "watchdog" /\ step

\* GitHub starts queued runs, runs end and time passes; the watchdog's schedule
\* is not starved for ever, and what one of its passes after the other is about
\* to do is done in one of them, although any single pass may die.
FairSpec ==
  /\ Spec /\ SF_vars(Tick)
  /\ \A r \in Runs : /\ SF_vars(StartRun(r))
                     /\ WF_vars(Succeed(r) \/ \E f \in Faults : Fail(r, f))
  /\ SF_vars(StartWatchdogPass)
  /\ \A f \in Faults : /\ SF_vars(InWatchdog(RetryIncident(f)))
                       /\ SF_vars(InWatchdog(LeaveIncident(f)))
  /\ SF_vars(InWatchdog(FinishPass)) /\ WF_vars(AbortPass)

-----------------------------------------------------------------------------
(* Properties. *)

\* The newest incident of every fault is one that validate_incident accepts (the
\* first that it refused would make every later pass fail), and it charges a
\* retry only when GitHub has granted it: neither an observed attempt nor a
\* dispatch counts one that did not happen.
IncidentsAreTrue ==
  \A f \in Known :
    LET row == record[f] IN
    /\ row.last >= row.first
    /\ row.alert # NoTime => row.alert >= row.first
    /\ row.status # "RESOLVED" => row.status = StatusAt(f, row.attempts)
    /\ ~Retriable(f) => row.attempts = 0
    /\ row.attempts < run[row.run].attempt

\* What is known of a fault is not forgotten.  The count of a failed run never
\* falls back, although a rerun that fails uploads a new incident and a pass
\* that dies forgets what it charged; and a resolved incident comes back only
\* when a run fails again, never through a pass that read it earlier or an
\* event delivered twice.
NothingIsForgotten ==
  [][\A f \in Known :
       /\ record'[f].run = record[f].run => record'[f].attempts >= record[f].attempts
       /\ (record[f].status = "RESOLVED" /\ record'[f].status # "RESOLVED") =>
            \E r \in Runs : run[r].state = "running" /\ run'[r].state = "failed"]_vars

\* test_two_retry_cap_uses_trusted_workflow_run_attempt: when a run has failed
\* its third attempt, its event never reruns it, even if the passes that charged
\* the earlier retries were lost.
ThirdFailureIsFinal ==
  [][(pass # Idle /\ pass.kind = "pipeline") =>
       \A r \in Runs : run'[r].attempt > run[r].attempt /\ run[r].attempt > 0 =>
         pass.event.attempt <= MaxAttempts]_vars

\* The bound on the clock leaves this issue suppressed for ever.
SuppressedAtTheEnd(f) ==
  issue[f].state # "none" /\ issue[f].updated + Suppression > MaxTime

\* An incident whose retries are used up gets an open issue, unless it is
\* resolved or replaced first.
ExhaustedIsAlerted ==
  \A f \in Faults :
    (record[f] # NoIncident /\ record[f].status = "EXHAUSTED") ~>
      \/ issue[f].state = "open" \/ SuppressedAtTheEnd(f)
      \/ record[f] # NoIncident /\ record[f].status # "EXHAUSTED"

\* A retriable incident whose event was never delivered, or whose pass died, is
\* retried, resolved, replaced, or alerted for once its window is over.
MissedEventIsRecovered ==
  \A f \in Faults : \A n \in 0 .. MaxAttempts - 1 :
    (/\ record[f] # NoIncident /\ Retriable(f) /\ record[f].attempts = n
     /\ record[f].first + Window < MaxTime) ~>
      \/ issue[f].state = "open" \/ SuppressedAtTheEnd(f)
      \/ /\ record[f] # NoIncident
         /\ \/ record[f].attempts # n \/ record[f].status = "RESOLVED"
            \/ record[f].first + Window >= MaxTime

\* docs/RECOVERY_AND_RESUME_AR.md: a security failure stops automatic reruns.
NoRerunAfterSecurity ==
  [][\A r \in Runs :
       (run[r].state \in Outcomes /\ run'[r].state = "queued") =>
         \A f \in Known : record[f].run = r => ClassOf[f] # "security"]_vars

\* docs/RECOVERY_AND_RESUME_AR.md: while a run is queued the controller reruns
\* none and resumes none.
NoSecondDispatch ==
  [][\A r \in Runs :
       (/\ pass # Idle /\ run[r].state # "queued" /\ run'[r].state = "queued"
        /\ run[r].state # "unused" \/ pass' # pass) =>
         \A s \in Runs : run[s].state # "queued"]_vars

=============================================================================
