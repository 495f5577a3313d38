---------------------- MODULE RecoveryController_proof ----------------------
(***************************************************************************)
(* Proof that the incidents of the recovery controller stay true, for any  *)
(* faults, runs and policy, through lost and repeated events and passes    *)
(* that die.  The invariant says what a pass that is under way may rely on *)
(* although it read the incidents at its start.                            *)
(***************************************************************************)
EXTENDS RecoveryController, TLAPS

Types ==
  /\ clock \in Nat
  /\ run \in [Runs -> RunRows] /\ events \subseteq Events
  /\ record \in [Faults -> Incidents \cup {NoIncident}]
  /\ receipts \subseteq Faults
  /\ issue \in [Faults -> Issues]
  /\ pass \in Passes \cup {Idle}

\* A run has attempts when it was dispatched, and an event is about one of them.
AttemptsOK ==
  /\ \A r \in Runs : run[r].state = "unused" => run[r].attempt = 0
  /\ \A e \in events : e.attempt <= run[e.run].attempt

\* What IncidentsAreTrue says of an incident, and that it is not of the future.
RowOK(f, row) ==
  /\ row \in Incidents
  /\ row.first <= row.last /\ row.last <= clock
  /\ row.alert # NoTime => row.alert >= row.first
  /\ row.status # "RESOLVED" => row.status = StatusAt(f, row.attempts)
  /\ ~Retriable(f) => row.attempts = 0
  /\ row.attempts < run[row.run].attempt

RecordOK == \A f \in Faults : record[f] # NoIncident => RowOK(f, record[f])

\* An incident that a pass will upload says no less than the one that it read.
SaysMore(old, new) ==
  /\ new.run = old.run /\ new.attempts >= old.attempts
  /\ old.status = "RESOLVED" => new.status = "RESOLVED"

OutOK ==
  \A f \in Faults : pass.out[f] # NoIncident =>
    record[f] # NoIncident /\ RowOK(f, pass.out[f]) /\ SaysMore(record[f], pass.out[f])

EventOK ==
  /\ pass.event \in Events /\ pass.event.attempt <= run[pass.event.run].attempt
  /\ \A f \in pass.todo : record[f].run = pass.event.run

\* No run runs during a pass: no incident is uploaded under it.
PassOK ==
  pass # Idle =>
    /\ \A r \in Runs : run[r].state # "running"
    /\ pass.todo \subseteq Known
    /\ OutOK
    /\ pass.kind = "pipeline" => EventOK

IInv == Types /\ AttemptsOK /\ RecordOK /\ PassOK

\* Time goes on, and the attempts of a run are not taken back.
Grows ==
  /\ clock' \in Nat /\ clock' >= clock
  /\ run' \in [Runs -> RunRows] /\ \A r \in Runs : run'[r].attempt >= run[r].attempt

-----------------------------------------------------------------------------
(* Lemmas on rows. *)

LEMMA StatusIsStatus ==
  ASSUME NEW f, NEW n
  PROVE  StatusAt(f, n) \in {"RETRY_SCHEDULED", "BLOCKED", "EXHAUSTED"}
BY DEF StatusAt, Category

\* An incident that was true stays true.
LEMMA RowLasts ==
  ASSUME IInv, Grows, NEW f, NEW row, RowOK(f, row)
  PROVE  RowOK(f, row)'
<1>1. /\ row \in Incidents /\ row.run \in Runs /\ row.last \in Nat /\ row.attempts \in Nat
      /\ run'[row.run].attempt \in Nat /\ run[row.run].attempt \in Nat /\ clock \in Nat
  BY DEF RowOK, Incidents, MaxAttempts, Grows, IInv, Types, RunRows
<1>2. row.last <= clock' /\ row.attempts < run'[row.run].attempt
  BY <1>1 DEF RowOK, Grows
<1>3. row.status # "RESOLVED" => row.status = StatusAt(f, row.attempts)
  BY DEF RowOK
<1> QED
  BY <1>1, <1>2, <1>3 DEF RowOK, StatusAt, Category, Retriable

LEMMA RecordLasts ==
  ASSUME IInv, Grows, UNCHANGED record
  PROVE  RecordOK'
<1> SUFFICES ASSUME NEW f \in Faults, record[f] # NoIncident PROVE RowOK(f, record[f])'
  BY DEF RecordOK
<1>1. PICK row : row = record[f]
  OBVIOUS
<1>2. RowOK(f, row)'
  BY <1>1, RowLasts DEF IInv, RecordOK
<1> QED
  BY <1>1, <1>2

\* What a pass that is under way relies on stays true.
LEMMA PassLasts ==
  ASSUME IInv, Grows, UNCHANGED <<record, pass>>,
         pass # Idle => \A r \in Runs : run'[r].state # "running"
  PROVE  PassOK'
<1> SUFFICES ASSUME pass # Idle PROVE PassOK'
  BY DEF PassOK
<1>1. PICK ps \in Passes : ps = pass
  BY DEF IInv, Types
<1>2. (pass.todo \subseteq Known)' /\ (\A r \in Runs : run[r].state # "running")'
  BY DEF IInv, PassOK, Known
<1>3. OutOK'
  <2> SUFFICES ASSUME NEW f \in Faults, ps.out[f] # NoIncident
               PROVE  record[f] # NoIncident /\ RowOK(f, ps.out[f])' /\ SaysMore(record[f], ps.out[f])
    BY <1>1 DEF OutOK, SaysMore
  <2>1. record[f] # NoIncident /\ RowOK(f, ps.out[f]) /\ SaysMore(record[f], ps.out[f])
    BY <1>1 DEF IInv, PassOK, OutOK
  <2> QED
    BY <2>1, RowLasts
<1>4. ps.kind = "pipeline" => EventOK'
  <2> SUFFICES ASSUME ps.kind = "pipeline" PROVE EventOK'
    OBVIOUS
  <2>1. EventOK
    BY <1>1 DEF IInv, PassOK
  <2>2. ps.event \in Events /\ ps.event.attempt <= run[ps.event.run].attempt
    BY <1>1, <2>1 DEF EventOK
  <2>3. ps.event.run \in Runs /\ ps.event.attempt \in Nat
    BY <2>2 DEF Events
  <2>4. run'[ps.event.run].attempt \in Nat /\ run[ps.event.run].attempt \in Nat
    BY <2>3 DEF Grows, IInv, Types, RunRows
  <2>5. ps.event.attempt <= run'[ps.event.run].attempt
    BY <2>2, <2>3, <2>4 DEF Grows
  <2> QED
    BY <1>1, <2>1, <2>2, <2>5 DEF EventOK
<1> QED
  BY <1>1, <1>2, <1>3, <1>4 DEF PassOK

LEMMA Keeps ==
  ASSUME IInv, Grows, UNCHANGED <<record, pass>>, AttemptsOK',
         pass # Idle => \A r \in Runs : run'[r].state # "running",
         events' \subseteq Events, receipts' \subseteq Faults, UNCHANGED issue
  PROVE  IInv'
<1>1. Types'
  BY DEF IInv, Types, Grows
<1> QED
  BY <1>1, RecordLasts, PassLasts DEF IInv

-----------------------------------------------------------------------------
(* The pipeline runs. *)

\* One run changes its row.
LEMMA RunChanged ==
  ASSUME IInv, NEW r \in Runs, NEW row \in RunRows, run' = [run EXCEPT ![r] = row],
         row.attempt >= run[r].attempt, UNCHANGED clock
  PROVE  /\ Grows /\ run'[r] = row /\ \A q \in Runs : q # r => run'[q] = run[q]
<1>1. run \in [Runs -> RunRows] /\ clock \in Nat
  BY DEF IInv, Types
<1>2. /\ run' \in [Runs -> RunRows] /\ run'[r] = row
      /\ \A q \in Runs : q # r => run'[q] = run[q]
  BY <1>1
<1>3. \A q \in Runs : run'[q].attempt >= run[q].attempt
  <2> SUFFICES ASSUME NEW q \in Runs PROVE run'[q].attempt >= run[q].attempt
    OBVIOUS
  <2>1. run[q].attempt \in Nat
    BY <1>1 DEF RunRows
  <2> QED
    BY <1>2, <2>1
<1> QED
  BY <1>1, <1>2, <1>3 DEF Grows

\* The row of a run that was dispatched keeps what is said of attempts.
LEMMA AttemptsLast ==
  ASSUME IInv, Grows, NEW r \in Runs, run'[r].state # "unused",
         \A q \in Runs : q # r => run'[q] = run[q],
         \A e \in events' : e \in events \/ (e.run = r /\ e.attempt = run'[r].attempt)
  PROVE  AttemptsOK'
<1>1. \A q \in Runs : run'[q].state = "unused" => run'[q].attempt = 0
  BY DEF IInv, AttemptsOK
<1>2. \A e \in events' : e.attempt <= run'[e.run].attempt
  <2> SUFFICES ASSUME NEW e \in events' PROVE e.attempt <= run'[e.run].attempt
    OBVIOUS
  <2>1. CASE e \in events
    <3>1. e.attempt <= run[e.run].attempt /\ e.run \in Runs /\ e.attempt \in Nat
      BY <2>1 DEF IInv, AttemptsOK, Types, Events
    <3>2. run[e.run].attempt \in Nat /\ run'[e.run].attempt \in Nat
      BY <3>1 DEF IInv, Types, Grows, RunRows
    <3> QED
      BY <3>1, <3>2 DEF Grows
  <2>2. CASE e.run = r /\ e.attempt = run'[r].attempt
    <3>1. run'[r].attempt \in Nat
      BY DEF Grows, RunRows
    <3> QED
      BY <2>2, <3>1
  <2> QED
    BY <2>1, <2>2
<1> QED
  BY <1>1, <1>2 DEF AttemptsOK

\* A run is dispatched: it had no attempts before.
LEMMA Dispatched ==
  ASSUME IInv, NEW r \in Runs, NEW f \in Faults \cup {NoFault}, Dispatch(r, f), UNCHANGED <<clock, events>>
  PROVE  /\ Grows /\ AttemptsOK' /\ run[r].attempt = 0 /\ run'[r].state = "queued"
         /\ \A q \in Runs : q # r => run'[q] = run[q]
<1>1. PICK row : row = [state |-> "queued", attempt |-> 1, resumes |-> f]
  OBVIOUS
<1>2. row \in RunRows /\ row.attempt = 1 /\ row.state = "queued"
  BY <1>1 DEF RunRows
<1>3. run' = [run EXCEPT ![r] = row] /\ run[r].attempt = 0
  BY <1>1 DEF Dispatch, IInv, AttemptsOK
<1>4. Grows /\ run'[r] = row /\ \A q \in Runs : q # r => run'[q] = run[q]
  <2>1. row.attempt >= run[r].attempt
    BY <1>2, <1>3
  <2> QED
    BY <1>2, <1>3, <2>1, RunChanged
<1>5. AttemptsOK'
  BY <1>2, <1>4, AttemptsLast
<1> QED
  BY <1>2, <1>3, <1>4, <1>5

LEMMA QueueRunKeeps ==
  ASSUME IInv, NEW r \in Runs, QueueRun(r)
  PROVE  IInv'
<1>1. PICK f \in Known \cup {NoFault} : Dispatch(r, f)
  BY DEF QueueRun
<1>2. f \in Faults \cup {NoFault} /\ UNCHANGED <<clock, events, record, receipts, issue, pass>>
  BY DEF QueueRun, Known
<1>3. /\ Grows /\ AttemptsOK' /\ run'[r].state = "queued"
      /\ \A q \in Runs : q # r => run'[q] = run[q]
  BY <1>1, <1>2, Dispatched
<1>4. pass # Idle => \A q \in Runs : run'[q].state # "running"
  BY <1>3 DEF IInv, PassOK
<1>5. events' \subseteq Events /\ receipts' \subseteq Faults
  BY <1>2 DEF IInv, Types
<1> QED
  BY <1>2, <1>3, <1>4, <1>5, Keeps

\* A run changes its state only.
LEMMA StateChanged ==
  ASSUME IInv, NEW r \in Runs, NEW s \in {"queued", "running"} \cup Outcomes,
         run' = [run EXCEPT ![r].state = s], UNCHANGED clock
  PROVE  /\ Grows /\ run'[r].state = s /\ run'[r].attempt = run[r].attempt
         /\ \A q \in Runs : q # r => run'[q] = run[q]
<1>1. PICK old \in RunRows : old = run[r]
  BY DEF IInv, Types
<1>2. PICK row : row = [old EXCEPT !.state = s]
  OBVIOUS
<1>3. row \in RunRows /\ row.state = s /\ row.attempt = old.attempt
  BY <1>2 DEF RunRows
<1>4. run' = [run EXCEPT ![r] = row] /\ row.attempt >= run[r].attempt
  <2>1. old.attempt \in Nat
    BY DEF RunRows
  <2> QED
    BY <1>1, <1>2, <1>3, <2>1
<1>5. Grows /\ run'[r] = row /\ \A q \in Runs : q # r => run'[q] = run[q]
  BY <1>3, <1>4, RunChanged
<1> QED
  BY <1>1, <1>3, <1>5

LEMMA StartRunKeeps ==
  ASSUME IInv, NEW r \in Runs, StartRun(r)
  PROVE  IInv'
<1>1. /\ run' = [run EXCEPT ![r].state = "running"] /\ pass = Idle
      /\ UNCHANGED <<clock, events, record, receipts, issue, pass>>
  BY DEF StartRun, GroupFree
<1>2. /\ Grows /\ run'[r].state = "running" /\ \A q \in Runs : q # r => run'[q] = run[q]
  BY <1>1, StateChanged
<1>3. AttemptsOK'
  BY <1>1, <1>2, AttemptsLast
<1>4. events' \subseteq Events /\ receipts' \subseteq Faults
  BY <1>1 DEF IInv, Types
<1> QED
  BY <1>1, <1>2, <1>3, <1>4, Keeps

\* An attempt of a run is over.
LEMMA Completed ==
  ASSUME IInv, NEW r \in Runs, NEW outcome \in Outcomes, Complete(r, outcome)
  PROVE  /\ Grows /\ AttemptsOK' /\ events' \subseteq Events
         /\ run'[r].state = outcome /\ run'[r].attempt = run[r].attempt
         /\ \A q \in Runs : q # r => run'[q] = run[q]
<1>1. PICK e : e = [run |-> r, attempt |-> run[r].attempt, outcome |-> outcome]
  OBVIOUS
<1>2. /\ run' = [run EXCEPT ![r].state = outcome] /\ events' = events \cup {e}
      /\ UNCHANGED <<clock, issue, pass>>
  BY <1>1 DEF Complete
<1>3. /\ Grows /\ run'[r].state = outcome /\ run'[r].attempt = run[r].attempt
      /\ \A q \in Runs : q # r => run'[q] = run[q]
  BY <1>2, StateChanged
<1>4. run[r].attempt \in Nat /\ events \subseteq Events
  BY DEF IInv, Types, RunRows
<1>5. e \in Events /\ e.run = r /\ e.attempt = run[r].attempt
  BY <1>1, <1>4 DEF Events
<1>6. AttemptsOK'
  <2>1. run'[r].state # "unused"
    BY <1>3 DEF Outcomes
  <2> QED
    BY <1>2, <1>3, <1>5, <2>1, AttemptsLast
<1> QED
  BY <1>2, <1>3, <1>4, <1>5, <1>6

LEMMA SucceedCancelKeeps ==
  ASSUME IInv, NEW r \in Runs, Succeed(r) \/ Cancel(r)
  PROVE  IInv'
<1>1. PICK outcome \in {"succeeded", "cancelled"} : Complete(r, outcome)
  BY DEF Succeed, Cancel
<1>2. outcome \in Outcomes /\ outcome # "running"
  BY DEF Outcomes
<1>3. /\ Grows /\ AttemptsOK' /\ events' \subseteq Events /\ run'[r].state = outcome
      /\ \A q \in Runs : q # r => run'[q] = run[q]
  BY <1>1, <1>2, Completed
<1>4. UNCHANGED <<record, issue, pass>>
  BY <1>1 DEF Succeed, Cancel, Complete
<1>5. receipts' \subseteq Faults
  <2>1. run[r].resumes \in Faults \cup {NoFault} /\ receipts \subseteq Faults
    BY DEF IInv, Types, RunRows
  <2> QED
    BY <2>1 DEF Succeed, Cancel
<1>6. pass # Idle => \A q \in Runs : run'[q].state # "running"
  BY <1>2, <1>3 DEF IInv, PassOK
<1> QED
  BY <1>3, <1>4, <1>5, <1>6, Keeps

LEMMA TickForgetKeeps ==
  ASSUME IInv, Tick \/ \E f \in Faults : ForgetReceipt(f)
  PROVE  IInv'
<1>1. /\ UNCHANGED <<run, events, record, issue, pass>> /\ receipts' \subseteq Faults
      /\ clock' = clock \/ clock' = clock + 1
  BY DEF Tick, ForgetReceipt, IInv, Types
<1>2. Grows
  <2>1. \A r \in Runs : run[r].attempt \in Nat
    BY DEF IInv, Types, RunRows
  <2> QED
    BY <1>1, <2>1 DEF Grows, IInv, Types
<1>3. AttemptsOK' /\ events' \subseteq Events
  BY <1>1 DEF IInv, AttemptsOK, Types
<1>4. pass # Idle => \A q \in Runs : run'[q].state # "running"
  BY <1>1 DEF IInv, PassOK
<1> QED
  BY <1>1, <1>2, <1>3, <1>4, Keeps

LEMMA SameRuns ==
  ASSUME IInv, UNCHANGED <<clock, run>>
  PROVE  Grows
<1>1. \A r \in Runs : run[r].attempt \in Nat
  BY DEF IInv, Types, RunRows
<1> QED
  BY <1>1 DEF Grows, IInv, Types

\* The incident that create-incident makes of an attempt that failed.
LEMMA NewIncidentIsTrue ==
  ASSUME IInv, NEW r \in Runs, NEW f \in Faults, run[r].attempt \in 1 .. 3
  PROVE  /\ RowOK(f, NewIncident(f, r)) /\ NewIncident(f, r).run = r
         /\ Retriable(f) => NewIncident(f, r).attempts = run[r].attempt - 1
<1>1. PICK n : n = IF Retriable(f) THEN run[r].attempt - 1 ELSE 0
  OBVIOUS
<1>2. n \in 0 .. MaxAttempts /\ n < run[r].attempt /\ clock \in Nat
  BY <1>1 DEF MaxAttempts, IInv, Types
<1>3. PICK row : row = [run |-> r, attempts |-> n, status |-> StatusAt(f, n),
                        first |-> clock, last |-> clock, alert |-> NoTime]
  OBVIOUS
<1>4. NewIncident(f, r) = row
  BY <1>1, <1>3 DEF NewIncident
<1>5. row \in Incidents
  BY <1>2, <1>3, StatusIsStatus DEF Incidents, NoTime
<1>6. RowOK(f, row)
  BY <1>1, <1>2, <1>3, <1>5 DEF RowOK
<1> QED
  BY <1>1, <1>3, <1>4, <1>6

LEMMA FailKeeps ==
  ASSUME IInv, NEW r \in Runs, NEW f \in Faults, Fail(r, f)
  PROVE  IInv'
<1>1. /\ Complete(r, "failed") /\ UNCHANGED <<clock, issue, pass, receipts>>
      /\ run[r].state = "running"
  BY DEF Fail, Complete
<1>2. pass = Idle
  BY <1>1 DEF IInv, PassOK
<1>3. /\ Grows /\ AttemptsOK' /\ events' \subseteq Events
      /\ run'[r].state = "failed" /\ run'[r].attempt = run[r].attempt
      /\ \A q \in Runs : q # r => run'[q] = run[q]
  BY <1>1, Completed DEF Outcomes
<1>4. CASE UNCHANGED record
  <2>1. receipts' \subseteq Faults
    BY <1>1 DEF IInv, Types
  <2> QED
    BY <1>1, <1>2, <1>3, <1>4, <2>1, Keeps
<1>5. CASE /\ run[r].attempt \in 1 .. 3
           /\ record' = [record EXCEPT ![f] = Newest(record[f], NewIncident(f, r))]
  <2>1. PICK row : row = Newest(record[f], NewIncident(f, r))
    OBVIOUS
  <2>2. row \in {record[f], NewIncident(f, r)}
    BY <2>1 DEF Newest
  <2>3. row # NoIncident => RowOK(f, row)
    BY <1>5, <2>2, NewIncidentIsTrue DEF IInv, RecordOK
  <2>4. row \in Incidents \cup {NoIncident}
    BY <2>3 DEF RowOK
  <2>5. /\ record' \in [Faults -> Incidents \cup {NoIncident}] /\ record'[f] = row
        /\ \A g \in Faults : g # f => record'[g] = record[g]
    BY <1>5, <2>1, <2>4 DEF IInv, Types
  <2>6. RecordOK'
    <3> SUFFICES ASSUME NEW g \in Faults, record'[g] # NoIncident PROVE RowOK(g, record[g])'
      BY DEF RecordOK
    <3>1. PICK old : old = record'[g]
      OBVIOUS
    <3>2. RowOK(g, old)
      BY <2>3, <2>5, <3>1 DEF IInv, RecordOK
    <3>3. RowOK(g, old)'
      BY <1>3, <3>2, RowLasts
    <3> QED
      BY <3>1, <3>3
  <2>7. Types'
    BY <1>1, <1>3, <2>5 DEF IInv, Types, Grows
  <2>8. PassOK'
    BY <1>1, <1>2 DEF PassOK
  <2> QED
    BY <1>3, <2>6, <2>7, <2>8 DEF IInv
<1> QED
  BY <1>4, <1>5 DEF Fail

-----------------------------------------------------------------------------
(* The passes. *)

LEMMA PassStarts ==
  ASSUME IInv, NEW kind \in Kinds, NEW event \in Events \cup {Idle}, NEW todo \in SUBSET Known,
         NEW secret \in BOOLEAN, NEW fixed \in SUBSET Faults,
         StartPass(kind, event, todo, secret, fixed),
         kind = "pipeline" => event \in events /\ \A f \in todo : record[f].run = event.run
  PROVE  IInv'
<1>1. /\ \A r \in Runs : run[r].state # "running"
      /\ UNCHANGED <<clock, run, events, record, receipts, issue>>
  BY DEF StartPass, GroupFree
<1>2. PICK active \in BOOLEAN : active = \E r \in Runs : run[r].state = "queued"
  OBVIOUS
<1>3. PICK out : out = [f \in Faults |-> NoIncident]
  OBVIOUS
<1>4. PICK ps : ps = [kind |-> kind, event |-> event, todo |-> todo, out |-> out,
                      active |-> active, secret |-> secret, fixed |-> fixed]
  OBVIOUS
<1>5. pass' = ps
  BY <1>2, <1>3, <1>4 DEF StartPass
<1>6. /\ ps.kind = kind /\ ps.event = event /\ ps.todo = todo /\ ps.out = out
      /\ ps.active = active /\ ps.secret = secret /\ ps.fixed = fixed
  BY <1>4
<1>7. ps \in Passes
  <2>1. out \in [Faults -> Incidents \cup {NoIncident}] /\ todo \in SUBSET Faults
    BY <1>3 DEF Known
  <2> QED
    BY <1>4, <2>1 DEF Passes
<1>8. Grows
  BY <1>1, SameRuns
<1>9. PassOK'
  <2>1. OutOK'
    BY <1>3, <1>5, <1>6 DEF OutOK
  <2>2. (\A r \in Runs : run[r].state # "running")' /\ (pass.todo \subseteq Known)'
    BY <1>1, <1>5, <1>6 DEF Known
  <2>3. kind = "pipeline" => EventOK'
    BY <1>1, <1>5, <1>6 DEF EventOK, IInv, AttemptsOK, Types
  <2> QED
    BY <1>5, <1>6, <2>1, <2>2, <2>3 DEF PassOK
<1>10. Types' /\ AttemptsOK'
  BY <1>1, <1>5, <1>7 DEF IInv, Types, AttemptsOK
<1> QED
  BY <1>1, <1>8, <1>9, <1>10, RecordLasts DEF IInv

LEMMA StartKeeps ==
  ASSUME IInv, StartPipelinePass \/ StartWatchdogPass \/ StartRequestedPass \/ StartCIPass
  PROVE  IInv'
<1>1. CASE StartPipelinePass
  <2>1. PICK e \in events, secret \in BOOLEAN :
          StartPass("pipeline", e, {f \in Known : record[f].run = e.run}, secret, {})
    BY <1>1 DEF StartPipelinePass
  <2>2. PICK todo : todo = {f \in Known : record[f].run = e.run}
    OBVIOUS
  <2>3. /\ "pipeline" \in Kinds /\ e \in Events \cup {Idle} /\ todo \in SUBSET Known
        /\ {} \in SUBSET Faults /\ \A f \in todo : record[f].run = e.run
    BY <2>2 DEF Kinds, IInv, Types
  <2> QED
    BY <2>1, <2>2, <2>3, PassStarts
<1>2. CASE StartWatchdogPass
  <2>1. PICK secret \in BOOLEAN : StartPass("watchdog", Idle, Known, secret, {})
    BY <1>2 DEF StartWatchdogPass
  <2>2. /\ "watchdog" \in Kinds /\ Idle \in Events \cup {Idle} /\ Known \in SUBSET Known
        /\ {} \in SUBSET Faults
    BY DEF Kinds
  <2> QED
    BY <2>1, <2>2, PassStarts
<1>3. CASE StartRequestedPass
  <2>1. PICK todo \in {Known} \cup {{f} : f \in Known}, secret \in BOOLEAN :
          StartPass("requested", Idle, todo, secret, {})
    BY <1>3 DEF StartRequestedPass
  <2>2. /\ "requested" \in Kinds /\ Idle \in Events \cup {Idle} /\ todo \in SUBSET Known
        /\ {} \in SUBSET Faults
    BY DEF Kinds
  <2> QED
    BY <2>1, <2>2, PassStarts
<1>4. CASE StartCIPass
  <2>1. PICK broken : broken = {f \in Known : ClassOf[f] = "deterministic_code"}
    OBVIOUS
  <2>2. PICK fixed \in SUBSET broken, secret \in BOOLEAN :
          StartPass("ci", Idle, broken, secret, fixed)
    BY <1>4, <2>1 DEF StartCIPass
  <2>3. /\ "ci" \in Kinds /\ Idle \in Events \cup {Idle} /\ broken \in SUBSET Known
        /\ fixed \in SUBSET Faults
    BY <2>1 DEF Kinds, Known
  <2> QED
    BY <2>2, <2>3, PassStarts
<1> QED
  BY <1>1, <1>2, <1>3, <1>4

LEMMA AbortKeeps ==
  ASSUME IInv, AbortPass
  PROVE  IInv'
<1>1. /\ pass' = Idle /\ UNCHANGED <<clock, run, events, record, receipts, issue>>
  BY DEF AbortPass
<1>2. Types' /\ AttemptsOK' /\ PassOK'
  BY <1>1 DEF IInv, Types, AttemptsOK, PassOK
<1> QED
  BY <1>1, <1>2, SameRuns, RecordLasts DEF IInv

\* Of two true incidents the newest is true.
LEMMA FinishKeeps ==
  ASSUME IInv, FinishPass
  PROVE  IInv'
<1>1. /\ pass' = Idle /\ pass # Idle /\ UNCHANGED <<clock, run, events, receipts, issue>>
      /\ record' = [f \in Faults |-> IF pass.out[f] = NoIncident THEN record[f]
                                     ELSE Newest(record[f], pass.out[f])]
  BY DEF FinishPass
<1>2. \A f \in Faults : record'[f] # NoIncident => RowOK(f, record'[f])
  <2> SUFFICES ASSUME NEW f \in Faults, record'[f] # NoIncident PROVE RowOK(f, record'[f])
    OBVIOUS
  <2>1. record'[f] \in {record[f], pass.out[f]}
    BY <1>1 DEF Newest
  <2>2. record[f] # NoIncident => RowOK(f, record[f])
    BY DEF IInv, RecordOK
  <2>3. pass.out[f] # NoIncident => RowOK(f, pass.out[f])
    BY <1>1 DEF IInv, PassOK, OutOK
  <2> QED
    BY <2>1, <2>2, <2>3
<1>3. Grows
  BY <1>1, SameRuns
<1>4. RecordOK'
  <2> SUFFICES ASSUME NEW f \in Faults, record'[f] # NoIncident PROVE RowOK(f, record[f])'
    BY DEF RecordOK
  <2>1. PICK row : row = record'[f]
    OBVIOUS
  <2>2. RowOK(f, row)'
    BY <1>2, <1>3, <2>1, RowLasts
  <2> QED
    BY <2>1, <2>2
<1>5. record' \in [Faults -> Incidents \cup {NoIncident}]
  BY <1>1, <1>2 DEF RowOK
<1>6. Types' /\ AttemptsOK' /\ PassOK'
  BY <1>1, <1>5 DEF IInv, Types, AttemptsOK, PassOK
<1> QED
  BY <1>4, <1>6 DEF IInv

\* What a pass knows of the incident that it handles.
LEMMA AtIncident ==
  ASSUME IInv, NEW f \in Faults, Handling(f)
  PROVE  /\ pass # Idle /\ pass \in Passes /\ f \in pass.todo
         /\ record[f] \in Incidents /\ record[f] # NoIncident /\ RowOK(f, record[f])
         /\ record[f].run \in Runs /\ record[f].attempts \in 0 .. MaxAttempts
         /\ \A r \in Runs : run[r].state # "running"
         /\ SaysMore(record[f], record[f])
         /\ pass.kind = "pipeline" =>
              /\ pass.event \in Events /\ record[f].run = pass.event.run
              /\ pass.event.attempt <= run[record[f].run].attempt
<1>1. pass # Idle /\ pass \in Passes /\ f \in pass.todo
  BY DEF Handling, IInv, Types
<1>2. record[f] # NoIncident
  BY <1>1 DEF IInv, PassOK, Known
<1>3. RowOK(f, record[f]) /\ record[f] \in Incidents
  BY <1>2 DEF IInv, RecordOK, RowOK
<1>4. record[f].run \in Runs /\ record[f].attempts \in 0 .. MaxAttempts
  BY <1>3 DEF Incidents
<1>5. SaysMore(record[f], record[f])
  BY <1>4 DEF SaysMore, MaxAttempts
<1>6. pass.kind = "pipeline" =>
        /\ pass.event \in Events /\ record[f].run = pass.event.run
        /\ pass.event.attempt <= run[record[f].run].attempt
  BY <1>1 DEF IInv, PassOK, EventOK
<1>7. \A r \in Runs : run[r].state # "running"
  BY <1>1 DEF IInv, PassOK
<1> QED
  BY <1>1, <1>2, <1>3, <1>4, <1>5, <1>6, <1>7

\* An incident leaves the pass.
LEMMA HandledKeeps ==
  ASSUME IInv, NEW f \in Faults, Handling(f), NEW row, RowOK(f, row)', SaysMore(record[f], row),
         pass' = Handled(f, row), Grows, AttemptsOK', \A r \in Runs : run'[r].state # "running",
         issue' \in [Faults -> Issues], UNCHANGED <<events, record, receipts>>
  PROVE  IInv'
<1>1. PICK ps \in Passes : ps = pass
  BY AtIncident
<1>2. PICK new : new = pass'
  OBVIOUS
<1>3. PICK out : out = [ps.out EXCEPT ![f] = row]
  OBVIOUS
<1>4. PICK todo : todo = ps.todo \ {f}
  OBVIOUS
<1>5. /\ new \in Passes /\ new.kind = ps.kind /\ new.event = ps.event
      /\ new.todo = ps.todo \ {f} /\ new.out[f] = row
      /\ \A g \in Faults : g # f => new.out[g] = ps.out[g]
  <2>1. row \in Incidents
    BY DEF RowOK
  <2>2. /\ out \in [Faults -> Incidents \cup {NoIncident}] /\ todo \in SUBSET Faults
        /\ out[f] = row /\ \A g \in Faults : g # f => out[g] = ps.out[g]
    BY <1>3, <1>4, <2>1 DEF Passes
  <2>3. new = [ps EXCEPT !.todo = todo, !.out = out]
    BY <1>1, <1>2, <1>3, <1>4 DEF Handled
  <2>4. /\ new \in Passes /\ new.kind = ps.kind /\ new.event = ps.event
        /\ new.todo = todo /\ new.out = out
    BY <2>2, <2>3 DEF Passes
  <2> QED
    BY <1>4, <2>2, <2>4
<1>6. OutOK'
  <2> SUFFICES ASSUME NEW g \in Faults, new.out[g] # NoIncident
               PROVE  record[g] # NoIncident /\ RowOK(g, new.out[g])' /\ SaysMore(record[g], new.out[g])
    BY <1>2 DEF OutOK, SaysMore
  <2>1. CASE g = f
    BY <1>5, <2>1, AtIncident
  <2>2. CASE g # f
    <3>1. new.out[g] = ps.out[g]
      BY <1>5, <2>2
    <3>2. record[g] # NoIncident /\ RowOK(g, ps.out[g]) /\ SaysMore(record[g], ps.out[g])
      BY <1>1, <3>1, AtIncident DEF IInv, PassOK, OutOK
    <3>3. RowOK(g, ps.out[g])'
      BY <3>2, RowLasts
    <3> QED
      BY <3>1, <3>2, <3>3
  <2> QED
    BY <2>1, <2>2
<1>7. ps.kind = "pipeline" => EventOK'
  <2> SUFFICES ASSUME ps.kind = "pipeline" PROVE EventOK'
    OBVIOUS
  <2>1. /\ ps.event \in Events /\ ps.event.attempt <= run[ps.event.run].attempt
        /\ \A g \in ps.todo : record[g].run = ps.event.run
    BY <1>1, AtIncident DEF IInv, PassOK, EventOK
  <2>2. ps.event.run \in Runs /\ ps.event.attempt \in Nat
    BY <2>1 DEF Events
  <2>3. run'[ps.event.run].attempt \in Nat /\ run[ps.event.run].attempt \in Nat
    BY <2>2 DEF Grows, IInv, Types, RunRows
  <2>4. ps.event.attempt <= run'[ps.event.run].attempt
    BY <2>1, <2>2, <2>3 DEF Grows
  <2> QED
    BY <1>2, <1>5, <2>1, <2>4 DEF EventOK
<1>8. PassOK'
  <2>1. (pass.todo \subseteq Known)'
    BY <1>1, <1>2, <1>5, AtIncident DEF IInv, PassOK, Known
  <2> QED
    BY <1>2, <1>5, <1>6, <1>7, <2>1 DEF PassOK
<1>9. Types'
  BY <1>2, <1>5 DEF IInv, Types, Grows
<1> QED
  BY <1>8, <1>9, RecordLasts DEF IInv

LEMMA Stamped ==
  ASSUME NEW row \in Incidents, NEW t \in Nat, NEW new, new = [row EXCEPT !.alert = t]
  PROVE  /\ new \in Incidents /\ new.alert = t /\ new.run = row.run /\ new.attempts = row.attempts
         /\ new.status = row.status /\ new.first = row.first /\ new.last = row.last
BY DEF Incidents

\* An incident is settled, with or without an alert.
LEMMA SettleKeeps ==
  ASSUME IInv, NEW f \in Faults, Handling(f), NEW row, RowOK(f, row)', SaysMore(record[f], row),
         NEW needed, Settle(f, row, needed), Grows, AttemptsOK',
         \A r \in Runs : run'[r].state # "running",
         UNCHANGED <<clock, events, record, receipts>>
  PROVE  IInv'
<1>1. issue \in [Faults -> Issues] /\ clock \in Nat
  BY DEF IInv, Types
<1>2. issue' \in [Faults -> Issues]
  <2>1. PICK i : i = [state |-> "open", updated |-> clock]
    OBVIOUS
  <2>2. i \in Issues
    BY <1>1, <2>1 DEF Issues
  <2>3. issue' = issue \/ issue' = [issue EXCEPT ![f] = i]
    BY <2>1 DEF Settle
  <2> QED
    BY <1>1, <2>2, <2>3
<1>3. PICK new : new = IF needed /\ ~Suppressed(f) THEN [row EXCEPT !.alert = clock] ELSE row
  OBVIOUS
<1>4. pass' = Handled(f, new)
  BY <1>3 DEF Settle
<1>5. RowOK(f, new)' /\ SaysMore(record[f], new)
  <2>1. CASE new = row
    BY <2>1
  <2>2. CASE new = [row EXCEPT !.alert = clock]
    <3>1. /\ row \in Incidents /\ row.first \in Nat /\ row.last \in Nat
          /\ row.first <= row.last /\ row.last <= clock
      BY DEF RowOK, Incidents
    <3>2. /\ new \in Incidents /\ new.alert = clock /\ new.run = row.run
          /\ new.attempts = row.attempts /\ new.status = row.status
          /\ new.first = row.first /\ new.last = row.last
      BY <1>1, <2>2, <3>1, Stamped
    <3>3. SaysMore(record[f], new)
      BY <3>2 DEF SaysMore
    <3>4. new.alert >= new.first
      BY <1>1, <3>1, <3>2
    <3>5. RowOK(f, new)'
      BY <3>2, <3>4 DEF RowOK, StatusAt, Category, Retriable
    <3> QED
      BY <3>3, <3>5
  <2> QED
    BY <1>3, <2>1, <2>2
<1> QED
  BY <1>2, <1>4, <1>5, HandledKeeps

\* The runs and the clock are as they were.
LEMMA Quiet ==
  ASSUME IInv, NEW f \in Faults, Handling(f), UNCHANGED <<clock, run, events>>
  PROVE  Grows /\ AttemptsOK' /\ \A r \in Runs : run'[r].state # "running"
BY AtIncident, SameRuns DEF IInv, AttemptsOK

LEMMA ResolveKeeps ==
  ASSUME IInv, NEW f \in Faults, ResolveIncident(f)
  PROVE  IInv'
<1>1. Handling(f) /\ UNCHANGED <<clock, run, events, record, receipts>>
  BY DEF ResolveIncident
<1>2. PICK old \in Incidents : old = record[f]
  BY <1>1, AtIncident
<1>3. PICK row : row = [old EXCEPT !.status = "RESOLVED", !.last = clock]
  OBVIOUS
<1>4. pass' = Handled(f, row)
  BY <1>2, <1>3 DEF ResolveIncident
<1>5. clock \in Nat /\ issue \in [Faults -> Issues]
  BY DEF IInv, Types
<1>6. /\ row \in Incidents /\ row.status = "RESOLVED" /\ row.last = clock /\ row.run = old.run
      /\ row.attempts = old.attempts /\ row.first = old.first /\ row.alert = old.alert
  BY <1>3, <1>5 DEF Incidents
<1>7. RowOK(f, old) /\ SaysMore(old, old)
  BY <1>1, <1>2, AtIncident
<1>8. RowOK(f, row) /\ SaysMore(old, row)
  <2>1. old.first \in Nat /\ old.last \in Nat
    BY DEF Incidents
  <2>2. old.first <= clock
    BY <1>5, <1>7, <2>1 DEF RowOK
  <2> QED
    BY <1>5, <1>6, <1>7, <2>2 DEF RowOK, SaysMore
<1>9. issue' \in [Faults -> Issues]
  <2>1. PICK i : i = [state |-> "closed", updated |-> clock]
    OBVIOUS
  <2>2. i \in Issues
    BY <1>5, <2>1 DEF Issues
  <2>3. issue' = issue \/ issue' = [issue EXCEPT ![f] = i]
    BY <2>1 DEF ResolveIncident
  <2> QED
    BY <1>5, <2>2, <2>3
<1>10. Grows /\ AttemptsOK' /\ \A r \in Runs : run'[r].state # "running"
  BY <1>1, Quiet
<1>11. RowOK(f, row)'
  BY <1>8, <1>10, RowLasts
<1> QED
  BY <1>1, <1>2, <1>4, <1>8, <1>9, <1>10, <1>11, HandledKeeps

LEMMA KeepKeeps ==
  ASSUME IInv, NEW f \in Faults, KeepIncident(f)
  PROVE  IInv'
<1>1. Handling(f) /\ UNCHANGED <<clock, run, events, record, receipts>>
  BY DEF KeepIncident
<1>2. PICK row : row = record[f]
  OBVIOUS
<1>3. RowOK(f, row) /\ SaysMore(record[f], row) /\ Settle(f, row, FALSE)
  BY <1>1, <1>2, AtIncident DEF KeepIncident
<1>4. Grows /\ AttemptsOK' /\ \A r \in Runs : run'[r].state # "running"
  BY <1>1, Quiet
<1>5. RowOK(f, row)'
  BY <1>3, <1>4, RowLasts
<1> QED
  BY <1>1, <1>3, <1>4, <1>5, SettleKeeps

\* A retry is recorded: the incident is true if the run has had that attempt.
LEMMA RecordedIsTrue ==
  ASSUME IInv, NEW f \in Faults, Retriable(f), NEW old, RowOK(f, old), old.status # "RESOLVED",
         NEW n \in 0 .. MaxAttempts, n >= old.attempts, NEW row, row = Recorded(f, old, n)
  PROVE  /\ row.run = old.run /\ row.attempts = n /\ row.status # "RESOLVED" /\ SaysMore(old, row)
         /\ n < run[old.run].attempt => RowOK(f, row)
         /\ n < run'[old.run].attempt /\ UNCHANGED clock => RowOK(f, row)'
<1>1. PICK s : s = StatusAt(f, n)
  OBVIOUS
<1>2. /\ old \in Incidents /\ old.first \in Nat /\ old.last \in Nat
      /\ old.first <= old.last /\ old.last <= clock /\ clock \in Nat
  BY DEF RowOK, Incidents, IInv, Types
<1>3. row = [old EXCEPT !.attempts = n, !.last = clock, !.status = s]
  BY <1>1 DEF Recorded
<1>4. s \in {"RETRY_SCHEDULED", "BLOCKED", "EXHAUSTED"}
  BY <1>1, StatusIsStatus
<1>5. /\ row \in Incidents /\ row.run = old.run /\ row.attempts = n /\ row.status = s
      /\ row.last = clock /\ row.first = old.first /\ row.alert = old.alert
  BY <1>2, <1>3, <1>4 DEF Incidents
<1>6. row.first <= row.last
  BY <1>2, <1>5
<1>7. row.alert # NoTime => row.alert >= row.first
  BY <1>5 DEF RowOK
<1>8. n < run[old.run].attempt => RowOK(f, row)
  BY <1>1, <1>2, <1>5, <1>6, <1>7 DEF RowOK
<1>9. n < run'[old.run].attempt /\ UNCHANGED clock => RowOK(f, row)'
  BY <1>1, <1>2, <1>5, <1>6, <1>7 DEF RowOK, StatusAt, Category, Retriable
<1> QED
  BY <1>4, <1>5, <1>8, <1>9 DEF SaysMore

\* The incident with the retries that its event shows: a failed attempt above the
\* first was a retry.
LEMMA ChargedIsTrue ==
  ASSUME IInv, NEW f \in Faults, Decides(f)
  PROVE  /\ RowOK(f, Charged(f)) /\ SaysMore(record[f], Charged(f))
         /\ Charged(f).run = record[f].run
         /\ pass.kind = "pipeline" /\ Charged(f).attempts < MaxAttempts /\ Retriable(f) =>
              pass.event.attempt <= MaxAttempts
<1>1. Handling(f) /\ ~ChargeRefused(f) /\ (pass.kind = "pipeline" => FailedEvent)
  BY DEF Decides
<1>2. /\ RowOK(f, record[f]) /\ SaysMore(record[f], record[f])
      /\ record[f].attempts \in 0 .. 2 /\ record[f].run \in Runs
      /\ pass.kind = "pipeline" =>
           /\ pass.event \in Events /\ pass.event.attempt <= run[record[f].run].attempt
  BY <1>1, AtIncident DEF MaxAttempts
<1>3. pass.kind = "pipeline" => pass.event.attempt \in Nat
  BY <1>2 DEF Events
<1>4. pass.kind = "pipeline" => /\ Observed \in Int /\ Observed <= 2
                                /\ Observed <= pass.event.attempt - 1
                                /\ pass.event.attempt > 2 => Observed = 2
  BY <1>3 DEF Observed, Least, MaxAttempts
<1>5. CASE FailedEvent /\ Retriable(f) /\ record[f].attempts < Observed
  <2>1. pass.kind = "pipeline" /\ record[f].status # "RESOLVED"
    BY <1>1, <1>5 DEF FailedEvent, ChargeRefused
  <2>2. PICK n : n = Observed
    OBVIOUS
  <2>3. PICK old : old = record[f]
    OBVIOUS
  <2>4. PICK row : row = Recorded(f, old, n)
    OBVIOUS
  <2>5. Charged(f) = row
    BY <1>5, <2>2, <2>3, <2>4 DEF Charged
  <2>6. n \in 0 .. MaxAttempts /\ n >= old.attempts
    BY <1>2, <1>4, <1>5, <2>1, <2>2, <2>3 DEF MaxAttempts
  <2>7. n < run[old.run].attempt
    <3>1. run[old.run].attempt \in Nat
      BY <1>2, <2>3 DEF IInv, Types, RunRows
    <3> QED
      BY <1>2, <1>3, <1>4, <2>1, <2>2, <2>3, <3>1
  <2>8. RowOK(f, row) /\ SaysMore(old, row) /\ row.run = old.run /\ row.attempts = n
    BY <1>2, <1>5, <2>1, <2>3, <2>4, <2>6, <2>7, RecordedIsTrue
  <2> QED
    BY <1>3, <1>4, <2>1, <2>2, <2>3, <2>5, <2>8 DEF MaxAttempts
<1>6. CASE ~(FailedEvent /\ Retriable(f) /\ record[f].attempts < Observed)
  <2>1. Charged(f) = record[f]
    BY <1>6 DEF Charged
  <2>2. pass.kind = "pipeline" /\ record[f].attempts < MaxAttempts /\ Retriable(f) =>
          pass.event.attempt <= MaxAttempts
    BY <1>1, <1>2, <1>3, <1>4, <1>6 DEF MaxAttempts
  <2> QED
    BY <1>2, <2>1, <2>2
<1> QED
  BY <1>5, <1>6

\* GitHub reruns a run: one more attempt.
LEMMA Rerun1 ==
  ASSUME IInv, NEW r \in Runs, Rerun(r), UNCHANGED <<clock, events>>
  PROVE  /\ Grows /\ AttemptsOK' /\ run'[r].state = "queued"
         /\ run'[r].attempt = run[r].attempt + 1
         /\ \A q \in Runs : q # r => run'[q] = run[q]
<1>1. PICK old \in RunRows : old = run[r]
  BY DEF IInv, Types
<1>2. PICK row : row = [old EXCEPT !.state = "queued", !.attempt = old.attempt + 1]
  OBVIOUS
<1>3. /\ row \in RunRows /\ row.state = "queued" /\ row.attempt = old.attempt + 1
      /\ old.attempt \in Nat
  <2>1. PICK n : n = old.attempt + 1
    OBVIOUS
  <2>2. n \in Nat /\ old.attempt \in Nat
    BY <2>1 DEF RunRows
  <2>3. row = [old EXCEPT !.state = "queued", !.attempt = n]
    BY <1>2, <2>1
  <2>4. row \in RunRows /\ row.state = "queued" /\ row.attempt = n
    BY <2>2, <2>3 DEF RunRows
  <2> QED
    BY <2>1, <2>2, <2>4
<1>4. run' = [run EXCEPT ![r] = row]
  BY <1>1, <1>2 DEF Rerun
<1>5. row.attempt >= run[r].attempt
  BY <1>1, <1>3
<1>6. Grows /\ run'[r] = row /\ \A q \in Runs : q # r => run'[q] = run[q]
  BY <1>3, <1>4, <1>5, RunChanged
<1>7. AttemptsOK'
  BY <1>3, <1>6, AttemptsLast
<1> QED
  BY <1>1, <1>3, <1>6, <1>7

LEMMA RetryKeeps ==
  ASSUME IInv, NEW f \in Faults, RetryIncident(f)
  PROVE  /\ IInv'
         /\ \A r \in Runs : r # record[f].run => run'[r] = run[r]
         /\ pass.kind = "pipeline" => pass.event.attempt <= MaxAttempts
<1>1. PICK old : old = Charged(f)
  OBVIOUS
<1>2. PICK r : r = record[f].run
  OBVIOUS
<1>3. PICK n : n = old.attempts + 1
  OBVIOUS
<1>4. PICK row : row = Recorded(f, old, n)
  OBVIOUS
<1>5. /\ Decides(f) /\ Handling(f) /\ MayRetry(f, old) /\ Rerun(r) /\ Settle(f, row, FALSE)
      /\ UNCHANGED <<clock, events, record, receipts>>
  BY <1>1, <1>2, <1>3, <1>4 DEF RetryIncident, Decides
<1>6. Retriable(f) /\ old.status # "RESOLVED" /\ old.attempts < MaxAttempts
  BY <1>5 DEF MayRetry
<1>7. /\ RowOK(f, old) /\ SaysMore(record[f], old) /\ old.run = r
      /\ pass.kind = "pipeline" => pass.event.attempt <= MaxAttempts
  BY <1>1, <1>2, <1>5, <1>6, ChargedIsTrue
<1>8. /\ r \in Runs /\ (\A q \in Runs : run[q].state # "running")
      /\ record[f].attempts \in 0 .. 2
  BY <1>2, <1>5, AtIncident DEF MaxAttempts
<1>9. /\ Grows /\ AttemptsOK' /\ run'[r].state = "queued" /\ run'[r].attempt = run[r].attempt + 1
      /\ \A q \in Runs : q # r => run'[q] = run[q]
  BY <1>5, <1>8, Rerun1
<1>10. n \in 0 .. MaxAttempts /\ n >= old.attempts /\ n < run'[r].attempt
  <2>1. old.attempts \in 0 .. 2 /\ old.attempts < run[r].attempt
    BY <1>7 DEF RowOK, Incidents, MaxAttempts
  <2>2. run[r].attempt \in Nat
    BY <1>8 DEF IInv, Types, RunRows
  <2> QED
    BY <1>3, <1>6, <1>9, <2>1, <2>2 DEF MaxAttempts
<1>11. RowOK(f, row)' /\ SaysMore(old, row) /\ row.attempts = n
  BY <1>4, <1>5, <1>6, <1>7, <1>10, RecordedIsTrue
<1>12. SaysMore(record[f], row)
  <2>1. old.attempts \in 0 .. 2
    BY <1>7 DEF RowOK, Incidents, MaxAttempts
  <2> QED
    BY <1>3, <1>7, <1>8, <1>11, <2>1 DEF SaysMore
<1>13. IInv'
  BY <1>5, <1>8, <1>9, <1>11, <1>12, SettleKeeps
<1> QED
  BY <1>2, <1>7, <1>9, <1>13

LEMMA ResumeKeeps ==
  ASSUME IInv, NEW f \in Faults, ResumeIncident(f)
  PROVE  /\ IInv'
         /\ \A r \in Runs : run[r].attempt = 0 \/ run'[r] = run[r]
<1>1. PICK row : row = record[f]
  OBVIOUS
<1>2. PICK needed : needed = (AlertsAtOnce(f) /\ AlertDue(row))
  OBVIOUS
<1>3. /\ Handling(f) /\ Settle(f, row, needed) /\ UNCHANGED <<clock, events, record, receipts>>
  BY <1>1, <1>2 DEF ResumeIncident, Decides
<1>4. PICK r \in Runs : Dispatch(r, f)
  BY DEF ResumeIncident
<1>5. /\ Grows /\ AttemptsOK' /\ run[r].attempt = 0 /\ run'[r].state = "queued"
      /\ \A q \in Runs : q # r => run'[q] = run[q]
  BY <1>3, <1>4, Dispatched
<1>6. /\ RowOK(f, row) /\ SaysMore(record[f], row) /\ \A q \in Runs : run[q].state # "running"
  BY <1>1, <1>3, AtIncident
<1>7. RowOK(f, row)' /\ \A q \in Runs : run'[q].state # "running"
  BY <1>5, <1>6, RowLasts
<1>8. IInv'
  BY <1>3, <1>5, <1>6, <1>7, SettleKeeps
<1> QED
  BY <1>5, <1>8

LEMMA LeaveKeeps ==
  ASSUME IInv, NEW f \in Faults, LeaveIncident(f)
  PROVE  IInv'
<1>1. PICK row : row = Charged(f)
  OBVIOUS
<1>2. PICK needed : needed = AlertNeeded(f, row)
  OBVIOUS
<1>3. /\ Decides(f) /\ Handling(f) /\ Settle(f, row, needed)
      /\ UNCHANGED <<clock, run, events, record, receipts>>
  BY <1>1, <1>2 DEF LeaveIncident, Decides
<1>4. RowOK(f, row) /\ SaysMore(record[f], row)
  BY <1>1, <1>3, ChargedIsTrue
<1>5. Grows /\ AttemptsOK' /\ \A r \in Runs : run'[r].state # "running"
  BY <1>3, Quiet
<1>6. RowOK(f, row)'
  BY <1>4, <1>5, RowLasts
<1> QED
  BY <1>3, <1>4, <1>5, <1>6, SettleKeeps

-----------------------------------------------------------------------------
(* The theorems. *)

LEMMA InitIInv == Init => IInv
<1> SUFFICES ASSUME Init PROVE IInv
  OBVIOUS
<1>1. /\ clock = 1 /\ events = {} /\ receipts = {} /\ pass = Idle
      /\ record = [f \in Faults |-> NoIncident]
      /\ run = [r \in Runs |-> [state |-> "unused", attempt |-> 0, resumes |-> NoFault]]
      /\ issue = [f \in Faults |-> [state |-> "none", updated |-> NoTime]]
  BY DEF Init
<1>2. run \in [Runs -> RunRows] /\ \A r \in Runs : run[r].attempt = 0
  BY <1>1 DEF RunRows
<1>3. issue \in [Faults -> Issues]
  BY <1>1 DEF Issues, NoTime
<1>4. Types
  BY <1>1, <1>2, <1>3 DEF Types
<1>5. AttemptsOK /\ RecordOK /\ PassOK
  BY <1>1, <1>2 DEF AttemptsOK, RecordOK, PassOK
<1> QED
  BY <1>4, <1>5 DEF IInv

LEMMA NextKeeps ==
  ASSUME IInv, [Next]_vars
  PROVE  IInv'
<1>1. CASE UNCHANGED vars
  <2>1. UNCHANGED <<clock, run, events, record, receipts, issue, pass>>
    BY <1>1 DEF vars
  <2>2. pass # Idle => \A q \in Runs : run'[q].state # "running"
    BY <2>1 DEF IInv, PassOK
  <2>3. AttemptsOK' /\ events' \subseteq Events /\ receipts' \subseteq Faults
    BY <2>1 DEF IInv, Types, AttemptsOK
  <2> QED
    BY <2>1, <2>2, <2>3, SameRuns, Keeps
<1>2. CASE Progress
  BY <1>2, ResolveKeeps, KeepKeeps, RetryKeeps, ResumeKeeps, LeaveKeeps, FinishKeeps, Zenon
    DEF Progress
<1> QED
  BY <1>1, <1>2, QueueRunKeeps, StartRunKeeps, SucceedCancelKeeps, TickForgetKeeps, FailKeeps,
     StartKeeps, AbortKeeps, Zenon DEF Next

\* What IInv says of the uploaded incidents and of a pass that is under way holds
\* of every run of the controller (run_github_controller).
THEOREM Invariance == Spec => []IInv
<1>1. IInv /\ [Next]_vars => IInv'
  BY NextKeeps
<1> QED
  BY InitIInv, <1>1, PTL DEF Spec

LEMMA TypesGiveTypeOK == IInv => TypeOK
<1> SUFFICES ASSUME IInv PROVE TypeOK
  OBVIOUS
<1>1. pass \in Passes \cup {Idle}
  BY DEF IInv, Types
<1>2. pass # Idle =>
        /\ pass.kind \in Kinds /\ pass.todo \subseteq Faults /\ pass.fixed \subseteq Faults
        /\ pass.event \in Events \cup {Idle}
        /\ pass.out \in [Faults -> Incidents \cup {NoIncident}]
  BY <1>1 DEF Passes
<1>3. pass # Idle => pass.active \in BOOLEAN /\ pass.secret \in BOOLEAN
  BY <1>1 DEF Passes
<1> QED
  BY <1>2, <1>3 DEF TypeOK, IInv, Types

\* The runs, the incidents, the issues and the pass stay of their types: the
\* count of retries of an incident never exceeds the cap (MAX_AUTOMATIC_RETRIES).
THEOREM TypeCorrectness == Spec => []TypeOK
BY Invariance, TypesGiveTypeOK, PTL

LEMMA RowsAreTrue == IInv => IncidentsAreTrue
<1> SUFFICES ASSUME IInv, NEW f \in Faults, record[f] # NoIncident
             PROVE  /\ record[f].last >= record[f].first
                    /\ record[f].alert # NoTime => record[f].alert >= record[f].first
                    /\ record[f].status # "RESOLVED" =>
                         record[f].status = StatusAt(f, record[f].attempts)
                    /\ ~Retriable(f) => record[f].attempts = 0
                    /\ record[f].attempts < run[record[f].run].attempt
  BY DEF IncidentsAreTrue, Known
<1>1. RowOK(f, record[f])
  BY DEF IInv, RecordOK
<1>2. record[f].first \in Nat /\ record[f].last \in Nat
  BY <1>1 DEF RowOK, Incidents
<1> QED
  BY <1>1, <1>2 DEF RowOK

\* Every uploaded incident is one that validate_incident accepts, and it counts
\* no retry that GitHub has not granted, whatever passes died and events came twice.
THEOREM TrueIncidents == Spec => []IncidentsAreTrue
BY Invariance, RowsAreTrue, PTL

\* What a step may not take from the incident of f.
Kept(f) ==
  /\ record'[f].run = record[f].run => record'[f].attempts >= record[f].attempts
  /\ (record[f].status = "RESOLVED" /\ record'[f].status # "RESOLVED") =>
       \E r \in Runs : run[r].state = "running" /\ run'[r].state = "failed"

LEMMA StepsForgetNothing ==
  ASSUME IInv, [Next]_vars, NEW f \in Known
  PROVE  Kept(f)
<1>1. /\ f \in Faults /\ record[f] # NoIncident /\ RowOK(f, record[f])
      /\ record[f].attempts \in 0 .. 2
  BY DEF Known, IInv, RecordOK, RowOK, Incidents, MaxAttempts
<1>2. CASE record'[f] = record[f]
  BY <1>1, <1>2 DEF Kept
<1>3. CASE \E r \in Runs, g \in Faults : Fail(r, g)
  <2>1. PICK r \in Runs, g \in Faults : Fail(r, g)
    BY <1>3
  <2>2. /\ run[r].state = "running" /\ run'[r].state = "failed"
        /\ Complete(r, "failed") /\ run[r].attempt \in Nat
    <3>1. run[r].state = "running" /\ Complete(r, "failed") /\ "failed" \in Outcomes
      BY <2>1 DEF Fail, Outcomes
    <3> QED
      BY <3>1, Completed DEF IInv, Types, RunRows
  <2>3. CASE /\ run[r].attempt \in 1 .. 3 /\ g = f
             /\ record' = [record EXCEPT ![g] = Newest(record[g], NewIncident(g, r))]
    <3>1. record'[f] \in {record[f], NewIncident(f, r)}
      BY <1>1, <2>3 DEF IInv, Types, Newest
    <3>2. CASE record'[f] = NewIncident(f, r) /\ record[f].run = r
      <4>1. /\ RowOK(f, NewIncident(f, r)) /\ NewIncident(f, r).run = r
            /\ Retriable(f) => NewIncident(f, r).attempts = run[r].attempt - 1
        BY <1>1, <2>3, NewIncidentIsTrue
      <4>2. ~Retriable(f) => record[f].attempts = 0 /\ NewIncident(f, r).attempts = 0
        BY <1>1, <4>1 DEF RowOK
      <4>3. record[f].attempts < run[r].attempt
        BY <1>1, <3>2 DEF RowOK
      <4>4. NewIncident(f, r).attempts >= record[f].attempts
        BY <1>1, <2>2, <4>1, <4>2, <4>3
      <4> QED
        BY <2>2, <3>2, <4>4 DEF Kept
    <3>3. CASE record'[f] = NewIncident(f, r) /\ record[f].run # r
      <4>1. NewIncident(f, r).run = r
        BY <1>1, <2>3, NewIncidentIsTrue
      <4> QED
        BY <2>2, <3>3, <4>1 DEF Kept
    <3> QED
      BY <1>2, <3>1, <3>2, <3>3
  <2>4. CASE \/ UNCHANGED record
             \/ /\ g # f
                /\ record' = [record EXCEPT ![g] = Newest(record[g], NewIncident(g, r))]
    <3>1. record'[f] = record[f]
      BY <1>1, <2>4 DEF IInv, Types
    <3> QED
      BY <1>2, <3>1
  <2> QED
    BY <2>1, <2>3, <2>4 DEF Fail
<1>4. CASE FinishPass
  <2>1. /\ pass # Idle
        /\ record' = [g \in Faults |-> IF pass.out[g] = NoIncident THEN record[g]
                                       ELSE Newest(record[g], pass.out[g])]
    BY <1>4 DEF FinishPass
  <2>2. record'[f] = record[f] \/ (pass.out[f] # NoIncident /\ record'[f] = pass.out[f])
    BY <1>1, <2>1 DEF Newest
  <2>3. CASE pass.out[f] # NoIncident /\ record'[f] = pass.out[f]
    <3>1. SaysMore(record[f], record'[f])
      BY <1>1, <2>1, <2>3 DEF IInv, PassOK, OutOK
    <3> QED
      BY <3>1 DEF SaysMore, Kept
  <2> QED
    BY <1>2, <2>2, <2>3
<1>5. CASE UNCHANGED record
  BY <1>2, <1>5
<1>6. CASE UNCHANGED vars
  BY <1>5, <1>6 DEF vars
<1>7. CASE Progress
  <2>1. ASSUME NEW g \in Faults, ResolveIncident(g) \/ KeepIncident(g) \/ RetryIncident(g)
                                 \/ ResumeIncident(g) \/ LeaveIncident(g)
        PROVE  UNCHANGED record
    BY <2>1 DEF ResolveIncident, KeepIncident, RetryIncident, ResumeIncident, LeaveIncident
  <2> QED
    BY <1>4, <1>5, <1>7, <2>1, Zenon DEF Progress
<1>8. ASSUME NEW r \in Runs, QueueRun(r) \/ StartRun(r) \/ Succeed(r) \/ Cancel(r)
      PROVE  UNCHANGED record
  BY <1>8 DEF QueueRun, StartRun, Succeed, Cancel
<1>9. ASSUME \/ StartPipelinePass \/ StartWatchdogPass \/ StartRequestedPass \/ StartCIPass
             \/ AbortPass \/ Tick \/ \E g \in Faults : ForgetReceipt(g)
      PROVE  UNCHANGED record
  BY <1>9 DEF StartPipelinePass, StartWatchdogPass, StartRequestedPass, StartCIPass, StartPass,
              AbortPass, Tick, ForgetReceipt
<1> QED
  BY <1>3, <1>5, <1>6, <1>7, <1>8, <1>9, Zenon DEF Next

\* The count of a failed run never falls back and a resolved incident comes back
\* only with a new failure, although a rerun uploads an incident of its own and
\* a pass that dies forgets what it charged (_latest_incidents).
THEOREM CountsLast == Spec => NothingIsForgotten
<1>1. IInv /\ [Next]_vars =>
        [\A f \in Known :
           /\ record'[f].run = record[f].run => record'[f].attempts >= record[f].attempts
           /\ (record[f].status = "RESOLVED" /\ record'[f].status # "RESOLVED") =>
                \E r \in Runs : run[r].state = "running" /\ run'[r].state = "failed"]_vars
  BY StepsForgetNothing DEF Kept
<1> QED
  BY Invariance, <1>1, PTL DEF Spec, NothingIsForgotten

LEMMA StepsRerunTwice ==
  ASSUME IInv, [Next]_vars, pass # Idle, pass.kind = "pipeline", NEW r \in Runs,
         run'[r].attempt > run[r].attempt, run[r].attempt > 0
  PROVE  pass.event.attempt <= MaxAttempts
<1>1. run[r].attempt \in Nat /\ run'[r] # run[r] /\ run[r].attempt # 0
  <2>1. run[r].attempt \in Nat
    BY DEF IInv, Types, RunRows
  <2> QED
    BY <2>1
<1>2. CASE UNCHANGED run
  BY <1>1, <1>2
<1>3. ASSUME NEW f \in Faults, RetryIncident(f)
      PROVE  pass.event.attempt <= MaxAttempts
  BY <1>3, RetryKeeps
<1>4. ASSUME NEW f \in Faults, ResumeIncident(f)
      PROVE  FALSE
  BY <1>1, <1>4, ResumeKeeps
<1>5. ASSUME NEW q \in Runs, QueueRun(q)
      PROVE  FALSE
  <2>1. PICK f \in Known \cup {NoFault} : Dispatch(q, f)
    BY <1>5 DEF QueueRun
  <2>2. f \in Faults \cup {NoFault} /\ UNCHANGED <<clock, events>>
    BY <1>5 DEF QueueRun, Known
  <2>3. run[q].attempt = 0 /\ \A s \in Runs : s # q => run'[s] = run[s]
    BY <2>1, <2>2, Dispatched
  <2> QED
    BY <1>1, <2>3
<1>6. ASSUME NEW q \in Runs, StartRun(q) \/ Succeed(q) \/ Cancel(q) \/ \E f \in Faults : Fail(q, f)
      PROVE  FALSE
  <2>1. PICK s \in {"running"} \cup Outcomes : run' = [run EXCEPT ![q].state = s] /\ UNCHANGED clock
    BY <1>6 DEF StartRun, Succeed, Cancel, Fail, Complete, Outcomes
  <2>2. run'[q].attempt = run[q].attempt /\ \A t \in Runs : t # q => run'[t] = run[t]
    BY <2>1, StateChanged
  <2> QED
    BY <1>1, <2>2
<1>7. CASE UNCHANGED vars
  BY <1>2, <1>7 DEF vars
<1>8. CASE Progress
  <2>1. ASSUME NEW g \in Faults, ResolveIncident(g) \/ KeepIncident(g) \/ LeaveIncident(g)
        PROVE  UNCHANGED run
    BY <2>1 DEF ResolveIncident, KeepIncident, LeaveIncident
  <2>2. FinishPass => UNCHANGED run
    BY DEF FinishPass
  <2> QED
    BY <1>2, <1>3, <1>4, <1>8, <2>1, <2>2, Zenon DEF Progress
<1>9. ASSUME \/ StartPipelinePass \/ StartWatchdogPass \/ StartRequestedPass \/ StartCIPass
             \/ AbortPass \/ Tick \/ \E g \in Faults : ForgetReceipt(g)
      PROVE  UNCHANGED run
  BY <1>9 DEF StartPipelinePass, StartWatchdogPass, StartRequestedPass, StartCIPass, StartPass,
              AbortPass, Tick, ForgetReceipt
<1> QED
  BY <1>2, <1>5, <1>6, <1>7, <1>8, <1>9, Zenon DEF Next

\* When a run has failed its third attempt, its event never makes the controller
\* rerun it, although the passes that charged the earlier retries were lost.
THEOREM RetriesEnd == Spec => ThirdFailureIsFinal
<1>1. IInv /\ [Next]_vars =>
        [(pass # Idle /\ pass.kind = "pipeline") =>
           \A r \in Runs : run'[r].attempt > run[r].attempt /\ run[r].attempt > 0 =>
             pass.event.attempt <= MaxAttempts]_vars
  BY StepsRerunTwice
<1> QED
  BY Invariance, <1>1, PTL DEF Spec, ThirdFailureIsFinal

=============================================================================
