---------------------------- MODULE SourceReport ----------------------------
(***************************************************************************)
(* What validate_source_search_run accepts of a persisted source search:   *)
(* every status, count and watermark of the report is recomputed from the  *)
(* rows of the attempt ledger (src/src/kubo/source_orchestrator.py).       *)
(***************************************************************************)
EXTENDS SourceAttempt, Sequences, FiniteSets, FiniteSetsExt

Rng(s) == {s[i] : i \in DOMAIN s}

\* Rows are named by their places.
Captures(rows) == {i \in DOMAIN rows : rows[i].event = "CAPTURE"}
OfSource(rows, s) == {i \in DOMAIN rows : rows[i].source = s}
OfRoute(rows, s, k) == {i \in OfSource(rows, s) : rows[i].route = k}
Net(rows, s, k) == OfRoute(rows, s, k) \cap Captures(rows)
RoutesOf(rows, s) == {rows[i].route : i \in OfSource(rows, s)}

Complete == {"QUALIFIED", "ZERO_RESULT"}

\* Strategies in order, a second attempt only after a transient failure.
Continues(a, b) ==
  \/ b.strategy = a.strategy /\ b.attempt = a.attempt + 1 /\ a.disposition = "RETRY_TRANSIENT"
  \/ b.strategy = a.strategy + 1 /\ b.attempt = 1 /\ a.disposition \in Goes

RouteOrdered(rows, net) ==
  /\ net # {}
  /\ \A i \in net :
       LET earlier == {j \in net : j < i} IN
       IF earlier = {} THEN rows[i].strategy = 1 /\ rows[i].attempt = 1
       ELSE Continues(rows[Max(earlier)], rows[i])

Unfinished(last) ==
  last.disposition = "RETRY_TRANSIENT" \/ (last.disposition \in Goes /\ last.strategy < 4)

LastOfStrategies(rows, net) ==
  {i \in net : \A j \in net : j > i => rows[j].strategy # rows[i].strategy}

\* The four strategies ended on pages without results, no two of them the same.
ZeroComplete(rows, net) ==
  LET last == LastOfStrategies(rows, net) IN
  /\ \A k \in Strategies : \E i \in last : rows[i].strategy = k
  /\ \A i \in last : rows[i].disposition = "NEXT_EMPTY_STRATEGY" /\ CountsAsZero(rows[i].answer)
  /\ Cardinality({rows[i].answer.proof : i \in last}) = 4

\* The outcome of a route, recomputed from its rows.
Recomputed(rows, s, k) ==
  LET net == Net(rows, s, k)
      last == rows[Max(net)]
      d == last.disposition
      outcome(status, covered) ==
        [status |-> status, covered |-> covered, strategies |-> last.strategy]
  IN IF rows[Max(OfRoute(rows, s, k))].event = "CONTROL"
       THEN outcome(IF last.answer.code = "RATE_LIMIT" THEN "BLOCKED" ELSE "ERROR", FALSE)
     ELSE IF ZeroComplete(rows, net) THEN outcome("ZERO_RESULT", TRUE)
     ELSE IF d = "STOP_QUALIFIED" THEN outcome("QUALIFIED", TRUE)
     ELSE IF d = "STOP_CAPTURE_PENDING_PARSER" \/ (d = "STOP_ADAPTER_QUARANTINED" /\ last.answer.content)
       THEN outcome("CAPTURED_PENDING_PARSER", FALSE)
     ELSE IF d = "STOP_HARD_BLOCK" THEN outcome(last.answer.state, FALSE)
     ELSE IF d \in {"STOP_RATE_LIMITED", "STOP_RETRY_BUDGET"} /\ last.answer.code = "RATE_LIMIT"
       THEN outcome("BLOCKED", FALSE)
     ELSE outcome("ERROR", FALSE)

\* The status of a source whose routes ended with these statuses.
SourceStatus(statuses, covered) ==
  IF covered THEN IF "QUALIFIED" \in statuses THEN "QUALIFIED" ELSE "ZERO_RESULT"
  ELSE IF "CAPTURED_PENDING_PARSER" \in statuses THEN "CAPTURED_PENDING_PARSER"
  ELSE IF "AUTH_REQUIRED" \in statuses THEN "AUTH_REQUIRED"
  ELSE IF "BLOCKED" \in statuses THEN "BLOCKED" ELSE "ERROR"

\* A control row belongs to the attempt before it.
BindsTo(a, b) ==
  /\ a.event = "CAPTURE" /\ a.disposition = "RETRY_TRANSIENT"
  /\ \A f \in {"wave", "source", "route", "strategy", "attempt", "domain"} : a[f] = b[f]

\* Waves in order; sources and routes without a gap.
RowsInOrder(rows) ==
  /\ \A i, j \in DOMAIN rows : i < j => rows[i].wave <= rows[j].wave
  /\ \A i, j, k \in DOMAIN rows :
       i < j /\ j < k /\ rows[i].source = rows[k].source =>
         /\ rows[j].source = rows[i].source
         /\ rows[i].route = rows[k].route => rows[j].route = rows[i].route
  /\ \A i \in DOMAIN rows \ Captures(rows) : i > 1 /\ BindsTo(rows[i - 1], rows[i])

\* No row is said to end as its answer cannot.
AnswersFit(rows) ==
  \A i \in Captures(rows) : DispositionFits(rows[i].answer, rows[i].disposition)

\* One attempt after the other, none longer than the time allowed, and all
\* within the time the report declares.
TimesFit(rows, elapsed, maxWall) ==
  /\ \A i \in DOMAIN rows :
       rows[i].attempted <= rows[i].completed /\ rows[i].completed <= rows[i].attempted + maxWall
  /\ \A i, j \in DOMAIN rows : i < j => rows[i].completed <= rows[j].attempted
  /\ rows # <<>> => rows[Len(rows)].completed <= rows[1].attempted + elapsed

\* A source that was not interrupted by the budget.
SourceReconciles(src, rows) ==
  LET routes == RoutesOf(rows, src.source)
      out(k) == Recomputed(rows, src.source, k)
      covered == \A k \in routes : out(k).covered
  IN /\ routes = 1..src.routes /\ src.routes > 0
     /\ \A k \in routes :
          \/ rows[Max(OfRoute(rows, src.source, k))].event = "CONTROL"
          \/ ~Unfinished(rows[Max(Net(rows, src.source, k))])
     /\ src.completed = Cardinality({k \in routes : out(k).covered})
     /\ src.strategies = [k \in 1..src.routes |-> out(k).strategies]
     /\ src.status = SourceStatus({out(k).status : k \in routes}, covered)
     /\ src.after = IF covered THEN "decision" ELSE "none"

\* The one source during which the budget ran out.
CutReconciles(src, rows) ==
  LET routes == RoutesOf(rows, src.source)
  IN /\ src.status = "ERROR" /\ src.completed = 0 /\ src.strategies = <<>>
     /\ src.after = "before"
     /\ routes = 1..Cardinality(routes) /\ Cardinality(routes) <= src.routes

Stopped(report) == {w \in DOMAIN report.waves : report.waves[w].status = "BUDGET_STOPPED"}

WaveReconciles(report, rows, w) ==
  LET wave == report.waves[w]
      reported == {s \in Rng(report.sources) : s.wave = w}
      ids == {s.source : s \in reported}
      failed == {s.source : s \in {t \in reported : t.status \notin Complete}}
  IN /\ wave.attempts = Cardinality({i \in Captures(rows) : rows[i].wave = w})
     /\ w \notin Stopped(report) =>
          /\ ids = wave.ids /\ wave.degraded = failed
          /\ wave.status = IF ids = {} THEN "EMPTY"
                           ELSE IF failed = {} THEN "COMPLETE" ELSE "DEGRADED"
     /\ w \in Stopped(report) /\ w - 1 \notin Stopped(report) =>
          ids \subseteq wave.ids /\ wave.degraded = failed /\ \E s \in reported : s.cut
     /\ w \in Stopped(report) /\ w - 1 \in Stopped(report) =>
          ids = {} /\ wave.attempts = 0 /\ wave.degraded = wave.ids

\* What is checked of the report on itself.
WellShaped(report, target) ==
  /\ \A w, v \in DOMAIN report.waves :
       w # v => report.waves[w].ids \cap report.waves[v].ids = {}
  /\ \A w \in DOMAIN report.waves : report.waves[w].degraded \subseteq report.waves[w].ids
  /\ \A i, j \in DOMAIN report.sources :
       i # j => report.sources[i].source # report.sources[j].source
  /\ \A s \in Rng(report.sources) :
       /\ s.wave \in DOMAIN report.waves /\ s.source \in report.waves[s.wave].ids
       /\ s.routes >= 1 /\ s.completed <= s.routes
  /\ Cardinality(report.domains) <= target

\* The budget that ended the run, if one did, is evidenced by a source that it
\* interrupted, with the waves from its own on stopped, or by the time used.
StopReconciles(report, maxWall) ==
  LET stopped == Stopped(report)
      cut == {s \in Rng(report.sources) : s.cut}
  IN /\ \A w, v \in DOMAIN report.waves : w \in stopped /\ w < v => v \in stopped
     /\ IF stopped # {} THEN report.stop # "NONE" /\ Cardinality(cut) = 1
        ELSE cut = {} /\ (report.stop # "NONE" => report.stop = "WALL" /\ report.elapsed >= maxWall)

\* maxWall and target are the frozen limits of the run.
Reconciles(report, rows, maxWall, target) ==
  /\ WellShaped(report, target)
  /\ RowsInOrder(rows) /\ AnswersFit(rows) /\ TimesFit(rows, report.elapsed, maxWall)
  /\ \A i \in DOMAIN rows :
       \E s \in Rng(report.sources) : s.source = rows[i].source /\ s.wave = rows[i].wave
  /\ StopReconciles(report, maxWall)
  /\ \A s \in Rng(report.sources) :
       /\ s.attempts = Cardinality(OfSource(rows, s.source) \cap Captures(rows))
       /\ \A k \in RoutesOf(rows, s.source) : RouteOrdered(rows, Net(rows, s.source, k))
       /\ IF s.cut THEN CutReconciles(s, rows) ELSE SourceReconciles(s, rows)
  /\ report.advanced = {s.source : s \in {t \in Rng(report.sources) : t.after = "decision"}}
  /\ report.domains = {rows[i].domain : i \in Captures(rows)}
  /\ \A w \in DOMAIN report.waves : WaveReconciles(report, rows, w)
  /\ report.status =
       IF /\ report.sources # <<>> /\ report.stop = "NONE"
          /\ \A s \in Rng(report.sources) : s.status \in Complete
          /\ report.subset \/ Cardinality(report.domains) >= target
       THEN "COMPLETE"
       ELSE IF report.sources # <<>> /\ rows # <<>> THEN "DEGRADED" ELSE "FAILED"

=============================================================================
