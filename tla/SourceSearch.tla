---------------------------- MODULE SourceSearch ----------------------------
(***************************************************************************)
(* A source search run (SourceSearchOrchestrator.run in                    *)
(* src/src/kubo/source_orchestrator.py): waves of sources, each with its   *)
(* routes, four strategies to a route and two attempts to a strategy, one  *)
(* row in the attempt ledger per attempt, a circuit per failed source, and *)
(* budgets of requests, domains and time.  The report that the run ends    *)
(* with is checked by the validator of SourceReport.                       *)
(***************************************************************************)
EXTENDS SourceReport

CONSTANTS
  NumSources,   \* sources are numbered in the order of their names
  Reserves,     \* Reserves[w]: the domains kept for wave w
  Catalogs,     \* what a run may start with: see CatalogsAssumption
  Connectors,   \* Connectors[n]: what connector n may answer, and how slowly
  MaxDomains,   \* the frozen limits: domains, also the target,
  MaxWall       \*   and time, in units of the longest retry delay

Sources == 1..NumSources
Waves == 1..Len(Reserves)

\* LaterReserve[w]: the domains kept for the waves after w.
LaterReserve[w \in 0..Len(Reserves)] ==
  IF w = Len(Reserves) THEN 0 ELSE Reserves[w + 1] + LaterReserve[w + 1]

ASSUME LimitsAssumption ==
  /\ Reserves \in Seq(Nat) /\ {NumSources, MaxDomains, MaxWall} \subseteq Nat
  /\ LaterReserve[0] <= MaxDomains

\* The wave of each source, the domain of each of its routes, whether the caller
\* selected the sources, the frozen limit of capture attempts, and the name of
\* the connector.
ASSUME CatalogsAssumption ==
  \A c \in Catalogs :
    /\ c.wave \in [Sources -> Waves]
    /\ \A s \in Sources : c.routes[s] \in Seq(Rng(c.routes[s])) \ {<<>>}
    /\ c.subset \in BOOLEAN /\ c.requests \in Nat
    /\ c.connector \in DOMAIN Connectors

\* Bound: longest, the time from one attempt to the next; the code has none.
ASSUME ConnectorsAssumption ==
  \A n \in DOMAIN Connectors :
    /\ \A k \in Strategies : Connectors[n].answers[k] \subseteq Answers(k)
    /\ Connectors[n].longest \in Nat

VARIABLES
  catalog,
  plan,      \* plan[w]: the sources of wave w, in the order they are run
  undecided, deferred,   \* the sources that are still to be planned
  pc, at,    \* what comes next, and for which wave, source, route, ...
  rows,      \* the attempts the process knows of
  file,      \* the rows of the ledger file, the last one perhaps torn
  zeros,     \* proofs of pages without results on this route
  routes,    \* the outcomes of the routes of this source
  sources, waves, advanced,   \* the results so far
  circuits,  \* the sources whose adapter is closed
  domains, elapsed, stop, status

vars == <<catalog, plan, undecided, deferred, pc, at, rows, file, zeros, routes,
          sources, waves, advanced, circuits, domains, elapsed, stop, status>>
search == <<pc, at, rows, file, zeros, routes, sources, waves, advanced, circuits,
            domains, elapsed, stop, status>>
planned == <<catalog, plan, undecided, deferred>>
progress == <<planned, status>>
results == <<sources, waves, advanced, stop>>

Torn == "TORN"

-----------------------------------------------------------------------------
(* The plan: waves in order, the sources of a wave by name. *)

Earlier(s, t) ==
  catalog.wave[s] < catalog.wave[t] \/ (catalog.wave[s] = catalog.wave[t] /\ s < t)
First(s, S) == s \in S /\ \A t \in S \ {s} : Earlier(s, t)

DomainsOf(s) == Rng(catalog.routes[s])
Used(W) == UNION {DomainsOf(s) : s \in UNION {Rng(plan[w]) : w \in W}}

\* Mutant: a wave may use what is kept for the later ones.
CeilingWhole(w) == MaxDomains

\* What waves up to w may use.
Ceiling(w) == MaxDomains - LaterReserve[w]

Fits(s, ceiling) == Cardinality(Used(Waves) \cup DomainsOf(s)) <= ceiling
Take(s) == plan' = [plan EXCEPT ![catalog.wave[s]] = Append(@, s)]

\* A source that does not fit below the ceiling of its wave is deferred.
Choose ==
  /\ pc = "plan"
  /\ \E s \in Sources :
       /\ First(s, undecided) /\ undecided' = undecided \ {s}
       /\ IF catalog.subset \/ Fits(s, Ceiling(catalog.wave[s]))
          THEN Take(s) /\ UNCHANGED deferred
          ELSE deferred' = deferred \cup {s} /\ UNCHANGED plan
  /\ UNCHANGED <<catalog, search>>

\* What the later waves have left goes to the deferred sources.
Fill ==
  /\ pc = "plan" /\ undecided = {}
  /\ \E s \in Sources :
       /\ First(s, deferred) /\ deferred' = deferred \ {s}
       /\ IF Fits(s, MaxDomains) THEN Take(s) ELSE UNCHANGED plan
  /\ UNCHANGED <<catalog, undecided, search>>

BeginRun ==
  /\ pc = "plan" /\ undecided = {} /\ deferred = {}
  /\ pc' = "wave"
  /\ UNCHANGED <<progress, results, at, rows, file, zeros, routes, circuits, domains, elapsed>>

-----------------------------------------------------------------------------
\* before and start count the attempts before this wave and this source.
At(wave, turn, before, start) ==
  [wave |-> wave, turn |-> turn, route |-> 1, strategy |-> 1, attempt |-> 1, delay |-> 0,
   before |-> before, start |-> start]

\* The process may be suspended before its first attempt.
Init ==
  /\ catalog \in Catalogs /\ plan = [w \in Waves |-> <<>>]
  /\ undecided = Sources /\ deferred = {}
  /\ pc = "plan" /\ at = At(1, 0, 0, 0)
  /\ rows = <<>> /\ file = <<>> /\ zeros = {} /\ routes = <<>>
  /\ sources = <<>> /\ waves = <<>> /\ advanced = {}
  /\ circuits = {} /\ domains = {} /\ elapsed \in {0, MaxWall}
  /\ stop = "NONE" /\ status = "NONE"

Source == plan[at.wave][at.turn]
Domain == catalog.routes[Source][at.route]
Attempts == Cardinality(Captures(rows))

WaveResult(st, attempts, degraded) ==
  [status |-> st, ids |-> Rng(plan[at.wave]), attempts |-> attempts, degraded |-> degraded]

\* After the budget ran out the remaining waves are only listed.
BeginWave ==
  /\ pc = "wave" /\ at.wave \in Waves
  /\ IF stop = "NONE"
     THEN pc' = "source" /\ at' = At(at.wave, 1, Attempts, Attempts) /\ UNCHANGED waves
     ELSE /\ waves' = Append(waves, WaveResult("BUDGET_STOPPED", 0, Rng(plan[at.wave])))
          /\ at' = At(at.wave + 1, 0, 0, 0) /\ UNCHANGED pc
  /\ UNCHANGED <<progress, rows, file, zeros, routes, sources, advanced, circuits,
                 domains, elapsed, stop>>

BeginSource ==
  /\ pc = "source" /\ at.turn <= Len(plan[at.wave])
  /\ pc' = "attempt" /\ routes' = <<>> /\ zeros' = {}
  /\ at' = At(at.wave, at.turn, at.before, Attempts)
  /\ UNCHANGED <<progress, results, rows, file, circuits, domains, elapsed>>

Degraded(srcs) == {s.source : s \in {t \in Rng(srcs) : t.wave = at.wave /\ t.status \notin Complete}}

EndWave ==
  /\ pc = "source" /\ at.turn > Len(plan[at.wave])
  /\ LET bad == Degraded(sources)
         st == IF plan[at.wave] = <<>> THEN "EMPTY" ELSE IF bad = {} THEN "COMPLETE" ELSE "DEGRADED"
     IN waves' = Append(waves, WaveResult(st, Attempts - at.before, bad))
  /\ pc' = "wave" /\ at' = At(at.wave + 1, 0, 0, 0)
  /\ UNCHANGED <<progress, rows, file, zeros, routes, sources, advanced, circuits,
                 domains, elapsed, stop>>

\* The budget that forbids the next attempt.
Exhausted ==
  IF Domain \notin domains /\ Cardinality(domains) >= MaxDomains THEN "DOMAINS"
  ELSE IF Attempts >= catalog.requests THEN "REQUESTS"
  ELSE IF elapsed >= MaxWall THEN "WALL" ELSE "NONE"

\* Mutant: the interrupted source reports the routes it has finished.
CutWithRoutes ==
  [source |-> Source, wave |-> at.wave, status |-> "ERROR", cut |-> TRUE,
   routes |-> Len(catalog.routes[Source]), attempts |-> Attempts - at.start,
   completed |-> Len(routes), strategies |-> <<>>, after |-> "before"]

CutSource ==
  [source |-> Source, wave |-> at.wave, status |-> "ERROR", cut |-> TRUE,
   routes |-> Len(catalog.routes[Source]), attempts |-> Attempts - at.start,
   completed |-> 0, strategies |-> <<>>, after |-> "before"]

\* The source and its wave end; the waves to come are stopped as well.
BudgetStop ==
  /\ pc = "attempt" /\ Exhausted # "NONE"
  /\ stop' = Exhausted
  /\ sources' = Append(sources, CutSource)
  /\ waves' = Append(waves, WaveResult("BUDGET_STOPPED", Attempts - at.before, Degraded(sources')))
  /\ pc' = "wave" /\ at' = At(at.wave + 1, 0, 0, 0)
  /\ UNCHANGED <<progress, rows, file, zeros, routes, advanced, circuits, domains, elapsed>>

Row(event, r, d, attempted, completed) ==
  [event |-> event, wave |-> at.wave, source |-> Source, route |-> at.route,
   strategy |-> at.strategy, attempt |-> at.attempt, answer |-> r,
   disposition |-> d, domain |-> Domain, attempted |-> attempted, completed |-> completed]

Write(row) == rows' = Append(rows, row) /\ file' = Append(file, row)

EndRoute(st, covered) ==
  /\ routes' = Append(routes, [status |-> st, covered |-> covered, strategies |-> at.strategy])
  /\ pc' = "route" /\ UNCHANGED at

\* A retry whose delay would outlast the time left is not made.
Decided(r, delay, now) ==
  LET d == Disposition(r, at.attempt, at.strategy)
  IN IF d = "RETRY_TRANSIENT" /\ delay >= MaxWall - now THEN "STOP_RETRY_BUDGET" ELSE d

\* The row is written; the answer decides where the search goes on.
Follow(r, d, delay) ==
  /\ circuits' = IF d \in OpensCircuit THEN circuits \cup {Source} ELSE circuits
  /\ zeros' = IF d = "NEXT_EMPTY_STRATEGY" /\ CountsAsZero(r) THEN zeros \cup {r.proof} ELSE zeros
  /\ IF d = "RETRY_TRANSIENT"
     THEN pc' = "sleep" /\ at' = [at EXCEPT !.delay = delay] /\ UNCHANGED routes
     ELSE IF d \in Goes /\ at.strategy < 4
     THEN /\ at' = [at EXCEPT !.strategy = @ + 1, !.attempt = 1]
          /\ UNCHANGED <<pc, routes>>
     ELSE IF d \in Goes /\ Cardinality(zeros') = 4
     THEN EndRoute("ZERO_RESULT", TRUE)
     ELSE EndRoute(StatusOf(r, d), d = "STOP_QUALIFIED")

Connector == Connectors[catalog.connector]

\* An answer whose bytes cannot be saved is recorded as a failure.  The times of
\* the row are read while the clock goes on to elapsed'.
Attempt ==
  /\ pc = "attempt" /\ Exhausted = "NONE"
  /\ elapsed' \in elapsed..(elapsed + Connector.longest)
  /\ \E answer \in Connector.answers[at.strategy], delay \in {0, 1}, saved \in BOOLEAN,
        attempted, completed \in elapsed..elapsed' :
       LET r == IF saved THEN answer ELSE Unsaved
           d == IF saved THEN Decided(r, delay, completed) ELSE "NEXT_REJECTED_STRATEGY"
       IN /\ attempted <= completed
          /\ saved \/ answer.content
          /\ Classify(answer) = "TRANSIENT" \/ delay = 0
          /\ Write(Row("CAPTURE", r, d, attempted, completed))
          /\ Follow(r, d, delay)
  /\ domains' = domains \cup {Domain}
  /\ UNCHANGED <<progress, results>>

\* The row is written in part: the exception ends the run without a report.
AppendFails ==
  /\ (pc = "attempt" /\ Exhausted = "NONE") \/ pc = "sleep"
  /\ file' = Append(file, Torn)
  /\ pc' = "dead"
  /\ UNCHANGED <<progress, results, at, rows, zeros, routes, circuits, domains, elapsed>>

Sleep ==
  /\ pc = "sleep"
  /\ elapsed' = elapsed + at.delay
  /\ pc' = "attempt" /\ at' = [at EXCEPT !.attempt = @ + 1, !.delay = 0]
  /\ UNCHANGED <<progress, results, rows, file, zeros, routes, circuits, domains>>

SleeperFails ==
  /\ pc = "sleep"
  /\ LET last == rows[Len(rows)]
     IN /\ Write(Row("CONTROL", last.answer, "STOP_SLEEPER_FAILURE",
                     last.completed, last.completed))
        /\ EndRoute(StatusOf(last.answer, "STOP_SLEEPER_FAILURE"), FALSE)
  /\ UNCHANGED <<progress, results, zeros, circuits, domains, elapsed>>

\* Mutant: the next route is tried although the adapter is closed.
RoutesLeftAnyway == Len(routes) < Len(catalog.routes[Source])

RoutesLeft == Source \notin circuits /\ Len(routes) < Len(catalog.routes[Source])

NextRoute ==
  /\ pc = "route" /\ RoutesLeft
  /\ pc' = "attempt" /\ zeros' = {}
  /\ at' = [at EXCEPT !.route = @ + 1, !.strategy = 1, !.attempt = 1, !.delay = 0]
  /\ UNCHANGED <<progress, results, rows, file, routes, circuits, domains, elapsed>>

\* Only a source whose every route was covered moves its watermark.
EndSource ==
  /\ pc = "route" /\ ~RoutesLeft
  /\ LET covered == \A r \in Rng(routes) : r.covered
     IN /\ sources' = Append(sources,
             [source |-> Source, wave |-> at.wave, cut |-> FALSE,
              status |-> SourceStatus({r.status : r \in Rng(routes)}, covered),
              routes |-> Len(routes), attempts |-> Attempts - at.start,
              completed |-> Cardinality({k \in DOMAIN routes : routes[k].covered}),
              strategies |-> [k \in DOMAIN routes |-> routes[k].strategies],
              after |-> IF covered THEN "decision" ELSE "none"])
        /\ advanced' = IF covered THEN advanced \cup {Source} ELSE advanced
  /\ pc' = "source" /\ at' = [at EXCEPT !.turn = @ + 1]
  /\ UNCHANGED <<progress, rows, file, zeros, routes, waves, circuits, domains, elapsed, stop>>

\* The ledger is read back and the report is made.
Finish ==
  /\ pc = "wave" /\ at.wave \notin Waves
  /\ IF file # rows
     THEN pc' = "dead" /\ UNCHANGED <<stop, status>>
     ELSE /\ pc' = "done"
          /\ stop' = IF stop = "NONE" /\ elapsed >= MaxWall THEN "WALL" ELSE stop
          /\ status' =
               IF /\ sources # <<>> /\ \A s \in Rng(sources) : s.status \in Complete
                  /\ stop' = "NONE" /\ (catalog.subset \/ Cardinality(domains) >= MaxDomains)
               THEN "COMPLETE"
               ELSE IF sources # <<>> /\ rows # <<>> THEN "DEGRADED" ELSE "FAILED"
  /\ UNCHANGED <<planned, at, rows, file, zeros, routes, sources, waves, advanced,
                 circuits, domains, elapsed>>

Next ==
  \/ Choose \/ Fill \/ BeginRun
  \/ BeginWave \/ BeginSource \/ EndWave \/ BudgetStop \/ Attempt \/ AppendFails
  \/ Sleep \/ SleeperFails \/ NextRoute \/ EndSource \/ Finish

Spec == Init /\ [][Next]_vars

-----------------------------------------------------------------------------
Report ==
  [status |-> status, waves |-> waves, sources |-> sources, advanced |-> advanced,
   stop |-> stop, elapsed |-> elapsed, domains |-> domains, subset |-> catalog.subset]

TypeOK ==
  /\ catalog \in Catalogs /\ plan \in [Waves -> Seq(Sources)]
  /\ undecided \subseteq Sources /\ deferred \subseteq Sources
  /\ pc \in {"plan", "wave", "source", "attempt", "sleep", "route", "done", "dead"}
  /\ at \in [wave : 1..(Len(Reserves) + 1), turn : Nat, route : Nat, strategy : Strategies,
              attempt : 1..MaxAttempts, delay : {0, 1}, before : Nat, start : Nat]
  /\ zeros \subseteq Strategies
  /\ circuits \subseteq Sources /\ advanced \subseteq Sources
  /\ Len(rows) <= 2 * catalog.requests /\ Len(file) <= Len(rows) + 1
  /\ elapsed \in Nat
  /\ stop \in {"NONE", "DOMAINS", "REQUESTS", "WALL"}
  /\ status \in {"NONE", "COMPLETE", "DEGRADED", "FAILED"}

\* Wherever the budgets, the sleeper or the disk interrupt the run: the validator
\* accepts the report that the run makes exactly if every answer in the ledger
\* agrees with itself and no attempt outlasted the time allowed for the run.
ReportReconciles ==
  pc = "done" =>
    /\ file = rows
    /\ Reconciles(Report, rows, MaxWall, MaxDomains) <=>
         \A i \in Captures(rows) :
           Coherent(rows[i].answer) /\ rows[i].completed <= rows[i].attempted + MaxWall

\* A source is left at once, and for the rest of the run, when its circuit
\* opens, and no strategy is tried more than twice, in any order of failures.
SourcesFailOver ==
  /\ \A i, j \in DOMAIN rows :
       /\ i < j /\ rows[i].disposition \in OpensCircuit => rows[i].source # rows[j].source
       /\ i < j /\ rows[i].event = "CAPTURE" /\ rows[j].event = "CAPTURE" =>
            \/ \E f \in {"source", "route", "strategy", "attempt"} : rows[i][f] # rows[j][f]
  /\ Attempts <= catalog.requests /\ Cardinality(domains) <= MaxDomains

\* The default plan stays within the cap, leaves out no source that would fit,
\* and no wave loses a source to the earlier waves before its reserve is used.
PlanKeepsReserves ==
  pc # "plan" /\ ~catalog.subset =>
    /\ Cardinality(Used(Waves)) <= MaxDomains
    /\ \A s \in Sources : s \notin Rng(plan[catalog.wave[s]]) =>
         /\ ~Fits(s, MaxDomains)
         /\ Cardinality(Used({catalog.wave[s]}) \cup DomainsOf(s)) > Reserves[catalog.wave[s]]

=============================================================================
