--------------------------- MODULE SourceAttempt ----------------------------
(***************************************************************************)
(* One capture attempt of a source search: what a connector may answer,    *)
(* how the answer is classified, and what the search does next             *)
(* (CaptureResult in src/src/kubo/ingestion.py, source_resilience.py,      *)
(* _disposition and the checks of the ledger in source_orchestrator.py).   *)
(* A code and a flag stand for their class, bytes for the query they       *)
(* answer.                                                                 *)
(***************************************************************************)
EXTENDS Naturals

MaxAttempts == 2
Strategies == 1..4

States == {"AVAILABLE", "PARTIAL", "BLOCKED", "AUTH_REQUIRED", "ERROR", "UNTESTED"}
Queries == {"QUALIFIED", "ZERO_RESULT", "BLOCKED", "ERROR", "AUTH_REQUIRED", "PARSER_DRIFT",
            "DATA_QUALITY_REJECTED"}

\* POLICY: the hard blocks that the validator knows as such in any error;
\* SCHEMA: the flags of a quarantine; RAW: others that name parser or schema.
Codes == {"NONE", "EMPTY", "RATE_LIMIT", "HARD_BLOCK", "POLICY", "QUARANTINE", "TRANSIENT", "OTHER"}
Flags == {"EMPTY", "SCHEMA", "RAW", "OTHER"}

\* What a connector can answer to strategy k: the search asks no more of it
\* than this.  A proof, the hash of the bytes of a page without results, is
\* known by the strategy that first drew them; 0 if there is none.
Answers(k) ==
  {r \in [state : States, query : Queries, code : Codes, flags : SUBSET Flags,
          content : BOOLEAN, proof : 0..k] :
     r.proof # 0 => r.query = "ZERO_RESULT" /\ r.content}

Failure(st, code) ==
  [state |-> st, query |-> st, code |-> code, flags |-> {}, content |-> FALSE, proof |-> 0]

\* Put in the place of an answer whose bytes could not be written.
Unsaved == Failure("ERROR", "OTHER")

Classify(r) ==
  IF r.code = "RATE_LIMIT" THEN "RATE_LIMITED"
  ELSE IF r.code = "QUARANTINE" \/ r.query = "PARSER_DRIFT" \/ "SCHEMA" \in r.flags
    THEN "QUARANTINE"
  ELSE IF r.code \in {"HARD_BLOCK", "POLICY"} \/ r.state \in {"BLOCKED", "AUTH_REQUIRED"}
    THEN "HARD_BLOCK"
  ELSE IF r.code = "TRANSIENT" /\ r.state = "ERROR" THEN "TRANSIENT" ELSE "NONE"

ExplicitEmpty(r) == r.query = "ZERO_RESULT" \/ r.code = "EMPTY" \/ "EMPTY" \in r.flags

\* The disposition of an answer that is no failure of its source, or is an empty
\* page in spite of it.
Unclassified(r, strategy) ==
  IF r.state = "AVAILABLE" /\ r.query = "QUALIFIED" /\ r.content /\ r.flags = {}
  THEN "STOP_QUALIFIED"
  ELSE IF ExplicitEmpty(r) THEN "NEXT_EMPTY_STRATEGY"
  ELSE IF r.content THEN "STOP_CAPTURE_PENDING_PARSER"
  ELSE IF strategy = 4 THEN "STOP_STRATEGIES_EXHAUSTED" ELSE "NEXT_REJECTED_STRATEGY"

\* Mutant: one retry too many.
MayRetryAgain(attempt) == attempt <= MaxAttempts

MayRetry(attempt) == attempt < MaxAttempts

Disposition(r, attempt, strategy) ==
  LET class == Classify(r) IN
  CASE class = "RATE_LIMITED" -> "STOP_RATE_LIMITED"
    [] class = "HARD_BLOCK" -> "STOP_HARD_BLOCK"
    [] class = "QUARANTINE" -> "STOP_ADAPTER_QUARANTINED"
    [] class = "TRANSIENT" /\ ~ExplicitEmpty(r) ->
         IF MayRetry(attempt) THEN "RETRY_TRANSIENT" ELSE "STOP_TRANSIENT_SOURCE_FAILOVER"
    [] OTHER -> Unclassified(r, strategy)

\* After one of these the adapter of the source is closed for the run.
OpensCircuit == {"STOP_RATE_LIMITED", "STOP_HARD_BLOCK", "STOP_ADAPTER_QUARANTINED",
                 "STOP_TRANSIENT_SOURCE_FAILOVER"}

Goes == {"NEXT_EMPTY_STRATEGY", "NEXT_REJECTED_STRATEGY"}

\* A page without results counts only with its own proof.
CountsAsZero(r) ==
  r.state = "AVAILABLE" /\ r.query = "ZERO_RESULT" /\ r.content /\ r.flags = {} /\ r.proof # 0

\* The status of a route that ends on answer r with disposition d.
StatusOf(r, d) ==
  CASE d = "STOP_QUALIFIED" -> "QUALIFIED"
    [] d = "STOP_CAPTURE_PENDING_PARSER" -> "CAPTURED_PENDING_PARSER"
    [] d = "STOP_ADAPTER_QUARANTINED" -> IF r.content THEN "CAPTURED_PENDING_PARSER" ELSE "ERROR"
    [] d = "STOP_HARD_BLOCK" -> r.state
    [] d \in {"STOP_RATE_LIMITED", "STOP_RETRY_BUDGET", "STOP_SLEEPER_FAILURE"} /\ r.code = "RATE_LIMIT" -> "BLOCKED"
    [] OTHER -> "ERROR"

\* What the validator takes for a refusal, and for a failure of the parser.
RefusalShaped(r) ==
  /\ r.query = r.state
  /\ r.state \in {"BLOCKED", "AUTH_REQUIRED"} \/ (r.state = "ERROR" /\ r.code = "POLICY")
NamesParser(r) == r.query = "PARSER_DRIFT" \/ r.flags \cap {"SCHEMA", "RAW"} # {}

\* What the validator of a persisted run allows a row to say of an answer.
DispositionFits(r, d) ==
  CASE d = "STOP_QUALIFIED" ->
         r.state = "AVAILABLE" /\ r.query = "QUALIFIED" /\ r.content /\ r.flags = {}
    [] d = "STOP_HARD_BLOCK" ->
         RefusalShaped(r) /\ ~r.content
    [] d = "STOP_CAPTURE_PENDING_PARSER" ->
         r.state \notin {"BLOCKED", "AUTH_REQUIRED"} /\ r.content
    [] d = "STOP_ADAPTER_QUARANTINED" -> NamesParser(r)
    [] d = "STOP_RATE_LIMITED" -> r.code = "RATE_LIMIT" /\ r.state = "BLOCKED" /\ ~r.content
    [] d \in {"RETRY_TRANSIENT", "STOP_RETRY_BUDGET"} ->
         (r.state = "ERROR" \/ r.code = "RATE_LIMIT") /\ ~r.content
    [] d = "STOP_TRANSIENT_SOURCE_FAILOVER" -> r.state = "ERROR" /\ ~r.content
    [] d = "NEXT_EMPTY_STRATEGY" -> ExplicitEmpty(r)
    [] OTHER -> d \in {"NEXT_REJECTED_STRATEGY", "STOP_STRATEGIES_EXHAUSTED"}

\* An answer that agrees with itself: a refusal has the shape of one and brings
\* no bytes, a quarantine names the parser, and a failure that passes brings no
\* bytes either, unless it is an empty page.
Coherent(r) ==
  LET class == Classify(r) IN
  CASE class = "RATE_LIMITED" -> r.state = "BLOCKED" /\ ~r.content
    [] class = "HARD_BLOCK" -> RefusalShaped(r) /\ ~r.content
    [] class = "QUARANTINE" -> NamesParser(r)
    [] class = "TRANSIENT" -> ~r.content \/ ExplicitEmpty(r)
    [] OTHER -> TRUE

=============================================================================
