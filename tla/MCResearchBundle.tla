-------------------------- MODULE MCResearchBundle --------------------------
(* Instances of ResearchBundle: three sources in two waves, of which two    *)
(* domains fit, so that some catalogs lose a source.  Answers of every      *)
(* class are given in runs of three attempts, few answers in the longer     *)
(* runs that it takes to end all four strategies of a route without         *)
(* results, and in those where attempts take their time.                    *)
EXTENDS ResearchBundle

Answer(state, query, code, flags, content, proof) ==
  [state |-> state, query |-> query, code |-> code, flags |-> flags,
   content |-> content, proof |-> proof]

Page(query, proof) == Answer("AVAILABLE", query, "NONE", {}, TRUE, proof)
Rejected(state, code, flags, content) ==
  Answer(state, "DATA_QUALITY_REJECTED", code, flags, content, 0)

\* What a connector that keeps to the shapes of ingestion.py answers.
Regular(k) ==
  {Page("QUALIFIED", 0), Page("ZERO_RESULT", k), Page("ZERO_RESULT", 1), Page("ZERO_RESULT", 0),
   Rejected("AVAILABLE", "NONE", {"RAW"}, TRUE), Rejected("PARTIAL", "NONE", {"RAW", "EMPTY"}, TRUE),
   Rejected("PARTIAL", "EMPTY", {}, FALSE), Rejected("PARTIAL", "OTHER", {"OTHER"}, FALSE),
   Answer("PARTIAL", "PARSER_DRIFT", "NONE", {"SCHEMA"}, TRUE, 0),
   Failure("BLOCKED", "RATE_LIMIT"), Failure("BLOCKED", "HARD_BLOCK"),
   Failure("AUTH_REQUIRED", "HARD_BLOCK"), Failure("ERROR", "POLICY"), Failure("ERROR", "TRANSIENT")}

\* Answers that are accepted as well, although they contradict themselves.
Irregular ==
  {Failure("ERROR", "QUARANTINE"), Failure("ERROR", "RATE_LIMIT"), Failure("ERROR", "HARD_BLOCK"),
   Answer("BLOCKED", "BLOCKED", "NONE", {}, TRUE, 0),
   Answer("AUTH_REQUIRED", "QUALIFIED", "NONE", {}, FALSE, 0),
   Answer("ERROR", "ERROR", "TRANSIENT", {}, TRUE, 0),
   Answer("ERROR", "ZERO_RESULT", "TRANSIENT", {}, TRUE, 1),
   Rejected("AVAILABLE", "QUARANTINE", {"RAW"}, TRUE),
   Answer("UNTESTED", "QUALIFIED", "NONE", {}, TRUE, 0)}

Pages(k) == {Page("ZERO_RESULT", k), Page("ZERO_RESULT", 1), Page("QUALIFIED", 0)}
Failing(k) ==
  {Page("ZERO_RESULT", k), Page("ZERO_RESULT", 0), Failure("ERROR", "TRANSIENT"),
   Answer("PARTIAL", "PARSER_DRIFT", "NONE", {"SCHEMA"}, TRUE, 0)}
Few == {Page("QUALIFIED", 0), Failure("ERROR", "TRANSIENT"), Failure("ERROR", "QUARANTINE")}

SomeConnectors ==
  [any     |-> [answers |-> [k \in Strategies |-> Regular(k) \cup Irregular], longest |-> 0],
   regular |-> [answers |-> [k \in Strategies |-> Regular(k)], longest |-> 1],
   slow    |-> [answers |-> [k \in Strategies |-> Few], longest |-> 3],
   pages   |-> [answers |-> [k \in Strategies |-> Pages(k)], longest |-> 0],
   failing |-> [answers |-> [k \in Strategies |-> Failing(k)], longest |-> 0]]

Catalog(wave, routesOf, subset, requests, name) ==
  [wave |-> wave, routes |-> routesOf, subset |-> subset, requests |-> requests,
   connector |-> name]

SomeCatalogs ==
  {Catalog(<<1, 1, 2>>, <<<<"a", "a">>, <<"b", "b">>, <<"c">>>>, FALSE, 3, "any"),
   Catalog(<<1, 2, 1>>, <<<<"a", "b">>, <<"c">>, <<"c">>>>, FALSE, 3, "any"),
   Catalog(<<2, 2, 2>>, <<<<"a", "c">>, <<"b">>, <<"a">>>>, TRUE, 3, "regular"),
   Catalog(<<1, 1, 2>>, <<<<"a">>, <<"b">>, <<"b">>>>, TRUE, 3, "slow"),
   Catalog(<<1, 2, 2>>, <<<<"a", "a">>, <<"b">>, <<"c">>>>, FALSE, 6, "pages"),
   Catalog(<<1, 1, 2>>, <<<<"a">>, <<"b">>, <<"c">>>>, TRUE, 5, "failing")}

\* The one catalog whose runs are followed by two calls of the integration.
Integration == Catalog(<<1, 1, 2>>, <<<<"a">>, <<"a">>, <<"b">>>>, TRUE, 2, "pages")

CatalogsWithIntegration == SomeCatalogs \cup {Integration}
OnlyIntegration == {Integration}

TwoReserves == <<1, 1>>

=============================================================================
