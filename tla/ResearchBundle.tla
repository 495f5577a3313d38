--------------------------- MODULE ResearchBundle ---------------------------
(***************************************************************************)
(* The integration of a source search (build_integrated_research_bundle in *)
(* src/src/kubo/kuwait_research_pipeline.py): the run is validated, and a  *)
(* bundle that names its status is published through AtomicOutput.  Two    *)
(* calls may race for the same output.                                     *)
(***************************************************************************)
EXTENDS SourceSearch, OutputEntries

CONSTANT Integrated   \* bound: the catalogs whose runs are integrated

ASSUME IntegratedAssumption == Integrated \subseteq Catalogs

VARIABLES here, output, staged, call, mishaps

publication == <<here, output, staged, call, mishaps>>

Output == INSTANCE AtomicOutput

\* What the call demands of the search, which may still be under way, may have
\* ended without a report, or may have failed.
Integrable ==
  /\ pc = "done" /\ status \in {"COMPLETE", "DEGRADED"}
  /\ \E i \in DOMAIN rows : rows[i].answer.content
  /\ Reconciles(Report, rows, MaxWall, MaxDomains)

\* The bundle depends on the search alone, which has ended.
Publish ==
  /\ \E c \in Calls : \/ Integrable /\ catalog \in Integrated /\ Output!Enter(c)
                      \/ Output!Step(c)
  /\ UNCHANGED vars

\* Before the first call nothing that happens to the directory matters.
Disturbed ==
  /\ \E c \in Calls : call[c].at # "idle"
  /\ Output!Disturb
  /\ UNCHANGED vars

BundleInit == Init /\ Output!Init
BundleNext == (Next /\ UNCHANGED publication) \/ Publish \/ Disturbed
BundleSpec == BundleInit /\ [][BundleNext]_<<vars, publication>>

-----------------------------------------------------------------------------
\* Search and publication stay in their types.
BundleTypeOK == TypeOK /\ Output!TypeOK

\* No bundle is replaced, by the other call or by anyone, and none is in parts.
PublishedIsFinal == Output!PublishedIsFinal
\* A call of the integration that returns has published its bundle; one that
\* raises has left nothing behind, and has published only if it was cut short.
AnswersAreTrue == Output!AnswersAreTrue

=============================================================================
