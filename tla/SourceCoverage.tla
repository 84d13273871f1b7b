--------------------------- MODULE SourceCoverage ---------------------------
(***************************************************************************)
(* What the declared source coverage lets the audit compute: the status of *)
(* each dependency of a definition in a cohort, whether the definition can *)
(* be rebuilt there, and how much of the three-month horizon that leaves.  *)
(***************************************************************************)
EXTENDS Sequences, FiniteSets, Naturals, KpiDefinitions

Cohorts == <<"2026-04", "2026-05", "2026-06">>
CohortNames == {Cohorts[i] : i \in DOMAIN Cohorts}

CoverageStatus ==
  { "AVAILABLE_COMPLETE", "AVAILABLE_PARTIAL",
    "UNAVAILABLE_NOT_RETAINED", "UNKNOWN" }

\* A declaration lists each dependency in at most one category.
CoverageDeclaration ==
  { d \in [ cohort      : CohortNames,
            complete    : SUBSET AllDependencies,
            partial     : SUBSET AllDependencies,
            unavailable : SUBSET AllDependencies,
            unknown     : SUBSET AllDependencies ] :
      /\ d.complete \cap (d.partial \cup d.unavailable \cup d.unknown) = {}
      /\ d.partial \cap (d.unavailable \cup d.unknown) = {}
      /\ d.unavailable \cap d.unknown = {} }

\* A dependency nobody declared is UNKNOWN.
CoverageRecords(declaration, dependencies) ==
  [ dependency \in dependencies |->
      CASE dependency \in declaration.unavailable -> "UNAVAILABLE_NOT_RETAINED"
        [] dependency \in declaration.partial     -> "AVAILABLE_PARTIAL"
        [] dependency \in declaration.complete    -> "AVAILABLE_COMPLETE"
        [] OTHER                                  -> "UNKNOWN" ]

\* The reason codes of a refusal: each dependency that is not complete, with
\* its status.
Gaps(definition, declaration) ==
  LET statuses == CoverageRecords(declaration, DependenciesOf(definition))
  IN  { <<statuses[d], d>> :
          d \in {x \in DOMAIN statuses : statuses[x] # "AVAILABLE_COMPLETE"} }

FullyReconstructable(definition, declaration) ==
  Gaps(definition, declaration) = {}

\* One cohort's verdict for one definition.
AssessReconstructability(definition, declaration) ==
  [ cohort       |-> declaration.cohort,
    version      |-> definition.version,
    status       |-> IF FullyReconstructable(definition, declaration)
                     THEN "FULLY_RECONSTRUCTABLE" ELSE "NOT_RECONSTRUCTABLE",
    reason_codes |-> Gaps(definition, declaration) ]

\* {item.cohort: item for item in items}: of two items for a cohort, the later.
LastFor(cohort, items) ==
  items[CHOOSE i \in DOMAIN items :
          /\ items[i].cohort = cohort
          /\ \A j \in DOMAIN items : items[j].cohort = cohort => j <= i]

HorizonOfAnyVerdict(reconstructability) ==
  LET full == { reconstructability[i].cohort :
                  i \in {j \in DOMAIN reconstructability :
                           reconstructability[j].status = "FULLY_RECONSTRUCTABLE"} }
  IN  [ fully_reconstructable_cohorts     |-> full,
        non_reconstructable_cohorts       |-> CohortNames \ full,
        status |-> IF Cardinality(full) = 3 THEN "COMPLETE"
                   ELSE IF full = {} THEN "NONE" ELSE "PARTIAL" ]

\* The horizon over a sequence of verdicts, at least one for every cohort.
HorizonCoverage(reconstructability) ==
  LET full == { cohort \in CohortNames :
                  LastFor(cohort, reconstructability).status
                    = "FULLY_RECONSTRUCTABLE" }
  IN  [ fully_reconstructable_cohorts     |-> full,
        non_reconstructable_cohorts       |-> CohortNames \ full,
        status |-> IF Cardinality(full) = 3 THEN "COMPLETE"
                   ELSE IF full = {} THEN "NONE" ELSE "PARTIAL" ]
=============================================================================
