--------------------------- MODULE KpiProperties ----------------------------
(***************************************************************************)
(* What the calculation stage must get right, stated over its results.     *)
(***************************************************************************)
EXTENDS KpiCalculation, SequencesExt

ExactCells == {c \in DOMAIN results : results[c].status = "EXACT"}

SamePlace(c, d) == CohortOf(c) = CohortOf(d) /\ ChannelOf(c) = ChannelOf(d)

-----------------------------------------------------------------------------
(***************************************************************************)
(* Refinement of KpiMetric: the lists become sets, and each reason code    *)
(* the clause whose failure it reports.                                    *)
(***************************************************************************)
ClauseOf ==
  [ INELIGIBLE_AT_SIGNUP             |-> "eligibility_at_signup",
    EXCLUDED_ACCOUNT_CLASS           |-> "exclude_account_classes",
    NOT_MATURE_AT_CUTOFF             |-> "elapsed_day_maturity",
    COHORT_LINKAGE_MISMATCH          |-> "signup_cohort",
    NO_QUALIFYING_ACTIVITY_BY_CUTOFF |-> "qualifying_activity_within_days" ]

ClausesOf(excludedAccounts) ==
  {<<x[1], {ClauseOf[code] : code \in x[2]}>> : x \in excludedAccounts}

AbstractResult(result) ==
  [ status       |-> result.status,
    denominator  |-> ToSet(result.denominator_ids),
    numerator    |-> ToSet(result.numerator_ids),
    excluded     |-> ClausesOf(result.excluded),
    reason_codes |-> result.reason_codes ]

AbstractResults == [c \in DOMAIN results |-> AbstractResult(results[c])]

AbstractOutcome ==
  CASE phase = "done"   -> "complete"
    [] phase = "raised" -> "aborted"
    [] OTHER            -> "running"

Metric == INSTANCE KpiMetric
            WITH results <- AbstractResults, outcome <- AbstractOutcome

\* The calculation computes the base clauses and the listed clauses it looks for,
\* whatever a definition lists where, and no other: each published cell is the
\* refusal or the value KpiMetric gives it, resolved once and left alone, with
\* the exclusion reasons naming exactly the clauses each account fails; and it
\* raises only in a cell that has no value (calculate_metric).
ImplementsMetric == Metric!Spec

-----------------------------------------------------------------------------
\* The record with what had not been received by the cutoff erased.
AsKnown(record) ==
  [ record EXCEPT
      !.activity    = {event \in @ : event.received_at <= Cutoff},
      !.core_action = {event \in @ : event.received_at <= Cutoff} ]

\* A number published at the cutoff depends on nothing received after it: its
\* membership is the one the records known at the cutoff give, however early
\* the late facts are dated (the received_at guards of calculate_metric).
NoLookAhead ==
  \A c \in ExactCells :
    LET definition == DefinitionOf(input, c)
        Known(a) == AsKnown(input.records[a])
    IN  /\ ToSet(results[c].denominator_ids)
             = {a \in CohortRecords(input, c) :
                  DenominatorIncluded(definition, Known(a), CohortOf(c))}
        /\ ToSet(results[c].numerator_ids)
             = {a \in CohortRecords(input, c) :
                  NumeratorIncluded(definition, Known(a), CohortOf(c))}

\* The old and the new definition over one population differ in the
\* denominator alone: the same numerator accounts, and an activity-qualified
\* denominator inside the all-signups one.  The comparisons of the audit
\* attribute every difference to the denominator (analyze_arm_difference).
DenominatorChangeOnly ==
  \A c, d \in ExactCells :
    LET old == DefinitionOf(input, c)
        new == DefinitionOf(input, d)
    IN  /\ SamePlace(c, d)
        /\ old.numerator = new.numerator
        /\ "qualifying_activity_within_days" \notin new.denominator
        /\ ExpectedPopulation(old, CohortOf(c))
             = ExpectedPopulation(new, CohortOf(d))
        => /\ ToSet(results[c].numerator_ids) = ToSet(results[d].numerator_ids)
           /\ ToSet(results[c].denominator_ids)
                \subseteq ToSet(results[d].denominator_ids)

\* Definitions with the same clauses give the same result in every cell,
\* whatever else changed and whatever was computed between them: the premise
\* of control G2, which compares 1.0.1 with 1.0.0.
SameClausesSameResults ==
  \A c, d \in DOMAIN results :
    LET one == DefinitionOf(input, c)
        other == DefinitionOf(input, d)
    IN  /\ SamePlace(c, d)
        /\ one.numerator = other.numerator
        /\ one.denominator = other.denominator
        => results[c] = results[d]

\* Every account of a published cell is either in the denominator or excluded
\* once, with a reason of its own: the fallback "NOT_IN_DENOMINATOR" is never
\* needed, and no account of another cell leaks in.
EveryAccountAccountedFor ==
  \A c \in ExactCells :
    LET included == ToSet(results[c].denominator_ids)
        out == results[c].excluded
    IN  /\ included \cup {x[1] : x \in out} = CohortRecords(input, c)
        /\ \A x \in out : x[1] \notin included /\ x[2] # {}
        /\ \A x, y \in out : x[1] = y[1] => x = y

\* The horizon the migration plan restates over is the set of cohorts whose
\* version 2.0.0 results are all numbers, also when a cohort is declared twice
\* (horizon_coverage against _result_set, which index the declarations apart).
HorizonMatchesResults ==
  phase = "done" =>
    LET restated == { c \in DOMAIN results :
                        DefinitionOf(input, c).version = "2.0.0" }
    IN  /\ horizon.fully_reconstructable_cohorts
             = { cohort \in CohortNames :
                   \A c \in restated : CohortOf(c) = cohort => c \in ExactCells }
        /\ horizon.non_reconstructable_cohorts
             = { CohortOf(c) : c \in restated \ ExactCells }
        /\ horizon.status = "COMPLETE" <=> restated \subseteq ExactCells

-----------------------------------------------------------------------------
PopulationDependency(population) ==
  IF population = "ACTIVITY_QUALIFIED_ACCOUNT_FACT"
  THEN FactPopulation ELSE RosterPopulation

\* An incomplete population never yields a number, as the test of that name
\* says: the population a number was computed over was declared complete.
IncompletePopulationNeverYieldsNumber ==
  \A c \in ExactCells :
    LET population == PopulationDependency(
          ExpectedPopulation(DefinitionOf(input, c), CohortOf(c)))
    IN  CoverageRecords(DeclarationOf(input, c), {population})[population]
          = "AVAILABLE_COMPLETE"
=============================================================================
