--------------------------- MODULE Demonstration ----------------------------
(***************************************************************************)
(* What the demonstration tells of published evidence.  load_demo_evidence *)
(* takes single items out of the bundle, wants exactly one of each kind,   *)
(* and knows labels for some clauses and actions only; the headline, the   *)
(* month and the channel are texts of the code.  How the files are read    *)
(* and compared before is in Publication.                                  *)
(***************************************************************************)
EXTENDS Audit

VARIABLE shown   \* whether the story was printed, or raised on the way, and it

demoVars == <<vars, shown>>

\* The frozen counts of May say what the headline says: under 2.0.0 the first
\* channel has more accounts in the ratio and misses the threshold it passed.
ASSUME OracleTellsMay ==
  LET before == Oracle[<<"1.0.0", "2026-05", Alpha>>]
      after  == Oracle[<<"2.0.0", "2026-05", Alpha>>]
  IN  /\ before[2] < after[2]
      /\ ThresholdState(before) = "PASS" /\ ThresholdState(after) = "FAIL"

-----------------------------------------------------------------------------
\* The clauses and actions the demonstration has a label for.
DenominatorLabels ==
  {"qualifying_activity_within_days", "all_eligible_matured_signups"}
ActionLabels == Range(PositiveActionTypes)

\* It looks for the clauses among the members of a conjunction only.
LabelsOf(definition) ==
  {kind \in definition.denominator \cap DenominatorLabels :
     definition.form.denominator.compound}

\* A label stands for the clause it was chosen for.
DenominatorLabel(definition) == CHOOSE kind \in LabelsOf(definition) : TRUE

\* Evidence lists cohorts in the order of the horizon.
PlacesOf(cohorts) == {i \in DOMAIN Cohorts : Cohorts[i] \in cohorts}

HasRangeOfMany(cohorts) == Cardinality(cohorts) > 1

HasRange(cohorts) == cohorts # {}

\* The first and the last of them; "first through last" names all between.
CohortRange(cohorts) ==
  <<Cohorts[Min(PlacesOf(cohorts))], Cohorts[Max(PlacesOf(cohorts))]>>

ShownResultOfFirst(definition) == GoldenResults[<<"1.0.0", "2026-05", Alpha>>]

ShownResult(definition) ==
  GoldenResults[<<definition.version, "2026-05", Alpha>>]

DecisionOf(change_type) ==
  evidence.decision_changes[
    CHOOSE i \in DOMAIN evidence.decision_changes :
      evidence.decision_changes[i].change_type = change_type]

Displayable ==
  /\ "denominator" \in IndependentSemanticChanges(First, Restated)
  /\ \A definition \in {First, Restated} :
       /\ Cardinality(LabelsOf(definition)) = 1
       /\ IsExact(ShownResult(definition))
  /\ \A action \in Range(evidence.plan.actions) : action.action_type \in ActionLabels
  /\ HasRange(evidence.horizon.non_reconstructable_cohorts)
  /\ HasRange(evidence.horizon.fully_reconstructable_cohorts)

Story ==
  [ context_fixed |-> evidence.golden_analysis.controlled_context_match,
    denominators |->
      [version \in {"v1", "v2"} |->
        LET definition == IF version = "v1" THEN First ELSE Restated
        IN  [ label |-> DenominatorLabel(definition),
              counts |-> CountsOf(ShownResult(definition)) ]],
    decisions |->
      [change_type \in {"THRESHOLD", "RANKING"} |->
        << DecisionOf(change_type).before_state,
           DecisionOf(change_type).after_state >>],
    not_reconstructable |->
      CohortRange(evidence.horizon.non_reconstructable_cohorts),
    reconstructable |-> CohortRange(evidence.horizon.fully_reconstructable_cohorts),
    actions |->
      [i \in DOMAIN evidence.plan.actions |->
        [ action_type |-> evidence.plan.actions[i].action_type,
          range |-> CohortRange(evidence.plan.actions[i].scope) ]],
    confound_detected |-> ~evidence.g3_analysis.controlled_context_match,
    confound_refused |-> ~evidence.g3_analysis.attribution_valid ]

NothingShown == [outcome |-> "none", story |-> <<>>]

Show ==
  /\ outcome = "published" /\ shown = NothingShown
  /\ shown' = IF Displayable THEN [outcome |-> "printed", story |-> Story]
              ELSE [outcome |-> "raised", story |-> <<>>]
  /\ UNCHANGED vars

DemoInit == Init /\ shown = NothingShown

DemoNext ==
  \/ Next /\ UNCHANGED shown
  \/ Show

DemoSpec == DemoInit /\ [][DemoNext]_demoVars

-----------------------------------------------------------------------------
(***************************************************************************)
(* Properties.                                                             *)
(***************************************************************************)
Printed == shown.outcome = "printed"

\* Of what passed the controls and the barrier, which know nothing of labels, the
\* demonstration refuses denominators by the way they are written and nothing else:
\* one that is not a conjunction, always, and one of 1.0.0 that lists both
\* populations, which gets that far only where 2.0.0 depends on something 1.0.0 does
\* not.  No other clause, plan or horizon does (_denominator_label, _action_label
\* and _cohort_range raise for the others).
OnlyWritingUndisplayable ==
  /\ shown.outcome = "raised" =>
       \/ \E definition \in {First, Restated} : ~definition.form.denominator.compound
       \/ /\ DenominatorLabels \subseteq First.denominator
          /\ ~(DependenciesOf(Restated) \subseteq DependenciesOf(First))
  /\ shown.outcome = "printed" =>
       \A definition \in {First, Restated} : definition.form.denominator.compound

CoveredBy(range) ==
  LET place(cohort) == CHOOSE i \in DOMAIN Cohorts : Cohorts[i] = cohort
  IN  {Cohorts[i] : i \in place(range[1])..place(range[2])}

RosterOfMay == Metric!CohortRecords(input, <<2, 2, 1>>)

\* The accounts of May that each label speaks of, counted from the records.
Labelled(kind) ==
  { a \in RosterOfMay :
      LET record == input.records[a]
      IN  /\ record.eligible_at_signup /\ record.account_class = "CUSTOMER"
          /\ record.signup_month = "2026-05" /\ MatureAtCutoff(record)
          /\ kind = "qualifying_activity_within_days"
               => Observed(record.activity, record.signup_at) }

\* The display says of the evidence what the evidence says: each count stands by
\* the label of the accounts it counts; "first through last" names the cohorts of
\* the horizon and no other, the one the plan restates among them; and a changed
\* context was refused (load_demo_evidence joins seven files by names).
DisplayTellsEvidence ==
  Printed =>
    /\ \A version \in {"v1", "v2"} :
         LET column == shown.story.denominators[version]
         IN  column.counts[2] = Cardinality(Labelled(column.label))
    /\ shown.story.denominators["v1"].label = "qualifying_activity_within_days"
    /\ CoveredBy(shown.story.reconstructable)
         = evidence.horizon.fully_reconstructable_cohorts
    /\ CoveredBy(shown.story.not_reconstructable)
         = evidence.horizon.non_reconstructable_cohorts
    /\ \E i \in DOMAIN shown.story.actions :
         /\ shown.story.actions[i].action_type = "RESTATE_COHORT_RANGE"
         /\ shown.story.actions[i].range = shown.story.reconstructable
    /\ shown.story.confound_detected /\ shown.story.confound_refused

\* "Same records. Different KPI meaning. Different decisions." is printed whatever
\* the evidence says, and is true of all evidence that can be published: only the
\* frozen counts of control G1 see to the last part.
HeadlineHolds ==
  Printed =>
    /\ shown.story.context_fixed
    /\ shown.story.denominators["v1"].label # shown.story.denominators["v2"].label
    /\ \E change_type \in DOMAIN shown.story.decisions :
         shown.story.decisions[change_type][1] # shown.story.decisions[change_type][2]
=============================================================================
