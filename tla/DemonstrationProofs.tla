------------------------ MODULE DemonstrationProofs -------------------------
(***************************************************************************)
(* Proofs about what the demonstration tells: everything that can be       *)
(* published has the counts, the horizon and the plan the texts of the     *)
(* display were written for, and the clauses where its denominators are    *)
(* written so that they have a label.                                      *)
(***************************************************************************)
EXTENDS AuditProofs, Demonstration

\* A story was told of what is published, and is what the evidence says.
ShownInv ==
  shown # NothingShown =>
    /\ outcome = "published"
    /\ shown = IF Displayable THEN [outcome |-> "printed", story |-> Story]
               ELSE [outcome |-> "raised", story |-> <<>>]

DemoInv == IInv /\ ShownInv

\* What is published stays as it is.
LEMMA PublishedStays ==
  ASSUME [Next]_vars, outcome = "published"
  PROVE  UNCHANGED vars
BY DEF Next, Analyse, Calculate, CalculationRaises, Assess, Compare, Decide,
   RequiredResultAbsent, Refuse, Control, Plan, ResolveReferences, CheckComparisons,
   CheckDecisions, CheckPlans, BarrierRaises, Release, ReleaseRaises, Terminated, At, vars

\* Showing it changes nothing else.
LEMMA DemoStep == DemoInv /\ [DemoNext]_demoVars => DemoInv'
<1> SUFFICES ASSUME DemoInv, [DemoNext]_demoVars PROVE DemoInv'
  OBVIOUS
<1>1. [Next]_vars
  BY DEF DemoNext, Show, demoVars
<1>2. IInv'
  BY <1>1, StepIInv DEF DemoInv
<1>3. ShownInv'
  <2>1. UNCHANGED vars => Displayable' = Displayable /\ Story' = Story
    <3> SUFFICES ASSUME UNCHANGED vars
                 PROVE  Displayable' = Displayable /\ Story' = Story
      OBVIOUS
    <3>0. input' = input /\ evidence' = evidence
      BY DEF vars
    <3>1. GoldenResults' = GoldenResults
      BY <3>0 DEF GoldenResults, GoldenCell
    <3>2. \A d : ShownResult(d)' = ShownResult(d)
      BY <3>1 DEF ShownResult, Alpha
    <3>3. First' = First /\ Restated' = Restated
      BY <3>0 DEF First, Restated
    <3>4. \A t : DecisionOf(t)' = DecisionOf(t)
      BY <3>0 DEF DecisionOf
    <3>5. Displayable' = Displayable
      BY <3>0, <3>2, <3>3 DEF Displayable
    <3>6. Story' = Story
      BY <3>0, <3>2, <3>3, <3>4 DEF Story
    <3> QED BY <3>5, <3>6
  <2>2. CASE UNCHANGED shown
    <3>1. shown # NothingShown => UNCHANGED vars
      BY <1>1, PublishedStays DEF DemoInv, ShownInv
    <3> QED BY <2>1, <2>2, <3>1 DEF DemoInv, ShownInv, vars, NothingShown
  <2>3. CASE Show
    BY <2>1, <2>3 DEF Show, ShownInv, vars
  <2> QED BY <2>2, <2>3 DEF DemoNext, demoVars
<1> QED BY <1>2, <1>3 DEF DemoInv

\* Whatever is shown was published and is told of it as it stands.
THEOREM DemoInvariance == DemoSpec => []DemoInv
<1>1. DemoInit => DemoInv
  BY InitIInv DEF DemoInit, DemoInv, ShownInv
<1> QED BY <1>1, DemoStep, PTL DEF DemoSpec

-----------------------------------------------------------------------------
(***************************************************************************)
(* What is published has the clauses the labels were written for.          *)
(***************************************************************************)
ActivityClause == "qualifying_activity_within_days"
SignupsClause  == "all_eligible_matured_signups"

\* The results of May that are shown are the values of their cells, with the
\* frozen counts.
LEMMA ShownOfMay ==
  ASSUME IInv, outcome = "published", NEW d \in {1, 2}
  PROVE  LET key == <<IF d = 1 THEN "1.0.0" ELSE "2.0.0", "2026-05", Alpha>>
             cell == <<d, 2, 1>>
         IN  /\ cell \in Cells(input)
             /\ ShownResult(input.definitions[d]) = Metric!Value(cell)
             /\ GoldenResults[key] = Metric!Value(cell)
             /\ IsExact(Metric!Value(cell))
             /\ Metric!Value(cell).denominator = Metric!Denominator(cell)
             /\ Metric!Value(cell).numerator = Metric!Numerator(cell)
             /\ IsFiniteSet(Metric!Denominator(cell))
             /\ IsFiniteSet(Metric!Numerator(cell)) /\ Metric!Denominator(cell) # {}
             /\ CountsOf(Metric!Value(cell)) = Oracle[key]
<1> DEFINE key == <<IF d = 1 THEN "1.0.0" ELSE "2.0.0", "2026-05", Alpha>>
           cell == <<d, 2, 1>>
<1>1. Has("results") /\ AggregatesMatch
  BY PublishedHasPassed
<1>2. cell \in Cells(input)
  BY LoadedInput, ThreeCohortNames, TwoChannelNames DEF Cells
<1>3. Cohorts[2] = "2026-05"
  BY DEF Cohorts
<1>4. GoldenResults[key] = Metric!Value(cell) /\ key \in GoldenKeys
  BY <1>1, <1>3, GoldenResultAt DEF Alpha
<1>5. ShownResult(input.definitions[d]) = GoldenResults[key]
  BY LoadedInput DEF ShownResult, First, Restated
<1>6. key \in DOMAIN Oracle
  BY <1>4, OracleIsOfGoldenKeys DEF NonReconstructableCohort
<1>7. IsExact(GoldenResults[key]) /\ CountsOf(GoldenResults[key]) = Oracle[key]
  BY <1>1, <1>4, <1>6 DEF AggregatesMatch
<1>8. /\ Metric!Value(cell).denominator = Metric!Denominator(cell)
      /\ Metric!Value(cell).numerator = Metric!Numerator(cell)
      /\ IsFiniteSet(Metric!Denominator(cell))
      /\ IsFiniteSet(Metric!Numerator(cell)) /\ Metric!Denominator(cell) # {}
  <2> HIDE DEF cell
  <2> QED BY <1>1, <1>2, <1>4, <1>7, ExactValue
<1> QED BY <1>2, <1>4, <1>5, <1>7, <1>8

\* Where 2.0.0 has an activity clause or 1.0.0 has none, 2.0.0 counts in May only
\* whom 1.0.0 counts.
LEMMA ActivityCountsLess ==
  ASSUME IInv,
         \/ ActivityClause \in Restated.denominator
         \/ ActivityClause \notin First.denominator
  PROVE  Metric!Denominator(<<2, 2, 1>>) \subseteq Metric!Denominator(<<1, 2, 1>>)
<1> DEFINE c == <<1, 2, 1>>
           d == <<2, 2, 1>>
<1>1. /\ Metric!DefinitionOf(input, c) = First
      /\ Metric!DefinitionOf(input, d) = Restated
      /\ Metric!CohortOf(c) = Metric!CohortOf(d)
  BY DEF Metric!DefinitionOf, Metric!CohortOf, First, Restated
<1>2. Metric!CohortRecords(input, c) = Metric!CohortRecords(input, d)
  BY MayReadsRoster
<1> HIDE DEF c, d
<1>3. DenominatorClauses(First) \subseteq DenominatorClauses(Restated) \cup {SignupsClause}
  BY AppliedClauses DEF ActivityClause, SignupsClause
<1>4. \A a : Metric!FailedClauses(DenominatorClauses(Restated), a, d) = {}
               => Metric!FailedClauses(DenominatorClauses(First), a, c) = {}
  <2>1. ASSUME NEW a, Metric!FailedClauses(DenominatorClauses(Restated), a, d) = {},
               NEW kind \in DenominatorClauses(First)
        PROVE  Metric!Satisfies(kind, input.records[a], Metric!CohortOf(c))
    <3>1. CASE kind = SignupsClause
      BY <3>1 DEF Metric!Satisfies, SignupsClause
    <3>2. CASE kind \in DenominatorClauses(Restated)
      BY <1>1, <2>1, <3>2 DEF Metric!FailedClauses
    <3> QED BY <1>3, <3>1, <3>2
  <2> QED BY <2>1 DEF Metric!FailedClauses
<1>5. Metric!Denominator(d) \subseteq Metric!Denominator(c)
  BY <1>1, <1>2, <1>4, MetricApplies DEF Metric!Denominator, Metric!Members
<1> QED BY <1>5 DEF c, d

\* A definition with all dependencies of another can be computed nowhere else.
LEMMA MoreDependenciesMoreGaps ==
  ASSUME NEW d, NEW e, DependenciesOf(d) \subseteq DependenciesOf(e), NEW declaration,
         Gaps(e, declaration) = {}
  PROVE  Gaps(d, declaration) = {}
<1>2. \A x \in DependenciesOf(e) :
        CoverageRecords(declaration, DependenciesOf(e))[x] = "AVAILABLE_COMPLETE"
  BY DEF Gaps, CoverageRecords
<1>3. \A x \in DependenciesOf(d) :
        CoverageRecords(declaration, DependenciesOf(d))[x]
          = CoverageRecords(declaration, DependenciesOf(e))[x]
  BY DEF CoverageRecords
<1>4. DOMAIN CoverageRecords(declaration, DependenciesOf(d)) = DependenciesOf(d)
  BY DEF CoverageRecords
<1> QED BY <1>2, <1>3, <1>4 DEF Gaps

\* A cell that is a number is of a definition that names a population.
LEMMA NumbersAreSupported ==
  ASSUME IInv, Has("results"), NEW c \in Cells(input), Metric!Computable(c)
  PROVE  \/ ActivityClause \in DefinitionOf(input, c).denominator
         \/ SignupsClause \in DefinitionOf(input, c).denominator
<1>1. ~Metric!Valueless(c)
  BY DEF IInv, StageInv, ProducedInv, EveryCellHasAValue
<1>2. Metric!Supported(Metric!DefinitionOf(input, c))
  BY <1>1 DEF Metric!Valueless
<1> QED BY <1>2, MetricIsAudited DEF Metric!Supported, ActivityClause, SignupsClause

\* What is published counts in May more accounts under 2.0.0 than under 1.0.0, so
\* activity is a clause of 1.0.0 only and 2.0.0 is over all signups.
LEMMA PublishedClauses ==
  ASSUME IInv, outcome = "published"
  PROVE  /\ ActivityClause \in First.denominator
         /\ ActivityClause \notin Restated.denominator
         /\ SignupsClause \in Restated.denominator
<1>1. Has("results") /\ AggregatesMatch
  BY PublishedHasPassed
<1>2. ActivityClause \in First.denominator /\ ActivityClause \notin Restated.denominator
  <2> SUFFICES ASSUME \/ ActivityClause \in Restated.denominator
                      \/ ActivityClause \notin First.denominator
               PROVE  FALSE
    OBVIOUS
  <2> DEFINE before == Metric!Denominator(<<1, 2, 1>>)
             after == Metric!Denominator(<<2, 2, 1>>)
  <2>1. after \subseteq before
    BY ActivityCountsLess
  <2>2. /\ IsFiniteSet(before)
        /\ Cardinality(before) = Oracle[<<"1.0.0", "2026-05", Alpha>>][2]
    BY ShownOfMay DEF CountsOf
  <2>3. Cardinality(after) = Oracle[<<"2.0.0", "2026-05", Alpha>>][2]
    BY ShownOfMay DEF CountsOf
  <2>4. Cardinality(before) < Cardinality(after)
    BY <2>2, <2>3, OracleTellsMay
  <2> HIDE DEF before, after
  <2>5. Cardinality(after) <= Cardinality(before) /\ IsFiniteSet(after)
    BY <2>1, <2>2, FS_Subset
  <2>6. Cardinality(after) \in Nat /\ Cardinality(before) \in Nat
    BY <2>2, <2>5, FS_CardinalityType
  <2> QED BY <2>4, <2>5, <2>6
<1>3. <<2, 2, 1>> \in Cells(input) /\ Metric!Computable(<<2, 2, 1>>)
  BY <1>1, ShownOfMay, PublishedNumbers
<1>4. SignupsClause \in Restated.denominator
  BY <1>1, <1>2, <1>3, NumbersAreSupported DEF DefinitionOf, Restated
<1> QED BY <1>2, <1>4

\* In April 1.0.0 is a number and 2.0.0 is not, so 2.0.0 needs something more.
LEMMA PublishedDependencies ==
  ASSUME IInv, outcome = "published"
  PROVE  ~(DependenciesOf(Restated) \subseteq DependenciesOf(First))
<1> SUFFICES ASSUME DependenciesOf(Restated) \subseteq DependenciesOf(First) PROVE FALSE
  OBVIOUS
<1>1. Has("results") /\ AggregatesMatch
  BY PublishedHasPassed
<1>2. Metric!Computable(<<1, 1, 1>>) /\ ~Metric!Computable(<<2, 1, 1>>)
  BY <1>1, PublishedNumbers
<1>3. /\ GapsOf(input, <<1, 1, 1>>) = Gaps(First, LastFor(Cohorts[1], input.coverage))
      /\ GapsOf(input, <<2, 1, 1>>) = Gaps(Restated, LastFor(Cohorts[1], input.coverage))
  BY DEF GapsOf, DefinitionOf, DeclarationOf, CohortOf, First, Restated
<1>4. GapsOf(input, <<2, 1, 1>>) = {}
  BY <1>2, <1>3, MetricIsAudited, MoreDependenciesMoreGaps DEF Metric!Computable
<1> QED BY <1>2, <1>4, MetricIsAudited DEF Metric!Computable

\* The label of 2.0.0 is all signups, and that of 1.0.0 is activity, where each is
\* a conjunction and 1.0.0 does not list both.
LEMMA PublishedLabels ==
  ASSUME IInv, outcome = "published"
  PROVE  /\ Restated.form.denominator.compound => LabelsOf(Restated) = {SignupsClause}
         /\ First.form.denominator.compound /\ SignupsClause \notin First.denominator
              => LabelsOf(First) = {ActivityClause}
         /\ \A d \in {First, Restated} :
              Cardinality(LabelsOf(d)) = 1 => d.form.denominator.compound
         /\ Cardinality(LabelsOf(First)) = 1 => SignupsClause \notin First.denominator
<1>1. \A d : LabelsOf(d) # {} => d.form.denominator.compound
  BY DEF LabelsOf
<1>2. Cardinality({}) = 0
  BY FS_EmptySet
<1>3. /\ Restated.form.denominator.compound => LabelsOf(Restated) = {SignupsClause}
      /\ First.form.denominator.compound /\ SignupsClause \notin First.denominator
           => LabelsOf(First) = {ActivityClause}
  BY PublishedClauses DEF LabelsOf, DenominatorLabels, ActivityClause, SignupsClause
<1>4. ASSUME NEW d, Cardinality(LabelsOf(d)) = 1
      PROVE  d.form.denominator.compound
  <2>1. LabelsOf(d) # {}
    <3> DEFINE labels == LabelsOf(d)
    <3> HIDE DEF labels
    <3>1. Cardinality(labels) = 1 => labels # {}
      BY <1>2
    <3> QED BY <1>4, <3>1 DEF labels
  <2> QED BY <1>1, <2>1
<1>5. ASSUME Cardinality(LabelsOf(First)) = 1, SignupsClause \in First.denominator
      PROVE  FALSE
  <2>1. LabelsOf(First) = {ActivityClause, SignupsClause}
    BY <1>4, <1>5, PublishedClauses
       DEF LabelsOf, DenominatorLabels, ActivityClause, SignupsClause
  <2>2. ActivityClause \notin {SignupsClause}
    BY DEF ActivityClause, SignupsClause
  <2>3. IsFiniteSet({SignupsClause}) /\ Cardinality({SignupsClause}) = 1
    BY FS_Singleton
  <2>4. Cardinality({SignupsClause} \cup {ActivityClause}) = 2
    BY <2>2, <2>3, FS_AddElement
  <2>5. LabelsOf(First) = {SignupsClause} \cup {ActivityClause}
    BY <2>1
  <2> QED BY <1>5, <2>4, <2>5
<1> QED BY <1>3, <1>4, <1>5

-----------------------------------------------------------------------------
(***************************************************************************)
(* What is published and cannot be displayed.                              *)
(***************************************************************************)
\* The plan and the horizon of what is published.
LEMMA PublishedPlan ==
  ASSUME IInv, outcome = "published"
  PROVE  /\ DOMAIN evidence.plan.actions = 1..4
         /\ \A i \in 1..4 :
              /\ evidence.plan.actions[i].action_type = PositiveActionTypes[i]
              /\ evidence.plan.actions[i].scope = Scopes[i]
         /\ evidence.horizon.fully_reconstructable_cohorts = RestatementCohorts
         /\ evidence.horizon.non_reconstructable_cohorts = {NonReconstructableCohort}
<1>1. Has("plan") /\ evidence.plan.recommendation = "PARTIAL_RESTATEMENT"
  BY PublishedHasPassed, PublishedRestates
<1>2. PICK operands : evidence.plan
                = PartialRestatement(operands, evidence.comparisons, evidence.decision_changes)
  BY <1>1, RestatementJustifiedBy
<1>3. RestatableVerdicts(RestatedVerdicts) /\ evidence.horizon = HorizonCoverage(RestatedVerdicts)
  BY <1>1, RestatementJustifiedBy
<1>4. DOMAIN evidence.plan.actions = 1..4
  BY <1>2 DEF PartialRestatement
<1>5. \A i \in 1..4 : /\ evidence.plan.actions[i].scope = Scopes[i]
                      /\ evidence.plan.actions[i].action_type = PositiveActionTypes[i]
  BY <1>2 DEF PartialRestatement, Action
<1> QED BY <1>3, <1>4, <1>5, RestatableHorizon

\* Only for want of a single label does the demonstration raise over what is
\* published.
LEMMA PublishedDisplayable ==
  ASSUME IInv, outcome = "published"
  PROVE  Displayable <=> /\ Cardinality(LabelsOf(First)) = 1
                         /\ Cardinality(LabelsOf(Restated)) = 1
<1>1. "denominator" \in IndependentSemanticChanges(First, Restated)
  <2>1. Written(First, "denominator") # Written(Restated, "denominator")
    BY PublishedHasPassed, AttributedToDenominator
  <2>2. /\ SemanticProjection(First)["denominator"] = Written(First, "denominator")
        /\ SemanticProjection(Restated)["denominator"] = Written(Restated, "denominator")
    BY DEF SemanticProjection
  <2> QED BY <2>1, <2>2 DEF IndependentSemanticChanges
<1>2. IsExact(ShownResult(First)) /\ IsExact(ShownResult(Restated))
  BY ShownOfMay DEF First, Restated
<1>3. \A action \in Range(evidence.plan.actions) : action.action_type \in ActionLabels
  <2>1. DOMAIN PositiveActionTypes = 1..4
    BY DEF PositiveActionTypes
  <2>2. \A i \in 1..4 : evidence.plan.actions[i].action_type \in ActionLabels
    BY <2>1, PublishedPlan DEF ActionLabels, Range
  <2> QED BY <2>2, PublishedPlan DEF Range
<1>4. /\ HasRange(evidence.horizon.non_reconstructable_cohorts)
      /\ HasRange(evidence.horizon.fully_reconstructable_cohorts)
  BY PublishedPlan DEF HasRange, RestatementCohorts
<1> QED BY <1>1, <1>2, <1>3, <1>4 DEF Displayable

\* What is printed is the story of published evidence that has its labels.
LEMMA PrintedIsStory ==
  ASSUME DemoInv, Printed
  PROVE  IInv /\ outcome = "published" /\ shown.story = Story /\ Displayable
<1>1. shown # NothingShown
  BY DEF Printed, NothingShown
<1>2. /\ IInv /\ outcome = "published"
      /\ shown = IF Displayable THEN [outcome |-> "printed", story |-> Story]
                 ELSE [outcome |-> "raised", story |-> <<>>]
  BY <1>1 DEF DemoInv, ShownInv
<1>3. Displayable
  BY <1>2 DEF Printed
<1> QED BY <1>2, <1>3

\* Of what is published the demonstration refuses denominators by the way they are
\* written and nothing else: no plan, no horizon and no result makes it raise
\* (load_demo_evidence after execute).
THEOREM OnlyWritingUndisplayableAlways == DemoSpec => []OnlyWritingUndisplayable
<1>1. ASSUME DemoInv, shown.outcome = "raised"
      PROVE  \/ \E definition \in {First, Restated} : ~definition.form.denominator.compound
             \/ /\ DenominatorLabels \subseteq First.denominator
                /\ ~(DependenciesOf(Restated) \subseteq DependenciesOf(First))
  <2>1. shown # NothingShown
    BY <1>1 DEF NothingShown
  <2>2. /\ IInv /\ outcome = "published"
        /\ shown = IF Displayable THEN [outcome |-> "printed", story |-> Story]
                   ELSE [outcome |-> "raised", story |-> <<>>]
    BY <1>1, <2>1 DEF DemoInv, ShownInv
  <2>3. ~Displayable
    BY <1>1, <2>2
  <2>4. Cardinality(LabelsOf(First)) # 1 \/ Cardinality(LabelsOf(Restated)) # 1
    BY <2>2, <2>3, PublishedDisplayable
  <2>5. SUFFICES ASSUME First.form.denominator.compound, Restated.form.denominator.compound
                 PROVE  /\ DenominatorLabels \subseteq First.denominator
                        /\ ~(DependenciesOf(Restated) \subseteq DependenciesOf(First))
    OBVIOUS
  <2>6. \A x : Cardinality({x}) = 1
    BY FS_Singleton
  <2>7. SignupsClause \in First.denominator
    BY <2>2, <2>4, <2>5, <2>6, PublishedLabels
  <2>8. DenominatorLabels \subseteq First.denominator
    BY <2>2, <2>7, PublishedClauses DEF DenominatorLabels, ActivityClause, SignupsClause
  <2> QED BY <2>2, <2>8, PublishedDependencies
<1>2. ASSUME DemoInv, shown.outcome = "printed"
      PROVE  \A definition \in {First, Restated} : definition.form.denominator.compound
  <2>1. IInv /\ outcome = "published" /\ Displayable
    BY <1>2, PrintedIsStory DEF Printed
  <2> QED BY <2>1, PublishedDisplayable, PublishedLabels
<1>3. DemoInv => OnlyWritingUndisplayable
  BY <1>1, <1>2 DEF OnlyWritingUndisplayable
<1> QED BY <1>3, DemoInvariance, PTL

-----------------------------------------------------------------------------
(***************************************************************************)
(* The headline.                                                           *)
(***************************************************************************)
\* The label that is chosen is the only one there is.
LEMMA LabelsTold ==
  ASSUME IInv, outcome = "published", Displayable
  PROVE  /\ DenominatorLabel(First) = ActivityClause
         /\ DenominatorLabel(Restated) = SignupsClause
<1>1. \A x : (CHOOSE kind \in {x} : TRUE) = x
  OBVIOUS
<1>2. LabelsOf(First) = {ActivityClause} /\ LabelsOf(Restated) = {SignupsClause}
  BY PublishedDisplayable, PublishedLabels
<1> QED BY <1>1, <1>2 DEF DenominatorLabel

\* The two columns of the display.
LEMMA ColumnsTold ==
  ASSUME IInv, outcome = "published", Displayable
  PROVE  /\ Story.denominators["v1"].label = ActivityClause
         /\ Story.denominators["v2"].label = SignupsClause
         /\ Story.denominators["v1"].counts = CountsOf(ShownResult(First))
         /\ Story.denominators["v2"].counts = CountsOf(ShownResult(Restated))
<1>1. /\ Story.denominators["v1"]
           = [label |-> DenominatorLabel(First), counts |-> CountsOf(ShownResult(First))]
      /\ Story.denominators["v2"]
           = [label |-> DenominatorLabel(Restated), counts |-> CountsOf(ShownResult(Restated))]
  BY DEF Story
<1> QED BY <1>1, LabelsTold

\* A threshold is met by a fraction as it is met by its lowest terms.
LEMMA ThresholdOfReduced ==
  ASSUME NEW x \in Fractions
  PROVE  ThresholdState(Reduced(x)) = ThresholdState(x)
<1>1. Threshold \in Fractions
  BY ThresholdIsFraction DEF Fractions
<1>2. /\ Reduced(x) \in Fractions /\ SameValue(Reduced(x), x) /\ SameValue(x, Reduced(x))
      /\ SameValue(Threshold, Threshold)
  BY ReducedValue DEF SameValue
<1>3. AtLeast(x, Threshold) => AtLeast(Reduced(x), Threshold)
  BY <1>1, <1>2, OrderOfValues
<1>4. AtLeast(Reduced(x), Threshold) => AtLeast(x, Threshold)
  BY <1>1, <1>2, OrderOfValues
<1> QED BY <1>3, <1>4 DEF ThresholdState

\* The threshold decides on the frozen counts.
LEMMA ThresholdOfCounts ==
  ASSUME IInv, outcome = "published", NEW d \in {1, 2}
  PROVE  LET key == <<IF d = 1 THEN "1.0.0" ELSE "2.0.0", "2026-05", Alpha>>
         IN  ThresholdState(RateOf(GoldenResults[key])) = ThresholdState(Oracle[key])
<1> DEFINE key == <<IF d = 1 THEN "1.0.0" ELSE "2.0.0", "2026-05", Alpha>>
           value == Metric!Value(<<d, 2, 1>>)
<1>1. /\ GoldenResults[key] = value
      /\ IsFiniteSet(value.numerator) /\ IsFiniteSet(value.denominator)
      /\ value.denominator # {} /\ CountsOf(value) = Oracle[key]
  BY ShownOfMay
<1> HIDE DEF value, key
<1>2. Oracle[key] = <<Cardinality(value.numerator), Cardinality(value.denominator)>>
  BY <1>1 DEF CountsOf
<1>3. RateOf(value) = Reduced(Oracle[key])
  BY <1>2 DEF RateOf
<1>4. /\ Cardinality(value.numerator) \in Nat
      /\ Cardinality(value.denominator) \in Nat /\ Cardinality(value.denominator) # 0
  BY <1>1, FS_CardinalityType, FS_EmptySet
<1>5. Oracle[key] \in Fractions
  BY <1>2, <1>4 DEF Fractions
<1>6. ThresholdState(RateOf(GoldenResults[key])) = ThresholdState(Oracle[key])
  BY <1>1, <1>3, <1>5, ThresholdOfReduced
<1> QED BY <1>6 DEF key

\* The threshold decision is the first change, and it changed.
LEMMA ThresholdTold ==
  ASSUME IInv, outcome = "published"
  PROVE  Story.decisions["THRESHOLD"] = << <<"PASS">>, <<"FAIL">> >>
<1> DEFINE changes == evidence.decision_changes
<1>1. changes = ChangesOf
  BY PublishedHasPassed DEF IInv, DerivedInv
<1>2. /\ DOMAIN changes = 1..3
      /\ changes[1].change_type = "THRESHOLD" /\ changes[2].change_type = "RANKING"
      /\ changes[3].change_type = "TREND_INTERPRETATION"
      /\ changes[1].before_state
           = <<ThresholdState(RateOf(GoldenResults[<<"1.0.0", "2026-05", Alpha>>]))>>
      /\ changes[1].after_state
           = <<ThresholdState(RateOf(GoldenResults[<<"2.0.0", "2026-05", Alpha>>]))>>
  BY <1>1 DEF ChangesOf, DecisionChanges, DecisionChange
<1>3. /\ changes[1].before_state = <<"PASS">> /\ changes[1].after_state = <<"FAIL">>
  BY <1>2, ThresholdOfCounts, OracleTellsMay
<1> HIDE DEF changes
<1>4. DecisionOf("THRESHOLD") = changes[1]
  <2>1. \A i \in DOMAIN changes : changes[i].change_type = "THRESHOLD" <=> i = 1
    <3>1. \A i : i \in 1..3 <=> i \in {1, 2, 3}
      OBVIOUS
    <3> QED BY <1>2, <3>1
  <2>2. (CHOOSE i \in DOMAIN changes : changes[i].change_type = "THRESHOLD") = 1
    BY <1>2, <2>1
  <2> QED BY <2>2 DEF DecisionOf, changes
<1>5. Story.decisions["THRESHOLD"]
        = <<DecisionOf("THRESHOLD").before_state, DecisionOf("THRESHOLD").after_state>>
  BY DEF Story
<1> QED BY <1>3, <1>4, <1>5

\* The headline is true of whatever is shown.
LEMMA HeadlineOfStory ==
  ASSUME IInv, outcome = "published", Displayable
  PROVE  /\ Story.context_fixed
         /\ Story.denominators["v1"].label # Story.denominators["v2"].label
         /\ \E change_type \in DOMAIN Story.decisions :
              Story.decisions[change_type][1] # Story.decisions[change_type][2]
<1>1. Story.context_fixed
  <2>1. evidence.golden_analysis = GoldenDifference
    BY PublishedHasPassed DEF IInv, DerivedInv
  <2>2. evidence.golden_analysis.controlled_context_match = ("shared" = "shared")
    BY <2>1 DEF GoldenDifference, ArmDifference
  <2> QED BY <2>2 DEF Story
<1>2. Story.denominators["v1"].label # Story.denominators["v2"].label
  BY ColumnsTold DEF ActivityClause, SignupsClause
<1>3. "THRESHOLD" \in DOMAIN Story.decisions
  BY DEF Story
<1>4. Story.decisions["THRESHOLD"][1] # Story.decisions["THRESHOLD"][2]
  BY ThresholdTold
<1> QED BY <1>1, <1>2, <1>3, <1>4

\* Same records, different meaning, different decisions: the headline is printed
\* of no evidence of which it is not true.
THEOREM HeadlineAlways == DemoSpec => []HeadlineHolds
<1>1. DemoInv => HeadlineHolds
  <2> SUFFICES ASSUME DemoInv, Printed PROVE HeadlineHolds
    BY DEF HeadlineHolds
  <2>1. IInv /\ outcome = "published" /\ shown.story = Story /\ Displayable
    BY PrintedIsStory
  <2> QED BY <2>1, HeadlineOfStory DEF HeadlineHolds
<1> QED BY <1>1, DemoInvariance, PTL

-----------------------------------------------------------------------------
(***************************************************************************)
(* The display says what the evidence says.                                *)
(***************************************************************************)
\* An account is of one class, so the two that are excluded leave the third.
LEMMA AccountsAreClassed ==
  ASSUME IInv, NEW a \in Accounts
  PROVE  input.records[a].account_class \notin {"TEST", "INTERNAL"}
           <=> input.records[a].account_class = "CUSTOMER"
<1>1. input.records[a].account_class \in AccountClasses
  BY LoadedInput DEF Input, AccountRecord
<1> QED BY <1>1 DEF AccountClasses

\* The clauses of what is published, apart from the label of each.
LEMMA PublishedDenominators ==
  ASSUME IInv, outcome = "published", Displayable
  PROVE  /\ DenominatorClauses(First) = BaseClauses \cup {ActivityClause}
         /\ DenominatorClauses(Restated) = BaseClauses \cup {SignupsClause}
<1>1. SignupsClause \notin First.denominator
  BY PublishedDisplayable, PublishedLabels
<1> QED BY <1>1, PublishedClauses, AppliedClauses DEF ActivityClause, SignupsClause

\* What the clauses say of an account of May, in the words of the records.
LEMMA ClausesOfMay ==
  ASSUME IInv, NEW a \in Accounts, NEW d \in {1, 2},
         NEW kind \in {ActivityClause, SignupsClause}
  PROVE  Metric!FailedClauses(BaseClauses \cup {kind}, a, <<d, 2, 1>>) = {}
           <=> LET record == input.records[a]
               IN  /\ record.eligible_at_signup /\ record.account_class = "CUSTOMER"
                   /\ record.signup_month = "2026-05" /\ MatureAtCutoff(record)
                   /\ kind = "qualifying_activity_within_days"
                        => Observed(record.activity, record.signup_at)
<1> DEFINE record == input.records[a]
           says(k) == Metric!Satisfies(k, record, "2026-05")
<1>1. Metric!CohortOf(<<d, 2, 1>>) = "2026-05"
  BY DEF Metric!CohortOf, Cohorts, Metric!Cohorts
<1>2. Metric!FailedClauses(BaseClauses \cup {kind}, a, <<d, 2, 1>>) = {}
        <=> \A k \in BaseClauses \cup {kind} : says(k)
  BY <1>1 DEF Metric!FailedClauses
<1>3. /\ says("eligibility_at_signup") <=> record.eligible_at_signup
      /\ says("exclude_account_classes")
           <=> record.account_class \notin {"TEST", "INTERNAL"}
      /\ says("signup_cohort") <=> record.signup_month = "2026-05"
      /\ says("elapsed_day_maturity") <=> MatureAtCutoff(record)
      /\ says(ActivityClause) <=> Observed(record.activity, record.signup_at)
      /\ says(SignupsClause)
  <2>1. says("eligibility_at_signup") <=> record.eligible_at_signup
    BY DEF Metric!Satisfies
  <2>2. says("exclude_account_classes") <=> record.account_class \notin {"TEST", "INTERNAL"}
    BY DEF Metric!Satisfies
  <2>3. says("signup_cohort") <=> record.signup_month = "2026-05"
    BY DEF Metric!Satisfies
  <2>4. says("elapsed_day_maturity") <=> MatureAtCutoff(record)
    BY DEF Metric!Satisfies, Metric!MatureAtCutoff, MatureAtCutoff
  <2>5. says(ActivityClause) <=> Observed(record.activity, record.signup_at)
    <3>1. says(ActivityClause) <=> Metric!Observed(record.activity, record.signup_at)
      BY DEF Metric!Satisfies, ActivityClause
    <3>2. Metric!Observed(record.activity, record.signup_at)
            <=> Observed(record.activity, record.signup_at)
      BY DEF Metric!Observed, Observed, Metric!WithinDays, WithinDays,
         Metric!ReceivedByCutoff, ReceivedByCutoff
    <3> QED BY <3>1, <3>2
  <2>6. says(SignupsClause)
    BY DEF Metric!Satisfies, SignupsClause
  <2> QED BY <2>1, <2>2, <2>3, <2>4, <2>5, <2>6
<1> HIDE DEF says
<1>4. (\A k \in BaseClauses \cup {kind} : says(k))
        <=> /\ says("eligibility_at_signup") /\ says("exclude_account_classes")
            /\ says("signup_cohort") /\ says("elapsed_day_maturity") /\ says(kind)
  BY DEF BaseClauses
<1>5. says(kind) <=> ( kind = "qualifying_activity_within_days"
                         => Observed(record.activity, record.signup_at) )
  BY <1>3 DEF ActivityClause, SignupsClause
<1> HIDE DEF record
<1>6. record.account_class \notin {"TEST", "INTERNAL"} <=> record.account_class = "CUSTOMER"
  BY AccountsAreClassed DEF record
<1> QED BY <1>2, <1>3, <1>4, <1>5, <1>6 DEF record

\* Each label speaks of the accounts its definition counts.
LEMMA LabelledAreCounted ==
  ASSUME IInv, outcome = "published", Displayable
  PROVE  /\ Labelled(ActivityClause) = Metric!Denominator(<<1, 2, 1>>)
         /\ Labelled(SignupsClause) = Metric!Denominator(<<2, 2, 1>>)
<1>1. /\ Metric!DefinitionOf(input, <<1, 2, 1>>) = First
      /\ Metric!DefinitionOf(input, <<2, 2, 1>>) = Restated
  BY DEF Metric!DefinitionOf, First, Restated
<1>2. /\ RosterOfMay \subseteq Accounts
      /\ RosterOfMay = Metric!CohortRecords(input, <<1, 2, 1>>)
      /\ RosterOfMay = Metric!CohortRecords(input, <<2, 2, 1>>)
  BY MayReadsRoster, MetricIsAudited DEF RosterOfMay, CohortRecords
<1>3. /\ Metric!Denominator(<<1, 2, 1>>)
           = { a \in RosterOfMay :
                 Metric!FailedClauses(BaseClauses \cup {ActivityClause}, a, <<1, 2, 1>>) = {} }
      /\ Metric!Denominator(<<2, 2, 1>>)
           = { a \in RosterOfMay :
                 Metric!FailedClauses(BaseClauses \cup {SignupsClause}, a, <<2, 2, 1>>) = {} }
  BY <1>1, <1>2, PublishedDenominators, MetricApplies DEF Metric!Denominator, Metric!Members
<1>4. Labelled(ActivityClause) = Metric!Denominator(<<1, 2, 1>>)
  BY <1>2, <1>3, ClausesOfMay DEF Labelled
<1>5. Labelled(SignupsClause) = Metric!Denominator(<<2, 2, 1>>)
  BY <1>2, <1>3, ClausesOfMay DEF Labelled
<1> QED BY <1>4, <1>5

\* A range from one cohort through another is the cohorts between them.
LEMMA RangeOfMany ==
  /\ CohortRange(RestatementCohorts) = <<"2026-05", "2026-06">>
  /\ CoveredBy(CohortRange(RestatementCohorts)) = RestatementCohorts
<1>1. DOMAIN Cohorts = 1..3 /\ \A x : x \in 1..3 <=> x \in {1, 2, 3}
  BY ThreeCohortNames
<1>2. Cohorts[1] = "2026-04" /\ Cohorts[2] = "2026-05" /\ Cohorts[3] = "2026-06"
  BY DEF Cohorts
<1>3. PlacesOf(RestatementCohorts) = {2, 3}
  BY <1>1, <1>2 DEF PlacesOf, RestatementCohorts
<1>4. Min({2, 3}) = 2 /\ Max({2, 3}) = 3
  BY DEF Min, Max
<1>5. CohortRange(RestatementCohorts) = <<"2026-05", "2026-06">>
  BY <1>2, <1>3, <1>4 DEF CohortRange
<1>6. /\ (CHOOSE i \in DOMAIN Cohorts : Cohorts[i] = "2026-05") = 2
      /\ (CHOOSE i \in DOMAIN Cohorts : Cohorts[i] = "2026-06") = 3
  BY <1>1, <1>2
<1>7. CoveredBy(<<"2026-05", "2026-06">>) = {Cohorts[i] : i \in 2..3}
  BY <1>6 DEF CoveredBy
<1>8. {Cohorts[i] : i \in 2..3} = RestatementCohorts
  <2>1. \A i : i \in 2..3 <=> i \in {2, 3}
    OBVIOUS
  <2> QED BY <1>2, <2>1 DEF RestatementCohorts
<1> QED BY <1>5, <1>7, <1>8

\* A range of one cohort is that cohort.
LEMMA RangeOfOne ==
  CoveredBy(CohortRange({NonReconstructableCohort})) = {NonReconstructableCohort}
<1>1. DOMAIN Cohorts = 1..3 /\ \A x : x \in 1..3 <=> x \in {1, 2, 3}
  BY ThreeCohortNames
<1>2. Cohorts[1] = "2026-04" /\ Cohorts[2] = "2026-05" /\ Cohorts[3] = "2026-06"
  BY DEF Cohorts
<1>3. PlacesOf({"2026-04"}) = {1}
  BY <1>1, <1>2 DEF PlacesOf
<1>4. Min({1}) = 1 /\ Max({1}) = 1
  BY DEF Min, Max
<1>5. CohortRange({"2026-04"}) = <<"2026-04", "2026-04">>
  BY <1>2, <1>3, <1>4 DEF CohortRange
<1>6. (CHOOSE i \in DOMAIN Cohorts : Cohorts[i] = "2026-04") = 1
  BY <1>1, <1>2
<1>7. CoveredBy(<<"2026-04", "2026-04">>) = {Cohorts[i] : i \in 1..1}
  BY <1>6 DEF CoveredBy
<1>8. {Cohorts[i] : i \in 1..1} = {"2026-04"}
  <2>1. \A i : i \in 1..1 <=> i \in {1}
    OBVIOUS
  <2> QED BY <1>2, <2>1
<1> QED BY <1>5, <1>7, <1>8 DEF NonReconstructableCohort

\* The count beside a label is the number of accounts the label speaks of.
LEMMA CountsAreOfLabels ==
  ASSUME IInv, outcome = "published", Displayable, NEW version \in {"v1", "v2"}
  PROVE  LET column == Story.denominators[version]
         IN  column.counts[2] = Cardinality(Labelled(column.label))
<1>1. /\ CountsOf(ShownResult(First))[2] = Cardinality(Metric!Denominator(<<1, 2, 1>>))
      /\ CountsOf(ShownResult(Restated))[2] = Cardinality(Metric!Denominator(<<2, 2, 1>>))
  BY ShownOfMay DEF First, Restated, CountsOf
<1> QED BY <1>1, ColumnsTold, LabelledAreCounted

\* The horizon and the plan are told as the evidence has them.
LEMMA RangesTold ==
  ASSUME IInv, outcome = "published"
  PROVE  /\ CoveredBy(Story.reconstructable) = evidence.horizon.fully_reconstructable_cohorts
         /\ CoveredBy(Story.not_reconstructable)
              = evidence.horizon.non_reconstructable_cohorts
         /\ \E i \in DOMAIN Story.actions :
              /\ Story.actions[i].action_type = "RESTATE_COHORT_RANGE"
              /\ Story.actions[i].range = Story.reconstructable
<1>1. /\ Story.reconstructable = CohortRange(evidence.horizon.fully_reconstructable_cohorts)
      /\ Story.not_reconstructable = CohortRange(evidence.horizon.non_reconstructable_cohorts)
      /\ DOMAIN Story.actions = DOMAIN evidence.plan.actions
      /\ \A i \in DOMAIN evidence.plan.actions :
           Story.actions[i] = [ action_type |-> evidence.plan.actions[i].action_type,
                                range |-> CohortRange(evidence.plan.actions[i].scope) ]
  BY DEF Story
<1>2. 1 \in DOMAIN Story.actions
  BY <1>1, PublishedPlan
<1>3. PositiveActionTypes[1] = "RESTATE_COHORT_RANGE" /\ Scopes[1] = RestatementCohorts
  BY DEF PositiveActionTypes, Scopes
<1>4. /\ Story.actions[1].action_type = "RESTATE_COHORT_RANGE"
      /\ Story.actions[1].range = Story.reconstructable
  <2>1. /\ evidence.plan.actions[1].action_type = "RESTATE_COHORT_RANGE"
        /\ evidence.plan.actions[1].scope = RestatementCohorts
    BY <1>3, PublishedPlan
  <2>2. Story.actions[1] = [ action_type |-> evidence.plan.actions[1].action_type,
                             range |-> CohortRange(evidence.plan.actions[1].scope) ]
    BY <1>1, <1>2
  <2>3. Story.reconstructable = CohortRange(RestatementCohorts)
    BY <1>1, PublishedPlan
  <2> QED BY <2>1, <2>2, <2>3
<1> QED BY <1>1, <1>2, <1>4, PublishedPlan, RangeOfMany, RangeOfOne

\* The changed context was seen, and refused.
LEMMA ConfoundTold ==
  ASSUME IInv, outcome = "published"
  PROVE  Story.confound_detected /\ Story.confound_refused
<1>1. evidence.g3_analysis = ConfoundedDifference
  BY PublishedHasPassed DEF IInv, DerivedInv
<1>2. evidence.g3_analysis.controlled_context_match = ("shared" = "confounded")
  BY <1>1 DEF ConfoundedDifference, ArmDifference
<1>3. evidence.g3_analysis.attribution_valid
        = ( /\ ArtifactDifferent(First, Restated)
            /\ SemanticDifferent(First, Restated)
            /\ IndependentSemanticChanges(First, Restated) = {"denominator"}
            /\ "shared" = "confounded" )
  BY <1>1 DEF ConfoundedDifference, ArmDifference
<1>4. ~evidence.g3_analysis.controlled_context_match /\ ~evidence.g3_analysis.attribution_valid
  BY <1>2, <1>3
<1>5. /\ Story.confound_detected = ~evidence.g3_analysis.controlled_context_match
      /\ Story.confound_refused = ~evidence.g3_analysis.attribution_valid
  BY DEF Story
<1> QED BY <1>4, <1>5

\* The display tells of every published evidence what it says: the counts of the
\* labelled accounts, the cohorts of the horizon and of the plan, the refusal.
THEOREM DisplayTellsAlways == DemoSpec => []DisplayTellsEvidence
<1>1. DemoInv => DisplayTellsEvidence
  <2> SUFFICES ASSUME DemoInv, Printed PROVE DisplayTellsEvidence
    BY DEF DisplayTellsEvidence
  <2>1. IInv /\ outcome = "published" /\ shown.story = Story /\ Displayable
    BY PrintedIsStory
  <2>2. Story.denominators["v1"].label = "qualifying_activity_within_days"
    BY <2>1, ColumnsTold DEF ActivityClause
  <2>3. \A version \in {"v1", "v2"} :
          LET column == Story.denominators[version]
          IN  column.counts[2] = Cardinality(Labelled(column.label))
    BY <2>1, CountsAreOfLabels
  <2> QED BY <2>1, <2>2, <2>3, RangesTold, ConfoundTold DEF DisplayTellsEvidence
<1> QED BY <1>1, DemoInvariance, PTL
=============================================================================
