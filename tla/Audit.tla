------------------------------- MODULE Audit --------------------------------
(***************************************************************************)
(* One execution from the loaded input to the decision whether its         *)
(* evidence may be written: the stages of build_evidence in their order,   *)
(* the controls, the barrier before serialization and the last refusals of *)
(* execute.  Each stage adds to the evidence or ends the execution; the    *)
(* calculation is the value KpiMetric promises for each cell.              *)
(***************************************************************************)
EXTENDS Consistency

CONSTANT Oracle   \* the frozen counts control G1 expects, by golden key

VARIABLES
  input,      \* what the execution loaded
  evidence,   \* what the stages have produced, by name
  stage,      \* the stage to run next, or the one that ended the execution
  outcome     \* "running", "raised" or "published"

vars == <<input, evidence, stage, outcome>>

Metric == INSTANCE KpiMetric WITH results <- <<>>

ChannelNames == {Channels[i] : i \in DOMAIN Channels}

GoldenKeys == {"1.0.0", "2.0.0"} \X CohortNames \X ChannelNames

ASSUME ThreeDefinitions ==
  \A i \in Inputs :
    /\ Len(i.definitions) = 3
    /\ i.definitions[1].version = "1.0.0"
    /\ i.definitions[2].version = "2.0.0"
ASSUME OracleIsOfGoldenKeys ==
  /\ DOMAIN Oracle = GoldenKeys \ ({"2.0.0"} \X {NonReconstructableCohort} \X ChannelNames)
  /\ \A key \in DOMAIN Oracle : Oracle[key] \in Nat \X Nat

First    == input.definitions[1]
Restated == input.definitions[2]
Metadata == input.definitions[3]

-----------------------------------------------------------------------------
Initially(i) ==
  /\ input = i
  /\ evidence = [assumptions |-> i.assumptions, policy_rules |-> i.policy_rules]
  /\ stage = "analyse"
  /\ outcome = "running"

Init == \E i \in Inputs : Initially(i)

At(name) == stage = name /\ outcome = "running"

\* A record with the fields of another added to its own.
Extended(record, fields) ==
  [ name \in DOMAIN record \cup DOMAIN fields |->
      IF name \in DOMAIN record THEN record[name] ELSE fields[name] ]

Produce(fields, next) ==
  /\ evidence' = Extended(evidence, fields)
  /\ stage' = next
  /\ UNCHANGED <<input, outcome>>

Advance(next) ==
  /\ stage' = next
  /\ UNCHANGED <<input, evidence, outcome>>

Raise ==
  /\ outcome' = "raised"
  /\ UNCHANGED <<input, evidence, stage>>

\* The arms share one context; the confounded arm of control G3 has another,
\* whose snapshot holds one more provenance record.
Analyse ==
  /\ At("analyse")
  /\ Produce([ golden_analysis |->
                 ArmDifference(GoldenAnalysisId, First, Restated,
                               "shared", "shared"),
               g3_analysis |->
                 ArmDifference(ConfoundedAnalysisId, First, Restated,
                               "shared", "confounded") ],
             "calculate")

EveryCellHasAValue == \A cell \in Cells(input) : ~Metric!Valueless(cell)

Calculate ==
  /\ At("calculate")
  /\ EveryCellHasAValue
  /\ Produce([results |-> [cell \in Cells(input) |-> Metric!Value(cell)]],
             "assess")

CalculationRaises ==
  /\ At("calculate")
  /\ ~EveryCellHasAValue
  /\ Raise

\* The results of the first two definitions by version, cohort and channel.
GoldenCell(key) ==
  CHOOSE cell \in Cells(input) :
    /\ cell[1] \in {1, 2}
    /\ <<DefinitionOf(input, cell).version, CohortOf(cell), ChannelOf(cell)>> = key

GoldenResults == [key \in GoldenKeys |-> evidence.results[GoldenCell(key)]]

ExactAt(keys) == \A key \in keys : IsExact(GoldenResults[key])

VerdictsOn(definition) ==
  [ i \in DOMAIN input.coverage |->
      AssessReconstructability(definition, input.coverage[i]) ]

\* Every definition under every declaration, in this order.
Reconstructability ==
  VerdictsOn(First) \o VerdictsOn(Restated) \o VerdictsOn(Metadata)

\* The verdicts on a version, each at the place it has among all.
OfVersion(verdicts, version) ==
  [i \in {j \in DOMAIN verdicts : verdicts[j].version = version} |-> verdicts[i]]

RestatedVerdicts == OfVersion(evidence.reconstructability, "2.0.0")

Assess ==
  /\ At("assess")
  /\ Produce([ reconstructability |-> Reconstructability,
               horizon |->
                 HorizonCoverage(OfVersion(Reconstructability, "2.0.0")) ],
             "compare")

Compare ==
  /\ At("compare")
  /\ ExactAt(ComparisonEndpoints(Alpha))
  /\ Produce([comparisons |->
                TrendComparisons(GoldenResults, evidence.golden_analysis, Alpha)],
             "decide")

Decide ==
  /\ At("decide")
  /\ ExactAt(DecisionEndpoints(Alpha, Beta))
  /\ LET changes == DecisionChanges(GoldenResults, evidence.comparisons[1],
                       evidence.comparisons[2], Alpha, Beta)
     IN  Produce([decision_changes |-> changes, impact |-> ImpactIndex(changes)],
                 "refuse")

\* _require_result; coverage is by cohort, so in the second stage it never does.
RequiredResultAbsent ==
  /\ outcome = "running"
  /\ stage \in {"compare", "decide"}
  /\ ~ExactAt(IF stage = "compare" THEN ComparisonEndpoints(Alpha)
              ELSE DecisionEndpoints(Alpha, Beta))
  /\ Raise

\* The confounded comparison of control G3 and the plan it leads to.
Refuse ==
  /\ At("refuse")
  /\ LET comparison ==
           ConfoundedComparison(GoldenResults, evidence.g3_analysis, Alpha)
     IN  Produce([ g3_comparison |-> comparison,
                   g3_plan |->
                     MigrationPlan(evidence.g3_analysis, evidence.horizon,
                       RestatedVerdicts, <<comparison>>,
                       evidence.decision_changes, <<>>) ],
                 "control")

-----------------------------------------------------------------------------
(***************************************************************************)
(* The controls.                                                           *)
(***************************************************************************)
Places == (DOMAIN Cohorts) \X (DOMAIN Channels)

ResultSet(position) ==
  [place \in Places |-> evidence.results[<<position, place[1], place[2]>>]]

CountsOf(result) ==
  <<Cardinality(result.numerator), Cardinality(result.denominator)>>

AggregatesNamed ==
  {key \in GoldenKeys : IsExact(GoldenResults[key])} = DOMAIN Oracle

\* The oracle names exactly the golden results that are numbers, and their
\* counts; April has none under version 2.0.0.
AggregatesMatch ==
  LET computed == {key \in GoldenKeys : IsExact(GoldenResults[key])}
  IN  /\ computed = DOMAIN Oracle
      /\ \A key \in computed : CountsOf(GoldenResults[key]) = Oracle[key]

AprilAbsent ==
  \A channel \in ChannelNames :
    ~IsExact(GoldenResults[<<"2.0.0", NonReconstructableCohort, channel>>])

\* A result without its identity; a version is part of the identity.
ResultProjectionNamed(results, version) ==
  [ place \in Places |->
      [ version |-> version, status |-> results[place].status,
        numerator |-> results[place].numerator,
        denominator |-> results[place].denominator,
        excluded |-> results[place].excluded ] ]

ResultProjection(results, version) ==
  [ place \in Places |->
      [ status |-> results[place].status,
        numerator |-> results[place].numerator,
        denominator |-> results[place].denominator,
        excluded |-> results[place].excluded ] ]

DecisionProjection(results) ==
  LET computed == {place \in Places : IsExact(results[place])}
  IN  [ threshold_states |->
          [place \in computed |-> ThresholdState(RateOf(results[place]))],
        rankings |->
          [ cohort \in { c \in DOMAIN Cohorts : {c} \X {1, 2} \subseteq computed } |->
              Ranking(RateOf(results[<<cohort, 1>>]),
                      RateOf(results[<<cohort, 2>>])) ] ]

OnlyMetadataChanged ==
  LET before == ResultSet(1)
      after  == ResultSet(3)
  IN  /\ ArtifactDifferent(First, Metadata)
      /\ ~SemanticDifferent(First, Metadata)
      /\ ResultProjection(before, First.version)
           = ResultProjection(after, Metadata.version)
      /\ DecisionProjection(before) = DecisionProjection(after)

ConfoundedRefused ==
  /\ ~evidence.g3_analysis.controlled_context_match
  /\ evidence.g3_comparison.verdict = "INSUFFICIENT_EVIDENCE"
  /\ Len(evidence.g3_plan.actions) = 1

\* The exact value of a result; a refusal has none.
ValueOrNone(result) == IF IsExact(result) THEN RateOf(result) ELSE <<>>

\* The cell of the control has one value, or none, under both versions.
SameNumberOtherMeaning ==
  LET value(version) ==
        ValueOrNone(GoldenResults[<<version, input.g4_cell.cohort, input.g4_cell.channel>>])
  IN  /\ value("1.0.0") = value("2.0.0")
      /\ SemanticDifferent(First, Restated)

PassIf(condition) == IF condition THEN "PASS" ELSE "FAIL"

Control ==
  /\ At("control")
  /\ Produce([controls |->
                [ G1 |-> PassIf(AggregatesMatch /\ AprilAbsent),
                  G2 |-> PassIf(OnlyMetadataChanged),
                  G3 |-> PassIf(ConfoundedRefused),
                  G4 |-> PassIf(SameNumberOtherMeaning) ]],
             "plan")

Plan ==
  /\ At("plan")
  /\ Produce([plan |->
                MigrationPlan(evidence.golden_analysis, evidence.horizon,
                  RestatedVerdicts, evidence.comparisons,
                  evidence.decision_changes, evidence.controls)],
             "references")

-----------------------------------------------------------------------------
(***************************************************************************)
(* The barrier, in the order of its checks.  It sees every result under    *)
(* its identifier, both analyses, all three comparisons and both plans.    *)
(***************************************************************************)
ResultId(cell) ==
  <<DefinitionOf(input, cell).version, CohortOf(cell), ChannelOf(cell)>>

ResultIdsUnique == IdsUnique([cell \in Cells(input) |-> ResultId(cell)])

ResultIds == {ResultId(cell) : cell \in Cells(input)}

ResultById ==
  [ id \in ResultIds |->
      evidence.results[CHOOSE cell \in Cells(input) : ResultId(cell) = id] ]

AnalysisById ==
  [ id \in {GoldenAnalysisId, ConfoundedAnalysisId} |->
      IF id = GoldenAnalysisId THEN evidence.golden_analysis
      ELSE evidence.g3_analysis ]

AllComparisons == Append(evidence.comparisons, evidence.g3_comparison)
Plans == <<evidence.plan, evidence.g3_plan>>

Versions == {input.definitions[i].version : i \in DOMAIN input.definitions}

ReferencesResolve ==
  LET comparisons == AllComparisons
      changes  == evidence.decision_changes
      registry == EvidenceRegistry(ResultIds, AnalysisById,
                    evidence.reconstructability, comparisons, changes,
                    evidence.controls, evidence.assumptions)
      scopes   == ScopeRegistry(AnalysisById, comparisons)
  IN  /\ \A i \in DOMAIN evidence.reconstructability :
           evidence.reconstructability[i].version \in Versions
      /\ \A i \in DOMAIN comparisons :
           ComparisonResolves(comparisons[i], ResultIds, AnalysisById, registry,
                              evidence.assumptions, Versions)
      /\ \A i \in DOMAIN changes :
           ChangeResolves(changes[i], comparisons, registry, evidence.assumptions)
      /\ Range(evidence.impact) \subseteq Range(ImpactIndex(changes))
      /\ \A plan \in Range(Plans) :
           PlanResolves(plan, scopes, registry, evidence.assumptions,
                        evidence.policy_rules)

ResolveReferences ==
  /\ At("references")
  /\ ReferencesResolve
  /\ Advance("comparisons")

ComparisonsHold ==
  /\ ResultIdsUnique
  /\ ComparisonsAgree(AllComparisons, ResultById, AnalysisById)

CheckComparisons ==
  /\ At("comparisons")
  /\ ComparisonsHold
  /\ Advance("changes")

DecisionsHold ==
  DecisionsAgree(ResultById, AllComparisons, evidence.decision_changes,
                 evidence.impact)

CheckDecisions ==
  /\ At("changes")
  /\ DecisionsHold
  /\ Advance("plans")

\* The plans that follow from what has been checked so far.
ExpectedPlans ==
  LET of(analysis, comparisons, controls) ==
        MigrationPlan(analysis, evidence.horizon, RestatedVerdicts, comparisons,
                      evidence.decision_changes, controls)
      one(kind) == OnlyOfKind(AllComparisons, kind)
  IN  << of(evidence.golden_analysis, <<one("TREND_STITCH"), one("RESTATED_TREND")>>,
            evidence.controls),
         of(evidence.g3_analysis, <<one("DEFINITION_IMPACT")>>, <<>>) >>

PlansHold ==
  /\ HasOneOfKind(AllComparisons, "DEFINITION_IMPACT")
  /\ PlansAgree(Plans, ExpectedPlans, evidence.horizon, RestatedVerdicts,
                AllComparisons)

CheckPlans ==
  /\ At("plans")
  /\ PlansHold
  /\ Advance("release")

BarrierStages == {"references", "comparisons", "changes", "plans"}

Holds ==
  CASE stage = "references"  -> ReferencesResolve
    [] stage = "comparisons" -> ComparisonsHold
    [] stage = "changes"     -> DecisionsHold
    [] stage = "plans"       -> PlansHold

BarrierRaises ==
  /\ outcome = "running"
  /\ stage \in BarrierStages
  /\ ~Holds
  /\ Raise

\* What execute still asks before anything is written.
Accepted ==
  /\ \A id \in ControlIds : evidence.controls[id] = "PASS"
  /\ evidence.golden_analysis.attribution_valid

Release ==
  /\ At("release")
  /\ Accepted
  /\ outcome' = "published"
  /\ UNCHANGED <<input, evidence, stage>>

ReleaseRaises ==
  /\ At("release")
  /\ ~Accepted
  /\ Raise

Terminated ==
  /\ outcome # "running"
  /\ UNCHANGED vars

Next ==
  \/ Analyse
  \/ Calculate
  \/ CalculationRaises
  \/ Assess
  \/ Compare
  \/ Decide
  \/ RequiredResultAbsent
  \/ Refuse
  \/ Control
  \/ Plan
  \/ ResolveReferences
  \/ CheckComparisons
  \/ CheckDecisions
  \/ CheckPlans
  \/ BarrierRaises
  \/ Release
  \/ ReleaseRaises
  \/ Terminated

Spec == Init /\ [][Next]_vars
=============================================================================
