---------------------------- MODULE BarrierProofs ----------------------------
(***************************************************************************)
(* Proofs about the barrier before serialization: everything the stages    *)
(* produce passes it, unless an assumption or a rule is cited that is not  *)
(* declared, two results have one identity, the difference of the arms is  *)
(* not attributed to the definition or April has contradictory verdicts.   *)
(* The inductive invariant of AuditProofs says                             *)
(* what each piece of evidence was derived from; each check is then shown  *)
(* of the derived pieces: references first, comparisons and decisions      *)
(* where identifiers are unique, and plans last.                           *)
(***************************************************************************)
EXTENDS AuditProofs

\* Past the last stage the evidence is complete and derived.
LEMMA Complete ==
  ASSUME IInv, stage \notin UntilPlan
  PROVE  /\ evidence.golden_analysis = GoldenDifference
         /\ evidence.g3_analysis = ConfoundedDifference
         /\ evidence.results = AllValues
         /\ evidence.reconstructability = Reconstructability
         /\ evidence.horizon = HorizonCoverage(RestatedVerdicts)
         /\ evidence.comparisons = TrendsOf
         /\ evidence.decision_changes = ChangesOf
         /\ evidence.impact = ImpactIndex(evidence.decision_changes)
         /\ evidence.g3_comparison = ConfoundedOf
         /\ evidence.g3_plan = RefusalOf
         /\ evidence.controls = ControlsOf
         /\ evidence.plan = PlanOf
         /\ evidence.assumptions = input.assumptions
         /\ evidence.policy_rules = input.policy_rules
         /\ ExactAt(ComparisonEndpoints(Alpha))
         /\ ExactAt(DecisionEndpoints(Alpha, Beta))
<1>1. \A name \in {"golden_analysis", "g3_analysis", "results", "reconstructability",
                   "horizon", "comparisons", "decision_changes", "impact",
                   "g3_comparison", "g3_plan", "controls", "plan"} : Has(name)
  BY DEF IInv, ProducedInv, UntilCalculate, UntilAssess, UntilCompare, UntilDecide,
     UntilRefuse, UntilControl, UntilPlan
<1> QED BY <1>1 DEF IInv, DerivedInv, HorizonOf, RestatedVerdicts

(***************************************************************************)
(* The two trend comparisons apart.                                        *)
(***************************************************************************)
StitchFrom(results, analysis, alpha) ==
  Comparison("TREND_STITCH",
    Endpoint(<<"1.0.0", "2026-05", alpha>>, results),
    Endpoint(<<"2.0.0", "2026-06", alpha>>, results), analysis,
    Judgement(FALSE, "NOT_COMPARABLE_WITHOUT_BRIDGE",
      "CROSS_SEMANTIC_VERSION_TREND_PROHIBITED", {"A_TREND_SAME_SEMANTICS"}))

RestatedFrom(results, analysis, alpha) ==
  Comparison("RESTATED_TREND",
    Endpoint(<<"2.0.0", "2026-05", alpha>>, results),
    Endpoint(<<"2.0.0", "2026-06", alpha>>, results), analysis,
    Judgement(TRUE, "COMPARABLE_AFTER_RESTATEMENT",
      "BOTH_ENDPOINTS_RESTATED_UNDER_V2", {"A_TREND_SAME_SEMANTICS"}))

StitchOf == StitchFrom(GoldenResults, evidence.golden_analysis, Alpha)
RestatedOf == RestatedFrom(GoldenResults, evidence.golden_analysis, Alpha)

\* Together they are what the stage produces.
LEMMA TrendsAre ==
  ASSUME NEW results, NEW analysis, NEW alpha
  PROVE  TrendComparisons(results, analysis, alpha)
           = <<StitchFrom(results, analysis, alpha), RestatedFrom(results, analysis, alpha)>>
BY Zenon DEF TrendComparisons, StitchFrom, RestatedFrom

\* The three comparisons, at their places.
LEMMA ComparisonsAre ==
  ASSUME IInv, stage \notin UntilPlan
  PROVE  /\ evidence.comparisons = <<evidence.comparisons[1], evidence.comparisons[2]>>
         /\ DOMAIN evidence.comparisons = 1..2
         /\ DOMAIN AllComparisons = 1..3
         /\ AllComparisons[1] = evidence.comparisons[1]
         /\ AllComparisons[2] = evidence.comparisons[2]
         /\ AllComparisons[3] = evidence.g3_comparison
         /\ evidence.comparisons[1] = StitchOf
         /\ evidence.comparisons[2] = RestatedOf
         /\ evidence.g3_comparison = ConfoundedOf
<1>1. TrendsOf = <<StitchOf, RestatedOf>>
  BY TrendsAre DEF TrendsOf, StitchOf, RestatedOf
<1>2. /\ DOMAIN AllComparisons = 1..3
      /\ AllComparisons[1] = StitchOf
      /\ AllComparisons[2] = RestatedOf
      /\ AllComparisons[3] = ConfoundedOf
  <2> DEFINE trends == <<StitchOf, RestatedOf>>
             T == {StitchOf, RestatedOf, ConfoundedOf}
  <2>1. trends \in Seq(T) /\ Len(trends) = 2 /\ ConfoundedOf \in T
    OBVIOUS
  <2>2. trends[1] = StitchOf /\ trends[2] = RestatedOf
    OBVIOUS
  <2>3. AllComparisons = Append(trends, ConfoundedOf)
    BY <1>1, Complete DEF AllComparisons
  <2> HIDE DEF trends, T
  <2>4. AllComparisons \in Seq(T) /\ Len(AllComparisons) = 3
    BY <2>1, <2>3, AppendProperties
  <2>5. /\ AllComparisons[1] = trends[1] /\ AllComparisons[2] = trends[2]
        /\ AllComparisons[2 + 1] = ConfoundedOf
    BY <2>1, <2>3, AppendProperties
  <2> QED BY <2>2, <2>4, <2>5
<1> QED BY <1>1, <1>2, Complete

\* Their kinds and identifiers.
LEMMA ComparisonKinds ==
  ASSUME IInv, stage \notin UntilPlan
  PROVE  /\ AllComparisons[1].kind = "TREND_STITCH"
         /\ AllComparisons[2].kind = "RESTATED_TREND"
         /\ AllComparisons[3].kind = "DEFINITION_IMPACT"
         /\ AllComparisons[1].assessment_id = <<"TREND_STITCH">>
         /\ AllComparisons[2].assessment_id = <<"RESTATED_TREND">>
         /\ AllComparisons[3].assessment_id = <<"DEFINITION_IMPACT">>
<1>1. StitchOf.kind = "TREND_STITCH" /\ StitchOf.assessment_id = <<"TREND_STITCH">>
  BY DEF StitchOf, StitchFrom, Comparison
<1>2. RestatedOf.kind = "RESTATED_TREND" /\ RestatedOf.assessment_id = <<"RESTATED_TREND">>
  BY DEF RestatedOf, RestatedFrom, Comparison
<1>3. /\ ConfoundedOf.kind = "DEFINITION_IMPACT"
      /\ ConfoundedOf.assessment_id = <<"DEFINITION_IMPACT">>
  BY DEF ConfoundedOf, ConfoundedComparison, Comparison
<1> QED BY <1>1, <1>2, <1>3, ComparisonsAre

\* Every comparison has its kind alone.
LEMMA KindsAre ==
  ASSUME IInv, stage \notin UntilPlan
  PROVE  /\ OfKind(AllComparisons, "TREND_STITCH") = {1}
         /\ OfKind(AllComparisons, "RESTATED_TREND") = {2}
         /\ OfKind(AllComparisons, "DEFINITION_IMPACT") = {3}
         /\ OnlyOfKind(AllComparisons, "TREND_STITCH") = evidence.comparisons[1]
         /\ OnlyOfKind(AllComparisons, "RESTATED_TREND") = evidence.comparisons[2]
         /\ OnlyOfKind(AllComparisons, "DEFINITION_IMPACT") = evidence.g3_comparison
         /\ HasOneOfKind(AllComparisons, "TREND_STITCH")
         /\ HasOneOfKind(AllComparisons, "RESTATED_TREND")
         /\ HasOneOfKind(AllComparisons, "DEFINITION_IMPACT")
<1>1. \A x : x \in 1..3 <=> x \in {1, 2, 3}
  OBVIOUS
<1>2. /\ OfKind(AllComparisons, "TREND_STITCH") = {1}
      /\ OfKind(AllComparisons, "RESTATED_TREND") = {2}
      /\ OfKind(AllComparisons, "DEFINITION_IMPACT") = {3}
  BY <1>1, ComparisonsAre, ComparisonKinds DEF OfKind
<1>3. Cardinality({1}) = 1 /\ Cardinality({2}) = 1 /\ Cardinality({3}) = 1
  BY FS_Singleton
<1>4. /\ (CHOOSE i \in {1} : TRUE) = 1 /\ (CHOOSE i \in {2} : TRUE) = 2
      /\ (CHOOSE i \in {3} : TRUE) = 3
  OBVIOUS
<1> QED BY <1>2, <1>3, <1>4, ComparisonsAre DEF OnlyOfKind, HasOneOfKind

\* The confounded arm is never attributed, so its plan is a rejection for that.
LEMMA RefusalIs ==
  ASSUME IInv, stage \notin UntilPlan
  PROVE  evidence.g3_plan
           = Rejection("PLAN-G3-REJECT",
               << Equals("definition_only_attribution_valid",
                    evidence.g3_analysis.attribution_valid, TRUE,
                    {evidence.g3_analysis.analysis_id}) >>,
               {evidence.g3_analysis.analysis_id})
<1>1. ~ConfoundedDifference.attribution_valid
  BY DEF ConfoundedDifference, ArmDifference
<1> QED BY <1>1, Complete DEF RefusalOf, RefusalWith, MigrationPlan

\* So is the plan of the execution itself where the difference is not attributed.
LEMMA UnattributedPlanIs ==
  ASSUME IInv, stage \notin UntilPlan, ~evidence.golden_analysis.attribution_valid
  PROVE  evidence.plan
           = Rejection("PLAN-G3-REJECT",
               << Equals("definition_only_attribution_valid",
                    evidence.golden_analysis.attribution_valid, TRUE,
                    {evidence.golden_analysis.analysis_id}) >>,
               {evidence.golden_analysis.analysis_id})
BY Complete DEF PlanOf, MigrationPlan

\* What passes the barrier is attributed: an unattributed plan would have the
\* identifier of the plan of control G3.
LEMMA ReleasedIsAttributed ==
  ASSUME IInv, stage = "release"
  PROVE  ResultIdsUnique /\ evidence.golden_analysis.attribution_valid
<1>1. ResultIdsUnique
  BY DEF IInv, BarrierInv, ComparisonsHold
<1>2. SUFFICES ASSUME ~evidence.golden_analysis.attribution_valid PROVE FALSE
  BY <1>1
<1>3. stage \notin UntilPlan
  BY DEF UntilCalculate, UntilAssess, UntilCompare, UntilDecide,
     UntilRefuse, UntilControl, UntilPlan
<1>4. evidence.plan.plan_id = "PLAN-G3-REJECT" /\ evidence.g3_plan.plan_id = "PLAN-G3-REJECT"
  BY <1>2, <1>3, UnattributedPlanIs, RefusalIs DEF Rejection
<1>5. IdsUnique(PlanIds(Plans))
  BY DEF IInv, BarrierInv, PlansHold, PlansAgree
<1>6. DOMAIN Plans = 1..2 /\ Plans[1] = evidence.plan /\ Plans[2] = evidence.g3_plan
  BY DEF Plans
<1>7. PlanIds(Plans)[1] = PlanIds(Plans)[2] /\ DOMAIN PlanIds(Plans) = 1..2
  BY <1>4, <1>6 DEF PlanIds
<1> QED BY <1>5, <1>7 DEF IdsUnique, IsInjective

-----------------------------------------------------------------------------
(***************************************************************************)
(* References.                                                             *)
(***************************************************************************)
\* A golden key names one of the cells.
LEMMA GoldenCellOf ==
  ASSUME NEW key \in GoldenKeys
  PROVE  \E d \in {1, 2}, k \in 1..3, l \in 1..2 :
           key = <<IF d = 1 THEN "1.0.0" ELSE "2.0.0", Cohorts[k], Channels[l]>>
<1>1. PICK v \in {"1.0.0", "2.0.0"}, c \in CohortNames, n \in ChannelNames :
        key = <<v, c, n>>
  BY DEF GoldenKeys
<1>2. PICK k \in 1..3 : c = Cohorts[k]
  BY ThreeCohortNames DEF CohortNames
<1>3. PICK l \in 1..2 : n = Channels[l]
  BY TwoChannelNames DEF ChannelNames
<1>4. CASE v = "1.0.0"
  BY <1>1, <1>2, <1>3, <1>4
<1>5. CASE v = "2.0.0"
  BY <1>1, <1>2, <1>3, <1>5
<1> QED BY <1>4, <1>5

\* A cell of the first two definitions has its golden key as identifier.
LEMMA ResultIdIs ==
  ASSUME IInv, NEW d \in {1, 2}, NEW k \in 1..3, NEW l \in 1..2
  PROVE  /\ <<d, k, l>> \in Cells(input)
         /\ ResultId(<<d, k, l>>)
              = <<IF d = 1 THEN "1.0.0" ELSE "2.0.0", Cohorts[k], Channels[l]>>
<1>1. <<d, k, l>> \in Cells(input)
  BY LoadedInput, ThreeCohortNames, TwoChannelNames DEF Cells
<1>2. input.definitions[d].version = IF d = 1 THEN "1.0.0" ELSE "2.0.0"
  BY LoadedInput DEF First, Restated
<1> QED BY <1>1, <1>2 DEF ResultId, DefinitionOf, CohortOf, ChannelOf

\* So a golden key is an identifier of some result.
LEMMA GoldenKeysResolve ==
  ASSUME IInv
  PROVE  GoldenKeys \subseteq ResultIds
<1> SUFFICES ASSUME NEW key \in GoldenKeys PROVE key \in ResultIds
  OBVIOUS
<1>1. PICK d \in {1, 2}, k \in 1..3, l \in 1..2 :
        key = <<IF d = 1 THEN "1.0.0" ELSE "2.0.0", Cohorts[k], Channels[l]>>
  BY GoldenCellOf
<1>2. key = ResultId(<<d, k, l>>) /\ <<d, k, l>> \in Cells(input)
  BY <1>1, ResultIdIs
<1> QED BY <1>2 DEF ResultIds

\* Where identifiers are unique, each leads to the golden result of its key.
LEMMA ResultByIdIs ==
  ASSUME IInv, Has("results"), ResultIdsUnique
  PROVE  \A key \in GoldenKeys : ResultById[key] = GoldenResults[key]
<1> SUFFICES ASSUME NEW key \in GoldenKeys PROVE ResultById[key] = GoldenResults[key]
  OBVIOUS
<1>1. PICK d \in {1, 2}, k \in 1..3, l \in 1..2 :
        key = <<IF d = 1 THEN "1.0.0" ELSE "2.0.0", Cohorts[k], Channels[l]>>
  BY GoldenCellOf
<1>2. key = ResultId(<<d, k, l>>) /\ <<d, k, l>> \in Cells(input)
  BY <1>1, ResultIdIs
<1>3. ASSUME NEW cell \in Cells(input), ResultId(cell) = key PROVE cell = <<d, k, l>>
  <2> DEFINE ids == [c \in Cells(input) |-> ResultId(c)]
  <2>1. ids[cell] = ids[<<d, k, l>>]
    BY <1>2, <1>3
  <2> QED BY <1>2, <2>1 DEF ResultIdsUnique, IdsUnique, IsInjective
<1>4. (CHOOSE cell \in Cells(input) : ResultId(cell) = key) = <<d, k, l>>
  BY <1>2, <1>3
<1>5. ResultById[key] = evidence.results[<<d, k, l>>]
  BY <1>2, <1>4 DEF ResultById, ResultIds
<1>6. evidence.results[<<d, k, l>>] = Metric!Value(<<d, k, l>>)
  BY <1>2 DEF IInv, DerivedInv, AllValues
<1>7. GoldenResults[key] = Metric!Value(<<d, k, l>>)
  BY <1>1, GoldenResultAt
<1> QED BY <1>5, <1>6, <1>7

\* What the evidence may be cited by.
TheRegistry ==
  EvidenceRegistry(ResultIds, AnalysisById, evidence.reconstructability,
                   AllComparisons, evidence.decision_changes, evidence.controls,
                   evidence.assumptions)

\* It has every kind of identifier that is cited.
LEMMA RegistryHolds ==
  ASSUME IInv
  PROVE  /\ {ContractId, PolicyId, HorizonId} \subseteq TheRegistry
         /\ GoldenKeys \subseteq TheRegistry
         /\ {GoldenAnalysisId, ConfoundedAnalysisId} \subseteq TheRegistry
         /\ \A i \in DOMAIN evidence.reconstructability :
              ReconstructabilityId(evidence.reconstructability[i]) \in TheRegistry
         /\ \A i \in DOMAIN AllComparisons :
              AllComparisons[i].assessment_id \in TheRegistry
         /\ \A i \in DOMAIN evidence.decision_changes :
              evidence.decision_changes[i].change_id \in TheRegistry
         /\ \A id \in DOMAIN evidence.controls : <<id>> \in TheRegistry
<1>1. DOMAIN AnalysisById = {GoldenAnalysisId, ConfoundedAnalysisId}
  BY DEF AnalysisById
<1> QED BY <1>1, GoldenKeysResolve DEF TheRegistry, EvidenceRegistry

\* The endpoints of the comparisons are golden keys.
LEMMA EndpointKeys ==
  /\ {"1.0.0", "2.0.0"} \X {"2026-05", "2026-06"} \X {Alpha, Beta} \subseteq GoldenKeys
  /\ ComparisonEndpoints(Alpha) \subseteq GoldenKeys
  /\ DecisionEndpoints(Alpha, Beta) \subseteq GoldenKeys
<1>1. {"1.0.0", "2.0.0"} \X {"2026-05", "2026-06"} \X {Alpha, Beta} \subseteq GoldenKeys
  BY ThreeCohortNames, TwoChannelNames DEF GoldenKeys
<1> QED BY <1>1 DEF ComparisonEndpoints, DecisionEndpoints

\* Every verdict is on a version the definitions have.
LEMMA VerdictVersions ==
  ASSUME IInv, NEW i \in DOMAIN Reconstructability
  PROVE  Reconstructability[i].version \in Versions
<1> DEFINE T == {AssessReconstructability(d, input.coverage[j]) :
                   d \in {First, Restated, Metadata}, j \in DOMAIN input.coverage}
<1>1. input.coverage \in Seq(CoverageDeclaration)
  BY LoadedInput DEF Input
<1>2. \A d \in {First, Restated, Metadata} : VerdictsOn(d) \in Seq(T)
  BY <1>1 DEF VerdictsOn
<1>3. Reconstructability \in Seq(T)
  <2> HIDE DEF T
  <2> QED BY <1>2, ConcatProperties DEF Reconstructability
<1>4. Reconstructability[i] \in T
  BY <1>3
<1>5. \A t \in T : t.version \in {First.version, Restated.version, Metadata.version}
  BY DEF AssessReconstructability
<1>6. {First.version, Restated.version, Metadata.version} \subseteq Versions
  BY LoadedInput DEF Versions, First, Restated, Metadata
<1> QED BY <1>4, <1>5, <1>6

\* What the comparisons cite.
LEMMA ComparisonCites ==
  ASSUME NEW kind, NEW left, NEW right, NEW results, NEW analysis, NEW judgement, NEW comparison,
         comparison = Comparison(kind, Endpoint(left, results), Endpoint(right, results),
                                 analysis, judgement)
  PROVE  /\ comparison.left = Endpoint(left, results)
         /\ comparison.right = Endpoint(right, results)
         /\ comparison.left.result_id = left /\ comparison.right.result_id = right
         /\ comparison.left.version = left[1] /\ comparison.right.version = right[1]
         /\ comparison.left.cohort = left[2] /\ comparison.right.cohort = right[2]
         /\ comparison.left.channel = left[3] /\ comparison.right.channel = right[3]
         /\ comparison.analysis_id = analysis.analysis_id
         /\ comparison.controlled_context_match = analysis.controlled_context_match
         /\ comparison.kind = kind /\ comparison.assessment_id = <<kind>>
         /\ comparison.valid = judgement.valid /\ comparison.verdict = judgement.verdict
         /\ comparison.reason = judgement.reason
         /\ comparison.exact_delta
              = Minus(comparison.right.exact_value, comparison.left.exact_value)
         /\ comparison.evidence = {left, right, analysis.analysis_id}
         /\ comparison.assumptions = judgement.assumptions
<1>1. \A id : /\ Endpoint(id, results).result_id = id
              /\ Endpoint(id, results).version = id[1]
              /\ Endpoint(id, results).cohort = id[2]
              /\ Endpoint(id, results).channel = id[3]
  BY DEF Endpoint
<1>2. /\ comparison.left = Endpoint(left, results)
      /\ comparison.right = Endpoint(right, results)
      /\ comparison.analysis_id = analysis.analysis_id
      /\ comparison.controlled_context_match = analysis.controlled_context_match
      /\ comparison.kind = kind /\ comparison.assessment_id = <<kind>>
      /\ comparison.valid = judgement.valid /\ comparison.verdict = judgement.verdict
      /\ comparison.reason = judgement.reason
      /\ comparison.exact_delta = Minus(Endpoint(right, results).exact_value,
                                        Endpoint(left, results).exact_value)
      /\ comparison.evidence = {Endpoint(left, results).result_id,
                                Endpoint(right, results).result_id, analysis.analysis_id}
      /\ comparison.assumptions = judgement.assumptions
  BY DEF Comparison
<1> QED BY <1>1, <1>2

\* The judgements the code attaches to its three comparisons.
StitchJudgement ==
  Judgement(FALSE, "NOT_COMPARABLE_WITHOUT_BRIDGE",
    "CROSS_SEMANTIC_VERSION_TREND_PROHIBITED", {"A_TREND_SAME_SEMANTICS"})
RestatedJudgement ==
  Judgement(TRUE, "COMPARABLE_AFTER_RESTATEMENT",
    "BOTH_ENDPOINTS_RESTATED_UNDER_V2", {"A_TREND_SAME_SEMANTICS"})
ConfoundedJudgement ==
  Judgement(FALSE, "INSUFFICIENT_EVIDENCE", "CONTROLLED_CONTEXT_MISMATCH", {})

\* What they judge.
LEMMA JudgementsAre ==
  /\ StitchJudgement.valid = FALSE /\ RestatedJudgement.valid = TRUE
  /\ ConfoundedJudgement.valid = FALSE
  /\ StitchJudgement.verdict = "NOT_COMPARABLE_WITHOUT_BRIDGE"
  /\ RestatedJudgement.verdict = "COMPARABLE_AFTER_RESTATEMENT"
  /\ ConfoundedJudgement.verdict = "INSUFFICIENT_EVIDENCE"
  /\ StitchJudgement.assumptions = {"A_TREND_SAME_SEMANTICS"}
  /\ RestatedJudgement.assumptions = {"A_TREND_SAME_SEMANTICS"}
  /\ ConfoundedJudgement.assumptions = {}
BY DEF StitchJudgement, RestatedJudgement, ConfoundedJudgement, Judgement

\* Each comparison is one of these forms over golden endpoints.
IsFormed(i, comparison) ==
  \E kind \in {"TREND_STITCH", "RESTATED_TREND", "DEFINITION_IMPACT"},
     left, right \in {"1.0.0", "2.0.0"} \X {"2026-05", "2026-06"} \X {Alpha},
     analysis \in {evidence.golden_analysis, evidence.g3_analysis} :
    /\ left \in ComparisonEndpoints(Alpha) /\ right \in ComparisonEndpoints(Alpha)
    /\ \/ /\ i = 1 /\ left[1] # right[1] /\ kind = "TREND_STITCH"
          /\ comparison = Comparison(kind, Endpoint(left, GoldenResults),
               Endpoint(right, GoldenResults), analysis, StitchJudgement)
       \/ /\ i = 2 /\ left[1] = right[1] /\ kind = "RESTATED_TREND"
          /\ comparison = Comparison(kind, Endpoint(left, GoldenResults),
               Endpoint(right, GoldenResults), analysis, RestatedJudgement)
       \/ /\ i = 3 /\ kind = "DEFINITION_IMPACT"
          /\ comparison = Comparison(kind, Endpoint(left, GoldenResults),
               Endpoint(right, GoldenResults), analysis, ConfoundedJudgement)

\* As the stages produce them, they are of these forms.
LEMMA ComparisonsFormed ==
  ASSUME IInv, stage \notin UntilPlan, NEW i \in DOMAIN AllComparisons
  PROVE  IsFormed(i, AllComparisons[i])
<1> DEFINE a == <<"1.0.0", "2026-05", Alpha>>
           b == <<"2.0.0", "2026-05", Alpha>>
           c == <<"2.0.0", "2026-06", Alpha>>
           keys == {"1.0.0", "2.0.0"} \X {"2026-05", "2026-06"} \X {Alpha}
<1>1. /\ a \in keys /\ b \in keys /\ c \in keys
      /\ a[1] # c[1] /\ b[1] = c[1]
  OBVIOUS
<1>2. {a, b, c} = ComparisonEndpoints(Alpha)
  BY DEF ComparisonEndpoints
<1>3. AllComparisons[1] = Comparison("TREND_STITCH", Endpoint(a, GoldenResults),
        Endpoint(c, GoldenResults), evidence.golden_analysis, StitchJudgement)
  BY ComparisonsAre DEF StitchOf, StitchFrom, StitchJudgement
<1>4. AllComparisons[2] = Comparison("RESTATED_TREND", Endpoint(b, GoldenResults),
        Endpoint(c, GoldenResults), evidence.golden_analysis, RestatedJudgement)
  BY ComparisonsAre DEF RestatedOf, RestatedFrom, RestatedJudgement
<1>5. AllComparisons[3] = Comparison("DEFINITION_IMPACT", Endpoint(a, GoldenResults),
        Endpoint(b, GoldenResults), evidence.g3_analysis, ConfoundedJudgement)
  BY ComparisonsAre DEF ConfoundedOf, ConfoundedComparison, ConfoundedJudgement
<1>6. i = 1 \/ i = 2 \/ i = 3
  BY ComparisonsAre
<1> HIDE DEF a, b, c
<1>7. CASE i = 1
  BY <1>1, <1>2, <1>3, <1>7 DEF IsFormed
<1>8. CASE i = 2
  BY <1>1, <1>2, <1>4, <1>8 DEF IsFormed
<1>9. CASE i = 3
  BY <1>1, <1>2, <1>5, <1>9 DEF IsFormed
<1> QED BY <1>6, <1>7, <1>8, <1>9

\* Both analyses have their identifiers.
LEMMA AnalysesAre ==
  ASSUME IInv, stage \notin UntilPlan
  PROVE  /\ evidence.golden_analysis.analysis_id = GoldenAnalysisId
         /\ evidence.g3_analysis.analysis_id = ConfoundedAnalysisId
         /\ DOMAIN AnalysisById = {GoldenAnalysisId, ConfoundedAnalysisId}
         /\ GoldenAnalysisId # ConfoundedAnalysisId
         /\ AnalysisById[GoldenAnalysisId] = evidence.golden_analysis
         /\ AnalysisById[ConfoundedAnalysisId] = evidence.g3_analysis
<1>1. /\ evidence.golden_analysis.analysis_id = GoldenAnalysisId
      /\ evidence.g3_analysis.analysis_id = ConfoundedAnalysisId
  BY Complete DEF GoldenDifference, ConfoundedDifference, ArmDifference
<1>2. GoldenAnalysisId # ConfoundedAnalysisId
  BY DEF GoldenAnalysisId, ConfoundedAnalysisId
<1> QED BY <1>1, <1>2 DEF AnalysisById

\* A comparison cites results, versions, an analysis and assumptions there are.
LEMMA ComparisonsResolve ==
  ASSUME IInv, stage \notin UntilPlan, CitedAreDeclared, NEW i \in DOMAIN AllComparisons
  PROVE  ComparisonResolves(AllComparisons[i], ResultIds, AnalysisById, TheRegistry,
                            evidence.assumptions, Versions)
<1> DEFINE comparison == AllComparisons[i]
<1>1. PICK kind \in {"TREND_STITCH", "RESTATED_TREND", "DEFINITION_IMPACT"},
           left \in {"1.0.0", "2.0.0"} \X {"2026-05", "2026-06"} \X {Alpha},
           right \in {"1.0.0", "2.0.0"} \X {"2026-05", "2026-06"} \X {Alpha},
           analysis \in {evidence.golden_analysis, evidence.g3_analysis},
           judgement \in {StitchJudgement, RestatedJudgement, ConfoundedJudgement} :
        comparison = Comparison(kind, Endpoint(left, GoldenResults),
               Endpoint(right, GoldenResults), analysis, judgement)
  BY ComparisonsFormed DEF IsFormed
<1>2. left \in GoldenKeys /\ right \in GoldenKeys
  BY EndpointKeys
<1>3. judgement.assumptions \subseteq input.assumptions
  BY JudgementsAre DEF CitedAreDeclared
<1>4. analysis.analysis_id \in {GoldenAnalysisId, ConfoundedAnalysisId}
  BY AnalysesAre
<1>5. {left[1], right[1]} \subseteq Versions
  BY LoadedInput DEF Versions, First, Restated
<1>6. evidence.assumptions = input.assumptions
  BY Complete
<1> HIDE DEF comparison
<1>7. /\ comparison.left.result_id = left /\ comparison.right.result_id = right
      /\ comparison.left.version = left[1] /\ comparison.right.version = right[1]
      /\ comparison.analysis_id = analysis.analysis_id
      /\ comparison.evidence = {left, right, analysis.analysis_id}
      /\ comparison.assumptions = judgement.assumptions
  BY <1>1, ComparisonCites
<1>8. ComparisonResolves(comparison, ResultIds, AnalysisById, TheRegistry,
                         evidence.assumptions, Versions)
  BY <1>2, <1>3, <1>4, <1>5, <1>6, <1>7, AnalysesAre, RegistryHolds, GoldenKeysResolve
     DEF ComparisonResolves
<1> QED BY <1>8 DEF comparison

\* What the decision changes cite.
LEMMA ChangesCite ==
  ASSUME NEW results, NEW stitch, NEW restated, NEW alpha, NEW beta, NEW changes,
         changes = DecisionChanges(results, stitch, restated, alpha, beta)
  PROVE  /\ DOMAIN changes = 1..3
         /\ changes[1].comparisons = {} /\ changes[2].comparisons = {}
         /\ changes[3].comparisons = {stitch.assessment_id, restated.assessment_id}
         /\ changes[1].evidence
              = {<<"1.0.0", "2026-05", alpha>>, <<"2.0.0", "2026-05", alpha>>, ContractId}
         /\ changes[2].evidence = DecisionEndpoints(alpha, beta)
         /\ changes[3].evidence = {stitch.assessment_id, restated.assessment_id}
         /\ changes[1].assumptions = {"A_THRESHOLD_SYNTHETIC_080"}
         /\ changes[2].assumptions = {}
         /\ changes[3].assumptions = {"A_TREND_SAME_SEMANTICS"}
<1>1. \A type, before, after, delta, comparisons, cited, assumptions :
        LET change == DecisionChange(type, before, after, delta, comparisons, cited,
                                     assumptions)
        IN  /\ change.comparisons = comparisons /\ change.evidence = cited
            /\ change.assumptions = assumptions
  BY DEF DecisionChange
<1>2. DOMAIN changes = 1..3
  BY DEF DecisionChanges
<1>3. \E before, after, delta : changes[1] =
        DecisionChange("THRESHOLD", before, after, delta, {},
           {<<"1.0.0", "2026-05", alpha>>, <<"2.0.0", "2026-05", alpha>>, ContractId},
           {"A_THRESHOLD_SYNTHETIC_080"})
  BY DEF DecisionChanges
<1>4. \E before, after, delta : changes[2] =
        DecisionChange("RANKING", before, after, delta, {},
           DecisionEndpoints(alpha, beta), {})
  BY DEF DecisionChanges
<1>5. \E before, after, delta : changes[3] =
        DecisionChange("TREND_INTERPRETATION", before, after, delta,
           {stitch.assessment_id, restated.assessment_id},
           {stitch.assessment_id, restated.assessment_id}, {"A_TREND_SAME_SEMANTICS"})
  BY DEF DecisionChanges
<1> QED BY <1>1, <1>2, <1>3, <1>4, <1>5

\* So does a decision change.
LEMMA ChangesResolve ==
  ASSUME IInv, stage \notin UntilPlan, CitedAreDeclared, NEW i \in DOMAIN evidence.decision_changes
  PROVE  ChangeResolves(evidence.decision_changes[i], AllComparisons, TheRegistry,
                        evidence.assumptions)
<1> DEFINE changes == evidence.decision_changes
           ids == {AllComparisons[k].assessment_id : k \in DOMAIN AllComparisons}
           both == {evidence.comparisons[1].assessment_id,
                    evidence.comparisons[2].assessment_id}
<1>1. /\ DOMAIN changes = 1..3
      /\ changes[1].comparisons = {} /\ changes[2].comparisons = {}
      /\ changes[3].comparisons = both
      /\ changes[1].evidence
           = {<<"1.0.0", "2026-05", Alpha>>, <<"2.0.0", "2026-05", Alpha>>, ContractId}
      /\ changes[2].evidence = DecisionEndpoints(Alpha, Beta)
      /\ changes[3].evidence = both
      /\ changes[1].assumptions = {"A_THRESHOLD_SYNTHETIC_080"}
      /\ changes[2].assumptions = {}
      /\ changes[3].assumptions = {"A_TREND_SAME_SEMANTICS"}
  BY Complete, ChangesCite DEF ChangesOf
<1>2. both \subseteq ids /\ both \subseteq TheRegistry
  BY ComparisonsAre, RegistryHolds
<1>3. /\ DecisionEndpoints(Alpha, Beta) \subseteq TheRegistry
      /\ {<<"1.0.0", "2026-05", Alpha>>, <<"2.0.0", "2026-05", Alpha>>, ContractId}
           \subseteq TheRegistry
  BY EndpointKeys, RegistryHolds
<1>4. {"A_TREND_SAME_SEMANTICS", "A_THRESHOLD_SYNTHETIC_080"} \subseteq evidence.assumptions
  BY Complete DEF CitedAreDeclared
<1>5. i = 1 \/ i = 2 \/ i = 3
  BY <1>1
<1> HIDE DEF both
<1>6. /\ changes[i].comparisons \subseteq ids
      /\ changes[i].evidence \subseteq TheRegistry
      /\ changes[i].assumptions \subseteq evidence.assumptions
  BY <1>1, <1>2, <1>3, <1>4, <1>5
<1> QED BY <1>6 DEF ChangeResolves

-----------------------------------------------------------------------------
(***************************************************************************)
(* Plans: what their three shapes cite.                                    *)
(***************************************************************************)
\* A rejection resolves when its scope and its operands do.
LEMMA RejectionResolves ==
  ASSUME NEW id, NEW operands, NEW refs, NEW plan, plan = Rejection(id, operands, refs),
         NEW scopes, NEW registry, NEW assumptions, NEW policy_rules,
         refs \subseteq scopes \cup NamesOf(operands),
         \A i \in DOMAIN operands : operands[i].evidence \subseteq registry,
         RejectionRule \in policy_rules
  PROVE  PlanResolves(plan, scopes, registry, assumptions, policy_rules)
<1> DEFINE action == plan.actions[1]
           trace == plan.rule_trace[1]
<1>1. /\ DOMAIN plan.actions = {1} /\ DOMAIN plan.rule_trace = {1}
      /\ action = Action("REJECT_PENDING_EVIDENCE", CohortNames, refs,
                         CitedBy(operands), {}, RejectionRule)
      /\ trace = RuleTraceEntry(RejectionRule, operands, CitedBy(operands))
  BY DEF Rejection
<1>2. /\ action.scope_refs = refs /\ action.evidence = CitedBy(operands)
      /\ action.assumptions = {} /\ action.rules = {RejectionRule}
  BY <1>1 DEF Action
<1>3. /\ trace.rule_id = RejectionRule /\ trace.evidence = CitedBy(operands)
      /\ trace.operands = operands
  BY <1>1 DEF RuleTraceEntry
<1>4. CitedBy(operands) \subseteq registry
  BY DEF CitedBy
<1>5. UNION {NamesOf(plan.rule_trace[i].operands) : i \in DOMAIN plan.rule_trace}
        = NamesOf(operands)
  BY <1>1, <1>3
<1>6. /\ \A i \in DOMAIN plan.actions : i = 1
      /\ \A i \in DOMAIN plan.rule_trace : i = 1
  BY <1>1
<1> HIDE DEF action, trace
<1>7. /\ \A i \in DOMAIN plan.actions : plan.actions[i] = action
      /\ \A i \in DOMAIN plan.rule_trace : plan.rule_trace[i] = trace
  BY <1>6 DEF action, trace
<1> QED BY <1>2, <1>3, <1>4, <1>5, <1>7 DEF PlanResolves

\* What the operands of the gate cite.
LEMMA GateCites ==
  ASSUME NEW horizon, NEW verdicts, NEW comparisons, NEW controls, NEW operands,
         operands = GateOperands(horizon, verdicts, comparisons, controls),
         NEW registry, {HorizonId, ContractId, PolicyId} \subseteq registry,
         \A i \in DOMAIN verdicts : ReconstructabilityId(verdicts[i]) \in registry,
         \A i \in DOMAIN comparisons : comparisons[i].assessment_id \in registry,
         \A id \in DOMAIN controls : <<id>> \in registry
  PROVE  \A i \in 1..8 : operands[i].evidence \subseteq registry
<1>1. \A cohorts : VerdictIds(cohorts, verdicts) \subseteq registry
  BY DEF VerdictIds
<1>2. operands[1].evidence = {HorizonId}
  BY OperandFields DEF GateOperands, Equals
<1>3. operands[2].evidence = VerdictIds(RestatementCohorts, verdicts)
  BY OperandFields DEF GateOperands, AllTrue
<1>4. operands[3].evidence = VerdictIds(BridgeCohorts, verdicts)
  BY OperandFields DEF GateOperands, AllTrue
<1>5. operands[4].evidence = {HorizonId}
  BY OperandFields DEF GateOperands
<1>6. operands[5].evidence = {ContractId, PolicyId}
  BY OperandFields DEF GateOperands, Equals
<1>7. operands[6].evidence = IF StatusOf(NonReconstructableCohort, verdicts) = "MISSING"
        THEN {HorizonId} ELSE VerdictIds({NonReconstructableCohort}, verdicts)
  BY OperandFields DEF GateOperands
<1>8. operands[7].evidence = IF {i \in DOMAIN comparisons :
                                   comparisons[i].assessment_id = StitchId} = {}
                             THEN {} ELSE {StitchId}
  BY OperandFields DEF GateOperands
<1>9. operands[8].evidence = {<<id>> : id \in DOMAIN controls}
  BY OperandFields DEF GateOperands, AllTrue
<1>10. \A i \in 1..8 : i \in {1, 2, 3, 4, 5, 6, 7, 8}
  OBVIOUS
<1>11. /\ operands[6].evidence \subseteq registry
       /\ operands[7].evidence \subseteq registry
       /\ operands[8].evidence \subseteq registry
  BY <1>1, <1>7, <1>8, <1>9
<1> QED BY <1>1, <1>2, <1>3, <1>4, <1>5, <1>6, <1>10, <1>11

\* What the four actions and the four rules of a restatement hold.
LEMMA RestatementHolds ==
  ASSUME NEW operands, NEW comparisons, NEW changes, NEW plan,
         plan = PartialRestatement(operands, comparisons, changes)
  PROVE  /\ plan.plan_id = "PLAN-GOLDEN-PARTIAL-RESTATEMENT"
         /\ plan.recommendation = "PARTIAL_RESTATEMENT"
         /\ DOMAIN plan.actions = 1..4 /\ DOMAIN plan.rule_trace = 1..4
         /\ \A i \in 1..4 :
              /\ plan.actions[i].action_type = PositiveActionTypes[i]
              /\ plan.actions[i].rules = {PositiveRules[i]}
              /\ plan.actions[i].assumptions
                   \subseteq {"A_MIN_BRIDGE_COHORTS_2", "A_TREND_SAME_SEMANTICS"}
              /\ plan.actions[i].scope_refs
                   \subseteq {<<c>> : c \in CohortNames} \cup {StitchId}
                     \cup CohortNames \X {"v1-only-history", "v2-official"}
              /\ plan.actions[i].evidence
                   \subseteq {HorizonId, comparisons[1].assessment_id}
                     \cup {comparisons[k].assessment_id : k \in DOMAIN comparisons}
                     \cup {changes[k].change_id : k \in DOMAIN changes}
              /\ plan.rule_trace[i].rule_id = PositiveRules[i]
              /\ plan.rule_trace[i].outcome = "FIRED"
              /\ plan.rule_trace[i].operands = OperandsOfRule(operands)[i]
              /\ plan.rule_trace[i].condition = Condition(OperandsOfRule(operands)[i])
              /\ plan.rule_trace[i].evidence = plan.actions[i].evidence
<1> DEFINE ids == {comparisons[i].assessment_id : i \in DOMAIN comparisons}
           common == {HorizonId} \cup ids \cup {changes[i].change_id : i \in DOMAIN changes}
           refs == << {<<c>> : c \in RestatementCohorts}, {<<c>> : c \in BridgeCohorts},
                      {<<EffectiveCohort, "v2-official">>},
                      {<<NonReconstructableCohort, "v1-only-history">>, StitchId} >>
           cited == << {HorizonId}, common, {HorizonId},
                       {HorizonId, comparisons[1].assessment_id} >>
           assumption(i) == IF i = 2 THEN "A_MIN_BRIDGE_COHORTS_2"
                            ELSE "A_TREND_SAME_SEMANTICS"
<1>1. /\ plan.plan_id = "PLAN-GOLDEN-PARTIAL-RESTATEMENT"
      /\ plan.recommendation = "PARTIAL_RESTATEMENT"
      /\ DOMAIN plan.actions = 1..4 /\ DOMAIN plan.rule_trace = 1..4
  BY DEF PartialRestatement
<1>2. \A i \in 1..4 : plan.actions[i] =
        Action(PositiveActionTypes[i], Scopes[i], refs[i], cited[i], {assumption(i)},
               PositiveRules[i])
  BY DEF PartialRestatement
<1>3. \A i \in 1..4 : plan.rule_trace[i] =
        RuleTraceEntry(PositiveRules[i], OperandsOfRule(operands)[i], cited[i])
  BY DEF PartialRestatement
<1>4. \A i \in 1..4 : /\ refs[i] \subseteq {<<c>> : c \in CohortNames} \cup {StitchId}
                            \cup CohortNames \X {"v1-only-history", "v2-official"}
                      /\ cited[i] \subseteq common \cup {comparisons[1].assessment_id}
  <2>1. RestatementCohorts \subseteq CohortNames /\ BridgeCohorts \subseteq CohortNames
        /\ EffectiveCohort \in CohortNames /\ NonReconstructableCohort \in CohortNames
    BY ThreeCohortNames DEF RestatementCohorts, BridgeCohorts, EffectiveCohort,
       NonReconstructableCohort
  <2>2. \A i \in 1..4 : i \in {1, 2, 3, 4}
    OBVIOUS
  <2> QED BY <2>1, <2>2
<1> HIDE DEF refs, cited, assumption
<1>5. \A i \in 1..4 : assumption(i) \in {"A_MIN_BRIDGE_COHORTS_2", "A_TREND_SAME_SEMANTICS"}
  BY DEF assumption
<1>6. \A i \in 1..4 :
        /\ plan.actions[i].action_type = PositiveActionTypes[i]
        /\ plan.actions[i].rules = {PositiveRules[i]}
        /\ plan.actions[i].assumptions = {assumption(i)}
        /\ plan.actions[i].scope_refs = refs[i]
        /\ plan.actions[i].evidence = cited[i]
  BY <1>2 DEF Action
<1>7. \A i \in 1..4 :
        /\ plan.rule_trace[i].rule_id = PositiveRules[i]
        /\ plan.rule_trace[i].outcome = "FIRED"
        /\ plan.rule_trace[i].operands = OperandsOfRule(operands)[i]
        /\ plan.rule_trace[i].condition = Condition(OperandsOfRule(operands)[i])
        /\ plan.rule_trace[i].evidence = cited[i]
  BY <1>3 DEF RuleTraceEntry
<1> QED BY <1>1, <1>4, <1>5, <1>6, <1>7

\* A rule is traced with operands of the gate.
LEMMA OperandsOfRules ==
  ASSUME NEW operands
  PROVE  \A i \in 1..4 : \A j \in DOMAIN OperandsOfRule(operands)[i] :
           \E k \in 1..8 : OperandsOfRule(operands)[i][j] = operands[k]
<1> TAKE i \in 1..4
<1> TAKE j \in DOMAIN OperandsOfRule(operands)[i]
<1>1. i = 1 \/ i = 2 \/ i = 3 \/ i = 4
  OBVIOUS
<1>2. CASE i = 1
  BY <1>2 DEF OperandsOfRule
<1>3. CASE i = 2
  BY <1>3 DEF OperandsOfRule
<1>4. CASE i = 3
  BY <1>4 DEF OperandsOfRule
<1>5. CASE i = 4
  BY <1>5 DEF OperandsOfRule
<1> QED BY <1>1, <1>2, <1>3, <1>4, <1>5

\* And cites what they cite.
LEMMA RulesCite ==
  ASSUME NEW operands, NEW registry, NEW i \in 1..4,
         \A k \in 1..8 : operands[k].evidence \subseteq registry
  PROVE  CitedBy(OperandsOfRule(operands)[i]) \subseteq registry
<1> DEFINE rule == OperandsOfRule(operands)[i]
<1>1. \A j \in DOMAIN rule : \E k \in 1..8 : rule[j] = operands[k]
  BY OperandsOfRules
<1> HIDE DEF rule
<1>2. \A j \in DOMAIN rule : rule[j].evidence \subseteq registry
  BY <1>1
<1>3. CitedBy(rule) \subseteq registry
  BY <1>2 DEF CitedBy
<1> QED BY <1>3 DEF rule

\* A restatement resolves when what it was built from does.
LEMMA RestatementResolves ==
  ASSUME NEW operands, NEW comparisons, NEW changes, NEW plan,
         plan = PartialRestatement(operands, comparisons, changes),
         NEW scopes, NEW registry, NEW assumptions, NEW policy_rules,
         {<<c>> : c \in CohortNames} \cup {StitchId}
           \cup CohortNames \X {"v1-only-history", "v2-official"} \subseteq scopes,
         HorizonId \in registry, 1 \in DOMAIN comparisons,
         \A k \in DOMAIN comparisons : comparisons[k].assessment_id \in registry,
         \A k \in DOMAIN changes : changes[k].change_id \in registry,
         \A k \in 1..8 : operands[k].evidence \subseteq registry,
         {"A_MIN_BRIDGE_COHORTS_2", "A_TREND_SAME_SEMANTICS"} \subseteq assumptions,
         \A k \in 1..4 : PositiveRules[k] \in policy_rules
  PROVE  PlanResolves(plan, scopes, registry, assumptions, policy_rules)
<1>1. {HorizonId, comparisons[1].assessment_id}
        \cup {comparisons[k].assessment_id : k \in DOMAIN comparisons}
        \cup {changes[k].change_id : k \in DOMAIN changes} \subseteq registry
  OBVIOUS
<1>2. \A i \in DOMAIN plan.actions :
        /\ plan.actions[i].scope_refs \subseteq scopes
        /\ plan.actions[i].evidence \subseteq registry
        /\ plan.actions[i].assumptions \subseteq assumptions
        /\ plan.actions[i].rules \subseteq policy_rules
  <2> SUFFICES ASSUME NEW i \in 1..4
               PROVE  /\ plan.actions[i].scope_refs \subseteq scopes
                      /\ plan.actions[i].evidence \subseteq registry
                      /\ plan.actions[i].assumptions \subseteq assumptions
                      /\ plan.actions[i].rules \subseteq policy_rules
    BY RestatementHolds
  <2>1. /\ plan.actions[i].rules = {PositiveRules[i]}
        /\ plan.actions[i].assumptions
             \subseteq {"A_MIN_BRIDGE_COHORTS_2", "A_TREND_SAME_SEMANTICS"}
        /\ plan.actions[i].scope_refs
             \subseteq {<<c>> : c \in CohortNames} \cup {StitchId}
               \cup CohortNames \X {"v1-only-history", "v2-official"}
        /\ plan.actions[i].evidence
             \subseteq {HorizonId, comparisons[1].assessment_id}
               \cup {comparisons[k].assessment_id : k \in DOMAIN comparisons}
               \cup {changes[k].change_id : k \in DOMAIN changes}
    BY RestatementHolds
  <2>2. plan.actions[i].scope_refs \subseteq scopes
    BY <2>1, Zenon
  <2>3. plan.actions[i].evidence \subseteq registry
    BY <1>1, <2>1, Zenon
  <2>4. plan.actions[i].assumptions \subseteq assumptions
    BY <2>1, Zenon
  <2> QED BY <2>1, <2>2, <2>3, <2>4
<1>3. \A i \in DOMAIN plan.rule_trace :
        /\ plan.rule_trace[i].rule_id \in policy_rules
        /\ plan.rule_trace[i].evidence \subseteq registry
        /\ CitedBy(plan.rule_trace[i].operands) \subseteq registry
  <2> SUFFICES ASSUME NEW i \in 1..4
               PROVE  /\ plan.rule_trace[i].rule_id \in policy_rules
                      /\ plan.rule_trace[i].evidence \subseteq registry
                      /\ CitedBy(plan.rule_trace[i].operands) \subseteq registry
    BY RestatementHolds
  <2>1. /\ plan.rule_trace[i].rule_id = PositiveRules[i]
        /\ plan.rule_trace[i].evidence = plan.actions[i].evidence
        /\ plan.rule_trace[i].operands = OperandsOfRule(operands)[i]
        /\ i \in DOMAIN plan.actions
    BY RestatementHolds
  <2>3. CitedBy(OperandsOfRule(operands)[i]) \subseteq registry
    BY RulesCite
  <2> QED BY <1>2, <2>1, <2>3
<1> QED BY <1>2, <1>3 DEF PlanResolves

\* The gate of the plan.
TheGate ==
  GateOperands(evidence.horizon, RestatedVerdicts, evidence.comparisons, evidence.controls)

\* An attributed plan rejects what fails of the gate, or restates.
LEMMA AttributedPlanIs ==
  ASSUME IInv, stage \notin UntilPlan, evidence.golden_analysis.attribution_valid
  PROVE  \/ /\ FailedAt(TheGate) # {}
            /\ evidence.plan = Rejection("PLAN-EVIDENCE-GATE-REJECT", Failed(TheGate),
                                         NamesOf(Failed(TheGate)))
         \/ /\ FailedAt(TheGate) = {}
            /\ evidence.plan = PartialRestatement(TheGate, evidence.comparisons,
                                                  evidence.decision_changes)
BY Complete DEF PlanOf, MigrationPlan, TheGate

\* What an action of a plan may name.
TheScopes == ScopeRegistry(AnalysisById, AllComparisons)

\* It has the cohorts, the series, the stitch and both analyses.
LEMMA ScopesHold ==
  ASSUME IInv, stage \notin UntilPlan
  PROVE  /\ {<<c>> : c \in CohortNames} \cup {StitchId}
              \cup CohortNames \X {"v1-only-history", "v2-official"} \subseteq TheScopes
         /\ {GoldenAnalysisId, ConfoundedAnalysisId} \subseteq TheScopes
<1>1. StitchId \in {AllComparisons[i].assessment_id : i \in DOMAIN AllComparisons}
  BY ComparisonsAre, ComparisonKinds DEF StitchId
<1>2. {GoldenAnalysisId, ConfoundedAnalysisId} = DOMAIN AnalysisById
  BY AnalysesAre
<1> QED BY <1>1, <1>2 DEF TheScopes, ScopeRegistry

\* The rules of a restatement are four.
LEMMA PositiveRulesAre ==
  /\ DOMAIN PositiveRules = 1..4
  /\ Range(PositiveRules) = {PositiveRules[k] : k \in 1..4}
<1>1. DOMAIN PositiveRules = 1..4
  BY DEF PositiveRules
<1> QED BY <1>1 DEF Range

\* The gate cites evidence.
LEMMA TheGateCites ==
  ASSUME IInv, stage \notin UntilPlan
  PROVE  \A i \in 1..8 : TheGate[i].evidence \subseteq TheRegistry
<1>1. \A i \in DOMAIN RestatedVerdicts :
        ReconstructabilityId(RestatedVerdicts[i]) \in TheRegistry
  <2>1. \A i \in DOMAIN RestatedVerdicts :
          /\ i \in DOMAIN evidence.reconstructability
          /\ RestatedVerdicts[i] = evidence.reconstructability[i]
    BY DEF RestatedVerdicts, OfVersion
  <2> QED BY <2>1, RegistryHolds
<1>2. \A i \in DOMAIN evidence.comparisons :
        evidence.comparisons[i].assessment_id \in TheRegistry
  <2>1. \A i \in DOMAIN evidence.comparisons :
          i \in DOMAIN AllComparisons /\ evidence.comparisons[i] = AllComparisons[i]
    BY ComparisonsAre
  <2> QED BY <2>1, RegistryHolds
<1>3. /\ {HorizonId, ContractId, PolicyId} \subseteq TheRegistry
      /\ \A id \in DOMAIN evidence.controls : <<id>> \in TheRegistry
  BY RegistryHolds
<1> HIDE DEF TheRegistry
<1> QED BY <1>1, <1>2, <1>3, GateCites DEF TheGate

\* A rejection for want of attribution resolves.
LEMMA UnattributedResolves ==
  ASSUME IInv, stage \notin UntilPlan, CitedAreDeclared, NEW id, NEW valid,
         NEW analysis_id \in {GoldenAnalysisId, ConfoundedAnalysisId}, NEW plan,
         plan = Rejection(id,
                  << Equals("definition_only_attribution_valid", valid, TRUE, {analysis_id}) >>,
                  {analysis_id})
  PROVE  PlanResolves(plan, TheScopes, TheRegistry, evidence.assumptions,
                      evidence.policy_rules)
<1> DEFINE operands ==
      << Equals("definition_only_attribution_valid", valid, TRUE, {analysis_id}) >>
<1>1. \A i \in DOMAIN operands : operands[i].evidence = {analysis_id}
  BY DEF Equals, Operand
<1>2. analysis_id \in TheRegistry
  BY RegistryHolds
<1>3. analysis_id \in TheScopes
  BY ScopesHold
<1>4. RejectionRule \in evidence.policy_rules
  BY Complete DEF CitedAreDeclared
<1> HIDE DEF operands
<1>5. plan = Rejection(id, operands, {analysis_id})
  BY DEF operands
<1>6. \A i \in DOMAIN operands : operands[i].evidence \subseteq TheRegistry
  BY <1>1, <1>2
<1>7. {analysis_id} \subseteq TheScopes \cup NamesOf(operands)
  BY <1>3
<1> QED BY <1>4, <1>5, <1>6, <1>7, RejectionResolves

\* The plan resolves, whichever of the three it is.
LEMMA PlanResolvesHere ==
  ASSUME IInv, stage \notin UntilPlan, CitedAreDeclared
  PROVE  PlanResolves(evidence.plan, TheScopes, TheRegistry, evidence.assumptions,
                      evidence.policy_rules)
<1>1. CASE ~evidence.golden_analysis.attribution_valid
  BY <1>1, UnattributedPlanIs, UnattributedResolves, AnalysesAre
<1>2. CASE /\ evidence.golden_analysis.attribution_valid
           /\ evidence.plan = Rejection("PLAN-EVIDENCE-GATE-REJECT", Failed(TheGate),
                                        NamesOf(Failed(TheGate)))
  <2>1. DOMAIN TheGate = 1..8
    BY GateLength DEF TheGate
  <2>2. \A i \in DOMAIN Failed(TheGate) : i \in 1..8 /\ Failed(TheGate)[i] = TheGate[i]
    BY <2>1 DEF Failed, FailedAt
  <2>3. \A i \in DOMAIN Failed(TheGate) : Failed(TheGate)[i].evidence \subseteq TheRegistry
    BY <2>2, TheGateCites
  <2>4. RejectionRule \in evidence.policy_rules
    BY Complete DEF CitedAreDeclared
  <2>5. NamesOf(Failed(TheGate)) \subseteq TheScopes \cup NamesOf(Failed(TheGate))
    OBVIOUS
  <2> QED BY <1>2, <2>3, <2>4, <2>5, RejectionResolves
<1>3. CASE evidence.plan = PartialRestatement(TheGate, evidence.comparisons,
                                              evidence.decision_changes)
  <2>1. HorizonId \in TheRegistry /\ 1 \in DOMAIN evidence.comparisons
    BY RegistryHolds, ComparisonsAre
  <2>2. /\ \A k \in DOMAIN evidence.comparisons :
             evidence.comparisons[k].assessment_id \in TheRegistry
        /\ \A k \in DOMAIN evidence.decision_changes :
             evidence.decision_changes[k].change_id \in TheRegistry
    <3>1. \A i \in DOMAIN evidence.comparisons :
            i \in DOMAIN AllComparisons /\ evidence.comparisons[i] = AllComparisons[i]
      BY ComparisonsAre
    <3> QED BY <3>1, RegistryHolds
  <2>0. evidence.plan.recommendation = "PARTIAL_RESTATEMENT"
    BY <1>3 DEF PartialRestatement
  <2>3. {"A_MIN_BRIDGE_COHORTS_2", "A_TREND_SAME_SEMANTICS"} \subseteq evidence.assumptions
    BY <2>0, Complete DEF CitedAreDeclared
  <2>4. \A k \in 1..4 : PositiveRules[k] \in evidence.policy_rules
    <3>1. Range(PositiveRules) \subseteq evidence.policy_rules
      BY <2>0, Complete DEF CitedAreDeclared
    <3> QED BY <3>1, PositiveRulesAre
  <2>5. {<<c>> : c \in CohortNames} \cup {StitchId}
          \cup CohortNames \X {"v1-only-history", "v2-official"} \subseteq TheScopes
    BY ScopesHold
  <2>6. \A k \in 1..8 : TheGate[k].evidence \subseteq TheRegistry
    BY TheGateCites
  <2> QED BY <1>3, <2>1, <2>2, <2>3, <2>4, <2>5, <2>6, RestatementResolves
<1> QED BY <1>1, <1>2, <1>3, AttributedPlanIs

\* Where all that is cited is declared, what the stages produce resolves.
LEMMA StagesResolve ==
  ASSUME IInv, stage \notin UntilPlan, CitedAreDeclared
  PROVE  ReferencesResolve
<1>1. \A i \in DOMAIN evidence.reconstructability :
        evidence.reconstructability[i].version \in Versions
  BY Complete, VerdictVersions
<1>2. \A i \in DOMAIN AllComparisons :
        ComparisonResolves(AllComparisons[i], ResultIds, AnalysisById, TheRegistry,
                           evidence.assumptions, Versions)
  BY ComparisonsResolve
<1>3. \A i \in DOMAIN evidence.decision_changes :
        ChangeResolves(evidence.decision_changes[i], AllComparisons, TheRegistry,
                       evidence.assumptions)
  BY ChangesResolve
<1>4. Range(evidence.impact) \subseteq Range(ImpactIndex(evidence.decision_changes))
  BY Complete
<1>5. PlanResolves(evidence.plan, TheScopes, TheRegistry, evidence.assumptions,
                   evidence.policy_rules)
  BY PlanResolvesHere
<1>6. PlanResolves(evidence.g3_plan, TheScopes, TheRegistry, evidence.assumptions,
                   evidence.policy_rules)
  BY RefusalIs, UnattributedResolves, AnalysesAre
<1>7. Range(Plans) = {evidence.plan, evidence.g3_plan}
  <2>1. DOMAIN Plans = {1, 2} /\ Plans[1] = evidence.plan /\ Plans[2] = evidence.g3_plan
    BY DEF Plans
  <2> QED BY <2>1 DEF Range
<1>8. \A plan \in Range(Plans) :
        PlanResolves(plan, TheScopes, TheRegistry, evidence.assumptions,
                     evidence.policy_rules)
  BY <1>5, <1>6, <1>7
<1> QED BY <1>1, <1>2, <1>3, <1>4, <1>8 DEF ReferencesResolve, TheRegistry, TheScopes

\* The rule of a rejection is cited by its trace, those of a restatement and the
\* assumption on bridges by its actions.
LEMMA PlansCite ==
  ASSUME NEW scopes, NEW registry, NEW assumptions, NEW policy_rules, NEW plan,
         PlanResolves(plan, scopes, registry, assumptions, policy_rules)
  PROVE  /\ \A id, operands, refs : plan = Rejection(id, operands, refs)
              => RejectionRule \in policy_rules
         /\ \A operands, comparisons, changes :
              plan = PartialRestatement(operands, comparisons, changes)
                => /\ "A_MIN_BRIDGE_COHORTS_2" \in assumptions
                   /\ \A k \in 1..4 : PositiveRules[k] \in policy_rules
<1>1. /\ \A i \in DOMAIN plan.actions : plan.actions[i].assumptions \subseteq assumptions
      /\ \A i \in DOMAIN plan.rule_trace : plan.rule_trace[i].rule_id \in policy_rules
  BY DEF PlanResolves
<1>2. ASSUME NEW id, NEW operands, NEW refs, plan = Rejection(id, operands, refs)
      PROVE  RejectionRule \in policy_rules
  <2>1. plan.rule_trace = <<RuleTraceEntry(RejectionRule, operands, CitedBy(operands))>>
    BY <1>2 DEF Rejection
  <2>2. 1 \in DOMAIN plan.rule_trace /\ plan.rule_trace[1].rule_id = RejectionRule
    BY <2>1 DEF RuleTraceEntry
  <2> QED BY <1>1, <2>2
<1>3. ASSUME NEW operands, NEW comparisons, NEW changes,
             plan = PartialRestatement(operands, comparisons, changes)
      PROVE  /\ "A_MIN_BRIDGE_COHORTS_2" \in assumptions
             /\ \A k \in 1..4 : PositiveRules[k] \in policy_rules
  <2>1. DOMAIN plan.actions = 1..4 /\ DOMAIN plan.rule_trace = 1..4
    BY <1>3 DEF PartialRestatement
  <2>2. plan.actions[2].assumptions = {"A_MIN_BRIDGE_COHORTS_2"}
    BY <1>3 DEF PartialRestatement, Action
  <2>3. \A k \in 1..4 : plan.rule_trace[k].rule_id = PositiveRules[k]
    BY <1>3 DEF PartialRestatement, RuleTraceEntry
  <2> QED BY <1>1, <2>1, <2>2, <2>3
<1> QED BY <1>2, <1>3

\* Only there.
LEMMA ResolvedAreDeclared ==
  ASSUME IInv, stage \notin UntilPlan, ReferencesResolve
  PROVE  CitedAreDeclared
<1> DEFINE changes == evidence.decision_changes
<1>1. {"A_TREND_SAME_SEMANTICS", "A_THRESHOLD_SYNTHETIC_080"} \subseteq input.assumptions
  <2>1. /\ DOMAIN changes = 1..3
        /\ changes[1].assumptions = {"A_THRESHOLD_SYNTHETIC_080"}
        /\ changes[3].assumptions = {"A_TREND_SAME_SEMANTICS"}
    BY Complete, ChangesCite DEF ChangesOf
  <2>2. \A i \in DOMAIN changes :
          ChangeResolves(changes[i], AllComparisons, TheRegistry, evidence.assumptions)
    BY DEF ReferencesResolve, TheRegistry
  <2>3. \A i \in DOMAIN changes : changes[i].assumptions \subseteq evidence.assumptions
    BY <2>2 DEF ChangeResolves
  <2> QED BY <2>1, <2>3, Complete
<1>2. ASSUME NEW plan \in {evidence.plan, evidence.g3_plan}
      PROVE  PlanResolves(plan, TheScopes, TheRegistry, input.assumptions,
                          input.policy_rules)
  <2>1. DOMAIN Plans = {1, 2} /\ Plans[1] = evidence.plan /\ Plans[2] = evidence.g3_plan
    BY DEF Plans
  <2>2. plan \in Range(Plans)
    BY <1>2, <2>1 DEF Range
  <2>3. PlanResolves(plan, TheScopes, TheRegistry, evidence.assumptions,
                     evidence.policy_rules)
    BY <2>2 DEF ReferencesResolve, TheRegistry, TheScopes
  <2> QED BY <2>3, Complete
<1>3. RejectionRule \in input.policy_rules
  BY <1>2, RefusalIs, PlansCite
<1>4. ASSUME evidence.plan.recommendation = "PARTIAL_RESTATEMENT"
      PROVE  /\ "A_MIN_BRIDGE_COHORTS_2" \in input.assumptions
             /\ Range(PositiveRules) \subseteq input.policy_rules
  <2>1. Has("plan")
    BY DEF IInv, ProducedInv
  <2>2. PICK operands : evidence.plan
               = PartialRestatement(operands, evidence.comparisons, evidence.decision_changes)
    BY <1>4, <2>1, RestatementJustifiedBy
  <2>3. /\ "A_MIN_BRIDGE_COHORTS_2" \in input.assumptions
        /\ \A k \in 1..4 : PositiveRules[k] \in input.policy_rules
    BY <1>2, <2>2, PlansCite
  <2> QED BY <2>3, PositiveRulesAre
<1> QED BY <1>1, <1>3, <1>4 DEF CitedAreDeclared

-----------------------------------------------------------------------------
(***************************************************************************)
(* Comparisons and decisions, where identifiers are unique.                *)
(***************************************************************************)
\* Then an endpoint is a projection of the result it names.
LEMMA EndpointIsProjection ==
  ASSUME IInv, stage \notin UntilPlan, ResultIdsUnique, NEW key \in ComparisonEndpoints(Alpha)
  PROVE  IsProjectionOf(Endpoint(key, GoldenResults), ResultById)
<1>1. Has("results")
  BY DEF IInv, ProducedInv, UntilCalculate, UntilAssess, UntilCompare, UntilDecide,
     UntilRefuse, UntilControl, UntilPlan
<1>2. ResultById[key] = GoldenResults[key]
  BY <1>1, EndpointKeys, ResultByIdIs
<1>3. IsExact(GoldenResults[key])
  BY Complete DEF ExactAt
<1>4. Endpoint(key, GoldenResults) = Endpoint(key, ResultById)
  BY <1>2 DEF Endpoint
<1>5. Endpoint(key, GoldenResults).result_id = key
  BY DEF Endpoint
<1> HIDE DEF ResultById
<1> QED BY <1>2, <1>3, <1>4, <1>5 DEF IsProjectionOf

\* A comparison agrees with its endpoints and its analysis.
LEMMA ComparisonsAgreeHere ==
  ASSUME IInv, stage \notin UntilPlan, ResultIdsUnique, NEW i \in DOMAIN AllComparisons
  PROVE  ComparisonAgrees(AllComparisons[i], ResultById, AnalysisById)
<1> DEFINE comparison == AllComparisons[i]
<1>1. PICK kind \in {"TREND_STITCH", "RESTATED_TREND", "DEFINITION_IMPACT"},
           left \in {"1.0.0", "2.0.0"} \X {"2026-05", "2026-06"} \X {Alpha},
           right \in {"1.0.0", "2.0.0"} \X {"2026-05", "2026-06"} \X {Alpha},
           analysis \in {evidence.golden_analysis, evidence.g3_analysis},
           judgement \in {StitchJudgement, RestatedJudgement, ConfoundedJudgement} :
        /\ left \in ComparisonEndpoints(Alpha) /\ right \in ComparisonEndpoints(Alpha)
        /\ judgement = StitchJudgement => left[1] # right[1]
        /\ judgement = RestatedJudgement => left[1] = right[1]
        /\ kind = "DEFINITION_IMPACT" => judgement = ConfoundedJudgement
        /\ comparison = Comparison(kind, Endpoint(left, GoldenResults),
               Endpoint(right, GoldenResults), analysis, judgement)
  <2>1. /\ StitchJudgement # RestatedJudgement /\ StitchJudgement # ConfoundedJudgement
        /\ RestatedJudgement # ConfoundedJudgement
    BY JudgementsAre
  <2> QED BY <2>1, ComparisonsFormed DEF IsFormed
<1>2. AnalysisById[analysis.analysis_id].controlled_context_match
        = analysis.controlled_context_match
  BY AnalysesAre
<1> HIDE DEF comparison
<1>3. /\ comparison.left = Endpoint(left, GoldenResults)
      /\ comparison.right = Endpoint(right, GoldenResults)
      /\ comparison.left.version = left[1] /\ comparison.right.version = right[1]
      /\ comparison.analysis_id = analysis.analysis_id
      /\ comparison.controlled_context_match = analysis.controlled_context_match
      /\ comparison.kind = kind
      /\ comparison.valid = judgement.valid /\ comparison.verdict = judgement.verdict
      /\ comparison.exact_delta
           = Minus(comparison.right.exact_value, comparison.left.exact_value)
  BY <1>1, ComparisonCites
<1>4. /\ IsProjectionOf(comparison.left, ResultById)
      /\ IsProjectionOf(comparison.right, ResultById)
  BY <1>1, <1>3, EndpointIsProjection
<1>5. /\ comparison.kind = "DEFINITION_IMPACT" => ~comparison.valid
      /\ comparison.verdict = "INSUFFICIENT_EVIDENCE" => ~comparison.valid
      /\ comparison.verdict = "COMPARABLE_AFTER_RESTATEMENT"
           => comparison.left.version = comparison.right.version
      /\ comparison.verdict = "NOT_COMPARABLE_WITHOUT_BRIDGE"
           => comparison.left.version # comparison.right.version
  BY <1>1, <1>3, JudgementsAre
<1>6. comparison.controlled_context_match
        = AnalysisById[comparison.analysis_id].controlled_context_match
  BY <1>2, <1>3
<1>7. ComparisonAgrees(comparison, ResultById, AnalysisById)
  BY <1>3, <1>4, <1>5, <1>6 DEF ComparisonAgrees
<1> QED BY <1>7 DEF comparison

\* The comparisons the stages leave pass the second check of the barrier.
LEMMA StagesCompare ==
  ASSUME IInv, stage \notin UntilPlan, ResultIdsUnique
  PROVE  ComparisonsHold
<1>1. IdsUnique([i \in DOMAIN AllComparisons |-> AllComparisons[i].assessment_id])
  <2>1. DOMAIN AllComparisons = {1, 2, 3}
    BY ComparisonsAre
  <2> QED BY <2>1, ComparisonKinds DEF IdsUnique, IsInjective
<1> QED BY <1>1, ComparisonsAgreeHere DEF ComparisonsHold, ComparisonsAgree

\* Decisions read results under the golden keys of May alone.
LEMMA ChangesFromResults ==
  ASSUME NEW results, NEW others, NEW stitch, NEW restated, NEW alpha, NEW beta,
         \A key \in {"1.0.0", "2.0.0"} \X {"2026-05"} \X {alpha, beta} :
           results[key] = others[key]
  PROVE  DecisionChanges(results, stitch, restated, alpha, beta)
           = DecisionChanges(others, stitch, restated, alpha, beta)
<1>1. /\ results[<<"1.0.0", "2026-05", alpha>>] = others[<<"1.0.0", "2026-05", alpha>>]
      /\ results[<<"2.0.0", "2026-05", alpha>>] = others[<<"2.0.0", "2026-05", alpha>>]
      /\ results[<<"1.0.0", "2026-05", beta>>] = others[<<"1.0.0", "2026-05", beta>>]
      /\ results[<<"2.0.0", "2026-05", beta>>] = others[<<"2.0.0", "2026-05", beta>>]
  OBVIOUS
<1> QED BY <1>1 DEF DecisionChanges

\* The decision changes pass the third: rebuilt by identifier, they are the same.
LEMMA StagesDecide ==
  ASSUME IInv, stage \notin UntilPlan, ResultIdsUnique
  PROVE  DecisionsHold
<1>1. Has("results")
  BY DEF IInv, ProducedInv, UntilCalculate, UntilAssess, UntilCompare, UntilDecide,
     UntilRefuse, UntilControl, UntilPlan
<1>2. \A key \in {"1.0.0", "2.0.0"} \X {"2026-05"} \X {Alpha, Beta} :
        ResultById[key] = GoldenResults[key]
  BY <1>1, EndpointKeys, ResultByIdIs DEF DecisionEndpoints
<1>3. \A id \in DecisionEndpoints(Alpha, Beta) : IsExact(ResultById[id])
  <2>1. \A id \in DecisionEndpoints(Alpha, Beta) : IsExact(GoldenResults[id])
    BY Complete DEF ExactAt
  <2> HIDE DEF ResultById
  <2> QED BY <1>2, <2>1 DEF DecisionEndpoints
<1>4. OneOfEachTrend(AllComparisons)
  BY KindsAre DEF OneOfEachTrend
<1>5. Rebuilt(ResultById, AllComparisons)
        = DecisionChanges(ResultById, evidence.comparisons[1], evidence.comparisons[2],
                          Alpha, Beta)
  BY KindsAre DEF Rebuilt
<1>6. evidence.decision_changes = ChangesOf
  BY Complete
<1>7. evidence.decision_changes = Rebuilt(ResultById, AllComparisons)
  BY <1>2, <1>5, <1>6, ChangesFromResults DEF ChangesOf
<1>8. evidence.impact = ImpactIndex(evidence.decision_changes)
  BY Complete
<1> QED BY <1>3, <1>4, <1>7, <1>8 DEF DecisionsHold, DecisionsAgree

-----------------------------------------------------------------------------
(***************************************************************************)
(* Plans.                                                                  *)
(***************************************************************************)
\* Of places among finitely many there is a first one.
LEMMA FirstExists ==
  ASSUME NEW S \in SUBSET Nat, S # {}
  PROVE  Min(S) \in S
<1>1. PICK m \in S : \A k \in S : ~(<<k, m>> \in OpToRel(<, Nat))
  BY NatLessThanWellFounded, WFMin
<1>2. \A k \in S : k \in Nat /\ m \in Nat
  OBVIOUS
<1>3. \A k \in S : ~(k < m)
  BY <1>1, <1>2 DEF OpToRel
<1>4. \A k \in S : m <= k
  BY <1>2, <1>3
<1> QED BY <1>1, <1>4 DEF Min

\* The verdicts are a sequence.
LEMMA VerdictsListed ==
  ASSUME IInv
  PROVE  \E n \in Nat : DOMAIN Reconstructability = 1..n
<1> DEFINE T == {AssessReconstructability(d, input.coverage[j]) :
                   d \in {First, Restated, Metadata}, j \in DOMAIN input.coverage}
<1>1. input.coverage \in Seq(CoverageDeclaration)
  BY LoadedInput DEF Input
<1>2. \A d \in {First, Restated, Metadata} : VerdictsOn(d) \in Seq(T)
  BY <1>1 DEF VerdictsOn
<1> HIDE DEF T
<1>3. Reconstructability \in Seq(T)
  BY <1>2, ConcatProperties DEF Reconstructability
<1> QED BY <1>3

\* Without contradictory verdicts on it, the first status of a cohort is its last.
LEMMA FirstIsLast ==
  ASSUME IInv, stage \notin UntilPlan, NEW cohort, ~Contradictory("2.0.0", cohort)
  PROVE  FirstStatusOf(cohort, RestatedVerdicts) = StatusOf(cohort, RestatedVerdicts)
<1> DEFINE found == {i \in DOMAIN RestatedVerdicts : RestatedVerdicts[i].cohort = cohort}
<1>1. CASE found = {}
  BY <1>1 DEF FirstStatusOf, StatusOf
<1>2. CASE found # {}
  <2>1. PICK n \in Nat : DOMAIN evidence.reconstructability = 1..n
    BY VerdictsListed, Complete
  <2>2. \A i \in DOMAIN RestatedVerdicts :
          /\ i \in DOMAIN evidence.reconstructability
          /\ RestatedVerdicts[i] = evidence.reconstructability[i]
          /\ RestatedVerdicts[i].version = "2.0.0"
    BY DEF RestatedVerdicts, OfVersion
  <2>3. found \in SUBSET (1..n) /\ found \in SUBSET Nat
    BY <2>1, <2>2
  <2>4. PICK last \in found : \A j \in found : j <= last
    <3> HIDE DEF found
    <3> QED BY <1>2, <2>3, LastExists
  <2>5. LastFor(cohort, RestatedVerdicts) = RestatedVerdicts[last]
    <3>1. IsLastFor(cohort, RestatedVerdicts, last) /\ last \in DOMAIN RestatedVerdicts
      BY <2>4 DEF IsLastFor
    <3>2. DOMAIN RestatedVerdicts \subseteq Nat
      BY <2>1, <2>2
    <3> QED BY <3>1, <3>2, LastForIsLast
  <2>6. Min(found) \in found
    <3> HIDE DEF found
    <3> QED BY <1>2, <2>3, FirstExists
  <2>7. RestatedVerdicts[Min(found)].status = RestatedVerdicts[last].status
    <3>1. \A i, j \in found :
            /\ i \in DOMAIN evidence.reconstructability
            /\ j \in DOMAIN evidence.reconstructability
            /\ evidence.reconstructability[i].version = "2.0.0"
            /\ evidence.reconstructability[j].version = "2.0.0"
            /\ evidence.reconstructability[i].cohort = cohort
            /\ evidence.reconstructability[j].cohort = cohort
            /\ RestatedVerdicts[i] = evidence.reconstructability[i]
            /\ RestatedVerdicts[j] = evidence.reconstructability[j]
      BY <2>2
    <3>2. \A i, j \in found : RestatedVerdicts[i].status = RestatedVerdicts[j].status
      <4> HIDE DEF found
      <4> QED BY <3>1 DEF Contradictory
    <3> HIDE DEF found
    <3> QED BY <2>4, <2>6, <3>2
  <2>8. FirstStatusOf(cohort, RestatedVerdicts) = RestatedVerdicts[Min(found)].status
    BY <1>2 DEF FirstStatusOf
  <2>9. StatusOf(cohort, RestatedVerdicts) = LastFor(cohort, RestatedVerdicts).status
    BY <1>2 DEF StatusOf
  <2> QED BY <2>5, <2>7, <2>8, <2>9
<1> QED BY <1>1, <1>2

\* The barrier judges an operand of equality by what it compares;
LEMMA EqualityOutcome ==
  ASSUME NEW operand, NEW verdicts, NEW comparisons,
         operand.operator = "EQUALS" \/ operand.operator = "ALL_TRUE"
  PROVE  Outcome(operand, verdicts, comparisons) = (operand.actual = operand.expected)
BY DEF Outcome

\* An operand that counts is judged by its count,
LEMMA CountOutcome ==
  ASSUME NEW operand, NEW verdicts, NEW comparisons, operand.operator = "AT_LEAST"
  PROVE  Outcome(operand, verdicts, comparisons) = (operand.actual >= operand.expected)
BY DEF Outcome

\* the history operand by the first verdict on April,
LEMMA HistoryOutcome ==
  ASSUME NEW operand, NEW verdicts, NEW comparisons, operand.operator = "RESOLVES",
         operand.name = "non_reconstructable_history_reference",
         operand.actual = NonReconstructableCohort, operand.expected = "NOT_RECONSTRUCTABLE"
  PROVE  Outcome(operand, verdicts, comparisons)
           = (FirstStatusOf(NonReconstructableCohort, verdicts) = "NOT_RECONSTRUCTABLE")
<1>1. Outcome(operand, verdicts, comparisons) = Resolves(operand, verdicts, comparisons)
  BY DEF Outcome
<1>2. Resolves(operand, verdicts, comparisons)
        = (FirstStatusOf(NonReconstructableCohort, verdicts) = "NOT_RECONSTRUCTABLE")
  BY DEF Resolves
<1> QED BY <1>1, <1>2

\* and the stitch operand by any comparison that refutes the stitch.
LEMMA StitchOutcome ==
  ASSUME NEW operand, NEW verdicts, NEW comparisons, operand.operator = "RESOLVES",
         operand.name = "invalid_comparison_reference",
         operand.actual = StitchId, operand.expected = "INVALID_SCOPED_COMPARISON"
  PROVE  Outcome(operand, verdicts, comparisons) = StitchRefuted(comparisons)
<1>1. Outcome(operand, verdicts, comparisons) = Resolves(operand, verdicts, comparisons)
  BY DEF Outcome
<1>2. Resolves(operand, verdicts, comparisons) = StitchRefuted(comparisons)
  BY DEF Resolves, StitchRefuted
<1> QED BY <1>1, <1>2

\* The barrier judges every operand of the gate as the stage that built the plan.
LEMMA GateOutcomes ==
  ASSUME IInv, stage \notin UntilPlan,
         ~Contradictory("2.0.0", NonReconstructableCohort)
  PROVE  \A k \in 1..8 : TheGate[k].passed
                           = Outcome(TheGate[k], RestatedVerdicts, AllComparisons)
<1> DEFINE v == RestatedVerdicts
           all == AllComparisons
           complete == Cardinality(CompleteIn(BridgeCohorts, v))
           cited == {i \in DOMAIN evidence.comparisons :
                       evidence.comparisons[i].assessment_id = StitchId}
<1>1. TheGate[1] = Equals("horizon_restatement_coverage", evidence.horizon.status,
                          "PARTIAL", {HorizonId})
  BY DEF TheGate, GateOperands
<1>2. TheGate[2] = AllTrue("restatement_cohort_reconstructability",
                     StatusesIn(RestatementCohorts, v), FullStatuses(RestatementCohorts),
                     VerdictIds(RestatementCohorts, v))
  BY DEF TheGate, GateOperands
<1>3. TheGate[3] = AllTrue("bridge_cohort_reconstructability",
                     StatusesIn(BridgeCohorts, v), FullStatuses(BridgeCohorts),
                     VerdictIds(BridgeCohorts, v))
  BY DEF TheGate, GateOperands
<1>4. TheGate[4] = Operand("complete_bridge_cohort_count", "AT_LEAST", complete,
                     MinimumBridge, complete >= MinimumBridge, {HorizonId})
  BY DEF TheGate, GateOperands
<1>5. TheGate[5] = Equals("effective_cohort", EffectiveCohort, EffectiveCohort,
                     {ContractId, PolicyId})
  BY DEF TheGate, GateOperands
<1>6. \E c : TheGate[6] = Operand("non_reconstructable_history_reference", "RESOLVES",
               NonReconstructableCohort, "NOT_RECONSTRUCTABLE",
               StatusOf(NonReconstructableCohort, v) = "NOT_RECONSTRUCTABLE", c)
  BY DEF TheGate, GateOperands
<1>7. \E c : TheGate[7] = Operand("invalid_comparison_reference", "RESOLVES", StitchId,
               "INVALID_SCOPED_COMPARISON", StitchRefuted(evidence.comparisons), c)
  BY DEF TheGate, GateOperands
<1>8. TheGate[8] = AllTrue("required_control_results", evidence.controls,
                     [id \in ControlIds |-> "PASS"],
                     {<<id>> : id \in DOMAIN evidence.controls})
  BY DEF TheGate, GateOperands
<1> HIDE DEF v, all, complete, cited
<1>9. \A name, actual, expected, c :
        /\ Equals(name, actual, expected, c).passed
             = Outcome(Equals(name, actual, expected, c), v, all)
        /\ AllTrue(name, actual, expected, c).passed
             = Outcome(AllTrue(name, actual, expected, c), v, all)
  <2> TAKE name, actual, expected, c
  <2>1. LET operand == Equals(name, actual, expected, c)
        IN  /\ operand.operator = "EQUALS" /\ operand.actual = actual
            /\ operand.expected = expected /\ operand.passed = (actual = expected)
    BY DEF Equals, Operand
  <2>2. LET operand == AllTrue(name, actual, expected, c)
        IN  /\ operand.operator = "ALL_TRUE" /\ operand.actual = actual
            /\ operand.expected = expected /\ operand.passed = (actual = expected)
    BY DEF AllTrue, Operand
  <2> QED BY <2>1, <2>2, EqualityOutcome
<1>10. TheGate[4].passed = Outcome(TheGate[4], v, all)
  <2>1. /\ TheGate[4].operator = "AT_LEAST" /\ TheGate[4].actual = complete
        /\ TheGate[4].expected = MinimumBridge
        /\ TheGate[4].passed = (complete >= MinimumBridge)
    BY <1>4, OperandFields
  <2> QED BY <2>1, CountOutcome
<1>11. TheGate[6].passed = Outcome(TheGate[6], v, all)
  <2>1. /\ TheGate[6].operator = "RESOLVES"
        /\ TheGate[6].name = "non_reconstructable_history_reference"
        /\ TheGate[6].actual = NonReconstructableCohort
        /\ TheGate[6].expected = "NOT_RECONSTRUCTABLE"
        /\ TheGate[6].passed
             = (StatusOf(NonReconstructableCohort, v) = "NOT_RECONSTRUCTABLE")
    BY <1>6, OperandFields
  <2>2. FirstStatusOf(NonReconstructableCohort, v) = StatusOf(NonReconstructableCohort, v)
    BY FirstIsLast DEF v
  <2> QED BY <2>1, <2>2, HistoryOutcome
<1>12. TheGate[7].passed = Outcome(TheGate[7], v, all)
  <2>1. /\ TheGate[7].operator = "RESOLVES"
        /\ TheGate[7].name = "invalid_comparison_reference"
        /\ TheGate[7].actual = StitchId
        /\ TheGate[7].expected = "INVALID_SCOPED_COMPARISON"
        /\ TheGate[7].passed = StitchRefuted(evidence.comparisons)
    BY <1>7, OperandFields
  <2>2. StitchRefuted(evidence.comparisons) = StitchRefuted(all)
    <3>1. /\ DOMAIN evidence.comparisons = 1..2 /\ DOMAIN all = 1..3
          /\ all[1] = evidence.comparisons[1] /\ all[2] = evidence.comparisons[2]
          /\ all[3].assessment_id # StitchId
      BY ComparisonsAre, ComparisonKinds DEF all, StitchId
    <3>2. \A i : i \in 1..3 /\ i # 3 <=> i \in 1..2
      OBVIOUS
    <3>3. \A i \in 1..2 : all[i] = evidence.comparisons[i]
      BY <3>1
    <3>4. StitchRefuted(evidence.comparisons) <=> StitchRefuted(all)
      BY <3>1, <3>2, <3>3 DEF StitchRefuted
    <3> QED BY <3>4 DEF StitchRefuted
  <2> QED BY <2>1, <2>2, StitchOutcome
<1>13. \A k \in 1..8 : k \in {1, 2, 3, 4, 5, 6, 7, 8}
  OBVIOUS
<1>14. /\ TheGate[1].passed = Outcome(TheGate[1], v, all)
       /\ TheGate[2].passed = Outcome(TheGate[2], v, all)
       /\ TheGate[3].passed = Outcome(TheGate[3], v, all)
       /\ TheGate[5].passed = Outcome(TheGate[5], v, all)
       /\ TheGate[8].passed = Outcome(TheGate[8], v, all)
  BY <1>1, <1>2, <1>3, <1>5, <1>8, <1>9
<1>15. \A k \in 1..8 : TheGate[k].passed = Outcome(TheGate[k], v, all)
  BY <1>10, <1>11, <1>12, <1>13, <1>14
<1> QED BY <1>15 DEF v, all

\* No two operands of the gate have one name.
LEMMA GateNames ==
  ASSUME NEW horizon, NEW verdicts, NEW comparisons, NEW controls, NEW operands,
         operands = GateOperands(horizon, verdicts, comparisons, controls)
  PROVE  \A i, j \in 1..8 : operands[i].name = operands[j].name => i = j
<1>1. /\ operands[1].name = "horizon_restatement_coverage"
      /\ operands[5].name = "effective_cohort"
  BY OperandFields DEF GateOperands, Equals
<1>2. /\ operands[2].name = "restatement_cohort_reconstructability"
      /\ operands[3].name = "bridge_cohort_reconstructability"
      /\ operands[8].name = "required_control_results"
  BY OperandFields DEF GateOperands, AllTrue
<1>3. /\ operands[4].name = "complete_bridge_cohort_count"
      /\ operands[6].name = "non_reconstructable_history_reference"
      /\ operands[7].name = "invalid_comparison_reference"
  BY OperandFields DEF GateOperands
<1>4. \A k \in 1..8 : k \in {1, 2, 3, 4, 5, 6, 7, 8}
  OBVIOUS
<1> QED BY <1>1, <1>2, <1>3, <1>4

\* A rejection agrees with itself recomputed when its operands are judged alike and
\* one of them fails.
LEMMA RejectionAgrees ==
  ASSUME NEW id, NEW operands, NEW refs, NEW plan, plan = Rejection(id, operands, refs),
         NEW horizon, NEW verdicts, NEW comparisons,
         \A i, j \in DOMAIN operands : operands[i].name = operands[j].name => i = j,
         \A i \in DOMAIN operands :
           operands[i].passed = Outcome(operands[i], verdicts, comparisons),
         \E i \in DOMAIN operands : ~operands[i].passed
  PROVE  PlanAgrees(plan, plan, horizon, verdicts, comparisons)
<1> DEFINE action == plan.actions[1]
           trace == plan.rule_trace[1]
<1>1. /\ plan.recommendation = "REJECT_PENDING_EVIDENCE"
      /\ DOMAIN plan.actions = {1} /\ DOMAIN plan.rule_trace = {1}
      /\ action = Action("REJECT_PENDING_EVIDENCE", CohortNames, refs,
                         CitedBy(operands), {}, RejectionRule)
      /\ trace = RuleTraceEntry(RejectionRule, operands, CitedBy(operands))
  BY DEF Rejection
<1>2. /\ action.action_type = "REJECT_PENDING_EVIDENCE"
      /\ action.rules = {RejectionRule}
  BY <1>1 DEF Action
<1>3. /\ trace.rule_id = RejectionRule /\ trace.evidence = CitedBy(operands)
      /\ trace.operands = operands /\ trace.outcome = "FIRED"
      /\ trace.condition = Condition(operands)
  BY <1>1 DEF RuleTraceEntry
<1> HIDE DEF action, trace
<1>4. ShapeAgrees(plan, horizon)
  <2> DEFINE types == [i \in DOMAIN plan.actions |-> plan.actions[i].action_type]
             rules == [i \in DOMAIN plan.rule_trace |-> plan.rule_trace[i].rule_id]
  <2>1. types = <<"REJECT_PENDING_EVIDENCE">> /\ rules = <<RejectionRule>>
    <3>1. DOMAIN types = {1} /\ types[1] = "REJECT_PENDING_EVIDENCE"
      BY <1>1, <1>2 DEF action
    <3>2. DOMAIN rules = {1} /\ rules[1] = RejectionRule
      BY <1>1, <1>3 DEF trace
    <3> QED BY <3>1, <3>2
  <2>2. IdsUnique(rules)
    BY <1>1 DEF IdsUnique, IsInjective
  <2> QED BY <1>1, <2>1, <2>2 DEF ShapeAgrees
<1>5. ActionsCiteTheirTrace(plan)
  BY <1>1, <1>2, <1>3 DEF ActionsCiteTheirTrace, action, trace
<1>6. TraceAgrees(plan, trace, verdicts, comparisons)
  <2>1. IdsUnique([i \in DOMAIN trace.operands |-> trace.operands[i].name])
    BY <1>3 DEF IdsUnique, IsInjective
  <2>2. trace.evidence \subseteq RelatedEvidence(plan, trace)
    BY <1>3 DEF RelatedEvidence
  <2> QED BY <1>1, <1>3, <2>1, <2>2 DEF TraceAgrees
<1>7. \A i \in DOMAIN plan.rule_trace :
        TraceAgrees(plan, plan.rule_trace[i], verdicts, comparisons)
  BY <1>1, <1>6 DEF trace
<1>8. SomeOperandFails(plan, verdicts, comparisons)
  <2>1. PICK j \in DOMAIN operands : ~Outcome(operands[j], verdicts, comparisons)
    OBVIOUS
  <2>2. 1 \in DOMAIN plan.rule_trace /\ plan.rule_trace[1].operands = operands
    BY <1>1, <1>3 DEF trace
  <2> QED BY <2>1, <2>2 DEF SomeOperandFails
<1> QED BY <1>4, <1>5, <1>7, <1>8 DEF PlanAgrees

\* The operands of a rule have names of their own.
LEMMA RuleNames ==
  ASSUME NEW operands, NEW i \in 1..4,
         \A k, l \in 1..8 : operands[k].name = operands[l].name => k = l
  PROVE  LET rule == OperandsOfRule(operands)[i]
         IN  \A j, m \in DOMAIN rule : rule[j].name = rule[m].name => j = m
<1>1. i = 1 \/ i = 2 \/ i = 3 \/ i = 4
  OBVIOUS
<1>2. CASE i = 1
  BY <1>2 DEF OperandsOfRule
<1>3. CASE i = 2
  BY <1>3 DEF OperandsOfRule
<1>4. CASE i = 3
  BY <1>4 DEF OperandsOfRule
<1>5. CASE i = 4
  BY <1>5 DEF OperandsOfRule
<1> QED BY <1>1, <1>2, <1>3, <1>4, <1>5

\* A restatement agrees with itself recomputed when its operands are judged alike,
\* all pass and the horizon is partial.
LEMMA RestatementAgrees ==
  ASSUME NEW operands, NEW compared, NEW changes, NEW plan,
         plan = PartialRestatement(operands, compared, changes),
         NEW horizon, NEW verdicts, NEW comparisons, horizon.status = "PARTIAL",
         \A k, l \in 1..8 : operands[k].name = operands[l].name => k = l,
         \A k \in 1..8 : /\ operands[k].passed = Outcome(operands[k], verdicts, comparisons)
                         /\ Outcome(operands[k], verdicts, comparisons)
  PROVE  PlanAgrees(plan, plan, horizon, verdicts, comparisons)
<1>1. /\ plan.recommendation = "PARTIAL_RESTATEMENT"
      /\ DOMAIN plan.actions = 1..4 /\ DOMAIN plan.rule_trace = 1..4
      /\ \A i \in 1..4 :
              /\ plan.actions[i].action_type = PositiveActionTypes[i]
              /\ plan.actions[i].rules = {PositiveRules[i]}
              /\ plan.rule_trace[i].rule_id = PositiveRules[i]
              /\ plan.rule_trace[i].outcome = "FIRED"
              /\ plan.rule_trace[i].operands = OperandsOfRule(operands)[i]
              /\ plan.rule_trace[i].condition = Condition(OperandsOfRule(operands)[i])
              /\ plan.rule_trace[i].evidence = plan.actions[i].evidence
  BY RestatementHolds
<1>2. ShapeAgrees(plan, horizon)
  <2> DEFINE types == [i \in DOMAIN plan.actions |-> plan.actions[i].action_type]
             rules == [i \in DOMAIN plan.rule_trace |-> plan.rule_trace[i].rule_id]
  <2>1. types = PositiveActionTypes
    <3>1. types = [i \in 1..4 |-> PositiveActionTypes[i]]
      BY <1>1
    <3>2. PositiveActionTypes = [i \in 1..4 |-> PositiveActionTypes[i]]
      BY DEF PositiveActionTypes
    <3> QED BY <3>1, <3>2
  <2>2. rules = PositiveRules
    <3>1. rules = [i \in 1..4 |-> PositiveRules[i]]
      BY <1>1
    <3>2. PositiveRules = [i \in 1..4 |-> PositiveRules[i]]
      BY DEF PositiveRules
    <3> QED BY <3>1, <3>2
  <2>3. IdsUnique(PositiveRules)
    <3>1. \A i \in DOMAIN PositiveRules : i \in {1, 2, 3, 4}
      BY DEF PositiveRules
    <3>2. /\ PositiveRules[1] # PositiveRules[2] /\ PositiveRules[1] # PositiveRules[3]
          /\ PositiveRules[1] # PositiveRules[4] /\ PositiveRules[2] # PositiveRules[3]
          /\ PositiveRules[2] # PositiveRules[4] /\ PositiveRules[3] # PositiveRules[4]
      BY DEF PositiveRules
    <3> QED BY <3>1, <3>2 DEF IdsUnique, IsInjective
  <2> HIDE DEF types, rules
  <2>4. types = PositiveActionTypes /\ rules = PositiveRules /\ IdsUnique(rules)
    BY <2>1, <2>2, <2>3
  <2> QED BY <1>1, <2>4 DEF ShapeAgrees, types, rules
<1>3. ActionsCiteTheirTrace(plan)
  BY <1>1 DEF ActionsCiteTheirTrace
<1>4. ASSUME NEW i \in 1..4
      PROVE  TraceAgrees(plan, plan.rule_trace[i], verdicts, comparisons)
  <2> DEFINE trace == plan.rule_trace[i]
             rule == OperandsOfRule(operands)[i]
  <2>1. /\ trace.outcome = "FIRED" /\ trace.operands = rule
        /\ trace.condition = Condition(rule) /\ trace.rule_id = PositiveRules[i]
        /\ trace.evidence = plan.actions[i].evidence
        /\ trace.rule_id \in plan.actions[i].rules /\ i \in DOMAIN plan.actions
    BY <1>1
  <2>2. \A j \in DOMAIN rule : \E k \in 1..8 : rule[j] = operands[k]
    BY OperandsOfRules
  <2>3. \A j, m \in DOMAIN rule : rule[j].name = rule[m].name => j = m
    BY RuleNames
  <2> HIDE DEF trace, rule
  <2>4. \A j \in DOMAIN rule : /\ rule[j].passed = Outcome(rule[j], verdicts, comparisons)
                               /\ Outcome(rule[j], verdicts, comparisons)
    BY <2>2
  <2>5. IdsUnique([j \in DOMAIN trace.operands |-> trace.operands[j].name])
    BY <2>1, <2>3 DEF IdsUnique, IsInjective
  <2>6. trace.evidence \subseteq RelatedEvidence(plan, trace)
    BY <2>1 DEF RelatedEvidence
  <2>7. TraceAgrees(plan, trace, verdicts, comparisons)
    BY <2>1, <2>4, <2>5, <2>6 DEF TraceAgrees
  <2> QED BY <2>7 DEF trace
<1> QED BY <1>1, <1>2, <1>3, <1>4 DEF PlanAgrees

\* The expected plans are the plans.
LEMMA ExpectedAre ==
  ASSUME IInv, stage \notin UntilPlan
  PROVE  ExpectedPlans = Plans
<1>1. <<OnlyOfKind(AllComparisons, "TREND_STITCH"),
        OnlyOfKind(AllComparisons, "RESTATED_TREND")>> = evidence.comparisons
  <2>1. <<OnlyOfKind(AllComparisons, "TREND_STITCH"),
          OnlyOfKind(AllComparisons, "RESTATED_TREND")>>
          = <<evidence.comparisons[1], evidence.comparisons[2]>>
    BY KindsAre
  <2> QED BY <2>1, ComparisonsAre
<1>2. MigrationPlan(evidence.golden_analysis, evidence.horizon, RestatedVerdicts,
        <<OnlyOfKind(AllComparisons, "TREND_STITCH"),
          OnlyOfKind(AllComparisons, "RESTATED_TREND")>>,
        evidence.decision_changes, evidence.controls) = evidence.plan
  BY <1>1, Complete DEF PlanOf
<1>3. MigrationPlan(evidence.g3_analysis, evidence.horizon, RestatedVerdicts,
        <<OnlyOfKind(AllComparisons, "DEFINITION_IMPACT")>>,
        evidence.decision_changes, <<>>) = evidence.g3_plan
  BY KindsAre, Complete DEF RefusalOf, RefusalWith
<1> QED BY <1>2, <1>3 DEF ExpectedPlans, Plans

\* Plans of distinct identifiers agree with themselves where each does.
LEMMA PlansAgreeThemselves ==
  ASSUME NEW one, NEW other, one.plan_id # other.plan_id,
         NEW horizon, NEW verdicts, NEW comparisons,
         PlanAgrees(one, one, horizon, verdicts, comparisons),
         PlanAgrees(other, other, horizon, verdicts, comparisons)
  PROVE  PlansAgree(<<one, other>>, <<one, other>>, horizon, verdicts, comparisons)
<1> DEFINE plans == <<one, other>>
<1>1. /\ \A i : i \in DOMAIN plans <=> i = 1 \/ i = 2
      /\ plans[1] = one /\ plans[2] = other
  OBVIOUS
<1> HIDE DEF plans
<1>2. IdsUnique(PlanIds(plans))
  BY <1>1 DEF IdsUnique, IsInjective, PlanIds
<1>3. \A i \in DOMAIN plans :
        {k \in DOMAIN plans : plans[k].plan_id = plans[i].plan_id} = {i}
  BY <1>1
<1>4. \A i \in DOMAIN plans : Max({i}) = i
  BY <1>1 DEF Max
<1>5. \A i \in DOMAIN plans : ExpectedFor(plans[i], plans) = plans[i]
  BY <1>3, <1>4 DEF ExpectedFor
<1>6. \A i \in DOMAIN plans : PlanAgrees(plans[i], plans[i], horizon, verdicts, comparisons)
  BY <1>1
<1>7. PlansAgree(plans, plans, horizon, verdicts, comparisons)
  BY <1>2, <1>5, <1>6 DEF PlansAgree
<1> QED BY <1>7 DEF plans

\* The plan of control G3 agrees.
LEMMA RefusalAgrees ==
  ASSUME IInv, stage \notin UntilPlan
  PROVE  /\ evidence.g3_plan.plan_id = "PLAN-G3-REJECT"
         /\ PlanAgrees(evidence.g3_plan, evidence.g3_plan, evidence.horizon,
                       RestatedVerdicts, AllComparisons)
<1> DEFINE valid == evidence.g3_analysis.attribution_valid
           operand == Equals("definition_only_attribution_valid", valid, TRUE,
                             {evidence.g3_analysis.analysis_id})
           operands == <<operand>>
<1>1. valid = FALSE
  BY Complete DEF ConfoundedDifference, ArmDifference
<1>2. operand.operator = "EQUALS" /\ operand.passed = FALSE
      /\ operand.actual = FALSE /\ operand.expected = TRUE
  BY <1>1 DEF Equals, Operand
<1>3. operand.passed = Outcome(operand, RestatedVerdicts, AllComparisons)
  BY <1>2, EqualityOutcome
<1>4. /\ DOMAIN operands = {1} /\ operands[1] = operand
      /\ evidence.g3_plan = Rejection("PLAN-G3-REJECT", operands,
                                      {evidence.g3_analysis.analysis_id})
  BY RefusalIs
<1> HIDE DEF operand, operands
<1>5. evidence.g3_plan.plan_id = "PLAN-G3-REJECT"
  BY <1>4 DEF Rejection
<1>6. PlanAgrees(evidence.g3_plan, evidence.g3_plan, evidence.horizon,
                 RestatedVerdicts, AllComparisons)
  <2>1. /\ \A i, j \in DOMAIN operands : operands[i].name = operands[j].name => i = j
        /\ \A i \in DOMAIN operands :
             operands[i].passed = Outcome(operands[i], RestatedVerdicts, AllComparisons)
        /\ \E i \in DOMAIN operands : ~operands[i].passed
    BY <1>2, <1>3, <1>4
  <2> QED BY <1>4, <2>1, RejectionAgrees
<1> QED BY <1>5, <1>6

\* So does the plan of an attributed difference, where April is not contradicted.
LEMMA PlanAgreesHere ==
  ASSUME IInv, stage \notin UntilPlan, evidence.golden_analysis.attribution_valid,
         ~Contradictory("2.0.0", NonReconstructableCohort)
  PROVE  /\ evidence.plan.plan_id # "PLAN-G3-REJECT"
         /\ PlanAgrees(evidence.plan, evidence.plan, evidence.horizon,
                       RestatedVerdicts, AllComparisons)
<1> DEFINE failed == Failed(TheGate)
<1>1. /\ \A k, l \in 1..8 : TheGate[k].name = TheGate[l].name => k = l
      /\ DOMAIN TheGate = 1..8
      /\ TheGate[1].passed <=> (evidence.horizon.status = "PARTIAL")
  BY GateNames, GateSays DEF TheGate
<1>2. \A k \in 1..8 : TheGate[k].passed
                        = Outcome(TheGate[k], RestatedVerdicts, AllComparisons)
  BY GateOutcomes
<1>3. CASE /\ FailedAt(TheGate) # {}
           /\ evidence.plan = Rejection("PLAN-EVIDENCE-GATE-REJECT", failed, NamesOf(failed))
  <2>1. /\ \A i \in DOMAIN failed : i \in 1..8 /\ failed[i] = TheGate[i] /\ ~failed[i].passed
        /\ \E i : i \in DOMAIN failed
    BY <1>1, <1>3 DEF Failed, FailedAt
  <2> HIDE DEF failed
  <2>2. /\ \A i, j \in DOMAIN failed : failed[i].name = failed[j].name => i = j
        /\ \A i \in DOMAIN failed :
             failed[i].passed = Outcome(failed[i], RestatedVerdicts, AllComparisons)
        /\ \E i \in DOMAIN failed : ~failed[i].passed
    BY <1>1, <1>2, <2>1
  <2>3. PlanAgrees(evidence.plan, evidence.plan, evidence.horizon, RestatedVerdicts,
                   AllComparisons)
    BY <1>3, <2>2, RejectionAgrees
  <2>4. evidence.plan.plan_id = "PLAN-EVIDENCE-GATE-REJECT"
    BY <1>3 DEF Rejection
  <2> QED BY <2>3, <2>4
<1>4. CASE /\ FailedAt(TheGate) = {}
           /\ evidence.plan = PartialRestatement(TheGate, evidence.comparisons,
                                                 evidence.decision_changes)
  <2>1. \A k \in 1..8 : TheGate[k].passed
    BY <1>1, <1>4 DEF FailedAt
  <2>2. \A k \in 1..8 :
          /\ TheGate[k].passed = Outcome(TheGate[k], RestatedVerdicts, AllComparisons)
          /\ Outcome(TheGate[k], RestatedVerdicts, AllComparisons)
    BY <1>2, <2>1
  <2>3. evidence.horizon.status = "PARTIAL"
    BY <1>1, <2>1
  <2>4. PlanAgrees(evidence.plan, evidence.plan, evidence.horizon, RestatedVerdicts,
                   AllComparisons)
    BY <1>1, <1>4, <2>2, <2>3, RestatementAgrees
  <2>5. evidence.plan.plan_id = "PLAN-GOLDEN-PARTIAL-RESTATEMENT"
    BY <1>4, RestatementHolds
  <2> QED BY <2>4, <2>5
<1> QED BY <1>3, <1>4, AttributedPlanIs

\* The plans the stages leave pass the last check of the barrier.
LEMMA StagesPlan ==
  ASSUME IInv, stage \notin UntilPlan, evidence.golden_analysis.attribution_valid,
         ~Contradictory("2.0.0", NonReconstructableCohort)
  PROVE  PlansHold
<1>1. PlansAgree(Plans, Plans, evidence.horizon, RestatedVerdicts, AllComparisons)
  <2>1. evidence.plan.plan_id # evidence.g3_plan.plan_id
    BY PlanAgreesHere, RefusalAgrees
  <2> QED BY <2>1, PlanAgreesHere, RefusalAgrees, PlansAgreeThemselves DEF Plans
<1> QED BY <1>1, ExpectedAre, KindsAre DEF PlansHold

-----------------------------------------------------------------------------
\* What the barrier turns away cites what is not declared, has results of one
\* identity, an invalid attribution or contradictory verdicts on April.
LEMMA BarrierAgreement == IInv => BarrierAgreesWithStages
<1> SUFFICES ASSUME IInv PROVE BarrierAgreesWithStages
  OBVIOUS
<1>1. ASSUME stage \in BarrierStages \cup {"release"} PROVE stage \notin UntilPlan
  BY <1>1 DEF BarrierStages, UntilCalculate, UntilAssess, UntilCompare, UntilDecide,
     UntilRefuse, UntilControl, UntilPlan
<1>2. ASSUME outcome = "raised", stage \in BarrierStages PROVE Refused
  BY <1>2 DEF IInv, BarrierInv
<1>3. ASSUME outcome = "raised", stage = "references" PROVE ~CitedAreDeclared
  <2>1. stage \in BarrierStages
    BY <1>3 DEF BarrierStages
  <2>2. ~ReferencesResolve
    BY <1>2, <1>3, <2>1 DEF Refused
  <2> QED BY <1>1, <2>1, <2>2, StagesResolve
<1>4. ASSUME outcome = "raised", stage \in BarrierStages \ {"references"},
             ResultIdsUnique, evidence.golden_analysis.attribution_valid,
             ~Contradictory("2.0.0", NonReconstructableCohort)
      PROVE  FALSE
  <2>1. ComparisonsHold /\ DecisionsHold /\ PlansHold
    BY <1>1, <1>4, StagesCompare, StagesDecide, StagesPlan
  <2> QED BY <1>2, <1>4, <2>1 DEF Refused
<1>5. ASSUME stage \in {"comparisons", "changes", "plans", "release"}
      PROVE  CitedAreDeclared
  <2>1. ReferencesResolve
    BY <1>5 DEF IInv, BarrierInv
  <2>2. stage \notin UntilPlan
    BY <1>1, <1>5 DEF BarrierStages
  <2> QED BY <2>1, <2>2, ResolvedAreDeclared
<1>6. stage = "release" => ResultIdsUnique /\ evidence.golden_analysis.attribution_valid
  BY ReleasedIsAttributed
<1> QED BY <1>3, <1>4, <1>5, <1>6 DEF BarrierAgreesWithStages

\* For any inputs, the barrier turns away of what the stages produce exactly what
\* cites an assumption or a rule nobody declared, and after that only what has
\* results of one identity, no attribution or contradictory verdicts on April
\* (validate_evidence_consistency against build_comparisons, build_decision_changes
\* and build_migration_plan).
THEOREM BarrierAgreesAlways == Spec => []BarrierAgreesWithStages
BY AuditInvariance, BarrierAgreement, PTL
=============================================================================
