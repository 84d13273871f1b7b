----------------------------- MODULE Evaluation -----------------------------
(***************************************************************************)
(* What an execution derives from its result sets: how two arms differ,    *)
(* comparisons of rates, the decisions they change, and the migration plan *)
(* the policy allows.  Rates are exact.                                    *)
(***************************************************************************)
EXTENDS KpiInputs, Integers, FiniteSetsExt

CONSTANT Threshold      \* the rate the decision contract asks for, a fraction
ASSUME ThresholdIsFraction ==
  Threshold \in Nat \X (Nat \ {0})

-----------------------------------------------------------------------------
(***************************************************************************)
(* Fractions <<numerator, denominator>>, the denominator positive, in      *)
(* lowest terms.                                                           *)
(***************************************************************************)
Reduced(x) ==
  LET divisor == Max({k \in 1..x[2] : x[1] % k = 0 /\ x[2] % k = 0})
  IN  <<x[1] \div divisor, x[2] \div divisor>>

SameValue(x, y) == x[1] * y[2] = y[1] * x[2]
AtLeast(x, y)   == x[1] * y[2] >= y[1] * x[2]
MinusReversed(x, y) == Reduced(<<y[1] * x[2] - x[1] * y[2], x[2] * y[2]>>)
Minus(x, y)     == Reduced(<<x[1] * y[2] - y[1] * x[2], x[2] * y[2]>>)

RateOf(result) ==
  Reduced(<<Cardinality(result.numerator), Cardinality(result.denominator)>>)

IsExact(result) == result.status = "EXACT"

-----------------------------------------------------------------------------
(***************************************************************************)
(* Identifiers are tuples.  A result is named by its version, cohort and   *)
(* channel, a verdict by its version and cohort, everything else by one    *)
(* literal of the code.                                                    *)
(***************************************************************************)
ReconstructabilityId(verdict) == <<verdict.version, verdict.cohort>>

GoldenAnalysisId == <<"ARM-DIFF-GOLDEN-V1-V2">>
ConfoundedAnalysisId == <<"ARM-DIFF-G3-V1-V2">>
HorizonId  == <<"HORIZON-V2-2026-04-TO-2026-06">>
ContractId == <<"golden_activation_decision_contract/1.0.0">>
PolicyId   == <<"golden_activation_migration_policy/1.0.0">>
StitchId   == <<"TREND_STITCH">>

-----------------------------------------------------------------------------
(***************************************************************************)
(* Identity of definitions, and the difference of two arms.  The semantic  *)
(* projection is the two predicates, each with its clauses and the way it  *)
(* is written; the rest of it follows from them or has one value.  A       *)
(* context stands for the hashes of the fingerprint.                       *)
(***************************************************************************)
Written(definition, part) == <<definition[part], definition.form[part]>>

SemanticProjection(definition) ==
  [part \in {"numerator", "denominator"} |-> Written(definition, part)]

IndependentSemanticChanges(before, after) ==
  { key \in {"numerator", "denominator"} :
      SemanticProjection(before)[key] # SemanticProjection(after)[key] }

ArtifactDifferent(before, after) == before # after
SemanticDifferent(before, after) ==
  SemanticProjection(before) # SemanticProjection(after)

ArmDifferenceAnyChange(id, before, after, left, right) ==
  [ analysis_id |-> id,
    controlled_context_match |-> left = right,
    attribution_valid |->
      /\ ArtifactDifferent(before, after)
      /\ SemanticDifferent(before, after)
      /\ left = right ]

ArmDifference(id, before, after, left, right) ==
  [ analysis_id |-> id,
    controlled_context_match |-> left = right,
    attribution_valid |->
      /\ ArtifactDifferent(before, after)
      /\ SemanticDifferent(before, after)
      /\ IndependentSemanticChanges(before, after) = {"denominator"}
      /\ left = right ]

-----------------------------------------------------------------------------
(***************************************************************************)
(* Comparisons.  An endpoint repeats what its result says of itself.       *)
(***************************************************************************)
Endpoint(id, results) ==
  [ result_id |-> id, version |-> id[1], cohort |-> id[2], channel |-> id[3],
    exact_value |-> RateOf(results[id]) ]

Comparison(kind, left, right, analysis, judgement) ==
  [ assessment_id |-> <<kind>>, kind |-> kind, left |-> left, right |-> right,
    analysis_id |-> analysis.analysis_id,
    controlled_context_match |-> analysis.controlled_context_match,
    valid |-> judgement.valid, verdict |-> judgement.verdict,
    exact_delta |-> Minus(right.exact_value, left.exact_value),
    reason |-> judgement.reason,
    evidence |-> {left.result_id, right.result_id, analysis.analysis_id},
    assumptions |-> judgement.assumptions ]

Judgement(valid, verdict, reason, assumptions) ==
  [ valid |-> valid, verdict |-> verdict, reason |-> reason,
    assumptions |-> assumptions ]

\* The comparisons need May and June of the first channel.
ComparisonEndpoints(alpha) ==
  { <<"1.0.0", "2026-05", alpha>>, <<"2.0.0", "2026-05", alpha>>,
    <<"2.0.0", "2026-06", alpha>> }

TrendComparisons(results, analysis, alpha) ==
  << Comparison("TREND_STITCH",
       Endpoint(<<"1.0.0", "2026-05", alpha>>, results),
       Endpoint(<<"2.0.0", "2026-06", alpha>>, results), analysis,
       Judgement(FALSE, "NOT_COMPARABLE_WITHOUT_BRIDGE",
         "CROSS_SEMANTIC_VERSION_TREND_PROHIBITED", {"A_TREND_SAME_SEMANTICS"})),
     Comparison("RESTATED_TREND",
       Endpoint(<<"2.0.0", "2026-05", alpha>>, results),
       Endpoint(<<"2.0.0", "2026-06", alpha>>, results), analysis,
       Judgement(TRUE, "COMPARABLE_AFTER_RESTATEMENT",
         "BOTH_ENDPOINTS_RESTATED_UNDER_V2", {"A_TREND_SAME_SEMANTICS"})) >>

ConfoundedComparison(results, analysis, alpha) ==
  Comparison("DEFINITION_IMPACT",
    Endpoint(<<"1.0.0", "2026-05", alpha>>, results),
    Endpoint(<<"2.0.0", "2026-05", alpha>>, results), analysis,
    Judgement(FALSE, "INSUFFICIENT_EVIDENCE", "CONTROLLED_CONTEXT_MISMATCH", {}))

-----------------------------------------------------------------------------
(***************************************************************************)
(* Decisions.                                                              *)
(***************************************************************************)
ThresholdState(rate) == IF AtLeast(rate, Threshold) THEN "PASS" ELSE "FAIL"

Ranking(alpha, beta) ==
  CASE SameValue(alpha, beta)    -> "Alpha = Beta"
    [] AtLeast(alpha, beta)
       /\ ~SameValue(alpha, beta) -> "Alpha > Beta"
    [] OTHER                      -> "Beta > Alpha"

\* Authority, direction and delta, which the code joins into one text.
TrendState(comparison) ==
  << CASE comparison.valid
          /\ comparison.verdict = "COMPARABLE_AFTER_RESTATEMENT"
            -> "VALID_RESTATED"
       [] ~comparison.valid
          /\ comparison.verdict = "NOT_COMPARABLE_WITHOUT_BRIDGE"
            -> "PROHIBITED_APPARENT"
       [] OTHER -> IF comparison.valid THEN "VALID" ELSE "INVALID",
     CASE comparison.exact_delta[1] > 0 -> "IMPROVEMENT"
       [] comparison.exact_delta[1] < 0 -> "DECLINE"
       [] OTHER                         -> "NO_CHANGE",
     comparison.exact_delta >>

NoDelta == <<>>

\* A state is a tuple, so that those of a trend compare with the others.
DecisionChange(change_type, before, after, delta, comparisons, evidence, assumptions) ==
  [ change_id |-> <<change_type>>, change_type |-> change_type,
    before_state |-> before, after_state |-> after,
    classification |-> IF before # after THEN "CHANGED" ELSE "UNCHANGED",
    exact_delta |-> delta, comparisons |-> comparisons,
    evidence |-> evidence, assumptions |-> assumptions ]

\* The decisions need May of both channels under both versions.
DecisionEndpoints(alpha, beta) ==
  {"1.0.0", "2.0.0"} \X {"2026-05"} \X {alpha, beta}

DecisionChanges(results, stitch, restated, alpha, beta) ==
  LET May(version, channel) == RateOf(results[<<version, "2026-05", channel>>])
      trends == {stitch.assessment_id, restated.assessment_id}
  IN  << DecisionChange("THRESHOLD", <<ThresholdState(May("1.0.0", alpha))>>,
           <<ThresholdState(May("2.0.0", alpha))>>,
           Minus(May("2.0.0", alpha), May("1.0.0", alpha)), {},
           {<<"1.0.0", "2026-05", alpha>>, <<"2.0.0", "2026-05", alpha>>, ContractId},
           {"A_THRESHOLD_SYNTHETIC_080"}),
         DecisionChange("RANKING",
           <<Ranking(May("1.0.0", alpha), May("1.0.0", beta))>>,
           <<Ranking(May("2.0.0", alpha), May("2.0.0", beta))>>, NoDelta, {},
           DecisionEndpoints(alpha, beta), {}),
         DecisionChange("TREND_INTERPRETATION", TrendState(stitch),
           TrendState(restated), NoDelta, trends, trends, {"A_TREND_SAME_SEMANTICS"}) >>

ImpactIndex(changes) == [i \in DOMAIN changes |-> changes[i].change_id]

-----------------------------------------------------------------------------
(***************************************************************************)
(* The migration plan.  The policy restates and bridges May and June and   *)
(* gives April up.                                                         *)
(***************************************************************************)
RestatementCohortsHalfOpen == {"2026-05"}
RestatementCohorts      == {"2026-05", "2026-06"}
BridgeCohorts           == {"2026-05", "2026-06"}
EffectiveCohort         == "2026-06"
NonReconstructableCohort == "2026-04"
MinimumBridge           == 2
ControlIds              == {"G1", "G2", "G3", "G4"}

\* The status of a cohort over a sequence of verdicts, the last one counting.
StatusOf(cohort, verdicts) ==
  IF \E i \in DOMAIN verdicts : verdicts[i].cohort = cohort
  THEN LastFor(cohort, verdicts).status ELSE "MISSING"

StatusesIn(cohorts, verdicts) == [c \in cohorts |-> StatusOf(c, verdicts)]

CompleteIn(cohorts, verdicts) ==
  {c \in cohorts : StatusOf(c, verdicts) = "FULLY_RECONSTRUCTABLE"}

FullStatuses(cohorts) == [c \in cohorts |-> "FULLY_RECONSTRUCTABLE"]

\* The verdicts of a cohort that a plan may cite.
VerdictIds(cohorts, verdicts) ==
  { ReconstructabilityId(verdicts[i]) :
      i \in {j \in DOMAIN verdicts : verdicts[j].cohort \in cohorts} }

\* A stitch across versions, over the bridge, that was judged invalid.
InvalidScopedComparison(comparison) ==
  /\ ~comparison.valid
  /\ comparison.kind = "TREND_STITCH"
  /\ comparison.left.cohort = "2026-05" /\ comparison.right.cohort = "2026-06"
  /\ comparison.left.channel = comparison.right.channel
  /\ comparison.left.version # comparison.right.version

StitchRefuted(comparisons) ==
  \E i \in DOMAIN comparisons : /\ comparisons[i].assessment_id = StitchId
                               /\ InvalidScopedComparison(comparisons[i])

\* An operand with what it compares, and the outcome recorded with it.
Operand(name, operator, actual, expected, passed, evidence) ==
  [ name |-> name, operator |-> operator, actual |-> actual,
    expected |-> expected, passed |-> passed, evidence |-> evidence ]

Equals(name, actual, expected, evidence) ==
  Operand(name, "EQUALS", actual, expected, actual = expected, evidence)

AllTrue(name, actual, expected, evidence) ==
  Operand(name, "ALL_TRUE", actual, expected, actual = expected, evidence)

\* The operands of the policy gate; effective_cohort compares two literals of
\* the policy and of the contract.
GateOperands(horizon, verdicts, comparisons, controls) ==
  LET complete == Cardinality(CompleteIn(BridgeCohorts, verdicts))
      history  == StatusOf(NonReconstructableCohort, verdicts)
      cited    == {i \in DOMAIN comparisons :
                     comparisons[i].assessment_id = StitchId}
  IN  << Equals("horizon_restatement_coverage", horizon.status, "PARTIAL",
                {HorizonId}),
         AllTrue("restatement_cohort_reconstructability",
                 StatusesIn(RestatementCohorts, verdicts),
                 FullStatuses(RestatementCohorts),
                 VerdictIds(RestatementCohorts, verdicts)),
         AllTrue("bridge_cohort_reconstructability",
                 StatusesIn(BridgeCohorts, verdicts), FullStatuses(BridgeCohorts),
                 VerdictIds(BridgeCohorts, verdicts)),
         Operand("complete_bridge_cohort_count", "AT_LEAST", complete,
                 MinimumBridge, complete >= MinimumBridge, {HorizonId}),
         Equals("effective_cohort", EffectiveCohort, EffectiveCohort,
                {ContractId, PolicyId}),
         Operand("non_reconstructable_history_reference", "RESOLVES",
                 NonReconstructableCohort, "NOT_RECONSTRUCTABLE",
                 history = "NOT_RECONSTRUCTABLE",
                 IF history = "MISSING" THEN {HorizonId}
                 ELSE VerdictIds({NonReconstructableCohort}, verdicts)),
         Operand("invalid_comparison_reference", "RESOLVES", StitchId,
                 "INVALID_SCOPED_COMPARISON",
                 StitchRefuted(comparisons),
                 IF cited = {} THEN {} ELSE {StitchId}),
         AllTrue("required_control_results", controls,
                 [id \in ControlIds |-> "PASS"],
                 {<<id>> : id \in DOMAIN controls}) >>

\* The operands that failed, each at the place it has among all.
FailedAt(operands) == {i \in DOMAIN operands : ~operands[i].passed}
Failed(operands)   == [i \in FailedAt(operands) |-> operands[i]]

NamesOf(operands) == {<<operands[i].name>> : i \in DOMAIN operands}
CitedBy(operands) == UNION {operands[i].evidence : i \in DOMAIN operands}

\* An action over a set of cohorts, with what it cites.
Action(action_type, scope, scope_refs, evidence, assumptions, rule) ==
  [ action_type |-> action_type, scope |-> scope, scope_refs |-> scope_refs,
    evidence |-> evidence, assumptions |-> assumptions, rules |-> {rule} ]

\* The text of a condition: the names and operators of its operands.
Condition(operands) ==
  [i \in DOMAIN operands |-> <<operands[i].name, operands[i].operator>>]

RuleTraceEntry(rule_id, operands, evidence) ==
  [ rule_id |-> rule_id, condition |-> Condition(operands), outcome |-> "FIRED",
    operands |-> operands, evidence |-> evidence ]

RejectionRule == "MP-R05_REJECT_CONTEXT_OR_EVIDENCE_GAP"

RejectionOneId(plan_id, operands, scope_refs) ==
  [ plan_id |-> "PLAN-G3-REJECT", recommendation |-> "REJECT_PENDING_EVIDENCE",
    actions |-> <<Action("REJECT_PENDING_EVIDENCE", CohortNames, scope_refs,
                         CitedBy(operands), {}, RejectionRule)>>,
    rule_trace |-> <<RuleTraceEntry(RejectionRule, operands, CitedBy(operands))>> ]

Rejection(plan_id, operands, scope_refs) ==
  [ plan_id |-> plan_id, recommendation |-> "REJECT_PENDING_EVIDENCE",
    actions |-> <<Action("REJECT_PENDING_EVIDENCE", CohortNames, scope_refs,
                         CitedBy(operands), {}, RejectionRule)>>,
    rule_trace |-> <<RuleTraceEntry(RejectionRule, operands, CitedBy(operands))>> ]

PositiveActionTypes ==
  << "RESTATE_COHORT_RANGE", "DUAL_REPORT_COHORT_RANGE",
     "START_OFFICIAL_SERIES", "MARK_NON_COMPARABLE" >>

PositiveRules ==
  << "MP-R01_RESTATE_FULL", "MP-R02_BRIDGE_MIN_TWO",
     "MP-R03_START_EFFECTIVE", "MP-R04_NO_SPLICE" >>

\* The operands each of the four rules is traced with; the last is the controls.
OperandsOfRule(operands) ==
  << <<operands[1], operands[2], operands[8]>>,
     <<operands[3], operands[4], operands[8]>>,
     <<operands[5], operands[8]>>,
     <<operands[6], operands[7], operands[8]>> >>

Scopes ==
  <<RestatementCohorts, BridgeCohorts, {EffectiveCohort}, {NonReconstructableCohort}>>

PartialRestatement(operands, comparisons, changes) ==
  LET common == {HorizonId}
        \cup {comparisons[i].assessment_id : i \in DOMAIN comparisons}
        \cup {changes[i].change_id : i \in DOMAIN changes}
      refs == << {<<c>> : c \in RestatementCohorts}, {<<c>> : c \in BridgeCohorts},
                 {<<EffectiveCohort, "v2-official">>},
                 {<<NonReconstructableCohort, "v1-only-history">>, StitchId} >>
      evidence == << {HorizonId}, common, {HorizonId},
                     {HorizonId, comparisons[1].assessment_id} >>
      assumption(i) == IF i = 2 THEN "A_MIN_BRIDGE_COHORTS_2"
                       ELSE "A_TREND_SAME_SEMANTICS"
  IN  [ plan_id |-> "PLAN-GOLDEN-PARTIAL-RESTATEMENT",
        recommendation |-> "PARTIAL_RESTATEMENT",
        actions |->
          [ i \in 1..4 |-> Action(PositiveActionTypes[i], Scopes[i], refs[i],
                                  evidence[i], {assumption(i)}, PositiveRules[i]) ],
        rule_trace |->
          [ i \in 1..4 |-> RuleTraceEntry(PositiveRules[i],
                              OperandsOfRule(operands)[i], evidence[i]) ] ]

\* A rejection records the operands that failed, a restatement all of them.
MigrationPlan(analysis, horizon, verdicts, comparisons, changes, controls) ==
  LET operands == GateOperands(horizon, verdicts, comparisons, controls)
      failed   == Failed(operands)
  IN  IF ~analysis.attribution_valid
      THEN Rejection("PLAN-G3-REJECT",
             << Equals("definition_only_attribution_valid",
                       analysis.attribution_valid, TRUE, {analysis.analysis_id}) >>,
             {analysis.analysis_id})
      ELSE IF FailedAt(operands) # {}
      THEN Rejection("PLAN-EVIDENCE-GATE-REJECT", failed, NamesOf(failed))
      ELSE PartialRestatement(operands, comparisons, changes)
=============================================================================
