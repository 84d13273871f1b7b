---------------------------- MODULE Consistency -----------------------------
(***************************************************************************)
(* The barrier before serialization: whether every reference of a piece of *)
(* evidence resolves, and whether comparisons, decisions and plans agree   *)
(* with what is recomputed from the pieces they were derived from.  Each   *)
(* operator is one check and takes the evidence it reads; results are a    *)
(* function of their identifiers, and so are analyses.                     *)
(***************************************************************************)
EXTENDS Evaluation, SequencesExt

ASSUME TwoChannels == Len(Channels) = 2
Alpha == Channels[1]
Beta  == Channels[2]

RegisteredIncompatibility == "CROSS_SEMANTIC_VERSION_TREND_PROHIBITED"

\* The places of the comparisons of a kind.
OfKind(comparisons, kind) ==
  {i \in DOMAIN comparisons : comparisons[i].kind = kind}

HasOneOfKind(comparisons, kind) == Cardinality(OfKind(comparisons, kind)) = 1

\* The comparison of a kind, where there is one.
OnlyOfKind(comparisons, kind) ==
  comparisons[CHOOSE i \in OfKind(comparisons, kind) : TRUE]

IdsUnique(ids) == IsInjective(ids)

-----------------------------------------------------------------------------
(***************************************************************************)
(* References.                                                             *)
(***************************************************************************)
\* Everything a piece of evidence may be cited by.
EvidenceRegistry(result_ids, analyses, verdicts, comparisons, changes, controls, assumptions) ==
  {ContractId, PolicyId, HorizonId}
    \cup {<<id>> : id \in assumptions} \cup result_ids \cup DOMAIN analyses
    \cup {ReconstructabilityId(verdicts[i]) : i \in DOMAIN verdicts}
    \cup {comparisons[i].assessment_id : i \in DOMAIN comparisons}
    \cup {changes[i].change_id : i \in DOMAIN changes}
    \cup {<<id>> : id \in DOMAIN controls}

ComparisonResolves(comparison, result_ids, analyses, registry, assumptions, versions) ==
  /\ {comparison.left.result_id, comparison.right.result_id} \subseteq result_ids
  /\ {comparison.left.version, comparison.right.version} \subseteq versions
  /\ comparison.analysis_id \in DOMAIN analyses
  /\ comparison.evidence \subseteq registry
  /\ comparison.assumptions \subseteq assumptions

ChangeResolves(change, comparisons, registry, assumptions) ==
  /\ change.comparisons \subseteq
       {comparisons[i].assessment_id : i \in DOMAIN comparisons}
  /\ change.evidence \subseteq registry
  /\ change.assumptions \subseteq assumptions

\* What the scope of an action may name besides the operands of its plan.
ScopeRegistry(analyses, comparisons) ==
  {<<cohort>> : cohort \in CohortNames}
    \cup CohortNames \X {"v1-only-history", "v2-official"}
    \cup DOMAIN analyses
    \cup {comparisons[i].assessment_id : i \in DOMAIN comparisons}

PlanResolves(plan, scopes, registry, assumptions, policy_rules) ==
  LET operands == UNION {NamesOf(plan.rule_trace[i].operands) :
                           i \in DOMAIN plan.rule_trace}
  IN  /\ \A i \in DOMAIN plan.actions :
           LET action == plan.actions[i]
           IN  /\ action.scope_refs \subseteq scopes \cup operands
               /\ action.evidence \subseteq registry
               /\ action.assumptions \subseteq assumptions
               /\ action.rules \subseteq policy_rules
      /\ \A i \in DOMAIN plan.rule_trace :
           LET trace == plan.rule_trace[i]
           IN  /\ trace.rule_id \in policy_rules
               /\ trace.evidence \subseteq registry
               /\ CitedBy(trace.operands) \subseteq registry

-----------------------------------------------------------------------------
(***************************************************************************)
(* Comparisons and decisions.                                              *)
(***************************************************************************)
IsProjectionByName(endpoint, results) ==
  /\ IsExact(results[endpoint.result_id])
  /\ << endpoint.version, endpoint.cohort, endpoint.channel >> = endpoint.result_id

IsProjectionOf(endpoint, results) ==
  /\ IsExact(results[endpoint.result_id])
  /\ endpoint = Endpoint(endpoint.result_id, results)

ComparisonAgrees(comparison, results, analyses) ==
  LET left == comparison.left
      right == comparison.right
      analysis == analyses[comparison.analysis_id]
  IN  /\ IsProjectionOf(left, results)
      /\ IsProjectionOf(right, results)
      /\ comparison.exact_delta = Minus(right.exact_value, left.exact_value)
      /\ comparison.controlled_context_match = analysis.controlled_context_match
      /\ comparison.kind = "DEFINITION_IMPACT" /\ comparison.valid
           => analysis.attribution_valid
      /\ comparison.verdict = "INSUFFICIENT_EVIDENCE" => ~comparison.valid
      /\ comparison.verdict = "COMPARABLE_AFTER_RESTATEMENT"
           => left.version = right.version
      /\ comparison.verdict = "NOT_COMPARABLE_WITHOUT_BRIDGE"
           => \/ left.version # right.version
              \/ comparison.reason = RegisteredIncompatibility

ComparisonsAgree(comparisons, results, analyses) ==
  /\ IdsUnique([i \in DOMAIN comparisons |-> comparisons[i].assessment_id])
  /\ \A i \in DOMAIN comparisons :
       ComparisonAgrees(comparisons[i], results, analyses)

OneOfEachTrend(comparisons) ==
  /\ HasOneOfKind(comparisons, "TREND_STITCH")
  /\ HasOneOfKind(comparisons, "RESTATED_TREND")

Rebuilt(results, comparisons) ==
  DecisionChanges(results, OnlyOfKind(comparisons, "TREND_STITCH"),
                  OnlyOfKind(comparisons, "RESTATED_TREND"), Alpha, Beta)

DecisionsAgreeWithoutImpact(results, comparisons, changes, impact) ==
  /\ OneOfEachTrend(comparisons)
  /\ \A id \in DecisionEndpoints(Alpha, Beta) : IsExact(results[id])
  /\ changes = Rebuilt(results, comparisons)

DecisionsAgree(results, comparisons, changes, impact) ==
  /\ OneOfEachTrend(comparisons)
  /\ \A id \in DecisionEndpoints(Alpha, Beta) : IsExact(results[id])
  /\ changes = Rebuilt(results, comparisons)
  /\ impact = ImpactIndex(changes)

-----------------------------------------------------------------------------
(***************************************************************************)
(* Plans.                                                                  *)
(***************************************************************************)
\* The history operand is resolved over the first verdict of April, where the
\* plan took the last.
FirstStatusOf(cohort, verdicts) ==
  LET found == {i \in DOMAIN verdicts : verdicts[i].cohort = cohort}
  IN  IF found = {} THEN "MISSING" ELSE verdicts[Min(found)].status

Resolves(operand, verdicts, comparisons) ==
  CASE operand.name = "non_reconstructable_history_reference" ->
         /\ operand.actual = NonReconstructableCohort
         /\ operand.expected = "NOT_RECONSTRUCTABLE"
         /\ FirstStatusOf(NonReconstructableCohort, verdicts) = "NOT_RECONSTRUCTABLE"
    [] operand.name = "invalid_comparison_reference" ->
         /\ operand.expected = "INVALID_SCOPED_COMPARISON"
         /\ \E i \in DOMAIN comparisons :
              /\ comparisons[i].assessment_id = operand.actual
              /\ InvalidScopedComparison(comparisons[i])

Outcome(operand, verdicts, comparisons) ==
  CASE operand.operator \in {"EQUALS", "ALL_TRUE"} ->
         operand.actual = operand.expected
    [] operand.operator = "AT_LEAST" -> operand.actual >= operand.expected
    [] operand.operator = "RESOLVES" -> Resolves(operand, verdicts, comparisons)

ShapeAgrees(plan, horizon) ==
  LET types == [i \in DOMAIN plan.actions |-> plan.actions[i].action_type]
      rules == [i \in DOMAIN plan.rule_trace |-> plan.rule_trace[i].rule_id]
  IN  /\ IdsUnique(rules)
      /\ plan.recommendation = "PARTIAL_RESTATEMENT" =>
           /\ types = PositiveActionTypes
           /\ rules = PositiveRules
           /\ horizon.status = "PARTIAL"
      /\ plan.recommendation = "REJECT_PENDING_EVIDENCE" =>
           types = <<"REJECT_PENDING_EVIDENCE">> /\ rules = <<RejectionRule>>

\* Each action cites one rule, traced at its own position.
ActionsCiteTheirTrace(plan) ==
  \A i \in DOMAIN plan.actions :
    /\ i \in DOMAIN plan.rule_trace
    /\ plan.actions[i].rules = {plan.rule_trace[i].rule_id}

\* What a trace may cite: what its operands and its actions cite.
RelatedEvidence(plan, trace) ==
  CitedBy(trace.operands)
    \cup UNION { plan.actions[i].evidence :
                   i \in {j \in DOMAIN plan.actions :
                            trace.rule_id \in plan.actions[j].rules} }

TraceAgrees(plan, trace, verdicts, comparisons) ==
  /\ trace.outcome = "FIRED"
  /\ trace.condition = Condition(trace.operands)
  /\ IdsUnique([i \in DOMAIN trace.operands |-> trace.operands[i].name])
  /\ \A i \in DOMAIN trace.operands :
       LET outcome == Outcome(trace.operands[i], verdicts, comparisons)
       IN  /\ trace.operands[i].passed = outcome
           /\ plan.recommendation = "PARTIAL_RESTATEMENT" => outcome
  /\ trace.evidence \subseteq RelatedEvidence(plan, trace)

SomeOperandFails(plan, verdicts, comparisons) ==
  \E i \in DOMAIN plan.rule_trace :
    \E j \in DOMAIN plan.rule_trace[i].operands :
      ~Outcome(plan.rule_trace[i].operands[j], verdicts, comparisons)

PlanAgrees(plan, expected, horizon, verdicts, comparisons) ==
  /\ ShapeAgrees(plan, horizon)
  /\ ActionsCiteTheirTrace(plan)
  /\ \A i \in DOMAIN plan.rule_trace :
       TraceAgrees(plan, plan.rule_trace[i], verdicts, comparisons)
  /\ plan.recommendation = "REJECT_PENDING_EVIDENCE"
       => SomeOperandFails(plan, verdicts, comparisons)
  /\ plan = expected

\* Each serialized plan against the one recomputed under its identifier.  Of two
\* recomputed plans of one identifier the later counts.
ExpectedFor(plan, expected) ==
  expected[Max({i \in DOMAIN expected : expected[i].plan_id = plan.plan_id})]

PlanIds(plans) == [i \in DOMAIN plans |-> plans[i].plan_id]

PlansAgreeWhereExpected(plans, expected, horizon, verdicts, comparisons) ==
  /\ IdsUnique(PlanIds(plans))
  /\ \A i \in DOMAIN plans :
       plans[i].plan_id \in Range(PlanIds(expected)) =>
         PlanAgrees(plans[i], ExpectedFor(plans[i], expected), horizon, verdicts,
                    comparisons)

PlansAgree(plans, expected, horizon, verdicts, comparisons) ==
  /\ IdsUnique(PlanIds(plans))
  /\ Range(PlanIds(plans)) = Range(PlanIds(expected))
  /\ \A i \in DOMAIN plans :
       PlanAgrees(plans[i], ExpectedFor(plans[i], expected), horizon, verdicts,
                  comparisons)
=============================================================================
