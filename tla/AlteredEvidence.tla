-------------------------- MODULE AlteredEvidence ---------------------------
(***************************************************************************)
(* The barrier over evidence that is not what the stages produced: before  *)
(* its first check, fields of the evidence take other values of their      *)
(* types, alone or together, as the consistency tests alter them and in    *)
(* ways those tests leave out.                                             *)
(***************************************************************************)
EXTENDS Audit

CONSTANT MaxAlterations   \* how many fields may be altered
ASSUME MaxAlterationsIsNatural == MaxAlterations \in Nat

VARIABLE altered          \* the fields that were, by part, item and name

allVars == <<input, evidence, stage, outcome, altered>>

AlteredInit == Init /\ altered = {}

\* The forms of a record in which one field has another of the given values, by
\* the name of the field.
OtherForms(record, values) ==
  UNION { { <<field, [record EXCEPT ![field] = value]>> :
              value \in values[field] \ {record[field]} } : field \in DOMAIN values }

OtherRate == <<1, 7>>

\* The projection of another exact result of the channel at the left end, with
\* the old difference or with the new one.
Redirected(comparison) ==
  LET others == {key \in GoldenKeys : key[3] = Alpha /\ IsExact(GoldenResults[key])}
      to(key) == [comparison EXCEPT !.left = Endpoint(key, GoldenResults)]
      delta(key) == Minus(comparison.right.exact_value, to(key).left.exact_value)
  IN  UNION { { <<"left", to(key)>>,
                <<"left and delta", [to(key) EXCEPT !.exact_delta = delta(key)]>> } :
                key \in others \ {comparison.left.result_id} }

OtherComparisons(comparison) ==
  Redirected(comparison) \cup
  OtherForms(comparison,
    [ kind |-> {"TREND_STITCH", "RESTATED_TREND", "DEFINITION_IMPACT"},
      left |-> { [comparison.left EXCEPT !.exact_value = OtherRate],
                 [comparison.left EXCEPT !.channel = Beta] },
      right |-> { [comparison.right EXCEPT !.exact_value = OtherRate],
                  [comparison.right EXCEPT !.cohort = "2026-04"] },
      analysis_id |-> {GoldenAnalysisId, ConfoundedAnalysisId},
      controlled_context_match |-> BOOLEAN,
      valid |-> BOOLEAN,
      verdict |-> { "INSUFFICIENT_EVIDENCE", "COMPARABLE_AFTER_RESTATEMENT",
                    "NOT_COMPARABLE_WITHOUT_BRIDGE" },
      exact_delta |-> {OtherRate},
      reason |-> {"UNREGISTERED_INCOMPATIBILITY"},
      evidence |-> {{}, {<<"UNKNOWN">>}},
      assumptions |-> {{}, {"A_UNKNOWN"}} ])

OtherChanges(change) ==
  OtherForms(change,
    [ before_state |-> {change.after_state},
      after_state |-> {change.before_state}, exact_delta |-> {OtherRate},
      comparisons |-> {{}}, evidence |-> {{}}, assumptions |-> {{}} ])

OtherAnalyses(analysis) ==
  OtherForms(analysis,
    [controlled_context_match |-> BOOLEAN, attribution_valid |-> BOOLEAN])

OtherVerdicts(verdict) ==
  OtherForms(verdict,
    [status |-> {"FULLY_RECONSTRUCTABLE", "NOT_RECONSTRUCTABLE"}])

OtherHorizons(horizon) ==
  OtherForms(horizon,
    [ status |-> {"NONE", "PARTIAL", "COMPLETE"},
      fully_reconstructable_cohorts |-> {{}, CohortNames},
      non_reconstructable_cohorts |-> {{}, CohortNames} ])

\* An account more or less in the ratio, or a refusal.
OtherResults(result) ==
  IF ~IsExact(result) THEN {}
  ELSE OtherForms(result, [numerator |-> {{}}, denominator |-> {Accounts}])
       \cup { <<"status", [result EXCEPT !.status = "NOT_COMPUTABLE",
                                        !.numerator = {}, !.denominator = {}]>> }

OtherActuals(operand) ==
  CASE operand.name = "invalid_comparison_reference" -> {<<"UNKNOWN">>}
    [] operand.name \in {"effective_cohort",
                         "non_reconstructable_history_reference"} -> {"2026-05"}
    [] operand.name = "horizon_restatement_coverage" -> {"COMPLETE"}
    [] operand.operator = "AT_LEAST" -> {1, 3}
    [] OTHER -> {operand.expected}

OtherOperands(operand) ==
  OtherForms(operand, [ actual |-> OtherActuals(operand), passed |-> BOOLEAN,
                        evidence |-> {{}, {HorizonId}} ])

OtherTraces(trace) ==
  OtherForms(trace,
    [ condition |-> {<<>>}, outcome |-> {"NOT_FIRED"},
      evidence |-> {{}, {HorizonId}, {ContractId}},
      rule_id |-> {RejectionRule, PositiveRules[1]} ])
  \cup UNION { { <<"operand", [trace EXCEPT !.operands[i] = other[2]]>> :
                   other \in OtherOperands(trace.operands[i]) } :
                 i \in DOMAIN trace.operands }

OtherActions(action) ==
  OtherForms(action,
    [ action_type |-> {"REJECT_PENDING_EVIDENCE"},
      scope |-> {{"2026-06"}}, scope_refs |-> {{<<"2026-06">>}},
      evidence |-> {{StitchId}}, assumptions |-> {{}},
      rules |-> {{RejectionRule}, {PositiveRules[2]}} ])

\* A plan with a field of another one, or another first or last action or trace.
OtherPlans(plan, other) ==
  OtherForms(plan,
    [ plan_id |-> {other.plan_id}, recommendation |-> {other.recommendation},
      actions |-> {other.actions}, rule_trace |-> {other.rule_trace} ])
  \cup {<<"plan", other>>}
  \cup (UNION { { <<"action", [plan EXCEPT !.actions[i] = form[2]]>> :
                    form \in OtherActions(plan.actions[i]) } :
                  i \in {1, Len(plan.actions)} })
  \cup (UNION { { <<"trace", [plan EXCEPT !.rule_trace[i] = form[2]]>> :
                    form \in OtherTraces(plan.rule_trace[i]) } :
                  i \in {1, Len(plan.rule_trace)} })

-----------------------------------------------------------------------------
Altering(field, changed) ==
  /\ field \notin altered
  /\ altered' = altered \cup {field}
  /\ evidence' = changed
  /\ UNCHANGED <<input, stage, outcome>>

\* A part that is a record.
AlterRecord(part, forms) ==
  \E form \in forms :
    Altering(<<part, form[1]>>, [evidence EXCEPT ![part] = form[2]])

\* An item of a part that is a sequence or a function.
AlterItem(part, item, forms) ==
  \E form \in forms :
    Altering(<<part, item, form[1]>>, [evidence EXCEPT ![part][item] = form[2]])

AlterComparison ==
  \/ \E i \in 1..2 :
       AlterItem("comparisons", i, OtherComparisons(evidence.comparisons[i]))
  \/ AlterRecord("g3_comparison", OtherComparisons(evidence.g3_comparison))

AlterDecision ==
  \/ \E i \in 1..3 :
       AlterItem("decision_changes", i, OtherChanges(evidence.decision_changes[i]))
  \/ AlterRecord("impact", {<<"ids", Front(evidence.impact)>>})

AlterAnalysis ==
  \/ AlterRecord("golden_analysis", OtherAnalyses(evidence.golden_analysis))
  \/ AlterRecord("g3_analysis", OtherAnalyses(evidence.g3_analysis))

AlterCoverage ==
  \/ \E i \in DOMAIN evidence.reconstructability :
       AlterItem("reconstructability", i,
                 OtherVerdicts(evidence.reconstructability[i]))
  \/ AlterRecord("horizon", OtherHorizons(evidence.horizon))

AlterResult ==
  \E cell \in Cells(input) :
    AlterItem("results", cell, OtherResults(evidence.results[cell]))

AlterControl ==
  \E id \in ControlIds :
    AlterItem("controls", id,
      {<<"status", status>> : status \in {"PASS", "FAIL"} \ {evidence.controls[id]}})

AlterPlan ==
  \/ AlterRecord("plan", OtherPlans(evidence.plan, evidence.g3_plan))
  \/ AlterRecord("g3_plan", OtherPlans(evidence.g3_plan, evidence.plan))

AlterDeclared ==
  \/ AlterRecord("assumptions",
       {<<"one", evidence.assumptions \ {a}>> : a \in evidence.assumptions})
  \/ AlterRecord("policy_rules",
       {<<"one", evidence.policy_rules \ {r}>> : r \in evidence.policy_rules})

Alter ==
  /\ At("references") /\ Cardinality(altered) < MaxAlterations
  /\ \/ AlterComparison \/ AlterDecision \/ AlterAnalysis \/ AlterCoverage
     \/ AlterResult \/ AlterControl \/ AlterPlan \/ AlterDeclared

AlteredNext ==
  \/ Alter
  \/ Next /\ UNCHANGED altered

AlteredSpec == AlteredInit /\ [][AlteredNext]_allVars

-----------------------------------------------------------------------------
(***************************************************************************)
(* What the barrier promises of the evidence it lets through.              *)
(***************************************************************************)
AcceptedByBarrier == stage = "release"

\* The policy allows a restatement of what this evidence says.
RestatementJustified ==
  /\ evidence.horizon.status = "PARTIAL"
  /\ CompleteIn(BridgeCohorts, RestatedVerdicts) = BridgeCohorts
  /\ StatusOf(NonReconstructableCohort, RestatedVerdicts) = "NOT_RECONSTRUCTABLE"
  /\ \A id \in ControlIds : evidence.controls[id] = "PASS"
  /\ evidence.golden_analysis.attribution_valid
  /\ InvalidScopedComparison(evidence.comparisons[1])

\* Whatever was altered, evidence that passes the barrier recommends a restatement
\* exactly when its own horizon, verdicts, controls, attribution and stitch allow
\* one, and never in the plan of control G3 (validate_derived_evidence).
AcceptedPlanStands ==
  AcceptedByBarrier =>
    /\ evidence.plan.recommendation = "PARTIAL_RESTATEMENT" <=> RestatementJustified
    /\ evidence.g3_plan.recommendation = "REJECT_PENDING_EVIDENCE"

\* Whatever was altered, in evidence that passes the barrier every comparison
\* quotes the rates of the results it names and their difference, and the trend
\* and threshold decisions say what those numbers say (_validate_comparisons,
\* _validate_decisions).
AcceptedNumbersAgree ==
  AcceptedByBarrier =>
    /\ \A comparison \in Range(AllComparisons) :
         LET rate(end) == RateOf(GoldenResults[<<end.version, end.cohort, end.channel>>])
         IN  /\ SameValue(comparison.left.exact_value, rate(comparison.left))
             /\ SameValue(comparison.right.exact_value, rate(comparison.right))
             /\ SameValue(comparison.exact_delta,
                          Minus(rate(comparison.right), rate(comparison.left)))
    /\ LET threshold == evidence.decision_changes[1]
           trend     == evidence.decision_changes[3]
       IN  /\ threshold.after_state = <<"PASS">>
                <=> AtLeast(RateOf(GoldenResults[<<"2.0.0", "2026-05", Alpha>>]),
                            Threshold)
           /\ trend.before_state[3] = evidence.comparisons[1].exact_delta
           /\ trend.after_state[3] = evidence.comparisons[2].exact_delta

\* Up to two alterations get no altered plan, decision, impact, control or analysis
\* of the golden arms past the barrier: what slips through is the judgement or
\* citation of a comparison, a cohort list of the horizon, verdicts and results
\* that no decision reads, and the loss of an assumption nobody cites
\* (validate_reference_graph and validate_derived_evidence together).
NoDecisionSlips ==
  AcceptedByBarrier =>
    \A field \in altered :
      field[1] \notin { "plan", "g3_plan", "decision_changes", "impact", "controls",
                       "golden_analysis" }

\* What a comparison compares and how it was judged.
Substance(comparison) ==
  << comparison.kind, comparison.left, comparison.right, comparison.valid,
     comparison.verdict >>

\* The comparisons of published evidence are those that its results and analyses
\* give (README: the barrier independently rebuilds comparisons).
PublishedComparisonsRebuilt ==
  outcome = "published" =>
    \A i \in 1..3 :
      Substance(AllComparisons[i])
        = Substance(Append(
            TrendComparisons(GoldenResults, evidence.golden_analysis, Alpha),
            ConfoundedComparison(GoldenResults, evidence.g3_analysis, Alpha))[i])
=============================================================================
