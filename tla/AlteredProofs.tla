--------------------------- MODULE AlteredProofs ----------------------------
(***************************************************************************)
(* Proofs about the barrier over altered evidence: of whatever it lets     *)
(* through, however many fields were altered, the plan stands and the      *)
(* numbers agree; and where two were at most, no decision slips.           *)
(***************************************************************************)
EXTENDS BarrierProofs, AlteredEvidence

\* From the first check of the barrier on the evidence is complete; before it
\* nothing has been altered.
Serializing == stage \notin UntilPlan

RestatedTrendId == <<"RESTATED_TREND">>
ImpactId        == <<"DEFINITION_IMPACT">>

\* A comparison keeps its identifier, and its ends the names of golden results.
ComparisonShape(comparison, id) ==
  /\ {"assessment_id", "left", "right"} \subseteq DOMAIN comparison
  /\ comparison.assessment_id = id
  /\ \A end \in {comparison.left, comparison.right} :
       "result_id" \in DOMAIN end /\ end.result_id \in GoldenKeys

\* No operand of a plan stands for a stitch that was not refuted: all plans are of
\* evidence whose stitch was.
PlanShape(plan) ==
  /\ {"plan_id", "rule_trace"} \subseteq DOMAIN plan
  /\ \A i \in DOMAIN plan.rule_trace :
       /\ "operands" \in DOMAIN plan.rule_trace[i]
       /\ 7 \notin DOMAIN plan.rule_trace[i].operands

\* The trend decision cites both trends or nothing.
TrendShape(changes) ==
  /\ 3 \in DOMAIN changes /\ "comparisons" \in DOMAIN changes[3]
  /\ changes[3].comparisons \in {{StitchId, RestatedTrendId}, {}}

Parts ==
  { "golden_analysis", "g3_analysis", "results", "reconstructability", "horizon",
    "comparisons", "decision_changes", "impact", "g3_comparison", "g3_plan",
    "controls", "plan", "assumptions", "policy_rules" }

\* What no alteration of any number of fields can undo.
ShapeInv ==
  /\ Parts \subseteq DOMAIN evidence
  /\ evidence.comparisons = <<evidence.comparisons[1], evidence.comparisons[2]>>
  /\ ComparisonShape(evidence.comparisons[1], StitchId)
  /\ ComparisonShape(evidence.comparisons[2], RestatedTrendId)
  /\ ComparisonShape(evidence.g3_comparison, ImpactId)
  /\ TrendShape(evidence.decision_changes)
  /\ evidence.controls = [id \in ControlIds |-> evidence.controls[id]]
  /\ PlanShape(evidence.plan) /\ PlanShape(evidence.g3_plan)
  /\ evidence.plan.plan_id = evidence.g3_plan.plan_id
       \/ evidence.g3_plan.plan_id = "PLAN-G3-REJECT"

\* The checks the barrier has made still hold.
PassedInv ==
  /\ stage \in {"changes", "plans", "release"} => ComparisonsHold
  /\ stage \in {"plans", "release"} => DecisionsHold
  /\ stage = "release" => PlansHold

AlteredInv ==
  /\ ~Serializing => IInv
  /\ Serializing => input \in Inputs /\ stage \in Stages /\ ShapeInv /\ PassedInv

-----------------------------------------------------------------------------
(***************************************************************************)
(* What the stages leave has this shape.                                   *)
(***************************************************************************)
\* Every part is there once the last stage is over.
LEMMA PartsProduced ==
  ASSUME IInv, Serializing
  PROVE  Parts \subseteq DOMAIN evidence
BY DEF Serializing, Parts, Has, IInv, ProducedInv, UntilCalculate, UntilAssess, UntilCompare,
   UntilDecide, UntilRefuse, UntilControl, UntilPlan

\* The comparisons as they were built.
LEMMA BuiltComparisons ==
  ASSUME NEW kind, NEW results, NEW left \in GoldenKeys, NEW right \in GoldenKeys,
         NEW analysis, NEW judgement, NEW comparison,
         comparison = Comparison(kind, Endpoint(left, results), Endpoint(right, results),
                                 analysis, judgement)
  PROVE  ComparisonShape(comparison, <<kind>>)
<1>1. /\ {"assessment_id", "left", "right"} \subseteq DOMAIN comparison
      /\ comparison.assessment_id = <<kind>>
      /\ comparison.left = Endpoint(left, results)
      /\ comparison.right = Endpoint(right, results)
  BY DEF Comparison
<1>2. \A key : "result_id" \in DOMAIN Endpoint(key, results)
                 /\ Endpoint(key, results).result_id = key
  BY DEF Endpoint
<1> QED BY <1>1, <1>2 DEF ComparisonShape

\* A rejection over operands among which the stitch is not.
LEMMA RejectionShape ==
  ASSUME NEW id, NEW operands, NEW refs, 7 \notin DOMAIN operands, NEW plan,
         plan = Rejection(id, operands, refs)
  PROVE  PlanShape(plan) /\ plan.plan_id = id
<1>1. /\ {"plan_id", "rule_trace"} \subseteq DOMAIN plan /\ plan.plan_id = id
      /\ plan.rule_trace = <<RuleTraceEntry(RejectionRule, operands, CitedBy(operands))>>
  BY DEF Rejection
<1>2. DOMAIN plan.rule_trace = {1}
      /\ plan.rule_trace[1] = RuleTraceEntry(RejectionRule, operands, CitedBy(operands))
  BY <1>1
<1>3. "operands" \in DOMAIN plan.rule_trace[1] /\ plan.rule_trace[1].operands = operands
  BY <1>2 DEF RuleTraceEntry
<1> QED BY <1>1, <1>2, <1>3 DEF PlanShape

\* A restatement traces at most three operands with a rule.
LEMMA RestatementShape ==
  ASSUME NEW operands, NEW comparisons, NEW changes, NEW plan,
         plan = PartialRestatement(operands, comparisons, changes)
  PROVE  PlanShape(plan) /\ plan.plan_id = "PLAN-GOLDEN-PARTIAL-RESTATEMENT"
<1>1. /\ {"plan_id", "rule_trace"} \subseteq DOMAIN plan
      /\ plan.plan_id = "PLAN-GOLDEN-PARTIAL-RESTATEMENT"
      /\ DOMAIN plan.rule_trace = 1..4
      /\ \A i \in 1..4 : /\ "operands" \in DOMAIN plan.rule_trace[i]
                         /\ plan.rule_trace[i].operands = OperandsOfRule(operands)[i]
  BY DEF PartialRestatement, RuleTraceEntry
<1>2. \A i \in 1..4 : DOMAIN OperandsOfRule(operands)[i] \subseteq 1..3
  <2>1. \A i : i \in 1..4 <=> i \in {1, 2, 3, 4}
    OBVIOUS
  <2>2. /\ DOMAIN OperandsOfRule(operands)[1] = 1..3
        /\ DOMAIN OperandsOfRule(operands)[2] = 1..3
        /\ DOMAIN OperandsOfRule(operands)[3] = 1..2
        /\ DOMAIN OperandsOfRule(operands)[4] = 1..3
    BY DEF OperandsOfRule
  <2> QED BY <2>1, <2>2
<1>3. 7 \notin 1..3
  OBVIOUS
<1> QED BY <1>1, <1>2, <1>3 DEF PlanShape

\* The gate over the trends of the stages finds the stitch refuted.
LEMMA GateRefutesStitch ==
  ASSUME IInv, Serializing
  PROVE  7 \notin FailedAt(GateOperands(evidence.horizon, RestatedVerdicts,
                                        evidence.comparisons, evidence.controls))
<1> DEFINE operands == GateOperands(evidence.horizon, RestatedVerdicts,
                                    evidence.comparisons, evidence.controls)
<1>1. StitchRefuted(evidence.comparisons)
  <2>1. /\ evidence.comparisons[1] = StitchOf /\ 1 \in DOMAIN evidence.comparisons
    BY ComparisonsAre DEF Serializing
  <2>2. /\ StitchOf.assessment_id = StitchId /\ StitchOf.kind = "TREND_STITCH"
        /\ StitchOf.valid = FALSE
        /\ StitchOf.left.cohort = "2026-05" /\ StitchOf.right.cohort = "2026-06"
        /\ StitchOf.left.channel = Alpha /\ StitchOf.right.channel = Alpha
        /\ StitchOf.left.version = "1.0.0" /\ StitchOf.right.version = "2.0.0"
    BY DEF StitchOf, StitchFrom, Comparison, Judgement, Endpoint, StitchId
  <2> QED BY <2>1, <2>2 DEF StitchRefuted, InvalidScopedComparison
<1>2. operands[7].passed <=> StitchRefuted(evidence.comparisons)
  BY GateSays
<1> QED BY <1>1, <1>2 DEF FailedAt

\* So the stages leave the shape that alterations keep.
LEMMA StagesShape ==
  ASSUME IInv, Serializing
  PROVE  ShapeInv
<1>1. Parts \subseteq DOMAIN evidence
  BY PartsProduced
<1>2. /\ evidence.comparisons = <<evidence.comparisons[1], evidence.comparisons[2]>>
      /\ ComparisonShape(evidence.comparisons[1], StitchId)
      /\ ComparisonShape(evidence.comparisons[2], RestatedTrendId)
      /\ ComparisonShape(evidence.g3_comparison, ImpactId)
  <2>1. /\ <<"1.0.0", "2026-05", Alpha>> \in GoldenKeys
        /\ <<"2.0.0", "2026-05", Alpha>> \in GoldenKeys
        /\ <<"2.0.0", "2026-06", Alpha>> \in GoldenKeys
    BY EndpointKeys DEF ComparisonEndpoints
  <2>2. ComparisonShape(StitchOf, <<"TREND_STITCH">>)
    BY <2>1, BuiltComparisons DEF StitchOf, StitchFrom
  <2>3. ComparisonShape(RestatedOf, <<"RESTATED_TREND">>)
    BY <2>1, BuiltComparisons DEF RestatedOf, RestatedFrom
  <2>4. ComparisonShape(ConfoundedOf, <<"DEFINITION_IMPACT">>)
    BY <2>1, BuiltComparisons DEF ConfoundedOf, ConfoundedComparison
  <2> QED BY <2>2, <2>3, <2>4, ComparisonsAre
       DEF Serializing, StitchId, RestatedTrendId, ImpactId
<1>3. TrendShape(evidence.decision_changes)
  <2> DEFINE changes == evidence.decision_changes
  <2>1. changes = ChangesOf
    BY Complete DEF Serializing
  <2>2. /\ DOMAIN changes = 1..3 /\ "comparisons" \in DOMAIN changes[3]
        /\ changes[3].comparisons = {evidence.comparisons[1].assessment_id,
                                     evidence.comparisons[2].assessment_id}
    BY <2>1 DEF ChangesOf, DecisionChanges, DecisionChange
  <2>3. 3 \in 1..3
    OBVIOUS
  <2> HIDE DEF changes
  <2>4. TrendShape(changes)
    BY <1>2, <2>2, <2>3 DEF TrendShape, ComparisonShape
  <2> QED BY <2>4 DEF changes
<1>4. evidence.controls = [id \in ControlIds |-> evidence.controls[id]]
  <2>1. evidence.controls = ControlsOf
    BY Complete DEF Serializing
  <2>2. ControlsOf = [id \in ControlIds |-> ControlsOf[id]]
    BY DEF ControlsOf, ControlIds
  <2> QED BY <2>1, <2>2
<1>5. PlanShape(evidence.g3_plan) /\ evidence.g3_plan.plan_id = "PLAN-G3-REJECT"
  <2>1. \A x : 7 \notin DOMAIN <<x>>
    OBVIOUS
  <2> QED BY <2>1, RefusalIs, RejectionShape DEF Serializing
<1>6. PlanShape(evidence.plan)
  <2> DEFINE operands == GateOperands(evidence.horizon, RestatedVerdicts,
                                      evidence.comparisons, evidence.controls)
  <2>1. evidence.plan = PlanOf
    BY Complete DEF Serializing
  <2>2. CASE ~evidence.golden_analysis.attribution_valid
    <3>1. \A x : 7 \notin DOMAIN <<x>>
      OBVIOUS
    <3> QED BY <2>2, <3>1, UnattributedPlanIs, RejectionShape DEF Serializing
  <2>3. CASE evidence.golden_analysis.attribution_valid /\ FailedAt(operands) # {}
    <3>1. evidence.plan = Rejection("PLAN-EVIDENCE-GATE-REJECT", Failed(operands),
                                    NamesOf(Failed(operands)))
      BY <2>1, <2>3 DEF PlanOf, MigrationPlan
    <3>2. DOMAIN Failed(operands) = FailedAt(operands)
      BY DEF Failed
    <3> HIDE DEF operands
    <3>3. 7 \notin FailedAt(operands)
      BY GateRefutesStitch DEF operands
    <3> QED BY <3>1, <3>2, <3>3, RejectionShape
  <2>4. CASE evidence.golden_analysis.attribution_valid /\ FailedAt(operands) = {}
    <3>1. evidence.plan = PartialRestatement(operands, evidence.comparisons,
                                             evidence.decision_changes)
      BY <2>1, <2>4 DEF PlanOf, MigrationPlan
    <3> QED BY <3>1, RestatementShape
  <2> QED BY <2>2, <2>3, <2>4
<1> QED BY <1>1, <1>2, <1>3, <1>4, <1>5, <1>6 DEF ShapeInv

-----------------------------------------------------------------------------
(***************************************************************************)
(* What one alteration does to the shape.                                  *)
(***************************************************************************)
\* A form of a record is the record with one field of another value.
LEMMA FormsAre ==
  ASSUME NEW record, NEW values, NEW form \in OtherForms(record, values)
  PROVE  /\ DOMAIN form[2] = DOMAIN record
         /\ \A name \in DOMAIN record \ DOMAIN values : form[2][name] = record[name]
         /\ \A name \in DOMAIN record \cap DOMAIN values :
              form[2][name] = record[name] \/ form[2][name] \in values[name]
<1>1. PICK field \in DOMAIN values : \E value \in values[field] \ {record[field]} :
        form = <<field, [record EXCEPT ![field] = value]>>
  BY DEF OtherForms
<1>2. PICK value \in values[field] :
        form = <<field, [record EXCEPT ![field] = value]>>
  BY <1>1
<1>3. form[2] = [record EXCEPT ![field] = value]
  BY <1>2
<1> QED BY <1>1, <1>2, <1>3

\* The part that an alteration changes, with the form it takes.
LEMMA RecordAltered ==
  ASSUME NEW STATE part, NEW STATE forms, AlterRecord(part, forms)
  PROVE  /\ \E form \in forms : evidence' = [evidence EXCEPT ![part] = form[2]]
         /\ UNCHANGED <<input, stage, outcome>>
BY DEF AlterRecord, Altering

\* Altering an item of a part changes that part only.
LEMMA ItemAltered ==
  ASSUME NEW STATE part, NEW STATE item, NEW STATE forms, AlterItem(part, item, forms)
  PROVE  /\ \E form \in forms :
              evidence' = [evidence EXCEPT ![part] = [evidence[part] EXCEPT ![item] = form[2]]]
         /\ UNCHANGED <<input, stage, outcome>>
BY DEF AlterItem, Altering

ComparisonsShape(comparisons) ==
  /\ comparisons = <<comparisons[1], comparisons[2]>>
  /\ ComparisonShape(comparisons[1], StitchId)
  /\ ComparisonShape(comparisons[2], RestatedTrendId)

\* The shape is kept when the part that changes keeps its own.
LEMMA PartChanged ==
  ASSUME ShapeInv, NEW part, NEW value, evidence' = [evidence EXCEPT ![part] = value],
         part = "comparisons" => ComparisonsShape(value),
         part = "g3_comparison" => ComparisonShape(value, ImpactId),
         part = "decision_changes" => TrendShape(value),
         part = "controls" => value = [id \in ControlIds |-> value[id]],
         part \in {"plan", "g3_plan"} =>
           /\ PlanShape(value)
           /\ value.plan_id \in {evidence.plan.plan_id, evidence.g3_plan.plan_id,
                                 evidence[part].plan_id}
  PROVE  ShapeInv'
<1>1. /\ DOMAIN evidence' = DOMAIN evidence
      /\ \A name \in DOMAIN evidence :
           evidence'[name] = IF name = part THEN value ELSE evidence[name]
  OBVIOUS
<1>2. \A name \in Parts : evidence'[name] = IF name = part THEN value ELSE evidence[name]
  BY <1>1 DEF ShapeInv
<1>3. Parts \subseteq DOMAIN evidence'
  BY <1>1 DEF ShapeInv
<1>4. ComparisonsShape(evidence'.comparisons)
  BY <1>2 DEF ShapeInv, ComparisonsShape, Parts
<1>5. ComparisonShape(evidence'.g3_comparison, ImpactId)
  BY <1>2 DEF ShapeInv, Parts
<1>6. TrendShape(evidence'.decision_changes)
  BY <1>2 DEF ShapeInv, Parts
<1>7. evidence'.controls = [id \in ControlIds |-> evidence'.controls[id]]
  <2>1. evidence'.controls = IF "controls" = part THEN value ELSE evidence.controls
    BY <1>2 DEF Parts
  <2> QED BY <2>1 DEF ShapeInv
<1>8. PlanShape(evidence'.plan) /\ PlanShape(evidence'.g3_plan)
  BY <1>2 DEF ShapeInv, Parts
<1>9. evidence'.plan.plan_id = evidence'.g3_plan.plan_id
        \/ evidence'.g3_plan.plan_id = "PLAN-G3-REJECT"
  <2>1. evidence.plan.plan_id = evidence.g3_plan.plan_id
          \/ evidence.g3_plan.plan_id = "PLAN-G3-REJECT"
    BY DEF ShapeInv
  <2>2. /\ evidence'.plan = IF part = "plan" THEN value ELSE evidence.plan
        /\ evidence'.g3_plan = IF part = "g3_plan" THEN value ELSE evidence.g3_plan
    BY <1>2 DEF Parts
  <2>3. CASE part = "plan"
    BY <2>1, <2>2, <2>3
  <2>4. CASE part = "g3_plan"
    BY <2>1, <2>2, <2>4
  <2>5. CASE part \notin {"plan", "g3_plan"}
    BY <2>1, <2>2, <2>5
  <2> QED BY <2>3, <2>4, <2>5
<1> QED
  BY <1>3, <1>4, <1>5, <1>6, <1>7, <1>8, <1>9
  DEF ShapeInv, ComparisonsShape, ComparisonShape, TrendShape, PlanShape, GoldenKeys

\* A comparison keeps its identifier, and its ends name golden results.
LEMMA OtherComparisonsShape ==
  ASSUME NEW comparison, NEW id, ComparisonShape(comparison, id),
         NEW form \in OtherComparisons(comparison)
  PROVE  ComparisonShape(form[2], id)
<1>1. CASE form \in Redirected(comparison)
  <2> DEFINE to(key) == [comparison EXCEPT !.left = Endpoint(key, GoldenResults)]
             delta(key) == Minus(comparison.right.exact_value, to(key).left.exact_value)
  <2>1. PICK key \in GoldenKeys :
          form \in {<<"left", to(key)>>,
                    <<"left and delta", [to(key) EXCEPT !.exact_delta = delta(key)]>>}
    BY <1>1 DEF Redirected
  <2> HIDE DEF to, delta
  <2>2. form[2] = to(key) \/ form[2] = [to(key) EXCEPT !.exact_delta = delta(key)]
    <3>1. CASE form = <<"left", to(key)>>
      BY <3>1
    <3>2. CASE form = <<"left and delta", [to(key) EXCEPT !.exact_delta = delta(key)]>>
      BY <3>2
    <3> QED BY <2>1, <3>1, <3>2, Zenon
  <2>3. /\ DOMAIN to(key) = DOMAIN comparison
        /\ to(key).assessment_id = comparison.assessment_id
        /\ to(key).left = Endpoint(key, GoldenResults)
        /\ to(key).right = comparison.right
    BY DEF to, ComparisonShape
  <2>4. /\ DOMAIN form[2] = DOMAIN comparison
        /\ form[2].assessment_id = comparison.assessment_id
        /\ form[2].left = Endpoint(key, GoldenResults)
        /\ form[2].right = comparison.right
    BY <2>2, <2>3 DEF ComparisonShape
  <2>5. "result_id" \in DOMAIN Endpoint(key, GoldenResults)
          /\ Endpoint(key, GoldenResults).result_id = key
    BY DEF Endpoint
  <2> QED BY <2>1, <2>4, <2>5 DEF ComparisonShape
<1>2. CASE form \notin Redirected(comparison)
  <2> DEFINE lefts == { [comparison.left EXCEPT !.exact_value = OtherRate],
                        [comparison.left EXCEPT !.channel = Beta] }
             rights == { [comparison.right EXCEPT !.exact_value = OtherRate],
                         [comparison.right EXCEPT !.cohort = "2026-04"] }
  <2>1. PICK values :
          /\ form \in OtherForms(comparison, values)
          /\ "assessment_id" \notin DOMAIN values
          /\ values.left = lefts /\ values.right = rights
          /\ {"left", "right"} \subseteq DOMAIN values
    BY <1>2, SMTT(60) DEF OtherComparisons
  <2>2. /\ DOMAIN form[2] = DOMAIN comparison
        /\ form[2].assessment_id = comparison.assessment_id
        /\ form[2].left = comparison.left \/ form[2].left \in lefts
        /\ form[2].right = comparison.right \/ form[2].right \in rights
    BY <2>1, FormsAre DEF ComparisonShape
  <2>3. \A end \in lefts : "result_id" \in DOMAIN end /\ end.result_id \in GoldenKeys
    BY DEF ComparisonShape
  <2>4. \A end \in rights : "result_id" \in DOMAIN end /\ end.result_id \in GoldenKeys
    BY DEF ComparisonShape
  <2> QED BY <2>2, <2>3, <2>4 DEF ComparisonShape
<1> QED BY <1>1, <1>2

\* The trend decision keeps its citations or loses them.
LEMMA OtherChangesShape ==
  ASSUME NEW changes, TrendShape(changes), NEW i, NEW form \in OtherChanges(changes[i])
  PROVE  TrendShape([changes EXCEPT ![i] = form[2]])
<1>1. CASE i = 3
  <2>1. PICK values : /\ form \in OtherForms(changes[3], values)
                      /\ "comparisons" \in DOMAIN values /\ values.comparisons = {{}}
    BY <1>1, SMTT(60) DEF OtherChanges
  <2>2. /\ DOMAIN form[2] = DOMAIN changes[3]
        /\ form[2].comparisons = changes[3].comparisons \/ form[2].comparisons \in {{}}
    BY <2>1, FormsAre DEF TrendShape
  <2>3. [changes EXCEPT ![i] = form[2]][3] = form[2]
    BY <1>1 DEF TrendShape
  <2> QED BY <2>2, <2>3 DEF TrendShape
<1>2. CASE i # 3
  <2>1. [changes EXCEPT ![i] = form[2]][3] = changes[3]
    BY <1>2 DEF TrendShape
  <2> QED BY <2>1 DEF TrendShape
<1> QED BY <1>1, <1>2

TraceShape(trace) == "operands" \in DOMAIN trace /\ 7 \notin DOMAIN trace.operands

\* A trace keeps the places of its operands.
LEMMA OtherTracesShape ==
  ASSUME NEW trace, TraceShape(trace), NEW form \in OtherTraces(trace)
  PROVE  TraceShape(form[2])
<1>1. CASE \E i \in DOMAIN trace.operands : \E other \in OtherOperands(trace.operands[i]) :
             form = <<"operand", [trace EXCEPT !.operands[i] = other[2]]>>
  <2>1. PICK i \in DOMAIN trace.operands : \E other \in OtherOperands(trace.operands[i]) :
          form = <<"operand", [trace EXCEPT !.operands[i] = other[2]]>>
    BY <1>1
  <2>2. PICK other \in OtherOperands(trace.operands[i]) :
          form = <<"operand", [trace EXCEPT !.operands[i] = other[2]]>>
    BY <2>1
  <2>3. form[2] = [trace EXCEPT !.operands = [trace.operands EXCEPT ![i] = other[2]]]
    BY <2>2
  <2>4. DOMAIN form[2] = DOMAIN trace
          /\ form[2].operands = [trace.operands EXCEPT ![i] = other[2]]
    BY <2>3 DEF TraceShape
  <2> QED BY <2>4 DEF TraceShape
<1>2. CASE ~ \E i \in DOMAIN trace.operands : \E other \in OtherOperands(trace.operands[i]) :
               form = <<"operand", [trace EXCEPT !.operands[i] = other[2]]>>
  <2>1. PICK values : form \in OtherForms(trace, values) /\ "operands" \notin DOMAIN values
    BY <1>2, SMTT(60) DEF OtherTraces
  <2>2. DOMAIN form[2] = DOMAIN trace /\ form[2].operands = trace.operands
    BY <2>1, FormsAre DEF TraceShape
  <2> QED BY <2>2 DEF TraceShape
<1> QED BY <1>1, <1>2

\* So a plan keeps its shape, whatever it takes from the other one.
LEMMA OtherPlansShape ==
  ASSUME NEW plan, NEW other, PlanShape(plan), PlanShape(other),
         NEW changed \in OtherPlans(plan, other)
  PROVE  /\ PlanShape(changed[2])
         /\ changed[2].plan_id \in {plan.plan_id, other.plan_id}
<1> DEFINE Acted == \E i, action : changed = <<"action", [plan EXCEPT !.actions[i] = action]>>
           Traced == \E i : \E traced \in OtherTraces(plan.rule_trace[i]) :
                       changed = <<"trace", [plan EXCEPT !.rule_trace[i] = traced[2]]>>
<1>1. CASE changed = <<"plan", other>>
  BY <1>1
<1>2. CASE Acted
  <2>1. PICK i, action : changed = <<"action", [plan EXCEPT !.actions[i] = action]>>
    BY <1>2
  <2>2. changed[2] = [plan EXCEPT !.actions[i] = action]
    BY <2>1
  <2>3. /\ DOMAIN changed[2] = DOMAIN plan
        /\ changed[2].plan_id = plan.plan_id /\ changed[2].rule_trace = plan.rule_trace
    BY <2>2 DEF PlanShape
  <2> QED BY <2>3 DEF PlanShape
<1>3. CASE Traced
  <2>1. PICK i : \E traced \in OtherTraces(plan.rule_trace[i]) :
          changed = <<"trace", [plan EXCEPT !.rule_trace[i] = traced[2]]>>
    BY <1>3
  <2>2. PICK traced \in OtherTraces(plan.rule_trace[i]) :
          changed = <<"trace", [plan EXCEPT !.rule_trace[i] = traced[2]]>>
    BY <2>1
  <2>3. changed[2] = [plan EXCEPT !.rule_trace = [plan.rule_trace EXCEPT ![i] = traced[2]]]
    BY <2>2
  <2>4. /\ DOMAIN changed[2] = DOMAIN plan
        /\ changed[2].plan_id = plan.plan_id
        /\ changed[2].rule_trace = [plan.rule_trace EXCEPT ![i] = traced[2]]
    BY <2>3 DEF PlanShape
  <2>5. /\ DOMAIN changed[2].rule_trace = DOMAIN plan.rule_trace
        /\ \A j \in DOMAIN plan.rule_trace :
             changed[2].rule_trace[j] = IF j = i THEN traced[2] ELSE plan.rule_trace[j]
    BY <2>4
  <2>6. i \in DOMAIN plan.rule_trace => TraceShape(traced[2])
    BY OtherTracesShape DEF PlanShape, TraceShape
  <2>7. \A j \in DOMAIN changed[2].rule_trace : TraceShape(changed[2].rule_trace[j])
    BY <2>5, <2>6 DEF PlanShape, TraceShape
  <2> QED BY <2>4, <2>7 DEF PlanShape, TraceShape
<1>4. CASE changed # <<"plan", other>> /\ ~Acted /\ ~Traced
  <2> DEFINE values == [ plan_id |-> {other.plan_id},
                         recommendation |-> {other.recommendation},
                         actions |-> {other.actions}, rule_trace |-> {other.rule_trace} ]
             acting == UNION { { <<"action", [plan EXCEPT !.actions[i] = form[2]]>> :
                                   form \in OtherActions(plan.actions[i]) } :
                                 i \in {1, Len(plan.actions)} }
             tracing == UNION { { <<"trace", [plan EXCEPT !.rule_trace[i] = form[2]]>> :
                                    form \in OtherTraces(plan.rule_trace[i]) } :
                                  i \in {1, Len(plan.rule_trace)} }
  <2>1. OtherPlans(plan, other)
          = OtherForms(plan, values) \cup {<<"plan", other>>} \cup acting \cup tracing
    BY Zenon DEF OtherPlans
  <2>2. changed \notin acting
    BY <1>4, Zenon
  <2>3. changed \notin tracing
    BY <1>4, Zenon
  <2>4. changed \in OtherForms(plan, values)
    <3> HIDE DEF acting, tracing, values, Acted, Traced
    <3> QED BY <1>4, <2>1, <2>2, <2>3
  <2>5. /\ DOMAIN changed[2] = DOMAIN plan
        /\ changed[2].plan_id = plan.plan_id \/ changed[2].plan_id \in {other.plan_id}
        /\ changed[2].rule_trace = plan.rule_trace
             \/ changed[2].rule_trace \in {other.rule_trace}
    BY <2>4, FormsAre DEF PlanShape
  <2> QED BY <2>5 DEF PlanShape
<1> QED BY <1>1, <1>2, <1>3, <1>4

\* Any other part may become anything.
FreeParts == Parts \ {"comparisons", "g3_comparison", "decision_changes", "controls",
                      "plan", "g3_plan"}

\* A part whose shape nothing depends on may become anything.
LEMMA FreePartChanged ==
  ASSUME ShapeInv, NEW part \in FreeParts, NEW value,
         evidence' = [evidence EXCEPT ![part] = value]
  PROVE  ShapeInv'
<1>1. part \notin {"comparisons", "g3_comparison", "decision_changes", "controls",
                   "plan", "g3_plan"}
  BY DEF FreeParts
<1> QED BY <1>1, PartChanged

\* A pair with another first or second item is a pair.
LEMMA OtherPair ==
  ASSUME NEW pair, NEW a, NEW b, NEW c, pair = <<a, b>>
  PROVE  [pair EXCEPT ![1] = c] = <<c, b>> /\ [pair EXCEPT ![2] = c] = <<a, c>>
OBVIOUS

\* No alteration of any field undoes the shape.
LEMMA AlterKeepsShape ==
  ASSUME ShapeInv, Alter
  PROVE  ShapeInv' /\ UNCHANGED <<input, stage, outcome>>
<1>1. CASE AlterComparison
  <2>1. CASE \E i \in 1..2 :
               AlterItem("comparisons", i, OtherComparisons(evidence.comparisons[i]))
    <3>1. PICK i \in 1..2 :
            AlterItem("comparisons", i, OtherComparisons(evidence.comparisons[i]))
      BY <2>1
    <3>2. /\ \E form \in OtherComparisons(evidence.comparisons[i]) :
               evidence' = [evidence EXCEPT !["comparisons"]
                              = [evidence["comparisons"] EXCEPT ![i] = form[2]]]
          /\ UNCHANGED <<input, stage, outcome>>
      BY <3>1, ItemAltered
    <3>3. PICK form \in OtherComparisons(evidence.comparisons[i]) :
            evidence' = [evidence EXCEPT !["comparisons"]
                           = [evidence["comparisons"] EXCEPT ![i] = form[2]]]
      BY <3>2
    <3> DEFINE value == [evidence["comparisons"] EXCEPT ![i] = form[2]]
    <3>4. ComparisonsShape(evidence.comparisons) /\ i \in {1, 2}
      BY DEF ShapeInv, ComparisonsShape
    <3>5. ComparisonShape(form[2], IF i = 1 THEN StitchId ELSE RestatedTrendId)
      BY <3>4, OtherComparisonsShape DEF ComparisonsShape
    <3>6. ComparisonsShape(value)
      <4>1. evidence["comparisons"] = <<evidence.comparisons[1], evidence.comparisons[2]>>
        BY <3>4 DEF ComparisonsShape
      <4>2. CASE i = 1
        <5>1. value = <<form[2], evidence.comparisons[2]>>
          BY <4>1, <4>2, OtherPair
        <5> QED BY <3>4, <3>5, <4>2, <5>1 DEF ComparisonsShape
      <4>3. CASE i = 2
        <5>1. value = <<evidence.comparisons[1], form[2]>>
          BY <4>1, <4>3, OtherPair
        <5> QED BY <3>4, <3>5, <4>3, <5>1 DEF ComparisonsShape
      <4> QED BY <3>4, <4>2, <4>3
    <3> HIDE DEF value
    <3>7. evidence' = [evidence EXCEPT !["comparisons"] = value]
      BY <3>3 DEF value
    <3> QED BY <3>2, <3>6, <3>7, PartChanged
  <2>2. CASE AlterRecord("g3_comparison", OtherComparisons(evidence.g3_comparison))
    <3>1. PICK form \in OtherComparisons(evidence.g3_comparison) :
            evidence' = [evidence EXCEPT !["g3_comparison"] = form[2]]
      BY <2>2, RecordAltered
    <3>2. ComparisonShape(form[2], ImpactId)
      BY OtherComparisonsShape DEF ShapeInv
    <3> QED BY <2>2, <3>1, <3>2, PartChanged, RecordAltered
  <2> QED BY <1>1, <2>1, <2>2 DEF AlterComparison
<1>2. CASE AlterDecision
  <2>1. CASE \E i \in 1..3 :
               AlterItem("decision_changes", i, OtherChanges(evidence.decision_changes[i]))
    <3>1. PICK i \in 1..3 :
            AlterItem("decision_changes", i, OtherChanges(evidence.decision_changes[i]))
      BY <2>1
    <3>2. /\ \E form \in OtherChanges(evidence.decision_changes[i]) :
               evidence' = [evidence EXCEPT !["decision_changes"]
                              = [evidence["decision_changes"] EXCEPT ![i] = form[2]]]
          /\ UNCHANGED <<input, stage, outcome>>
      BY <3>1, ItemAltered
    <3>3. PICK form \in OtherChanges(evidence.decision_changes[i]) :
            evidence' = [evidence EXCEPT !["decision_changes"]
                           = [evidence["decision_changes"] EXCEPT ![i] = form[2]]]
      BY <3>2
    <3>4. TrendShape([evidence["decision_changes"] EXCEPT ![i] = form[2]])
      BY OtherChangesShape DEF ShapeInv
    <3> QED BY <3>2, <3>3, <3>4, PartChanged
  <2>2. CASE AlterRecord("impact", {<<"ids", Front(evidence.impact)>>})
    <3>1. "impact" \in FreeParts
      BY DEF FreeParts, Parts
    <3> QED BY <2>2, <3>1, FreePartChanged, RecordAltered
  <2> QED BY <1>2, <2>1, <2>2 DEF AlterDecision
<1>3. CASE AlterAnalysis
  <2>1. PICK part \in {"golden_analysis", "g3_analysis"} : \E forms : AlterRecord(part, forms)
    BY <1>3 DEF AlterAnalysis
  <2>2. part \in FreeParts
    BY DEF FreeParts, Parts
  <2>3. /\ \E value : evidence' = [evidence EXCEPT ![part] = value]
        /\ UNCHANGED <<input, stage, outcome>>
    BY <2>1 DEF AlterRecord, Altering
  <2> QED BY <2>2, <2>3, FreePartChanged
<1>4. CASE AlterCoverage
  <2>1. "reconstructability" \in FreeParts /\ "horizon" \in FreeParts
    BY DEF FreeParts, Parts
  <2>2. CASE AlterRecord("horizon", OtherHorizons(evidence.horizon))
    BY <2>1, <2>2, FreePartChanged, RecordAltered
  <2>3. CASE \E i \in DOMAIN evidence.reconstructability :
               AlterItem("reconstructability", i,
                         OtherVerdicts(evidence.reconstructability[i]))
    BY <2>1, <2>3, FreePartChanged, ItemAltered
  <2> QED BY <1>4, <2>2, <2>3 DEF AlterCoverage
<1>5. CASE AlterResult
  <2>1. "results" \in FreeParts
    BY DEF FreeParts, Parts
  <2> QED BY <1>5, <2>1, FreePartChanged, ItemAltered DEF AlterResult
<1>6. CASE AlterControl
  <2>1. PICK id \in ControlIds :
          AlterItem("controls", id,
            {<<"status", status>> : status \in {"PASS", "FAIL"} \ {evidence.controls[id]}})
    BY <1>6 DEF AlterControl
  <2>2. /\ \E form : evidence' = [evidence EXCEPT !["controls"]
                                    = [evidence["controls"] EXCEPT ![id] = form[2]]]
        /\ UNCHANGED <<input, stage, outcome>>
    BY <2>1, ItemAltered
  <2>3. PICK form : evidence' = [evidence EXCEPT !["controls"]
                                   = [evidence["controls"] EXCEPT ![id] = form[2]]]
    BY <2>2
  <2> DEFINE value == [evidence["controls"] EXCEPT ![id] = form[2]]
  <2>4. value = [name \in ControlIds |-> value[name]]
    BY DEF ShapeInv
  <2> HIDE DEF value
  <2>5. evidence' = [evidence EXCEPT !["controls"] = value]
    BY <2>3 DEF value
  <2> QED BY <2>2, <2>4, <2>5, PartChanged
<1>7. CASE AlterPlan
  <2>1. PlanShape(evidence.plan) /\ PlanShape(evidence.g3_plan)
    BY DEF ShapeInv
  <2>2. CASE AlterRecord("plan", OtherPlans(evidence.plan, evidence.g3_plan))
    <3>1. PICK form \in OtherPlans(evidence.plan, evidence.g3_plan) :
            evidence' = [evidence EXCEPT !["plan"] = form[2]]
      BY <2>2, RecordAltered
    <3>2. /\ PlanShape(form[2])
          /\ form[2].plan_id \in {evidence.plan.plan_id, evidence.g3_plan.plan_id}
      BY <2>1, OtherPlansShape
    <3> QED BY <2>2, <3>1, <3>2, PartChanged, RecordAltered
  <2>3. CASE AlterRecord("g3_plan", OtherPlans(evidence.g3_plan, evidence.plan))
    <3>1. PICK form \in OtherPlans(evidence.g3_plan, evidence.plan) :
            evidence' = [evidence EXCEPT !["g3_plan"] = form[2]]
      BY <2>3, RecordAltered
    <3>2. /\ PlanShape(form[2])
          /\ form[2].plan_id \in {evidence.plan.plan_id, evidence.g3_plan.plan_id}
      BY <2>1, OtherPlansShape
    <3> QED BY <2>3, <3>1, <3>2, PartChanged, RecordAltered
  <2> QED BY <1>7, <2>2, <2>3 DEF AlterPlan
<1>8. CASE AlterDeclared
  <2>1. PICK part \in {"assumptions", "policy_rules"} : \E forms : AlterRecord(part, forms)
    BY <1>8 DEF AlterDeclared
  <2>2. part \in FreeParts
    BY DEF FreeParts, Parts
  <2>3. /\ \E value : evidence' = [evidence EXCEPT ![part] = value]
        /\ UNCHANGED <<input, stage, outcome>>
    BY <2>1 DEF AlterRecord, Altering
  <2> QED BY <2>2, <2>3, FreePartChanged
<1> QED BY <1>1, <1>2, <1>3, <1>4, <1>5, <1>6, <1>7, <1>8 DEF Alter

-----------------------------------------------------------------------------
(***************************************************************************)
(* The invariant.                                                          *)
(***************************************************************************)
\* Once serializing, no step of the execution touches the evidence.
LEMMA SerializingSteps ==
  ASSUME Serializing, stage \in Stages, Next
  PROVE  /\ UNCHANGED <<input, evidence>>
         /\ \/ stage' = stage
            \/ stage = "references" /\ stage' = "comparisons"
            \/ stage = "comparisons" /\ stage' = "changes" /\ ComparisonsHold
            \/ stage = "changes" /\ stage' = "plans" /\ DecisionsHold
            \/ stage = "plans" /\ stage' = "release" /\ PlansHold
<1>1. stage \notin {"analyse", "calculate", "assess", "compare", "decide", "refuse",
                    "control", "plan"}
  BY DEF Serializing, UntilPlan, UntilControl, UntilRefuse, UntilDecide, UntilCompare,
         UntilAssess, UntilCalculate
<1>2. ~Analyse /\ ~Calculate /\ ~CalculationRaises /\ ~Assess /\ ~Compare /\ ~Decide
        /\ ~RequiredResultAbsent /\ ~Refuse /\ ~Control /\ ~Plan
  BY <1>1 DEF Analyse, Calculate, CalculationRaises, Assess, Compare, Decide,
              RequiredResultAbsent, Refuse, Control, Plan, At
<1>3. CASE ResolveReferences
  BY <1>3 DEF ResolveReferences, At, Advance
<1>4. CASE CheckComparisons
  BY <1>4 DEF CheckComparisons, At, Advance
<1>5. CASE CheckDecisions
  BY <1>5 DEF CheckDecisions, At, Advance
<1>6. CASE CheckPlans
  BY <1>6 DEF CheckPlans, At, Advance
<1>7. CASE BarrierRaises \/ Release \/ ReleaseRaises \/ Terminated
  BY <1>7 DEF BarrierRaises, Release, ReleaseRaises, Terminated, Raise, vars
<1> QED BY <1>2, <1>3, <1>4, <1>5, <1>6, <1>7 DEF Next

\* The shape and the checks are of the input, the evidence and the stage.
LEMMA ShapeKept ==
  ASSUME UNCHANGED <<input, evidence>>
  PROVE  ShapeInv' <=> ShapeInv
BY DEF ShapeInv, ComparisonShape, TrendShape, PlanShape, GoldenKeys

\* From the first check on, every step keeps the shape and the checks passed.
LEMMA SerializingKeeps ==
  ASSUME Serializing, input \in Inputs, stage \in Stages, ShapeInv, PassedInv,
         Next \/ UNCHANGED vars
  PROVE  AlteredInv'
<1>1. /\ UNCHANGED <<input, evidence>>
      /\ \/ stage' = stage
         \/ stage = "references" /\ stage' = "comparisons"
         \/ stage = "comparisons" /\ stage' = "changes" /\ ComparisonsHold
         \/ stage = "changes" /\ stage' = "plans" /\ DecisionsHold
         \/ stage = "plans" /\ stage' = "release" /\ PlansHold
  BY SerializingSteps DEF vars
<1>2. Serializing' /\ stage' \in Stages
  BY <1>1 DEF Serializing, Stages, BarrierStages, UntilPlan, UntilControl, UntilRefuse,
              UntilDecide, UntilCompare, UntilAssess, UntilCalculate
<1>3. ShapeInv'
  BY <1>1, ShapeKept
<1>4. PassedInv'
  <2>1. /\ ComparisonsHold' <=> ComparisonsHold
        /\ DecisionsHold' <=> DecisionsHold
        /\ PlansHold' <=> PlansHold
    BY <1>1, BarrierKept
  <2> QED BY <1>1, <2>1 DEF PassedInv
<1> QED BY <1>1, <1>2, <1>3, <1>4 DEF AlteredInv, Stages

\* What the stages leave satisfies it.
LEMMA StagesSatisfy == IInv => AlteredInv
<1> SUFFICES ASSUME IInv, Serializing
             PROVE  input \in Inputs /\ stage \in Stages /\ ShapeInv /\ PassedInv
  BY DEF AlteredInv
<1> QED BY StagesShape DEF IInv, StageInv, BarrierInv, PassedInv

\* So every step keeps the invariant.
LEMMA AlteredStep == AlteredInv /\ [AlteredNext]_allVars => AlteredInv'
<1> SUFFICES ASSUME AlteredInv, [AlteredNext]_allVars PROVE AlteredInv'
  OBVIOUS
<1>1. CASE Alter
  <2>1. stage = "references"
    BY <1>1 DEF Alter, At
  <2>2. Serializing
    BY <2>1 DEF Serializing, UntilPlan, UntilControl, UntilRefuse, UntilDecide,
                UntilCompare, UntilAssess, UntilCalculate
  <2>3. ShapeInv' /\ UNCHANGED <<input, stage, outcome>>
    BY <1>1, <2>2, AlterKeepsShape DEF AlteredInv
  <2> QED BY <2>1, <2>2, <2>3 DEF AlteredInv, PassedInv, Serializing, Stages
<1>2. CASE Next \/ UNCHANGED allVars
  <2>1. Next \/ UNCHANGED vars
    BY <1>2 DEF allVars, vars
  <2>2. CASE Serializing
    BY <2>1, <2>2, SerializingKeeps DEF AlteredInv
  <2>3. CASE ~Serializing
    <3>1. IInv /\ [Next]_vars
      BY <2>1, <2>3 DEF AlteredInv
    <3>2. IInv'
      BY <3>1, StepIInv
    <3>3. IInv' => AlteredInv'
      BY StagesSatisfy, PTL
    <3> QED BY <3>2, <3>3
  <2> QED BY <2>2, <2>3
<1> QED BY <1>1, <1>2 DEF AlteredNext

\* From the loaded input to the end, whatever is altered before the barrier.
THEOREM AlteredInvariance == AlteredSpec => []AlteredInv
<1>1. AlteredInit => AlteredInv
  BY InitIInv, StagesSatisfy DEF AlteredInit
<1> QED BY <1>1, AlteredStep, PTL DEF AlteredSpec

-----------------------------------------------------------------------------
(***************************************************************************)
(* What the passed checks say.                                             *)
(***************************************************************************)
\* With distinct identifiers the barrier and the stages read the same results.
LEMMA OneResultEach ==
  ASSUME input \in Inputs, ResultIdsUnique, NEW key \in GoldenKeys
  PROVE  ResultById[key] = GoldenResults[key]
<1>1. PICK d \in {1, 2}, k \in 1..3, l \in 1..2 :
        key = <<IF d = 1 THEN "1.0.0" ELSE "2.0.0", Cohorts[k], Channels[l]>>
  BY GoldenCellOf
<1> DEFINE cell == <<d, k, l>>
<1>2. /\ DOMAIN input.definitions = 1..3
      /\ input.definitions[d].version = IF d = 1 THEN "1.0.0" ELSE "2.0.0"
  <2>1. input \in Input /\ Len(input.definitions) = 3
          /\ input.definitions[1].version = "1.0.0"
          /\ input.definitions[2].version = "2.0.0"
    BY InputsWellFormed, ThreeDefinitions
  <2>2. input.definitions \in Seq(MetricDefinition)
    BY <2>1 DEF Input
  <2> QED BY <2>1, <2>2
<1>3. cell \in Cells(input)
  BY <1>2, ThreeCohortNames, TwoChannelNames DEF Cells
<1>4. ResultId(cell) = key
  BY <1>1, <1>2 DEF ResultId, DefinitionOf, CohortOf, ChannelOf
<1> HIDE DEF cell
<1>5. ASSUME NEW other \in Cells(input), ResultId(other) = key PROVE other = cell
  <2> DEFINE ids == [c \in Cells(input) |-> ResultId(c)]
  <2>1. ids[other] = ids[cell]
    BY <1>3, <1>4, <1>5
  <2> QED BY <1>3, <2>1 DEF ResultIdsUnique, IdsUnique, IsInjective
<1>6. (CHOOSE other \in Cells(input) : ResultId(other) = key) = cell
  BY <1>3, <1>4, <1>5
<1>7. ResultById[key] = evidence.results[cell]
  BY <1>3, <1>4, <1>6 DEF ResultById, ResultIds
<1>8. GoldenCell(key) = cell
  <2>1. cell[1] \in {1, 2}
    BY DEF cell
  <2>2. \A other \in Cells(input) :
          <<DefinitionOf(input, other).version, CohortOf(other), ChannelOf(other)>>
            = ResultId(other)
    BY DEF ResultId
  <2> QED BY <1>3, <1>4, <1>5, <2>1, <2>2 DEF GoldenCell
<1> QED BY <1>7, <1>8 DEF GoldenResults

\* A pair with an item appended.
LEMMA Appended ==
  ASSUME NEW a, NEW b, NEW c, NEW items, items = Append(<<a, b>>, c)
  PROVE  /\ \A i : i \in DOMAIN items <=> i \in {1, 2, 3}
         /\ items[1] = a /\ items[2] = b /\ items[3] = c
<1> DEFINE pair == <<a, b>>
           T == {a, b, c}
<1>1. /\ pair \in Seq(T) /\ Len(pair) = 2 /\ c \in T
      /\ pair[1] = a /\ pair[2] = b
  OBVIOUS
<1>2. items = Append(pair, c)
  OBVIOUS
<1> HIDE DEF pair, T
<1>3. items \in Seq(T) /\ Len(items) = 3
  BY <1>1, <1>2, AppendProperties
<1>4. items[1] = pair[1] /\ items[2] = pair[2] /\ items[2 + 1] = c
  BY <1>1, <1>2, AppendProperties
<1> QED BY <1>1, <1>3, <1>4

\* The comparisons as the barrier sees them.
LEMMA ThreeCompared ==
  ASSUME ShapeInv
  PROVE  /\ \A i : i \in DOMAIN AllComparisons <=> i \in {1, 2, 3}
         /\ AllComparisons[1] = evidence.comparisons[1]
         /\ AllComparisons[2] = evidence.comparisons[2]
         /\ AllComparisons[3] = evidence.g3_comparison
<1>1. AllComparisons = Append(<<evidence.comparisons[1], evidence.comparisons[2]>>,
                              evidence.g3_comparison)
  BY DEF AllComparisons, ShapeInv
<1> QED BY <1>1, Appended

\* Where a kind has one comparison, that is one of them and of the kind.
LEMMA OneOfKind ==
  ASSUME NEW comparisons, NEW kind, HasOneOfKind(comparisons, kind)
  PROVE  \E i \in DOMAIN comparisons :
           /\ OnlyOfKind(comparisons, kind) = comparisons[i]
           /\ comparisons[i].kind = kind
<1>1. OfKind(comparisons, kind) # {}
  <2>1. Cardinality({}) = 0
    BY FS_EmptySet
  <2> QED BY <2>1 DEF HasOneOfKind
<1>2. (CHOOSE i \in OfKind(comparisons, kind) : TRUE) \in OfKind(comparisons, kind)
  BY <1>1
<1> QED BY <1>2 DEF OnlyOfKind, OfKind

\* A refuted stitch among the trends is the first comparison.
LEMMA RefutedIsFirst ==
  ASSUME ShapeInv, OneOfEachTrend(AllComparisons),
         StitchRefuted(<<OnlyOfKind(AllComparisons, "TREND_STITCH"),
                         OnlyOfKind(AllComparisons, "RESTATED_TREND")>>)
  PROVE  /\ OnlyOfKind(AllComparisons, "TREND_STITCH") = evidence.comparisons[1]
         /\ InvalidScopedComparison(evidence.comparisons[1])
<1> DEFINE stitch == OnlyOfKind(AllComparisons, "TREND_STITCH")
           trend  == OnlyOfKind(AllComparisons, "RESTATED_TREND")
<1>1. PICK i \in DOMAIN AllComparisons : stitch = AllComparisons[i]
  BY OneOfKind DEF OneOfEachTrend
<1>2. trend.kind = "RESTATED_TREND"
  BY OneOfKind DEF OneOfEachTrend
<1> HIDE DEF stitch, trend
<1>3. PICK k \in {1, 2} : /\ <<stitch, trend>>[k].assessment_id = StitchId
                         /\ InvalidScopedComparison(<<stitch, trend>>[k])
  <2>1. \A a, b, k : k \in DOMAIN <<a, b>> => k \in {1, 2}
    OBVIOUS
  <2> QED BY <2>1 DEF StitchRefuted, stitch, trend
<1>4. ~InvalidScopedComparison(trend)
  BY <1>2 DEF InvalidScopedComparison
<1>5. stitch.assessment_id = StitchId /\ InvalidScopedComparison(stitch)
  BY <1>3, <1>4
<1>6. i = 1
  <2>1. i \in {1, 2, 3}
    BY <1>1, ThreeCompared
  <2>2. /\ AllComparisons[2].assessment_id = RestatedTrendId
        /\ AllComparisons[3].assessment_id = ImpactId
    BY ThreeCompared DEF ShapeInv, ComparisonShape
  <2>3. StitchId # RestatedTrendId /\ StitchId # ImpactId
    BY DEF StitchId, RestatedTrendId, ImpactId
  <2> QED BY <1>1, <1>5, <2>1, <2>2, <2>3
<1> QED BY <1>1, <1>5, <1>6, ThreeCompared DEF stitch

-----------------------------------------------------------------------------
(***************************************************************************)
(* The plan stands.                                                        *)
(***************************************************************************)
\* What a plan for unattributed evidence is named, and no other plan.
LEMMA NamedByAttribution ==
  ASSUME NEW analysis, NEW horizon, NEW verdicts, NEW comparisons, NEW changes, NEW controls,
         NEW plan,
         plan = MigrationPlan(analysis, horizon, verdicts, comparisons, changes, controls)
  PROVE  /\ ~analysis.attribution_valid <=> plan.plan_id = "PLAN-G3-REJECT"
         /\ ~analysis.attribution_valid
              => plan.recommendation = "REJECT_PENDING_EVIDENCE"
<1>1. \A id, operands, refs :
        /\ Rejection(id, operands, refs).plan_id = id
        /\ Rejection(id, operands, refs).recommendation = "REJECT_PENDING_EVIDENCE"
  BY DEF Rejection
<1>2. \A operands :
        PartialRestatement(operands, comparisons, changes).plan_id
          = "PLAN-GOLDEN-PARTIAL-RESTATEMENT"
  BY DEF PartialRestatement
<1> DEFINE operands == GateOperands(horizon, verdicts, comparisons, controls)
<1>3. CASE ~analysis.attribution_valid
  <2>1. \E failed, refs : plan = Rejection("PLAN-G3-REJECT", failed, refs)
    BY <1>3 DEF MigrationPlan
  <2> QED BY <1>1, <1>3, <2>1
<1>4. CASE analysis.attribution_valid
  <2>1. \/ plan = Rejection("PLAN-EVIDENCE-GATE-REJECT", Failed(operands),
                            NamesOf(Failed(operands)))
        \/ plan = PartialRestatement(operands, comparisons, changes)
    BY <1>4 DEF MigrationPlan
  <2> HIDE DEF operands
  <2> QED BY <1>1, <1>2, <1>4, <2>1
<1> QED BY <1>3, <1>4

\* A plan of the shape is of evidence whose stitch is refuted: otherwise it would
\* trace the seventh operand of the gate.
LEMMA ShapedPlanRefutes ==
  ASSUME NEW analysis, NEW horizon, NEW verdicts, NEW comparisons, NEW changes, NEW controls,
         NEW plan,
         plan = MigrationPlan(analysis, horizon, verdicts, comparisons, changes, controls),
         analysis.attribution_valid, PlanShape(plan)
  PROVE  StitchRefuted(comparisons)
<1> DEFINE operands == GateOperands(horizon, verdicts, comparisons, controls)
<1> SUFFICES ASSUME ~StitchRefuted(comparisons) PROVE FALSE
  OBVIOUS
<1>1. DOMAIN operands = 1..8 /\ ~operands[7].passed
  BY GateSays
<1>2. plan = IF FailedAt(operands) # {}
             THEN Rejection("PLAN-EVIDENCE-GATE-REJECT", Failed(operands),
                            NamesOf(Failed(operands)))
             ELSE PartialRestatement(operands, comparisons, changes)
  BY DEF MigrationPlan
<1> HIDE DEF operands
<1>3. 7 \in FailedAt(operands)
  BY <1>1 DEF FailedAt
<1>4. plan = Rejection("PLAN-EVIDENCE-GATE-REJECT", Failed(operands),
                       NamesOf(Failed(operands)))
  BY <1>2, <1>3
<1>5. plan.rule_trace = <<RuleTraceEntry(RejectionRule, Failed(operands),
                                         CitedBy(Failed(operands)))>>
  BY <1>4 DEF Rejection
<1>6. 1 \in DOMAIN plan.rule_trace
        /\ plan.rule_trace[1] = RuleTraceEntry(RejectionRule, Failed(operands),
                                               CitedBy(Failed(operands)))
  BY <1>5
<1>7. plan.rule_trace[1].operands = Failed(operands)
  BY <1>6 DEF RuleTraceEntry
<1>8. 7 \in DOMAIN Failed(operands)
  BY <1>3 DEF Failed
<1> QED BY <1>6, <1>7, <1>8 DEF PlanShape

\* Two plans that agree with two expected ones are these, in one order or the other.
LEMMA PlansPaired ==
  ASSUME NEW a, NEW b, NEW x, NEW y, NEW horizon, NEW verdicts, NEW comparisons,
         PlansAgree(<<a, b>>, <<x, y>>, horizon, verdicts, comparisons)
  PROVE  a.plan_id # b.plan_id /\ ((a = x /\ b = y) \/ (a = y /\ b = x))
<1> DEFINE plans == <<a, b>>
           expected == <<x, y>>
<1>1. /\ \A i : i \in DOMAIN plans <=> i = 1 \/ i = 2
      /\ \A i : i \in DOMAIN expected <=> i = 1 \/ i = 2
      /\ plans[1] = a /\ plans[2] = b /\ expected[1] = x /\ expected[2] = y
  OBVIOUS
<1>2. /\ IdsUnique(PlanIds(plans))
      /\ Range(PlanIds(plans)) = Range(PlanIds(expected))
      /\ \A i \in DOMAIN plans :
           PlanAgrees(plans[i], ExpectedFor(plans[i], expected), horizon, verdicts,
                      comparisons)
  BY DEF PlansAgree
<1> HIDE DEF plans, expected
<1>3. a.plan_id # b.plan_id
  BY <1>1, <1>2 DEF IdsUnique, IsInjective, PlanIds
<1>4. /\ Range(PlanIds(plans)) = {a.plan_id, b.plan_id}
      /\ Range(PlanIds(expected)) = {x.plan_id, y.plan_id}
  BY <1>1 DEF Range, PlanIds
<1>5. x.plan_id # y.plan_id
  BY <1>2, <1>3, <1>4
<1>6. a = ExpectedFor(a, expected) /\ b = ExpectedFor(b, expected)
  BY <1>1, <1>2 DEF PlanAgrees
<1>7. Max({1}) = 1 /\ Max({2}) = 2
  BY DEF Max
<1>8. ASSUME NEW plan, plan.plan_id = x.plan_id PROVE ExpectedFor(plan, expected) = x
  <2>1. {i \in DOMAIN expected : expected[i].plan_id = plan.plan_id} = {1}
    BY <1>1, <1>5, <1>8
  <2> QED BY <1>1, <1>7, <2>1 DEF ExpectedFor
<1>9. ASSUME NEW plan, plan.plan_id = y.plan_id PROVE ExpectedFor(plan, expected) = y
  <2>1. {i \in DOMAIN expected : expected[i].plan_id = plan.plan_id} = {2}
    BY <1>1, <1>5, <1>9
  <2> QED BY <1>1, <1>7, <2>1 DEF ExpectedFor
<1>10. \/ a.plan_id = x.plan_id /\ b.plan_id = y.plan_id
       \/ a.plan_id = y.plan_id /\ b.plan_id = x.plan_id
  <2>1. a.plan_id \in {x.plan_id, y.plan_id} /\ b.plan_id \in {x.plan_id, y.plan_id}
    BY <1>2, <1>4, Zenon
  <2> QED BY <1>3, <2>1
<1> QED BY <1>3, <1>6, <1>8, <1>9, <1>10

\* At the release the plan is the one recomputed for the attributed golden arms,
\* over a refuted stitch, and the plan of control G3 the refusal of arms that are not.
LEMMA ReleasedPlans ==
  ASSUME ShapeInv, OneOfEachTrend(AllComparisons), PlansHold
  PROVE  /\ evidence.golden_analysis.attribution_valid
         /\ ~evidence.g3_analysis.attribution_valid
         /\ evidence.plan.plan_id # evidence.g3_plan.plan_id
         /\ evidence.g3_plan
              = MigrationPlan(evidence.g3_analysis, evidence.horizon, RestatedVerdicts,
                              <<OnlyOfKind(AllComparisons, "DEFINITION_IMPACT")>>,
                              evidence.decision_changes, <<>>)
         /\ evidence.g3_plan.recommendation = "REJECT_PENDING_EVIDENCE"
         /\ InvalidScopedComparison(evidence.comparisons[1])
         /\ OnlyOfKind(AllComparisons, "TREND_STITCH") = evidence.comparisons[1]
         /\ LET trends == <<OnlyOfKind(AllComparisons, "TREND_STITCH"),
                            OnlyOfKind(AllComparisons, "RESTATED_TREND")>>
            IN  /\ StitchRefuted(trends)
                /\ evidence.plan
                     = MigrationPlan(evidence.golden_analysis, evidence.horizon,
                                     RestatedVerdicts, trends,
                                     evidence.decision_changes, evidence.controls)
<1> DEFINE trends == <<OnlyOfKind(AllComparisons, "TREND_STITCH"),
                       OnlyOfKind(AllComparisons, "RESTATED_TREND")>>
           impact == OnlyOfKind(AllComparisons, "DEFINITION_IMPACT")
           x == MigrationPlan(evidence.golden_analysis, evidence.horizon, RestatedVerdicts,
                              trends, evidence.decision_changes, evidence.controls)
           y == MigrationPlan(evidence.g3_analysis, evidence.horizon, RestatedVerdicts,
                              <<impact>>, evidence.decision_changes, <<>>)
           a == evidence.plan
           b == evidence.g3_plan
<1>1. PlansAgree(<<a, b>>, <<x, y>>, evidence.horizon, RestatedVerdicts, AllComparisons)
  BY DEF PlansHold, Plans, ExpectedPlans
<1>2. ~StitchRefuted(<<impact>>)
  <2>1. impact.kind = "DEFINITION_IMPACT"
    BY OneOfKind DEF PlansHold
  <2> HIDE DEF impact
  <2>2. \A i \in DOMAIN <<impact>> : <<impact>>[i] = impact
    OBVIOUS
  <2> QED BY <2>1, <2>2 DEF StitchRefuted, InvalidScopedComparison
<1>3. /\ ~evidence.golden_analysis.attribution_valid <=> x.plan_id = "PLAN-G3-REJECT"
      /\ evidence.golden_analysis.attribution_valid /\ PlanShape(x) => StitchRefuted(trends)
  <2> HIDE DEF trends
  <2> QED BY NamedByAttribution, ShapedPlanRefutes
<1>4. /\ ~evidence.g3_analysis.attribution_valid <=> y.plan_id = "PLAN-G3-REJECT"
      /\ ~evidence.g3_analysis.attribution_valid
           => y.recommendation = "REJECT_PENDING_EVIDENCE"
      /\ evidence.g3_analysis.attribution_valid /\ PlanShape(y) => StitchRefuted(<<impact>>)
  <2> HIDE DEF impact
  <2> QED BY NamedByAttribution, ShapedPlanRefutes
<1> HIDE DEF x, y, trends, impact
<1>5. a.plan_id # b.plan_id /\ ((a = x /\ b = y) \/ (a = y /\ b = x))
  BY <1>1, PlansPaired
<1>6. PlanShape(a) /\ PlanShape(b) /\ b.plan_id = "PLAN-G3-REJECT"
  BY <1>5 DEF ShapeInv
<1>7. ~evidence.g3_analysis.attribution_valid
  BY <1>2, <1>4, <1>5, <1>6
<1>8. a = x /\ b = y
  BY <1>4, <1>5, <1>6, <1>7
<1>9. evidence.golden_analysis.attribution_valid
  BY <1>3, <1>5, <1>6, <1>8
<1>10. StitchRefuted(trends)
  BY <1>3, <1>6, <1>8, <1>9
<1>11. b.recommendation = "REJECT_PENDING_EVIDENCE"
  BY <1>4, <1>7, <1>8
<1>12. /\ OnlyOfKind(AllComparisons, "TREND_STITCH") = evidence.comparisons[1]
       /\ InvalidScopedComparison(evidence.comparisons[1])
  BY <1>10, RefutedIsFirst DEF trends
<1> QED BY <1>5, <1>7, <1>8, <1>9, <1>10, <1>11, <1>12 DEF x, y, trends, impact

\* Plans that pass are the recomputed ones, and these follow from the evidence.
LEMMA PlanStands == AlteredInv => AcceptedPlanStands
<1> SUFFICES ASSUME AlteredInv, stage = "release" PROVE AcceptedPlanStands
  BY DEF AcceptedPlanStands, AcceptedByBarrier
<1>1. ShapeInv /\ DecisionsHold /\ PlansHold
  BY DEF AlteredInv, PassedInv, Serializing, UntilPlan, UntilControl, UntilRefuse,
         UntilDecide, UntilCompare, UntilAssess, UntilCalculate
<1>2. OneOfEachTrend(AllComparisons)
  BY <1>1 DEF DecisionsHold, DecisionsAgree
<1> DEFINE trends == <<OnlyOfKind(AllComparisons, "TREND_STITCH"),
                       OnlyOfKind(AllComparisons, "RESTATED_TREND")>>
           operands == GateOperands(evidence.horizon, RestatedVerdicts, trends,
                                    evidence.controls)
<1>3. /\ evidence.golden_analysis.attribution_valid
      /\ evidence.g3_plan.recommendation = "REJECT_PENDING_EVIDENCE"
      /\ InvalidScopedComparison(evidence.comparisons[1])
      /\ StitchRefuted(trends)
      /\ evidence.plan
           = MigrationPlan(evidence.golden_analysis, evidence.horizon, RestatedVerdicts,
                           trends, evidence.decision_changes, evidence.controls)
  BY <1>1, <1>2, ReleasedPlans
<1> HIDE DEF trends
<1>4. evidence.plan.recommendation = "PARTIAL_RESTATEMENT"
        <=> \A i \in 1..8 : operands[i].passed
  BY <1>3, PlanDecides
<1>5. /\ operands[1].passed <=> (evidence.horizon.status = "PARTIAL")
      /\ operands[2].passed <=> (StatusesIn(RestatementCohorts, RestatedVerdicts)
                                   = FullStatuses(RestatementCohorts))
      /\ operands[3].passed <=> (StatusesIn(BridgeCohorts, RestatedVerdicts)
                                   = FullStatuses(BridgeCohorts))
      /\ operands[4].passed <=> (Cardinality(CompleteIn(BridgeCohorts, RestatedVerdicts))
                                   >= MinimumBridge)
      /\ operands[5].passed
      /\ operands[6].passed <=> (StatusOf(NonReconstructableCohort, RestatedVerdicts)
                                   = "NOT_RECONSTRUCTABLE")
      /\ operands[7].passed
      /\ operands[8].passed <=> (evidence.controls = [id \in ControlIds |-> "PASS"])
  BY <1>3, GateSays
<1> HIDE DEF operands
<1>6. evidence.controls = [id \in ControlIds |-> "PASS"]
        <=> \A id \in ControlIds : evidence.controls[id] = "PASS"
  BY <1>1 DEF ShapeInv
<1> DEFINE full == /\ StatusOf("2026-05", RestatedVerdicts) = "FULLY_RECONSTRUCTABLE"
                   /\ StatusOf("2026-06", RestatedVerdicts) = "FULLY_RECONSTRUCTABLE"
<1>7. CompleteIn(BridgeCohorts, RestatedVerdicts) = BridgeCohorts <=> full
  BY DEF CompleteIn, BridgeCohorts
<1>8. full => Cardinality(CompleteIn(BridgeCohorts, RestatedVerdicts)) >= MinimumBridge
  <2>1. Cardinality({"2026-05", "2026-06"}) = 2
    <3>1. /\ IsFiniteSet({"2026-05"}) /\ Cardinality({"2026-05"}) = 1
          /\ {"2026-05"} \cup {"2026-06"} = {"2026-05", "2026-06"}
          /\ "2026-06" \notin {"2026-05"}
      BY FS_Singleton
    <3> QED BY <3>1, FS_AddElement
  <2> QED BY <1>7, <2>1 DEF BridgeCohorts, MinimumBridge
<1>9. (\A i \in 1..8 : operands[i].passed)
        <=> /\ evidence.horizon.status = "PARTIAL" /\ full
            /\ StatusOf(NonReconstructableCohort, RestatedVerdicts) = "NOT_RECONSTRUCTABLE"
            /\ \A id \in ControlIds : evidence.controls[id] = "PASS"
  <2>1. \A i : i \in 1..8 <=> i \in {1, 2, 3, 4, 5, 6, 7, 8}
    OBVIOUS
  <2>2. (\A i \in 1..8 : operands[i].passed)
          <=> /\ operands[1].passed /\ operands[2].passed /\ operands[3].passed
              /\ operands[4].passed /\ operands[5].passed /\ operands[6].passed
              /\ operands[7].passed /\ operands[8].passed
    BY <2>1
  <2> QED BY <1>5, <1>6, <1>8, <2>2, StatusesAreFull
<1> QED BY <1>3, <1>4, <1>7, <1>9 DEF AcceptedPlanStands, RestatementJustified

\* Whatever is altered, and however much, the plans that pass the barrier are those
\* that the altered evidence justifies (validate_derived_evidence).
THEOREM AcceptedPlanAlways == AlteredSpec => []AcceptedPlanStands
BY AlteredInvariance, PlanStands, PTL

-----------------------------------------------------------------------------
(***************************************************************************)
(* The numbers agree.                                                      *)
(***************************************************************************)
\* An end that projects the result it names has that result's rate.
LEMMA EndsQuote ==
  ASSUME input \in Inputs, ResultIdsUnique, NEW end, end.result_id \in GoldenKeys,
         IsProjectionOf(end, ResultById)
  PROVE  end.exact_value = RateOf(GoldenResults[<<end.version, end.cohort, end.channel>>])
<1> DEFINE key == end.result_id
<1>1. end = Endpoint(key, ResultById)
  BY DEF IsProjectionOf
<1>2. /\ Endpoint(key, ResultById).version = key[1]
      /\ Endpoint(key, ResultById).cohort = key[2]
      /\ Endpoint(key, ResultById).channel = key[3]
      /\ Endpoint(key, ResultById).exact_value = RateOf(ResultById[key])
  BY DEF Endpoint
<1>3. key = <<key[1], key[2], key[3]>>
  BY DEF GoldenKeys
<1>4. ResultById[key] = GoldenResults[key]
  BY OneResultEach
<1> HIDE DEF key
<1>5. <<end.version, end.cohort, end.channel>> = key
  BY <1>1, <1>2, <1>3
<1> QED BY <1>1, <1>2, <1>4, <1>5

\* At the release the decisions are those that follow from the results and from the
\* two trends.
LEMMA DecisionsRebuilt ==
  ASSUME ShapeInv, DecisionsHold, PlansHold
  PROVE  /\ evidence.decision_changes
              = DecisionChanges(ResultById, evidence.comparisons[1], evidence.comparisons[2],
                                Alpha, Beta)
         /\ OnlyOfKind(AllComparisons, "RESTATED_TREND") = evidence.comparisons[2]
<1> DEFINE stitch == OnlyOfKind(AllComparisons, "TREND_STITCH")
           trend  == OnlyOfKind(AllComparisons, "RESTATED_TREND")
           changes == evidence.decision_changes
<1>1. /\ OneOfEachTrend(AllComparisons)
      /\ changes = DecisionChanges(ResultById, stitch, trend, Alpha, Beta)
  BY DEF DecisionsHold, DecisionsAgree, Rebuilt
<1>2. stitch = evidence.comparisons[1]
  BY <1>1, ReleasedPlans
<1>3. PICK i \in DOMAIN AllComparisons : trend = AllComparisons[i]
  BY <1>1, OneOfKind DEF OneOfEachTrend
<1> HIDE DEF stitch, trend, changes
<1>4. /\ evidence.comparisons[1].assessment_id = StitchId
      /\ evidence.comparisons[2].assessment_id = RestatedTrendId
      /\ evidence.g3_comparison.assessment_id = ImpactId
      /\ changes[3].comparisons \in {{StitchId, RestatedTrendId}, {}}
  BY DEF ShapeInv, ComparisonShape, TrendShape, changes
<1>5. RestatedTrendId \notin {StitchId, ImpactId}
  BY DEF StitchId, RestatedTrendId, ImpactId
<1>6. changes[3].comparisons = {stitch.assessment_id, trend.assessment_id}
  BY <1>1 DEF DecisionChanges, DecisionChange
<1>7. trend.assessment_id = RestatedTrendId
  <2>1. RestatedTrendId \in {stitch.assessment_id, trend.assessment_id}
    BY <1>4, <1>6
  <2> QED BY <1>2, <1>4, <1>5, <2>1
<1>8. trend = evidence.comparisons[2]
  <2>1. i \in {1, 2, 3}
    BY <1>3, ThreeCompared
  <2> QED BY <1>3, <1>4, <1>5, <1>7, <2>1, ThreeCompared
<1> QED BY <1>1, <1>2, <1>8 DEF changes, trend

\* Comparisons that pass quote results, and decisions that pass quote comparisons.
LEMMA NumbersAgree == AlteredInv => AcceptedNumbersAgree
<1> SUFFICES ASSUME AlteredInv, stage = "release" PROVE AcceptedNumbersAgree
  BY DEF AcceptedNumbersAgree, AcceptedByBarrier
<1>1. input \in Inputs /\ ShapeInv /\ ComparisonsHold /\ DecisionsHold /\ PlansHold
  BY DEF AlteredInv, PassedInv, Serializing, UntilPlan, UntilControl, UntilRefuse,
         UntilDecide, UntilCompare, UntilAssess, UntilCalculate
<1>2. ResultIdsUnique
  BY <1>1 DEF ComparisonsHold
<1>3. ASSUME NEW i \in DOMAIN AllComparisons
      PROVE  LET comparison == AllComparisons[i]
                 rate(end) == RateOf(GoldenResults[<<end.version, end.cohort, end.channel>>])
             IN  /\ comparison.left.exact_value = rate(comparison.left)
                 /\ comparison.right.exact_value = rate(comparison.right)
                 /\ comparison.exact_delta = Minus(comparison.right.exact_value,
                                                   comparison.left.exact_value)
  <2> DEFINE comparison == AllComparisons[i]
  <2>1. ComparisonAgrees(comparison, ResultById, AnalysisById)
    BY <1>1 DEF ComparisonsHold, ComparisonsAgree
  <2>2. comparison.left.result_id \in GoldenKeys /\ comparison.right.result_id \in GoldenKeys
    <3>1. i \in {1, 2, 3}
      BY <1>1, ThreeCompared
    <3> QED BY <1>1, <3>1, ThreeCompared DEF ShapeInv, ComparisonShape
  <2> HIDE DEF comparison
  <2>3. /\ IsProjectionOf(comparison.left, ResultById)
        /\ IsProjectionOf(comparison.right, ResultById)
        /\ comparison.exact_delta = Minus(comparison.right.exact_value,
                                          comparison.left.exact_value)
    BY <2>1 DEF ComparisonAgrees
  <2>4. /\ comparison.left.exact_value
             = RateOf(GoldenResults[<<comparison.left.version, comparison.left.cohort,
                                      comparison.left.channel>>])
        /\ comparison.right.exact_value
             = RateOf(GoldenResults[<<comparison.right.version, comparison.right.cohort,
                                      comparison.right.channel>>])
    BY <1>1, <1>2, <2>2, <2>3, EndsQuote
  <2> QED BY <2>3, <2>4 DEF comparison
<1> DEFINE changes == evidence.decision_changes
<1>4. /\ changes[1].after_state
           = <<ThresholdState(RateOf(ResultById[<<"2.0.0", "2026-05", Alpha>>]))>>
      /\ changes[3].before_state = TrendState(evidence.comparisons[1])
      /\ changes[3].after_state = TrendState(evidence.comparisons[2])
  <2>1. changes = DecisionChanges(ResultById, evidence.comparisons[1],
                                  evidence.comparisons[2], Alpha, Beta)
    BY <1>1, DecisionsRebuilt
  <2> HIDE DEF changes
  <2> QED BY <2>1 DEF DecisionChanges, DecisionChange
<1> HIDE DEF changes
<1>5. changes[1].after_state = <<"PASS">>
        <=> AtLeast(RateOf(GoldenResults[<<"2.0.0", "2026-05", Alpha>>]), Threshold)
  <2> DEFINE key == <<"2.0.0", "2026-05", Alpha>>
             rate == RateOf(GoldenResults[key])
  <2>1. key \in GoldenKeys
    BY EndpointKeys
  <2>2. ResultById[key] = GoldenResults[key]
    BY <1>1, <1>2, <2>1, OneResultEach
  <2>3. changes[1].after_state = <<ThresholdState(rate)>>
    BY <1>4, <2>2
  <2> HIDE DEF rate
  <2>4. <<ThresholdState(rate)>> = <<"PASS">> <=> ThresholdState(rate) = "PASS"
    OBVIOUS
  <2>5. ThresholdState(rate) = "PASS" <=> AtLeast(rate, Threshold)
    BY DEF ThresholdState
  <2> QED BY <2>3, <2>4, <2>5 DEF rate
<1>6. \A c : TrendState(c)[3] = c.exact_delta
  BY DEF TrendState
<1>7. \A x, y : x = y => SameValue(x, y)
  BY DEF SameValue
<1>8. \A comparison \in Range(AllComparisons) :
         LET rate(end) == RateOf(GoldenResults[<<end.version, end.cohort, end.channel>>])
         IN  /\ SameValue(comparison.left.exact_value, rate(comparison.left))
             /\ SameValue(comparison.right.exact_value, rate(comparison.right))
             /\ SameValue(comparison.exact_delta,
                          Minus(rate(comparison.right), rate(comparison.left)))
  <2> TAKE comparison \in Range(AllComparisons)
  <2>1. PICK i \in DOMAIN AllComparisons : comparison = AllComparisons[i]
    BY DEF Range
  <2> QED BY <1>3, <1>7, <2>1
<1>9. /\ changes[3].before_state[3] = evidence.comparisons[1].exact_delta
       /\ changes[3].after_state[3] = evidence.comparisons[2].exact_delta
  BY <1>4, <1>6
<1> QED BY <1>5, <1>8, <1>9 DEF AcceptedNumbersAgree, changes

\* Whatever is altered, and however much, the comparisons that pass the barrier
\* quote the results they name, and the decisions what the comparisons say
\* (_validate_comparisons, _validate_decisions).
THEOREM AcceptedNumbersAlways == AlteredSpec => []AcceptedNumbersAgree
BY AlteredInvariance, NumbersAgree, PTL

-----------------------------------------------------------------------------
(***************************************************************************)
(* What the barrier lets no two alterations do.  The invariant follows     *)
(* each part that a decision reads by the fields that were altered in it:  *)
(* where none was, the part is what the stages left, and where some was it *)
(* is none of what the barrier recomputes.  Two values of the stages are   *)
(* kept beside the evidence: the controls and the difference of May.       *)
(***************************************************************************)
\* The alterations of a part.
Of(part) == {field \in altered : field[1] = part}

\* All controls pass.
AllPass == [id \in ControlIds |-> "PASS"]

\* What the input alone decides: the arms differ by the denominator, and the
\* results have distinct identifiers besides.
Attributable == GoldenDifference.attribution_valid
Auditable    == Attributable /\ ResultIdsUnique

(***************************************************************************)
(* Decisions.                                                              *)
(***************************************************************************)
\* The fields of a decision that are altered.
ChangeFields ==
  {"before_state", "after_state", "exact_delta", "comparisons", "evidence", "assumptions"}

\* A state altered to the other one belies the classification, citations are gone,
\* and the difference of May was not the one it was altered to.
ChangeFollowed(change, i, L, difference) ==
  LET forged(name) == <<"decision_changes", i, name>> \in L
  IN  /\ ChangeFields \cup {"classification"} \subseteq DOMAIN change
      /\ IF forged("before_state") \/ forged("after_state")
         THEN change.before_state = change.after_state /\ change.classification = "CHANGED"
         ELSE change.classification = "CHANGED" <=> change.before_state # change.after_state
      /\ i # 3 => change.comparisons = {} /\ ~forged("comparisons")
      /\ i = 2 => change.assumptions = {} /\ ~forged("assumptions")
      /\ \A name \in {"comparisons", "evidence", "assumptions"} :
           forged(name) => change[name] = {}
      /\ forged("exact_delta") => change.exact_delta = OtherRate
      /\ i = 1 => IF forged("exact_delta") THEN difference # OtherRate
                  ELSE change.exact_delta = difference

\* Each decision, by its own alterations.
ChangesFollowed(changes, L, difference) ==
  /\ L \subseteq {"decision_changes"} \X {1, 2, 3} \X ChangeFields
  /\ DOMAIN changes = 1..3
  /\ \A i \in {1, 2, 3} : ChangeFollowed(changes[i], i, L, difference)

\* The index of what was impacted lacks an item once altered.
ImpactFollowed(impact, L) ==
  /\ L \subseteq {<<"impact", "ids">>}
  /\ IF L = {} THEN impact = <<impact[1], impact[2], impact[3]>> ELSE DOMAIN impact # 1..3

\* The results of May under both versions.
MayKeys == <<<<"1.0.0", "2026-05", Alpha>>, <<"2.0.0", "2026-05", Alpha>>>>

\* The difference that the threshold decision records is also that of the
\* confounded comparison, and of the results.
ImpactComparisonFollowed(comparison, L, difference) ==
  L = {} => /\ comparison.exact_delta = difference
            /\ comparison.left.result_id = MayKeys[1]
            /\ comparison.right.result_id = MayKeys[2]

\* Their difference.
MayDifference == Minus(RateOf(GoldenResults[MayKeys[2]]), RateOf(GoldenResults[MayKeys[1]]))

(***************************************************************************)
(* Analysis, comparisons, verdicts and controls.                           *)
(***************************************************************************)
\* The flags of an analysis.
AnalysisFields == {"controlled_context_match", "attribution_valid"}

\* Each flag of the analysis is negated when altered.
AnalysisFollowed(analysis, L, attributable) ==
  LET forged(name) == <<"golden_analysis", name>> \in L
  IN  /\ L \subseteq {"golden_analysis"} \X AnalysisFields
      /\ AnalysisFields \subseteq DOMAIN analysis
      /\ analysis.attribution_valid \in BOOLEAN
      /\ analysis.controlled_context_match \in BOOLEAN
      /\ analysis.attribution_valid <=> (attributable <=> ~forged("attribution_valid"))
      /\ analysis.controlled_context_match <=> ~forged("controlled_context_match")

\* The other analysis keeps its identifier.
ConfoundedFollowed(analysis) ==
  /\ "attribution_valid" \in DOMAIN analysis /\ analysis.attribution_valid \in BOOLEAN
  /\ "analysis_id" \in DOMAIN analysis /\ analysis.analysis_id = ConfoundedAnalysisId

\* A trend that was not altered quotes the golden arms, which share a context.
TrendsFollowed(comparisons, L) ==
  \A i \in {1, 2} :
    (\A field \in L : field[2] # i)
      => /\ comparisons[i].controlled_context_match = TRUE
         /\ comparisons[i].analysis_id = GoldenAnalysisId

\* No alteration takes away the verdict of a cohort under version 2.0.0.
VerdictsFollowed(verdicts) ==
  /\ \E n \in Nat : DOMAIN verdicts = 1..n
  /\ \A i \in DOMAIN verdicts : /\ {"version", "cohort", "status"} \subseteq DOMAIN verdicts[i]
                                /\ verdicts[i].status # "MISSING"
  /\ \A cohort \in CohortNames :
       \E i \in DOMAIN verdicts : verdicts[i].version = "2.0.0" /\ verdicts[i].cohort = cohort

\* A control that was altered has another status than before.
ControlsFollowed(controls, L, original) ==
  /\ L \subseteq {"controls"} \X ControlIds \X {"status"}
  /\ \A id \in ControlIds :
       <<"controls", id, "status">> \in L <=> controls[id] # original[id]

(***************************************************************************)
(* Plans.                                                                  *)
(***************************************************************************)
\* The fields of a plan, and what of it is altered.
PlanFields == {"plan_id", "recommendation", "actions", "rule_trace"}
PlanForms  == PlanFields \cup {"plan", "action", "trace"}

\* The identifiers of the plan of control G3, of a rejection by the gate and of the
\* restatement.
RefusedId  == "PLAN-G3-REJECT"
GateId     == "PLAN-EVIDENCE-GATE-REJECT"
PositiveId == "PLAN-GOLDEN-PARTIAL-RESTATEMENT"

\* The plan of control G3, always.
TheRefusal ==
  Rejection(RefusedId,
    << Equals("definition_only_attribution_valid", FALSE, TRUE, {ConfoundedAnalysisId}) >>,
    {ConfoundedAnalysisId})

\* The operands of the gate when all pass.
PassingOperands ==
  << Operand("horizon_restatement_coverage", "EQUALS", "PARTIAL", "PARTIAL", TRUE,
             {HorizonId}),
     Operand("restatement_cohort_reconstructability", "ALL_TRUE",
             FullStatuses(RestatementCohorts), FullStatuses(RestatementCohorts), TRUE,
             {"2.0.0"} \X RestatementCohorts),
     Operand("bridge_cohort_reconstructability", "ALL_TRUE",
             FullStatuses(BridgeCohorts), FullStatuses(BridgeCohorts), TRUE,
             {"2.0.0"} \X BridgeCohorts),
     Operand("complete_bridge_cohort_count", "AT_LEAST", Cardinality(BridgeCohorts),
             MinimumBridge, TRUE, {HorizonId}),
     Operand("effective_cohort", "EQUALS", EffectiveCohort, EffectiveCohort, TRUE,
             {ContractId, PolicyId}),
     Operand("non_reconstructable_history_reference", "RESOLVES",
             NonReconstructableCohort, "NOT_RECONSTRUCTABLE", TRUE,
             {"2.0.0"} \X {NonReconstructableCohort}),
     Operand("invalid_comparison_reference", "RESOLVES", StitchId,
             "INVALID_SCOPED_COMPARISON", TRUE, {StitchId}),
     Operand("required_control_results", "ALL_TRUE", AllPass, AllPass, TRUE,
             {<<id>> : id \in ControlIds}) >>

\* The identifiers that a restatement takes from comparisons and decisions.
TrendNames  == <<[assessment_id |-> StitchId], [assessment_id |-> RestatedTrendId]>>
ChangeNames == <<[change_id |-> <<"THRESHOLD">>], [change_id |-> <<"RANKING">>],
                 [change_id |-> <<"TREND_INTERPRETATION">>]>>

\* The only restatement the stages or the barrier derive.
TheRestatement == PartialRestatement(PassingOperands, TrendNames, ChangeNames)

\* The one action of a rejection by the gate: it names operands of the gate and
\* cites no comparison.
RefusalActions(actions) ==
  LET refs  == actions[1].scope_refs
      cited == actions[1].evidence
  IN  /\ DOMAIN actions = {1}
      /\ actions = << Action("REJECT_PENDING_EVIDENCE", CohortNames, refs, cited, {},
                             RejectionRule) >>
      /\ refs # {} /\ {ConfoundedAnalysisId, <<"2026-06">>} \cap refs = {}
      /\ StitchId \notin cited

\* The actions of a plan of that identifier.
LegitActions(id, actions) ==
  IF id = PositiveId THEN actions = TheRestatement.actions ELSE RefusalActions(actions)

\* The failed operands that alterations could have to do with.
RefusalOperands(operands) ==
  /\ DOMAIN operands # {}
  /\ 1 \in DOMAIN operands =>
       /\ operands[1] = Operand("horizon_restatement_coverage", "EQUALS",
                                operands[1].actual, "PARTIAL", FALSE, {HorizonId})
       /\ operands[1].actual # "PARTIAL"
  /\ 6 \in DOMAIN operands =>
       operands[6] = Operand("non_reconstructable_history_reference", "RESOLVES",
                             NonReconstructableCohort, "NOT_RECONSTRUCTABLE", FALSE,
                             {"2.0.0"} \X {NonReconstructableCohort})
  /\ 8 \in DOMAIN operands =>
       /\ operands[8] = Operand("required_control_results", "ALL_TRUE",
                                operands[8].actual, AllPass, FALSE,
                                {<<id>> : id \in ControlIds})
       /\ operands[8].actual # AllPass

\* The failed operands of the stages: the comparisons needed May and June, so that
\* only April, the controls and a complete horizon can fail.
OriginalOperands(operands, controls) ==
  /\ RefusalOperands(operands)
  /\ DOMAIN operands \subseteq {1, 6, 8}
  /\ 1 \in DOMAIN operands => operands[1].actual = "COMPLETE"
  /\ 8 \in DOMAIN operands <=> controls # AllPass
  /\ 8 \in DOMAIN operands => operands[8].actual = controls

\* The one trace of a rejection.
TraceOf(operands) == << RuleTraceEntry(RejectionRule, operands, CitedBy(operands)) >>

\* The traces of a plan of that identifier, and those of the plan of the stages.
LegitTraces(id, traces) ==
  IF id = PositiveId THEN traces = TheRestatement.rule_trace
  ELSE traces = TraceOf(traces[1].operands) /\ RefusalOperands(traces[1].operands)

OriginalTraces(id, traces, controls) ==
  IF id = PositiveId THEN traces = TheRestatement.rule_trace /\ controls = AllPass
  ELSE /\ traces = TraceOf(traces[1].operands)
       /\ OriginalOperands(traces[1].operands, controls)

\* What a plan has from the refusal.
ForeignActions(actions) ==
  /\ actions = <<actions[1]>> /\ "scope_refs" \in DOMAIN actions[1]
  /\ actions[1].scope_refs \in {{ConfoundedAnalysisId}, {<<"2026-06">>}}

ForeignTraces(traces) ==
  /\ traces = <<traces[1]>> /\ "operands" \in DOMAIN traces[1]
  /\ DOMAIN traces[1].operands = {1} /\ "name" \in DOMAIN traces[1].operands[1]
  /\ traces[1].operands[1].name = "definition_only_attribution_valid"

\* The parts of the plan of an auditable input, by whether all of it is from the
\* refusal and whether an item of it was altered.
ActionsFollowed(id, actions, foreign, item) ==
  IF foreign THEN ForeignActions(actions) ELSE LegitActions(id, actions) <=> ~item

TracesFollowed(id, traces, foreign, item, controls) ==
  IF foreign THEN ForeignTraces(traces)
  ELSE IF item THEN ~LegitTraces(id, traces)
  ELSE OriginalTraces(id, traces, controls)

RecommendationFollowed(id, recommendation, foreign) ==
  IF foreign THEN id = PositiveId /\ recommendation = "REJECT_PENDING_EVIDENCE"
  ELSE recommendation = IF id = PositiveId THEN "PARTIAL_RESTATEMENT"
                        ELSE "REJECT_PENDING_EVIDENCE"

\* The plan of an auditable input, by what was altered in it.
PlanFollowed(plan, L, controls) ==
  LET forged(name) == <<"plan", name>> \in L
  IN  IF forged("plan") \/ forged("plan_id") THEN plan.plan_id = RefusedId
      ELSE /\ plan.plan_id \in {PositiveId, GateId}
           /\ RecommendationFollowed(plan.plan_id, plan.recommendation,
                                     forged("recommendation"))
           /\ ActionsFollowed(plan.plan_id, plan.actions, forged("actions"),
                              forged("action"))
           /\ TracesFollowed(plan.plan_id, plan.rule_trace, forged("rule_trace"),
                             forged("trace"), controls)

\* What the refusal has from a plan of the stages.
AlienActions(actions) ==
  \/ DOMAIN actions = 1..4
  \/ /\ 1 \in DOMAIN actions /\ "scope_refs" \in DOMAIN actions[1]
     /\ actions[1].scope_refs # {ConfoundedAnalysisId}

AlienTraces(traces) ==
  \/ DOMAIN traces = 1..4
  \/ /\ 1 \in DOMAIN traces /\ "operands" \in DOMAIN traces[1]
     /\ \E k \in DOMAIN traces[1].operands :
          /\ "name" \in DOMAIN traces[1].operands[k]
          /\ traces[1].operands[k].name # "definition_only_attribution_valid"

\* The parts of the plan of control G3, by whether all of it is from the other plan and
\* whether an item of it was altered.
RefusalActionsFollowed(actions, alien, item) ==
  IF alien THEN AlienActions(actions) ELSE actions = TheRefusal.actions <=> ~item

RefusalTracesFollowed(traces, alien, item) ==
  IF alien THEN AlienTraces(traces) ELSE traces = TheRefusal.rule_trace <=> ~item

\* The plan of control G3, by what was altered in it.
RefusalFollowed(plan, L) ==
  LET forged(name) == <<"g3_plan", name>> \in L
  IN  IF forged("plan") \/ forged("plan_id") THEN plan.plan_id # RefusedId
      ELSE /\ plan.plan_id = RefusedId
           /\ plan.recommendation = "REJECT_PENDING_EVIDENCE" <=> ~forged("recommendation")
           /\ RefusalActionsFollowed(plan.actions, forged("actions"), forged("action"))
           /\ RefusalTracesFollowed(plan.rule_trace, forged("rule_trace"), forged("trace"))

\* Both plans, of an auditable input: with an alteration in each, the refusal is not
\* the expected one or the plan has its identifier.
PlansFollowed(plan, refusal, L, M, controls) ==
  /\ L \subseteq {"plan"} \X PlanForms /\ M \subseteq {"g3_plan"} \X PlanForms
  /\ L = {} \/ M = {} => PlanFollowed(plan, L, controls)
  /\ M = {} => refusal = TheRefusal
  /\ L = {} => RefusalFollowed(refusal, M)
  /\ L # {} /\ M # {} => refusal # TheRefusal \/ plan.plan_id = RefusedId

-----------------------------------------------------------------------------
\* All of it, for the controls and the difference of May that the stages found.
Followed(original, difference) ==
  /\ ChangesFollowed(evidence.decision_changes, Of("decision_changes"), difference)
  /\ ImpactFollowed(evidence.impact, Of("impact"))
  /\ ImpactComparisonFollowed(evidence.g3_comparison, Of("g3_comparison"), difference)
  /\ Of("results") = {} => MayDifference = difference
  /\ AnalysisFollowed(evidence.golden_analysis, Of("golden_analysis"), Attributable)
  /\ ConfoundedFollowed(evidence.g3_analysis)
  /\ TrendsFollowed(evidence.comparisons, Of("comparisons"))
  /\ ControlsFollowed(evidence.controls, Of("controls"), original)
  /\ PlanFields \subseteq DOMAIN evidence.plan
  /\ PlanFields \subseteq DOMAIN evidence.g3_plan
  /\ ~Attributable => evidence.plan.plan_id = RefusedId /\ evidence.g3_plan.plan_id = RefusedId
  /\ Auditable => /\ VerdictsFollowed(evidence.reconstructability)
                  /\ PlansFollowed(evidence.plan, evidence.g3_plan, Of("plan"),
                                   Of("g3_plan"), original)

\* Some controls and difference of May were the original ones.
SomeFollowed == \E original, difference : Followed(original, difference)

\* Nothing is altered before the barrier, and at most two fields at it.
SlipInv ==
  /\ AlteredInv
  /\ IsFiniteSet(altered) /\ Cardinality(altered) <= 2
  /\ altered # {} => Serializing
  /\ Serializing => SomeFollowed

-----------------------------------------------------------------------------
(***************************************************************************)
(* Decisions, analysis, trends, verdicts and controls are followed when     *)
(* they are altered.                                                        *)
(***************************************************************************)
\* A form of a record gives the field it names another value.
LEMMA FormNamed ==
  ASSUME NEW record, NEW values, NEW form \in OtherForms(record, values)
  PROVE  /\ form[1] \in DOMAIN values
         /\ \E value \in values[form[1]] :
              /\ value # record[form[1]]
              /\ form[2] = [record EXCEPT ![form[1]] = value]
<1>1. PICK field \in DOMAIN values : \E value \in values[field] \ {record[field]} :
        form = <<field, [record EXCEPT ![field] = value]>>
  BY DEF OtherForms
<1>2. PICK value \in values[field] \ {record[field]} :
        form = <<field, [record EXCEPT ![field] = value]>>
  BY <1>1
<1>3. form[1] = field /\ form[2] = [record EXCEPT ![field] = value]
  BY <1>2
<1> QED BY <1>2, <1>3

\* A decision with an altered field is followed by that field.
LEMMA ChangeStays ==
  ASSUME NEW change, NEW i, NEW L, NEW difference,
         ChangeFollowed(change, i, L, difference),
         NEW form \in OtherChanges(change)
  PROVE  /\ form[1] \in ChangeFields
         /\ ChangeFollowed(form[2], i, L \cup {<<"decision_changes", i, form[1]>>}, difference)
<1> DEFINE M == L \cup {<<"decision_changes", i, form[1]>>}
           values == [ before_state |-> {change.after_state},
                       after_state |-> {change.before_state}, exact_delta |-> {OtherRate},
                       comparisons |-> {{}}, evidence |-> {{}}, assumptions |-> {{}} ]
           name == form[1]
<1>1. /\ name \in ChangeFields
      /\ \E value \in values[name] :
           value # change[name] /\ form[2] = [change EXCEPT ![name] = value]
  <2>1. form \in OtherForms(change, values)
    BY DEF OtherChanges
  <2>2. DOMAIN values = ChangeFields
    BY DEF ChangeFields
  <2> HIDE DEF values
  <2> QED BY <2>1, <2>2, FormNamed
<1>2. PICK value \in values[name] :
        value # change[name] /\ form[2] = [change EXCEPT ![name] = value]
  BY <1>1
<1>3. \A other : <<"decision_changes", i, other>> \in M
                   <=> <<"decision_changes", i, other>> \in L \/ other = name
  OBVIOUS
<1>4. /\ DOMAIN form[2] = DOMAIN change
      /\ \A other \in DOMAIN change :
           form[2][other] = IF other = name THEN value ELSE change[other]
  BY <1>2
<1>5. /\ ChangeFields \cup {"classification"} \subseteq DOMAIN change
      /\ name \in DOMAIN change
  BY <1>1 DEF ChangeFollowed
<1>6. /\ name = "before_state" => value = change.after_state
      /\ name = "after_state" => value = change.before_state
      /\ name = "exact_delta" => value = OtherRate
      /\ name \in {"comparisons", "evidence", "assumptions"} => value = {}
  BY <1>2
<1> HIDE DEF M, values, name
<1>7. \A other \in ChangeFields \cup {"classification"} :
        form[2][other] = IF other = name THEN value ELSE change[other]
  BY <1>4, <1>5
<1>8. IF <<"decision_changes", i, "before_state">> \in M
           \/ <<"decision_changes", i, "after_state">> \in M
      THEN form[2].before_state = form[2].after_state /\ form[2].classification = "CHANGED"
      ELSE form[2].classification = "CHANGED" <=> form[2].before_state # form[2].after_state
  <2>1. /\ form[2].before_state = IF name = "before_state" THEN value ELSE change.before_state
        /\ form[2].after_state = IF name = "after_state" THEN value ELSE change.after_state
        /\ form[2].classification = change.classification
    BY <1>1, <1>7 DEF ChangeFields
  <2>2. CASE name \in {"before_state", "after_state"}
    BY <2>1, <2>2, <1>2, <1>3, <1>6 DEF ChangeFollowed
  <2>3. CASE name \notin {"before_state", "after_state"}
    BY <2>1, <2>3, <1>3 DEF ChangeFollowed
  <2> QED BY <2>2, <2>3
<1>9. /\ i # 3 => form[2].comparisons = {} /\ <<"decision_changes", i, "comparisons">> \notin M
      /\ i = 2 => form[2].assumptions = {} /\ <<"decision_changes", i, "assumptions">> \notin M
  BY <1>2, <1>3, <1>6, <1>7 DEF ChangeFollowed, ChangeFields
<1>10. \A other \in {"comparisons", "evidence", "assumptions"} :
         <<"decision_changes", i, other>> \in M => form[2][other] = {}
  BY <1>3, <1>6, <1>7 DEF ChangeFollowed, ChangeFields
<1>11. /\ <<"decision_changes", i, "exact_delta">> \in M => form[2].exact_delta = OtherRate
       /\ i = 1 => IF <<"decision_changes", i, "exact_delta">> \in M
                   THEN difference # OtherRate
                   ELSE form[2].exact_delta = difference
  BY <1>2, <1>3, <1>6, <1>7 DEF ChangeFollowed, ChangeFields
<1> QED BY <1>1, <1>4, <1>5, <1>8, <1>9, <1>10, <1>11 DEF ChangeFollowed, M, name

\* So are the decisions.
LEMMA ChangesStay ==
  ASSUME NEW changes, NEW L, NEW difference, ChangesFollowed(changes, L, difference),
         NEW i \in 1..3, NEW form \in OtherChanges(changes[i])
  PROVE  ChangesFollowed([changes EXCEPT ![i] = form[2]],
                         L \cup {<<"decision_changes", i, form[1]>>}, difference)
<1> DEFINE M == L \cup {<<"decision_changes", i, form[1]>>}
           value == [changes EXCEPT ![i] = form[2]]
<1>1. i \in {1, 2, 3} /\ DOMAIN changes = 1..3
  BY DEF ChangesFollowed
<1>2. form[1] \in ChangeFields /\ ChangeFollowed(form[2], i, M, difference)
  BY <1>1, ChangeStays DEF ChangesFollowed
<1>3. M \subseteq {"decision_changes"} \X {1, 2, 3} \X ChangeFields
  BY <1>1, <1>2 DEF ChangesFollowed
<1>4. ASSUME NEW j \in {1, 2, 3}, j # i PROVE ChangeFollowed(changes[j], j, M, difference)
  <2>1. \A name : <<"decision_changes", j, name>> \in M
                    <=> <<"decision_changes", j, name>> \in L
    BY <1>4
  <2>2. ChangeFollowed(changes[j], j, L, difference)
    BY DEF ChangesFollowed
  <2> HIDE DEF M
  <2> QED BY <2>1, <2>2 DEF ChangeFollowed
<1>5. /\ DOMAIN value = 1..3 /\ value[i] = form[2]
      /\ \A j \in 1..3 : j # i => value[j] = changes[j]
  BY <1>1
<1> SUFFICES ChangesFollowed(value, M, difference)
  OBVIOUS
<1> HIDE DEF M, value
<1>6. \A j \in {1, 2, 3} : ChangeFollowed(value[j], j, M, difference)
  BY <1>2, <1>4, <1>5
<1> QED BY <1>3, <1>5, <1>6 DEF ChangesFollowed

\* An analysis with an altered flag is followed by that flag.
LEMMA AnalysisStays ==
  ASSUME NEW analysis, NEW L, NEW attributable,
         AnalysisFollowed(analysis, L, attributable),
         NEW form \in OtherAnalyses(analysis), <<"golden_analysis", form[1]>> \notin L
  PROVE  AnalysisFollowed(form[2], L \cup {<<"golden_analysis", form[1]>>}, attributable)
<1> DEFINE M == L \cup {<<"golden_analysis", form[1]>>}
           values == [controlled_context_match |-> BOOLEAN, attribution_valid |-> BOOLEAN]
           name == form[1]
<1>1. /\ name \in AnalysisFields
      /\ \E value \in BOOLEAN :
           value # analysis[name] /\ form[2] = [analysis EXCEPT ![name] = value]
  <2>1. form \in OtherForms(analysis, values)
    BY DEF OtherAnalyses
  <2>2. /\ DOMAIN values = AnalysisFields
        /\ \A field \in DOMAIN values : values[field] = BOOLEAN
    BY DEF AnalysisFields
  <2> HIDE DEF values
  <2>3. /\ form[1] \in DOMAIN values
        /\ \E value \in values[form[1]] :
             value # analysis[form[1]] /\ form[2] = [analysis EXCEPT ![form[1]] = value]
    BY <2>1, FormNamed
  <2>4. values[form[1]] = BOOLEAN
    BY <2>2, <2>3
  <2> QED BY <2>2, <2>3, <2>4
<1>2. PICK value \in BOOLEAN :
        value # analysis[name] /\ form[2] = [analysis EXCEPT ![name] = value]
  BY <1>1
<1>3. \A other : <<"golden_analysis", other>> \in M
                   <=> <<"golden_analysis", other>> \in L \/ other = name
  OBVIOUS
<1>4. <<"golden_analysis", name>> \notin L
  OBVIOUS
<1>9. M \subseteq {"golden_analysis"} \X AnalysisFields
  BY <1>1 DEF AnalysisFollowed
<1> HIDE DEF M, values, name
<1>5. \A other \in AnalysisFields :
        form[2][other] = IF other = name THEN value ELSE analysis[other]
  BY <1>1, <1>2 DEF AnalysisFollowed
<1>6. AnalysisFields \subseteq DOMAIN form[2]
  BY <1>2 DEF AnalysisFollowed
<1>7. CASE name = "attribution_valid"
  <2>1. /\ form[2].attribution_valid = value
        /\ form[2].controlled_context_match = analysis.controlled_context_match
    BY <1>5, <1>7 DEF AnalysisFields
  <2>2. AnalysisFollowed(form[2], M, attributable)
    BY <1>2, <1>3, <1>4, <1>6, <1>7, <1>9, <2>1 DEF AnalysisFollowed
  <2> QED BY <2>2 DEF M, name
<1>8. CASE name = "controlled_context_match"
  <2>1. /\ form[2].controlled_context_match = value
        /\ form[2].attribution_valid = analysis.attribution_valid
    BY <1>5, <1>8 DEF AnalysisFields
  <2>2. AnalysisFollowed(form[2], M, attributable)
    BY <1>2, <1>3, <1>4, <1>6, <1>8, <1>9, <2>1 DEF AnalysisFollowed
  <2> QED BY <2>2 DEF M, name
<1> QED BY <1>1, <1>7, <1>8 DEF AnalysisFields

\* A trend with an altered field says nothing of the other one.
LEMMA TrendsStay ==
  ASSUME NEW comparisons, NEW L, TrendsFollowed(comparisons, L), NEW i, NEW value, NEW field,
         field[2] = i
  PROVE  TrendsFollowed([comparisons EXCEPT ![i] = value], L \cup {field})
<1> SUFFICES ASSUME NEW j \in {1, 2}, \A other \in L \cup {field} : other[2] # j
             PROVE  /\ [comparisons EXCEPT ![i] = value][j].controlled_context_match = TRUE
                    /\ [comparisons EXCEPT ![i] = value][j].analysis_id = GoldenAnalysisId
  BY DEF TrendsFollowed
<1>1. j # i
  OBVIOUS
<1>2. [comparisons EXCEPT ![i] = value][j] = comparisons[j]
  BY <1>1
<1> QED BY <1>2 DEF TrendsFollowed

\* A verdict of another status is of the same version and cohort.
LEMMA VerdictsStay ==
  ASSUME NEW verdicts, VerdictsFollowed(verdicts), NEW i \in DOMAIN verdicts,
         NEW form \in OtherVerdicts(verdicts[i])
  PROVE  VerdictsFollowed([verdicts EXCEPT ![i] = form[2]])
<1> DEFINE altogether == [verdicts EXCEPT ![i] = form[2]]
<1>1. \E status \in {"FULLY_RECONSTRUCTABLE", "NOT_RECONSTRUCTABLE"} :
        form[2] = [verdicts[i] EXCEPT !.status = status]
  <2> DEFINE values == [status |-> {"FULLY_RECONSTRUCTABLE", "NOT_RECONSTRUCTABLE"}]
             verdict == verdicts[i]
  <2>1. form \in OtherForms(verdict, values)
    BY DEF OtherVerdicts
  <2>2. /\ DOMAIN values = {"status"}
        /\ values["status"] = {"FULLY_RECONSTRUCTABLE", "NOT_RECONSTRUCTABLE"}
    OBVIOUS
  <2> HIDE DEF values, verdict
  <2>3. /\ form[1] \in DOMAIN values
        /\ \E status \in values[form[1]] :
             status # verdict[form[1]] /\ form[2] = [verdict EXCEPT ![form[1]] = status]
    BY <2>1, FormNamed
  <2>4. form[1] = "status"
    BY <2>2, <2>3
  <2>5. \E status \in {"FULLY_RECONSTRUCTABLE", "NOT_RECONSTRUCTABLE"} :
          form[2] = [verdict EXCEPT !.status = status]
    BY <2>2, <2>3, <2>4
  <2> QED BY <2>5 DEF verdict
<1>2. PICK status \in {"FULLY_RECONSTRUCTABLE", "NOT_RECONSTRUCTABLE"} :
        form[2] = [verdicts[i] EXCEPT !.status = status]
  BY <1>1
<1>3. DOMAIN altogether = DOMAIN verdicts
      /\ \A j \in DOMAIN verdicts : altogether[j] = IF j = i THEN form[2] ELSE verdicts[j]
  OBVIOUS
<1>4. \A j \in DOMAIN verdicts :
        {"version", "cohort", "status"} \subseteq DOMAIN verdicts[j]
          => /\ {"version", "cohort", "status"} \subseteq DOMAIN altogether[j]
             /\ altogether[j].version = verdicts[j].version
             /\ altogether[j].cohort = verdicts[j].cohort
             /\ verdicts[j].status # "MISSING" => altogether[j].status # "MISSING"
  BY <1>2, <1>3
<1> HIDE DEF altogether
<1>5. VerdictsFollowed(altogether)
  BY <1>3, <1>4 DEF VerdictsFollowed
<1> QED BY <1>5 DEF altogether

\* A control of another status is one more that was altered.
LEMMA ControlsStay ==
  ASSUME NEW controls, NEW L, NEW original, ControlsFollowed(controls, L, original),
         DOMAIN controls = ControlIds, NEW id \in ControlIds, NEW status,
         status # controls[id], <<"controls", id, "status">> \notin L
  PROVE  ControlsFollowed([controls EXCEPT ![id] = status],
                          L \cup {<<"controls", id, "status">>}, original)
<1> DEFINE M == L \cup {<<"controls", id, "status">>}
           value == [controls EXCEPT ![id] = status]
<1>1. M \subseteq {"controls"} \X ControlIds \X {"status"}
  BY DEF ControlsFollowed
<1>2. \A other \in ControlIds :
        /\ value[other] = IF other = id THEN status ELSE controls[other]
        /\ <<"controls", other, "status">> \in M
             <=> <<"controls", other, "status">> \in L \/ other = id
  OBVIOUS
<1> HIDE DEF M, value
<1>3. ControlsFollowed(value, M, original)
  BY <1>1, <1>2 DEF ControlsFollowed
<1> QED BY <1>3 DEF M, value

\* An index without its last item lacks one.
LEMMA ImpactStays ==
  ASSUME NEW impact, ImpactFollowed(impact, {})
  PROVE  DOMAIN Front(impact) # 1..3
<1> DEFINE T == {impact[1], impact[2], impact[3]}
<1>1. impact \in Seq(T) /\ Len(impact) = 3
  <2>1. impact = <<impact[1], impact[2], impact[3]>>
    BY DEF ImpactFollowed
  <2>2. \A a, b, c : <<a, b, c>> \in Seq({a, b, c}) /\ Len(<<a, b, c>>) = 3
    OBVIOUS
  <2> QED BY <2>1, <2>2, Zenon
<1>2. Front(impact) = SubSeq(impact, 1, 2)
  BY <1>1 DEF Front
<1> HIDE DEF T
<1>3. Len(SubSeq(impact, 1, 2)) = 2 /\ SubSeq(impact, 1, 2) \in Seq(T)
  BY <1>1, SubSeqProperties
<1>4. DOMAIN SubSeq(impact, 1, 2) = 1..2
  BY <1>3
<1>5. 3 \in 1..3 /\ 3 \notin 1..2
  OBVIOUS
<1> QED BY <1>2, <1>4, <1>5

-----------------------------------------------------------------------------
(***************************************************************************)
(* What an alteration of a plan changes.                                    *)
(***************************************************************************)
\* Which field of an operand was altered, and to what.
OperandAltered(operand, other) ==
  \E name \in {"actual", "passed", "evidence"} : \E value :
    /\ value # operand[name]
    /\ other = [operand EXCEPT ![name] = value]
    /\ name = "actual" => value \in OtherActuals(operand)
    /\ name = "passed" => value \in BOOLEAN
    /\ name = "evidence" => value \in {{}, {HorizonId}}

\* Which field of a trace, or which operand of it.
TraceAltered(trace, other) ==
  \/ \E i \in DOMAIN trace.operands : \E operand :
       /\ OperandAltered(trace.operands[i], operand)
       /\ other = [trace EXCEPT !.operands = [trace.operands EXCEPT ![i] = operand]]
  \/ \E name \in {"condition", "outcome", "evidence", "rule_id"} : \E value :
       /\ value # trace[name]
       /\ other = [trace EXCEPT ![name] = value]
       /\ name = "condition" => value = <<>>
       /\ name = "outcome" => value = "NOT_FIRED"
       /\ name = "rule_id" => value \in {RejectionRule, PositiveRules[1]}

\* Which field of an action.
ActionAltered(action, other) ==
  \E name \in {"action_type", "scope", "scope_refs", "evidence", "assumptions", "rules"} :
    \E value :
    /\ value # action[name]
    /\ other = [action EXCEPT ![name] = value]
    /\ name = "action_type" => value = "REJECT_PENDING_EVIDENCE"
    /\ name = "scope" => value = {"2026-06"}
    /\ name = "scope_refs" => value = {<<"2026-06">>}
    /\ name = "evidence" => value = {StitchId}
    /\ name = "assumptions" => value = {}
    /\ name = "rules" => value \in {{RejectionRule}, {PositiveRules[2]}}

\* An alteration of an operand is one of these.
LEMMA OperandForm ==
  ASSUME NEW operand, NEW form \in OtherOperands(operand)
  PROVE  OperandAltered(operand, form[2])
<1> DEFINE values == [ actual |-> OtherActuals(operand), passed |-> BOOLEAN,
                       evidence |-> {{}, {HorizonId}} ]
<1>1. form \in OtherForms(operand, values)
  BY DEF OtherOperands
<1>2. /\ DOMAIN values = {"actual", "passed", "evidence"}
      /\ values.actual = OtherActuals(operand) /\ values.passed = BOOLEAN
      /\ values.evidence = {{}, {HorizonId}}
  OBVIOUS
<1> HIDE DEF values
<1>3. /\ form[1] \in DOMAIN values
      /\ \E value \in values[form[1]] :
           value # operand[form[1]] /\ form[2] = [operand EXCEPT ![form[1]] = value]
  BY <1>1, FormNamed
<1>4. PICK value \in values[form[1]] :
        value # operand[form[1]] /\ form[2] = [operand EXCEPT ![form[1]] = value]
  BY <1>3
<1> DEFINE name == form[1]
<1>5. /\ name \in DOMAIN values /\ value \in values[name] /\ value # operand[name]
      /\ form[2] = [operand EXCEPT ![name] = value]
  BY <1>3, <1>4
<1> HIDE DEF name
<1>6. /\ name \in {"actual", "passed", "evidence"}
      /\ name = "actual" => value \in OtherActuals(operand)
      /\ name = "passed" => value \in BOOLEAN
      /\ name = "evidence" => value \in {{}, {HorizonId}}
  BY <1>2, <1>5
<1> QED BY <1>5, <1>6, Zenon DEF OperandAltered

\* An alteration of an action is one of these.
LEMMA ActionForm ==
  ASSUME NEW action, NEW form \in OtherActions(action)
  PROVE  ActionAltered(action, form[2])
<1> DEFINE values ==
      [ action_type |-> {"REJECT_PENDING_EVIDENCE"},
        scope |-> {{"2026-06"}}, scope_refs |-> {{<<"2026-06">>}},
        evidence |-> {{StitchId}}, assumptions |-> {{}},
        rules |-> {{RejectionRule}, {PositiveRules[2]}} ]
<1>1. form \in OtherForms(action, values)
  BY DEF OtherActions
<1>2. /\ DOMAIN values = {"action_type", "scope", "scope_refs", "evidence", "assumptions",
                          "rules"}
      /\ values.action_type = {"REJECT_PENDING_EVIDENCE"}
      /\ values.scope = {{"2026-06"}} /\ values.scope_refs = {{<<"2026-06">>}}
      /\ values.evidence = {{StitchId}} /\ values.assumptions = {{}}
      /\ values.rules = {{RejectionRule}, {PositiveRules[2]}}
  OBVIOUS
<1> HIDE DEF values
<1>3. /\ form[1] \in DOMAIN values
      /\ \E value \in values[form[1]] :
           value # action[form[1]] /\ form[2] = [action EXCEPT ![form[1]] = value]
  BY <1>1, FormNamed
<1>4. PICK value \in values[form[1]] :
        value # action[form[1]] /\ form[2] = [action EXCEPT ![form[1]] = value]
  BY <1>3
<1> DEFINE name == form[1]
<1>5. /\ name \in DOMAIN values /\ value \in values[name] /\ value # action[name]
      /\ form[2] = [action EXCEPT ![name] = value]
  BY <1>3, <1>4
<1> HIDE DEF name
<1>6. /\ name \in {"action_type", "scope", "scope_refs", "evidence", "assumptions", "rules"}
      /\ name = "action_type" => value = "REJECT_PENDING_EVIDENCE"
      /\ name = "scope" => value = {"2026-06"}
      /\ name = "scope_refs" => value = {<<"2026-06">>}
      /\ name = "evidence" => value = {StitchId}
      /\ name = "assumptions" => value = {}
      /\ name = "rules" => value \in {{RejectionRule}, {PositiveRules[2]}}
  BY <1>2, <1>5
<1> QED BY <1>5, <1>6, Zenon DEF ActionAltered

\* An alteration of a trace is one of these.
LEMMA TraceForm ==
  ASSUME NEW trace, NEW form \in OtherTraces(trace)
  PROVE  TraceAltered(trace, form[2])
<1>1. CASE \E i \in DOMAIN trace.operands : \E other \in OtherOperands(trace.operands[i]) :
             form = <<"operand", [trace EXCEPT !.operands[i] = other[2]]>>
  <2>1. PICK i \in DOMAIN trace.operands : \E other \in OtherOperands(trace.operands[i]) :
          form = <<"operand", [trace EXCEPT !.operands[i] = other[2]]>>
    BY <1>1
  <2>2. PICK other \in OtherOperands(trace.operands[i]) :
          form = <<"operand", [trace EXCEPT !.operands[i] = other[2]]>>
    BY <2>1
  <2>3. form[2] = [trace EXCEPT !.operands = [trace.operands EXCEPT ![i] = other[2]]]
    BY <2>2
  <2> QED BY <2>3, OperandForm DEF TraceAltered
<1>2. CASE ~ \E i \in DOMAIN trace.operands : \E other \in OtherOperands(trace.operands[i]) :
               form = <<"operand", [trace EXCEPT !.operands[i] = other[2]]>>
  <2> DEFINE values ==
        [ condition |-> {<<>>}, outcome |-> {"NOT_FIRED"},
          evidence |-> {{}, {HorizonId}, {ContractId}},
          rule_id |-> {RejectionRule, PositiveRules[1]} ]
  <2>1. form \in OtherForms(trace, values)
    BY <1>2, SMTT(60) DEF OtherTraces
  <2>2. /\ DOMAIN values = {"condition", "outcome", "evidence", "rule_id"}
        /\ values.condition = {<<>>} /\ values.outcome = {"NOT_FIRED"}
        /\ values.rule_id = {RejectionRule, PositiveRules[1]}
    OBVIOUS
  <2> HIDE DEF values
  <2>3. /\ form[1] \in DOMAIN values
        /\ \E value \in values[form[1]] :
             value # trace[form[1]] /\ form[2] = [trace EXCEPT ![form[1]] = value]
    BY <2>1, FormNamed
  <2>4. \E name \in {"condition", "outcome", "evidence", "rule_id"} : \E value :
          /\ value # trace[name]
          /\ form[2] = [trace EXCEPT ![name] = value]
          /\ name = "condition" => value = <<>>
          /\ name = "outcome" => value = "NOT_FIRED"
          /\ name = "rule_id" => value \in {RejectionRule, PositiveRules[1]}
    BY <2>2, <2>3
  <2> QED BY <2>4 DEF TraceAltered
<1> QED BY <1>1, <1>2

\* A plan takes a field of the other one, or all of it, or another action or trace.
PlanAltered(plan, other, name, new) ==
  \/ name = "plan" /\ new = other
  \/ /\ name \in PlanFields /\ other[name] # plan[name]
     /\ new = [plan EXCEPT ![name] = other[name]]
  \/ /\ name = "action"
     /\ \E i \in {1, Len(plan.actions)} : \E action :
          /\ ActionAltered(plan.actions[i], action)
          /\ new = [plan EXCEPT !.actions = [plan.actions EXCEPT ![i] = action]]
  \/ /\ name = "trace"
     /\ \E i \in {1, Len(plan.rule_trace)} : \E trace :
          /\ TraceAltered(plan.rule_trace[i], trace)
          /\ new = [plan EXCEPT !.rule_trace = [plan.rule_trace EXCEPT ![i] = trace]]

\* An alteration of a plan is one of these.
LEMMA PlanForm ==
  ASSUME NEW plan, NEW other, NEW changed \in OtherPlans(plan, other)
  PROVE  PlanAltered(plan, other, changed[1], changed[2])
<1> DEFINE Acted == \E i \in {1, Len(plan.actions)} :
                      \E form \in OtherActions(plan.actions[i]) :
                        changed = <<"action", [plan EXCEPT !.actions[i] = form[2]]>>
           Traced == \E i \in {1, Len(plan.rule_trace)} :
                       \E form \in OtherTraces(plan.rule_trace[i]) :
                         changed = <<"trace", [plan EXCEPT !.rule_trace[i] = form[2]]>>
<1>1. CASE changed = <<"plan", other>>
  BY <1>1 DEF PlanAltered
<1>2. CASE Acted
  <2>1. PICK i \in {1, Len(plan.actions)} : \E form \in OtherActions(plan.actions[i]) :
          changed = <<"action", [plan EXCEPT !.actions[i] = form[2]]>>
    BY <1>2
  <2>2. PICK form \in OtherActions(plan.actions[i]) :
          changed = <<"action", [plan EXCEPT !.actions[i] = form[2]]>>
    BY <2>1
  <2>3. /\ changed[1] = "action"
        /\ changed[2] = [plan EXCEPT !.actions = [plan.actions EXCEPT ![i] = form[2]]]
    BY <2>2
  <2>4. ActionAltered(plan.actions[i], form[2])
    BY ActionForm
  <2> QED BY <2>3, <2>4 DEF PlanAltered
<1>3. CASE Traced
  <2>1. PICK i \in {1, Len(plan.rule_trace)} : \E form \in OtherTraces(plan.rule_trace[i]) :
          changed = <<"trace", [plan EXCEPT !.rule_trace[i] = form[2]]>>
    BY <1>3
  <2>2. PICK form \in OtherTraces(plan.rule_trace[i]) :
          changed = <<"trace", [plan EXCEPT !.rule_trace[i] = form[2]]>>
    BY <2>1
  <2>3. /\ changed[1] = "trace"
        /\ changed[2] = [plan EXCEPT !.rule_trace = [plan.rule_trace EXCEPT ![i] = form[2]]]
    BY <2>2
  <2>4. TraceAltered(plan.rule_trace[i], form[2])
    BY TraceForm
  <2> QED BY <2>3, <2>4 DEF PlanAltered
<1>4. CASE changed # <<"plan", other>> /\ ~Acted /\ ~Traced
  <2> DEFINE values == [ plan_id |-> {other.plan_id},
                         recommendation |-> {other.recommendation},
                         actions |-> {other.actions}, rule_trace |-> {other.rule_trace} ]
             acting == UNION { { <<"action", [plan EXCEPT !.actions[i] = form[2]]>> :
                                   form \in OtherActions(plan.actions[i]) } :
                                 i \in {1, Len(plan.actions)} }
             tracing == UNION { { <<"trace", [plan EXCEPT !.rule_trace[i] = form[2]]>> :
                                    form \in OtherTraces(plan.rule_trace[i]) } :
                                  i \in {1, Len(plan.rule_trace)} }
  <2>1. OtherPlans(plan, other)
          = OtherForms(plan, values) \cup {<<"plan", other>>} \cup acting \cup tracing
    BY Zenon DEF OtherPlans
  <2>2. changed \notin acting
    BY <1>4, Zenon
  <2>3. changed \notin tracing
    BY <1>4, Zenon
  <2>4. changed \in OtherForms(plan, values)
    <3> HIDE DEF acting, tracing, values, Acted, Traced
    <3> QED BY <1>4, <2>1, <2>2, <2>3
  <2>5. /\ DOMAIN values = PlanFields
        /\ \A name \in PlanFields : values[name] = {other[name]}
    BY DEF PlanFields
  <2> HIDE DEF values
  <2>6. /\ changed[1] \in DOMAIN values
        /\ \E value \in values[changed[1]] :
             value # plan[changed[1]] /\ changed[2] = [plan EXCEPT ![changed[1]] = value]
    BY <2>4, FormNamed
  <2>7. other[changed[1]] # plan[changed[1]]
          /\ changed[2] = [plan EXCEPT ![changed[1]] = other[changed[1]]]
    <3>1. PICK value \in values[changed[1]] :
            value # plan[changed[1]] /\ changed[2] = [plan EXCEPT ![changed[1]] = value]
      BY <2>6
    <3>2. value = other[changed[1]]
      BY <2>5, <2>6, <3>1
    <3> QED BY <3>1, <3>2, Zenon
  <2> QED BY <2>5, <2>6, <2>7 DEF PlanAltered
<1> QED BY <1>1, <1>2, <1>3, <1>4

\* The fields of operands, traces and actions.
OperandFieldNames == {"name", "operator", "actual", "expected", "passed", "evidence"}
TraceFieldNames   == {"rule_id", "condition", "outcome", "operands", "evidence"}
ActionFieldNames  ==
  {"action_type", "scope", "scope_refs", "evidence", "assumptions", "rules"}

\* An altered operand, trace or action is another one.
LEMMA OperandDiffers ==
  ASSUME NEW operand, NEW other, OperandAltered(operand, other),
         OperandFieldNames \subseteq DOMAIN operand
  PROVE  /\ other # operand /\ DOMAIN other = DOMAIN operand
         /\ other.name = operand.name
<1>1. PICK name \in {"actual", "passed", "evidence"} : \E value :
        value # operand[name] /\ other = [operand EXCEPT ![name] = value]
  BY DEF OperandAltered
<1>2. PICK value : value # operand[name] /\ other = [operand EXCEPT ![name] = value]
  BY <1>1
<1>3. name \in DOMAIN operand /\ "name" \in DOMAIN operand /\ name # "name"
  BY DEF OperandFieldNames
<1>4. other[name] = value /\ other.name = operand.name /\ DOMAIN other = DOMAIN operand
  BY <1>2, <1>3
<1> QED BY <1>2, <1>4

\* An altered action is another one.
LEMMA ActionDiffers ==
  ASSUME NEW action, NEW other, ActionAltered(action, other),
         ActionFieldNames \subseteq DOMAIN action
  PROVE  other # action
<1>1. PICK name \in ActionFieldNames : \E value :
        value # action[name] /\ other = [action EXCEPT ![name] = value]
  BY DEF ActionAltered, ActionFieldNames
<1>2. PICK value : value # action[name] /\ other = [action EXCEPT ![name] = value]
  BY <1>1
<1>3. other[name] = value
  BY <1>2
<1> QED BY <1>2, <1>3

\* A complete trace of complete operands.
TraceOfOperands(trace) ==
  /\ TraceFieldNames \subseteq DOMAIN trace
  /\ \A k \in DOMAIN trace.operands : OperandFieldNames \subseteq DOMAIN trace.operands[k]

\* An altered trace is another one.
LEMMA TraceDiffers ==
  ASSUME NEW trace, NEW other, TraceAltered(trace, other), TraceOfOperands(trace)
  PROVE  other # trace
<1>1. CASE \E i \in DOMAIN trace.operands : \E operand :
             /\ OperandAltered(trace.operands[i], operand)
             /\ other = [trace EXCEPT !.operands = [trace.operands EXCEPT ![i] = operand]]
  <2>1. PICK i \in DOMAIN trace.operands : \E operand :
             /\ OperandAltered(trace.operands[i], operand)
             /\ other = [trace EXCEPT !.operands = [trace.operands EXCEPT ![i] = operand]]
    BY <1>1
  <2>2. PICK operand :
             /\ OperandAltered(trace.operands[i], operand)
             /\ other = [trace EXCEPT !.operands = [trace.operands EXCEPT ![i] = operand]]
    BY <2>1
  <2>3. operand # trace.operands[i]
    BY <2>2, OperandDiffers DEF TraceOfOperands
  <2>4. "operands" \in DOMAIN trace
    BY DEF TraceOfOperands, TraceFieldNames
  <2>5. other.operands[i] = operand
    BY <2>2, <2>4
  <2> QED BY <2>3, <2>5
<1>2. CASE \E name \in {"condition", "outcome", "evidence", "rule_id"} : \E value :
             value # trace[name] /\ other = [trace EXCEPT ![name] = value]
  <2>1. PICK name \in {"condition", "outcome", "evidence", "rule_id"} : \E value :
          value # trace[name] /\ other = [trace EXCEPT ![name] = value]
    BY <1>2
  <2>2. PICK value : value # trace[name] /\ other = [trace EXCEPT ![name] = value]
    BY <2>1
  <2>3. name \in DOMAIN trace
    BY DEF TraceOfOperands, TraceFieldNames
  <2>4. other[name] = value
    BY <2>2, <2>3
  <2> QED BY <2>2, <2>4
<1> QED BY <1>1, <1>2 DEF TraceAltered

\* The items of a rejection and of the restatement are complete.
LEMMA ItemFields ==
  /\ \A type, scope, refs, evidences, assumption, rule :
       DOMAIN Action(type, scope, refs, evidences, assumption, rule) = ActionFieldNames
  /\ \A rule, operands, evidences :
       DOMAIN RuleTraceEntry(rule, operands, evidences) = TraceFieldNames
  /\ \A name, operator, actual, expected, passed, evidences :
       DOMAIN Operand(name, operator, actual, expected, passed, evidences)
         = OperandFieldNames
BY DEF Action, RuleTraceEntry, Operand, ActionFieldNames, TraceFieldNames, OperandFieldNames

\* So are the operands of the gate when all pass.
LEMMA PassingOperandsComplete ==
  \A i \in 1..8 : OperandFieldNames \subseteq DOMAIN PassingOperands[i]
<1>1. \A i : i \in 1..8 <=> i \in {1, 2, 3, 4, 5, 6, 7, 8}
  OBVIOUS
<1>2. OperandFieldNames \subseteq DOMAIN PassingOperands[1]
  BY ItemFields DEF PassingOperands
<1>3. OperandFieldNames \subseteq DOMAIN PassingOperands[2]
  BY ItemFields DEF PassingOperands
<1>4. OperandFieldNames \subseteq DOMAIN PassingOperands[3]
  BY ItemFields DEF PassingOperands
<1>5. OperandFieldNames \subseteq DOMAIN PassingOperands[4]
  BY ItemFields DEF PassingOperands
<1>6. OperandFieldNames \subseteq DOMAIN PassingOperands[5]
  BY ItemFields DEF PassingOperands
<1>7. OperandFieldNames \subseteq DOMAIN PassingOperands[6]
  BY ItemFields DEF PassingOperands
<1>8. OperandFieldNames \subseteq DOMAIN PassingOperands[7]
  BY ItemFields DEF PassingOperands
<1>9. OperandFieldNames \subseteq DOMAIN PassingOperands[8]
  BY ItemFields DEF PassingOperands
<1> QED BY <1>1, <1>2, <1>3, <1>4, <1>5, <1>6, <1>7, <1>8, <1>9

\* The restatement has four actions and four traces.
LEMMA RestatementItems ==
  /\ DOMAIN TheRestatement.actions = 1..4
  /\ \A i \in 1..4 : ActionFieldNames \subseteq DOMAIN TheRestatement.actions[i]
  /\ DOMAIN TheRestatement.rule_trace = 1..4
  /\ \A i \in 1..4 : TraceOfOperands(TheRestatement.rule_trace[i])
<1> DEFINE actions == TheRestatement.actions
           traces == TheRestatement.rule_trace
<1>1. /\ DOMAIN actions = 1..4
      /\ \A i \in 1..4 : \E type, scope, refs, evidences, assumption, rule :
           actions[i] = Action(type, scope, refs, evidences, assumption, rule)
  BY DEF TheRestatement, PartialRestatement
<1>2. /\ DOMAIN traces = 1..4
      /\ \A i \in 1..4 : \E rule, evidences :
           traces[i] = RuleTraceEntry(rule, OperandsOfRule(PassingOperands)[i], evidences)
  BY DEF TheRestatement, PartialRestatement
<1>3. \A i \in 1..4 : \A k \in DOMAIN OperandsOfRule(PassingOperands)[i] :
        OperandFieldNames \subseteq DOMAIN OperandsOfRule(PassingOperands)[i][k]
  BY OperandsOfRules, PassingOperandsComplete
<1>4. ASSUME NEW i \in 1..4 PROVE TraceOfOperands(traces[i])
  <2>1. PICK rule, evidences :
          traces[i] = RuleTraceEntry(rule, OperandsOfRule(PassingOperands)[i], evidences)
    BY <1>2
  <2>2. traces[i].operands = OperandsOfRule(PassingOperands)[i]
    BY <2>1 DEF RuleTraceEntry
  <2> HIDE DEF traces
  <2>3. TraceFieldNames \subseteq DOMAIN traces[i]
    BY <2>1, ItemFields
  <2> QED BY <1>3, <2>2, <2>3 DEF TraceOfOperands
<1> HIDE DEF actions, traces
<1>5. \A i \in 1..4 : ActionFieldNames \subseteq DOMAIN actions[i]
  BY <1>1, ItemFields
<1> QED BY <1>1, <1>2, <1>4, <1>5 DEF actions, traces

-----------------------------------------------------------------------------
(***************************************************************************)
(* A plan is followed when it is altered.                                   *)
(***************************************************************************)
\* A sequence of one item, and with another item in its place.
LEMMA Lengths ==
  /\ \A x : Len(<<x>>) = 1 /\ DOMAIN <<x>> = {1} /\ <<x>>[1] = x
  /\ \A x, y : [<<x>> EXCEPT ![1] = y] = <<y>>
OBVIOUS

\* A rejection by the gate with another action is none.
LEMMA ForgedRefusal ==
  ASSUME NEW actions, RefusalActions(actions), NEW other, ActionAltered(actions[1], other)
  PROVE  ~RefusalActions(<<other>>)
<1> SUFFICES ASSUME RefusalActions(<<other>>) PROVE FALSE
  OBVIOUS
<1> DEFINE action == actions[1]
           Refusing(act) == Action("REJECT_PENDING_EVIDENCE", CohortNames, act.scope_refs,
                                   act.evidence, {}, RejectionRule)
<1>1. /\ action = Refusing(action) /\ other = Refusing(other)
      /\ <<"2026-06">> \notin other.scope_refs /\ StitchId \notin other.evidence
  BY Lengths DEF RefusalActions
<1>2. \A act : act = Refusing(act) =>
        /\ act.action_type = "REJECT_PENDING_EVIDENCE" /\ act.scope = CohortNames
        /\ act.assumptions = {} /\ act.rules = {RejectionRule}
        /\ DOMAIN act = ActionFieldNames
  BY DEF Action, ActionFieldNames
<1>3. PICK name \in ActionFieldNames : \E value :
        /\ value # action[name]
        /\ other = [action EXCEPT ![name] = value]
        /\ name = "action_type" => value = "REJECT_PENDING_EVIDENCE"
        /\ name = "scope" => value = {"2026-06"}
        /\ name = "scope_refs" => value = {<<"2026-06">>}
        /\ name = "evidence" => value = {StitchId}
        /\ name = "assumptions" => value = {}
        /\ name = "rules" => value \in {{RejectionRule}, {PositiveRules[2]}}
  BY DEF ActionAltered, ActionFieldNames
<1>4. PICK value :
        /\ value # action[name]
        /\ other = [action EXCEPT ![name] = value]
        /\ name = "action_type" => value = "REJECT_PENDING_EVIDENCE"
        /\ name = "scope" => value = {"2026-06"}
        /\ name = "scope_refs" => value = {<<"2026-06">>}
        /\ name = "evidence" => value = {StitchId}
        /\ name = "assumptions" => value = {}
        /\ name = "rules" => value \in {{RejectionRule}, {PositiveRules[2]}}
  BY <1>3
<1> HIDE DEF action, Refusing
<1>5. /\ action.action_type = "REJECT_PENDING_EVIDENCE" /\ action.scope = CohortNames
      /\ action.assumptions = {} /\ action.rules = {RejectionRule}
      /\ other.action_type = "REJECT_PENDING_EVIDENCE" /\ other.scope = CohortNames
      /\ other.assumptions = {} /\ other.rules = {RejectionRule}
      /\ DOMAIN action = ActionFieldNames
  BY <1>1, <1>2
<1>6. other[name] = value
  BY <1>3, <1>4, <1>5
<1>7. name \notin {"action_type", "scope", "assumptions", "rules"}
  <2>1. {"2026-06"} # CohortNames
    BY ThreeCohortNames
  <2>2. PositiveRules[2] # RejectionRule
    BY DEF PositiveRules, RejectionRule
  <2>3. {PositiveRules[2]} # {RejectionRule}
    BY <2>2
  <2> QED BY <1>4, <1>5, <1>6, <2>1, <2>3
<1> QED BY <1>1, <1>3, <1>4, <1>6, <1>7 DEF ActionFieldNames

\* The actions of a plan with another first or last action.
LEMMA ActionsStay ==
  ASSUME NEW id \in {PositiveId, GateId}, NEW actions, NEW foreign \in BOOLEAN,
         ActionsFollowed(id, actions, foreign, FALSE),
         NEW i \in {1, Len(actions)}, NEW other, ActionAltered(actions[i], other),
         NEW value, value = [actions EXCEPT ![i] = other]
  PROVE  ActionsFollowed(id, value, foreign, TRUE)
<1>1. CASE foreign
  <2>1. /\ actions = <<actions[1]>> /\ "scope_refs" \in DOMAIN actions[1]
        /\ actions[1].scope_refs \in {{ConfoundedAnalysisId}, {<<"2026-06">>}}
    BY <1>1 DEF ActionsFollowed, ForeignActions
  <2>2. i = 1 /\ value = <<other>>
    BY <2>1, Lengths
  <2>3. PICK name : \E new : /\ other = [actions[1] EXCEPT ![name] = new]
                             /\ name = "scope_refs" => new = {<<"2026-06">>}
    BY <2>2 DEF ActionAltered
  <2>4. PICK new : /\ other = [actions[1] EXCEPT ![name] = new]
                   /\ name = "scope_refs" => new = {<<"2026-06">>}
    BY <2>3
  <2>5. /\ "scope_refs" \in DOMAIN other
        /\ other.scope_refs \in {{ConfoundedAnalysisId}, {<<"2026-06">>}}
    BY <2>1, <2>4
  <2>6. ForeignActions(value)
    BY <2>2, <2>5, Lengths DEF ForeignActions
  <2> QED BY <1>1, <2>6 DEF ActionsFollowed
<1>2. CASE ~foreign /\ id = PositiveId
  <2>1. actions = TheRestatement.actions
    BY <1>2 DEF ActionsFollowed, LegitActions
  <2>2. DOMAIN actions = 1..4 /\ \A k \in 1..4 : ActionFieldNames \subseteq DOMAIN actions[k]
    BY <2>1, RestatementItems
  <2>3. Len(actions) = 4
    BY <2>2
  <2>4. i \in 1..4
    BY <2>3
  <2>5. other # actions[i]
    BY <2>2, <2>4, ActionDiffers
  <2>6. value[i] = other
    BY <2>2, <2>4
  <2>7. ~LegitActions(id, value)
    BY <1>2, <2>1, <2>5, <2>6 DEF LegitActions
  <2> QED BY <1>2, <2>7 DEF ActionsFollowed
<1>3. CASE ~foreign /\ id = GateId
  <2>1. RefusalActions(actions)
    BY <1>3 DEF ActionsFollowed, LegitActions, PositiveId, GateId
  <2>2. \E x : actions = <<x>>
    BY <2>1 DEF RefusalActions
  <2>3. i = 1 /\ value = <<other>>
    BY <2>2, Lengths
  <2>4. ~RefusalActions(value)
    BY <2>1, <2>3, ForgedRefusal
  <2>5. ~LegitActions(id, value)
    BY <1>3, <2>4 DEF LegitActions, PositiveId, GateId
  <2> QED BY <1>3, <2>5 DEF ActionsFollowed
<1> QED BY <1>1, <1>2, <1>3

\* An operand of a rejection that was altered is none of a rejection.
LEMMA ForgedOperand ==
  ASSUME NEW operands, NEW controls, OriginalOperands(operands, controls),
         NEW i \in DOMAIN operands, NEW other, OperandAltered(operands[i], other)
  PROVE  ~RefusalOperands([operands EXCEPT ![i] = other])
<1> SUFFICES ASSUME RefusalOperands([operands EXCEPT ![i] = other]) PROVE FALSE
  OBVIOUS
<1> DEFINE new == [operands EXCEPT ![i] = other]
           operand == operands[i]
<1>1. DOMAIN new = DOMAIN operands /\ new[i] = other
  OBVIOUS
<1>2. i \in {1, 6, 8} /\ RefusalOperands(operands)
  BY DEF OriginalOperands
<1>3. PICK name \in {"actual", "passed", "evidence"} : \E value :
        /\ value # operand[name] /\ other = [operand EXCEPT ![name] = value]
        /\ name = "actual" => value \in OtherActuals(operand)
  BY DEF OperandAltered
<1>4. PICK value :
        /\ value # operand[name] /\ other = [operand EXCEPT ![name] = value]
        /\ name = "actual" => value \in OtherActuals(operand)
  BY <1>3
<1> HIDE DEF new
<1>5. CASE i = 1
  <2>1. /\ operand = Operand("horizon_restatement_coverage", "EQUALS", operand.actual,
                             "PARTIAL", FALSE, {HorizonId})
        /\ operand.actual = "COMPLETE"
    BY <1>2, <1>5 DEF RefusalOperands, OriginalOperands
  <2>2. other = Operand("horizon_restatement_coverage", "EQUALS", other.actual, "PARTIAL",
                        FALSE, {HorizonId})
    BY <1>1, <1>5 DEF RefusalOperands, new
  <2> HIDE DEF operand
  <2>3. /\ operand.name = "horizon_restatement_coverage" /\ operand.operator = "EQUALS"
        /\ operand.passed = FALSE /\ operand.evidence = {HorizonId}
        /\ other.passed = FALSE /\ other.evidence = {HorizonId}
        /\ DOMAIN operand = OperandFieldNames
    BY <2>1, <2>2 DEF Operand, OperandFieldNames
  <2>4. OtherActuals(operand) = {"COMPLETE"}
    BY <2>3 DEF OtherActuals
  <2>5. other[name] = value
    BY <1>3, <1>4, <2>3 DEF OperandFieldNames
  <2> QED BY <1>3, <1>4, <2>1, <2>3, <2>4, <2>5
<1>6. CASE i = 6
  <2> DEFINE history == Operand("non_reconstructable_history_reference", "RESOLVES",
                                NonReconstructableCohort, "NOT_RECONSTRUCTABLE", FALSE,
                                {"2.0.0"} \X {NonReconstructableCohort})
  <2>1. operand = history
    BY <1>2, <1>6 DEF RefusalOperands
  <2>2. other = history
    BY <1>1, <1>6 DEF RefusalOperands, new
  <2> HIDE DEF operand
  <2>3. DOMAIN operand = OperandFieldNames
    BY <2>1 DEF Operand, OperandFieldNames
  <2> HIDE DEF history
  <2>4. other[name] = value
    BY <1>3, <1>4, <2>3 DEF OperandFieldNames
  <2> QED BY <1>4, <2>1, <2>2, <2>4
<1>7. CASE i = 8
  <2>1. operand = Operand("required_control_results", "ALL_TRUE", operand.actual, AllPass,
                          FALSE, {<<id>> : id \in ControlIds})
    BY <1>2, <1>7 DEF RefusalOperands
  <2>2. /\ other = Operand("required_control_results", "ALL_TRUE", other.actual, AllPass,
                           FALSE, {<<id>> : id \in ControlIds})
        /\ other.actual # AllPass
    BY <1>1, <1>7 DEF RefusalOperands, new
  <2> HIDE DEF operand
  <2>3. /\ operand.name = "required_control_results" /\ operand.operator = "ALL_TRUE"
        /\ operand.expected = AllPass
        /\ operand.passed = FALSE /\ operand.evidence = {<<id>> : id \in ControlIds}
        /\ other.passed = FALSE /\ other.evidence = {<<id>> : id \in ControlIds}
        /\ DOMAIN operand = OperandFieldNames
    BY <2>1, <2>2 DEF Operand, OperandFieldNames
  <2>4. OtherActuals(operand) = {AllPass}
    BY <2>3 DEF OtherActuals
  <2>5. other[name] = value
    BY <1>3, <1>4, <2>3 DEF OperandFieldNames
  <2> QED BY <1>3, <1>4, <2>2, <2>3, <2>4, <2>5
<1> QED BY <1>2, <1>5, <1>6, <1>7

\* So is its trace.
LEMMA ForgedTrace ==
  ASSUME NEW operands, NEW controls, OriginalOperands(operands, controls),
         NEW trace, trace = RuleTraceEntry(RejectionRule, operands, CitedBy(operands)),
         NEW other, TraceAltered(trace, other)
  PROVE  ~ /\ other = RuleTraceEntry(RejectionRule, other.operands, CitedBy(other.operands))
           /\ RefusalOperands(other.operands)
<1> SUFFICES ASSUME other = RuleTraceEntry(RejectionRule, other.operands,
                                           CitedBy(other.operands)),
                    RefusalOperands(other.operands)
             PROVE  FALSE
  OBVIOUS
<1>1. DOMAIN trace = TraceFieldNames /\ trace.operands = operands
  BY ItemFields DEF RuleTraceEntry
<1>2. CASE \E i \in DOMAIN trace.operands : \E operand :
             /\ OperandAltered(trace.operands[i], operand)
             /\ other = [trace EXCEPT !.operands = [trace.operands EXCEPT ![i] = operand]]
  <2>1. PICK i \in DOMAIN trace.operands : \E operand :
             /\ OperandAltered(trace.operands[i], operand)
             /\ other = [trace EXCEPT !.operands = [trace.operands EXCEPT ![i] = operand]]
    BY <1>2
  <2>2. PICK operand :
             /\ OperandAltered(trace.operands[i], operand)
             /\ other = [trace EXCEPT !.operands = [trace.operands EXCEPT ![i] = operand]]
    BY <2>1
  <2>3. other.operands = [operands EXCEPT ![i] = operand]
    BY <1>1, <2>2 DEF TraceFieldNames
  <2> QED BY <1>1, <2>2, <2>3, ForgedOperand
<1>3. CASE \E name \in {"condition", "outcome", "evidence", "rule_id"} : \E value :
             value # trace[name] /\ other = [trace EXCEPT ![name] = value]
  <2>1. PICK name \in {"condition", "outcome", "evidence", "rule_id"} : \E value :
          value # trace[name] /\ other = [trace EXCEPT ![name] = value]
    BY <1>3
  <2>2. PICK value : value # trace[name] /\ other = [trace EXCEPT ![name] = value]
    BY <2>1
  <2>3. other[name] = value /\ other.operands = operands
    BY <1>1, <2>1, <2>2 DEF TraceFieldNames
  <2>4. other = trace
    BY <2>3
  <2> QED BY <2>2, <2>3, <2>4
<1> QED BY <1>2, <1>3 DEF TraceAltered

\* The traces of a plan with another first or last trace.
LEMMA TracesStay ==
  ASSUME NEW id \in {PositiveId, GateId}, NEW traces, NEW foreign \in BOOLEAN, NEW controls,
         TracesFollowed(id, traces, foreign, FALSE, controls),
         NEW i \in {1, Len(traces)}, NEW other, TraceAltered(traces[i], other),
         NEW value, value = [traces EXCEPT ![i] = other]
  PROVE  TracesFollowed(id, value, foreign, TRUE, controls)
<1>1. CASE foreign
  <2>1. ForeignTraces(traces)
    BY <1>1 DEF TracesFollowed
  <2>2. i = 1 /\ value = <<other>>
    <3>1. traces = <<traces[1]>>
      BY <2>1 DEF ForeignTraces
    <3> QED BY <3>1, Lengths
  <2>3. /\ "operands" \in DOMAIN traces[1] /\ DOMAIN traces[1].operands = {1}
        /\ "name" \in DOMAIN traces[1].operands[1]
        /\ traces[1].operands[1].name = "definition_only_attribution_valid"
    BY <2>1 DEF ForeignTraces
  <2>4. /\ "operands" \in DOMAIN other /\ DOMAIN other.operands = {1}
        /\ "name" \in DOMAIN other.operands[1]
        /\ other.operands[1].name = "definition_only_attribution_valid"
    BY <2>2, <2>3 DEF TraceAltered, OperandAltered
  <2>5. ForeignTraces(value)
    BY <2>2, <2>4, Lengths DEF ForeignTraces
  <2> QED BY <1>1, <2>5 DEF TracesFollowed
<1>2. CASE ~foreign /\ id = PositiveId
  <2>1. traces = TheRestatement.rule_trace
    BY <1>2 DEF TracesFollowed, OriginalTraces
  <2>2. DOMAIN traces = 1..4 /\ \A k \in 1..4 : TraceOfOperands(traces[k])
    BY <2>1, RestatementItems
  <2>3. Len(traces) = 4
    BY <2>2
  <2>4. i \in 1..4
    BY <2>3
  <2>5. other # traces[i]
    BY <2>2, <2>4, TraceDiffers
  <2>6. value[i] = other
    BY <2>2, <2>4
  <2>7. ~LegitTraces(id, value)
    BY <1>2, <2>1, <2>5, <2>6 DEF LegitTraces
  <2> QED BY <1>2, <2>7 DEF TracesFollowed
<1>3. CASE ~foreign /\ id = GateId
  <2>1. traces = TraceOf(traces[1].operands) /\ OriginalOperands(traces[1].operands, controls)
    BY <1>3 DEF TracesFollowed, OriginalTraces, PositiveId, GateId
  <2>2. \E x : traces = <<x>>
    BY <2>1 DEF TraceOf
  <2>3. i = 1 /\ value = <<other>>
    BY <2>2, Lengths
  <2>4. traces[1] = RuleTraceEntry(RejectionRule, traces[1].operands,
                                   CitedBy(traces[1].operands))
    BY <2>1, Lengths DEF TraceOf
  <2>5. ~ /\ other = RuleTraceEntry(RejectionRule, other.operands, CitedBy(other.operands))
          /\ RefusalOperands(other.operands)
    BY <2>1, <2>3, <2>4, ForgedTrace
  <2>6. ~LegitTraces(id, value)
    BY <1>3, <2>3, <2>5, Lengths DEF LegitTraces, TraceOf, PositiveId, GateId
  <2> QED BY <1>3, <2>6 DEF TracesFollowed
<1> QED BY <1>1, <1>2, <1>3

\* The refusal's parts.
LEMMA RefusalParts ==
  /\ DOMAIN TheRefusal = PlanFields
  /\ TheRefusal.plan_id = RefusedId
  /\ TheRefusal.recommendation = "REJECT_PENDING_EVIDENCE"
  /\ ForeignActions(TheRefusal.actions)
  /\ ForeignTraces(TheRefusal.rule_trace)
<1> DEFINE operands == << Equals("definition_only_attribution_valid", FALSE, TRUE,
                                 {ConfoundedAnalysisId}) >>
           action == Action("REJECT_PENDING_EVIDENCE", CohortNames, {ConfoundedAnalysisId},
                            CitedBy(operands), {}, RejectionRule)
           trace == RuleTraceEntry(RejectionRule, operands, CitedBy(operands))
<1>1. /\ DOMAIN TheRefusal = PlanFields
      /\ TheRefusal.plan_id = RefusedId
      /\ TheRefusal.recommendation = "REJECT_PENDING_EVIDENCE"
      /\ TheRefusal.actions = <<action>> /\ TheRefusal.rule_trace = <<trace>>
  BY DEF TheRefusal, Rejection, PlanFields
<1>2. "scope_refs" \in DOMAIN action /\ action.scope_refs = {ConfoundedAnalysisId}
  BY DEF Action
<1>3. "operands" \in DOMAIN trace /\ trace.operands = operands
  BY DEF RuleTraceEntry
<1>4. /\ DOMAIN operands = {1} /\ "name" \in DOMAIN operands[1]
      /\ operands[1].name = "definition_only_attribution_valid"
  BY DEF Equals, Operand
<1> HIDE DEF operands, action, trace
<1> QED BY <1>1, <1>2, <1>3, <1>4, Lengths DEF ForeignActions, ForeignTraces

\* The plan with another field, action or trace, or with a part of the refusal.
LEMMA PlanStays ==
  ASSUME NEW plan, NEW L, NEW controls, PlanFollowed(plan, L, controls),
         PlanFields \subseteq DOMAIN plan,
         NEW changed \in OtherPlans(plan, TheRefusal), <<"plan", changed[1]>> \notin L
  PROVE  PlanFollowed(changed[2], L \cup {<<"plan", changed[1]>>}, controls)
<1> DEFINE M == L \cup {<<"plan", changed[1]>>}
           form == changed[1]
           new == changed[2]
           forged(name) == <<"plan", name>> \in L
           Renamed == forged("plan") \/ forged("plan_id")
<1>1. \A name : <<"plan", name>> \in M <=> forged(name) \/ name = form
  OBVIOUS
<1>2. <<"plan", form>> \notin L
  OBVIOUS
<1>3. \/ form = "plan" /\ new = TheRefusal
      \/ /\ form \in PlanFields /\ TheRefusal[form] # plan[form]
         /\ new = [plan EXCEPT ![form] = TheRefusal[form]]
      \/ /\ form = "action"
         /\ \E i \in {1, Len(plan.actions)} : \E action :
              /\ ActionAltered(plan.actions[i], action)
              /\ new = [plan EXCEPT !.actions = [plan.actions EXCEPT ![i] = action]]
      \/ /\ form = "trace"
         /\ \E i \in {1, Len(plan.rule_trace)} : \E trace :
              /\ TraceAltered(plan.rule_trace[i], trace)
              /\ new = [plan EXCEPT !.rule_trace = [plan.rule_trace EXCEPT ![i] = trace]]
  <2>1. PlanAltered(plan, TheRefusal, changed[1], changed[2])
    BY PlanForm
  <2> QED BY <2>1 DEF PlanAltered
<1> HIDE DEF M, form, new
<1> SUFFICES PlanFollowed(new, M, controls)
  BY DEF M, form, new
<1>4. CASE form \in {"plan", "plan_id"}
  <2>1. new.plan_id = RefusedId
    BY <1>3, <1>4, RefusalParts DEF PlanFields
  <2> QED BY <1>1, <1>4, <2>1 DEF PlanFollowed
<1>5. CASE Renamed /\ form \notin {"plan", "plan_id"}
  <2>1. plan.plan_id = RefusedId
    BY <1>5 DEF PlanFollowed
  <2>2. new.plan_id = plan.plan_id
    BY <1>3, <1>5 DEF PlanFields
  <2> QED BY <1>1, <1>5, <2>1, <2>2 DEF PlanFollowed
<1>6. CASE ~Renamed /\ form \notin {"plan", "plan_id"}
  <2>1. /\ plan.plan_id \in {PositiveId, GateId}
        /\ RecommendationFollowed(plan.plan_id, plan.recommendation,
                                  forged("recommendation"))
        /\ ActionsFollowed(plan.plan_id, plan.actions, forged("actions"), forged("action"))
        /\ TracesFollowed(plan.plan_id, plan.rule_trace, forged("rule_trace"),
                          forged("trace"), controls)
    BY <1>6 DEF PlanFollowed
  <2>2. new.plan_id = plan.plan_id
    BY <1>3, <1>6 DEF PlanFields
  <2>3. SUFFICES
          /\ RecommendationFollowed(plan.plan_id, new.recommendation,
                                    forged("recommendation") \/ form = "recommendation")
          /\ ActionsFollowed(plan.plan_id, new.actions, forged("actions") \/ form = "actions",
                             forged("action") \/ form = "action")
          /\ TracesFollowed(plan.plan_id, new.rule_trace,
                            forged("rule_trace") \/ form = "rule_trace",
                            forged("trace") \/ form = "trace", controls)
    BY <1>1, <1>6, <2>1, <2>2 DEF PlanFollowed
  <2> HIDE DEF forged
  <2>4. CASE form = "recommendation"
    <3>1. /\ new.recommendation = "REJECT_PENDING_EVIDENCE"
          /\ plan.recommendation # "REJECT_PENDING_EVIDENCE"
          /\ new.actions = plan.actions /\ new.rule_trace = plan.rule_trace
      BY <1>3, <2>4, RefusalParts DEF PlanFields
    <3>2. ~forged("recommendation")
      BY <1>2, <2>4 DEF forged
    <3>3. RecommendationFollowed(plan.plan_id, new.recommendation,
                                 forged("recommendation") \/ form = "recommendation")
      BY <2>1, <2>4, <3>1, <3>2 DEF RecommendationFollowed
    <3> QED BY <2>1, <2>4, <3>1, <3>3 DEF ActionsFollowed, TracesFollowed
  <2>5. CASE form = "actions"
    <3>1. /\ new.actions = TheRefusal.actions
          /\ new.recommendation = plan.recommendation /\ new.rule_trace = plan.rule_trace
      BY <1>3, <2>5 DEF PlanFields
    <3>2. ForeignActions(new.actions)
      BY <3>1, RefusalParts
    <3> QED BY <2>1, <2>5, <3>1, <3>2
         DEF RecommendationFollowed, ActionsFollowed, TracesFollowed
  <2>6. CASE form = "rule_trace"
    <3>1. /\ new.rule_trace = TheRefusal.rule_trace
          /\ new.recommendation = plan.recommendation /\ new.actions = plan.actions
      BY <1>3, <2>6 DEF PlanFields
    <3>2. ForeignTraces(new.rule_trace)
      BY <3>1, RefusalParts
    <3> QED BY <2>1, <2>6, <3>1, <3>2
         DEF RecommendationFollowed, ActionsFollowed, TracesFollowed
  <2>7. CASE form = "action"
    <3>1. \E i \in {1, Len(plan.actions)} : \E action :
            /\ ActionAltered(plan.actions[i], action)
            /\ new = [plan EXCEPT !.actions = [plan.actions EXCEPT ![i] = action]]
      BY <1>3, <2>7 DEF PlanFields
    <3>2. PICK i \in {1, Len(plan.actions)} : \E action :
            /\ ActionAltered(plan.actions[i], action)
            /\ new = [plan EXCEPT !.actions = [plan.actions EXCEPT ![i] = action]]
      BY <3>1
    <3>3. PICK action :
            /\ ActionAltered(plan.actions[i], action)
            /\ new = [plan EXCEPT !.actions = [plan.actions EXCEPT ![i] = action]]
      BY <3>2
    <3>4. /\ new.actions = [plan.actions EXCEPT ![i] = action]
          /\ new.recommendation = plan.recommendation /\ new.rule_trace = plan.rule_trace
      BY <3>3 DEF PlanFields
    <3>5. ~forged("action")
      BY <1>2, <2>7 DEF forged
    <3>6. ActionsFollowed(plan.plan_id, plan.actions, forged("actions"), FALSE)
      BY <2>1, <3>5 DEF ActionsFollowed
    <3>7. ActionsFollowed(plan.plan_id, new.actions, forged("actions"), TRUE)
      <4> DEFINE foreign == forged("actions")
                 old == plan.actions
                 value == new.actions
                 id == plan.plan_id
      <4>1. foreign \in BOOLEAN /\ id \in {PositiveId, GateId}
        BY <2>1 DEF forged
      <4>3. i \in {1, Len(old)} /\ ActionAltered(old[i], action)
            /\ value = [old EXCEPT ![i] = action]
        BY <3>3, <3>4
      <4>4. ActionsFollowed(id, old, foreign, FALSE)
        BY <3>6, Zenon
      <4> HIDE DEF foreign, old, value, id
      <4>2. ActionsFollowed(id, value, foreign, TRUE)
        BY <4>1, <4>3, <4>4, ActionsStay
      <4> QED BY <4>2 DEF foreign, value, id
    <3> QED BY <2>1, <2>7, <3>4, <3>7
         DEF RecommendationFollowed, ActionsFollowed, TracesFollowed
  <2>8. CASE form = "trace"
    <3>1. \E i \in {1, Len(plan.rule_trace)} : \E trace :
            /\ TraceAltered(plan.rule_trace[i], trace)
            /\ new = [plan EXCEPT !.rule_trace = [plan.rule_trace EXCEPT ![i] = trace]]
      BY <1>3, <2>8 DEF PlanFields
    <3>2. PICK i \in {1, Len(plan.rule_trace)} : \E trace :
            /\ TraceAltered(plan.rule_trace[i], trace)
            /\ new = [plan EXCEPT !.rule_trace = [plan.rule_trace EXCEPT ![i] = trace]]
      BY <3>1
    <3>3. PICK trace :
            /\ TraceAltered(plan.rule_trace[i], trace)
            /\ new = [plan EXCEPT !.rule_trace = [plan.rule_trace EXCEPT ![i] = trace]]
      BY <3>2
    <3>4. /\ new.rule_trace = [plan.rule_trace EXCEPT ![i] = trace]
          /\ new.recommendation = plan.recommendation /\ new.actions = plan.actions
      BY <3>3 DEF PlanFields
    <3>5. ~forged("trace")
      BY <1>2, <2>8 DEF forged
    <3>6. TracesFollowed(plan.plan_id, plan.rule_trace, forged("rule_trace"), FALSE, controls)
      BY <2>1, <3>5 DEF TracesFollowed
    <3>7. TracesFollowed(plan.plan_id, new.rule_trace, forged("rule_trace"), TRUE, controls)
      <4> DEFINE foreign == forged("rule_trace")
                 old == plan.rule_trace
                 value == new.rule_trace
                 id == plan.plan_id
      <4>1. foreign \in BOOLEAN /\ id \in {PositiveId, GateId}
        BY <2>1 DEF forged
      <4>3. i \in {1, Len(old)} /\ TraceAltered(old[i], trace)
            /\ value = [old EXCEPT ![i] = trace]
        BY <3>3, <3>4
      <4>4. TracesFollowed(id, old, foreign, FALSE, controls)
        BY <3>6, Zenon
      <4> HIDE DEF foreign, old, value, id
      <4>2. TracesFollowed(id, value, foreign, TRUE, controls)
        BY <4>1, <4>3, <4>4, TracesStay
      <4> QED BY <4>2 DEF foreign, value, id
    <3> QED BY <2>1, <2>8, <3>4, <3>7
         DEF RecommendationFollowed, ActionsFollowed, TracesFollowed
  <2> QED BY <1>3, <1>6, <2>4, <2>5, <2>6, <2>7, <2>8 DEF PlanFields
<1> QED BY <1>4, <1>5, <1>6

-----------------------------------------------------------------------------
(***************************************************************************)
(* So is the plan of control G3.                                            *)
(***************************************************************************)
\* A plan of the stages has nothing of the refusal.
LEMMA PlanIsAlien ==
  ASSUME NEW plan, NEW controls, PlanFollowed(plan, {}, controls)
  PROVE  /\ plan.plan_id # RefusedId
         /\ AlienActions(plan.actions) /\ AlienTraces(plan.rule_trace)
<1>1. /\ plan.plan_id \in {PositiveId, GateId}
      /\ ActionsFollowed(plan.plan_id, plan.actions, FALSE, FALSE)
      /\ TracesFollowed(plan.plan_id, plan.rule_trace, FALSE, FALSE, controls)
  BY DEF PlanFollowed, ActionsFollowed, TracesFollowed
<1>2. PositiveId # RefusedId /\ GateId # RefusedId /\ PositiveId # GateId
  BY DEF PositiveId, RefusedId, GateId
<1>3. CASE plan.plan_id = PositiveId
  <2>1. /\ plan.actions = TheRestatement.actions
        /\ plan.rule_trace = TheRestatement.rule_trace
    BY <1>1, <1>3 DEF ActionsFollowed, LegitActions, TracesFollowed, OriginalTraces
  <2> QED BY <1>2, <1>3, <2>1, RestatementItems DEF AlienActions, AlienTraces
<1>4. CASE plan.plan_id = GateId
  <2>1. RefusalActions(plan.actions)
    BY <1>1, <1>2, <1>4 DEF ActionsFollowed, LegitActions
  <2>2. /\ DOMAIN plan.actions = {1} /\ "scope_refs" \in DOMAIN plan.actions[1]
        /\ plan.actions[1].scope_refs # {ConfoundedAnalysisId}
    <3>1. DOMAIN plan.actions[1] = ActionFieldNames
      BY <2>1, Lengths, ItemFields DEF RefusalActions
    <3> QED BY <2>1, <3>1 DEF RefusalActions, ActionFieldNames
  <2>3. AlienActions(plan.actions)
    BY <2>2 DEF AlienActions
  <2> DEFINE operands == plan.rule_trace[1].operands
  <2>4. plan.rule_trace = TraceOf(operands) /\ OriginalOperands(operands, controls)
    BY <1>1, <1>2, <1>4 DEF TracesFollowed, OriginalTraces
  <2>5. /\ DOMAIN plan.rule_trace = {1}
        /\ "operands" \in DOMAIN plan.rule_trace[1]
    BY <2>4, Lengths, ItemFields DEF TraceOf, TraceFieldNames
  <2> HIDE DEF operands
  <2>6. \A k \in DOMAIN operands : /\ "name" \in DOMAIN operands[k]
                                   /\ operands[k].name # "definition_only_attribution_valid"
    <3>1. DOMAIN operands \subseteq {1, 6, 8} /\ RefusalOperands(operands)
      BY <2>4 DEF OriginalOperands
    <3>2. 1 \in DOMAIN operands =>
            DOMAIN operands[1] = OperandFieldNames
              /\ operands[1].name = "horizon_restatement_coverage"
      BY <3>1 DEF RefusalOperands, Operand, OperandFieldNames
    <3>3. 6 \in DOMAIN operands =>
            DOMAIN operands[6] = OperandFieldNames
              /\ operands[6].name = "non_reconstructable_history_reference"
      BY <3>1 DEF RefusalOperands, Operand, OperandFieldNames
    <3>4. 8 \in DOMAIN operands =>
            DOMAIN operands[8] = OperandFieldNames
              /\ operands[8].name = "required_control_results"
      BY <3>1 DEF RefusalOperands, Operand, OperandFieldNames
    <3> QED BY <3>1, <3>2, <3>3, <3>4 DEF OperandFieldNames
  <2>7. DOMAIN operands # {}
    BY <2>4 DEF OriginalOperands, RefusalOperands
  <2>8. AlienTraces(plan.rule_trace)
    BY <2>5, <2>6, <2>7 DEF AlienTraces, operands
  <2> QED BY <1>2, <1>4, <2>3, <2>8
<1> QED BY <1>1, <1>3, <1>4

\* The refusal has one action and one trace, complete.
LEMMA RefusalItems ==
  /\ Len(TheRefusal.actions) = 1 /\ DOMAIN TheRefusal.actions = {1}
  /\ ActionFieldNames \subseteq DOMAIN TheRefusal.actions[1]
  /\ Len(TheRefusal.rule_trace) = 1 /\ DOMAIN TheRefusal.rule_trace = {1}
  /\ TraceOfOperands(TheRefusal.rule_trace[1])
<1> DEFINE operands == << Equals("definition_only_attribution_valid", FALSE, TRUE,
                                 {ConfoundedAnalysisId}) >>
           action == Action("REJECT_PENDING_EVIDENCE", CohortNames, {ConfoundedAnalysisId},
                            CitedBy(operands), {}, RejectionRule)
           trace == RuleTraceEntry(RejectionRule, operands, CitedBy(operands))
<1>1. TheRefusal.actions = <<action>> /\ TheRefusal.rule_trace = <<trace>>
  BY DEF TheRefusal, Rejection
<1>2. DOMAIN action = ActionFieldNames /\ DOMAIN trace = TraceFieldNames
  BY ItemFields
<1>3. trace.operands = operands
  BY DEF RuleTraceEntry
<1>4. DOMAIN operands = {1} /\ DOMAIN operands[1] = OperandFieldNames
  <2> DEFINE operand == Equals("definition_only_attribution_valid", FALSE, TRUE,
                               {ConfoundedAnalysisId})
  <2>1. DOMAIN operand = OperandFieldNames
    BY DEF Equals, Operand, OperandFieldNames
  <2>2. operands = <<operand>>
    OBVIOUS
  <2> HIDE DEF operands, operand
  <2> QED BY <2>1, <2>2, Lengths
<1> HIDE DEF operands, action, trace
<1>5. TraceOfOperands(trace)
  BY <1>2, <1>3, <1>4 DEF TraceOfOperands
<1> QED BY <1>1, <1>2, <1>5, Lengths

\* The actions of the refusal with another first one, which is also the last.
LEMMA RefusalActionsStay ==
  ASSUME NEW actions, NEW alien \in BOOLEAN, RefusalActionsFollowed(actions, alien, FALSE),
         NEW i \in {1, Len(actions)}, NEW other, ActionAltered(actions[i], other),
         NEW value, value = [actions EXCEPT ![i] = other]
  PROVE  RefusalActionsFollowed(value, alien, TRUE)
<1>1. CASE alien
  <2>1. AlienActions(actions)
    BY <1>1 DEF RefusalActionsFollowed
  <2>2. DOMAIN value = DOMAIN actions
    OBVIOUS
  <2>3. ASSUME 1 \in DOMAIN actions, "scope_refs" \in DOMAIN actions[1],
               actions[1].scope_refs # {ConfoundedAnalysisId}
        PROVE  "scope_refs" \in DOMAIN value[1]
                 /\ value[1].scope_refs # {ConfoundedAnalysisId}
    <3>1. CASE i = 1
      <4>1. value[1] = other
        BY <2>3, <3>1
      <4>2. PICK name : \E new : /\ other = [actions[1] EXCEPT ![name] = new]
                                 /\ name = "scope_refs" => new = {<<"2026-06">>}
        BY <3>1 DEF ActionAltered
      <4>3. PICK new : /\ other = [actions[1] EXCEPT ![name] = new]
                       /\ name = "scope_refs" => new = {<<"2026-06">>}
        BY <4>2
      <4>5. <<"2026-06">> # ConfoundedAnalysisId
        BY DEF ConfoundedAnalysisId
      <4>4. {<<"2026-06">>} # {ConfoundedAnalysisId}
        BY <4>5
      <4> QED BY <2>3, <4>1, <4>3, <4>4
    <3>2. CASE i # 1
      <4>1. value[1] = actions[1]
        BY <2>3, <3>2
      <4> QED BY <2>3, <4>1
    <3> QED BY <3>1, <3>2
  <2>4. AlienActions(value)
    BY <2>1, <2>2, <2>3 DEF AlienActions
  <2> QED BY <1>1, <2>4 DEF RefusalActionsFollowed
<1>2. CASE ~alien
  <2>1. actions = TheRefusal.actions
    BY <1>2 DEF RefusalActionsFollowed
  <2>2. i = 1 /\ DOMAIN actions = {1} /\ ActionFieldNames \subseteq DOMAIN actions[1]
    BY <2>1, RefusalItems
  <2>3. other # actions[1] /\ value[1] = other
    BY <2>2, ActionDiffers
  <2>4. value # TheRefusal.actions
    BY <2>1, <2>3
  <2> QED BY <1>2, <2>4 DEF RefusalActionsFollowed
<1> QED BY <1>1, <1>2

\* Its traces with another one.
LEMMA RefusalTracesStay ==
  ASSUME NEW traces, NEW alien \in BOOLEAN, RefusalTracesFollowed(traces, alien, FALSE),
         NEW i \in {1, Len(traces)}, NEW other, TraceAltered(traces[i], other),
         NEW value, value = [traces EXCEPT ![i] = other]
  PROVE  RefusalTracesFollowed(value, alien, TRUE)
<1>1. CASE alien
  <2>1. AlienTraces(traces)
    BY <1>1 DEF RefusalTracesFollowed
  <2>2. DOMAIN value = DOMAIN traces
    OBVIOUS
  <2>3. ASSUME 1 \in DOMAIN traces, "operands" \in DOMAIN traces[1],
               NEW k \in DOMAIN traces[1].operands, "name" \in DOMAIN traces[1].operands[k],
               traces[1].operands[k].name # "definition_only_attribution_valid"
        PROVE  /\ "operands" \in DOMAIN value[1] /\ k \in DOMAIN value[1].operands
               /\ "name" \in DOMAIN value[1].operands[k]
               /\ value[1].operands[k].name # "definition_only_attribution_valid"
    <3>1. CASE i = 1
      <4>1. value[1] = other
        BY <2>3, <3>1
      <4> QED BY <2>3, <3>1, <4>1 DEF TraceAltered, OperandAltered
    <3>2. CASE i # 1
      <4>1. value[1] = traces[1]
        BY <2>3, <3>2
      <4> QED BY <2>3, <4>1
    <3> QED BY <3>1, <3>2
  <2>4. AlienTraces(value)
    BY <2>1, <2>2, <2>3 DEF AlienTraces
  <2> QED BY <1>1, <2>4 DEF RefusalTracesFollowed
<1>2. CASE ~alien
  <2>1. traces = TheRefusal.rule_trace
    BY <1>2 DEF RefusalTracesFollowed
  <2>2. i = 1 /\ DOMAIN traces = {1} /\ TraceOfOperands(traces[1])
    BY <2>1, RefusalItems
  <2>3. other # traces[1] /\ value[1] = other
    BY <2>2, TraceDiffers
  <2>4. value # TheRefusal.rule_trace
    BY <2>1, <2>3
  <2> QED BY <1>2, <2>4 DEF RefusalTracesFollowed
<1> QED BY <1>1, <1>2

\* The plan of control G3 with another field, action or trace, or with a part of the
\* plan of the stages.
LEMMA RefusalStays ==
  ASSUME NEW refusal, NEW M, NEW plan, NEW controls, RefusalFollowed(refusal, M),
         PlanFollowed(plan, {}, controls), PlanFields \subseteq DOMAIN refusal,
         NEW changed \in OtherPlans(refusal, plan), <<"g3_plan", changed[1]>> \notin M
  PROVE  RefusalFollowed(changed[2], M \cup {<<"g3_plan", changed[1]>>})
<1> DEFINE N == M \cup {<<"g3_plan", changed[1]>>}
           form == changed[1]
           new == changed[2]
           forged(name) == <<"g3_plan", name>> \in M
           Renamed == forged("plan") \/ forged("plan_id")
<1>1. \A name : <<"g3_plan", name>> \in N <=> forged(name) \/ name = form
  OBVIOUS
<1>2. <<"g3_plan", form>> \notin M
  OBVIOUS
<1>3. \/ form = "plan" /\ new = plan
      \/ /\ form \in PlanFields /\ plan[form] # refusal[form]
         /\ new = [refusal EXCEPT ![form] = plan[form]]
      \/ /\ form = "action"
         /\ \E i \in {1, Len(refusal.actions)} : \E action :
              /\ ActionAltered(refusal.actions[i], action)
              /\ new = [refusal EXCEPT !.actions = [refusal.actions EXCEPT ![i] = action]]
      \/ /\ form = "trace"
         /\ \E i \in {1, Len(refusal.rule_trace)} : \E trace :
              /\ TraceAltered(refusal.rule_trace[i], trace)
              /\ new = [refusal EXCEPT !.rule_trace = [refusal.rule_trace EXCEPT ![i] = trace]]
  <2>1. PlanAltered(refusal, plan, changed[1], changed[2])
    BY PlanForm
  <2> QED BY <2>1 DEF PlanAltered
<1>4. /\ plan.plan_id # RefusedId
      /\ AlienActions(plan.actions) /\ AlienTraces(plan.rule_trace)
  BY PlanIsAlien
<1> HIDE DEF N, form, new
<1> SUFFICES RefusalFollowed(new, N)
  BY DEF N, form, new
<1>5. CASE form \in {"plan", "plan_id"}
  <2>1. new.plan_id # RefusedId
    BY <1>3, <1>4, <1>5 DEF PlanFields
  <2> QED BY <1>1, <1>5, <2>1 DEF RefusalFollowed
<1>6. CASE Renamed /\ form \notin {"plan", "plan_id"}
  <2>1. refusal.plan_id # RefusedId
    BY <1>6 DEF RefusalFollowed
  <2>2. new.plan_id = refusal.plan_id
    BY <1>3, <1>6 DEF PlanFields
  <2> QED BY <1>1, <1>6, <2>1, <2>2 DEF RefusalFollowed
<1>7. CASE ~Renamed /\ form \notin {"plan", "plan_id"}
  <2>1. /\ refusal.plan_id = RefusedId
        /\ refusal.recommendation = "REJECT_PENDING_EVIDENCE" <=> ~forged("recommendation")
        /\ RefusalActionsFollowed(refusal.actions, forged("actions"), forged("action"))
        /\ RefusalTracesFollowed(refusal.rule_trace, forged("rule_trace"), forged("trace"))
    BY <1>7 DEF RefusalFollowed
  <2>2. new.plan_id = refusal.plan_id
    BY <1>3, <1>7 DEF PlanFields
  <2>3. SUFFICES
          /\ new.recommendation = "REJECT_PENDING_EVIDENCE"
               <=> ~(forged("recommendation") \/ form = "recommendation")
          /\ RefusalActionsFollowed(new.actions, forged("actions") \/ form = "actions",
                                    forged("action") \/ form = "action")
          /\ RefusalTracesFollowed(new.rule_trace,
                                   forged("rule_trace") \/ form = "rule_trace",
                                   forged("trace") \/ form = "trace")
    BY <1>1, <1>7, <2>1, <2>2 DEF RefusalFollowed
  <2> HIDE DEF forged
  <2>4. CASE form = "recommendation"
    <3>1. /\ new.recommendation = plan.recommendation
          /\ plan.recommendation # refusal.recommendation
          /\ new.actions = refusal.actions /\ new.rule_trace = refusal.rule_trace
      BY <1>3, <2>4 DEF PlanFields
    <3>2. ~forged("recommendation")
      BY <1>2, <2>4 DEF forged
    <3>3. new.recommendation # "REJECT_PENDING_EVIDENCE"
      BY <2>1, <3>1, <3>2
    <3> QED BY <2>1, <2>4, <3>1, <3>3 DEF RefusalActionsFollowed, RefusalTracesFollowed
  <2>5. CASE form = "actions"
    <3>1. /\ new.actions = plan.actions
          /\ new.recommendation = refusal.recommendation
          /\ new.rule_trace = refusal.rule_trace
      BY <1>3, <2>5 DEF PlanFields
    <3> QED BY <1>4, <2>1, <2>5, <3>1 DEF RefusalActionsFollowed, RefusalTracesFollowed
  <2>6. CASE form = "rule_trace"
    <3>1. /\ new.rule_trace = plan.rule_trace
          /\ new.recommendation = refusal.recommendation /\ new.actions = refusal.actions
      BY <1>3, <2>6 DEF PlanFields
    <3> QED BY <1>4, <2>1, <2>6, <3>1 DEF RefusalActionsFollowed, RefusalTracesFollowed
  <2>7. CASE form = "action"
    <3>1. \E i \in {1, Len(refusal.actions)} : \E action :
            /\ ActionAltered(refusal.actions[i], action)
            /\ new = [refusal EXCEPT !.actions = [refusal.actions EXCEPT ![i] = action]]
      BY <1>3, <2>7 DEF PlanFields
    <3>2. PICK i \in {1, Len(refusal.actions)} : \E action :
            /\ ActionAltered(refusal.actions[i], action)
            /\ new = [refusal EXCEPT !.actions = [refusal.actions EXCEPT ![i] = action]]
      BY <3>1
    <3>3. PICK action :
            /\ ActionAltered(refusal.actions[i], action)
            /\ new = [refusal EXCEPT !.actions = [refusal.actions EXCEPT ![i] = action]]
      BY <3>2
    <3>4. /\ new.actions = [refusal.actions EXCEPT ![i] = action]
          /\ new.recommendation = refusal.recommendation
          /\ new.rule_trace = refusal.rule_trace
      BY <3>3 DEF PlanFields
    <3>5. ~forged("action")
      BY <1>2, <2>7 DEF forged
    <3>6. RefusalActionsFollowed(refusal.actions, forged("actions"), FALSE)
      BY <2>1, <3>5 DEF RefusalActionsFollowed
    <3>7. RefusalActionsFollowed(new.actions, forged("actions"), TRUE)
      <4> DEFINE alien == forged("actions")
                 old == refusal.actions
                 value == new.actions
      <4>1. alien \in BOOLEAN
        BY DEF forged
      <4>3. /\ i \in {1, Len(old)} /\ ActionAltered(old[i], action)
            /\ value = [old EXCEPT ![i] = action]
        BY <3>3, <3>4
      <4>4. RefusalActionsFollowed(old, alien, FALSE)
        BY <3>6, Zenon
      <4> HIDE DEF alien, old, value
      <4>2. RefusalActionsFollowed(value, alien, TRUE)
        BY <4>1, <4>3, <4>4, RefusalActionsStay
      <4> QED BY <4>2 DEF alien, value
    <3> QED BY <2>1, <2>7, <3>4, <3>7 DEF RefusalActionsFollowed, RefusalTracesFollowed
  <2>8. CASE form = "trace"
    <3>1. \E i \in {1, Len(refusal.rule_trace)} : \E trace :
            /\ TraceAltered(refusal.rule_trace[i], trace)
            /\ new = [refusal EXCEPT !.rule_trace = [refusal.rule_trace EXCEPT ![i] = trace]]
      BY <1>3, <2>8 DEF PlanFields
    <3>2. PICK i \in {1, Len(refusal.rule_trace)} : \E trace :
            /\ TraceAltered(refusal.rule_trace[i], trace)
            /\ new = [refusal EXCEPT !.rule_trace = [refusal.rule_trace EXCEPT ![i] = trace]]
      BY <3>1
    <3>3. PICK trace :
            /\ TraceAltered(refusal.rule_trace[i], trace)
            /\ new = [refusal EXCEPT !.rule_trace = [refusal.rule_trace EXCEPT ![i] = trace]]
      BY <3>2
    <3>4. /\ new.rule_trace = [refusal.rule_trace EXCEPT ![i] = trace]
          /\ new.recommendation = refusal.recommendation /\ new.actions = refusal.actions
      BY <3>3 DEF PlanFields
    <3>5. ~forged("trace")
      BY <1>2, <2>8 DEF forged
    <3>6. RefusalTracesFollowed(refusal.rule_trace, forged("rule_trace"), FALSE)
      BY <2>1, <3>5 DEF RefusalTracesFollowed
    <3>7. RefusalTracesFollowed(new.rule_trace, forged("rule_trace"), TRUE)
      <4> DEFINE alien == forged("rule_trace")
                 old == refusal.rule_trace
                 value == new.rule_trace
      <4>1. alien \in BOOLEAN
        BY DEF forged
      <4>3. /\ i \in {1, Len(old)} /\ TraceAltered(old[i], trace)
            /\ value = [old EXCEPT ![i] = trace]
        BY <3>3, <3>4
      <4>4. RefusalTracesFollowed(old, alien, FALSE)
        BY <3>6, Zenon
      <4> HIDE DEF alien, old, value
      <4>2. RefusalTracesFollowed(value, alien, TRUE)
        BY <4>1, <4>3, <4>4, RefusalTracesStay
      <4> QED BY <4>2 DEF alien, value
    <3> QED BY <2>1, <2>8, <3>4, <3>7 DEF RefusalActionsFollowed, RefusalTracesFollowed
  <2> QED BY <1>3, <1>7, <2>4, <2>5, <2>6, <2>7, <2>8 DEF PlanFields
<1> QED BY <1>5, <1>6, <1>7

-----------------------------------------------------------------------------
(***************************************************************************)
(* So are both.                                                             *)
(***************************************************************************)
\* The plan of control G3, once altered, is not the expected one.
LEMMA RefusalDiffers ==
  ASSUME NEW refusal, NEW M, M # {}, M \subseteq {"g3_plan"} \X PlanForms,
         RefusalFollowed(refusal, M)
  PROVE  refusal # TheRefusal
<1> SUFFICES ASSUME refusal = TheRefusal PROVE FALSE
  OBVIOUS
<1>1. PICK name \in PlanForms : <<"g3_plan", name>> \in M
  OBVIOUS
<1>2. refusal.plan_id = RefusedId /\ refusal.recommendation = "REJECT_PENDING_EVIDENCE"
  BY RefusalParts
<1>3. ~AlienActions(TheRefusal.actions)
  <2>1. DOMAIN TheRefusal.actions = {1}
    BY RefusalItems
  <2>2. DOMAIN TheRefusal.actions # 1..4
    BY <2>1
  <2>3. TheRefusal.actions[1].scope_refs = {ConfoundedAnalysisId}
    BY DEF TheRefusal, Rejection, Action
  <2> QED BY <2>2, <2>3 DEF AlienActions
<1>4. ~AlienTraces(TheRefusal.rule_trace)
  <2>1. DOMAIN TheRefusal.rule_trace = {1}
    BY RefusalItems
  <2>2. DOMAIN TheRefusal.rule_trace # 1..4
    BY <2>1
  <2>3. TheRefusal.rule_trace[1].operands
          = << Equals("definition_only_attribution_valid", FALSE, TRUE,
                      {ConfoundedAnalysisId}) >>
    BY DEF TheRefusal, Rejection, RuleTraceEntry
  <2>4. \A k \in DOMAIN TheRefusal.rule_trace[1].operands :
          TheRefusal.rule_trace[1].operands[k].name = "definition_only_attribution_valid"
    BY <2>3 DEF Equals, Operand
  <2> QED BY <2>2, <2>4 DEF AlienTraces
<1> QED BY <1>1, <1>2, <1>3, <1>4
     DEF RefusalFollowed, RefusalActionsFollowed, RefusalTracesFollowed, PlanForms, PlanFields

\* A form of a plan has a name, the fields of a plan, and the identifier of one of
\* the two.
LEMMA PlanFormShape ==
  ASSUME NEW plan, NEW other, PlanFields \subseteq DOMAIN plan,
         PlanFields \subseteq DOMAIN other, NEW changed \in OtherPlans(plan, other)
  PROVE  /\ changed[1] \in PlanForms /\ PlanFields \subseteq DOMAIN changed[2]
         /\ changed[2].plan_id \in {plan.plan_id, other.plan_id}
<1>1. PlanAltered(plan, other, changed[1], changed[2])
  BY PlanForm
<1> DEFINE form == changed[1]
           new == changed[2]
<1>2. PlanAltered(plan, other, form, new)
  BY <1>1
<1> HIDE DEF form, new
<1>3. /\ form \in PlanForms /\ PlanFields \subseteq DOMAIN new
      /\ new.plan_id \in {plan.plan_id, other.plan_id}
  BY <1>2 DEF PlanAltered, PlanForms, PlanFields
<1> QED BY <1>3 DEF form, new

\* An alteration of the plan, with at most one of either plan before.
LEMMA PlansStayOfPlan ==
  ASSUME NEW plan, NEW refusal, NEW L, NEW M, NEW controls,
         PlansFollowed(plan, refusal, L, M, controls),
         L = {} \/ M = {},
         PlanFields \subseteq DOMAIN plan, PlanFields \subseteq DOMAIN refusal,
         NEW changed \in OtherPlans(plan, refusal), <<"plan", changed[1]>> \notin L
  PROVE  PlansFollowed(changed[2], refusal, L \cup {<<"plan", changed[1]>>}, M, controls)
<1>1. changed[1] \in PlanForms
  BY PlanFormShape
<1>2. L \cup {<<"plan", changed[1]>>} \subseteq {"plan"} \X PlanForms
  BY <1>1 DEF PlansFollowed
<1>3. CASE M = {}
  <2>1. refusal = TheRefusal /\ PlanFollowed(plan, L, controls)
    BY <1>3 DEF PlansFollowed
  <2>2. PlanFollowed(changed[2], L \cup {<<"plan", changed[1]>>}, controls)
    BY <2>1, PlanStays
  <2> QED BY <1>2, <1>3, <2>1, <2>2 DEF PlansFollowed
<1>4. CASE M # {}
  <2>1. L = {} /\ RefusalFollowed(refusal, M) /\ M \subseteq {"g3_plan"} \X PlanForms
    BY <1>4 DEF PlansFollowed
  <2>2. refusal # TheRefusal
    BY <1>4, <2>1, RefusalDiffers
  <2> QED BY <1>2, <1>4, <2>1, <2>2 DEF PlansFollowed
<1> QED BY <1>3, <1>4

\* The same of the plan of control G3.
LEMMA PlansStayOfRefusal ==
  ASSUME NEW plan, NEW refusal, NEW L, NEW M, NEW controls,
         PlansFollowed(plan, refusal, L, M, controls),
         L = {} \/ M = {},
         PlanFields \subseteq DOMAIN plan, PlanFields \subseteq DOMAIN refusal,
         NEW changed \in OtherPlans(refusal, plan), <<"g3_plan", changed[1]>> \notin M
  PROVE  PlansFollowed(plan, changed[2], L, M \cup {<<"g3_plan", changed[1]>>}, controls)
<1>1. changed[1] \in PlanForms
  BY PlanFormShape
<1>2. M \cup {<<"g3_plan", changed[1]>>} \subseteq {"g3_plan"} \X PlanForms
  BY <1>1 DEF PlansFollowed
<1>3. CASE L = {}
  <2>1. RefusalFollowed(refusal, M) /\ PlanFollowed(plan, {}, controls)
    BY <1>3 DEF PlansFollowed
  <2>2. RefusalFollowed(changed[2], M \cup {<<"g3_plan", changed[1]>>})
    BY <2>1, RefusalStays
  <2> QED BY <1>2, <1>3, <2>1, <2>2 DEF PlansFollowed
<1>4. CASE L # {}
  <2>1. refusal = TheRefusal /\ M = {}
    BY <1>4 DEF PlansFollowed
  <2>2. PlanAltered(TheRefusal, plan, changed[1], changed[2])
    BY <2>1, PlanForm
  <2> DEFINE form == changed[1]
             new == changed[2]
  <2>3. PlanAltered(TheRefusal, plan, form, new)
    BY <2>2
  <2> HIDE DEF form, new
  <2>4. new # TheRefusal \/ plan.plan_id = RefusedId
    <3>1. CASE form = "plan" /\ new = plan
      BY <3>1, RefusalParts
    <3>2. CASE /\ form \in PlanFields /\ plan[form] # TheRefusal[form]
               /\ new = [TheRefusal EXCEPT ![form] = plan[form]]
      <4>1. new[form] = plan[form]
        BY <3>2, RefusalParts
      <4> QED BY <3>2, <4>1
    <3>3. CASE \E i \in {1, Len(TheRefusal.actions)} : \E action :
                 /\ ActionAltered(TheRefusal.actions[i], action)
                 /\ new = [TheRefusal EXCEPT
                             !.actions = [TheRefusal.actions EXCEPT ![i] = action]]
      <4>1. PICK i \in {1, Len(TheRefusal.actions)} : \E action :
                 /\ ActionAltered(TheRefusal.actions[i], action)
                 /\ new = [TheRefusal EXCEPT
                             !.actions = [TheRefusal.actions EXCEPT ![i] = action]]
        BY <3>3
      <4>2. PICK action :
                 /\ ActionAltered(TheRefusal.actions[i], action)
                 /\ new = [TheRefusal EXCEPT
                             !.actions = [TheRefusal.actions EXCEPT ![i] = action]]
        BY <4>1
      <4> DEFINE value == new.actions
      <4>3. value = [TheRefusal.actions EXCEPT ![i] = action]
        BY <4>2, RefusalParts DEF PlanFields
      <4>4. RefusalActionsFollowed(TheRefusal.actions, FALSE, FALSE)
        BY DEF RefusalActionsFollowed
      <4> HIDE DEF value
      <4>5. RefusalActionsFollowed(value, FALSE, TRUE)
        BY <4>2, <4>3, <4>4, RefusalActionsStay
      <4>6. value # TheRefusal.actions
        BY <4>5 DEF RefusalActionsFollowed
      <4> QED BY <4>6 DEF value
    <3>4. CASE \E i \in {1, Len(TheRefusal.rule_trace)} : \E trace :
                 /\ TraceAltered(TheRefusal.rule_trace[i], trace)
                 /\ new = [TheRefusal EXCEPT
                             !.rule_trace = [TheRefusal.rule_trace EXCEPT ![i] = trace]]
      <4>1. PICK i \in {1, Len(TheRefusal.rule_trace)} : \E trace :
                 /\ TraceAltered(TheRefusal.rule_trace[i], trace)
                 /\ new = [TheRefusal EXCEPT
                             !.rule_trace = [TheRefusal.rule_trace EXCEPT ![i] = trace]]
        BY <3>4
      <4>2. PICK trace :
                 /\ TraceAltered(TheRefusal.rule_trace[i], trace)
                 /\ new = [TheRefusal EXCEPT
                             !.rule_trace = [TheRefusal.rule_trace EXCEPT ![i] = trace]]
        BY <4>1
      <4> DEFINE value == new.rule_trace
      <4>3. value = [TheRefusal.rule_trace EXCEPT ![i] = trace]
        BY <4>2, RefusalParts DEF PlanFields
      <4>4. RefusalTracesFollowed(TheRefusal.rule_trace, FALSE, FALSE)
        BY DEF RefusalTracesFollowed
      <4> HIDE DEF value
      <4>5. RefusalTracesFollowed(value, FALSE, TRUE)
        BY <4>2, <4>3, <4>4, RefusalTracesStay
      <4>6. value # TheRefusal.rule_trace
        BY <4>5 DEF RefusalTracesFollowed
      <4> QED BY <4>6 DEF value
    <3> QED BY <2>3, <3>1, <3>2, <3>3, <3>4 DEF PlanAltered
  <2>5. changed[2] # TheRefusal \/ plan.plan_id = RefusedId
    BY <2>4 DEF new
  <2> QED BY <1>2, <1>4, <2>1, <2>5 DEF PlansFollowed
<1> QED BY <1>3, <1>4

-----------------------------------------------------------------------------
(***************************************************************************)
(* So is all of the evidence.                                               *)
(***************************************************************************)
\* The alterations of a part, with one more.
LEMMA OfAltered ==
  ASSUME NEW field, altered' = altered \cup {field}, NEW part
  PROVE  Of(part)' = IF field[1] = part THEN Of(part) \cup {field} ELSE Of(part)
BY DEF Of

\* All is followed when what the alteration changes is.
LEMMA FollowedChanged ==
  ASSUME NEW original, NEW difference, Followed(original, difference),
         Parts \subseteq DOMAIN evidence, UNCHANGED input,
         NEW field, altered' = altered \cup {field},
         NEW part, field[1] = part, NEW value, evidence' = [evidence EXCEPT ![part] = value],
         part = "decision_changes" =>
           ChangesFollowed(value, Of(part) \cup {field}, difference),
         part = "impact" => ImpactFollowed(value, Of(part) \cup {field}),
         part = "golden_analysis" =>
           AnalysisFollowed(value, Of(part) \cup {field}, Attributable),
         part = "g3_analysis" => ConfoundedFollowed(value),
         part = "comparisons" => TrendsFollowed(value, Of(part) \cup {field}),
         part = "controls" => ControlsFollowed(value, Of(part) \cup {field}, original),
         part \in {"plan", "g3_plan"} =>
           PlanFields \subseteq DOMAIN value /\ (~Attributable => value.plan_id = RefusedId),
         part = "plan" /\ Auditable =>
           PlansFollowed(value, evidence.g3_plan, Of("plan") \cup {field}, Of("g3_plan"),
                         original),
         part = "g3_plan" /\ Auditable =>
           PlansFollowed(evidence.plan, value, Of("plan"), Of("g3_plan") \cup {field},
                         original),
         part = "reconstructability" /\ Auditable => VerdictsFollowed(value)
  PROVE  Followed(original, difference)'
<1>1. /\ ChangesFollowed(evidence.decision_changes, Of("decision_changes"), difference)
      /\ ImpactFollowed(evidence.impact, Of("impact"))
      /\ ImpactComparisonFollowed(evidence.g3_comparison, Of("g3_comparison"), difference)
      /\ Of("results") = {} => MayDifference = difference
      /\ AnalysisFollowed(evidence.golden_analysis, Of("golden_analysis"), Attributable)
      /\ ConfoundedFollowed(evidence.g3_analysis)
      /\ TrendsFollowed(evidence.comparisons, Of("comparisons"))
      /\ ControlsFollowed(evidence.controls, Of("controls"), original)
      /\ PlanFields \subseteq DOMAIN evidence.plan
      /\ PlanFields \subseteq DOMAIN evidence.g3_plan
      /\ ~Attributable =>
           evidence.plan.plan_id = RefusedId /\ evidence.g3_plan.plan_id = RefusedId
      /\ Auditable =>
           /\ VerdictsFollowed(evidence.reconstructability)
           /\ PlansFollowed(evidence.plan, evidence.g3_plan, Of("plan"), Of("g3_plan"),
                            original)
  BY DEF Followed
<1>2. \A name \in Parts : evidence'[name] = IF name = part THEN value ELSE evidence[name]
  OBVIOUS
<1>3. \A name : Of(name)' = IF part = name THEN Of(name) \cup {field} ELSE Of(name)
  BY OfAltered
<1>4. (Attributable' <=> Attributable) /\ (Auditable' <=> Auditable)
  BY DEF Attributable, Auditable, GoldenDifference, First, Restated, ResultIdsUnique, ResultId,
         DefinitionOf, Cells
<1>5. ChangesFollowed(evidence'.decision_changes, Of("decision_changes")', difference)
  BY <1>1, <1>2, <1>3 DEF Parts
<1>6. ImpactFollowed(evidence'.impact, Of("impact")')
  BY <1>1, <1>2, <1>3 DEF Parts
<1>7. ImpactComparisonFollowed(evidence'.g3_comparison, Of("g3_comparison")', difference)
  <2>1. CASE part = "g3_comparison"
    BY <1>3, <2>1 DEF ImpactComparisonFollowed
  <2>2. CASE part # "g3_comparison"
    BY <1>1, <1>2, <1>3, <2>2 DEF Parts
  <2> QED BY <2>1, <2>2
<1>8. Of("results")' = {} => MayDifference' = difference
  <2>1. CASE part = "results"
    BY <1>3, <2>1
  <2>2. CASE part # "results"
    <3>1. evidence'.results = evidence.results
      BY <1>2, <2>2 DEF Parts
    <3>2. MayDifference' = MayDifference
      BY <3>1 DEF MayDifference, GoldenResults, GoldenCell, Cells, DefinitionOf, GoldenKeys
    <3> QED BY <1>1, <1>3, <2>2, <3>2
  <2> QED BY <2>1, <2>2
<1>9. AnalysisFollowed(evidence'.golden_analysis, Of("golden_analysis")', Attributable')
  <2>1. AnalysisFollowed(evidence'.golden_analysis, Of("golden_analysis")', Attributable)
    BY <1>1, <1>2, <1>3 DEF Parts
  <2> QED BY <1>4, <2>1 DEF AnalysisFollowed
<1>10. TrendsFollowed(evidence'.comparisons, Of("comparisons")')
  BY <1>1, <1>2, <1>3 DEF Parts
<1>11. ControlsFollowed(evidence'.controls, Of("controls")', original)
  BY <1>1, <1>2, <1>3 DEF Parts
<1>12. /\ PlanFields \subseteq DOMAIN evidence'.plan
       /\ PlanFields \subseteq DOMAIN evidence'.g3_plan
       /\ ~Attributable' =>
            evidence'.plan.plan_id = RefusedId /\ evidence'.g3_plan.plan_id = RefusedId
  BY <1>1, <1>2, <1>4 DEF Parts
<1>13. Auditable' => VerdictsFollowed(evidence'.reconstructability)
  BY <1>1, <1>2, <1>4 DEF Parts
<1>14. Auditable' => PlansFollowed(evidence'.plan, evidence'.g3_plan, Of("plan")',
                                   Of("g3_plan")', original)
  <2>1. CASE part = "plan"
    BY <1>2, <1>3, <1>4, <2>1 DEF Parts
  <2>2. CASE part = "g3_plan"
    BY <1>2, <1>3, <1>4, <2>2 DEF Parts
  <2>3. CASE part \notin {"plan", "g3_plan"}
    BY <1>1, <1>2, <1>3, <1>4, <2>3 DEF Parts
  <2> QED BY <2>1, <2>2, <2>3
<1>15. ConfoundedFollowed(evidence'.g3_analysis)
  BY <1>1, <1>2 DEF Parts
<1> QED
  BY <1>15, <1>5, <1>6, <1>7, <1>8, <1>9, <1>10, <1>11, <1>12, <1>13, <1>14
  DEF Followed, Attributable, Auditable, MayDifference, MayKeys, Of

\* One field of a part takes a value.
Altered(part, field, value) ==
  /\ field[1] = part /\ field \notin altered
  /\ altered' = altered \cup {field}
  /\ evidence' = [evidence EXCEPT ![part] = value]
  /\ UNCHANGED <<input, stage, outcome>>

\* To alter a record is to give its part the value of a form.
LEMMA AlterRecordIs ==
  ASSUME NEW STATE part, NEW STATE forms, AlterRecord(part, forms)
  PROVE  \E form \in forms : Altered(part, <<part, form[1]>>, form[2])
BY DEF AlterRecord, Altering, Altered

\* To alter an item is to give its part that item.
LEMMA AlterItemIs ==
  ASSUME NEW STATE part, NEW STATE item, NEW STATE forms, AlterItem(part, item, forms)
  PROVE  \E form \in forms :
           Altered(part, <<part, item, form[1]>>, [evidence[part] EXCEPT ![item] = form[2]])
<1>1. PICK form \in forms :
        Altering(<<part, item, form[1]>>, [evidence EXCEPT ![part][item] = form[2]])
  BY DEF AlterItem
<1>2. Altered(part, <<part, item, form[1]>>, [evidence[part] EXCEPT ![item] = form[2]])
  BY <1>1 DEF Altering, Altered
<1> QED BY <1>2

\* A set of at most one element holds no two.
LEMMA AtMostOne ==
  ASSUME NEW S, IsFiniteSet(S), Cardinality(S) <= 1, NEW a \in S, NEW b \in S
  PROVE  a = b
<1> SUFFICES ASSUME a # b PROVE FALSE
  OBVIOUS
<1> DEFINE rest == S \ {a}
<1>1. IsFiniteSet(rest) /\ Cardinality(rest) = Cardinality(S) - 1
  BY FS_RemoveElement
<1>2. b \in rest
  OBVIOUS
<1> HIDE DEF rest
<1>3. Cardinality(rest) = 0
  BY <1>1, FS_CardinalityType
<1>4. rest = {}
  BY <1>1, <1>3, FS_EmptySet
<1> QED BY <1>2, <1>4

\* The parts whose alteration only has to be remembered.
Unread ==
  {"g3_comparison", "results", "horizon", "assumptions", "policy_rules"}

\* The alteration of such a part is followed.
LEMMA UnreadFollowed ==
  ASSUME NEW original, NEW difference, Followed(original, difference),
         Parts \subseteq DOMAIN evidence,
         NEW part \in Unread, NEW field, NEW value, Altered(part, field, value)
  PROVE  Followed(original, difference)'
<1>1. /\ field[1] = part /\ altered' = altered \cup {field} /\ UNCHANGED input
      /\ evidence' = [evidence EXCEPT ![part] = value]
  BY DEF Altered
<1>2. part \notin {"decision_changes", "impact", "golden_analysis", "comparisons", "controls",
                   "plan", "g3_plan", "reconstructability"}
  BY DEF Unread
<1>3. part # "g3_analysis"
  BY DEF Unread
<1> QED BY <1>1, <1>2, <1>3, FollowedChanged

\* So is that of a decision or of the index of what was impacted.
LEMMA DecisionFollowed ==
  ASSUME NEW original, NEW difference, Followed(original, difference),
         Parts \subseteq DOMAIN evidence, AlterDecision
  PROVE  Followed(original, difference)'
<1>1. CASE \E i \in 1..3 :
             AlterItem("decision_changes", i, OtherChanges(evidence.decision_changes[i]))
  <2>1. PICK i \in 1..3 :
          AlterItem("decision_changes", i, OtherChanges(evidence.decision_changes[i]))
    BY <1>1
  <2>2. PICK form \in OtherChanges(evidence.decision_changes[i]) :
          Altered("decision_changes", <<"decision_changes", i, form[1]>>,
                  [evidence["decision_changes"] EXCEPT ![i] = form[2]])
    BY <2>1, AlterItemIs
  <2> DEFINE field == <<"decision_changes", i, form[1]>>
             value == [evidence["decision_changes"] EXCEPT ![i] = form[2]]
  <2>3. ChangesFollowed(value, Of("decision_changes") \cup {field}, difference)
    BY ChangesStay DEF Followed
  <2>4. Altered("decision_changes", field, value)
    BY <2>2
  <2> HIDE DEF field, value
  <2> QED BY <2>3, <2>4, FollowedChanged DEF Altered
<1>2. CASE AlterRecord("impact", {<<"ids", Front(evidence.impact)>>})
  <2> DEFINE forms == {<<"ids", Front(evidence.impact)>>}
  <2>0. AlterRecord("impact", forms)
    BY <1>2
  <2> HIDE DEF forms
  <2>1. PICK form \in forms : Altered("impact", <<"impact", form[1]>>, form[2])
    BY <2>0, AlterRecordIs
  <2> DEFINE field == <<"impact", form[1]>>
             value == form[2]
  <2>2. field = <<"impact", "ids">> /\ value = Front(evidence.impact)
    BY DEF forms
  <2>3. Altered("impact", field, value)
    BY <2>1
  <2> HIDE DEF field, value
  <2>4. Of("impact") = {}
    BY <2>2, <2>3 DEF Altered, Followed, ImpactFollowed, Of
  <2>5. DOMAIN value # 1..3
    BY <2>2, <2>4, ImpactStays DEF Followed
  <2>6. ImpactFollowed(value, Of("impact") \cup {field})
    BY <2>2, <2>4, <2>5 DEF ImpactFollowed
  <2> QED BY <2>3, <2>6, FollowedChanged DEF Altered
<1> QED BY <1>1, <1>2 DEF AlterDecision

\* The analysis of the confounded arms keeps its identifier when a flag is altered.
LEMMA ConfoundedStays ==
  ASSUME NEW analysis, ConfoundedFollowed(analysis), NEW form \in OtherAnalyses(analysis)
  PROVE  ConfoundedFollowed(form[2])
<1>1. PICK values : /\ form \in OtherForms(analysis, values)
                    /\ "attribution_valid" \in DOMAIN values
                    /\ values.attribution_valid = BOOLEAN
                    /\ "analysis_id" \notin DOMAIN values
  BY SMTT(60) DEF OtherAnalyses
<1>2. /\ DOMAIN form[2] = DOMAIN analysis
      /\ form[2].analysis_id = analysis.analysis_id
      /\ form[2].attribution_valid = analysis.attribution_valid
           \/ form[2].attribution_valid \in BOOLEAN
  BY <1>1, FormsAre DEF ConfoundedFollowed
<1> QED BY <1>2 DEF ConfoundedFollowed

\* The alteration of an analysis is followed.
LEMMA AnalysisIsFollowed ==
  ASSUME NEW original, NEW difference, Followed(original, difference),
         Parts \subseteq DOMAIN evidence, AlterAnalysis
  PROVE  Followed(original, difference)'
<1>1. CASE AlterRecord("golden_analysis", OtherAnalyses(evidence.golden_analysis))
  <2>1. PICK form \in OtherAnalyses(evidence.golden_analysis) :
          Altered("golden_analysis", <<"golden_analysis", form[1]>>, form[2])
    BY <1>1, AlterRecordIs
  <2>2. <<"golden_analysis", form[1]>> \notin Of("golden_analysis")
    BY <2>1 DEF Altered, Of
  <2>3. AnalysisFollowed(evidence.golden_analysis, Of("golden_analysis"), Attributable)
    BY DEF Followed
  <2>4. AnalysisFollowed(form[2], Of("golden_analysis") \cup {<<"golden_analysis", form[1]>>},
                         Attributable)
    BY <2>2, <2>3, AnalysisStays
  <2> QED BY <2>1, <2>4, FollowedChanged DEF Altered
<1>2. CASE AlterRecord("g3_analysis", OtherAnalyses(evidence.g3_analysis))
  <2>1. PICK form \in OtherAnalyses(evidence.g3_analysis) :
          Altered("g3_analysis", <<"g3_analysis", form[1]>>, form[2])
    BY <1>2, AlterRecordIs
  <2>2. ConfoundedFollowed(evidence.g3_analysis)
    BY DEF Followed
  <2>3. ConfoundedFollowed(form[2])
    BY <2>2, ConfoundedStays
  <2> QED BY <2>1, <2>3, FollowedChanged DEF Altered
<1> QED BY <1>1, <1>2 DEF AlterAnalysis

\* So is that of a comparison.
LEMMA ComparisonFollowed ==
  ASSUME NEW original, NEW difference, Followed(original, difference),
         Parts \subseteq DOMAIN evidence, AlterComparison
  PROVE  Followed(original, difference)'
<1>1. CASE \E i \in 1..2 :
             AlterItem("comparisons", i, OtherComparisons(evidence.comparisons[i]))
  <2>1. PICK i \in 1..2 :
          AlterItem("comparisons", i, OtherComparisons(evidence.comparisons[i]))
    BY <1>1
  <2>2. PICK form \in OtherComparisons(evidence.comparisons[i]) :
          Altered("comparisons", <<"comparisons", i, form[1]>>,
                  [evidence["comparisons"] EXCEPT ![i] = form[2]])
    BY <2>1, AlterItemIs
  <2> DEFINE field == <<"comparisons", i, form[1]>>
             value == [evidence["comparisons"] EXCEPT ![i] = form[2]]
  <2>3. TrendsFollowed(value, Of("comparisons") \cup {field})
    BY TrendsStay DEF Followed
  <2>4. Altered("comparisons", field, value)
    BY <2>2
  <2> HIDE DEF field, value
  <2> QED BY <2>3, <2>4, FollowedChanged DEF Altered
<1>2. CASE AlterRecord("g3_comparison", OtherComparisons(evidence.g3_comparison))
  <2>1. PICK form \in OtherComparisons(evidence.g3_comparison) :
          Altered("g3_comparison", <<"g3_comparison", form[1]>>, form[2])
    BY <1>2, AlterRecordIs
  <2> QED BY <2>1, UnreadFollowed DEF Unread
<1> QED BY <1>1, <1>2 DEF AlterComparison

\* So is that of a verdict or of the horizon.
LEMMA VerdictIsFollowed ==
  ASSUME NEW original, NEW difference, Followed(original, difference),
         Parts \subseteq DOMAIN evidence, AlterCoverage
  PROVE  Followed(original, difference)'
<1>1. CASE \E i \in DOMAIN evidence.reconstructability :
             AlterItem("reconstructability", i, OtherVerdicts(evidence.reconstructability[i]))
  <2>1. PICK i \in DOMAIN evidence.reconstructability :
          AlterItem("reconstructability", i, OtherVerdicts(evidence.reconstructability[i]))
    BY <1>1
  <2>2. PICK form \in OtherVerdicts(evidence.reconstructability[i]) :
          Altered("reconstructability", <<"reconstructability", i, form[1]>>,
                  [evidence["reconstructability"] EXCEPT ![i] = form[2]])
    BY <2>1, AlterItemIs
  <2> DEFINE field == <<"reconstructability", i, form[1]>>
             value == [evidence["reconstructability"] EXCEPT ![i] = form[2]]
  <2>3. Auditable => VerdictsFollowed(value)
    BY VerdictsStay DEF Followed
  <2>4. Altered("reconstructability", field, value)
    BY <2>2
  <2> HIDE DEF field, value
  <2> QED BY <2>3, <2>4, FollowedChanged DEF Altered
<1>2. CASE AlterRecord("horizon", OtherHorizons(evidence.horizon))
  <2>1. PICK form \in OtherHorizons(evidence.horizon) :
          Altered("horizon", <<"horizon", form[1]>>, form[2])
    BY <1>2, AlterRecordIs
  <2> QED BY <2>1, UnreadFollowed DEF Unread
<1> QED BY <1>1, <1>2 DEF AlterCoverage

\* So is that of a control.
LEMMA ControlFollowed ==
  ASSUME NEW original, NEW difference, Followed(original, difference), ShapeInv,
         Parts \subseteq DOMAIN evidence, AlterControl
  PROVE  Followed(original, difference)'
<1>1. PICK id \in ControlIds :
        AlterItem("controls", id,
          {<<"status", status>> : status \in {"PASS", "FAIL"} \ {evidence.controls[id]}})
  BY DEF AlterControl
<1>2. PICK form \in
             {<<"status", status>> : status \in {"PASS", "FAIL"} \ {evidence.controls[id]}} :
        Altered("controls", <<"controls", id, form[1]>>,
                [evidence["controls"] EXCEPT ![id] = form[2]])
  BY <1>1, AlterItemIs
<1>3. form[1] = "status" /\ form[2] # evidence.controls[id]
  OBVIOUS
<1>4. <<"controls", id, "status">> \notin Of("controls")
  BY <1>2, <1>3 DEF Altered, Of
<1>5. DOMAIN evidence.controls = ControlIds
  BY DEF ShapeInv
<1> DEFINE field == <<"controls", id, form[1]>>
           value == [evidence["controls"] EXCEPT ![id] = form[2]]
<1>6. ControlsFollowed(value, Of("controls") \cup {field}, original)
  BY <1>3, <1>4, <1>5, ControlsStay DEF Followed
<1>7. Altered("controls", field, value)
  BY <1>2
<1> HIDE DEF field, value
<1> QED BY <1>6, <1>7, FollowedChanged DEF Altered

\* So is that of a plan, when it is the first or the second alteration.
LEMMA PlanIsFollowed ==
  ASSUME NEW original, NEW difference, Followed(original, difference),
         IsFiniteSet(altered), Cardinality(altered) <= 1,
         Parts \subseteq DOMAIN evidence, AlterPlan
  PROVE  Followed(original, difference)'
<1>1. Of("plan") = {} \/ Of("g3_plan") = {}
  <2> SUFFICES ASSUME NEW a \in Of("plan"), NEW b \in Of("g3_plan") PROVE FALSE
    OBVIOUS
  <2>1. a \in altered /\ b \in altered /\ a[1] = "plan" /\ b[1] = "g3_plan"
    BY DEF Of
  <2>2. a = b
    BY <2>1, AtMostOne
  <2> QED BY <2>1, <2>2
<1>2. /\ PlanFields \subseteq DOMAIN evidence.plan
      /\ PlanFields \subseteq DOMAIN evidence.g3_plan
      /\ ~Attributable =>
           evidence.plan.plan_id = RefusedId /\ evidence.g3_plan.plan_id = RefusedId
      /\ Auditable => PlansFollowed(evidence.plan, evidence.g3_plan, Of("plan"), Of("g3_plan"),
                                    original)
  BY DEF Followed
<1>3. CASE AlterRecord("plan", OtherPlans(evidence.plan, evidence.g3_plan))
  <2>1. PICK form \in OtherPlans(evidence.plan, evidence.g3_plan) :
          Altered("plan", <<"plan", form[1]>>, form[2])
    BY <1>3, AlterRecordIs
  <2>2. /\ PlanFields \subseteq DOMAIN form[2]
        /\ form[2].plan_id \in {evidence.plan.plan_id, evidence.g3_plan.plan_id}
    BY <1>2, PlanFormShape
  <2>3. <<"plan", form[1]>> \notin Of("plan")
    BY <2>1 DEF Altered, Of
  <2>4. Auditable => PlansFollowed(form[2], evidence.g3_plan,
                                   Of("plan") \cup {<<"plan", form[1]>>}, Of("g3_plan"),
                                   original)
    BY <1>1, <1>2, <2>3, PlansStayOfPlan
  <2> DEFINE field == <<"plan", form[1]>>
             value == form[2]
  <2>5. /\ PlanFields \subseteq DOMAIN value /\ (~Attributable => value.plan_id = RefusedId)
        /\ Auditable => PlansFollowed(value, evidence.g3_plan, Of("plan") \cup {field},
                                      Of("g3_plan"), original)
        /\ Altered("plan", field, value)
    BY <1>2, <2>1, <2>2, <2>4
  <2> HIDE DEF field, value
  <2> QED BY <2>5, FollowedChanged DEF Altered
<1>4. CASE AlterRecord("g3_plan", OtherPlans(evidence.g3_plan, evidence.plan))
  <2>1. PICK form \in OtherPlans(evidence.g3_plan, evidence.plan) :
          Altered("g3_plan", <<"g3_plan", form[1]>>, form[2])
    BY <1>4, AlterRecordIs
  <2>2. /\ PlanFields \subseteq DOMAIN form[2]
        /\ form[2].plan_id \in {evidence.plan.plan_id, evidence.g3_plan.plan_id}
    BY <1>2, PlanFormShape
  <2>3. <<"g3_plan", form[1]>> \notin Of("g3_plan")
    BY <2>1 DEF Altered, Of
  <2>4. Auditable => PlansFollowed(evidence.plan, form[2], Of("plan"),
                                   Of("g3_plan") \cup {<<"g3_plan", form[1]>>}, original)
    BY <1>1, <1>2, <2>3, PlansStayOfRefusal
  <2> DEFINE field == <<"g3_plan", form[1]>>
             value == form[2]
  <2>5. /\ PlanFields \subseteq DOMAIN value /\ (~Attributable => value.plan_id = RefusedId)
        /\ Auditable => PlansFollowed(evidence.plan, value, Of("plan"),
                                      Of("g3_plan") \cup {field}, original)
        /\ Altered("g3_plan", field, value)
    BY <1>2, <2>1, <2>2, <2>4
  <2> HIDE DEF field, value
  <2> QED BY <2>5, FollowedChanged DEF Altered
<1> QED BY <1>3, <1>4 DEF AlterPlan

\* So an alteration that leaves one or two is followed.
LEMMA AlterFollowed ==
  ASSUME NEW original, NEW difference, Followed(original, difference), ShapeInv,
         IsFiniteSet(altered), Cardinality(altered) <= 1, Alter
  PROVE  Followed(original, difference)'
<1>1. Parts \subseteq DOMAIN evidence
  BY DEF ShapeInv
<1>2. CASE AlterResult
  <2>1. PICK cell \in Cells(input) :
          AlterItem("results", cell, OtherResults(evidence.results[cell]))
    BY <1>2 DEF AlterResult
  <2>2. PICK form \in OtherResults(evidence.results[cell]) :
          Altered("results", <<"results", cell, form[1]>>,
                  [evidence["results"] EXCEPT ![cell] = form[2]])
    BY <2>1, AlterItemIs
  <2> QED BY <1>1, <2>2, UnreadFollowed DEF Unread
<1>3. CASE AlterDeclared
  <2>1. PICK part \in {"assumptions", "policy_rules"} :
          \E field : \E value : Altered(part, field, value)
    <3> DEFINE fewer == {<<"one", evidence.assumptions \ {a}>> : a \in evidence.assumptions}
               rules == {<<"one", evidence.policy_rules \ {r}>> : r \in evidence.policy_rules}
    <3>1. AlterRecord("assumptions", fewer) \/ AlterRecord("policy_rules", rules)
      BY <1>3 DEF AlterDeclared
    <3> HIDE DEF fewer, rules
    <3>2. CASE AlterRecord("assumptions", fewer)
      BY <3>2, AlterRecordIs
    <3>3. CASE AlterRecord("policy_rules", rules)
      BY <3>3, AlterRecordIs
    <3> QED BY <3>1, <3>2, <3>3
  <2> QED BY <1>1, <2>1, UnreadFollowed DEF Unread
<1> QED
  BY <1>1, <1>2, <1>3, DecisionFollowed, AnalysisIsFollowed, ComparisonFollowed,
     VerdictIsFollowed, ControlFollowed, PlanIsFollowed DEF Alter

-----------------------------------------------------------------------------
(***************************************************************************)
(* What the gate derives from evidence, altered or not.                     *)
(***************************************************************************)
\* An operand that records these things and whether it passed.
Recorded(operand, name, operator, actual, expected, cited) ==
  /\ operand = Operand(name, operator, actual, expected, operand.passed, cited)
  /\ operand.passed \in BOOLEAN

\* An operand records what it was built from.
LEMMA OperandRecords ==
  ASSUME NEW name, NEW operator, NEW actual, NEW expected, NEW passed \in BOOLEAN, NEW cited,
         NEW operand, operand = Operand(name, operator, actual, expected, passed, cited)
  PROVE  Recorded(operand, name, operator, actual, expected, cited)
<1>1. operand.passed = passed
  BY DEF Operand
<1> QED BY <1>1 DEF Recorded

\* The operands of the gate, whatever they say.
LEMMA GateRecords ==
  ASSUME NEW horizon, NEW verdicts, NEW comparisons, NEW controls, NEW operands,
         operands = GateOperands(horizon, verdicts, comparisons, controls)
  PROVE  /\ Recorded(operands[1], "horizon_restatement_coverage", "EQUALS", horizon.status,
                     "PARTIAL", {HorizonId})
         /\ Recorded(operands[2], "restatement_cohort_reconstructability", "ALL_TRUE",
                     StatusesIn(RestatementCohorts, verdicts),
                     FullStatuses(RestatementCohorts),
                     VerdictIds(RestatementCohorts, verdicts))
         /\ Recorded(operands[3], "bridge_cohort_reconstructability", "ALL_TRUE",
                     StatusesIn(BridgeCohorts, verdicts), FullStatuses(BridgeCohorts),
                     VerdictIds(BridgeCohorts, verdicts))
         /\ Recorded(operands[4], "complete_bridge_cohort_count", "AT_LEAST",
                     Cardinality(CompleteIn(BridgeCohorts, verdicts)), MinimumBridge,
                     {HorizonId})
         /\ Recorded(operands[5], "effective_cohort", "EQUALS", EffectiveCohort,
                     EffectiveCohort, {ContractId, PolicyId})
         /\ Recorded(operands[6], "non_reconstructable_history_reference", "RESOLVES",
                     NonReconstructableCohort, "NOT_RECONSTRUCTABLE",
                     IF StatusOf(NonReconstructableCohort, verdicts) = "MISSING"
                     THEN {HorizonId} ELSE VerdictIds({NonReconstructableCohort}, verdicts))
         /\ Recorded(operands[7], "invalid_comparison_reference", "RESOLVES", StitchId,
                     "INVALID_SCOPED_COMPARISON",
                     IF {i \in DOMAIN comparisons :
                           comparisons[i].assessment_id = StitchId} = {}
                     THEN {} ELSE {StitchId})
         /\ Recorded(operands[8], "required_control_results", "ALL_TRUE", controls, AllPass,
                     {<<id>> : id \in DOMAIN controls})
<1>1. Recorded(operands[1], "horizon_restatement_coverage", "EQUALS", horizon.status,
               "PARTIAL", {HorizonId})
  <2> DEFINE passed == (horizon.status = "PARTIAL")
             operand == operands[1]
  <2>1. passed \in BOOLEAN
    OBVIOUS
  <2>2. operand = Operand("horizon_restatement_coverage", "EQUALS", horizon.status, "PARTIAL",
                          passed, {HorizonId})
    BY DEF GateOperands, Equals
  <2> HIDE DEF passed, operand
  <2>3. Recorded(operand, "horizon_restatement_coverage", "EQUALS", horizon.status,
                 "PARTIAL", {HorizonId})
    BY <2>1, <2>2, OperandRecords
  <2> QED BY <2>3 DEF operand
<1>2. Recorded(operands[2], "restatement_cohort_reconstructability", "ALL_TRUE",
               StatusesIn(RestatementCohorts, verdicts), FullStatuses(RestatementCohorts),
               VerdictIds(RestatementCohorts, verdicts))
  <2> DEFINE actual == StatusesIn(RestatementCohorts, verdicts)
             expected == FullStatuses(RestatementCohorts)
             cited == VerdictIds(RestatementCohorts, verdicts)
             passed == (actual = expected)
             operand == operands[2]
  <2>1. passed \in BOOLEAN
    OBVIOUS
  <2>2. operand = Operand("restatement_cohort_reconstructability", "ALL_TRUE", actual,
                          expected, passed, cited)
    BY DEF GateOperands, AllTrue
  <2> HIDE DEF actual, expected, cited, passed, operand
  <2>3. Recorded(operand, "restatement_cohort_reconstructability", "ALL_TRUE", actual,
                 expected, cited)
    BY <2>1, <2>2, OperandRecords
  <2> QED BY <2>3 DEF actual, expected, cited, operand
<1>3. Recorded(operands[3], "bridge_cohort_reconstructability", "ALL_TRUE",
               StatusesIn(BridgeCohorts, verdicts), FullStatuses(BridgeCohorts),
               VerdictIds(BridgeCohorts, verdicts))
  <2> DEFINE actual == StatusesIn(BridgeCohorts, verdicts)
             expected == FullStatuses(BridgeCohorts)
             cited == VerdictIds(BridgeCohorts, verdicts)
             passed == (actual = expected)
             operand == operands[3]
  <2>1. passed \in BOOLEAN
    OBVIOUS
  <2>2. operand = Operand("bridge_cohort_reconstructability", "ALL_TRUE", actual, expected,
                          passed, cited)
    BY DEF GateOperands, AllTrue
  <2> HIDE DEF actual, expected, cited, passed, operand
  <2>3. Recorded(operand, "bridge_cohort_reconstructability", "ALL_TRUE", actual, expected,
                 cited)
    BY <2>1, <2>2, OperandRecords
  <2> QED BY <2>3 DEF actual, expected, cited, operand
<1>4. Recorded(operands[4], "complete_bridge_cohort_count", "AT_LEAST",
               Cardinality(CompleteIn(BridgeCohorts, verdicts)), MinimumBridge, {HorizonId})
  <2> DEFINE complete == Cardinality(CompleteIn(BridgeCohorts, verdicts))
             passed == (complete >= MinimumBridge)
             operand == operands[4]
  <2>1. passed \in BOOLEAN
    OBVIOUS
  <2>2. operand = Operand("complete_bridge_cohort_count", "AT_LEAST", complete, MinimumBridge,
                          passed, {HorizonId})
    BY DEF GateOperands
  <2> HIDE DEF complete, passed, operand
  <2>3. Recorded(operand, "complete_bridge_cohort_count", "AT_LEAST", complete, MinimumBridge,
                 {HorizonId})
    BY <2>1, <2>2, OperandRecords
  <2> QED BY <2>3 DEF complete, operand
<1>5. Recorded(operands[5], "effective_cohort", "EQUALS", EffectiveCohort, EffectiveCohort,
               {ContractId, PolicyId})
  <2> DEFINE passed == (EffectiveCohort = EffectiveCohort)
             operand == operands[5]
  <2>1. passed \in BOOLEAN
    OBVIOUS
  <2>2. operand = Operand("effective_cohort", "EQUALS", EffectiveCohort, EffectiveCohort,
                          passed, {ContractId, PolicyId})
    BY DEF GateOperands, Equals
  <2> HIDE DEF passed, operand
  <2>3. Recorded(operand, "effective_cohort", "EQUALS", EffectiveCohort, EffectiveCohort,
                 {ContractId, PolicyId})
    BY <2>1, <2>2, OperandRecords
  <2> QED BY <2>3 DEF operand
<1>6. Recorded(operands[6], "non_reconstructable_history_reference", "RESOLVES",
               NonReconstructableCohort, "NOT_RECONSTRUCTABLE",
               IF StatusOf(NonReconstructableCohort, verdicts) = "MISSING"
               THEN {HorizonId} ELSE VerdictIds({NonReconstructableCohort}, verdicts))
  <2> DEFINE history == StatusOf(NonReconstructableCohort, verdicts)
             cited == IF history = "MISSING" THEN {HorizonId}
                      ELSE VerdictIds({NonReconstructableCohort}, verdicts)
             passed == (history = "NOT_RECONSTRUCTABLE")
             operand == operands[6]
  <2>1. passed \in BOOLEAN
    OBVIOUS
  <2>2. operand = Operand("non_reconstructable_history_reference", "RESOLVES",
                          NonReconstructableCohort, "NOT_RECONSTRUCTABLE", passed, cited)
    BY DEF GateOperands
  <2> HIDE DEF cited, passed, operand
  <2>3. Recorded(operand, "non_reconstructable_history_reference", "RESOLVES",
                 NonReconstructableCohort, "NOT_RECONSTRUCTABLE", cited)
    BY <2>1, <2>2, OperandRecords
  <2> QED BY <2>3 DEF cited, operand
<1>7. Recorded(operands[7], "invalid_comparison_reference", "RESOLVES", StitchId,
               "INVALID_SCOPED_COMPARISON",
               IF {i \in DOMAIN comparisons : comparisons[i].assessment_id = StitchId} = {}
               THEN {} ELSE {StitchId})
  <2> DEFINE cited == IF {i \in DOMAIN comparisons :
                            comparisons[i].assessment_id = StitchId} = {}
                      THEN {} ELSE {StitchId}
             passed == StitchRefuted(comparisons)
             operand == operands[7]
  <2>1. passed \in BOOLEAN
    BY DEF StitchRefuted
  <2>2. operand = Operand("invalid_comparison_reference", "RESOLVES", StitchId,
                          "INVALID_SCOPED_COMPARISON", passed, cited)
    BY DEF GateOperands
  <2> HIDE DEF cited, passed, operand
  <2>3. Recorded(operand, "invalid_comparison_reference", "RESOLVES", StitchId,
                 "INVALID_SCOPED_COMPARISON", cited)
    BY <2>1, <2>2, OperandRecords
  <2> QED BY <2>3 DEF cited, operand
<1>8. Recorded(operands[8], "required_control_results", "ALL_TRUE", controls, AllPass,
               {<<id>> : id \in DOMAIN controls})
  <2> DEFINE cited == {<<id>> : id \in DOMAIN controls}
             passed == (controls = AllPass)
             operand == operands[8]
  <2>1. passed \in BOOLEAN
    OBVIOUS
  <2>2. operand = Operand("required_control_results", "ALL_TRUE", controls, AllPass, passed,
                          cited)
    BY DEF GateOperands, AllTrue, AllPass
  <2> HIDE DEF cited, passed, operand
  <2>3. Recorded(operand, "required_control_results", "ALL_TRUE", controls, AllPass, cited)
    BY <2>1, <2>2, OperandRecords
  <2> QED BY <2>3 DEF cited, operand
<1> QED BY <1>1, <1>2, <1>3, <1>4, <1>5, <1>6, <1>7, <1>8

\* Verdicts on one version that leave no cohort out.
VerdictsComplete(verdicts) ==
  /\ \A i \in DOMAIN verdicts : verdicts[i].version = "2.0.0"
  /\ \A cohort \in CohortNames :
       /\ \E i \in DOMAIN verdicts : verdicts[i].cohort = cohort
       /\ StatusOf(cohort, verdicts) # "MISSING"

\* Such verdicts are cited by cohort.
LEMMA CitedVerdicts ==
  ASSUME NEW verdicts, VerdictsComplete(verdicts), NEW cohorts, cohorts \subseteq CohortNames
  PROVE  VerdictIds(cohorts, verdicts) = {"2.0.0"} \X cohorts
<1>1. ASSUME NEW id \in VerdictIds(cohorts, verdicts) PROVE id \in {"2.0.0"} \X cohorts
  <2>1. PICK i \in DOMAIN verdicts : /\ verdicts[i].cohort \in cohorts
                                     /\ id = ReconstructabilityId(verdicts[i])
    BY DEF VerdictIds
  <2> QED BY <2>1 DEF VerdictsComplete, ReconstructabilityId
<1>2. ASSUME NEW id \in {"2.0.0"} \X cohorts PROVE id \in VerdictIds(cohorts, verdicts)
  <2>1. PICK cohort \in cohorts : id = <<"2.0.0", cohort>>
    OBVIOUS
  <2>2. PICK i \in DOMAIN verdicts : verdicts[i].cohort = cohort
    BY DEF VerdictsComplete
  <2>3. id = ReconstructabilityId(verdicts[i])
    BY <2>1, <2>2 DEF VerdictsComplete, ReconstructabilityId
  <2> QED BY <2>2, <2>3 DEF VerdictIds
<1> QED BY <1>1, <1>2

\* What the barrier reads of the verdicts is complete when they are.
LEMMA RestatedComplete ==
  ASSUME VerdictsFollowed(evidence.reconstructability)
  PROVE  VerdictsComplete(RestatedVerdicts)
<1> DEFINE verdicts == evidence.reconstructability
           places == {j \in DOMAIN verdicts : verdicts[j].version = "2.0.0"}
           restated == RestatedVerdicts
<1>1. DOMAIN restated = places /\ \A i \in places : restated[i] = verdicts[i]
  BY DEF RestatedVerdicts, OfVersion
<1>2. PICK n \in Nat : DOMAIN verdicts = 1..n
  BY DEF VerdictsFollowed
<1>3. /\ \A i \in DOMAIN verdicts : verdicts[i].status # "MISSING"
      /\ \A cohort \in CohortNames :
           \E i \in DOMAIN verdicts :
             verdicts[i].version = "2.0.0" /\ verdicts[i].cohort = cohort
  BY DEF VerdictsFollowed
<1> HIDE DEF verdicts, restated
<1>4. ASSUME NEW cohort \in CohortNames
      PROVE  /\ \E i \in DOMAIN restated : restated[i].cohort = cohort
             /\ StatusOf(cohort, restated) # "MISSING"
  <2> DEFINE found == {i \in DOMAIN restated : restated[i].cohort = cohort}
  <2>1. found # {} /\ found \in SUBSET (1..n) /\ DOMAIN restated \subseteq Nat
    BY <1>1, <1>2, <1>3
  <2>2. PICK i \in found : \A j \in found : j <= i
    BY <2>1, LastExists
  <2>3. IsLastFor(cohort, restated, i)
    BY <2>2 DEF IsLastFor
  <2>4. LastFor(cohort, restated) = restated[i]
    BY <2>1, <2>3, LastForIsLast
  <2>5. StatusOf(cohort, restated) = restated[i].status
    BY <2>2, <2>4 DEF StatusOf
  <2> QED BY <1>1, <1>3, <2>1, <2>5
<1>5. \A i \in DOMAIN restated : restated[i].version = "2.0.0"
  BY <1>1
<1> QED BY <1>4, <1>5 DEF VerdictsComplete, restated

\* Full verdicts on May and June are two of the two that the bridge needs.
LEMMA FullBridge ==
  ASSUME NEW verdicts, StatusOf("2026-05", verdicts) = "FULLY_RECONSTRUCTABLE",
         StatusOf("2026-06", verdicts) = "FULLY_RECONSTRUCTABLE"
  PROVE  /\ StatusesIn(RestatementCohorts, verdicts) = FullStatuses(RestatementCohorts)
         /\ StatusesIn(BridgeCohorts, verdicts) = FullStatuses(BridgeCohorts)
         /\ CompleteIn(BridgeCohorts, verdicts) = BridgeCohorts
         /\ Cardinality(BridgeCohorts) = 2 /\ MinimumBridge = 2
<1>1. CompleteIn(BridgeCohorts, verdicts) = BridgeCohorts
  BY DEF CompleteIn, BridgeCohorts
<1>2. Cardinality({"2026-05", "2026-06"}) = 2
  <2>1. IsFiniteSet({"2026-05"}) /\ Cardinality({"2026-05"}) = 1
    BY FS_Singleton
  <2>2. "2026-06" \notin {"2026-05"} /\ {"2026-05", "2026-06"} = {"2026-05"} \cup {"2026-06"}
    OBVIOUS
  <2> QED BY <2>1, <2>2, FS_AddElement
<1> QED BY <1>1, <1>2, StatusesAreFull DEF BridgeCohorts, MinimumBridge

\* The names of the operands of the gate.
NamesOfGate ==
  { "horizon_restatement_coverage", "restatement_cohort_reconstructability",
    "bridge_cohort_reconstructability", "complete_bridge_cohort_count", "effective_cohort",
    "non_reconstructable_history_reference", "invalid_comparison_reference",
    "required_control_results" }

\* What fails of the gate over complete verdicts and a stitch that was refuted.
GateRefusal(operands, horizon, verdicts, controls) ==
  /\ RefusalOperands(operands)
  /\ DOMAIN operands \subseteq {1, 2, 3, 4, 6, 8}
  /\ DOMAIN operands \cap {2, 3, 4} # {} =>
       ~ /\ StatusOf("2026-05", verdicts) = "FULLY_RECONSTRUCTABLE"
         /\ StatusOf("2026-06", verdicts) = "FULLY_RECONSTRUCTABLE"
  /\ 1 \in DOMAIN operands => operands[1].actual = horizon.status
  /\ 8 \in DOMAIN operands <=> controls # AllPass
  /\ 8 \in DOMAIN operands => operands[8].actual = controls
  /\ \A k \in DOMAIN operands : /\ operands[k].name \in NamesOfGate
                                /\ StitchId \notin operands[k].evidence

\* The failed operands of such a gate.
LEMMA GateRefuses ==
  ASSUME NEW horizon, NEW verdicts, NEW comparisons, NEW controls, NEW operands,
         operands = GateOperands(horizon, verdicts, comparisons, controls),
         VerdictsComplete(verdicts), StitchRefuted(comparisons), DOMAIN controls = ControlIds,
         FailedAt(operands) # {}
  PROVE  GateRefusal(Failed(operands), horizon, verdicts, controls)
<1> DEFINE failed == Failed(operands)
<1>1. /\ DOMAIN operands = 1..8
      /\ DOMAIN failed = {i \in 1..8 : ~operands[i].passed}
      /\ \A i \in DOMAIN failed : failed[i] = operands[i]
  BY GateLength DEF Failed, FailedAt
<1>2. DOMAIN failed # {}
  BY DEF Failed
<1> HIDE DEF failed
<1>3. /\ operands[1].passed <=> horizon.status = "PARTIAL"
      /\ operands[5].passed /\ operands[7].passed
      /\ operands[8].passed <=> controls = AllPass
      /\ operands[2].passed <=> (StatusesIn(RestatementCohorts, verdicts)
                                  = FullStatuses(RestatementCohorts))
      /\ operands[3].passed <=> (StatusesIn(BridgeCohorts, verdicts)
                                  = FullStatuses(BridgeCohorts))
      /\ operands[4].passed <=> (Cardinality(CompleteIn(BridgeCohorts, verdicts))
                                  >= MinimumBridge)
  BY GateSays DEF AllPass
<1>4. DOMAIN failed \subseteq {1, 2, 3, 4, 6, 8}
  BY <1>1, <1>3
<1>5. 8 \in DOMAIN failed <=> controls # AllPass
  BY <1>1, <1>3
<1>6. DOMAIN failed \cap {2, 3, 4} # {} =>
        ~ /\ StatusOf("2026-05", verdicts) = "FULLY_RECONSTRUCTABLE"
          /\ StatusOf("2026-06", verdicts) = "FULLY_RECONSTRUCTABLE"
  BY <1>1, <1>3, FullBridge
<1>7. StitchId \notin {"2.0.0"} \X CohortNames /\ StitchId # HorizonId
      /\ \A id \in ControlIds : StitchId # <<id>>
  BY DEF StitchId, HorizonId, ControlIds
<1>8. /\ RestatementCohorts \subseteq CohortNames /\ BridgeCohorts \subseteq CohortNames
      /\ {NonReconstructableCohort} \subseteq CohortNames
  BY ThreeCohortNames DEF RestatementCohorts, BridgeCohorts, NonReconstructableCohort
<1>9. 1 \in DOMAIN failed =>
        /\ failed[1] = Operand("horizon_restatement_coverage", "EQUALS", horizon.status,
                               "PARTIAL", FALSE, {HorizonId})
        /\ horizon.status # "PARTIAL"
  <2>1. Recorded(operands[1], "horizon_restatement_coverage", "EQUALS", horizon.status,
                 "PARTIAL", {HorizonId})
    BY GateRecords
  <2> QED BY <1>1, <1>3, <2>1 DEF Recorded
<1>10. 6 \in DOMAIN failed =>
         failed[6] = Operand("non_reconstructable_history_reference", "RESOLVES",
                             NonReconstructableCohort, "NOT_RECONSTRUCTABLE", FALSE,
                             {"2.0.0"} \X {NonReconstructableCohort})
  <2> DEFINE cited == IF StatusOf(NonReconstructableCohort, verdicts) = "MISSING"
                      THEN {HorizonId} ELSE VerdictIds({NonReconstructableCohort}, verdicts)
  <2>1. Recorded(operands[6], "non_reconstructable_history_reference", "RESOLVES",
                 NonReconstructableCohort, "NOT_RECONSTRUCTABLE", cited)
    BY GateRecords
  <2>2. cited = {"2.0.0"} \X {NonReconstructableCohort}
    BY <1>8, CitedVerdicts DEF VerdictsComplete
  <2> HIDE DEF cited
  <2> QED BY <1>1, <2>1, <2>2 DEF Recorded
<1>11. 8 \in DOMAIN failed =>
         failed[8] = Operand("required_control_results", "ALL_TRUE", controls, AllPass, FALSE,
                             {<<id>> : id \in ControlIds})
  <2>1. Recorded(operands[8], "required_control_results", "ALL_TRUE", controls, AllPass,
                 {<<id>> : id \in DOMAIN controls})
    BY GateRecords
  <2> QED BY <1>1, <2>1 DEF Recorded
<1>12. /\ operands[2].name \in NamesOfGate /\ operands[3].name \in NamesOfGate
       /\ operands[4].name \in NamesOfGate
       /\ StitchId \notin operands[2].evidence /\ StitchId \notin operands[3].evidence
       /\ StitchId \notin operands[4].evidence
  <2>2. /\ operands[2].name = "restatement_cohort_reconstructability"
        /\ operands[2].evidence = VerdictIds(RestatementCohorts, verdicts)
        /\ operands[3].name = "bridge_cohort_reconstructability"
        /\ operands[3].evidence = VerdictIds(BridgeCohorts, verdicts)
        /\ operands[4].name = "complete_bridge_cohort_count"
        /\ operands[4].evidence = {HorizonId}
    <3>1. Recorded(operands[2], "restatement_cohort_reconstructability", "ALL_TRUE",
                   StatusesIn(RestatementCohorts, verdicts),
                   FullStatuses(RestatementCohorts), VerdictIds(RestatementCohorts, verdicts))
      BY GateRecords
    <3>2. Recorded(operands[3], "bridge_cohort_reconstructability", "ALL_TRUE",
                   StatusesIn(BridgeCohorts, verdicts), FullStatuses(BridgeCohorts),
                   VerdictIds(BridgeCohorts, verdicts))
      BY GateRecords
    <3>3. Recorded(operands[4], "complete_bridge_cohort_count", "AT_LEAST",
                   Cardinality(CompleteIn(BridgeCohorts, verdicts)), MinimumBridge,
                   {HorizonId})
      BY GateRecords
    <3>4. /\ operands[2].name = "restatement_cohort_reconstructability"
          /\ operands[2].evidence = VerdictIds(RestatementCohorts, verdicts)
      BY <3>1 DEF Recorded, Operand
    <3>5. /\ operands[3].name = "bridge_cohort_reconstructability"
          /\ operands[3].evidence = VerdictIds(BridgeCohorts, verdicts)
      BY <3>2 DEF Recorded, Operand
    <3>6. /\ operands[4].name = "complete_bridge_cohort_count"
          /\ operands[4].evidence = {HorizonId}
      BY <3>3 DEF Recorded, Operand
    <3> QED BY <3>4, <3>5, <3>6
  <2>3. /\ VerdictIds(RestatementCohorts, verdicts) \subseteq {"2.0.0"} \X CohortNames
        /\ VerdictIds(BridgeCohorts, verdicts) \subseteq {"2.0.0"} \X CohortNames
    BY <1>8, CitedVerdicts
  <2> QED BY <1>7, <2>2, <2>3 DEF NamesOfGate
<1>13. /\ 1 \in DOMAIN failed => /\ failed[1].name = "horizon_restatement_coverage"
                                 /\ failed[1].evidence = {HorizonId}
                                 /\ failed[1].actual = horizon.status
       /\ 6 \in DOMAIN failed =>
            /\ failed[6].name = "non_reconstructable_history_reference"
            /\ failed[6].evidence = {"2.0.0"} \X {NonReconstructableCohort}
       /\ 8 \in DOMAIN failed => /\ failed[8].name = "required_control_results"
                                 /\ failed[8].evidence = {<<id>> : id \in ControlIds}
                                 /\ failed[8].actual = controls
  <2>1. 1 \in DOMAIN failed => /\ failed[1].name = "horizon_restatement_coverage"
                                 /\ failed[1].evidence = {HorizonId}
                                 /\ failed[1].actual = horizon.status
    BY <1>9 DEF Operand
  <2>2. 6 \in DOMAIN failed =>
            /\ failed[6].name = "non_reconstructable_history_reference"
            /\ failed[6].evidence = {"2.0.0"} \X {NonReconstructableCohort}
    BY <1>10 DEF Operand
  <2>3. 8 \in DOMAIN failed => /\ failed[8].name = "required_control_results"
                                 /\ failed[8].evidence = {<<id>> : id \in ControlIds}
                                 /\ failed[8].actual = controls
    BY <1>11 DEF Operand
  <2> QED BY <2>1, <2>2, <2>3
<1>14. ASSUME NEW k \in DOMAIN failed
       PROVE  failed[k].name \in NamesOfGate /\ StitchId \notin failed[k].evidence
  <2>1. CASE k = 1
    BY <1>7, <1>13, <2>1 DEF NamesOfGate
  <2>2. CASE k = 6
    <3>1. {"2.0.0"} \X {NonReconstructableCohort} \subseteq {"2.0.0"} \X CohortNames
      BY <1>8
    <3> QED BY <1>7, <1>13, <2>2, <3>1 DEF NamesOfGate
  <2>3. CASE k = 8
    BY <1>7, <1>13, <2>3 DEF NamesOfGate
  <2>4. CASE k \in {2, 3, 4}
    BY <1>1, <1>12, <2>4
  <2> QED BY <1>4, <2>1, <2>2, <2>3, <2>4
<1>15. RefusalOperands(failed)
  <2>1. 1 \in DOMAIN failed =>
          /\ failed[1] = Operand("horizon_restatement_coverage", "EQUALS", failed[1].actual,
                                 "PARTIAL", FALSE, {HorizonId})
          /\ failed[1].actual # "PARTIAL"
    BY <1>9, <1>13
  <2>2. 8 \in DOMAIN failed =>
          /\ failed[8] = Operand("required_control_results", "ALL_TRUE", failed[8].actual,
                                 AllPass, FALSE, {<<id>> : id \in ControlIds})
          /\ failed[8].actual # AllPass
    BY <1>5, <1>11, <1>13
  <2> QED BY <1>2, <1>10, <2>1, <2>2 DEF RefusalOperands
<1> QED BY <1>4, <1>5, <1>6, <1>13, <1>14, <1>15 DEF GateRefusal, failed

\* A record of what passed.
LEMMA PassedRecord ==
  ASSUME NEW operand, NEW name, NEW operator, NEW actual, NEW expected, NEW cited,
         Recorded(operand, name, operator, actual, expected, cited), operand.passed
  PROVE  operand = Operand(name, operator, actual, expected, TRUE, cited)
<1>1. operand.passed = TRUE
  BY DEF Recorded
<1> QED BY <1>1 DEF Recorded

\* Where no operand of the gate fails they are the passing ones.
LEMMA GatePasses ==
  ASSUME NEW horizon, NEW verdicts, NEW comparisons, NEW controls, NEW operands,
         operands = GateOperands(horizon, verdicts, comparisons, controls),
         VerdictsComplete(verdicts), StitchRefuted(comparisons),
         FailedAt(operands) = {}
  PROVE  operands = PassingOperands /\ controls = AllPass
<1>1. DOMAIN operands = 1..8 /\ \A i \in 1..8 : operands[i].passed
  BY GateLength DEF FailedAt
<1>0. /\ operands[1].passed /\ operands[2].passed /\ operands[3].passed /\ operands[4].passed
      /\ operands[5].passed /\ operands[6].passed /\ operands[7].passed /\ operands[8].passed
  BY <1>1
<1>2. /\ horizon.status = "PARTIAL"
      /\ StatusesIn(RestatementCohorts, verdicts) = FullStatuses(RestatementCohorts)
      /\ StatusesIn(BridgeCohorts, verdicts) = FullStatuses(BridgeCohorts)
      /\ StatusOf(NonReconstructableCohort, verdicts) = "NOT_RECONSTRUCTABLE"
      /\ controls = AllPass
  BY <1>1, GateSays DEF AllPass
<1>3. CompleteIn(BridgeCohorts, verdicts) = BridgeCohorts
  BY <1>2, StatusesAreFull, FullBridge
<1>4. /\ VerdictIds(RestatementCohorts, verdicts) = {"2.0.0"} \X RestatementCohorts
      /\ VerdictIds(BridgeCohorts, verdicts) = {"2.0.0"} \X BridgeCohorts
      /\ VerdictIds({NonReconstructableCohort}, verdicts)
           = {"2.0.0"} \X {NonReconstructableCohort}
  <2>1. /\ RestatementCohorts \subseteq CohortNames /\ BridgeCohorts \subseteq CohortNames
        /\ {NonReconstructableCohort} \subseteq CohortNames
    BY ThreeCohortNames DEF RestatementCohorts, BridgeCohorts, NonReconstructableCohort
  <2> QED BY <2>1, CitedVerdicts
<1>5. operands[1] = PassingOperands[1]
  <2>1. Recorded(operands[1], "horizon_restatement_coverage", "EQUALS", horizon.status,
                 "PARTIAL", {HorizonId})
    BY GateRecords
  <2>7. Recorded(operands[1], "horizon_restatement_coverage", "EQUALS", "PARTIAL",
                 "PARTIAL", {HorizonId})
    BY <1>2, <2>1
  <2>8. operands[1].passed = TRUE
    BY <1>0, <2>7 DEF Recorded
  <2>9. operands[1] = Operand("horizon_restatement_coverage", "EQUALS", "PARTIAL", "PARTIAL",
                              TRUE, {HorizonId})
    BY <2>7, <2>8 DEF Recorded
  <2> QED BY <2>9 DEF PassingOperands
<1>6. operands[2] = PassingOperands[2]
  <2>1. Recorded(operands[2], "restatement_cohort_reconstructability", "ALL_TRUE",
                 StatusesIn(RestatementCohorts, verdicts), FullStatuses(RestatementCohorts),
                 VerdictIds(RestatementCohorts, verdicts))
    BY GateRecords
  <2>7. Recorded(operands[2], "restatement_cohort_reconstructability", "ALL_TRUE",
                 FullStatuses(RestatementCohorts), FullStatuses(RestatementCohorts),
                 {"2.0.0"} \X RestatementCohorts)
    BY <1>2, <1>4, <2>1
  <2>8. operands[2].passed = TRUE
    BY <1>0, <2>7 DEF Recorded
  <2>9. operands[2] = Operand("restatement_cohort_reconstructability", "ALL_TRUE",
                              FullStatuses(RestatementCohorts),
                              FullStatuses(RestatementCohorts), TRUE,
                              {"2.0.0"} \X RestatementCohorts)
    BY <2>7, <2>8 DEF Recorded
  <2> QED BY <2>9 DEF PassingOperands
<1>7. operands[3] = PassingOperands[3]
  <2>1. Recorded(operands[3], "bridge_cohort_reconstructability", "ALL_TRUE",
                 StatusesIn(BridgeCohorts, verdicts), FullStatuses(BridgeCohorts),
                 VerdictIds(BridgeCohorts, verdicts))
    BY GateRecords
  <2>7. Recorded(operands[3], "bridge_cohort_reconstructability", "ALL_TRUE",
                 FullStatuses(BridgeCohorts), FullStatuses(BridgeCohorts),
                 {"2.0.0"} \X BridgeCohorts)
    BY <1>2, <1>4, <2>1
  <2>8. operands[3].passed = TRUE
    BY <1>0, <2>7 DEF Recorded
  <2>9. operands[3] = Operand("bridge_cohort_reconstructability", "ALL_TRUE",
                              FullStatuses(BridgeCohorts), FullStatuses(BridgeCohorts), TRUE,
                              {"2.0.0"} \X BridgeCohorts)
    BY <2>7, <2>8 DEF Recorded
  <2> QED BY <2>9 DEF PassingOperands
<1>8. operands[4] = PassingOperands[4]
  <2>1. Recorded(operands[4], "complete_bridge_cohort_count", "AT_LEAST",
                 Cardinality(CompleteIn(BridgeCohorts, verdicts)), MinimumBridge, {HorizonId})
    BY GateRecords
  <2>7. Recorded(operands[4], "complete_bridge_cohort_count", "AT_LEAST",
                 Cardinality(BridgeCohorts), MinimumBridge, {HorizonId})
    BY <1>3, <2>1
  <2>8. operands[4].passed = TRUE
    BY <1>0, <2>7 DEF Recorded
  <2>9. operands[4] = Operand("complete_bridge_cohort_count", "AT_LEAST",
                              Cardinality(BridgeCohorts), MinimumBridge, TRUE, {HorizonId})
    BY <2>7, <2>8 DEF Recorded
  <2> QED BY <2>9 DEF PassingOperands
<1>9. operands[5] = PassingOperands[5]
  <2>1. Recorded(operands[5], "effective_cohort", "EQUALS", EffectiveCohort, EffectiveCohort,
                 {ContractId, PolicyId})
    BY GateRecords
  <2>7. Recorded(operands[5], "effective_cohort", "EQUALS", EffectiveCohort,
                 EffectiveCohort, {ContractId, PolicyId})
    BY <2>1
  <2>8. operands[5].passed = TRUE
    BY <1>0, <2>7 DEF Recorded
  <2>9. operands[5] = Operand("effective_cohort", "EQUALS", EffectiveCohort, EffectiveCohort,
                              TRUE, {ContractId, PolicyId})
    BY <2>7, <2>8 DEF Recorded
  <2> QED BY <2>9 DEF PassingOperands
<1>10. operands[6] = PassingOperands[6]
  <2> DEFINE cited == IF StatusOf(NonReconstructableCohort, verdicts) = "MISSING"
                      THEN {HorizonId} ELSE VerdictIds({NonReconstructableCohort}, verdicts)
  <2>1. Recorded(operands[6], "non_reconstructable_history_reference", "RESOLVES",
                 NonReconstructableCohort, "NOT_RECONSTRUCTABLE", cited)
    BY GateRecords
  <2>2. cited = {"2.0.0"} \X {NonReconstructableCohort}
    BY <1>2, <1>4
  <2> HIDE DEF cited
  <2>7. Recorded(operands[6], "non_reconstructable_history_reference", "RESOLVES",
                 NonReconstructableCohort, "NOT_RECONSTRUCTABLE",
                 {"2.0.0"} \X {NonReconstructableCohort})
    BY <2>1, <2>2
  <2>8. operands[6].passed = TRUE
    BY <1>0, <2>7 DEF Recorded
  <2>9. operands[6] = Operand("non_reconstructable_history_reference", "RESOLVES",
                              NonReconstructableCohort, "NOT_RECONSTRUCTABLE", TRUE,
                              {"2.0.0"} \X {NonReconstructableCohort})
    BY <2>7, <2>8 DEF Recorded
  <2> QED BY <2>9 DEF PassingOperands
<1>11. operands[7] = PassingOperands[7]
  <2> DEFINE cited == IF {i \in DOMAIN comparisons :
                            comparisons[i].assessment_id = StitchId} = {}
                      THEN {} ELSE {StitchId}
  <2>1. Recorded(operands[7], "invalid_comparison_reference", "RESOLVES", StitchId,
                 "INVALID_SCOPED_COMPARISON", cited)
    BY GateRecords
  <2>2. cited = {StitchId}
    BY DEF StitchRefuted
  <2> HIDE DEF cited
  <2>7. Recorded(operands[7], "invalid_comparison_reference", "RESOLVES", StitchId,
                 "INVALID_SCOPED_COMPARISON", {StitchId})
    BY <2>1, <2>2
  <2>8. operands[7].passed = TRUE
    BY <1>0, <2>7 DEF Recorded
  <2>9. operands[7] = Operand("invalid_comparison_reference", "RESOLVES", StitchId,
                              "INVALID_SCOPED_COMPARISON", TRUE, {StitchId})
    BY <2>7, <2>8 DEF Recorded
  <2> QED BY <2>9 DEF PassingOperands
<1>12. operands[8] = PassingOperands[8]
  <2> DEFINE cited == {<<id>> : id \in DOMAIN controls}
  <2>1. Recorded(operands[8], "required_control_results", "ALL_TRUE", controls, AllPass, cited)
    BY GateRecords
  <2>2. cited = {<<id>> : id \in ControlIds}
    BY <1>2 DEF AllPass
  <2> HIDE DEF cited
  <2>7. Recorded(operands[8], "required_control_results", "ALL_TRUE", AllPass, AllPass,
                 {<<id>> : id \in ControlIds})
    BY <1>2, <2>1, <2>2
  <2>8. operands[8].passed = TRUE
    BY <1>0, <2>7 DEF Recorded
  <2>9. operands[8] = Operand("required_control_results", "ALL_TRUE", AllPass, AllPass, TRUE,
                              {<<id>> : id \in ControlIds})
    BY <2>7, <2>8 DEF Recorded
  <2> QED BY <2>9 DEF PassingOperands
<1>13. /\ operands = <<operands[1], operands[2], operands[3], operands[4], operands[5],
                       operands[6], operands[7], operands[8]>>
       /\ PassingOperands = <<PassingOperands[1], PassingOperands[2], PassingOperands[3],
                              PassingOperands[4], PassingOperands[5], PassingOperands[6],
                              PassingOperands[7], PassingOperands[8]>>
  BY DEF GateOperands, PassingOperands
<1> QED BY <1>2, <1>5, <1>6, <1>7, <1>8, <1>9, <1>10, <1>11, <1>12, <1>13

\* Comparisons and decisions with the identifiers of those that are built.
NamedAsBuilt(comparisons, changes) ==
  /\ {comparisons[i].assessment_id : i \in DOMAIN comparisons}
       = {TrendNames[i].assessment_id : i \in DOMAIN TrendNames}
  /\ comparisons[1].assessment_id = TrendNames[1].assessment_id
  /\ {changes[i].change_id : i \in DOMAIN changes}
       = {ChangeNames[i].change_id : i \in DOMAIN ChangeNames}

\* A restatement names its comparisons and decisions by their identifiers only.
LEMMA RestatementOfNames ==
  ASSUME NEW operands, NEW comparisons, NEW changes,
         NamedAsBuilt(comparisons, changes)
  PROVE  PartialRestatement(operands, comparisons, changes)
           = PartialRestatement(operands, TrendNames, ChangeNames)
BY DEF PartialRestatement, NamedAsBuilt

\* A plan that the gate derives from all this.
PlanOfGate(plan, horizon, verdicts, controls) ==
  \/ plan = TheRestatement /\ controls = AllPass
  \/ \E failed : /\ plan = Rejection(GateId, failed, NamesOf(failed))
                 /\ GateRefusal(failed, horizon, verdicts, controls)

\* So an attributed plan is the restatement or a rejection by the gate.
LEMMA GatePlans ==
  ASSUME NEW analysis, NEW horizon, NEW verdicts, NEW comparisons, NEW changes, NEW controls,
         NEW plan,
         plan = MigrationPlan(analysis, horizon, verdicts, comparisons, changes, controls),
         analysis.attribution_valid,
         VerdictsComplete(verdicts), StitchRefuted(comparisons), DOMAIN controls = ControlIds,
         NamedAsBuilt(comparisons, changes)
  PROVE  PlanOfGate(plan, horizon, verdicts, controls)
<1> DEFINE operands == GateOperands(horizon, verdicts, comparisons, controls)
<1>1. plan = IF FailedAt(operands) # {}
             THEN Rejection(GateId, Failed(operands), NamesOf(Failed(operands)))
             ELSE PartialRestatement(operands, comparisons, changes)
  BY DEF MigrationPlan, GateId
<1> HIDE DEF operands
<1>2. CASE FailedAt(operands) # {}
  <2>1. GateRefusal(Failed(operands), horizon, verdicts, controls)
    BY <1>2, GateRefuses DEF operands
  <2> QED BY <1>1, <1>2, <2>1 DEF PlanOfGate
<1>3. CASE FailedAt(operands) = {}
  <2>1. operands = PassingOperands /\ controls = AllPass
    BY <1>3, GatePasses DEF operands
  <2>2. plan = PartialRestatement(PassingOperands, TrendNames, ChangeNames)
    BY <1>1, <1>3, <2>1, RestatementOfNames
  <2> QED BY <2>1, <2>2 DEF TheRestatement, PlanOfGate
<1> QED BY <1>2, <1>3

-----------------------------------------------------------------------------
(***************************************************************************)
(* What the stages leave is followed.                                       *)
(***************************************************************************)
\* The decisions of the stages follow what nobody altered.
LEMMA StagesChanges ==
  ASSUME IInv, Serializing
  PROVE  ChangesFollowed(evidence.decision_changes, {}, MayDifference)
<1> DEFINE changes == evidence.decision_changes
           L == {}
<1>1. changes = ChangesOf
  BY Complete DEF Serializing
<1>2. /\ DOMAIN changes = 1..3
      /\ changes[1].comparisons = {} /\ changes[2].comparisons = {}
      /\ changes[2].assumptions = {}
  BY <1>1, ChangesCite DEF ChangesOf
<1>3. /\ ChangeFields \cup {"classification"} \subseteq DOMAIN changes[1]
      /\ ChangeFields \cup {"classification"} \subseteq DOMAIN changes[2]
      /\ ChangeFields \cup {"classification"} \subseteq DOMAIN changes[3]
      /\ changes[1].classification = "CHANGED"
           <=> changes[1].before_state # changes[1].after_state
      /\ changes[2].classification = "CHANGED"
           <=> changes[2].before_state # changes[2].after_state
      /\ changes[3].classification = "CHANGED"
           <=> changes[3].before_state # changes[3].after_state
      /\ changes[1].exact_delta = MayDifference
  <2>1. PICK before, after, delta, comparisons, cited, assumptions :
          changes[1] = DecisionChange("THRESHOLD", before, after, delta, comparisons, cited,
                                      assumptions)
          /\ delta = MayDifference
    BY <1>1 DEF ChangesOf, DecisionChanges, MayDifference, MayKeys
  <2>2. PICK before2, after2, delta2, comparisons2, cited2, assumptions2 :
          changes[2] = DecisionChange("RANKING", before2, after2, delta2, comparisons2, cited2,
                                      assumptions2)
    BY <1>1 DEF ChangesOf, DecisionChanges
  <2>3. PICK before3, after3, delta3, comparisons3, cited3, assumptions3 :
          changes[3] = DecisionChange("TREND_INTERPRETATION", before3, after3, delta3,
                                      comparisons3, cited3, assumptions3)
    BY <1>1 DEF ChangesOf, DecisionChanges
  <2> HIDE DEF changes
  <2>4. /\ ChangeFields \cup {"classification"} \subseteq DOMAIN changes[1]
        /\ changes[1].classification = "CHANGED"
           <=> changes[1].before_state # changes[1].after_state
        /\ changes[1].exact_delta = MayDifference
    BY <2>1 DEF DecisionChange, ChangeFields
  <2>5. /\ ChangeFields \cup {"classification"} \subseteq DOMAIN changes[2]
        /\ changes[2].classification = "CHANGED"
           <=> changes[2].before_state # changes[2].after_state
    BY <2>2 DEF DecisionChange, ChangeFields
  <2>6. /\ ChangeFields \cup {"classification"} \subseteq DOMAIN changes[3]
        /\ changes[3].classification = "CHANGED"
           <=> changes[3].before_state # changes[3].after_state
    BY <2>3 DEF DecisionChange, ChangeFields
  <2> QED BY <2>4, <2>5, <2>6
<1> HIDE DEF changes
<1>4. ChangeFollowed(changes[1], 1, {}, MayDifference)
  BY <1>2, <1>3 DEF ChangeFollowed
<1>5. ChangeFollowed(changes[2], 2, {}, MayDifference)
  BY <1>2, <1>3 DEF ChangeFollowed
<1>6. ChangeFollowed(changes[3], 3, {}, MayDifference)
  BY <1>2, <1>3 DEF ChangeFollowed
<1> QED BY <1>2, <1>4, <1>5, <1>6 DEF ChangesFollowed, changes

\* So does the index of what they impacted.
LEMMA StagesImpact ==
  ASSUME IInv, Serializing
  PROVE  ImpactFollowed(evidence.impact, {})
<1>1. evidence.impact = ImpactIndex(evidence.decision_changes)
  BY Complete DEF Serializing
<1>2. DOMAIN evidence.decision_changes = 1..3
  BY Complete, ChangesCite DEF Serializing, ChangesOf
<1> DEFINE impact == evidence.impact
           changes == evidence.decision_changes
<1>3. impact = [i \in 1..3 |-> changes[i].change_id]
  BY <1>1, <1>2 DEF ImpactIndex
<1> HIDE DEF impact, changes
<1>4. impact = <<impact[1], impact[2], impact[3]>>
  BY <1>3
<1> QED BY <1>4 DEF ImpactFollowed, impact

\* So do the comparisons.
LEMMA StagesCompared ==
  ASSUME IInv, Serializing
  PROVE  /\ ImpactComparisonFollowed(evidence.g3_comparison, {}, MayDifference)
         /\ TrendsFollowed(evidence.comparisons, {})
<1>1. /\ evidence.g3_comparison = ConfoundedOf
      /\ evidence.comparisons[1] = StitchOf /\ evidence.comparisons[2] = RestatedOf
      /\ evidence.golden_analysis = GoldenDifference
  BY ComparisonsAre, Complete DEF Serializing
<1>2. /\ ConfoundedOf.exact_delta = MayDifference
      /\ ConfoundedOf.left.result_id = MayKeys[1]
      /\ ConfoundedOf.right.result_id = MayKeys[2]
  BY DEF ConfoundedOf, ConfoundedComparison, Comparison, Endpoint, MayDifference, MayKeys
<1>3. /\ GoldenDifference.controlled_context_match = TRUE
      /\ GoldenDifference.analysis_id = GoldenAnalysisId
  BY DEF GoldenDifference, ArmDifference
<1>4. /\ StitchOf.controlled_context_match = evidence.golden_analysis.controlled_context_match
      /\ StitchOf.analysis_id = evidence.golden_analysis.analysis_id
      /\ RestatedOf.controlled_context_match = evidence.golden_analysis.controlled_context_match
      /\ RestatedOf.analysis_id = evidence.golden_analysis.analysis_id
  BY DEF StitchOf, StitchFrom, RestatedOf, RestatedFrom, Comparison
<1> QED BY <1>1, <1>2, <1>3, <1>4 DEF ImpactComparisonFollowed, TrendsFollowed

\* So does the analysis.
LEMMA StagesAnalysis ==
  ASSUME IInv, Serializing
  PROVE  AnalysisFollowed(evidence.golden_analysis, {}, Attributable)
<1> DEFINE analysis == evidence.golden_analysis
           valid == /\ ArtifactDifferent(First, Restated)
                    /\ SemanticDifferent(First, Restated)
                    /\ IndependentSemanticChanges(First, Restated) = {"denominator"}
                    /\ "shared" = "shared"
<1>1. analysis = GoldenDifference
  BY Complete DEF Serializing
<1>2. /\ valid \in BOOLEAN
      /\ GoldenDifference = [ analysis_id |-> GoldenAnalysisId,
                              controlled_context_match |-> TRUE,
                              attribution_valid |-> valid ]
  BY Zenon DEF GoldenDifference, ArmDifference
<1> HIDE DEF valid
<1>3. /\ AnalysisFields \subseteq DOMAIN analysis
      /\ analysis.attribution_valid \in BOOLEAN /\ analysis.controlled_context_match = TRUE
  BY <1>1, <1>2 DEF AnalysisFields
<1>4. analysis.attribution_valid <=> Attributable
  BY <1>1 DEF Attributable
<1> HIDE DEF analysis
<1> QED BY <1>3, <1>4 DEF AnalysisFollowed, analysis, Attributable

\* So do the controls, which are their own original.
LEMMA StagesControls ==
  ASSUME NEW controls
  PROVE  ControlsFollowed(controls, {}, controls)
BY DEF ControlsFollowed

\* And the analysis of the confounded arms has its identifier.
LEMMA StagesConfounded ==
  ASSUME IInv, Serializing
  PROVE  ConfoundedFollowed(evidence.g3_analysis)
<1> DEFINE analysis == evidence.g3_analysis
           valid == /\ ArtifactDifferent(First, Restated)
                    /\ SemanticDifferent(First, Restated)
                    /\ IndependentSemanticChanges(First, Restated) = {"denominator"}
                    /\ "shared" = "confounded"
<1>1. analysis = ConfoundedDifference
  BY Complete DEF Serializing
<1>2. /\ valid \in BOOLEAN
      /\ ConfoundedDifference = [ analysis_id |-> ConfoundedAnalysisId,
                                  controlled_context_match |-> "shared" = "confounded",
                                  attribution_valid |-> valid ]
  BY Zenon DEF ConfoundedDifference, ArmDifference
<1> HIDE DEF valid, analysis
<1>3. ConfoundedFollowed(analysis)
  BY <1>1, <1>2 DEF ConfoundedFollowed
<1> QED BY <1>3 DEF analysis

\* And so do the plans of an input whose arms differ by more than the denominator.
LEMMA StagesPlanFields ==
  ASSUME IInv, Serializing
  PROVE  /\ PlanFields \subseteq DOMAIN evidence.plan
         /\ PlanFields \subseteq DOMAIN evidence.g3_plan
         /\ ~Attributable => evidence.plan.plan_id = RefusedId
         /\ evidence.g3_plan = TheRefusal /\ evidence.g3_plan.plan_id = RefusedId
<1>1. \A id, operands, refs : /\ PlanFields \subseteq DOMAIN Rejection(id, operands, refs)
                              /\ Rejection(id, operands, refs).plan_id = id
  BY DEF Rejection, PlanFields
<1>2. \A operands, comparisons, changes :
        PlanFields \subseteq DOMAIN PartialRestatement(operands, comparisons, changes)
  BY DEF PartialRestatement, PlanFields
<1>3. evidence.g3_plan = TheRefusal
  <2>1. /\ evidence.g3_analysis.attribution_valid = FALSE
        /\ evidence.g3_analysis.analysis_id = ConfoundedAnalysisId
    BY Complete DEF Serializing, ConfoundedDifference, ArmDifference
  <2> QED BY <2>1, RefusalIs DEF Serializing, TheRefusal, RefusedId
<1>4. PlanFields \subseteq DOMAIN evidence.g3_plan /\ evidence.g3_plan.plan_id = RefusedId
  <2> DEFINE operands == << Equals("definition_only_attribution_valid", FALSE, TRUE,
                                   {ConfoundedAnalysisId}) >>
             refs == {ConfoundedAnalysisId}
  <2>1. TheRefusal = Rejection(RefusedId, operands, refs)
    BY DEF TheRefusal
  <2> HIDE DEF operands, refs
  <2> QED BY <1>1, <1>3, <2>1
<1>5. Attributable <=> evidence.golden_analysis.attribution_valid
  BY Complete DEF Serializing, Attributable
<1>6. CASE ~Attributable
  <2>1. PICK operands, refs : evidence.plan = Rejection(RefusedId, operands, refs)
    BY <1>5, <1>6, UnattributedPlanIs DEF Serializing, RefusedId
  <2> QED BY <1>1, <1>3, <1>4, <2>1
<1>7. CASE Attributable
  <2>1. PlanFields \subseteq DOMAIN evidence.plan
    <3>1. CASE FailedAt(TheGate) # {}
      BY <1>1, <1>5, <1>7, <3>1, AttributedPlanIs DEF Serializing
    <3>2. CASE FailedAt(TheGate) = {}
      BY <1>2, <1>5, <1>7, <3>2, AttributedPlanIs DEF Serializing
    <3> QED BY <3>1, <3>2
  <2> QED BY <1>3, <1>4, <1>7, <2>1
<1> QED BY <1>6, <1>7

\* It is restatement or rejection in all its parts.
LEMMA PartsOfRestatement ==
  /\ TheRestatement.plan_id = PositiveId
  /\ TheRestatement.recommendation = "PARTIAL_RESTATEMENT"
  /\ LegitActions(PositiveId, TheRestatement.actions) /\ ~ForeignActions(TheRestatement.actions)
  /\ LegitTraces(PositiveId, TheRestatement.rule_trace)
  /\ ~ForeignTraces(TheRestatement.rule_trace)
<1>1. /\ TheRestatement.plan_id = PositiveId
      /\ TheRestatement.recommendation = "PARTIAL_RESTATEMENT"
      /\ DOMAIN TheRestatement.actions = 1..4 /\ DOMAIN TheRestatement.rule_trace = 1..4
  BY DEF TheRestatement, PartialRestatement, PositiveId
<1>2. \A x : DOMAIN <<x>> = {1}
  OBVIOUS
<1>3. 2 \in 1..4
  OBVIOUS
<1>4. ~ForeignActions(TheRestatement.actions) /\ ~ForeignTraces(TheRestatement.rule_trace)
  BY <1>1, <1>2, <1>3 DEF ForeignActions, ForeignTraces
<1> QED BY <1>1, <1>4 DEF LegitActions, LegitTraces

\* A rejection by the gate has the parts of one, and nothing of the refusal.
LEMMA PartsOfRejection ==
  ASSUME NEW failed, NEW horizon, NEW verdicts, NEW controls, NEW plan,
         plan = Rejection(GateId, failed, NamesOf(failed)),
         GateRefusal(failed, horizon, verdicts, controls)
  PROVE  /\ plan.plan_id = GateId
         /\ plan.recommendation = "REJECT_PENDING_EVIDENCE"
         /\ LegitActions(GateId, plan.actions) /\ ~ForeignActions(plan.actions)
         /\ LegitTraces(GateId, plan.rule_trace) /\ ~ForeignTraces(plan.rule_trace)
         /\ plan.rule_trace = TraceOf(failed) /\ plan.rule_trace[1].operands = failed
<1> DEFINE refs == NamesOf(failed)
           cited == CitedBy(failed)
<1>1. /\ plan.plan_id = GateId /\ plan.recommendation = "REJECT_PENDING_EVIDENCE"
      /\ plan.actions = << Action("REJECT_PENDING_EVIDENCE", CohortNames, refs, cited, {},
                                  RejectionRule) >>
      /\ plan.rule_trace = TraceOf(failed)
  BY DEF Rejection, TraceOf
<1>2. plan.rule_trace[1].operands = failed /\ plan.rule_trace = <<plan.rule_trace[1]>>
  BY <1>1 DEF TraceOf, RuleTraceEntry
<1>3. refs # {} /\ {ConfoundedAnalysisId, <<"2026-06">>} \cap refs = {}
  <2>1. DOMAIN failed # {}
    BY DEF GateRefusal, RefusalOperands
  <2>2. \A name \in NamesOfGate : <<name>> # ConfoundedAnalysisId /\ <<name>> # <<"2026-06">>
    BY DEF NamesOfGate, ConfoundedAnalysisId
  <2>3. \A k \in DOMAIN failed : failed[k].name \in NamesOfGate
    BY DEF GateRefusal
  <2> QED BY <2>1, <2>2, <2>3 DEF NamesOf
<1>4. StitchId \notin cited
  BY DEF GateRefusal, CitedBy
<1> HIDE DEF refs, cited
<1>5. /\ DOMAIN plan.actions = {1} /\ plan.actions[1].scope_refs = refs
      /\ plan.actions[1].evidence = cited
  BY <1>1 DEF Action
<1>6. RefusalActions(plan.actions)
  BY <1>1, <1>3, <1>4, <1>5 DEF RefusalActions
<1>7. GateId # PositiveId
  BY DEF GateId, PositiveId
<1>8. ~ForeignActions(plan.actions)
  BY <1>3, <1>5 DEF ForeignActions
<1>9. ~ForeignTraces(plan.rule_trace)
  <2>1. \A k \in DOMAIN failed : failed[k].name # "definition_only_attribution_valid"
    BY DEF GateRefusal, NamesOfGate
  <2> QED BY <1>2, <2>1 DEF ForeignTraces
<1>10. LegitTraces(GateId, plan.rule_trace)
  BY <1>1, <1>2, <1>7 DEF LegitTraces, GateRefusal
<1> QED BY <1>1, <1>2, <1>6, <1>7, <1>8, <1>9, <1>10 DEF LegitActions

\* The stages leave a verdict on every cohort under 2.0.0, and full ones on May and June.
LEMMA StagesVerdicts ==
  ASSUME IInv, Serializing, ResultIdsUnique
  PROVE  /\ VerdictsFollowed(evidence.reconstructability)
         /\ StatusOf("2026-05", RestatedVerdicts) = "FULLY_RECONSTRUCTABLE"
         /\ StatusOf("2026-06", RestatedVerdicts) = "FULLY_RECONSTRUCTABLE"
         /\ evidence.horizon.status \in {"PARTIAL", "COMPLETE"}
<1>1. /\ evidence.reconstructability = Reconstructability
      /\ evidence.horizon = HorizonCoverage(RestatedVerdicts)
      /\ ExactAt(ComparisonEndpoints(Alpha))
  BY Complete DEF Serializing
<1>2. Has("results") /\ Has("reconstructability") /\ EveryCellHasAValue
  BY PartsProduced DEF Has, Parts, IInv, StageInv, Serializing, UntilCalculate, UntilAssess,
     UntilCompare, UntilDecide, UntilRefuse, UntilControl, UntilPlan
<1>3. Metadata.version # "2.0.0"
  BY PublishedVersions
<1>4. \E n \in Nat : DOMAIN Reconstructability = 1..n
  BY VerdictsListed
<1>5. ASSUME NEW i \in DOMAIN Reconstructability
      PROVE  /\ {"version", "cohort", "status"} \subseteq DOMAIN Reconstructability[i]
             /\ Reconstructability[i].status # "MISSING"
  <2> DEFINE T == {AssessReconstructability(d, input.coverage[j]) :
                     d \in {First, Restated, Metadata}, j \in DOMAIN input.coverage}
  <2>1. input.coverage \in Seq(CoverageDeclaration)
    BY LoadedInput DEF Input
  <2>2. \A d \in {First, Restated, Metadata} : VerdictsOn(d) \in Seq(T)
    BY <2>1 DEF VerdictsOn
  <2>3. Reconstructability \in Seq(T)
    <3> HIDE DEF T
    <3> QED BY <2>2, ConcatProperties DEF Reconstructability
  <2>4. Reconstructability[i] \in T
    BY <2>3
  <2>5. \A t \in T : /\ {"version", "cohort", "status"} \subseteq DOMAIN t
                     /\ t.status # "MISSING"
    BY DEF AssessReconstructability
  <2> QED BY <2>4, <2>5
<1>6. ASSUME NEW cohort \in CohortNames
      PROVE  \E i \in DOMAIN Reconstructability :
               /\ Reconstructability[i].version = "2.0.0"
               /\ Reconstructability[i].cohort = cohort
  <2>1. PICK k \in 1..3 : cohort = Cohorts[k]
    BY ThreeCohortNames DEF CohortNames
  <2>2. <<2, k, 1>> \in Cells(input)
    BY LoadedInput, ThreeCohortNames, TwoChannelNames DEF Cells
  <2>3. Metric!Declared(input, <<2, k, 1>>)
    BY <1>2, <2>2 DEF EveryCellHasAValue, Metric!Valueless
  <2>4. PICK i \in DOMAIN RestatedVerdicts : RestatedVerdicts[i].cohort = cohort
    BY <1>2, <1>3, <2>1, <2>3, LastRestatedVerdict
  <2>5. i \in DOMAIN Reconstructability /\ Reconstructability[i].version = "2.0.0"
          /\ RestatedVerdicts[i] = Reconstructability[i]
    BY <1>1, <2>4 DEF RestatedVerdicts, OfVersion
  <2> QED BY <2>4, <2>5
<1>7. ASSUME NEW k \in {2, 3}
      PROVE  StatusOf(Cohorts[k], RestatedVerdicts) = "FULLY_RECONSTRUCTABLE"
  <2> DEFINE key == <<"2.0.0", Cohorts[k], Channels[1]>>
  <2>1. Cohorts[2] = "2026-05" /\ Cohorts[3] = "2026-06"
    BY DEF Cohorts
  <2>2. key \in ComparisonEndpoints(Alpha)
    BY <2>1 DEF ComparisonEndpoints, Alpha
  <2>3. IsExact(GoldenResults[key])
    BY <1>1, <2>2 DEF ExactAt
  <2>4. GoldenResults[key] = Metric!Value(<<2, k, 1>>)
    BY <1>2, GoldenResultAt
  <2>5. Metric!Computable(<<2, k, 1>>)
    BY <2>3, <2>4 DEF IsExact, Metric!Value
  <2> QED BY <1>2, <1>3, <2>5, RestatedStatus
<1>8. /\ StatusOf("2026-05", RestatedVerdicts) = "FULLY_RECONSTRUCTABLE"
      /\ StatusOf("2026-06", RestatedVerdicts) = "FULLY_RECONSTRUCTABLE"
  <2>1. Cohorts[2] = "2026-05" /\ Cohorts[3] = "2026-06"
    BY DEF Cohorts
  <2> QED BY <1>7, <2>1
<1>9. evidence.horizon.status \in {"PARTIAL", "COMPLETE"}
  <2> DEFINE full == { cohort \in CohortNames :
                         LastFor(cohort, RestatedVerdicts).status = "FULLY_RECONSTRUCTABLE" }
  <2>1. "2026-05" \in full
    BY <1>8, ThreeCohortNames DEF StatusOf
  <2>2. evidence.horizon.status = IF Cardinality(full) = 3 THEN "COMPLETE"
                                  ELSE IF full = {} THEN "NONE" ELSE "PARTIAL"
    BY <1>1 DEF HorizonCoverage
  <2> HIDE DEF full
  <2> QED BY <2>1, <2>2
<1>10. VerdictsFollowed(evidence.reconstructability)
  BY <1>1, <1>4, <1>5, <1>6 DEF VerdictsFollowed
<1> QED BY <1>8, <1>9, <1>10

\* So the plan of the stages is one that the gate derives.
LEMMA StagesGate ==
  ASSUME IInv, Serializing, Auditable
  PROVE  PlanOfGate(evidence.plan, evidence.horizon, RestatedVerdicts, evidence.controls)
<1>1. /\ evidence.plan = PlanOf /\ evidence.comparisons = TrendsOf
      /\ evidence.decision_changes = ChangesOf
      /\ evidence.golden_analysis.attribution_valid
  BY Complete DEF Serializing, Auditable, Attributable
<1>2. VerdictsComplete(RestatedVerdicts)
  BY StagesVerdicts, RestatedComplete DEF Auditable
<1>3. StitchRefuted(evidence.comparisons)
  <2>1. 7 \notin FailedAt(TheGate)
    BY GateRefutesStitch DEF TheGate
  <2> QED BY <2>1, GateSays DEF FailedAt, TheGate
<1>4. DOMAIN evidence.controls = ControlIds
  BY StagesShape DEF ShapeInv
<1> DEFINE comparisons == evidence.comparisons
           changes == evidence.decision_changes
<1>5. /\ {comparisons[i].assessment_id : i \in DOMAIN comparisons}
           = {TrendNames[i].assessment_id : i \in DOMAIN TrendNames}
      /\ comparisons[1].assessment_id = TrendNames[1].assessment_id
  <2>1. /\ DOMAIN comparisons = 1..2
        /\ comparisons[1].assessment_id = StitchId
        /\ comparisons[2].assessment_id = RestatedTrendId
    BY StagesShape, ComparisonsAre DEF Serializing, ShapeInv, ComparisonShape
  <2>2. /\ DOMAIN TrendNames = 1..2 /\ TrendNames[1].assessment_id = StitchId
        /\ TrendNames[2].assessment_id = RestatedTrendId
    BY DEF TrendNames
  <2>3. \A i : i \in 1..2 <=> i \in {1, 2}
    OBVIOUS
  <2> HIDE DEF comparisons
  <2> QED BY <2>1, <2>2, <2>3
<1>6. {changes[i].change_id : i \in DOMAIN changes}
        = {ChangeNames[i].change_id : i \in DOMAIN ChangeNames}
  <2>1. /\ DOMAIN changes = 1..3 /\ changes[1].change_id = <<"THRESHOLD">>
        /\ changes[2].change_id = <<"RANKING">>
        /\ changes[3].change_id = <<"TREND_INTERPRETATION">>
    BY <1>1 DEF ChangesOf, DecisionChanges, DecisionChange
  <2>2. /\ DOMAIN ChangeNames = 1..3 /\ ChangeNames[1].change_id = <<"THRESHOLD">>
        /\ ChangeNames[2].change_id = <<"RANKING">>
        /\ ChangeNames[3].change_id = <<"TREND_INTERPRETATION">>
    BY DEF ChangeNames
  <2>3. \A i : i \in 1..3 <=> i \in {1, 2, 3}
    OBVIOUS
  <2> HIDE DEF changes
  <2> QED BY <2>1, <2>2, <2>3
<1>10. NamedAsBuilt(comparisons, changes)
  BY <1>5, <1>6 DEF NamedAsBuilt
<1>9. StitchRefuted(comparisons)
  BY <1>3
<1> DEFINE plan == evidence.plan
<1>7. plan = MigrationPlan(evidence.golden_analysis, evidence.horizon, RestatedVerdicts,
                           comparisons, changes, evidence.controls)
  BY <1>1 DEF PlanOf
<1> HIDE DEF plan, comparisons, changes
<1>8. PlanOfGate(plan, evidence.horizon, RestatedVerdicts, evidence.controls)
  BY <1>1, <1>2, <1>4, <1>7, <1>9, <1>10, GatePlans
<1> QED BY <1>8 DEF plan

\* What fails of it are April, the controls and a complete horizon.
LEMMA StagesPlanFollowed ==
  ASSUME IInv, Serializing, Auditable
  PROVE  PlanFollowed(evidence.plan, {}, evidence.controls)
<1> DEFINE plan == evidence.plan
           controls == evidence.controls
<1>1. PlanOfGate(plan, evidence.horizon, RestatedVerdicts, controls)
  BY StagesGate
<1>2. GateId # PositiveId
  BY DEF GateId, PositiveId
<1> HIDE DEF plan, controls
<1>3. CASE plan = TheRestatement /\ controls = AllPass
  <2>1. /\ plan.plan_id = PositiveId
        /\ plan.recommendation = "PARTIAL_RESTATEMENT"
        /\ LegitActions(PositiveId, plan.actions)
        /\ OriginalTraces(PositiveId, plan.rule_trace, controls)
    BY <1>3, PartsOfRestatement DEF OriginalTraces
  <2> QED
    BY <2>1
    DEF PlanFollowed, RecommendationFollowed, ActionsFollowed, TracesFollowed, plan, controls
<1>4. CASE \E failed : /\ plan = Rejection(GateId, failed, NamesOf(failed))
                       /\ GateRefusal(failed, evidence.horizon, RestatedVerdicts, controls)
  <2>1. PICK failed : /\ plan = Rejection(GateId, failed, NamesOf(failed))
                      /\ GateRefusal(failed, evidence.horizon, RestatedVerdicts, controls)
    BY <1>4
  <2>2. /\ plan.plan_id = GateId
        /\ plan.recommendation = "REJECT_PENDING_EVIDENCE"
        /\ LegitActions(GateId, plan.actions)
        /\ plan.rule_trace = TraceOf(failed) /\ plan.rule_trace[1].operands = failed
    BY <2>1, PartsOfRejection
  <2>3. OriginalOperands(failed, controls)
    <3>1. /\ StatusOf("2026-05", RestatedVerdicts) = "FULLY_RECONSTRUCTABLE"
          /\ StatusOf("2026-06", RestatedVerdicts) = "FULLY_RECONSTRUCTABLE"
          /\ evidence.horizon.status \in {"PARTIAL", "COMPLETE"}
      BY StagesVerdicts DEF Auditable
    <3>2. DOMAIN failed \subseteq {1, 6, 8}
      BY <2>1, <3>1 DEF GateRefusal
    <3>3. 1 \in DOMAIN failed => failed[1].actual = "COMPLETE"
      BY <2>1, <3>1 DEF GateRefusal, RefusalOperands
    <3> QED BY <2>1, <3>2, <3>3 DEF GateRefusal, OriginalOperands
  <2>4. OriginalTraces(GateId, plan.rule_trace, controls)
    BY <1>2, <2>2, <2>3 DEF OriginalTraces
  <2> QED
    BY <1>2, <2>2, <2>4
    DEF PlanFollowed, RecommendationFollowed, ActionsFollowed, TracesFollowed, plan, controls
<1> QED BY <1>1, <1>3, <1>4 DEF PlanOfGate

\* The refusal follows itself.
LEMMA StagesRefusal == RefusalFollowed(TheRefusal, {})
BY DEF RefusalFollowed, TheRefusal, Rejection, RefusalActionsFollowed, RefusalTracesFollowed

\* The stages leave what alterations are followed from.
LEMMA StagesFollowed ==
  ASSUME IInv, Serializing, altered = {}
  PROVE  Followed(evidence.controls, MayDifference)
<1>1. \A part : Of(part) = {}
  BY DEF Of
<1>2. Auditable => PlansFollowed(evidence.plan, evidence.g3_plan, {}, {}, evidence.controls)
  BY StagesPlanFollowed, StagesPlanFields, StagesRefusal DEF PlansFollowed
<1>3. Auditable => VerdictsFollowed(evidence.reconstructability)
  BY StagesVerdicts DEF Auditable
<1> QED
  BY <1>1, <1>2, <1>3, StagesChanges, StagesImpact, StagesCompared, StagesAnalysis,
     StagesConfounded,
     StagesControls, StagesPlanFields
  DEF Followed

-----------------------------------------------------------------------------
(***************************************************************************)
(* The invariant.                                                           *)
(***************************************************************************)
\* What leaves input, evidence and alterations alone leaves them followed.
LEMMA FollowedKept ==
  ASSUME NEW original, NEW difference, Followed(original, difference),
         UNCHANGED <<input, evidence, altered>>
  PROVE  Followed(original, difference)'
<1>1. (Attributable' <=> Attributable) /\ (Auditable' <=> Auditable)
  BY DEF Attributable, Auditable, GoldenDifference, First, Restated, ResultIdsUnique, ResultId,
         DefinitionOf, Cells
<1>2. MayDifference' = MayDifference
  BY DEF MayDifference, GoldenResults, GoldenCell, Cells, DefinitionOf, GoldenKeys
<1>3. \A name : Of(name)' = Of(name)
  BY DEF Of
<1>4. AnalysisFollowed(evidence'.golden_analysis, Of("golden_analysis")', Attributable')
  <2>1. AnalysisFollowed(evidence.golden_analysis, Of("golden_analysis"), Attributable)
    BY DEF Followed
  <2>2. AnalysisFollowed(evidence'.golden_analysis, Of("golden_analysis")', Attributable)
    BY <1>3, <2>1
  <2> QED BY <1>1, <2>2 DEF AnalysisFollowed
<1>5. /\ ChangesFollowed(evidence'.decision_changes, Of("decision_changes")', difference)
      /\ ImpactFollowed(evidence'.impact, Of("impact")')
      /\ ImpactComparisonFollowed(evidence'.g3_comparison, Of("g3_comparison")', difference)
      /\ Of("results")' = {} => MayDifference' = difference
      /\ ConfoundedFollowed(evidence'.g3_analysis)
      /\ TrendsFollowed(evidence'.comparisons, Of("comparisons")')
      /\ ControlsFollowed(evidence'.controls, Of("controls")', original)
      /\ PlanFields \subseteq DOMAIN evidence'.plan
      /\ PlanFields \subseteq DOMAIN evidence'.g3_plan
      /\ ~Attributable' =>
           evidence'.plan.plan_id = RefusedId /\ evidence'.g3_plan.plan_id = RefusedId
      /\ Auditable' =>
           /\ VerdictsFollowed(evidence'.reconstructability)
           /\ PlansFollowed(evidence'.plan, evidence'.g3_plan, Of("plan")', Of("g3_plan")',
                            original)
  BY <1>1, <1>2, <1>3 DEF Followed
<1> QED BY <1>4, <1>5 DEF Followed, Attributable, Auditable, MayDifference, MayKeys, Of

\* Initially nothing is altered.
LEMMA InitSlips == AlteredInit => SlipInv
<1> SUFFICES ASSUME AlteredInit PROVE SlipInv
  OBVIOUS
<1>1. AlteredInv
  BY InitIInv, StagesSatisfy DEF AlteredInit
<1>2. altered = {} /\ ~Serializing
  BY DEF AlteredInit, Init, Initially, Serializing, UntilPlan, UntilControl, UntilRefuse,
         UntilDecide, UntilCompare, UntilAssess, UntilCalculate
<1>3. IsFiniteSet(altered) /\ Cardinality(altered) <= 2
  BY <1>2, FS_EmptySet
<1> QED BY <1>1, <1>2, <1>3 DEF SlipInv

\* What the stages leave is followed by some controls and difference, their own.
LEMMA StagesSlip == IInv /\ Serializing /\ altered = {} => SomeFollowed
BY StagesFollowed DEF SomeFollowed

\* With at most two alterations every step keeps the invariant.
LEMMA SlipStep ==
  ASSUME MaxAlterations <= 2, SlipInv, [AlteredNext]_allVars
  PROVE  SlipInv'
<1>1. AlteredInv'
  BY AlteredStep DEF SlipInv
<1>2. CASE Alter
  <2>1. stage = "references" /\ Cardinality(altered) < MaxAlterations
    BY <1>2 DEF Alter, At
  <2>2. Serializing
    BY <2>1 DEF Serializing, UntilPlan, UntilControl, UntilRefuse, UntilDecide,
                UntilCompare, UntilAssess, UntilCalculate
  <2>3. ShapeInv /\ IsFiniteSet(altered) /\ SomeFollowed
    BY <2>2 DEF SlipInv, AlteredInv
  <2>4. Cardinality(altered) \in Nat /\ Cardinality(altered) <= 1
    BY <2>1, <2>3, FS_CardinalityType, MaxAlterationsIsNatural
  <2>5. UNCHANGED <<input, stage, outcome>>
    BY <1>2, <2>3, AlterKeepsShape
  <2>6. PICK original, difference : Followed(original, difference)
    BY <2>3 DEF SomeFollowed
  <2>7. Followed(original, difference)'
    BY <1>2, <2>3, <2>4, <2>6, AlterFollowed
  <2>8. \E field : altered' = altered \cup {field}
    BY <1>2 DEF Alter, AlterComparison, AlterDecision, AlterAnalysis, AlterCoverage,
       AlterResult,
       AlterControl, AlterPlan, AlterDeclared, AlterRecord, AlterItem, Altering
  <2>9. IsFiniteSet(altered') /\ Cardinality(altered') <= 2
    <3>1. PICK field : altered' = altered \cup {field}
      BY <2>8
    <3>2. /\ IsFiniteSet(altered \cup {field})
          /\ Cardinality(altered \cup {field}) = IF field \in altered THEN Cardinality(altered)
                                                 ELSE Cardinality(altered) + 1
      BY <2>3, FS_AddElement
    <3> QED BY <2>4, <3>1, <3>2
  <2>10. SomeFollowed'
    BY <2>7 DEF SomeFollowed
  <2>11. Serializing'
    BY <2>2, <2>5 DEF Serializing
  <2> QED BY <1>1, <2>9, <2>10, <2>11 DEF SlipInv
<1>3. CASE (Next /\ UNCHANGED altered) \/ UNCHANGED allVars
  <2>1. (Next \/ UNCHANGED vars) /\ UNCHANGED altered
    BY <1>3 DEF allVars, vars
  <2>2. IsFiniteSet(altered') /\ Cardinality(altered') <= 2
    BY <2>1 DEF SlipInv
  <2>3. CASE Serializing
    <3>1. stage \in Stages
      BY <2>3 DEF SlipInv, AlteredInv
    <3>2. /\ UNCHANGED <<input, evidence>>
          /\ \/ stage' = stage
             \/ stage = "references" /\ stage' = "comparisons"
             \/ stage = "comparisons" /\ stage' = "changes"
             \/ stage = "changes" /\ stage' = "plans"
             \/ stage = "plans" /\ stage' = "release"
      BY <2>1, <2>3, <3>1, SerializingSteps DEF vars
    <3>3. Serializing'
      BY <2>3, <3>2 DEF Serializing, UntilPlan, UntilControl, UntilRefuse, UntilDecide,
                        UntilCompare, UntilAssess, UntilCalculate
    <3>4. PICK original, difference : Followed(original, difference)
      BY <2>3 DEF SlipInv, SomeFollowed
    <3>5. Followed(original, difference)'
      BY <2>1, <3>2, <3>4, FollowedKept
    <3>6. SomeFollowed'
      BY <3>5 DEF SomeFollowed
    <3> QED BY <1>1, <2>2, <3>3, <3>6 DEF SlipInv
  <2>4. CASE ~Serializing
    <3>1. IInv /\ altered = {}
      BY <2>4 DEF SlipInv, AlteredInv
    <3>2. IInv' /\ altered' = {}
      BY <2>1, <3>1, StepIInv
    <3>3. (IInv /\ Serializing /\ altered = {} => SomeFollowed)'
      BY StagesSlip, PTL
    <3> QED BY <1>1, <2>2, <3>2, <3>3 DEF SlipInv
  <2> QED BY <2>3, <2>4
<1> QED BY <1>2, <1>3 DEF AlteredNext

-----------------------------------------------------------------------------
(***************************************************************************)
(* What was not altered in evidence that the barrier let through.           *)
(***************************************************************************)
\* What holds of evidence that the barrier let through.
Released ==
  /\ input \in Inputs /\ ShapeInv /\ ComparisonsHold /\ DecisionsHold /\ PlansHold
  /\ IsFiniteSet(altered) /\ Cardinality(altered) <= 2

\* The arms of such evidence differ by the denominator only, and the analysis says so
\* unaltered.
LEMMA ReleasedIsAuditable ==
  ASSUME Released, NEW original, NEW difference, Followed(original, difference)
  PROVE  /\ Auditable
         /\ <<"golden_analysis", "attribution_valid">> \notin Of("golden_analysis")
<1>1. /\ evidence.golden_analysis.attribution_valid
      /\ evidence.plan.plan_id # evidence.g3_plan.plan_id
  BY ReleasedPlans DEF Released, DecisionsHold, DecisionsAgree
<1>2. ~Attributable => evidence.plan.plan_id = RefusedId /\ evidence.g3_plan.plan_id = RefusedId
  BY DEF Followed
<1>3. AnalysisFollowed(evidence.golden_analysis, Of("golden_analysis"), Attributable)
  BY DEF Followed
<1>4. ResultIdsUnique
  BY DEF Released, ComparisonsHold
<1>5. Attributable
  BY <1>1, <1>2
<1>6. <<"golden_analysis", "attribution_valid">> \notin Of("golden_analysis")
  BY <1>1, <1>3, <1>5 DEF AnalysisFollowed
<1> QED BY <1>4, <1>5, <1>6 DEF Auditable

\* The plan of control G3 is the refusal, and so nothing of it was altered.
LEMMA ReleasedRefusal ==
  ASSUME Released, NEW original, NEW difference, Followed(original, difference)
  PROVE  evidence.g3_plan = TheRefusal /\ Of("g3_plan") = {}
<1> DEFINE analysis == evidence.g3_analysis
           refusal == evidence.g3_plan
           impact == OnlyOfKind(AllComparisons, "DEFINITION_IMPACT")
           L == Of("plan")
           M == Of("g3_plan")
<1>1. /\ ~analysis.attribution_valid
      /\ refusal = MigrationPlan(analysis, evidence.horizon, RestatedVerdicts, <<impact>>,
                                 evidence.decision_changes, <<>>)
      /\ evidence.plan.plan_id # refusal.plan_id
  BY ReleasedPlans DEF Released, DecisionsHold, DecisionsAgree
<1>2. analysis.attribution_valid = FALSE /\ analysis.analysis_id = ConfoundedAnalysisId
  BY <1>1 DEF Followed, ConfoundedFollowed
<1>3. refusal = Rejection(RefusedId,
                  << Equals("definition_only_attribution_valid", analysis.attribution_valid,
                            TRUE, {analysis.analysis_id}) >>, {analysis.analysis_id})
  BY <1>1 DEF MigrationPlan, RefusedId
<1>4. refusal = TheRefusal
  BY <1>2, <1>3 DEF TheRefusal
<1>5. PlansFollowed(evidence.plan, refusal, L, M, original)
  BY ReleasedIsAuditable DEF Followed
<1>6. refusal.plan_id = RefusedId
  BY <1>4, RefusalParts
<1> HIDE DEF refusal, L, M
<1>7. /\ M \subseteq {"g3_plan"} \X PlanForms
      /\ L = {} => RefusalFollowed(refusal, M)
      /\ L # {} /\ M # {} => refusal # TheRefusal \/ evidence.plan.plan_id = RefusedId
  BY <1>5 DEF PlansFollowed
<1>8. M = {}
  BY <1>1, <1>4, <1>6, <1>7, RefusalDiffers
<1> QED BY <1>4, <1>8 DEF refusal, M

\* Two fields at most are altered: of three that are, two are one.
LEMMA TwoOfThree ==
  ASSUME NEW S, IsFiniteSet(S), Cardinality(S) <= 2, NEW a \in S, NEW b \in S, NEW c \in S
  PROVE  a = b \/ a = c \/ b = c
<1> DEFINE rest == S \ {a}
<1>1. IsFiniteSet(rest) /\ Cardinality(rest) = Cardinality(S) - 1
  BY FS_RemoveElement
<1>2. Cardinality(S) \in Nat
  BY FS_CardinalityType
<1>3. Cardinality(rest) <= 1
  BY <1>1, <1>2
<1> SUFFICES ASSUME a # b, a # c PROVE b = c
  OBVIOUS
<1>4. b \in rest /\ c \in rest
  OBVIOUS
<1> HIDE DEF rest
<1> QED BY <1>1, <1>3, <1>4, AtMostOne

\* A trend that was not altered vouches for the other flag of the analysis, and both
\* trends and the flag are three fields.
LEMMA ReleasedAnalysis ==
  ASSUME Released, NEW original, NEW difference, Followed(original, difference)
  PROVE  Of("golden_analysis") = {}
<1> DEFINE analysis == evidence.golden_analysis
           comparisons == evidence.comparisons
           flag == <<"golden_analysis", "controlled_context_match">>
<1>1. /\ AnalysisFollowed(analysis, Of("golden_analysis"), Attributable)
      /\ TrendsFollowed(comparisons, Of("comparisons"))
  BY DEF Followed
<1>2. ASSUME flag \in altered PROVE FALSE
  <2>1. analysis.controlled_context_match = FALSE
    <3>1. flag \in Of("golden_analysis")
      BY <1>2 DEF Of
    <3>2. /\ analysis.controlled_context_match \in BOOLEAN
          /\ ~analysis.controlled_context_match
      BY <1>1, <3>1 DEF AnalysisFollowed
    <3> QED BY <3>2
  <2>2. ASSUME NEW i \in {1, 2}
        PROVE  \E field \in altered : field[1] = "comparisons" /\ field[2] = i
    <3> SUFFICES ASSUME \A field \in altered : ~(field[1] = "comparisons" /\ field[2] = i)
                 PROVE  FALSE
      OBVIOUS
    <3>1. /\ comparisons[i].controlled_context_match = TRUE
          /\ comparisons[i].analysis_id = GoldenAnalysisId
      BY <1>1 DEF TrendsFollowed, Of
    <3>2. i \in DOMAIN AllComparisons /\ AllComparisons[i] = comparisons[i]
      BY ThreeCompared DEF Released
    <3>3. ComparisonAgrees(comparisons[i], ResultById, AnalysisById)
      BY <3>2 DEF Released, ComparisonsHold, ComparisonsAgree
    <3>4. AnalysisById[GoldenAnalysisId] = analysis
      BY DEF AnalysisById
    <3>5. comparisons[i].controlled_context_match
            = AnalysisById[comparisons[i].analysis_id].controlled_context_match
      <4> HIDE DEF comparisons
      <4> QED BY <3>3, Zenon DEF ComparisonAgrees
    <3>6. comparisons[i].controlled_context_match = analysis.controlled_context_match
      BY <3>1, <3>4, <3>5
    <3> QED BY <2>1, <3>1, <3>6
  <2>3. PICK a \in altered : a[1] = "comparisons" /\ a[2] = 1
    BY <2>2
  <2>4. PICK b \in altered : b[1] = "comparisons" /\ b[2] = 2
    BY <2>2
  <2>5. flag[1] = "golden_analysis"
    OBVIOUS
  <2> HIDE DEF flag
  <2>6. a = b \/ a = flag \/ b = flag
    BY <1>2, TwoOfThree DEF Released
  <2>7. a # b /\ a # flag /\ b # flag
    BY <2>3, <2>4, <2>5
  <2> QED BY <2>6, <2>7
<1>3. flag \notin Of("golden_analysis")
  BY <1>2 DEF Of
<1>4. <<"golden_analysis", "attribution_valid">> \notin Of("golden_analysis")
  BY ReleasedIsAuditable
<1> DEFINE L == Of("golden_analysis")
<1>5. L \subseteq {"golden_analysis"} \X AnalysisFields
  BY <1>1 DEF AnalysisFollowed
<1> HIDE DEF L
<1> QED BY <1>3, <1>4, <1>5 DEF AnalysisFields, L

\* The difference of May that the results and the confounded comparison have.
LEMMA ReleasedDifference ==
  ASSUME Released, NEW original, NEW difference, Followed(original, difference)
  PROVE  /\ evidence.decision_changes[1].exact_delta = MayDifference
         /\ MayDifference # difference => Of("results") # {} /\ Of("g3_comparison") # {}
<1> DEFINE changes == evidence.decision_changes
           comparison == evidence.g3_comparison
           Rate(key) == RateOf(ResultById[key])
<1>1. MayKeys[1] \in GoldenKeys /\ MayKeys[2] \in GoldenKeys
  BY EndpointKeys DEF MayKeys
<1>2. /\ ResultById[MayKeys[1]] = GoldenResults[MayKeys[1]]
      /\ ResultById[MayKeys[2]] = GoldenResults[MayKeys[2]]
  BY <1>1, OneResultEach DEF Released, ComparisonsHold
<1>3. MayDifference = Minus(Rate(MayKeys[2]), Rate(MayKeys[1]))
  BY <1>2 DEF MayDifference
<1>4. changes = DecisionChanges(ResultById, evidence.comparisons[1], evidence.comparisons[2],
                                Alpha, Beta)
  BY DecisionsRebuilt DEF Released
<1> HIDE DEF changes
<1>5. changes[1].exact_delta = Minus(Rate(MayKeys[2]), Rate(MayKeys[1]))
  BY <1>4 DEF DecisionChanges, DecisionChange, MayKeys
<1>6. Of("results") = {} => MayDifference = difference
  BY DEF Followed
<1>7. ASSUME Of("g3_comparison") = {} PROVE MayDifference = difference
  <2>1. /\ comparison.exact_delta = difference
        /\ comparison.left.result_id = MayKeys[1]
        /\ comparison.right.result_id = MayKeys[2]
    BY <1>7 DEF Followed, ImpactComparisonFollowed
  <2>2. 3 \in DOMAIN AllComparisons /\ AllComparisons[3] = comparison
    BY ThreeCompared DEF Released
  <2>3. ComparisonAgrees(comparison, ResultById, AnalysisById)
    BY <2>2 DEF Released, ComparisonsHold, ComparisonsAgree
  <2> HIDE DEF comparison
  <2>4. /\ IsProjectionOf(comparison.left, ResultById)
        /\ IsProjectionOf(comparison.right, ResultById)
        /\ comparison.exact_delta = Minus(comparison.right.exact_value,
                                          comparison.left.exact_value)
    BY <2>3 DEF ComparisonAgrees
  <2>5. /\ comparison.left.exact_value = Rate(MayKeys[1])
        /\ comparison.right.exact_value = Rate(MayKeys[2])
    BY <2>1, <2>4 DEF IsProjectionOf, Endpoint
  <2> QED BY <1>3, <2>1, <2>4, <2>5
<1> QED BY <1>3, <1>5, <1>6, <1>7 DEF changes

\* No field of a decision is other than what follows from the results and trends: the
\* difference of May could be, where a result and the confounded comparison were
\* altered as well.
LEMMA ReleasedDecisions ==
  ASSUME Released, NEW original, NEW difference, Followed(original, difference)
  PROVE  Of("decision_changes") = {}
<1> DEFINE changes == evidence.decision_changes
           L == Of("decision_changes")
<1>1. changes = DecisionChanges(ResultById, evidence.comparisons[1], evidence.comparisons[2],
                                Alpha, Beta)
  BY DecisionsRebuilt DEF Released
<1>2. ChangesFollowed(changes, L, difference)
  BY DEF Followed
<1>3. L \subseteq altered /\ \A field \in L : field[1] = "decision_changes"
  BY DEF Of
<1> HIDE DEF changes, L
<1>4. L \subseteq {"decision_changes"} \X {1, 2, 3} \X ChangeFields
  BY <1>2 DEF ChangesFollowed
<1>5. /\ changes[1].comparisons = {} /\ changes[1].evidence # {} /\ changes[1].assumptions # {}
      /\ changes[2].comparisons = {} /\ changes[2].evidence # {} /\ changes[2].assumptions = {}
      /\ changes[3].comparisons # {} /\ changes[3].evidence # {} /\ changes[3].assumptions # {}
  <2>1. <<"1.0.0", "2026-05", Alpha>> \in DecisionEndpoints(Alpha, Beta)
    BY DEF DecisionEndpoints
  <2>2. /\ changes[1].evidence
             = {<<"1.0.0", "2026-05", Alpha>>, <<"2.0.0", "2026-05", Alpha>>, ContractId}
        /\ changes[2].evidence = DecisionEndpoints(Alpha, Beta)
        /\ changes[3].evidence = {evidence.comparisons[1].assessment_id,
                                  evidence.comparisons[2].assessment_id}
        /\ changes[3].comparisons = {evidence.comparisons[1].assessment_id,
                                     evidence.comparisons[2].assessment_id}
        /\ changes[1].comparisons = {} /\ changes[2].comparisons = {}
        /\ changes[1].assumptions = {"A_THRESHOLD_SYNTHETIC_080"}
        /\ changes[2].assumptions = {}
        /\ changes[3].assumptions = {"A_TREND_SAME_SEMANTICS"}
    BY <1>1 DEF DecisionChanges, DecisionChange
  <2> QED BY <2>1, <2>2
<1>6. ASSUME NEW i \in {1, 2, 3}
      PROVE  changes[i].classification
               = IF changes[i].before_state # changes[i].after_state
                 THEN "CHANGED" ELSE "UNCHANGED"
  BY <1>1 DEF DecisionChanges, DecisionChange
<1>7. changes[2].exact_delta = NoDelta /\ changes[3].exact_delta = NoDelta
  BY <1>1 DEF DecisionChanges, DecisionChange
<1>8. NoDelta # OtherRate
  BY DEF NoDelta, OtherRate
<1>9. ASSUME NEW i \in {1, 2, 3}, NEW name \in ChangeFields,
             <<"decision_changes", i, name>> \in L
      PROVE  FALSE
  <2>1. ChangeFollowed(changes[i], i, L, difference)
    BY <1>2 DEF ChangesFollowed
  <2>2. CASE name \in {"before_state", "after_state"}
    BY <1>6, <1>9, <2>1, <2>2 DEF ChangeFollowed
  <2>3. CASE name \in {"comparisons", "evidence", "assumptions"}
    BY <1>5, <1>9, <2>1, <2>3 DEF ChangeFollowed
  <2>4. CASE name = "exact_delta"
    <3>1. changes[i].exact_delta = OtherRate /\ (i = 1 => difference # OtherRate)
      BY <1>9, <2>1, <2>4 DEF ChangeFollowed
    <3>2. i = 1
      BY <1>7, <1>8, <3>1
    <3>3. MayDifference # difference
      BY <3>1, <3>2, ReleasedDifference DEF changes
    <3>4. PICK a \in altered : a[1] = "results"
      BY <3>3, ReleasedDifference DEF Of
    <3>5. PICK b \in altered : b[1] = "g3_comparison"
      BY <3>3, ReleasedDifference DEF Of
    <3>6. PICK c \in altered : c[1] = "decision_changes"
      BY <1>3, <1>9
    <3>7. a # b /\ a # c /\ b # c
      BY <3>4, <3>5, <3>6
    <3> QED BY <3>7, TwoOfThree DEF Released
  <2> QED BY <2>2, <2>3, <2>4 DEF ChangeFields
<1> QED BY <1>4, <1>9 DEF L

\* The index of what was impacted has all three decisions.
LEMMA ReleasedImpact ==
  ASSUME Released, NEW original, NEW difference, Followed(original, difference)
  PROVE  Of("impact") = {}
<1>1. evidence.impact = ImpactIndex(evidence.decision_changes)
  BY DEF Released, DecisionsHold, DecisionsAgree
<1>2. DOMAIN evidence.decision_changes = 1..3
  BY DEF Followed, ChangesFollowed
<1>3. DOMAIN evidence.impact = 1..3
  BY <1>1, <1>2 DEF ImpactIndex
<1> QED BY <1>3 DEF Followed, ImpactFollowed

\* The plan is one that the gate derives from the evidence as it is.
LEMMA ReleasedGate ==
  ASSUME Released, NEW original, NEW difference, Followed(original, difference)
  PROVE  PlanOfGate(evidence.plan, evidence.horizon, RestatedVerdicts, evidence.controls)
<1> DEFINE stitch == OnlyOfKind(AllComparisons, "TREND_STITCH")
           trend == OnlyOfKind(AllComparisons, "RESTATED_TREND")
           changes == evidence.decision_changes
           trends == <<stitch, trend>>
           analysis == evidence.golden_analysis
           horizon == evidence.horizon
           verdicts == RestatedVerdicts
           controls == evidence.controls
           plan == evidence.plan
<1>1. /\ analysis.attribution_valid
      /\ StitchRefuted(trends)
      /\ plan = MigrationPlan(analysis, horizon, verdicts, trends, changes, controls)
      /\ stitch = evidence.comparisons[1]
  BY ReleasedPlans DEF Released, DecisionsHold, DecisionsAgree
<1>2. /\ trend = evidence.comparisons[2]
      /\ changes = DecisionChanges(ResultById, evidence.comparisons[1],
                                   evidence.comparisons[2], Alpha, Beta)
  BY DecisionsRebuilt DEF Released
<1>3. VerdictsComplete(verdicts)
  BY ReleasedIsAuditable, RestatedComplete DEF Followed
<1>4. DOMAIN controls = ControlIds
  BY DEF Released, ShapeInv
<1>5. stitch.assessment_id = StitchId /\ trend.assessment_id = RestatedTrendId
  BY <1>1, <1>2 DEF Released, ShapeInv, ComparisonShape
<1> HIDE DEF stitch, trend, changes, analysis, horizon, verdicts, controls, plan
<1>6. /\ {trends[i].assessment_id : i \in DOMAIN trends}
           = {TrendNames[i].assessment_id : i \in DOMAIN TrendNames}
      /\ trends[1].assessment_id = TrendNames[1].assessment_id
  <2>1. /\ DOMAIN trends = 1..2 /\ trends[1] = stitch /\ trends[2] = trend
    OBVIOUS
  <2>2. /\ DOMAIN TrendNames = 1..2 /\ TrendNames[1].assessment_id = StitchId
        /\ TrendNames[2].assessment_id = RestatedTrendId
    BY DEF TrendNames
  <2>3. \A i : i \in 1..2 <=> i \in {1, 2}
    OBVIOUS
  <2> HIDE DEF trends
  <2> QED BY <1>5, <2>1, <2>2, <2>3
<1>7. {changes[i].change_id : i \in DOMAIN changes}
        = {ChangeNames[i].change_id : i \in DOMAIN ChangeNames}
  <2>1. /\ DOMAIN changes = 1..3 /\ changes[1].change_id = <<"THRESHOLD">>
        /\ changes[2].change_id = <<"RANKING">>
        /\ changes[3].change_id = <<"TREND_INTERPRETATION">>
    BY <1>2 DEF DecisionChanges, DecisionChange
  <2>2. /\ DOMAIN ChangeNames = 1..3 /\ ChangeNames[1].change_id = <<"THRESHOLD">>
        /\ ChangeNames[2].change_id = <<"RANKING">>
        /\ ChangeNames[3].change_id = <<"TREND_INTERPRETATION">>
    BY DEF ChangeNames
  <2>3. \A i : i \in 1..3 <=> i \in {1, 2, 3}
    OBVIOUS
  <2> QED BY <2>1, <2>2, <2>3
<1> HIDE DEF trends
<1>8. NamedAsBuilt(trends, changes)
  BY <1>6, <1>7 DEF NamedAsBuilt
<1>9. PlanOfGate(plan, horizon, verdicts, controls)
  BY <1>1, <1>3, <1>4, <1>8, GatePlans
<1> QED BY <1>9 DEF plan, horizon, verdicts, controls

\* A plan that the gate derives has the parts that no altered plan has.
LEMMA GatePlanUnaltered ==
  ASSUME NEW plan, NEW horizon, NEW verdicts, NEW controls, NEW original, NEW L,
         PlanOfGate(plan, horizon, verdicts, controls), PlanFollowed(plan, L, original),
         L \subseteq {"plan"} \X PlanForms
  PROVE  L = {}
<1>1. GateId # PositiveId /\ GateId # RefusedId /\ PositiveId # RefusedId
  BY DEF GateId, PositiveId, RefusedId
<1>2. PICK id : /\ id \in {PositiveId, GateId} /\ plan.plan_id = id
                /\ plan.recommendation = IF id = PositiveId THEN "PARTIAL_RESTATEMENT"
                                         ELSE "REJECT_PENDING_EVIDENCE"
                /\ LegitActions(id, plan.actions) /\ ~ForeignActions(plan.actions)
                /\ LegitTraces(id, plan.rule_trace) /\ ~ForeignTraces(plan.rule_trace)
  <2>1. CASE plan = TheRestatement
    BY <2>1, PartsOfRestatement
  <2>2. CASE plan # TheRestatement
    <3>1. PICK failed : /\ plan = Rejection(GateId, failed, NamesOf(failed))
                        /\ GateRefusal(failed, horizon, verdicts, controls)
      BY <2>2 DEF PlanOfGate
    <3> QED BY <1>1, <3>1, PartsOfRejection
  <2> QED BY <2>1, <2>2
<1> SUFFICES ASSUME NEW name \in PlanForms, <<"plan", name>> \in L PROVE FALSE
  OBVIOUS
<1>3. name \notin {"plan", "plan_id"}
  BY <1>1, <1>2 DEF PlanFollowed
<1>4. /\ RecommendationFollowed(plan.plan_id, plan.recommendation,
                                <<"plan", "recommendation">> \in L)
      /\ ActionsFollowed(plan.plan_id, plan.actions, <<"plan", "actions">> \in L,
                         <<"plan", "action">> \in L)
      /\ TracesFollowed(plan.plan_id, plan.rule_trace, <<"plan", "rule_trace">> \in L,
                        <<"plan", "trace">> \in L, original)
  BY <1>1, <1>2 DEF PlanFollowed
<1>5. name # "recommendation"
  BY <1>1, <1>2, <1>4 DEF RecommendationFollowed
<1>6. name \notin {"actions", "action"}
  BY <1>2, <1>4 DEF ActionsFollowed
<1>7. name \notin {"rule_trace", "trace"}
  BY <1>2, <1>4 DEF TracesFollowed
<1> QED BY <1>3, <1>5, <1>6, <1>7 DEF PlanForms, PlanFields

\* And an unaltered one tells which controls the stages found.
LEMMA GatePlanTellsControls ==
  ASSUME NEW plan, NEW horizon, NEW verdicts, NEW controls, NEW original,
         PlanOfGate(plan, horizon, verdicts, controls), PlanFollowed(plan, {}, original)
  PROVE  controls = original
<1>1. GateId # PositiveId /\ GateId # RefusedId /\ PositiveId # RefusedId
  BY DEF GateId, PositiveId, RefusedId
<1>2. OriginalTraces(plan.plan_id, plan.rule_trace, original)
  BY DEF PlanFollowed, TracesFollowed
<1>3. CASE plan = TheRestatement /\ controls = AllPass
  BY <1>2, <1>3, PartsOfRestatement DEF OriginalTraces
<1>4. CASE \E failed : /\ plan = Rejection(GateId, failed, NamesOf(failed))
                       /\ GateRefusal(failed, horizon, verdicts, controls)
  <2>1. PICK failed : /\ plan = Rejection(GateId, failed, NamesOf(failed))
                      /\ GateRefusal(failed, horizon, verdicts, controls)
    BY <1>4
  <2>2. plan.plan_id = GateId /\ plan.rule_trace[1].operands = failed
    BY <2>1, PartsOfRejection
  <2>3. OriginalOperands(failed, original)
    BY <1>1, <1>2, <2>2 DEF OriginalTraces
  <2> QED BY <2>1, <2>3 DEF GateRefusal, OriginalOperands
<1> QED BY <1>3, <1>4 DEF PlanOfGate

\* So neither the plan nor a control was altered.
LEMMA ReleasedPlanAndControls ==
  ASSUME Released, NEW original, NEW difference, Followed(original, difference)
  PROVE  Of("plan") = {} /\ Of("controls") = {}
<1> DEFINE L == Of("plan")
           M == Of("controls")
           plan == evidence.plan
           controls == evidence.controls
           horizon == evidence.horizon
           verdicts == RestatedVerdicts
<1>1. PlanOfGate(plan, horizon, verdicts, controls)
  BY ReleasedGate
<1>2. Of("g3_plan") = {}
  BY ReleasedRefusal
<1>3. L \subseteq {"plan"} \X PlanForms /\ PlanFollowed(plan, L, original)
  BY <1>2, ReleasedIsAuditable DEF Followed, PlansFollowed
<1>4. ControlsFollowed(controls, M, original)
  BY DEF Followed
<1> HIDE DEF L, M, plan, controls, horizon, verdicts
<1>5. L = {}
  BY <1>1, <1>3, GatePlanUnaltered
<1>6. controls = original
  BY <1>1, <1>3, <1>5, GatePlanTellsControls
<1>7. M = {}
  BY <1>4, <1>6 DEF ControlsFollowed
<1> QED BY <1>5, <1>7 DEF L, M

\* So of the two alterations that the barrier lets through none is of a decision.
LEMMA NothingSlips == SlipInv => NoDecisionSlips
<1> SUFFICES ASSUME SlipInv, stage = "release",
                    NEW field \in altered,
                    field[1] \in { "plan", "g3_plan", "decision_changes", "impact",
                                   "controls", "golden_analysis" }
             PROVE  FALSE
  BY DEF NoDecisionSlips, AcceptedByBarrier
<1>1. Serializing
  BY DEF Serializing, UntilPlan, UntilControl, UntilRefuse, UntilDecide, UntilCompare,
         UntilAssess, UntilCalculate
<1>2. Released
  BY <1>1 DEF Released, SlipInv, AlteredInv, PassedInv
<1>3. PICK original, difference : Followed(original, difference)
  BY <1>1 DEF SlipInv, SomeFollowed
<1>4. /\ Of("plan") = {} /\ Of("g3_plan") = {} /\ Of("decision_changes") = {}
      /\ Of("impact") = {} /\ Of("controls") = {} /\ Of("golden_analysis") = {}
  BY <1>2, <1>3, ReleasedPlanAndControls, ReleasedRefusal, ReleasedDecisions, ReleasedImpact,
     ReleasedAnalysis
<1>5. field \in Of(field[1])
  BY DEF Of
<1> QED BY <1>4, <1>5

\* With at most two alterations the barrier lets no altered plan, decision, impact,
\* control or analysis of the golden arms pass, whatever the input, the fields and the
\* order (validate_reference_graph and validate_derived_evidence together).
THEOREM NoDecisionSlipsOfTwo ==
  ASSUME MaxAlterations <= 2 PROVE AlteredSpec => []NoDecisionSlips
<1>1. AlteredInit => SlipInv
  BY InitSlips
<1>2. SlipInv /\ [AlteredNext]_allVars => SlipInv'
  BY SlipStep
<1>3. SlipInv => NoDecisionSlips
  BY NothingSlips
<1> QED BY <1>1, <1>2, <1>3, PTL DEF AlteredSpec
=============================================================================
