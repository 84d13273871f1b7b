----------------------------- MODULE AuditProofs -----------------------------
(***************************************************************************)
(* Proofs about an execution: what its stages leave in the evidence, for   *)
(* any inputs, any frozen counts and any threshold.                        *)
(***************************************************************************)
EXTENDS AuditProperties, FiniteSetTheorems, WellFoundedInduction, SequenceTheorems, TLAPS

(***************************************************************************)
(* What each stage produces, from what the evidence holds.                 *)
(***************************************************************************)
GoldenDifference ==
  ArmDifference(GoldenAnalysisId, First, Restated, "shared", "shared")

ConfoundedDifference ==
  ArmDifference(ConfoundedAnalysisId, First, Restated, "shared", "confounded")

AllValues == [cell \in Cells(input) |-> Metric!Value(cell)]

HorizonOf == HorizonCoverage(OfVersion(Reconstructability, "2.0.0"))

TrendsOf == TrendComparisons(GoldenResults, evidence.golden_analysis, Alpha)

ChangesOf ==
  DecisionChanges(GoldenResults, evidence.comparisons[1], evidence.comparisons[2],
                  Alpha, Beta)

ConfoundedOf == ConfoundedComparison(GoldenResults, evidence.g3_analysis, Alpha)

RefusalWith(comparison) ==
  MigrationPlan(evidence.g3_analysis, evidence.horizon, RestatedVerdicts,
                <<comparison>>, evidence.decision_changes, <<>>)

RefusalOf == RefusalWith(evidence.g3_comparison)

ControlsOf ==
  [ G1 |-> PassIf(AggregatesMatch /\ AprilAbsent),
    G2 |-> PassIf(OnlyMetadataChanged),
    G3 |-> PassIf(ConfoundedRefused),
    G4 |-> PassIf(SameNumberOtherMeaning) ]

PlanOf ==
  MigrationPlan(evidence.golden_analysis, evidence.horizon, RestatedVerdicts,
                evidence.comparisons, evidence.decision_changes, evidence.controls)

(***************************************************************************)
(* The inductive invariant.  The stages that still lack a piece of the     *)
(* evidence are named by the one that produces it.                         *)
(***************************************************************************)
UntilCalculate == {"analyse", "calculate"}
UntilAssess    == UntilCalculate \cup {"assess"}
UntilCompare   == UntilAssess \cup {"compare"}
UntilDecide    == UntilCompare \cup {"decide"}
UntilRefuse    == UntilDecide \cup {"refuse"}
UntilControl   == UntilRefuse \cup {"control"}
UntilPlan      == UntilControl \cup {"plan"}
Stages         == UntilPlan \cup BarrierStages \cup {"release"}

\* Which stages have produced what.
ProducedInv ==
  /\ Has("golden_analysis") <=> stage # "analyse"
  /\ Has("g3_analysis") <=> stage # "analyse"
  /\ Has("results") <=> stage \notin UntilCalculate
  /\ Has("reconstructability") <=> stage \notin UntilAssess
  /\ Has("horizon") <=> stage \notin UntilAssess
  /\ Has("comparisons") <=> stage \notin UntilCompare
  /\ Has("decision_changes") <=> stage \notin UntilDecide
  /\ Has("impact") <=> stage \notin UntilDecide
  /\ Has("g3_comparison") <=> stage \notin UntilRefuse
  /\ Has("g3_plan") <=> stage \notin UntilRefuse
  /\ Has("controls") <=> stage \notin UntilControl
  /\ Has("plan") <=> stage \notin UntilPlan
  /\ Has("assumptions") /\ Has("policy_rules")

\* What each piece of evidence was derived from is still what the evidence holds.
DerivedInv ==
  /\ Has("golden_analysis") => evidence.golden_analysis = GoldenDifference
  /\ Has("g3_analysis") => evidence.g3_analysis = ConfoundedDifference
  /\ Has("results") => evidence.results = AllValues
  /\ Has("reconstructability") => evidence.reconstructability = Reconstructability
  /\ Has("horizon") => evidence.horizon = HorizonOf
  /\ Has("comparisons") => evidence.comparisons = TrendsOf
  /\ Has("decision_changes") => evidence.decision_changes = ChangesOf
  /\ Has("impact") => evidence.impact = ImpactIndex(evidence.decision_changes)
  /\ Has("g3_comparison") => evidence.g3_comparison = ConfoundedOf
  /\ Has("g3_plan") => evidence.g3_plan = RefusalOf
  /\ Has("controls") => evidence.controls = ControlsOf
  /\ Has("plan") => evidence.plan = PlanOf
  /\ evidence.assumptions = input.assumptions
  /\ evidence.policy_rules = input.policy_rules
  /\ Has("comparisons") => ExactAt(ComparisonEndpoints(Alpha))
  /\ Has("decision_changes") => ExactAt(DecisionEndpoints(Alpha, Beta))

\* What is published was accepted, and whatever was calculated had a value.
StageInv ==
  /\ input \in Inputs
  /\ stage \in Stages
  /\ outcome \in {"running", "raised", "published"}
  /\ outcome = "published" => stage = "release" /\ Accepted
  /\ stage \notin UntilCalculate => EveryCellHasAValue

\* The check of the barrier's stage has failed.
Refused ==
  \/ stage = "references" /\ ~ReferencesResolve
  \/ stage = "comparisons" /\ ~ComparisonsHold
  \/ stage = "changes" /\ ~DecisionsHold
  \/ stage = "plans" /\ ~PlansHold

\* Each stage of the barrier lets only what holds reach the next.
BarrierInv ==
  /\ stage \in {"comparisons", "changes", "plans", "release"} => ReferencesResolve
  /\ stage \in {"changes", "plans", "release"} => ComparisonsHold
  /\ stage \in {"plans", "release"} => DecisionsHold
  /\ stage = "release" => PlansHold
  /\ outcome = "raised" /\ stage \in BarrierStages => Refused

IInv == StageInv /\ ProducedInv /\ DerivedInv /\ BarrierInv

-----------------------------------------------------------------------------
(***************************************************************************)
(* A step keeps the input and what the evidence holds already.             *)
(***************************************************************************)
Grows ==
  /\ input' = input
  /\ \A name \in DOMAIN evidence :
       name \in DOMAIN evidence' /\ evidence'[name] = evidence[name]

\* Producing fields adds them to the evidence.
LEMMA ProduceGrows ==
  ASSUME NEW STATE fields, NEW STATE next, Produce(fields, next)
  PROVE  /\ Grows
         /\ DOMAIN evidence' = DOMAIN evidence \cup DOMAIN fields
         /\ \A name \in DOMAIN fields \ DOMAIN evidence : evidence'[name] = fields[name]
         /\ stage' = next /\ outcome' = outcome
BY DEF Produce, Extended, Grows

\* What follows from the input alone stays what it was.
LEMMA InputKept ==
  input' = input => /\ GoldenDifference' = GoldenDifference
                    /\ ConfoundedDifference' = ConfoundedDifference
                    /\ AllValues' = AllValues
                    /\ Reconstructability' = Reconstructability
                    /\ HorizonOf' = HorizonOf
                    /\ EveryCellHasAValue' = EveryCellHasAValue
<1> SUFFICES ASSUME input' = input
             PROVE  /\ GoldenDifference' = GoldenDifference
                    /\ ConfoundedDifference' = ConfoundedDifference
                    /\ AllValues' = AllValues
                    /\ Reconstructability' = Reconstructability
                    /\ HorizonOf' = HorizonOf
                    /\ EveryCellHasAValue' = EveryCellHasAValue
  OBVIOUS
<1> USE DEF Metric!Denominator, Metric!Numerator, Metric!Excluded, Metric!Members,
   Metric!FailedClauses, Metric!Computable, Metric!Satisfies
<1>1. \A cell : Metric!Value(cell)' = Metric!Value(cell)
  BY DEF Metric!Value
<1>2. Cells(input)' = Cells(input)
  BY DEF Cells
<1>3. AllValues' = AllValues
  BY <1>1, <1>2 DEF AllValues
<1>4. GoldenDifference' = GoldenDifference /\ ConfoundedDifference' = ConfoundedDifference
  BY DEF GoldenDifference, ConfoundedDifference, ArmDifference, First, Restated
<1>5. Reconstructability' = Reconstructability
  BY DEF Reconstructability, VerdictsOn, First, Restated, Metadata
<1>6. HorizonOf' = HorizonOf
  BY <1>5 DEF HorizonOf
<1>7. \A cell : Metric!Valueless(cell)' <=> Metric!Valueless(cell)
  BY DEF Metric!Valueless
<1>8. EveryCellHasAValue' = EveryCellHasAValue
  BY <1>7, <1>2, Zenon DEF EveryCellHasAValue
<1> QED BY <1>3, <1>4, <1>5, <1>6, <1>8

\* The golden results stay what they were once there are results.
LEMMA ResultsKept ==
  ASSUME Grows, Has("results")
  PROVE  GoldenResults' = GoldenResults /\ \A i : ResultSet(i)' = ResultSet(i)
<1> USE DEF Has, Grows
<1>1. evidence'.results = evidence.results
  OBVIOUS
<1>2. \A key : GoldenCell(key)' = GoldenCell(key)
  BY DEF GoldenCell
<1>3. GoldenResults' = GoldenResults
  BY <1>1, <1>2 DEF GoldenResults
<1>4. \A i : ResultSet(i)' = ResultSet(i)
  BY <1>1 DEF ResultSet
<1> QED BY <1>3, <1>4

\* So do the verdicts on 2.0.0,
LEMMA VerdictsKept ==
  ASSUME Grows, Has("reconstructability")
  PROVE  RestatedVerdicts' = RestatedVerdicts
BY DEF Grows, Has, RestatedVerdicts, OfVersion

\* the two trend comparisons,
LEMMA TrendsKept ==
  ASSUME Grows, Has("results"), Has("golden_analysis")
  PROVE  TrendsOf' = TrendsOf
BY ResultsKept DEF Grows, Has, TrendsOf

\* the confounded comparison,
LEMMA ConfoundedKept ==
  ASSUME Grows, Has("results"), Has("g3_analysis")
  PROVE  ConfoundedOf' = ConfoundedOf
BY ResultsKept DEF Grows, Has, ConfoundedOf

\* the decision changes,
LEMMA ChangesKept ==
  ASSUME Grows, Has("results"), Has("comparisons")
  PROVE  ChangesOf' = ChangesOf
BY ResultsKept DEF Grows, Has, ChangesOf

\* the plan of control G3,
LEMMA RefusalKept ==
  ASSUME Grows, Has("g3_analysis"), Has("horizon"), Has("reconstructability"),
         Has("g3_comparison"), Has("decision_changes")
  PROVE  RefusalOf' = RefusalOf
BY VerdictsKept DEF Grows, Has, RefusalOf, RefusalWith

\* the plan,
LEMMA PlanKept ==
  ASSUME Grows, Has("golden_analysis"), Has("horizon"), Has("reconstructability"),
         Has("comparisons"), Has("decision_changes"), Has("controls")
  PROVE  PlanOf' = PlanOf
BY VerdictsKept DEF Grows, Has, PlanOf

\* the controls,
LEMMA ControlsKept ==
  ASSUME Grows, Has("results"), Has("g3_analysis"), Has("g3_comparison"), Has("g3_plan")
  PROVE  ControlsOf' = ControlsOf
<1>1. GoldenResults' = GoldenResults /\ \A i : ResultSet(i)' = ResultSet(i)
  BY ResultsKept
<1>2. AggregatesMatch' <=> AggregatesMatch
  BY <1>1 DEF AggregatesMatch
<1>3. AprilAbsent' <=> AprilAbsent
  BY <1>1 DEF AprilAbsent
<1>4. OnlyMetadataChanged' <=> OnlyMetadataChanged
  BY <1>1 DEF OnlyMetadataChanged, First, Metadata, Grows
<1>5. ConfoundedRefused' <=> ConfoundedRefused
  BY DEF ConfoundedRefused, Grows, Has
<1>6. SameNumberOtherMeaning' <=> SameNumberOtherMeaning
  BY <1>1 DEF SameNumberOtherMeaning, First, Restated, Grows
<1> QED BY <1>2, <1>3, <1>4, <1>5, <1>6 DEF ControlsOf, PassIf

\* and which golden results are numbers.
LEMMA ExactKept ==
  ASSUME Grows, Has("results")
  PROVE  /\ ExactAt(ComparisonEndpoints(Alpha))' <=> ExactAt(ComparisonEndpoints(Alpha))
         /\ ExactAt(DecisionEndpoints(Alpha, Beta))' <=> ExactAt(DecisionEndpoints(Alpha, Beta))
<1>1. GoldenResults' = GoldenResults
  BY ResultsKept
<1> QED BY <1>1 DEF ExactAt, ComparisonEndpoints, DecisionEndpoints, Alpha, Beta

\* What the evidence already holds is still derived from what it holds.
LEMMA DerivedKept ==
  ASSUME IInv, Grows
  PROVE  /\ Has("golden_analysis") => evidence'.golden_analysis = GoldenDifference'
         /\ Has("g3_analysis") => evidence'.g3_analysis = ConfoundedDifference'
         /\ Has("results") => evidence'.results = AllValues'
         /\ Has("reconstructability")
              => evidence'.reconstructability = Reconstructability'
         /\ Has("horizon") => evidence'.horizon = HorizonOf'
         /\ Has("comparisons") => evidence'.comparisons = TrendsOf'
         /\ Has("decision_changes") => evidence'.decision_changes = ChangesOf'
         /\ Has("impact") => evidence'.impact = ImpactIndex(evidence'.decision_changes)
         /\ Has("g3_comparison") => evidence'.g3_comparison = ConfoundedOf'
         /\ Has("g3_plan") => evidence'.g3_plan = RefusalOf'
         /\ Has("controls") => evidence'.controls = ControlsOf'
         /\ Has("plan") => evidence'.plan = PlanOf'
         /\ evidence'.assumptions = input'.assumptions
         /\ evidence'.policy_rules = input'.policy_rules
         /\ Has("comparisons") => ExactAt(ComparisonEndpoints(Alpha))'
         /\ Has("decision_changes") => ExactAt(DecisionEndpoints(Alpha, Beta))'
<1> USE DEF Has, Grows
<1>1. DerivedInv /\ ProducedInv
  BY DEF IInv
<1>2. /\ Has("impact") => Has("decision_changes")
      /\ Has("decision_changes") => Has("comparisons")
      /\ Has("comparisons") => Has("results")
      /\ Has("results") => Has("golden_analysis") /\ Has("g3_analysis")
      /\ Has("comparisons") => Has("horizon") /\ Has("reconstructability")
      /\ Has("g3_comparison") => Has("decision_changes")
      /\ Has("g3_plan") => Has("g3_comparison")
      /\ Has("controls") => Has("g3_plan")
      /\ Has("plan") => Has("controls")
  <2> HIDE DEF Has
  <2> QED
  BY <1>1 DEF ProducedInv, UntilCalculate, UntilAssess, UntilCompare, UntilDecide,
     UntilRefuse, UntilControl, UntilPlan
<1>3. \A name \in DOMAIN evidence : evidence'[name] = evidence[name]
  OBVIOUS
<1>a. /\ Has("golden_analysis") => evidence'.golden_analysis = GoldenDifference'
      /\ Has("g3_analysis") => evidence'.g3_analysis = ConfoundedDifference'
      /\ Has("results") => evidence'.results = AllValues'
      /\ Has("reconstructability")
           => evidence'.reconstructability = Reconstructability'
      /\ Has("horizon") => evidence'.horizon = HorizonOf'
  BY <1>1, <1>3, InputKept DEF DerivedInv
<1>b. Has("comparisons") => evidence'.comparisons = TrendsOf'
  BY <1>1, <1>2, <1>3, TrendsKept DEF DerivedInv
<1>c. Has("decision_changes") => evidence'.decision_changes = ChangesOf'
  BY <1>1, <1>2, <1>3, ChangesKept DEF DerivedInv
<1>d. Has("impact") => evidence'.impact = ImpactIndex(evidence'.decision_changes)
  BY <1>1, <1>2, <1>3 DEF DerivedInv
<1>e. Has("g3_comparison") => evidence'.g3_comparison = ConfoundedOf'
  BY <1>1, <1>2, <1>3, ConfoundedKept DEF DerivedInv
<1>f. Has("g3_plan") => evidence'.g3_plan = RefusalOf'
  BY <1>1, <1>2, <1>3, RefusalKept DEF DerivedInv
<1>g. Has("controls") => evidence'.controls = ControlsOf'
  BY <1>1, <1>2, <1>3, ControlsKept DEF DerivedInv
<1>h. Has("plan") => evidence'.plan = PlanOf'
  BY <1>1, <1>2, <1>3, PlanKept DEF DerivedInv
<1>i. /\ evidence'.assumptions = input'.assumptions
      /\ evidence'.policy_rules = input'.policy_rules
  BY <1>1, <1>3 DEF DerivedInv, ProducedInv
<1>j. /\ Has("comparisons") => ExactAt(ComparisonEndpoints(Alpha))'
      /\ Has("decision_changes") => ExactAt(DecisionEndpoints(Alpha, Beta))'
  BY <1>1, <1>2, ExactKept DEF DerivedInv
<1> QED BY <1>a, <1>b, <1>c, <1>d, <1>e, <1>f, <1>g, <1>h, <1>i, <1>j

\* A step that adds nothing and stays among the barrier stages keeps all of it.
LEMMA QuietKeeps ==
  ASSUME IInv, Grows, DOMAIN evidence' = DOMAIN evidence,
         stage' = stage \/ (stage \notin UntilPlan /\ stage' \in Stages \ UntilPlan)
  PROVE  ProducedInv' /\ DerivedInv' /\ stage' \in Stages
           /\ (stage' \notin UntilCalculate => EveryCellHasAValue')
<1>1. DerivedInv'
  <2> USE DEF Has
  <2> QED BY DerivedKept DEF DerivedInv
<1>2. ProducedInv'
  BY DEF IInv, ProducedInv, Has, UntilCalculate, UntilAssess, UntilCompare, UntilDecide,
     UntilRefuse, UntilControl, UntilPlan, Stages, BarrierStages
<1>3. EveryCellHasAValue' <=> EveryCellHasAValue
  BY InputKept DEF Grows
<1>4. stage' \in Stages
  BY DEF IInv, StageInv
<1>5. stage' \notin UntilCalculate => stage \notin UntilCalculate
  BY DEF UntilPlan, UntilControl, UntilRefuse, UntilDecide, UntilCompare, UntilAssess
<1> QED BY <1>1, <1>2, <1>3, <1>4, <1>5 DEF IInv, StageInv

\* The first stage holds the invariant.
LEMMA InitIInv == Init => IInv
<1> SUFFICES ASSUME NEW i \in Inputs, Initially(i) PROVE IInv
  BY DEF Init
<1> QED BY DEF Initially, IInv, StageInv, ProducedInv, DerivedInv, Has, UntilCalculate,
  UntilAssess, UntilCompare, UntilDecide, UntilRefuse, UntilControl, UntilPlan, Stages,
  BarrierInv

\* What a stage that produces something has to show.
LEMMA ProducingKeeps ==
  ASSUME IInv, NEW STATE fields, NEW STATE next, Produce(fields, next),
         outcome = "running", next \in UntilPlan \cup {"references"},
         next \notin UntilCalculate => EveryCellHasAValue,
         ProducedInv', DerivedInv'
  PROVE  IInv'
<1>1. input' = input /\ outcome' = outcome /\ stage' = next
  BY DEF Produce
<1>2. EveryCellHasAValue' <=> EveryCellHasAValue
  BY <1>1, InputKept
<1>3. stage' \in Stages /\ outcome' # "raised"
        /\ stage' \notin {"comparisons", "changes", "plans", "release"}
  BY <1>1 DEF Stages, BarrierStages, UntilPlan, UntilControl, UntilRefuse, UntilDecide,
     UntilCompare, UntilAssess, UntilCalculate
<1>4. BarrierInv'
  BY <1>3 DEF BarrierInv
<1> QED BY <1>1, <1>2, <1>3, <1>4 DEF IInv, StageInv

\* The stage that runs Analyse keeps the invariant.
LEMMA AnalyseKeeps == IInv /\ Analyse => IInv'
<1> SUFFICES ASSUME IInv, Analyse PROVE IInv'
  OBVIOUS
<1> DEFINE fields == [golden_analysis |-> GoldenDifference, g3_analysis |-> ConfoundedDifference]
<1>1. stage = "analyse" /\ outcome = "running" /\ Produce(fields, "calculate")
  BY DEF Analyse, At, GoldenDifference, ConfoundedDifference
<1>2. /\ DOMAIN fields = {"golden_analysis", "g3_analysis"}
      /\ fields.golden_analysis = GoldenDifference
      /\ fields.g3_analysis = ConfoundedDifference
  OBVIOUS
<1> HIDE DEF fields
<1>3. /\ Grows /\ stage' = "calculate"
      /\ DOMAIN evidence' = DOMAIN evidence \cup DOMAIN fields
      /\ \A name \in DOMAIN fields \ DOMAIN evidence : evidence'[name] = fields[name]
  BY <1>1, ProduceGrows
<1>4. "golden_analysis" \notin DOMAIN evidence /\ "g3_analysis" \notin DOMAIN evidence
  BY <1>1 DEF IInv, ProducedInv, Has
<1>5. ProducedInv'
  BY <1>1, <1>2, <1>3 DEF IInv, ProducedInv, Has, UntilCalculate, UntilAssess,
     UntilCompare, UntilDecide, UntilRefuse, UntilControl, UntilPlan
<1>6. evidence'.golden_analysis = GoldenDifference' /\ evidence'.g3_analysis = ConfoundedDifference'
  BY <1>2, <1>3, <1>4, InputKept DEF Grows
<1>7. DerivedInv'
  BY <1>2, <1>3, <1>6, DerivedKept DEF DerivedInv, Has
<1> QED BY <1>1, <1>5, <1>7, ProducingKeeps DEF Stages, UntilPlan, UntilControl, UntilRefuse,
  UntilDecide, UntilCompare, UntilAssess, UntilCalculate

\* The stage that runs Calculate keeps the invariant.
LEMMA CalculateKeeps == IInv /\ Calculate => IInv'
<1> SUFFICES ASSUME IInv, Calculate PROVE IInv'
  OBVIOUS
<1> DEFINE fields == [results |-> AllValues]
<1>1. stage = "calculate" /\ outcome = "running" /\ Produce(fields, "assess")
        /\ EveryCellHasAValue
  BY DEF Calculate, At, AllValues, IInv, StageInv, UntilCalculate, UntilAssess,
     UntilCompare, UntilDecide, UntilRefuse, UntilControl, UntilPlan
<1>2. /\ DOMAIN fields = {"results"}
      /\ fields.results = AllValues
  OBVIOUS
<1> HIDE DEF fields
<1>3. /\ Grows /\ stage' = "assess"
      /\ DOMAIN evidence' = DOMAIN evidence \cup DOMAIN fields
      /\ \A name \in DOMAIN fields \ DOMAIN evidence : evidence'[name] = fields[name]
  BY <1>1, ProduceGrows
<1>4. "results" \notin DOMAIN evidence
  BY <1>1 DEF IInv, ProducedInv, Has, UntilCalculate, UntilAssess,
     UntilCompare, UntilDecide, UntilRefuse, UntilControl, UntilPlan
<1>5. ProducedInv'
  BY <1>1, <1>2, <1>3 DEF IInv, ProducedInv, Has, UntilCalculate, UntilAssess,
     UntilCompare, UntilDecide, UntilRefuse, UntilControl, UntilPlan
<1>6. /\ evidence'.results = AllValues'
  BY <1>1, <1>2, <1>3, <1>4, InputKept
     DEF Grows, IInv, ProducedInv, Has, UntilCalculate, UntilAssess,
     UntilCompare, UntilDecide, UntilRefuse, UntilControl, UntilPlan
<1>8. DerivedInv'
  BY <1>2, <1>3, <1>6, DerivedKept DEF DerivedInv, Has
<1> QED BY <1>1, <1>5, <1>8, ProducingKeeps DEF Stages, UntilPlan, UntilControl,
  UntilRefuse, UntilDecide, UntilCompare, UntilAssess, UntilCalculate, BarrierStages

\* The stage that runs Assess keeps the invariant.
LEMMA AssessKeeps == IInv /\ Assess => IInv'
<1> SUFFICES ASSUME IInv, Assess PROVE IInv'
  OBVIOUS
<1> DEFINE fields == [reconstructability |-> Reconstructability,
                     horizon |-> HorizonOf]
<1>1. stage = "assess" /\ outcome = "running" /\ Produce(fields, "compare")
        /\ EveryCellHasAValue
  BY DEF Assess, At, HorizonOf, IInv, StageInv, UntilCalculate, UntilAssess,
     UntilCompare, UntilDecide, UntilRefuse, UntilControl, UntilPlan
<1>2. /\ DOMAIN fields = {"reconstructability", "horizon"}
      /\ fields.reconstructability = Reconstructability
      /\ fields.horizon = HorizonOf
  OBVIOUS
<1> HIDE DEF fields
<1>3. /\ Grows /\ stage' = "compare"
      /\ DOMAIN evidence' = DOMAIN evidence \cup DOMAIN fields
      /\ \A name \in DOMAIN fields \ DOMAIN evidence : evidence'[name] = fields[name]
  BY <1>1, ProduceGrows
<1>4. "reconstructability" \notin DOMAIN evidence /\ "horizon" \notin DOMAIN evidence
  BY <1>1 DEF IInv, ProducedInv, Has, UntilCalculate, UntilAssess,
     UntilCompare, UntilDecide, UntilRefuse, UntilControl, UntilPlan
<1>5. ProducedInv'
  BY <1>1, <1>2, <1>3 DEF IInv, ProducedInv, Has, UntilCalculate, UntilAssess,
     UntilCompare, UntilDecide, UntilRefuse, UntilControl, UntilPlan
<1>6. /\ evidence'.reconstructability = Reconstructability'
        /\ evidence'.horizon = HorizonOf'
  BY <1>1, <1>2, <1>3, <1>4, InputKept
     DEF Grows, IInv, ProducedInv, Has, UntilCalculate, UntilAssess,
     UntilCompare, UntilDecide, UntilRefuse, UntilControl, UntilPlan
<1>8. DerivedInv'
  BY <1>2, <1>3, <1>6, DerivedKept DEF DerivedInv, Has
<1> QED BY <1>1, <1>5, <1>8, ProducingKeeps DEF Stages, UntilPlan, UntilControl,
  UntilRefuse, UntilDecide, UntilCompare, UntilAssess, UntilCalculate, BarrierStages

\* The stage that runs Compare keeps the invariant.
LEMMA CompareKeeps == IInv /\ Compare => IInv'
<1> SUFFICES ASSUME IInv, Compare PROVE IInv'
  OBVIOUS
<1> DEFINE fields == [comparisons |-> TrendsOf]
<1>1. stage = "compare" /\ outcome = "running" /\ Produce(fields, "decide")
        /\ EveryCellHasAValue
  BY DEF Compare, At, TrendsOf, IInv, StageInv, UntilCalculate, UntilAssess,
     UntilCompare, UntilDecide, UntilRefuse, UntilControl, UntilPlan
<1>2. /\ DOMAIN fields = {"comparisons"}
      /\ fields.comparisons = TrendsOf
  OBVIOUS
<1> HIDE DEF fields
<1>3. /\ Grows /\ stage' = "decide"
      /\ DOMAIN evidence' = DOMAIN evidence \cup DOMAIN fields
      /\ \A name \in DOMAIN fields \ DOMAIN evidence : evidence'[name] = fields[name]
  BY <1>1, ProduceGrows
<1>4. "comparisons" \notin DOMAIN evidence
  BY <1>1 DEF IInv, ProducedInv, Has, UntilCalculate, UntilAssess,
     UntilCompare, UntilDecide, UntilRefuse, UntilControl, UntilPlan
<1>5. ProducedInv'
  BY <1>1, <1>2, <1>3 DEF IInv, ProducedInv, Has, UntilCalculate, UntilAssess,
     UntilCompare, UntilDecide, UntilRefuse, UntilControl, UntilPlan
<1>6. /\ evidence'.comparisons = TrendsOf'
  BY <1>1, <1>2, <1>3, <1>4, TrendsKept
     DEF Grows, IInv, ProducedInv, Has, UntilCalculate, UntilAssess,
     UntilCompare, UntilDecide, UntilRefuse, UntilControl, UntilPlan
<1>7. ExactAt(ComparisonEndpoints(Alpha))'
  BY <1>1, <1>3, ExactKept DEF Compare, IInv, ProducedInv, Has, UntilCalculate, UntilAssess,
     UntilCompare, UntilDecide
<1>8. DerivedInv'
  BY <1>2, <1>3, <1>6, <1>7, DerivedKept DEF DerivedInv, Has
<1> QED BY <1>1, <1>5, <1>8, ProducingKeeps DEF Stages, UntilPlan, UntilControl,
  UntilRefuse, UntilDecide, UntilCompare, UntilAssess, UntilCalculate, BarrierStages

\* The stage that runs Decide keeps the invariant.
LEMMA DecideKeeps == IInv /\ Decide => IInv'
<1> SUFFICES ASSUME IInv, Decide PROVE IInv'
  OBVIOUS
<1> DEFINE fields == [decision_changes |-> ChangesOf,
                     impact |-> ImpactIndex(ChangesOf)]
<1>1. stage = "decide" /\ outcome = "running" /\ Produce(fields, "refuse")
        /\ EveryCellHasAValue
  BY DEF Decide, At, ChangesOf, IInv, StageInv, UntilCalculate, UntilAssess,
     UntilCompare, UntilDecide, UntilRefuse, UntilControl, UntilPlan
<1>2. /\ DOMAIN fields = {"decision_changes", "impact"}
      /\ fields.decision_changes = ChangesOf
      /\ fields.impact = ImpactIndex(ChangesOf)
  OBVIOUS
<1> HIDE DEF fields
<1>3. /\ Grows /\ stage' = "refuse"
      /\ DOMAIN evidence' = DOMAIN evidence \cup DOMAIN fields
      /\ \A name \in DOMAIN fields \ DOMAIN evidence : evidence'[name] = fields[name]
  BY <1>1, ProduceGrows
<1>4. "decision_changes" \notin DOMAIN evidence /\ "impact" \notin DOMAIN evidence
  BY <1>1 DEF IInv, ProducedInv, Has, UntilCalculate, UntilAssess,
     UntilCompare, UntilDecide, UntilRefuse, UntilControl, UntilPlan
<1>5. ProducedInv'
  BY <1>1, <1>2, <1>3 DEF IInv, ProducedInv, Has, UntilCalculate, UntilAssess,
     UntilCompare, UntilDecide, UntilRefuse, UntilControl, UntilPlan
<1>6. /\ evidence'.decision_changes = ChangesOf'
        /\ evidence'.impact = ImpactIndex(evidence'.decision_changes)
  BY <1>1, <1>2, <1>3, <1>4, ChangesKept
     DEF Grows, IInv, ProducedInv, Has, UntilCalculate, UntilAssess,
     UntilCompare, UntilDecide, UntilRefuse, UntilControl, UntilPlan
<1>7. ExactAt(DecisionEndpoints(Alpha, Beta))'
  BY <1>1, <1>3, ExactKept DEF Decide, IInv, ProducedInv, Has, UntilCalculate, UntilAssess,
     UntilCompare, UntilDecide
<1>8. DerivedInv'
  BY <1>2, <1>3, <1>6, <1>7, DerivedKept DEF DerivedInv, Has
<1> QED BY <1>1, <1>5, <1>8, ProducingKeeps DEF Stages, UntilPlan, UntilControl,
  UntilRefuse, UntilDecide, UntilCompare, UntilAssess, UntilCalculate, BarrierStages

\* The stage that runs Refuse keeps the invariant.
LEMMA RefuseKeeps == IInv /\ Refuse => IInv'
<1> SUFFICES ASSUME IInv, Refuse PROVE IInv'
  OBVIOUS
<1> DEFINE fields == [g3_comparison |-> ConfoundedOf,
                     g3_plan |-> RefusalWith(ConfoundedOf)]
<1>1. stage = "refuse" /\ outcome = "running" /\ Produce(fields, "control")
        /\ EveryCellHasAValue
  BY DEF Refuse, At, ConfoundedOf, RefusalWith, IInv, StageInv, UntilCalculate, UntilAssess,
     UntilCompare, UntilDecide, UntilRefuse, UntilControl, UntilPlan
<1>2. /\ DOMAIN fields = {"g3_comparison", "g3_plan"}
      /\ fields.g3_comparison = ConfoundedOf
      /\ fields.g3_plan = RefusalWith(ConfoundedOf)
  OBVIOUS
<1> HIDE DEF fields
<1>3. /\ Grows /\ stage' = "control"
      /\ DOMAIN evidence' = DOMAIN evidence \cup DOMAIN fields
      /\ \A name \in DOMAIN fields \ DOMAIN evidence : evidence'[name] = fields[name]
  BY <1>1, ProduceGrows
<1>4. "g3_comparison" \notin DOMAIN evidence /\ "g3_plan" \notin DOMAIN evidence
  BY <1>1 DEF IInv, ProducedInv, Has, UntilCalculate, UntilAssess,
     UntilCompare, UntilDecide, UntilRefuse, UntilControl, UntilPlan
<1>5. ProducedInv'
  BY <1>1, <1>2, <1>3 DEF IInv, ProducedInv, Has, UntilCalculate, UntilAssess,
     UntilCompare, UntilDecide, UntilRefuse, UntilControl, UntilPlan
<1>6. evidence'.g3_comparison = ConfoundedOf'
  BY <1>1, <1>2, <1>3, <1>4, ConfoundedKept
     DEF IInv, ProducedInv, Has, UntilCalculate, UntilAssess, UntilCompare, UntilDecide,
         UntilRefuse, UntilControl, UntilPlan
<1>7. evidence'.g3_plan = RefusalOf'
  <2>1. RestatedVerdicts' = RestatedVerdicts
    BY <1>1, <1>3, VerdictsKept DEF IInv, ProducedInv, Has, UntilCalculate, UntilAssess,
       UntilCompare, UntilDecide
  <2>2. evidence'.g3_comparison = ConfoundedOf /\ evidence'.g3_plan = RefusalWith(ConfoundedOf)
    BY <1>2, <1>3, <1>4
  <2>3. /\ evidence'.g3_analysis = evidence.g3_analysis
        /\ evidence'.horizon = evidence.horizon
        /\ evidence'.decision_changes = evidence.decision_changes
    BY <1>1, <1>3 DEF Grows, IInv, ProducedInv, Has, UntilCalculate, UntilAssess,
       UntilCompare, UntilDecide
  <2> QED BY <2>1, <2>2, <2>3 DEF RefusalOf, RefusalWith
<1>8. DerivedInv'
  BY <1>2, <1>3, <1>6, <1>7, DerivedKept DEF DerivedInv, Has
<1> QED BY <1>1, <1>5, <1>8, ProducingKeeps DEF Stages, UntilPlan, UntilControl,
  UntilRefuse, UntilDecide, UntilCompare, UntilAssess, UntilCalculate, BarrierStages

\* The stage that runs Control keeps the invariant.
LEMMA ControlKeeps == IInv /\ Control => IInv'
<1> SUFFICES ASSUME IInv, Control PROVE IInv'
  OBVIOUS
<1> DEFINE fields == [controls |-> ControlsOf]
<1>1. stage = "control" /\ outcome = "running" /\ Produce(fields, "plan")
        /\ EveryCellHasAValue
  BY DEF Control, At, ControlsOf, IInv, StageInv, UntilCalculate, UntilAssess,
     UntilCompare, UntilDecide, UntilRefuse, UntilControl, UntilPlan
<1>2. /\ DOMAIN fields = {"controls"}
      /\ fields.controls = ControlsOf
  OBVIOUS
<1> HIDE DEF fields
<1>3. /\ Grows /\ stage' = "plan"
      /\ DOMAIN evidence' = DOMAIN evidence \cup DOMAIN fields
      /\ \A name \in DOMAIN fields \ DOMAIN evidence : evidence'[name] = fields[name]
  BY <1>1, ProduceGrows
<1>4. "controls" \notin DOMAIN evidence
  BY <1>1 DEF IInv, ProducedInv, Has, UntilCalculate, UntilAssess,
     UntilCompare, UntilDecide, UntilRefuse, UntilControl, UntilPlan
<1>5. ProducedInv'
  BY <1>1, <1>2, <1>3 DEF IInv, ProducedInv, Has, UntilCalculate, UntilAssess,
     UntilCompare, UntilDecide, UntilRefuse, UntilControl, UntilPlan
<1>6. /\ evidence'.controls = ControlsOf'
  BY <1>1, <1>2, <1>3, <1>4, ControlsKept
     DEF Grows, IInv, ProducedInv, Has, UntilCalculate, UntilAssess,
     UntilCompare, UntilDecide, UntilRefuse, UntilControl, UntilPlan
<1>8. DerivedInv'
  BY <1>2, <1>3, <1>6, DerivedKept DEF DerivedInv, Has
<1> QED BY <1>1, <1>5, <1>8, ProducingKeeps DEF Stages, UntilPlan, UntilControl,
  UntilRefuse, UntilDecide, UntilCompare, UntilAssess, UntilCalculate, BarrierStages

\* The stage that runs Plan keeps the invariant.
LEMMA PlanKeeps == IInv /\ Plan => IInv'
<1> SUFFICES ASSUME IInv, Plan PROVE IInv'
  OBVIOUS
<1> DEFINE fields == [plan |-> PlanOf]
<1>1. stage = "plan" /\ outcome = "running" /\ Produce(fields, "references")
        /\ EveryCellHasAValue
  BY DEF Plan, At, PlanOf, IInv, StageInv, UntilCalculate, UntilAssess,
     UntilCompare, UntilDecide, UntilRefuse, UntilControl, UntilPlan
<1>2. /\ DOMAIN fields = {"plan"}
      /\ fields.plan = PlanOf
  OBVIOUS
<1> HIDE DEF fields
<1>3. /\ Grows /\ stage' = "references"
      /\ DOMAIN evidence' = DOMAIN evidence \cup DOMAIN fields
      /\ \A name \in DOMAIN fields \ DOMAIN evidence : evidence'[name] = fields[name]
  BY <1>1, ProduceGrows
<1>4. "plan" \notin DOMAIN evidence
  BY <1>1 DEF IInv, ProducedInv, Has, UntilCalculate, UntilAssess,
     UntilCompare, UntilDecide, UntilRefuse, UntilControl, UntilPlan
<1>5. ProducedInv'
  BY <1>1, <1>2, <1>3 DEF IInv, ProducedInv, Has, UntilCalculate, UntilAssess,
     UntilCompare, UntilDecide, UntilRefuse, UntilControl, UntilPlan
<1>6. /\ evidence'.plan = PlanOf'
  BY <1>1, <1>2, <1>3, <1>4, PlanKept
     DEF Grows, IInv, ProducedInv, Has, UntilCalculate, UntilAssess,
     UntilCompare, UntilDecide, UntilRefuse, UntilControl, UntilPlan
<1>8. DerivedInv'
  BY <1>2, <1>3, <1>6, DerivedKept DEF DerivedInv, Has
<1> QED BY <1>1, <1>5, <1>8, ProducingKeeps DEF Stages, UntilPlan, UntilControl,
  UntilRefuse, UntilDecide, UntilCompare, UntilAssess, UntilCalculate, BarrierStages

\* The barrier reads the input and the evidence, and nothing else.
LEMMA BarrierKept ==
  ASSUME UNCHANGED <<input, evidence>>
  PROVE  /\ ReferencesResolve' <=> ReferencesResolve
         /\ ComparisonsHold' <=> ComparisonsHold
         /\ DecisionsHold' <=> DecisionsHold
         /\ PlansHold' <=> PlansHold
         /\ Accepted' <=> Accepted
<1>1. /\ ResultIds' = ResultIds /\ ResultById' = ResultById
      /\ AnalysisById' = AnalysisById
      /\ AllComparisons' = AllComparisons
      /\ Plans' = Plans
      /\ Versions' = Versions
      /\ RestatedVerdicts' = RestatedVerdicts
  BY DEF ResultIds, ResultById, ResultId, AnalysisById, AllComparisons, Plans, Versions,
     RestatedVerdicts
<1>2. ReferencesResolve' <=> ReferencesResolve
  BY <1>1 DEF ReferencesResolve
<1>3. ComparisonsHold' <=> ComparisonsHold
  BY <1>1 DEF ComparisonsHold, ResultIdsUnique, ResultId
<1>4. DecisionsHold' <=> DecisionsHold
  BY <1>1 DEF DecisionsHold
<1>5. ExpectedPlans' = ExpectedPlans
  BY <1>1 DEF ExpectedPlans
<1>6. PlansHold' <=> PlansHold
  BY <1>1, <1>5 DEF PlansHold
<1>7. Accepted' <=> Accepted
  BY DEF Accepted
<1> QED BY <1>2, <1>3, <1>4, <1>6, <1>7

\* A step that changes the stage among the barrier's, or only the outcome.
LEMMA UnchangedKeeps ==
  ASSUME IInv, UNCHANGED <<input, evidence>>,
         \/ stage' = stage
         \/ stage \notin UntilPlan /\ stage' \in Stages \ UntilPlan,
         BarrierInv',
         \/ outcome' = "raised"
         \/ outcome' = "running"
         \/ outcome' = outcome /\ stage' = stage
         \/ outcome' = "published" /\ stage' = "release" /\ Accepted
  PROVE  IInv'
<1>1. Grows /\ DOMAIN evidence' = DOMAIN evidence
  BY DEF Grows
<1>2. /\ ProducedInv' /\ DerivedInv' /\ stage' \in Stages
      /\ stage' \notin UntilCalculate => EveryCellHasAValue'
  BY <1>1, QuietKeeps
<1>3. Accepted' <=> Accepted
  BY BarrierKept
<1> QED BY <1>2, <1>3 DEF IInv, StageInv

\* A check of the barrier that holds lets the next stage know it did.
LEMMA BarrierKeeps ==
  IInv /\ (ResolveReferences \/ CheckComparisons \/ CheckDecisions \/ CheckPlans) => IInv'
<1> SUFFICES ASSUME IInv, ResolveReferences \/ CheckComparisons \/ CheckDecisions \/ CheckPlans
             PROVE  IInv'
  OBVIOUS
<1>1. UNCHANGED <<input, evidence>> /\ outcome' = "running"
  BY DEF ResolveReferences, CheckComparisons, CheckDecisions, CheckPlans, At, Advance
<1>2. stage \notin UntilPlan /\ stage' \in Stages \ UntilPlan
  BY DEF ResolveReferences, CheckComparisons, CheckDecisions, CheckPlans, At, Advance,
     Stages, BarrierStages, UntilPlan, UntilControl, UntilRefuse, UntilDecide,
     UntilCompare, UntilAssess, UntilCalculate
<1>3. BarrierInv'
  <2>1. BarrierInv
    BY DEF IInv
  <2> QED BY <1>1, <2>1, BarrierKept DEF BarrierInv, ResolveReferences, CheckComparisons,
    CheckDecisions, CheckPlans, At, Advance
<1> QED BY <1>1, <1>2, <1>3, UnchangedKeeps

\* Of the four checks one is the stage's.
LEMMA HoldsOrRefused == stage \in BarrierStages => (~Holds <=> Refused)
<1>1. CASE stage = "references"
  BY <1>1 DEF Holds, Refused
<1>2. CASE stage = "comparisons"
  BY <1>2 DEF Holds, Refused
<1>3. CASE stage = "changes"
  BY <1>3 DEF Holds, Refused
<1>4. CASE stage = "plans"
  BY <1>4 DEF Holds, Refused
<1> QED BY <1>1, <1>2, <1>3, <1>4 DEF BarrierStages

\* So does a step that ends the execution, or changes nothing.
LEMMA EndKeeps ==
  ASSUME IInv, UNCHANGED <<input, evidence, stage>>,
         \/ outcome' = "raised" /\ (stage \in BarrierStages => Refused)
         \/ outcome' = outcome
         \/ outcome' = "published" /\ stage = "release" /\ Accepted
  PROVE  IInv'
<1>1. Refused' <=> Refused
  BY BarrierKept DEF Refused
<1>2. BarrierInv'
  BY <1>1, BarrierKept DEF IInv, BarrierInv
<1> QED BY <1>2, UnchangedKeeps

\* Every step keeps the invariant.
LEMMA StepIInv == IInv /\ [Next]_vars => IInv'
<1> SUFFICES ASSUME IInv, [Next]_vars PROVE IInv'
  OBVIOUS
<1>1. CASE Analyse
  BY <1>1, AnalyseKeeps
<1>2. CASE Calculate
  BY <1>2, CalculateKeeps
<1>3. CASE Assess
  BY <1>3, AssessKeeps
<1>4. CASE Compare
  BY <1>4, CompareKeeps
<1>5. CASE Decide
  BY <1>5, DecideKeeps
<1>6. CASE Refuse
  BY <1>6, RefuseKeeps
<1>7. CASE Control
  BY <1>7, ControlKeeps
<1>8. CASE Plan
  BY <1>8, PlanKeeps
<1>9. CASE ResolveReferences \/ CheckComparisons \/ CheckDecisions \/ CheckPlans
  BY <1>9, BarrierKeeps
<1>10. CASE CalculationRaises \/ RequiredResultAbsent \/ BarrierRaises \/ ReleaseRaises
  BY <1>10, EndKeeps, HoldsOrRefused DEF CalculationRaises, RequiredResultAbsent, BarrierRaises,
     ReleaseRaises, Raise, At, BarrierStages
<1>11. CASE Release
  BY <1>11, EndKeeps DEF Release, At
<1>12. CASE UNCHANGED vars
  BY <1>12, EndKeeps DEF vars
<1> QED
  BY <1>1, <1>2, <1>3, <1>4, <1>5, <1>6, <1>7, <1>8, <1>9, <1>10, <1>11, <1>12
     DEF Next, Terminated

\* Every execution keeps, at every stage, the evidence each earlier one derived,
\* and has passed the checks of the barrier that lie behind it (build_evidence,
\* validate_evidence_references, validate_evidence_consistency, execute).
THEOREM AuditInvariance == Spec => []IInv
BY InitIInv, StepIInv, PTL DEF Spec

-----------------------------------------------------------------------------
\* An input has the three definitions, 1.0.0 and 2.0.0 the first of them.
LEMMA LoadedInput ==
  ASSUME IInv
  PROVE  /\ input \in Input
         /\ DOMAIN input.definitions = 1..3 /\ input.definitions \in Seq(MetricDefinition)
         /\ First \in MetricDefinition /\ Restated \in MetricDefinition
         /\ Metadata \in MetricDefinition
         /\ First.version = "1.0.0" /\ Restated.version = "2.0.0"
<1>1. input \in Input /\ Len(input.definitions) = 3 /\ First.version = "1.0.0"
        /\ Restated.version = "2.0.0"
  BY InputsWellFormed, ThreeDefinitions DEF IInv, StageInv, First, Restated
<1>2. input.definitions \in Seq(MetricDefinition)
  BY <1>1 DEF Input
<1>3. DOMAIN input.definitions = 1..3 /\ \A i \in 1..3 : input.definitions[i] \in MetricDefinition
  BY <1>1, <1>2
<1> QED BY <1>1, <1>2, <1>3 DEF First, Restated, Metadata

\* Two definitions of the same clauses have the same value in every cohort and
\* channel.
LEMMA ClausesDecideValue ==
  ASSUME NEW i, NEW j, NEW a, NEW b,
         input.definitions[i].numerator = input.definitions[j].numerator,
         input.definitions[i].denominator = input.definitions[j].denominator
  PROVE  Metric!Value(<<i, a, b>>) = Metric!Value(<<j, a, b>>)
<1> DEFINE c == <<i, a, b>>
           d == <<j, a, b>>
<1>1. /\ Metric!CohortOf(c) = Metric!CohortOf(d)
      /\ Metric!ChannelOf(c) = Metric!ChannelOf(d)
      /\ Metric!DefinitionOf(input, c) = input.definitions[i]
      /\ Metric!DefinitionOf(input, d) = input.definitions[j]
  BY DEF Metric!CohortOf, Metric!ChannelOf, Metric!DefinitionOf
<1> HIDE DEF c, d
<1>2. Metric!CohortRecords(input, c) = Metric!CohortRecords(input, d)
  BY <1>1 DEF Metric!CohortRecords, Metric!ExpectedPopulation
<1>3. Metric!GapsOf(input, c) = Metric!GapsOf(input, d)
  BY <1>1 DEF Metric!GapsOf, Metric!DeclarationOf, Metric!Gaps, Metric!DependenciesOf
<1>4. \A kinds, x : Metric!FailedClauses(kinds, x, c) = Metric!FailedClauses(kinds, x, d)
  BY <1>1 DEF Metric!FailedClauses, Metric!Satisfies
<1>5. \A kinds : Metric!Members(kinds, c) = Metric!Members(kinds, d)
  BY <1>2, <1>4 DEF Metric!Members
<1>6. /\ Metric!Denominator(c) = Metric!Denominator(d)
      /\ Metric!Numerator(c) = Metric!Numerator(d)
  BY <1>1, <1>5 DEF Metric!Denominator, Metric!Numerator, Metric!DenominatorClauses,
                    Metric!NumeratorClauses
<1>7. Metric!Excluded(c) = Metric!Excluded(d)
  BY <1>1, <1>2, <1>4, <1>6 DEF Metric!Excluded, Metric!DenominatorClauses
<1>8. Metric!Value(c) = Metric!Value(d)
  BY <1>3, <1>6, <1>7 DEF Metric!Value, Metric!Computable
<1> QED BY <1>8 DEF c, d

\* What a result set holds at a place.
LEMMA ResultAt ==
  ASSUME IInv, Has("results"), NEW position \in 1..3, NEW place \in Places
  PROVE  ResultSet(position)[place] = Metric!Value(<<position, place[1], place[2]>>)
<1>1. <<position, place[1], place[2]>> \in Cells(input)
  BY LoadedInput DEF Cells, Places
<1>2. evidence.results[<<position, place[1], place[2]>>]
        = Metric!Value(<<position, place[1], place[2]>>)
  BY <1>1 DEF IInv, DerivedInv, AllValues
<1> QED BY <1>2 DEF ResultSet

\* Other metadata over the same clauses leaves every result what it was.
LEMMA MetadataKeepsResults ==
  ASSUME IInv, Has("results"), First.numerator = Metadata.numerator,
         First.denominator = Metadata.denominator
  PROVE  \A place \in Places : ResultSet(1)[place] = ResultSet(3)[place]
<1> SUFFICES ASSUME NEW place \in Places PROVE ResultSet(1)[place] = ResultSet(3)[place]
  OBVIOUS
<1>1. Metric!Value(<<1, place[1], place[2]>>) = Metric!Value(<<3, place[1], place[2]>>)
  BY ClausesDecideValue DEF First, Metadata
<1> QED BY <1>1, ResultAt

\* Predicates written the same have the same clauses.
LEMMA WrittenClauses ==
  ASSUME NEW d, NEW e, NEW part, Written(d, part) = Written(e, part)
  PROVE  d[part] = e[part]
BY DEF Written

\* Two definitions mean the same exactly when both predicates are written the same.
LEMMA SemanticsAreWritten ==
  ASSUME NEW d, NEW e
  PROVE  ~SemanticDifferent(d, e) <=> /\ Written(d, "numerator") = Written(e, "numerator")
                                      /\ Written(d, "denominator") = Written(e, "denominator")
<1>1. SemanticProjection(d) = SemanticProjection(e)
        <=> /\ Written(d, "numerator") = Written(e, "numerator")
            /\ Written(d, "denominator") = Written(e, "denominator")
  BY DEF SemanticProjection
<1> QED BY <1>1 DEF SemanticDifferent

\* Control G2 decides by the predicates alone.
LEMMA MetadataControl == IInv => MetadataControlIsSemantic
<1> DEFINE same == /\ Written(First, "numerator") = Written(Metadata, "numerator")
                   /\ Written(First, "denominator") = Written(Metadata, "denominator")
<1> SUFFICES ASSUME IInv, Has("controls")
             PROVE  evidence.controls.G2 = "PASS" <=> First # Metadata /\ same
  BY DEF MetadataControlIsSemantic
<1>1. Has("results")
  BY DEF IInv, ProducedInv, UntilCalculate, UntilAssess, UntilCompare, UntilDecide,
     UntilRefuse, UntilControl
<1>2. evidence.controls.G2 = "PASS" <=> OnlyMetadataChanged
  BY DEF IInv, DerivedInv, ControlsOf, PassIf
<1>3. ASSUME same
      PROVE  /\ ResultProjection(ResultSet(1), First.version)
                   = ResultProjection(ResultSet(3), Metadata.version)
             /\ DecisionProjection(ResultSet(1)) = DecisionProjection(ResultSet(3))
  <2>1. First["numerator"] = Metadata["numerator"] /\ First["denominator"] = Metadata["denominator"]
    BY <1>3, WrittenClauses
  <2>2. ResultSet(1) = ResultSet(3)
    BY <1>1, <2>1, MetadataKeepsResults DEF ResultSet
  <2> QED BY <2>2 DEF ResultProjection
<1> HIDE DEF same
<1>4. ~SemanticDifferent(First, Metadata) <=> same
  BY SemanticsAreWritten DEF same
<1>5. OnlyMetadataChanged <=> First # Metadata /\ same
  BY <1>3, <1>4 DEF OnlyMetadataChanged, ArtifactDifferent
<1> QED BY <1>2, <1>5

\* Control G2 passes exactly when 1.0.1 is another artifact with the predicates of
\* 1.0.0, whatever coverage left of the results (_control_g2).
THEOREM MetadataControlAlways == Spec => []MetadataControlIsSemantic
BY AuditInvariance, MetadataControl, PTL

\* What an arm difference is when it attributes the difference to the definition.
LEMMA AttributedToDenominator ==
  ASSUME IInv, Has("golden_analysis"), evidence.golden_analysis.attribution_valid
  PROVE  /\ Written(First, "numerator") = Written(Restated, "numerator")
         /\ Written(First, "denominator") # Written(Restated, "denominator")
         /\ First.numerator = Restated.numerator
<1>1. IndependentSemanticChanges(First, Restated) = {"denominator"}
  BY DEF IInv, DerivedInv, GoldenDifference, ArmDifference
<1>2. \A d : /\ SemanticProjection(d)["numerator"] = Written(d, "numerator")
             /\ SemanticProjection(d)["denominator"] = Written(d, "denominator")
  BY DEF SemanticProjection
<1>3. /\ Written(First, "numerator") = Written(Restated, "numerator")
      /\ Written(First, "denominator") # Written(Restated, "denominator")
  BY <1>1, <1>2 DEF IndependentSemanticChanges
<1>4. First["numerator"] = Restated["numerator"]
  BY <1>3, WrittenClauses
<1> QED BY <1>3, <1>4

\* What is published was attributed, and its controls passed.
LEMMA PublishedHasPassed ==
  ASSUME IInv, outcome = "published"
  PROVE  /\ evidence.golden_analysis.attribution_valid
         /\ \A id \in ControlIds : evidence.controls[id] = "PASS"
         /\ AggregatesMatch /\ AprilAbsent /\ OnlyMetadataChanged
         /\ \A name \in {"golden_analysis", "g3_analysis", "results", "reconstructability",
                         "horizon", "comparisons", "decision_changes", "impact",
                         "g3_comparison", "g3_plan", "controls", "plan"} : Has(name)
<1>1. stage = "release" /\ Accepted
  BY DEF IInv, StageInv
<1>2. \A name \in {"golden_analysis", "g3_analysis", "results", "reconstructability",
                   "horizon", "comparisons", "decision_changes", "impact",
                   "g3_comparison", "g3_plan", "controls", "plan"} : Has(name)
  BY <1>1 DEF IInv, ProducedInv, UntilCalculate, UntilAssess, UntilCompare, UntilDecide,
     UntilRefuse, UntilControl, UntilPlan
<1>3. evidence.controls = ControlsOf
  BY <1>2 DEF IInv, DerivedInv
<1>4. ControlsOf.G1 = "PASS" /\ ControlsOf.G2 = "PASS"
  BY <1>1, <1>3 DEF Accepted, ControlIds
<1>5. AggregatesMatch /\ AprilAbsent /\ OnlyMetadataChanged
  BY <1>4 DEF ControlsOf, PassIf
<1> QED BY <1>1, <1>2, <1>5 DEF Accepted

\* So it isolates the denominator.
LEMMA Isolation == IInv => PublishedIsolatesDenominator
<1> SUFFICES ASSUME IInv, outcome = "published"
             PROVE  /\ Written(First, "numerator") = Written(Restated, "numerator")
                    /\ Written(First, "denominator") # Written(Restated, "denominator")
                    /\ \A place \in Places : ResultSet(1)[place] = ResultSet(3)[place]
  BY DEF PublishedIsolatesDenominator
<1>1. /\ Written(First, "numerator") = Written(Restated, "numerator")
      /\ Written(First, "denominator") # Written(Restated, "denominator")
  BY PublishedHasPassed, AttributedToDenominator
<1>2. First["numerator"] = Metadata["numerator"] /\ First["denominator"] = Metadata["denominator"]
  BY PublishedHasPassed, SemanticsAreWritten, WrittenClauses DEF OnlyMetadataChanged
<1>3. \A place \in Places : ResultSet(1)[place] = ResultSet(3)[place]
  BY <1>2, PublishedHasPassed, MetadataKeepsResults
<1> QED BY <1>1, <1>3

\* What is published changed the denominator and nothing else, and its 1.0.1 has
\* the results of 1.0.0 (diff_arms, _control_g2 and execute together).
THEOREM IsolationAlways == Spec => []PublishedIsolatesDenominator
BY AuditInvariance, Isolation, PTL

-----------------------------------------------------------------------------
\* What an operand holds.
LEMMA OperandFields ==
  ASSUME NEW name, NEW operator, NEW actual, NEW expected, NEW passed, NEW cited
  PROVE  LET operand == Operand(name, operator, actual, expected, passed, cited)
         IN  /\ operand.name = name /\ operand.operator = operator
             /\ operand.actual = actual /\ operand.expected = expected
             /\ operand.passed = passed /\ operand.evidence = cited
BY DEF Operand

\* The gate has eight operands.
LEMMA GateLength ==
  ASSUME NEW horizon, NEW verdicts, NEW comparisons, NEW controls
  PROVE  DOMAIN GateOperands(horizon, verdicts, comparisons, controls) = 1..8
BY DEF GateOperands

\* Each operand of the gate says whether its condition holds.
LEMMA GateSays ==
  ASSUME NEW horizon, NEW verdicts, NEW comparisons, NEW controls, NEW operands,
         operands = GateOperands(horizon, verdicts, comparisons, controls)
  PROVE  /\ DOMAIN operands = 1..8
         /\ operands[1].passed <=> (horizon.status = "PARTIAL")
         /\ operands[2].passed <=> (StatusesIn(RestatementCohorts, verdicts)
                                     = FullStatuses(RestatementCohorts))
         /\ operands[3].passed <=> (StatusesIn(BridgeCohorts, verdicts)
                                     = FullStatuses(BridgeCohorts))
         /\ operands[4].passed <=> (Cardinality(CompleteIn(BridgeCohorts, verdicts))
                                     >= MinimumBridge)
         /\ operands[5].passed
         /\ operands[6].passed <=> (StatusOf(NonReconstructableCohort, verdicts)
                                     = "NOT_RECONSTRUCTABLE")
         /\ operands[7].passed <=> StitchRefuted(comparisons)
         /\ operands[8].passed <=> (controls = [id \in ControlIds |-> "PASS"])
<1>1. DOMAIN operands = 1..8
  BY DEF GateOperands
<1>2. operands[1].passed = (horizon.status = "PARTIAL")
  BY OperandFields DEF GateOperands, Equals
<1>3. operands[2].passed = (StatusesIn(RestatementCohorts, verdicts)
                                     = FullStatuses(RestatementCohorts))
  BY OperandFields DEF GateOperands, AllTrue
<1>4. operands[3].passed = (StatusesIn(BridgeCohorts, verdicts)
                                     = FullStatuses(BridgeCohorts))
  BY OperandFields DEF GateOperands, AllTrue
<1>5. operands[4].passed = (Cardinality(CompleteIn(BridgeCohorts, verdicts))
                                     >= MinimumBridge)
  BY OperandFields DEF GateOperands
<1>6. operands[5].passed = (EffectiveCohort = EffectiveCohort)
  BY OperandFields DEF GateOperands, Equals
<1>7. operands[6].passed = (StatusOf(NonReconstructableCohort, verdicts)
                                     = "NOT_RECONSTRUCTABLE")
  BY OperandFields DEF GateOperands
<1>8. operands[7].passed = StitchRefuted(comparisons)
  BY OperandFields DEF GateOperands
<1>9. operands[8].passed = (controls = [id \in ControlIds |-> "PASS"])
  BY OperandFields DEF GateOperands, AllTrue
<1> QED BY <1>1, <1>2, <1>3, <1>4, <1>5, <1>6, <1>7, <1>8, <1>9

\* A plan restates exactly when its analysis attributes and no operand fails.
LEMMA PlanDecides ==
  ASSUME NEW analysis, NEW horizon, NEW verdicts, NEW comparisons, NEW changes, NEW controls,
         NEW operands, operands = GateOperands(horizon, verdicts, comparisons, controls),
         NEW plan,
         plan = MigrationPlan(analysis, horizon, verdicts, comparisons, changes, controls)
  PROVE  /\ plan.recommendation = "PARTIAL_RESTATEMENT"
              <=> analysis.attribution_valid /\ \A i \in 1..8 : operands[i].passed
         /\ plan.recommendation = "PARTIAL_RESTATEMENT"
              => plan = PartialRestatement(operands, comparisons, changes)
<1>1. DOMAIN operands = 1..8
  BY GateLength
<1>2. FailedAt(operands) # {} <=> \E i \in 1..8 : ~operands[i].passed
  BY <1>1 DEF FailedAt
<1>3. PartialRestatement(operands, comparisons, changes).recommendation
        = "PARTIAL_RESTATEMENT"
  BY DEF PartialRestatement
<1>4. \A id, failed, refs :
        Rejection(id, failed, refs).recommendation = "REJECT_PENDING_EVIDENCE"
  BY DEF Rejection
<1>5. \/ /\ analysis.attribution_valid /\ FailedAt(operands) = {}
         /\ plan = PartialRestatement(operands, comparisons, changes)
      \/ /\ ~(analysis.attribution_valid /\ FailedAt(operands) = {})
         /\ \E id, failed, refs : plan = Rejection(id, failed, refs)
  BY DEF MigrationPlan
<1> QED BY <1>2, <1>3, <1>4, <1>5

\* The cohorts a restatement restates, bridges and marks.
LEMMA RestatementScopes ==
  ASSUME NEW operands, NEW comparisons, NEW changes, NEW plan,
         plan = PartialRestatement(operands, comparisons, changes)
  PROVE  /\ ScopeOf(plan, "RESTATE_COHORT_RANGE") = RestatementCohorts
         /\ ScopeOf(plan, "DUAL_REPORT_COHORT_RANGE") = BridgeCohorts
         /\ ScopeOf(plan, "MARK_NON_COMPARABLE") = {NonReconstructableCohort}
         /\ ScopeOf(plan, "REJECT_PENDING_EVIDENCE") = {}
<1>1. DOMAIN plan.actions = 1..4
  BY DEF PartialRestatement
<1>2. \A i \in 1..4 : /\ plan.actions[i].scope = Scopes[i]
                      /\ plan.actions[i].action_type = PositiveActionTypes[i]
  BY DEF PartialRestatement, Action
<1>3. /\ PositiveActionTypes[1] = "RESTATE_COHORT_RANGE"
      /\ PositiveActionTypes[2] = "DUAL_REPORT_COHORT_RANGE"
      /\ PositiveActionTypes[3] = "START_OFFICIAL_SERIES"
      /\ PositiveActionTypes[4] = "MARK_NON_COMPARABLE"
      /\ Scopes[1] = RestatementCohorts /\ Scopes[2] = BridgeCohorts
      /\ Scopes[4] = {NonReconstructableCohort}
  BY DEF PositiveActionTypes, Scopes
<1>4. \A x : x \in 1..4 <=> x \in {1, 2, 3, 4}
  OBVIOUS
<1> DEFINE of(t) == {i \in DOMAIN plan.actions : plan.actions[i].action_type = t}
<1>5. /\ of("RESTATE_COHORT_RANGE") = {1} /\ of("DUAL_REPORT_COHORT_RANGE") = {2}
      /\ of("MARK_NON_COMPARABLE") = {4} /\ of("REJECT_PENDING_EVIDENCE") = {}
  BY <1>1, <1>2, <1>3, <1>4
<1>6. \A t : ScopeOf(plan, t) = UNION {plan.actions[i].scope : i \in of(t)}
  BY DEF ScopeOf
<1> HIDE DEF of
<1>7. /\ UNION {plan.actions[i].scope : i \in {1}} = plan.actions[1].scope
      /\ UNION {plan.actions[i].scope : i \in {2}} = plan.actions[2].scope
      /\ UNION {plan.actions[i].scope : i \in {4}} = plan.actions[4].scope
      /\ UNION {plan.actions[i].scope : i \in {}} = {}
  OBVIOUS
<1>8. /\ plan.actions[1].scope = RestatementCohorts
      /\ plan.actions[2].scope = BridgeCohorts
      /\ plan.actions[4].scope = {NonReconstructableCohort}
  BY <1>2, <1>3
<1> QED BY <1>5, <1>6, <1>7, <1>8
\* The horizon has three cohorts.
LEMMA ThreeCohortNames ==
  /\ DOMAIN Cohorts = 1..3
  /\ CohortNames = {"2026-04", "2026-05", "2026-06"}
<1>1. DOMAIN Cohorts = 1..3 /\ \A x : x \in 1..3 <=> x \in {1, 2, 3}
  BY DEF Cohorts
<1> QED BY <1>1 DEF CohortNames, Cohorts

\* Verdicts that let the policy restate May and June and give April up.
RestatableVerdicts(verdicts) ==
  /\ StatusOf("2026-04", verdicts) = "NOT_RECONSTRUCTABLE"
  /\ StatusOf("2026-05", verdicts) = "FULLY_RECONSTRUCTABLE"
  /\ StatusOf("2026-06", verdicts) = "FULLY_RECONSTRUCTABLE"

\* The operands about coverage ask exactly for such verdicts.
LEMMA StatusesAreFull ==
  ASSUME NEW verdicts
  PROVE  /\ StatusesIn(RestatementCohorts, verdicts) = FullStatuses(RestatementCohorts)
              <=> /\ StatusOf("2026-05", verdicts) = "FULLY_RECONSTRUCTABLE"
                  /\ StatusOf("2026-06", verdicts) = "FULLY_RECONSTRUCTABLE"
         /\ StatusesIn(BridgeCohorts, verdicts) = FullStatuses(BridgeCohorts)
              <=> /\ StatusOf("2026-05", verdicts) = "FULLY_RECONSTRUCTABLE"
                  /\ StatusOf("2026-06", verdicts) = "FULLY_RECONSTRUCTABLE"
<1>1. ASSUME NEW cohorts, cohorts = {"2026-05", "2026-06"}
      PROVE  StatusesIn(cohorts, verdicts) = FullStatuses(cohorts)
               <=> /\ StatusOf("2026-05", verdicts) = "FULLY_RECONSTRUCTABLE"
                   /\ StatusOf("2026-06", verdicts) = "FULLY_RECONSTRUCTABLE"
  <2>1. ASSUME StatusesIn(cohorts, verdicts) = FullStatuses(cohorts), NEW c \in cohorts
        PROVE  StatusOf(c, verdicts) = "FULLY_RECONSTRUCTABLE"
    <3>1. StatusesIn(cohorts, verdicts)[c] = StatusOf(c, verdicts)
      BY DEF StatusesIn
    <3>2. FullStatuses(cohorts)[c] = "FULLY_RECONSTRUCTABLE"
      BY DEF FullStatuses
    <3> QED BY <2>1, <3>1, <3>2
  <2>2. ASSUME \A c \in cohorts : StatusOf(c, verdicts) = "FULLY_RECONSTRUCTABLE"
        PROVE  StatusesIn(cohorts, verdicts) = FullStatuses(cohorts)
    BY <2>2 DEF StatusesIn, FullStatuses
  <2> QED BY <1>1, <2>1, <2>2
<1> QED BY <1>1 DEF RestatementCohorts, BridgeCohorts

\* Over such verdicts the horizon is partial: May and June, without April.
LEMMA RestatableHorizon ==
  ASSUME NEW verdicts, RestatableVerdicts(verdicts)
  PROVE  LET horizon == HorizonCoverage(verdicts)
         IN  /\ horizon.fully_reconstructable_cohorts = RestatementCohorts
             /\ horizon.non_reconstructable_cohorts = {NonReconstructableCohort}
             /\ horizon.status = "PARTIAL"
<1> DEFINE full == { cohort \in CohortNames :
                       LastFor(cohort, verdicts).status = "FULLY_RECONSTRUCTABLE" }
<1>1. /\ LastFor("2026-04", verdicts).status = "NOT_RECONSTRUCTABLE"
      /\ LastFor("2026-05", verdicts).status = "FULLY_RECONSTRUCTABLE"
      /\ LastFor("2026-06", verdicts).status = "FULLY_RECONSTRUCTABLE"
  BY DEF RestatableVerdicts, StatusOf
<1>2. full = {"2026-05", "2026-06"}
  BY <1>1, ThreeCohortNames
<1>3. CohortNames \ full = {"2026-04"}
  BY <1>2, ThreeCohortNames
<1>4. Cardinality(full) = 2 /\ full # {}
  <2>1. IsFiniteSet({"2026-05"}) /\ Cardinality({"2026-05"}) = 1
    BY FS_Singleton
  <2>2. Cardinality({"2026-05"} \cup {"2026-06"}) = 2
    BY <2>1, FS_AddElement
  <2>3. full = {"2026-05"} \cup {"2026-06"}
    BY <1>2
  <2> QED BY <2>2, <2>3
<1>5. /\ HorizonCoverage(verdicts).fully_reconstructable_cohorts = full
      /\ HorizonCoverage(verdicts).non_reconstructable_cohorts = CohortNames \ full
      /\ HorizonCoverage(verdicts).status = IF Cardinality(full) = 3 THEN "COMPLETE"
                                            ELSE IF full = {} THEN "NONE" ELSE "PARTIAL"
  BY DEF HorizonCoverage
<1> QED BY <1>2, <1>3, <1>4, <1>5 DEF RestatementCohorts, NonReconstructableCohort

\* A restatement in the evidence was justified by its verdicts.
LEMMA RestatementJustifiedBy ==
  ASSUME IInv, Has("plan"), evidence.plan.recommendation = "PARTIAL_RESTATEMENT"
  PROVE  /\ RestatableVerdicts(RestatedVerdicts)
         /\ evidence.horizon = HorizonCoverage(RestatedVerdicts)
         /\ \E operands : evidence.plan
              = PartialRestatement(operands, evidence.comparisons, evidence.decision_changes)
<1> DEFINE operands == GateOperands(evidence.horizon, RestatedVerdicts,
                                    evidence.comparisons, evidence.controls)
<1>1. Has("horizon") /\ Has("reconstructability")
  BY DEF IInv, ProducedInv, UntilAssess, UntilCompare, UntilDecide, UntilRefuse,
     UntilControl, UntilPlan
<1>2. evidence.plan = PlanOf /\ evidence.horizon = HorizonCoverage(RestatedVerdicts)
  BY <1>1 DEF IInv, DerivedInv, HorizonOf, RestatedVerdicts
<1>3. /\ \A i \in 1..8 : operands[i].passed
      /\ evidence.plan
           = PartialRestatement(operands, evidence.comparisons, evidence.decision_changes)
  BY <1>2, PlanDecides DEF PlanOf
<1> HIDE DEF operands
<1>4. operands = GateOperands(evidence.horizon, RestatedVerdicts,
                              evidence.comparisons, evidence.controls)
  BY DEF operands
<1>5. /\ StatusesIn(RestatementCohorts, RestatedVerdicts) = FullStatuses(RestatementCohorts)
      /\ StatusOf(NonReconstructableCohort, RestatedVerdicts) = "NOT_RECONSTRUCTABLE"
  BY <1>3, <1>4, GateSays
<1>6. RestatableVerdicts(RestatedVerdicts)
  BY <1>5, StatusesAreFull DEF RestatableVerdicts, NonReconstructableCohort
<1> QED BY <1>2, <1>3, <1>6

-----------------------------------------------------------------------------
\* A place has the number of a cohort and of a channel.
LEMMA TwoChannelNames ==
  /\ DOMAIN Channels = 1..2 /\ Alpha # Beta
  /\ ChannelNames = {Alpha, Beta}
<1>1. DOMAIN Channels = 1..2
  BY ChannelsListed, TwoChannels
<1>2. Alpha # Beta
  BY <1>1, ChannelsListed DEF Alpha, Beta
<1>3. \A x : x \in 1..2 <=> x \in {1, 2}
  OBVIOUS
<1> QED BY <1>1, <1>2, <1>3 DEF ChannelNames, Alpha, Beta

\* The golden result of a version, cohort and channel is the value of its cell.
LEMMA GoldenResultAt ==
  ASSUME IInv, Has("results"), NEW d \in {1, 2}, NEW k \in 1..3, NEW l \in 1..2
  PROVE  LET key == <<IF d = 1 THEN "1.0.0" ELSE "2.0.0", Cohorts[k], Channels[l]>>
         IN  key \in GoldenKeys /\ GoldenResults[key] = Metric!Value(<<d, k, l>>)
<1> DEFINE key == <<IF d = 1 THEN "1.0.0" ELSE "2.0.0", Cohorts[k], Channels[l]>>
           cell == <<d, k, l>>
<1>1. cell \in Cells(input)
  BY LoadedInput, ThreeCohortNames, TwoChannelNames DEF Cells
<1>2. key \in GoldenKeys
  BY ThreeCohortNames, TwoChannelNames DEF GoldenKeys, CohortNames, ChannelNames
<1>3. GoldenCell(key) = cell
  <2>1. /\ cell[1] \in {1, 2}
        /\ <<DefinitionOf(input, cell).version, CohortOf(cell), ChannelOf(cell)>> = key
    BY LoadedInput DEF DefinitionOf, CohortOf, ChannelOf, First, Restated
  <2>2. ASSUME NEW other \in Cells(input), other[1] \in {1, 2},
               <<DefinitionOf(input, other).version, CohortOf(other), ChannelOf(other)>> = key
        PROVE  other = cell
    <3>1. /\ other = <<other[1], other[2], other[3]>>
          /\ other[2] \in 1..3 /\ other[3] \in 1..2
      BY ThreeCohortNames, TwoChannelNames DEF Cells
    <3>2. /\ input.definitions[other[1]].version = key[1]
          /\ Cohorts[other[2]] = Cohorts[k]
          /\ Channels[other[3]] = Channels[l]
      BY <2>2 DEF DefinitionOf, CohortOf, ChannelOf
    <3>3. other[1] = d
      BY <2>2, <3>2, LoadedInput DEF First, Restated
    <3>4. other[2] = k
      BY <3>1, <3>2 DEF Cohorts
    <3>5. other[3] = l
      BY <3>1, <3>2, TwoChannelNames, ChannelsListed
    <3> QED BY <3>1, <3>3, <3>4, <3>5
  <2> QED BY <1>1, <2>1, <2>2 DEF GoldenCell
<1>4. evidence.results[cell] = Metric!Value(cell)
  BY <1>1 DEF IInv, DerivedInv, AllValues
<1>5. GoldenResults[key] = evidence.results[GoldenCell(key)]
  BY <1>2 DEF GoldenResults
<1> QED BY <1>2, <1>3, <1>4, <1>5

\* Of items for a cohort there is a last one, and it is what LastFor gives.
IsLastFor(cohort, items, i) ==
  /\ items[i].cohort = cohort
  /\ \A j \in DOMAIN items : items[j].cohort = cohort => j <= i

\* The last of the items for a cohort is what LastFor gives.
LEMMA LastForIsLast ==
  ASSUME NEW items, DOMAIN items \subseteq Nat, NEW cohort,
         NEW i \in DOMAIN items, IsLastFor(cohort, items, i)
  PROVE  LastFor(cohort, items) = items[i]
<1>1. \A j \in DOMAIN items : IsLastFor(cohort, items, j) => j = i
  BY DEF IsLastFor
<1> QED BY <1>1 DEF LastFor, IsLastFor

\* Of the places of a cohort among finitely many there is a last one.
LEMMA LastExists ==
  ASSUME NEW n \in Nat, NEW S \in SUBSET (1..n), S # {}
  PROVE  \E i \in S : \A j \in S : j <= i
<1> DEFINE T == {n - i : i \in S}
<1>1. T \subseteq Nat /\ T # {}
  OBVIOUS
<1>2. \E m \in T : \A k \in T : m <= k
  <2> HIDE DEF T
  <2>1. PICK m \in T : \A k \in T : ~(<<k, m>> \in OpToRel(<, Nat))
    BY <1>1, NatLessThanWellFounded, WFMin
  <2>2. \A k \in T : ~(k < m)
    BY <1>1, <2>1 DEF OpToRel
  <2> QED BY <1>1, <2>2
<1>3. PICK i \in S : \A j \in S : n - i <= n - j
  BY <1>2
<1> QED BY <1>3

\* The last verdict on 2.0.0 in a cohort is the one its last declaration gives, as
\* long as no third definition has its version.
LEMMA LastRestatedVerdict ==
  ASSUME IInv, Has("reconstructability"), Metadata.version # "2.0.0",
         NEW k \in 1..3, Metric!Declared(input, <<2, k, 1>>)
  PROVE  /\ \E i \in DOMAIN RestatedVerdicts : RestatedVerdicts[i].cohort = Cohorts[k]
         /\ LastFor(Cohorts[k], RestatedVerdicts)
              = AssessReconstructability(Restated, LastFor(Cohorts[k], input.coverage))
<1> DEFINE n == Len(input.coverage)
           all == Reconstructability
           verdict(d, i) == AssessReconstructability(d, input.coverage[i])
           T == {verdict(d, i) : d \in MetricDefinition, i \in 1..n}
<1>1. input.coverage \in Seq(CoverageDeclaration) /\ n \in Nat
        /\ DOMAIN input.coverage = 1..n
  BY LoadedInput DEF Input
<1>2. \A d \in MetricDefinition : /\ VerdictsOn(d) \in Seq(T) /\ Len(VerdictsOn(d)) = n
                                  /\ \A i \in 1..n : VerdictsOn(d)[i] = verdict(d, i)
  BY <1>1 DEF VerdictsOn
<1>3. \A d, i : /\ verdict(d, i).cohort = input.coverage[i].cohort
                /\ verdict(d, i).version = d.version
  BY DEF AssessReconstructability
<1>4. First \in MetricDefinition /\ Restated \in MetricDefinition /\ Metadata \in MetricDefinition
        /\ First.version = "1.0.0" /\ Restated.version = "2.0.0"
  BY LoadedInput
<1> HIDE DEF T, verdict
<1>5. /\ DOMAIN all = 1..(n + n + n)
      /\ \A i \in 1..n : /\ all[i] = verdict(First, i)
                         /\ all[n + i] = verdict(Restated, i)
                         /\ all[n + n + i] = verdict(Metadata, i)
  <2> HIDE DEF n
  <2> DEFINE a == VerdictsOn(First)
             b == VerdictsOn(Restated)
             c == VerdictsOn(Metadata)
  <2>1. /\ a \in Seq(T) /\ b \in Seq(T) /\ c \in Seq(T)
        /\ Len(a) = n /\ Len(b) = n /\ Len(c) = n
        /\ \A i \in 1..n : /\ a[i] = verdict(First, i) /\ b[i] = verdict(Restated, i)
                           /\ c[i] = verdict(Metadata, i)
    BY <1>2, <1>4
  <2>2. all = a \o b \o c
    BY DEF Reconstructability
  <2> HIDE DEF a, b, c, all
  <2>3. n \in Nat
    BY <1>1
  <2>4. /\ DOMAIN (a \o b \o c) = 1..(n + n + n)
        /\ \A i \in 1..n : /\ (a \o b \o c)[i] = a[i]
                           /\ (a \o b \o c)[n + i] = b[i]
                           /\ (a \o b \o c)[n + n + i] = c[i]
    <3> DEFINE ab == a \o b
    <3>1. /\ ab \in Seq(T) /\ Len(ab) = n + n
          /\ \A i \in 1..n : ab[i] = a[i] /\ ab[n + i] = b[i]
      BY ONLY <2>1, <2>3
    <3> HIDE DEF ab
    <3>2. /\ ab \o c \in Seq(T) /\ Len(ab \o c) = Len(ab) + Len(c)
          /\ \A j \in 1..Len(ab) + Len(c) :
               (ab \o c)[j] = IF j <= Len(ab) THEN ab[j] ELSE c[j - Len(ab)]
      BY ONLY <2>1, <3>1, ConcatProperties
    <3>3. DOMAIN (ab \o c) = 1..(n + n + n)
      BY ONLY <2>1, <2>3, <3>1, <3>2
    <3>4. /\ \A j \in 1..(n + n) : (ab \o c)[j] = ab[j]
          /\ \A i \in 1..n : (ab \o c)[n + n + i] = c[i]
      <4> DEFINE abc == ab \o c
      <4>1. \A j \in 1..(n + n + n) :
              abc[j] = IF j <= n + n THEN ab[j] ELSE c[j - (n + n)]
        BY <2>1, <3>1, <3>2
      <4> HIDE DEF abc
      <4>2. \A i \in 1..n : n + n + i \in 1..(n + n + n) /\ ~(n + n + i <= n + n)
                            /\ (n + n + i) - (n + n) = i
        BY <2>3
      <4>3. \A j \in 1..(n + n) : j \in 1..(n + n + n) /\ j <= n + n
        BY <2>3
      <4> QED BY <4>1, <4>2, <4>3 DEF abc
    <3>5. \A i \in 1..n : i \in 1..(n + n) /\ n + i \in 1..(n + n)
      BY ONLY <2>3
    <3>6. /\ DOMAIN (ab \o c) = 1..(n + n + n)
          /\ \A i \in 1..n : /\ (ab \o c)[i] = a[i]
                             /\ (ab \o c)[n + i] = b[i]
                             /\ (ab \o c)[n + n + i] = c[i]
      BY ONLY <3>1, <3>3, <3>4, <3>5
    <3> QED BY <3>6 DEF ab
  <2> QED BY <2>1, <2>2, <2>4
<1> HIDE DEF all
<1>6. {j \in DOMAIN all : all[j].version = "2.0.0"} = {n + i : i \in 1..n}
  <2> HIDE DEF n
  <2>1. ASSUME NEW j \in 1..(n + n + n)
        PROVE  \/ j \in 1..n
               \/ \E i \in 1..n : j = n + i
               \/ \E i \in 1..n : j = n + n + i
    <3>1. CASE j <= n
      BY <1>1, <3>1
    <3>2. CASE j > n /\ j <= n + n
      <4>1. j - n \in 1..n /\ j = n + (j - n)
        BY <1>1, <3>2
      <4> QED BY <4>1
    <3>3. CASE j > n + n
      <4>1. j - (n + n) \in 1..n /\ j = n + n + (j - (n + n))
        BY <1>1, <3>3
      <4> QED BY <4>1
    <3> QED BY <1>1, <3>1, <3>2, <3>3
  <2>2. \A i \in 1..n : n + i \in 1..(n + n + n)
    BY <1>1
  <2> QED BY <1>3, <1>4, <1>5, <2>1, <2>2
<1>7. /\ DOMAIN RestatedVerdicts = {n + i : i \in 1..n}
      /\ \A i \in 1..n : RestatedVerdicts[n + i] = verdict(Restated, i)
  <2>1. RestatedVerdicts = [i \in {n + i : i \in 1..n} |-> all[i]]
    BY <1>6 DEF IInv, DerivedInv, RestatedVerdicts, OfVersion, all
  <2> QED BY <1>5, <2>1
<1>8. \E i \in 1..n : input.coverage[i].cohort = Cohorts[k]
  BY <1>1 DEF Metric!Declared, Metric!CohortOf, Metric!Cohorts, Cohorts
<1> DEFINE mine == {i \in 1..n : input.coverage[i].cohort = Cohorts[k]}
<1>9. PICK m \in mine : \A j \in mine : j <= m
  <2> HIDE DEF n
  <2> QED BY <1>1, <1>8, LastExists
<1>10. IsLastFor(Cohorts[k], input.coverage, m) /\ m \in 1..n
  BY <1>1, <1>9 DEF IsLastFor
<1>11. LastFor(Cohorts[k], input.coverage) = input.coverage[m]
  BY <1>1, <1>10, LastForIsLast
<1>12. IsLastFor(Cohorts[k], RestatedVerdicts, n + m) /\ n + m \in DOMAIN RestatedVerdicts
  <2> HIDE DEF n
  <2>1. \A i \in 1..n : RestatedVerdicts[n + i].cohort = input.coverage[i].cohort
    BY <1>3, <1>7
  <2>2. m \in 1..n /\ input.coverage[m].cohort = Cohorts[k]
    BY <1>9
  <2>3. ASSUME NEW j \in DOMAIN RestatedVerdicts, RestatedVerdicts[j].cohort = Cohorts[k]
        PROVE  j <= n + m
    <3>1. PICK i \in 1..n : j = n + i
      BY <1>7
    <3>2. i \in mine
      BY <2>1, <2>3, <3>1
    <3>3. i <= m
      BY <1>9, <3>2
    <3> QED BY <1>1, <2>2, <3>1, <3>3
  <2> QED BY <1>7, <2>1, <2>2, <2>3 DEF IsLastFor
<1>13. DOMAIN RestatedVerdicts \subseteq Nat
  <2> HIDE DEF n
  <2> QED BY <1>1, <1>7
<1>14. LastFor(Cohorts[k], RestatedVerdicts) = RestatedVerdicts[n + m]
  BY <1>12, <1>13, LastForIsLast
<1>15. RestatedVerdicts[n + m] = AssessReconstructability(Restated, input.coverage[m])
  BY <1>7, <1>10 DEF verdict
<1> QED BY <1>11, <1>12, <1>14, <1>15 DEF IsLastFor
\* The metric reads what the audit reads.
LEMMA MetricIsAudited ==
  \A c : /\ Metric!CohortOf(c) = CohortOf(c)
         /\ Metric!ChannelOf(c) = ChannelOf(c)
         /\ Metric!DefinitionOf(input, c) = DefinitionOf(input, c)
         /\ Metric!GapsOf(input, c) = GapsOf(input, c)
         /\ Metric!CohortRecords(input, c) = CohortRecords(input, c)
<1> TAKE c
<1>1. /\ Metric!CohortOf(c) = CohortOf(c)
      /\ Metric!ChannelOf(c) = ChannelOf(c)
      /\ Metric!DefinitionOf(input, c) = DefinitionOf(input, c)
  BY DEF Metric!CohortOf, CohortOf, Metric!Cohorts, Cohorts, Metric!ChannelOf, ChannelOf,
     Metric!DefinitionOf, DefinitionOf
<1>2. \A definition :
        /\ Metric!DependenciesOf(definition) = DependenciesOf(definition)
        /\ \A cohort : Metric!ExpectedPopulation(definition, cohort)
                         = ExpectedPopulation(definition, cohort)
  BY DEF Metric!DependenciesOf, DependenciesOf, Metric!DeriveDependencies,
     DeriveDependencies, Metric!ClauseDependencies, ClauseDependencies,
     Metric!BaseDependencies, BaseDependencies, Metric!FactPopulation, FactPopulation,
     Metric!RosterPopulation, RosterPopulation, Metric!ExpectedPopulation,
     ExpectedPopulation
<1>3. Metric!CohortRecords(input, c) = CohortRecords(input, c)
  BY <1>1, <1>2 DEF Metric!CohortRecords, CohortRecords
<1>4. Metric!DeclarationOf(input, c) = DeclarationOf(input, c)
  BY <1>1 DEF Metric!DeclarationOf, DeclarationOf, Metric!LastFor, LastFor
<1>5. Metric!GapsOf(input, c) = GapsOf(input, c)
  BY <1>1, <1>2, <1>4 DEF Metric!GapsOf, GapsOf, Metric!Gaps, Gaps,
     Metric!CoverageRecords, CoverageRecords
<1> QED BY <1>1, <1>3, <1>5

\* Where 2.0.0 has every dependency, and only there, its last verdict is full.
LEMMA RestatedStatus ==
  ASSUME IInv, Has("results"), Has("reconstructability"), Metadata.version # "2.0.0",
         NEW k \in 1..3, NEW l \in 1..2
  PROVE  StatusOf(Cohorts[k], RestatedVerdicts)
           = IF Metric!Computable(<<2, k, l>>) THEN "FULLY_RECONSTRUCTABLE"
             ELSE "NOT_RECONSTRUCTABLE"
<1>1. <<2, k, l>> \in Cells(input) /\ <<2, k, 1>> \in Cells(input)
  BY LoadedInput, ThreeCohortNames, TwoChannelNames DEF Cells
<1>2. EveryCellHasAValue
  BY DEF IInv, StageInv, ProducedInv
<1>3. Metric!Declared(input, <<2, k, 1>>)
  BY <1>1, <1>2 DEF EveryCellHasAValue, Metric!Valueless
<1>4. StatusOf(Cohorts[k], RestatedVerdicts)
        = AssessReconstructability(Restated, LastFor(Cohorts[k], input.coverage)).status
  BY <1>3, LastRestatedVerdict DEF StatusOf
<1>5. Metric!Computable(<<2, k, l>>) <=> Gaps(Restated, LastFor(Cohorts[k], input.coverage)) = {}
  BY MetricIsAudited DEF Metric!Computable, GapsOf, DeclarationOf, CohortOf, DefinitionOf,
     Restated
<1> QED BY <1>4, <1>5 DEF AssessReconstructability, FullyReconstructable

\* What passes the barrier names its results apart.
LEMMA PublishedVersions ==
  ASSUME IInv, ResultIdsUnique
  PROVE  Metadata.version \notin {"1.0.0", "2.0.0"}
<1>1. ASSUME NEW d \in {1, 2}, input.definitions[d].version = Metadata.version PROVE FALSE
  <2> DEFINE ids == [cell \in Cells(input) |-> ResultId(cell)]
  <2>1. <<d, 1, 1>> \in Cells(input) /\ <<3, 1, 1>> \in Cells(input)
    BY LoadedInput, ThreeCohortNames, TwoChannelNames DEF Cells
  <2>2. ids[<<d, 1, 1>>] = ids[<<3, 1, 1>>]
    BY <1>1, <2>1 DEF ResultId, DefinitionOf, CohortOf, ChannelOf, Metadata
  <2>3. <<d, 1, 1>> = <<3, 1, 1>>
    BY <2>1, <2>2 DEF ResultIdsUnique, IdsUnique, IsInjective
  <2> QED BY <2>3
<1> QED BY <1>1, LoadedInput DEF First, Restated

\* What control G1 passes has numbers under 2.0.0 in May and June, none in April,
\* and under 1.0.0 everywhere.
LEMMA PublishedNumbers ==
  ASSUME IInv, Has("results"), AggregatesMatch, NEW d \in {1, 2}, NEW k \in 1..3, NEW l \in 1..2
  PROVE  Metric!Computable(<<d, k, l>>) <=> d = 1 \/ k # 1
<1> DEFINE key == <<IF d = 1 THEN "1.0.0" ELSE "2.0.0", Cohorts[k], Channels[l]>>
<1>1. key \in GoldenKeys /\ GoldenResults[key] = Metric!Value(<<d, k, l>>)
  BY GoldenResultAt
<1>2. IsExact(Metric!Value(<<d, k, l>>)) <=> Metric!Computable(<<d, k, l>>)
  BY DEF IsExact, Metric!Value
<1>3. IsExact(GoldenResults[key]) <=> key \in DOMAIN Oracle
  BY <1>1 DEF AggregatesMatch
<1>4. key \in DOMAIN Oracle <=> ~(key[1] = "2.0.0" /\ key[2] = "2026-04")
  BY <1>1, OracleIsOfGoldenKeys DEF GoldenKeys, NonReconstructableCohort
<1>5. Cohorts[k] = "2026-04" <=> k = 1
  BY DEF Cohorts
<1> QED BY <1>1, <1>2, <1>3, <1>4, <1>5

\* Whatever is published restates.
LEMMA PublishedRestates ==
  ASSUME IInv, outcome = "published"
  PROVE  evidence.plan.recommendation = "PARTIAL_RESTATEMENT"
<1> DEFINE operands == GateOperands(evidence.horizon, RestatedVerdicts,
                                    evidence.comparisons, evidence.controls)
<1>1. /\ Has("plan") /\ Has("results") /\ Has("reconstructability") /\ Has("horizon")
      /\ Has("comparisons") /\ Has("controls")
      /\ AggregatesMatch /\ evidence.golden_analysis.attribution_valid
      /\ \A id \in ControlIds : evidence.controls[id] = "PASS"
  BY PublishedHasPassed
<1>2. Metadata.version \notin {"1.0.0", "2.0.0"}
  BY PublishedVersions DEF IInv, StageInv, BarrierInv, ComparisonsHold
<1>3. \A k \in 1..3 : StatusOf(Cohorts[k], RestatedVerdicts)
                        = IF k = 1 THEN "NOT_RECONSTRUCTABLE" ELSE "FULLY_RECONSTRUCTABLE"
  BY <1>1, <1>2, RestatedStatus, PublishedNumbers
<1>4. RestatableVerdicts(RestatedVerdicts)
  <2>1. Cohorts[1] = "2026-04" /\ Cohorts[2] = "2026-05" /\ Cohorts[3] = "2026-06"
    BY DEF Cohorts
  <2> QED BY <1>3, <2>1 DEF RestatableVerdicts
<1>5. evidence.horizon = HorizonCoverage(RestatedVerdicts)
  BY <1>1 DEF IInv, DerivedInv, HorizonOf, RestatedVerdicts
<1>6. evidence.horizon.status = "PARTIAL"
  BY <1>4, <1>5, RestatableHorizon
<1>7. Cardinality(CompleteIn(BridgeCohorts, RestatedVerdicts)) >= MinimumBridge
  <2>1. CompleteIn(BridgeCohorts, RestatedVerdicts) = {"2026-05"} \cup {"2026-06"}
    BY <1>4 DEF CompleteIn, BridgeCohorts, RestatableVerdicts
  <2>2. IsFiniteSet({"2026-05"}) /\ Cardinality({"2026-05"}) = 1
    BY FS_Singleton
  <2>3. Cardinality({"2026-05"} \cup {"2026-06"}) = 2
    BY <2>2, FS_AddElement
  <2> QED BY <2>1, <2>3 DEF MinimumBridge
<1>8. StitchRefuted(evidence.comparisons)
  <2>1. evidence.comparisons = TrendsOf
    BY <1>1 DEF IInv, DerivedInv
  <2>2. /\ 1 \in DOMAIN TrendsOf
        /\ TrendsOf[1].assessment_id = StitchId /\ TrendsOf[1].kind = "TREND_STITCH"
        /\ TrendsOf[1].valid = FALSE
        /\ TrendsOf[1].left.cohort = "2026-05" /\ TrendsOf[1].right.cohort = "2026-06"
        /\ TrendsOf[1].left.channel = Alpha /\ TrendsOf[1].right.channel = Alpha
        /\ TrendsOf[1].left.version = "1.0.0" /\ TrendsOf[1].right.version = "2.0.0"
    BY DEF TrendsOf, TrendComparisons, Comparison, Judgement, Endpoint, StitchId
  <2> QED BY <2>1, <2>2 DEF StitchRefuted, InvalidScopedComparison
<1>9. evidence.controls = [id \in ControlIds |-> "PASS"]
  <2>1. evidence.controls = ControlsOf
    BY <1>1 DEF IInv, DerivedInv
  <2>2. ControlsOf = [id \in ControlIds |-> ControlsOf[id]]
    BY DEF ControlsOf, ControlIds
  <2> QED BY <1>1, <2>1, <2>2
<1>10. \A i \in 1..8 : operands[i].passed
  <2>1. \A i : i \in 1..8 <=> i \in {1, 2, 3, 4, 5, 6, 7, 8}
    OBVIOUS
  <2>2. /\ StatusesIn(RestatementCohorts, RestatedVerdicts) = FullStatuses(RestatementCohorts)
        /\ StatusesIn(BridgeCohorts, RestatedVerdicts) = FullStatuses(BridgeCohorts)
        /\ StatusOf(NonReconstructableCohort, RestatedVerdicts) = "NOT_RECONSTRUCTABLE"
    BY <1>4, StatusesAreFull DEF RestatableVerdicts, NonReconstructableCohort
  <2> HIDE DEF operands
  <2>3. operands = GateOperands(evidence.horizon, RestatedVerdicts,
                                evidence.comparisons, evidence.controls)
    BY DEF operands
  <2>4. /\ operands[1].passed /\ operands[2].passed /\ operands[3].passed
        /\ operands[4].passed /\ operands[5].passed /\ operands[6].passed
        /\ operands[7].passed /\ operands[8].passed
    BY <1>6, <1>7, <1>8, <1>9, <2>2, <2>3, GateSays
  <2> QED BY <2>1, <2>4
<1>11. evidence.plan = PlanOf
  BY <1>1 DEF IInv, DerivedInv
<1> QED BY <1>1, <1>10, <1>11, PlanDecides DEF PlanOf

\* A plan that restates follows the coverage it was built from.
LEMMA CoverageFollowed == IInv => PlanFollowsCoverage
<1> SUFFICES ASSUME IInv PROVE PlanFollowsCoverage
  OBVIOUS
<1>1. ASSUME Has("plan"), evidence.plan.recommendation = "PARTIAL_RESTATEMENT"
      PROVE  /\ ScopeOf(evidence.plan, "RESTATE_COHORT_RANGE")
                  = evidence.horizon.fully_reconstructable_cohorts
             /\ ScopeOf(evidence.plan, "MARK_NON_COMPARABLE")
                  = evidence.horizon.non_reconstructable_cohorts
             /\ ScopeOf(evidence.plan, "REJECT_PENDING_EVIDENCE") = {}
             /\ ScopeOf(evidence.plan, "DUAL_REPORT_COHORT_RANGE") = BridgeCohorts
  BY <1>1, RestatementJustifiedBy, RestatementScopes, RestatableHorizon
<1>2. ASSUME outcome = "published"
      PROVE  /\ evidence.plan.recommendation = "PARTIAL_RESTATEMENT"
             /\ \A key \in GoldenKeys : key[2] \in BridgeCohorts => IsExact(GoldenResults[key])
  <2>1. evidence.plan.recommendation = "PARTIAL_RESTATEMENT"
    BY <1>2, PublishedRestates
  <2>2. AggregatesMatch
    BY <1>2, PublishedHasPassed
  <2>3. \A key \in GoldenKeys : key[2] \in BridgeCohorts => key \in DOMAIN Oracle
    BY OracleIsOfGoldenKeys DEF GoldenKeys, NonReconstructableCohort, BridgeCohorts
  <2> QED BY <2>1, <2>2, <2>3 DEF AggregatesMatch
<1>3. outcome = "published" => Has("plan")
  BY PublishedHasPassed
<1> QED BY <1>1, <1>2, <1>3 DEF PlanFollowsCoverage

\* A plan restates what the horizon declares restatable and gives up the rest, and
\* what is published carries such a plan with numbers for all it bridges
\* (build_migration_plan, horizon_coverage, _control_g1).
THEOREM PlanFollowsCoverageAlways == Spec => []PlanFollowsCoverage
BY AuditInvariance, CoverageFollowed, PTL

-----------------------------------------------------------------------------
\* A fraction with a positive denominator.
Fractions == Int \X (Nat \ {0})

\* Fractions have the same value after reduction.
LEMMA ReducedValue ==
  ASSUME NEW x \in Fractions
  PROVE  Reduced(x) \in Fractions /\ SameValue(Reduced(x), x)
<1> DEFINE a == x[1]
           b == x[2]
           S == {k \in 1..b : a % k = 0 /\ b % k = 0}
           g == Max(S)
<1>1. a \in Int /\ b \in Nat /\ b > 0
  BY DEF Fractions
<1>2. g \in 1..b /\ a % g = 0 /\ b % g = 0
  <2> HIDE DEF a, b
  <2>1. 1 \in S
    BY <1>1
  <2>2. S \in SUBSET (1..b) /\ S # {}
    BY <2>1
  <2>3. \E i \in S : \A j \in S : j <= i
    <3> HIDE DEF S
    <3> QED BY <1>1, <2>2, LastExists
  <2>4. \E i \in S : \A j \in S : i >= j
    BY <1>1, <2>3
  <2>5. g \in S
    BY <2>4 DEF Max
  <2> QED BY <2>5
<1> DEFINE p == a \div g
           q == b \div g
<1>3. Reduced(x) = <<p, q>>
  BY DEF Reduced
<1> HIDE DEF a, b, g
<1>4. p \in Int /\ q \in Int /\ a = g * p /\ b = g * q
  BY <1>1, <1>2
<1>5. q > 0
  BY <1>1, <1>2, <1>4
<1> HIDE DEF p, q
<1>6. p * b = a * q
  <2>1. p * (g * q) = (g * p) * q
    BY <1>2, <1>4
  <2> QED BY <1>4, <2>1
<1> QED BY <1>3, <1>4, <1>5, <1>6 DEF Fractions, SameValue, a, b

\* The order of fractions is the same for equal fractions.
LEMMA OrderOfValues ==
  ASSUME NEW x \in Fractions, NEW y \in Fractions, NEW u \in Fractions, NEW v \in Fractions,
         SameValue(x, u), SameValue(y, v), AtLeast(x, y)
  PROVE  AtLeast(u, v)
<1> DEFINE a == x[1]  b == x[2]  c == y[1]  d == y[2]
           e == u[1]  f == u[2]  h == v[1]  k == v[2]
<1>1. /\ a \in Int /\ c \in Int /\ e \in Int /\ h \in Int
      /\ b \in Nat /\ d \in Nat /\ f \in Nat /\ k \in Nat
      /\ b > 0 /\ d > 0 /\ f > 0 /\ k > 0
  BY DEF Fractions
<1>2. a * f = e * b /\ c * k = h * d /\ a * d >= c * b
  BY DEF SameValue, AtLeast
<1> SUFFICES e * k >= h * f
  BY DEF AtLeast
<1> HIDE DEF a, b, c, d, e, f, h, k
<1>3. (e * k) * (b * d) = (a * d) * (f * k)
  <2>1. (e * k) * (b * d) = (e * b) * (k * d)
    BY <1>1
  <2>2. (a * f) * (k * d) = (a * d) * (f * k)
    BY <1>1
  <2> QED BY <1>2, <2>1, <2>2
<1>4. (h * f) * (b * d) = (c * b) * (f * k)
  <2>1. (h * f) * (b * d) = (h * d) * (f * b)
    BY <1>1
  <2>2. (c * k) * (f * b) = (c * b) * (f * k)
    BY <1>1
  <2> QED BY <1>2, <2>1, <2>2
<1>5. (a * d) * (f * k) >= (c * b) * (f * k)
  <2>1. f * k \in Nat /\ a * d \in Int /\ c * b \in Int
    BY <1>1
  <2> QED BY <1>2, <2>1
<1>6. b * d > 0 /\ b * d \in Int /\ e * k \in Int /\ h * f \in Int
  BY <1>1
<1> QED
  <2>1. (e * k) * (b * d) >= (h * f) * (b * d)
    BY <1>3, <1>4, <1>5
  <2>2. ASSUME e * k < h * f PROVE FALSE
    <3> DEFINE m == e * k  n == h * f  w == b * d
    <3>1. m \in Int /\ n \in Int /\ w \in Int /\ w > 0 /\ m < n /\ m * w >= n * w
      BY <1>6, <2>1, <2>2
    <3> HIDE DEF m, n, w
    <3>2. (n - m) * w > 0
      BY <3>1
    <3> QED BY <3>1, <3>2
  <2> QED BY <1>6, <2>2

\* The order of fractions is transitive.
LEMMA OrderTransitive ==
  ASSUME NEW x \in Fractions, NEW y \in Fractions, NEW z \in Fractions,
         AtLeast(x, y), AtLeast(y, z)
  PROVE  AtLeast(x, z)
<1> DEFINE a == x[1]  b == x[2]  c == y[1]  d == y[2]  e == z[1]  f == z[2]
<1>1. /\ a \in Int /\ c \in Int /\ e \in Int
      /\ b \in Nat /\ d \in Nat /\ f \in Nat /\ b > 0 /\ d > 0 /\ f > 0
  BY DEF Fractions
<1>2. a * d >= c * b /\ c * f >= e * d
  BY DEF AtLeast
<1> SUFFICES a * f >= e * b
  BY DEF AtLeast
<1> HIDE DEF a, b, c, d, e, f
<1>3. (a * d) * f >= (c * b) * f /\ (c * f) * b >= (e * d) * b
  <2>1. a * d \in Int /\ c * b \in Int /\ c * f \in Int /\ e * d \in Int
    BY <1>1
  <2> QED BY <1>1, <1>2, <2>1
<1>4. (a * f) * d >= (e * b) * d
  <2>1. (a * d) * f = (a * f) * d /\ (c * b) * f = (c * f) * b /\ (e * d) * b = (e * b) * d
    BY <1>1
  <2> QED BY <1>3, <2>1, <1>1
<1> QED
  <2> DEFINE m == a * f  n == e * b
  <2>1. m \in Int /\ n \in Int /\ m * d >= n * d
    BY <1>1, <1>4
  <2> HIDE DEF m, n
  <2>2. ASSUME m < n PROVE FALSE
    <3>1. (n - m) * d > 0
      BY <1>1, <2>1, <2>2
    <3> QED BY <1>1, <2>1, <3>1
  <2>3. m >= n
    BY <2>1, <2>2
  <2> QED BY <2>3 DEF m, n

\* What is taken from the same is less the more is taken.
LEMMA DifferenceOrder ==
  ASSUME NEW x \in Fractions, NEW y \in Fractions, NEW z \in Fractions, AtLeast(x, y)
  PROVE  AtLeast(Minus(z, y), Minus(z, x))
<1> DEFINE a == x[1]  b == x[2]  c == y[1]  d == y[2]  e == z[1]  f == z[2]
           more == <<e * d - c * f, f * d>>
           less == <<e * b - a * f, f * b>>
<1>1. /\ a \in Int /\ c \in Int /\ e \in Int
      /\ b \in Nat /\ d \in Nat /\ f \in Nat /\ b > 0 /\ d > 0 /\ f > 0
  BY DEF Fractions
<1>2. a * d >= c * b
  BY DEF AtLeast
<1>3. Minus(z, y) = Reduced(more) /\ Minus(z, x) = Reduced(less)
  BY DEF Minus
<1> HIDE DEF a, b, c, d, e, f
<1>4. more \in Fractions /\ less \in Fractions
  BY <1>1 DEF Fractions
<1>5. AtLeast(more, less)
  <2>1. (a * d) * (f * f) >= (c * b) * (f * f)
    <3>1. a * d \in Int /\ c * b \in Int /\ f * f \in Int /\ f * f > 0
      BY <1>1
    <3> QED BY <1>2, <3>1
  <2>2. (e * d - c * f) * (f * b) = (e * d) * (f * b) - (c * b) * (f * f)
    BY <1>1
  <2>3. (e * b - a * f) * (f * d) = (e * d) * (f * b) - (a * d) * (f * f)
    BY <1>1
  <2>4. (e * d - c * f) * (f * b) >= (e * b - a * f) * (f * d)
    <3>1. /\ (e * d) * (f * b) \in Int /\ (c * b) * (f * f) \in Int
          /\ (a * d) * (f * f) \in Int
      BY <1>1
    <3> QED BY <2>1, <2>2, <2>3, <3>1
  <2> QED BY <2>4 DEF AtLeast
<1> HIDE DEF more, less
<1>6. /\ Reduced(more) \in Fractions /\ Reduced(less) \in Fractions
      /\ SameValue(more, Reduced(more)) /\ SameValue(less, Reduced(less))
  BY <1>4, ReducedValue DEF SameValue
<1> QED BY <1>3, <1>4, <1>5, <1>6, OrderOfValues

\* The rate of a result is a fraction, and of two results with one numerator the
\* one with the larger denominator has no larger rate.
LEMMA RatesFall ==
  ASSUME NEW r, NEW s, IsFiniteSet(s.numerator), IsFiniteSet(s.denominator),
         r.numerator = s.numerator, r.denominator \subseteq s.denominator, r.denominator # {}
  PROVE  RateOf(r) \in Fractions /\ RateOf(s) \in Fractions /\ AtLeast(RateOf(r), RateOf(s))
<1> DEFINE n == Cardinality(s.numerator)
           p == Cardinality(r.denominator)
           q == Cardinality(s.denominator)
<1>1. n \in Nat /\ p \in Nat /\ q \in Nat /\ p <= q
  BY FS_CardinalityType, FS_Subset
<1>2. p > 0
  BY <1>1, FS_EmptySet, FS_Subset
<1>3. RateOf(r) = Reduced(<<n, p>>) /\ RateOf(s) = Reduced(<<n, q>>)
  BY DEF RateOf
<1> HIDE DEF n, p, q
<1>4. <<n, p>> \in Fractions /\ <<n, q>> \in Fractions
  BY <1>1, <1>2 DEF Fractions
<1>5. AtLeast(<<n, p>>, <<n, q>>)
  <2>1. n * q >= n * p
    BY <1>1
  <2> QED BY <2>1 DEF AtLeast
<1>6. /\ RateOf(r) \in Fractions /\ SameValue(<<n, p>>, RateOf(r))
      /\ RateOf(s) \in Fractions /\ SameValue(<<n, q>>, RateOf(s))
  BY <1>3, <1>4, ReducedValue DEF SameValue
<1> QED BY <1>4, <1>5, <1>6, OrderOfValues

-----------------------------------------------------------------------------
\* The metric applies the clauses the calculation applies.
LEMMA MetricApplies ==
  \A d : /\ Metric!NumeratorClauses(d) = NumeratorClauses(d)
         /\ Metric!DenominatorClauses(d) = DenominatorClauses(d)
BY DEF Metric!NumeratorClauses, NumeratorClauses, Metric!DenominatorClauses,
       DenominatorClauses, Metric!BaseClauses, BaseClauses

\* Which clauses are applied in a denominator.
LEMMA AppliedClauses ==
  ASSUME IInv, NEW d \in {First, Restated}
  PROVE  /\ BaseClauses \subseteq DenominatorClauses(d)
         /\ DenominatorClauses(d)
              \subseteq BaseClauses \cup {"qualifying_activity_within_days",
                                         "all_eligible_matured_signups"}
         /\ \A kind \in {"qualifying_activity_within_days", "all_eligible_matured_signups"} :
              kind \in DenominatorClauses(d) <=> kind \in d.denominator
<1>1. ClauseKinds = BaseClauses \cup {"qualifying_activity_within_days",
                      "all_eligible_matured_signups", "core_action_within_days"}
  BY DEF ClauseKinds, ClauseDependencies, BaseClauses
<1>2. d.denominator \subseteq ClauseKinds
  BY LoadedInput DEF MetricDefinition
<1> QED BY <1>1, <1>2 DEF DenominatorClauses, BaseClauses

\* In May both definitions read the roster.
LEMMA MayReadsRoster ==
  Metric!CohortRecords(input, <<1, 2, 1>>) = Metric!CohortRecords(input, <<2, 2, 1>>)
<1>1. CohortOf(<<1, 2, 1>>) = "2026-05" /\ CohortOf(<<2, 2, 1>>) = "2026-05"
  BY DEF CohortOf, Cohorts
<1>2. ChannelOf(<<1, 2, 1>>) = ChannelOf(<<2, 2, 1>>)
  BY DEF ChannelOf
<1>3. \A d : ExpectedPopulation(d, "2026-05") = "AUTHORITATIVE_SIGNUP_ROSTER"
  BY DEF ExpectedPopulation
<1> QED BY <1>1, <1>2, <1>3, MetricIsAudited DEF CohortRecords

\* Where 2.0.0 has no activity clause, it counts in May whom 1.0.0 counts.
LEMMA RestatedCountsMore ==
  ASSUME IInv, "qualifying_activity_within_days" \notin Restated.denominator
  PROVE  Metric!Denominator(<<1, 2, 1>>) \subseteq Metric!Denominator(<<2, 2, 1>>)
<1> DEFINE c == <<1, 2, 1>>
           d == <<2, 2, 1>>
<1>1. /\ Metric!DefinitionOf(input, c) = First
      /\ Metric!DefinitionOf(input, d) = Restated
      /\ Metric!CohortOf(c) = Metric!CohortOf(d)
  BY DEF Metric!DefinitionOf, Metric!CohortOf, First, Restated
<1>2. Metric!CohortRecords(input, c) = Metric!CohortRecords(input, d)
  BY MayReadsRoster
<1> HIDE DEF c, d
<1>3. /\ BaseClauses \subseteq DenominatorClauses(First)
      /\ DenominatorClauses(Restated) \subseteq BaseClauses \cup {"all_eligible_matured_signups"}
  BY AppliedClauses
<1>4. \A a : Metric!FailedClauses(DenominatorClauses(First), a, c) = {}
               => Metric!FailedClauses(DenominatorClauses(Restated), a, d) = {}
  <2>1. ASSUME NEW a, Metric!FailedClauses(DenominatorClauses(First), a, c) = {},
               NEW kind \in DenominatorClauses(Restated)
        PROVE  Metric!Satisfies(kind, input.records[a], Metric!CohortOf(d))
    <3>1. CASE kind = "all_eligible_matured_signups"
      BY <3>1 DEF Metric!Satisfies
    <3>2. CASE kind \in BaseClauses
      BY <1>1, <1>3, <2>1, <3>2 DEF Metric!FailedClauses
    <3> QED BY <1>3, <3>1, <3>2
  <2> QED BY <2>1 DEF Metric!FailedClauses
<1>5. Metric!Denominator(c) \subseteq Metric!Denominator(d)
  BY <1>1, <1>2, <1>4, MetricApplies DEF Metric!Denominator, Metric!Members
<1> QED BY <1>5 DEF c, d

\* The same clauses of the numerator convert the same accounts in May.
LEMMA NumeratorsAgree ==
  ASSUME First.numerator = Restated.numerator
  PROVE  Metric!Numerator(<<1, 2, 1>>) = Metric!Numerator(<<2, 2, 1>>)
<1>1. /\ Metric!DefinitionOf(input, <<1, 2, 1>>) = First
      /\ Metric!DefinitionOf(input, <<2, 2, 1>>) = Restated
      /\ Metric!CohortOf(<<1, 2, 1>>) = Metric!CohortOf(<<2, 2, 1>>)
  BY DEF Metric!DefinitionOf, Metric!CohortOf, First, Restated
<1>2. \A kinds, a : Metric!FailedClauses(kinds, a, <<1, 2, 1>>)
                      = Metric!FailedClauses(kinds, a, <<2, 2, 1>>)
  BY <1>1 DEF Metric!FailedClauses
<1> QED BY <1>1, <1>2, MayReadsRoster DEF Metric!Numerator, Metric!Members,
                                          Metric!NumeratorClauses

\* What an exact result of a cell holds.
LEMMA ExactValue ==
  ASSUME IInv, Has("results"), NEW c \in Cells(input), IsExact(Metric!Value(c))
  PROVE  LET value == Metric!Value(c)
         IN  /\ value.denominator = Metric!Denominator(c)
             /\ value.numerator = Metric!Numerator(c)
             /\ IsFiniteSet(value.denominator) /\ IsFiniteSet(value.numerator)
             /\ value.denominator # {}
<1>1. Metric!Computable(c)
  BY DEF IsExact, Metric!Value
<1>2. /\ Metric!Value(c).denominator = Metric!Denominator(c)
      /\ Metric!Value(c).numerator = Metric!Numerator(c)
  BY <1>1 DEF Metric!Value
<1>3. ~Metric!Valueless(c)
  BY DEF IInv, StageInv, ProducedInv, EveryCellHasAValue
<1>4. Metric!Denominator(c) # {} /\ Metric!Numerator(c) \subseteq Metric!Denominator(c)
  BY <1>1, <1>3 DEF Metric!Valueless
<1>5. Metric!Denominator(c) \subseteq Accounts
  BY DEF Metric!Denominator, Metric!Members, Metric!CohortRecords
<1>6. IsFiniteSet(Metric!Denominator(c)) /\ IsFiniteSet(Metric!Numerator(c))
  BY <1>4, <1>5, AccountsAreOrdered, FS_Subset
<1> QED BY <1>2, <1>4, <1>6

\* Counting every matured signup lowers rates, so no decision improves.
LEMMA RestatementLowers == IInv => RestatementLowersOnly
<1> SUFFICES ASSUME IInv, Has("decision_changes"), evidence.golden_analysis.attribution_valid,
                    "qualifying_activity_within_days" \notin Restated.denominator
             PROVE  /\ ~(/\ evidence.decision_changes[1].before_state = <<"FAIL">>
                         /\ evidence.decision_changes[1].after_state = <<"PASS">>)
                    /\ AtLeast(evidence.comparisons[2].exact_delta,
                               evidence.comparisons[1].exact_delta)
  BY DEF RestatementLowersOnly
<1>1. Has("golden_analysis") /\ Has("results") /\ Has("comparisons")
  BY DEF IInv, ProducedInv, UntilCalculate, UntilAssess, UntilCompare, UntilDecide
<1> DEFINE c == <<1, 2, 1>>
           d == <<2, 2, 1>>
           e == <<2, 3, 1>>
           before == Metric!Value(c)
           after == Metric!Value(d)
           june == Metric!Value(e)
<1>2. /\ GoldenResults[<<"1.0.0", "2026-05", Alpha>>] = before
      /\ GoldenResults[<<"2.0.0", "2026-05", Alpha>>] = after
      /\ GoldenResults[<<"2.0.0", "2026-06", Alpha>>] = june
  <2>1. Cohorts[2] = "2026-05" /\ Cohorts[3] = "2026-06"
    BY DEF Cohorts
  <2> QED BY <1>1, <2>1, GoldenResultAt DEF Alpha
<1>3. c \in Cells(input) /\ d \in Cells(input) /\ e \in Cells(input)
  BY LoadedInput, ThreeCohortNames, TwoChannelNames DEF Cells
<1>4. IsExact(before) /\ IsExact(after) /\ IsExact(june)
  BY <1>1, <1>2 DEF IInv, DerivedInv, ExactAt, ComparisonEndpoints
<1> HIDE DEF before, after, june
<1>5. /\ before.denominator = Metric!Denominator(c) /\ before.numerator = Metric!Numerator(c)
      /\ after.denominator = Metric!Denominator(d) /\ after.numerator = Metric!Numerator(d)
      /\ IsFiniteSet(after.denominator) /\ IsFiniteSet(after.numerator)
      /\ IsFiniteSet(june.denominator) /\ IsFiniteSet(june.numerator)
      /\ before.denominator # {} /\ june.denominator # {}
  BY <1>1, <1>3, <1>4, ExactValue DEF before, after, june
<1>6. before.numerator = after.numerator
  BY <1>1, <1>5, AttributedToDenominator, NumeratorsAgree
<1>7. before.denominator \subseteq after.denominator
  BY <1>5, RestatedCountsMore
<1>8. /\ RateOf(before) \in Fractions /\ RateOf(after) \in Fractions
      /\ RateOf(june) \in Fractions
      /\ AtLeast(RateOf(before), RateOf(after))
  BY <1>5, <1>6, <1>7, RatesFall
<1>9. Threshold \in Fractions
  BY ThresholdIsFraction DEF Fractions
<1>10. /\ evidence.decision_changes[1].before_state = <<ThresholdState(RateOf(before))>>
       /\ evidence.decision_changes[1].after_state = <<ThresholdState(RateOf(after))>>
  <2>1. evidence.decision_changes = ChangesOf
    BY DEF IInv, DerivedInv
  <2> QED BY <1>2, <2>1 DEF ChangesOf, DecisionChanges, DecisionChange
<1>11. /\ evidence.comparisons[1].exact_delta = Minus(RateOf(june), RateOf(before))
       /\ evidence.comparisons[2].exact_delta = Minus(RateOf(june), RateOf(after))
  <2>1. evidence.comparisons = TrendsOf
    BY <1>1 DEF IInv, DerivedInv
  <2> QED BY <1>2, <2>1 DEF TrendsOf, TrendComparisons, Comparison, Endpoint
<1>12. ~(ThresholdState(RateOf(before)) = "FAIL" /\ ThresholdState(RateOf(after)) = "PASS")
  BY <1>8, <1>9, OrderTransitive DEF ThresholdState
<1>13. AtLeast(Minus(RateOf(june), RateOf(after)), Minus(RateOf(june), RateOf(before)))
  BY <1>8, DifferenceOrder
<1> QED BY <1>10, <1>11, <1>12, <1>13

\* Where only an activity clause of the denominator went, no threshold decision
\* turns from FAIL to PASS and the restated trend is no worse than the stitch
\* (build_comparisons, build_decision_changes, calculate_results).
THEOREM RestatementLowersAlways == Spec => []RestatementLowersOnly
BY AuditInvariance, RestatementLowers, PTL
=============================================================================
