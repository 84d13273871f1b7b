-------------------------- MODULE AuditProperties ---------------------------
(***************************************************************************)
(* What an execution must get right across its stages.                     *)
(***************************************************************************)
EXTENDS Audit

Has(name) == name \in DOMAIN evidence

\* The scope of the actions of a plan of some type.
ScopeOf(plan, action_type) ==
  UNION { plan.actions[i].scope :
            i \in {j \in DOMAIN plan.actions :
                     plan.actions[j].action_type = action_type} }

\* A plan restates the cohorts the horizon declares restatable, marks the others
\* as not comparable, and whatever is published carries such a plan, with a number
\* under both versions in every cohort it bridges (build_migration_plan takes its
\* cohorts from the policy and its gates from verdicts, not from the results).
PlanFollowsCoverage ==
  /\ Has("plan") /\ evidence.plan.recommendation = "PARTIAL_RESTATEMENT" =>
       /\ ScopeOf(evidence.plan, "RESTATE_COHORT_RANGE")
            = evidence.horizon.fully_reconstructable_cohorts
       /\ ScopeOf(evidence.plan, "MARK_NON_COMPARABLE")
            = evidence.horizon.non_reconstructable_cohorts
       /\ ScopeOf(evidence.plan, "REJECT_PENDING_EVIDENCE") = {}
  /\ outcome = "published" =>
       /\ evidence.plan.recommendation = "PARTIAL_RESTATEMENT"
       /\ \A key \in GoldenKeys :
            key[2] \in ScopeOf(evidence.plan, "DUAL_REPORT_COHORT_RANGE")
              => IsExact(GoldenResults[key])

\* Counting every matured signup can only lower a rate: where the difference of
\* the arms is attributed to a denominator without activity, no decision goes from
\* FAIL to PASS, and the restated trend looks no worse than the stitch it replaces
\* (build_comparisons and build_decision_changes pair the right endpoints).
RestatementLowersOnly ==
  (/\ Has("decision_changes")
   /\ evidence.golden_analysis.attribution_valid
   /\ "qualifying_activity_within_days" \notin Restated.denominator)
  =>
  (/\ LET threshold == evidence.decision_changes[1]
      IN  ~(threshold.before_state = <<"FAIL">> /\ threshold.after_state = <<"PASS">>)
   /\ AtLeast(evidence.comparisons[2].exact_delta,
              evidence.comparisons[1].exact_delta))

\* What is published isolates one intervention: from 1.0.0 to 2.0.0 the
\* denominator changed and the numerator did not, and the result set of 1.0.1 is
\* the one of 1.0.0 (attribution and controls are judged in other stages than the
\* one that refuses).
PublishedIsolatesDenominator ==
  outcome = "published" =>
    /\ Written(First, "numerator") = Written(Restated, "numerator")
    /\ Written(First, "denominator") # Written(Restated, "denominator")
    /\ \A place \in Places : ResultSet(1)[place] = ResultSet(3)[place]

\* Control G2 tells metadata from meaning: it passes exactly when 1.0.1 is another
\* artifact with the predicates of 1.0.0, clauses, class values, repetitions and
\* form, whatever the coverage left of the results.
MetadataControlIsSemantic ==
  Has("controls") =>
    ( evidence.controls.G2 = "PASS"
        <=> /\ First # Metadata
            /\ Written(First, "numerator") = Written(Metadata, "numerator")
            /\ Written(First, "denominator") = Written(Metadata, "denominator") )

\* Every version has one verdict in a cohort, in all its records.
Contradictory(version, cohort) ==
  \E i, j \in DOMAIN evidence.reconstructability :
    LET one == evidence.reconstructability[i]
        two == evidence.reconstructability[j]
    IN  /\ one.version = version /\ two.version = version
        /\ one.cohort = cohort /\ two.cohort = cohort
        /\ one.status # two.status

\* The files declare the assumptions and the policy rules that the code cites by
\* name, those of a restatement where the plan is one.  Nothing asks for them when
\* the files are loaded.
CitedAreDeclared ==
  LET restates == evidence.plan.recommendation = "PARTIAL_RESTATEMENT"
  IN  /\ {"A_TREND_SAME_SEMANTICS", "A_THRESHOLD_SYNTHETIC_080"}
            \subseteq input.assumptions
      /\ RejectionRule \in input.policy_rules
      /\ restates => /\ "A_MIN_BRIDGE_COHORTS_2" \in input.assumptions
                     /\ Range(PositiveRules) \subseteq input.policy_rules

\* The barrier turns nothing away that the stages produce from complete and
\* unambiguous inputs.  It refuses references exactly over an assumption or a rule
\* that is cited and nowhere declared; after them it raises only over results of
\* one identity, a comparison whose attribution is invalid or contradictory
\* verdicts on April, and the first two never pass it (validate_reference_graph,
\* _unique_index, _resolve_operand and _validate_plan agree with the builders).
BarrierAgreesWithStages ==
  /\ outcome = "raised" /\ stage = "references" => ~CitedAreDeclared
  /\ outcome = "raised" /\ stage \in BarrierStages \ {"references"} =>
       \/ ~ResultIdsUnique
       \/ ~evidence.golden_analysis.attribution_valid
       \/ Contradictory("2.0.0", NonReconstructableCohort)
  /\ stage \in {"comparisons", "changes", "plans", "release"} => CitedAreDeclared
  /\ stage = "release" =>
       ResultIdsUnique /\ evidence.golden_analysis.attribution_valid

\* Evidence that is published is not internally contradictory: no cohort has two
\* verdicts for one version (validate_evidence_consistency says it rejects
\* internally contradictory evidence before serialization).
NoContradictoryVerdicts ==
  outcome = "published" =>
    \A version \in {"1.0.0", "2.0.0", "1.0.1"}, cohort \in CohortNames :
      ~Contradictory(version, cohort)
=============================================================================
