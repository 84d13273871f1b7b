--------------------------- MODULE KpiDefinitions ---------------------------
(***************************************************************************)
(* The registered predicate clauses, the source dependencies each of them  *)
(* declares, and the three versions of the metric definition the audit     *)
(* compares.  Of a predicate the calculation reads the set of the kinds of *)
(* its clauses and nothing else (_clause_kinds); how it is written besides *)
(* tells definitions apart and decides whether it can be displayed.        *)
(***************************************************************************)

BaseDependencies == {"control.cutoff_timezone", "field.account_id"}

FactPopulation   == "population.activity_qualified_account_fact"
RosterPopulation == "population.authoritative_signup_roster"

\* What a clause needs from the sources.
ClauseDependencies ==
  [ eligibility_at_signup           |-> {"field.eligible_at_signup"},
    exclude_account_classes         |-> {"field.account_class"},
    signup_cohort                   |-> {"field.signup_at", "field.channel"},
    elapsed_day_maturity            |-> {"field.signup_at"},
    qualifying_activity_within_days |->
        {FactPopulation, "field.activity_at", "field.activity_received_at"},
    core_action_within_days         |->
        {"field.core_action_at", "field.core_action_received_at"},
    all_eligible_matured_signups    |-> {RosterPopulation} ]

ClauseKinds == DOMAIN ClauseDependencies

\* The dependency projection: a function of the clauses and of nothing else.
DeriveDependencies(numerator, denominator) ==
  BaseDependencies
    \cup UNION {ClauseDependencies[kind] : kind \in numerator \cup denominator}

AllDependencies == DeriveDependencies(ClauseKinds, ClauseKinds)

\* A conjunction, or one clause on its own; detail stands for the class values and
\* the repetitions of its clauses.
PredicateForm == [compound : BOOLEAN, detail : STRING]

Conjunction == [compound |-> TRUE, detail |-> "as registered"]
OneClause   == [compound |-> FALSE, detail |-> "as registered"]

\* Only a conjunction has several clauses, and it has at least one.
MetricDefinition ==
  { d \in [ version     : STRING,
            numerator   : SUBSET ClauseKinds,
            denominator : SUBSET ClauseKinds,
            form        : [{"numerator", "denominator"} -> PredicateForm] ] :
      \A part \in {"numerator", "denominator"} :
        \E kind \in d[part] : d.form[part].compound \/ d[part] = {kind} }

DependenciesOf(definition) ==
  DeriveDependencies(definition.numerator, definition.denominator)

\* The clauses every predicate of the three versions carries, and that the
\* calculation applies to every account whatever a definition lists.
BaseClauses ==
  { "eligibility_at_signup", "exclude_account_classes",
    "signup_cohort", "elapsed_day_maturity" }

RegisteredNumerator == BaseClauses \cup {"core_action_within_days"}

Conjunctions == [part \in {"numerator", "denominator"} |-> Conjunction]

V1 == [ version     |-> "1.0.0",
        numerator   |-> RegisteredNumerator,
        denominator |-> BaseClauses \cup {"qualifying_activity_within_days"},
        form        |-> Conjunctions ]

V2 == [ version     |-> "2.0.0",
        numerator   |-> RegisteredNumerator,
        denominator |-> BaseClauses \cup {"all_eligible_matured_signups"},
        form        |-> Conjunctions ]

\* The G2 control: other metadata and another order of the same clauses.
V101 == [V1 EXCEPT !.version = "1.0.1"]
=============================================================================
