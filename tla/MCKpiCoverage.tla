--------------------------- MODULE MCKpiCoverage ----------------------------
(***************************************************************************)
(* All eighteen cells over a fixed set of accounts, under every coverage   *)
(* of the three cohorts by four kinds of declaration, with one cohort      *)
(* declared twice or not at all, also of definitions that do not list what *)
(* the calculation applies or list what it does not look for; and a few    *)
(* inputs whose data or definitions have no value.                         *)
(***************************************************************************)
EXTENDS KpiProperties, MCFixtures

Versions == <<V1, V2, V101>>

\* A 1.0.1 whose denominator lost its population clause.
Unpopulated == <<V1, V2, [V101 EXCEPT !.denominator = BaseClauses]>>

\* Denominators without base clauses, one of them not a conjunction, an activity
\* clause in a numerator and a core action in a denominator.
Unlisted ==
  << [V1 EXCEPT !.denominator = {"qualifying_activity_within_days"},
                !.form.denominator = OneClause],
     [V2 EXCEPT !.numerator = {"qualifying_activity_within_days"}],
     [V101 EXCEPT !.denominator = {"qualifying_activity_within_days",
                                   "core_action_within_days"}] >>

\* June Beta without an eligible account, or converted without activity.
Ineligible  == [Records EXCEPT ![8].eligible_at_signup = FALSE]
Unqualified == [Records EXCEPT ![8].activity = {}]

MCInputs ==
  { InputOf(Records, coverage, Versions) :
      coverage \in Each \cup DeclaredTwice \cup DeclaredOut }
  \cup { InputOf(Records, coverage, Unlisted) : coverage \in Each }
  \cup { InputOf(Records, AllComplete, Unpopulated),
         InputOf(Ineligible, AllComplete, Versions),
         InputOf(Unqualified, AllComplete, Versions) }
=============================================================================
