----------------------------- MODULE MCFixtures -----------------------------
(***************************************************************************)
(* The accounts and the coverage declarations that instances of several    *)
(* modules share.                                                          *)
(***************************************************************************)
EXTENDS SourceCoverage

MCAccounts   == 1..9
MCChannels   == <<"Alpha", "Beta">>
MCWindowDays == 2
MCCutoff     == 4

Declaration(cohort, partial, unavailable, undeclared) ==
  [ cohort |-> cohort,
    complete |-> AllDependencies \ (partial \cup unavailable \cup undeclared),
    partial |-> partial, unavailable |-> unavailable, unknown |-> {} ]

Complete(cohort) == Declaration(cohort, {}, {}, {})

\* Everything; no roster; a roster nobody declared; an activity column with holes.
Declarations(cohort) ==
  { Complete(cohort), Declaration(cohort, {}, {RosterPopulation}, {}),
    Declaration(cohort, {}, {}, {RosterPopulation}),
    Declaration(cohort, {"field.activity_at"}, {}, {}) }

Each ==
  { <<april, may, june>> :
      april \in Declarations("2026-04"), may \in Declarations("2026-05"),
      june \in Declarations("2026-06") }

DeclaredTwice ==
  { Append(once, again) :
      once \in Each, again \in UNION {Declarations(c) : c \in CohortNames} }

DeclaredOut == {SubSeq(once, 1, 2) : once \in Each}

AllComplete == [i \in DOMAIN Cohorts |-> Complete(Cohorts[i])]

Event1 == {[at |-> 2, received_at |-> 3]}

Account(cohort, channel, population) ==
  [ cohort |-> cohort, channel |-> channel, population |-> population,
    signup_at |-> 1, signup_month |-> cohort, eligible_at_signup |-> TRUE,
    account_class |-> "CUSTOMER", activity |-> Event1, core_action |-> Event1 ]

Roster == "AUTHORITATIVE_SIGNUP_ROSTER"
Fact   == "ACTIVITY_QUALIFIED_ACCOUNT_FACT"

\* One converted account in each cell and population that is read, and one
\* without activity where both definitions read the roster.
Records ==
  << Account("2026-04", "Alpha", Fact), Account("2026-04", "Alpha", Roster),
     Account("2026-04", "Beta", Fact),  Account("2026-04", "Beta", Roster),
     Account("2026-05", "Alpha", Roster), Account("2026-05", "Beta", Roster),
     Account("2026-06", "Alpha", Roster), Account("2026-06", "Beta", Roster),
     [Account("2026-05", "Alpha", Roster) EXCEPT !.activity = {},
                                                 !.core_action = {}] >>

AllAssumptions ==
  {"A_THRESHOLD_SYNTHETIC_080", "A_MIN_BRIDGE_COHORTS_2", "A_TREND_SAME_SEMANTICS"}
AllPolicyRules ==
  { "MP-R01_RESTATE_FULL", "MP-R02_BRIDGE_MIN_TWO", "MP-R03_START_EFFECTIVE",
    "MP-R04_NO_SPLICE", "MP-R05_REJECT_CONTEXT_OR_EVIDENCE_GAP" }

InputOf(records, coverage, definitions) ==
  [ records |-> records, coverage |-> coverage, definitions |-> definitions,
    assumptions |-> AllAssumptions, policy_rules |-> AllPolicyRules,
    g4_cell |-> [cohort |-> "2026-05", channel |-> "Beta"] ]
=============================================================================
