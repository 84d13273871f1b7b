---------------------------- MODULE MCKpiRecords ----------------------------
(***************************************************************************)
(* Two accounts with every combination of base fields and facts around the *)
(* bounds, in one cell of one cohort; the other cohorts are declared       *)
(* unavailable so that only that cell is computed.                         *)
(***************************************************************************)
EXTENDS KpiProperties

MCAccounts   == {1, 2}
MCChannels   == <<"Alpha">>
MCWindowDays == 2
MCCutoff     == 4

Available(cohort) ==
  [ cohort |-> cohort, complete |-> AllDependencies, partial |-> {},
    unavailable |-> {}, unknown |-> {} ]
Lost(cohort) ==
  [ cohort |-> cohort, complete |-> {}, partial |-> {},
    unavailable |-> AllDependencies, unknown |-> {} ]

Coverage(cohort) ==
  [ i \in DOMAIN Cohorts |->
      IF Cohorts[i] = cohort THEN Available(cohort) ELSE Lost(Cohorts[i]) ]

\* A fact before the window, at each of its ends, past it, or received late.
Events(signup_at) ==
  { {}, {[at |-> signup_at - 1, received_at |-> signup_at]},
    {[at |-> signup_at, received_at |-> MCCutoff]},
    {[at |-> signup_at + MCWindowDays, received_at |-> MCCutoff]},
    {[at |-> signup_at + MCWindowDays + 1, received_at |-> MCCutoff]},
    {[at |-> signup_at, received_at |-> MCCutoff + 1]} }

\* A sound account, one mature exactly at the cutoff, and one for each way to
\* fail a base clause, two at once included.
Profiles(cohort) ==
  LET sound == [ cohort |-> cohort, channel |-> "Alpha", signup_at |-> 1,
                 signup_month |-> cohort, eligible_at_signup |-> TRUE,
                 account_class |-> "CUSTOMER" ]
  IN  { sound, [sound EXCEPT !.signup_at = 2], [sound EXCEPT !.signup_at = 3],
        [sound EXCEPT !.eligible_at_signup = FALSE],
        [sound EXCEPT !.account_class = "TEST"],
        [sound EXCEPT !.account_class = "INTERNAL", !.signup_at = 3],
        [sound EXCEPT !.signup_month = "2026-03"] }

Record(profile, population, activity, core_action) ==
  [ cohort |-> profile.cohort, channel |-> profile.channel,
    population |-> population, signup_at |-> profile.signup_at,
    signup_month |-> profile.signup_month,
    eligible_at_signup |-> profile.eligible_at_signup,
    account_class |-> profile.account_class,
    activity |-> activity, core_action |-> core_action ]

AllRecords(cohort) ==
  UNION { { Record(p, population, activity, core) :
              population \in Populations, activity \in Events(p.signup_at),
              core \in Events(p.signup_at) } : p \in Profiles(cohort) }

\* The accounts that share the cell: sound, or without activity or core action.
Companions(cohort) ==
  LET sound == CHOOSE p \in Profiles(cohort) :
                 /\ p.signup_at = 1 /\ p.signup_month = cohort
                 /\ p.eligible_at_signup /\ p.account_class = "CUSTOMER"
      fact == {[at |-> 1, received_at |-> 1]}
  IN  { Record(sound, population, activity, core) :
          population \in Populations, activity \in {{}, fact},
          core \in {{}, fact} }

Registered == <<V1, V2, V101>>

\* Two that list no base clause, an activity in a numerator and a core action in a
\* denominator.
Unlisted ==
  << [V1 EXCEPT !.denominator = { "qualifying_activity_within_days",
                                  "core_action_within_days" }],
     [V2 EXCEPT !.numerator = {"qualifying_activity_within_days"},
                !.form.numerator = OneClause] >>

InputsOf(cohort, definitions) ==
  { [ records |-> pair, coverage |-> Coverage(cohort),
      definitions |-> definitions, assumptions |-> {}, policy_rules |-> {},
      g4_cell |-> [cohort |-> cohort, channel |-> "Alpha"] ] :
      pair \in AllRecords(cohort) \X Companions(cohort) }

MCInputs ==
  InputsOf("2026-04", Registered) \cup InputsOf("2026-05", Registered)
    \cup InputsOf("2026-05", Unlisted)
=============================================================================
