------------------------------ MODULE MCAudit -------------------------------
(***************************************************************************)
(* An audit whose intended input restates May and June and changes every   *)
(* decision, under every coverage of the three cohorts by four kinds of    *)
(* declaration, a cohort declared twice or not at all included; with other *)
(* facts of one account, with other definitions, written in other ways,    *)
(* without one of the assumptions or rules, and with other cells for G4.   *)
(***************************************************************************)
EXTENDS AuditProperties, Demonstration, MCFixtures

MCThreshold == <<4, 5>>

\* The counts of the intended input.
MCOracle ==
  [ key \in GoldenKeys \ ({"2.0.0"} \X {"2026-04"} \X ChannelNames) |->
      IF key = <<"2.0.0", "2026-05", "Alpha">> THEN <<1, 2>> ELSE <<1, 1>> ]

Registered3 == <<V1, V2, V101>>

\* Account 9 qualifies, June Beta does not convert, neither does May Alpha, or
\* June Beta converts without activity.
OtherRecords ==
  { [Records EXCEPT ![9].activity = Event1, ![9].core_action = Event1],
    [Records EXCEPT ![8].core_action = {}],
    [Records EXCEPT ![5].core_action = {}],
    [Records EXCEPT ![8].activity = {}] }

\* Another clause in the numerator as well; no change at all; a metadata version
\* of another denominator; a copy of another version; a version used twice.
OtherDefinitions ==
  { <<V1, [V2 EXCEPT !.numerator = @ \cup {"all_eligible_matured_signups"}], V101>>,
    <<V1, [V1 EXCEPT !.version = "2.0.0"], V101>>,
    <<V1, V2, [V2 EXCEPT !.version = "1.0.1"]>>,
    <<V1, V2, V1>>,
    <<V1, V2, [V1 EXCEPT !.version = "2.0.0"]>> }

\* Denominators with both of the clauses the demonstration has labels for, with
\* neither, or with the other version's.
LabelledOtherwise ==
  LET both == BaseClauses \cup DenominatorLabels
  IN  { <<V1, [V2 EXCEPT !.denominator = both], V101>>,
        <<V1, [V2 EXCEPT !.denominator = BaseClauses], V101>>,
        << [V1 EXCEPT !.denominator = both], V2, [V101 EXCEPT !.denominator = both] >>,
        << [V2 EXCEPT !.version = "1.0.0"], [V1 EXCEPT !.version = "2.0.0"],
           [V2 EXCEPT !.version = "1.0.1"] >> }

(***************************************************************************)
(* The same registered clauses written otherwise: with other class values  *)
(* or repetitions, or a denominator that is one clause and no conjunction. *)
(* The accounts a denominator counts depend on none of it, because base    *)
(* clauses apply listed or not.                                            *)
(***************************************************************************)
Otherwise == [compound |-> TRUE, detail |-> "with other class values"]

Alone(definition, kind) ==
  [definition EXCEPT !.denominator = {kind}, !.form.denominator = OneClause]

WrittenOtherwise ==
  LET activity == "qualifying_activity_within_days"
      signups  == "all_eligible_matured_signups"
  IN  { <<V1, Alone(V2, signups), V101>>,
        <<Alone(V1, activity), V2, Alone(V101, activity)>>,
        <<V1, [V2 EXCEPT !.form.denominator = Otherwise], V101>>,
        <<V1, [V2 EXCEPT !.form.numerator = Otherwise], V101>>,
        <<V1, [V1 EXCEPT !.version = "2.0.0", !.form.denominator = Otherwise], V101>>,
        <<V1, V2, [V101 EXCEPT !.form.denominator = Otherwise]>> }

\* The first version lists both populations and no eligibility, the second does,
\* and of April nobody knows who was eligible: the first is a number there and the
\* second is not, as intended.
BothLabelled ==
  LET converted == {"core_action_within_days"}
      first == [V1 EXCEPT !.numerator = converted, !.denominator = DenominatorLabels]
  IN  InputOf(Records,
        [AllComplete EXCEPT ![1] = Declaration("2026-04", {},
                                     {"field.eligible_at_signup"}, {})],
        << first, [V2 EXCEPT !.numerator = converted],
           [first EXCEPT !.version = "1.0.1"] >>)

Undeclared(loaded) ==
  { [loaded EXCEPT !.assumptions = @ \ {id}] : id \in loaded.assumptions }
    \cup { [loaded EXCEPT !.policy_rules = @ \ {id}] : id \in loaded.policy_rules }

ControlledElsewhere(loaded) ==
  { [loaded EXCEPT !.g4_cell = [cohort |-> cohort, channel |-> channel]] :
      cohort \in CohortNames, channel \in ChannelNames }

MCInputs ==
  { InputOf(Records, coverage, Registered3) :
      coverage \in Each \cup DeclaredTwice \cup DeclaredOut }
  \cup { InputOf(records, coverage, Registered3) :
           records \in OtherRecords, coverage \in Each }
  \cup { InputOf(Records, coverage, definitions) :
           coverage \in Each \cup DeclaredTwice, definitions \in OtherDefinitions }
  \cup { InputOf(records, coverage, definitions) :
           records \in {Records} \cup OtherRecords, coverage \in Each,
           definitions \in LabelledOtherwise }
  \cup { InputOf(Records, coverage, definitions) :
           coverage \in Each, definitions \in WrittenOtherwise }
  \cup UNION { Undeclared(InputOf(Records, coverage, Registered3))
                \cup ControlledElsewhere(InputOf(Records, coverage, Registered3)) :
                coverage \in Each }
  \cup {BothLabelled}
=============================================================================
