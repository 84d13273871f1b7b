----------------------------- MODULE KpiInputs ------------------------------
(***************************************************************************)
(* What an execution loads: the account records, the coverage declarations *)
(* and the definitions the metric calculation reads, the declarations that *)
(* later stages read; the clock rules that decide which facts count, the   *)
(* clauses a calculation applies, and the cells a result set is made of.   *)
(***************************************************************************)
EXTENDS SourceCoverage

CONSTANTS
  Accounts,     \* account ids, ordered as the ids sort
  Channels,     \* the channels, in the order result sets list them
  WindowDays,   \* days of maturity, of activity and of core action; 14
  Cutoff,       \* the instant facts must have been received by
  Inputs        \* the inputs an execution may load

(***************************************************************************)
(* Records.  An event is recorded with the instant it happened and the     *)
(* instant it was received, both or neither.  signup_month is the month    *)
(* signup_at is written in, which its offset may make another than the     *)
(* month of the instant.                                                   *)
(***************************************************************************)
Event == [at : Nat, received_at : Nat]
OptionalEvent == {events \in SUBSET Event : \A e, f \in events : e = f}

Populations == {"ACTIVITY_QUALIFIED_ACCOUNT_FACT", "AUTHORITATIVE_SIGNUP_ROSTER"}
AccountClasses == {"CUSTOMER", "TEST", "INTERNAL"}

AccountRecord ==
  [ cohort             : CohortNames,
    channel            : {Channels[i] : i \in DOMAIN Channels},
    population         : Populations,
    signup_at          : Nat,
    signup_month       : STRING,
    eligible_at_signup : BOOLEAN,
    account_class      : AccountClasses,
    activity           : OptionalEvent,
    core_action        : OptionalEvent ]

\* assumptions and policy_rules are ids, g4_cell is what control G4 looks at.
Input ==
  [ records      : [Accounts -> AccountRecord],
    coverage     : Seq(CoverageDeclaration),
    definitions  : Seq(MetricDefinition),
    assumptions  : SUBSET STRING,
    policy_rules : SUBSET STRING,
    g4_cell      : [cohort : CohortNames, channel : {Channels[i] : i \in DOMAIN Channels}] ]

ASSUME AccountsAreOrdered == Accounts \subseteq Nat /\ IsFiniteSet(Accounts)
ASSUME ClockIsNatural == WindowDays \in Nat /\ Cutoff \in Nat
ASSUME ChannelsListed ==
  /\ Channels \in Seq(STRING) /\ Channels # <<>>
  /\ \A i, j \in DOMAIN Channels : Channels[i] = Channels[j] => i = j
ASSUME InputsWellFormed == Inputs \subseteq Input

(***************************************************************************)
(* The clauses a calculation applies: the base clauses, listed or not, and *)
(* of the others what it looks for in that predicate.  It never looks for  *)
(* an activity in a numerator or for a core action in a denominator.       *)
(***************************************************************************)
NumeratorClauses(definition) ==
  BaseClauses \cup (definition.numerator \ {"qualifying_activity_within_days"})

DenominatorClauses(definition) ==
  BaseClauses \cup (definition.denominator \ {"core_action_within_days"})

(***************************************************************************)
(* The clock rules.  Every bound is inclusive.                             *)
(***************************************************************************)
WithinDays(event, signup_at) ==
  signup_at <= event.at /\ event.at <= signup_at + WindowDays

HappenedByCutoff(event) == event.at <= Cutoff

ReceivedByCutoff(event) == event.received_at <= Cutoff

\* An event of the account that happened in its window and is known at the cutoff.
Observed(events, signup_at) ==
  \E event \in events :
    WithinDays(event, signup_at) /\ ReceivedByCutoff(event)

MatureAtCutoff(record) == record.signup_at + WindowDays <= Cutoff

(***************************************************************************)
(* Cells: one result per definition, cohort and channel, each named by its *)
(* position, computed in this order.                                       *)
(***************************************************************************)
Cells(input) ==
  (DOMAIN input.definitions) \X (DOMAIN Cohorts) \X (DOMAIN Channels)

Precedes(c, d) ==
  \/ c[1] < d[1]
  \/ c[1] = d[1] /\ c[2] < d[2]
  \/ c[1] = d[1] /\ c[2] = d[2] /\ c[3] < d[3]

DefinitionOf(input, cell) == input.definitions[cell[1]]
CohortOf(cell)  == Cohorts[cell[2]]
ChannelOf(cell) == Channels[cell[3]]

\* declarations = {item.cohort: item for item in coverage}
Declared(input, cell) ==
  \E i \in DOMAIN input.coverage : input.coverage[i].cohort = CohortOf(cell)

DeclarationOf(input, cell) == LastFor(CohortOf(cell), input.coverage)

GapsOf(input, cell) ==
  Gaps(DefinitionOf(input, cell), DeclarationOf(input, cell))

(***************************************************************************)
(* The population a definition is computed over.  April kept only the      *)
(* activity-qualified fact; a definition with an activity clause reads the *)
(* signup roster in the other cohorts.                                     *)
(***************************************************************************)
Supported(definition) ==
  \/ "qualifying_activity_within_days" \in definition.denominator
  \/ "all_eligible_matured_signups" \in definition.denominator

PopulationOfFirstVersion(definition, cohort) ==
  IF definition.version = "1.0.0" /\ cohort = "2026-04"
  THEN "ACTIVITY_QUALIFIED_ACCOUNT_FACT"
  ELSE "AUTHORITATIVE_SIGNUP_ROSTER"

ExpectedPopulation(definition, cohort) ==
  IF /\ "qualifying_activity_within_days" \in definition.denominator
     /\ cohort = "2026-04"
  THEN "ACTIVITY_QUALIFIED_ACCOUNT_FACT"
  ELSE "AUTHORITATIVE_SIGNUP_ROSTER"

CohortRecords(input, cell) ==
  { a \in Accounts :
      /\ input.records[a].cohort = CohortOf(cell)
      /\ input.records[a].channel = ChannelOf(cell)
      /\ input.records[a].population
           = ExpectedPopulation(DefinitionOf(input, cell), CohortOf(cell)) }
=============================================================================
