----------------------------- MODULE KpiMetric ------------------------------
(***************************************************************************)
(* What a result set promises, independent of how it is computed: in every *)
(* cell either a refusal with its gaps, or the accounts that satisfy every *)
(* clause applied in the numerator and in the denominator, and of each     *)
(* excluded account the clauses it fails.  Cells may be resolved in any    *)
(* order, one step each; the execution aborts rather than publish a cell   *)
(* that has no such value.                                                 *)
(***************************************************************************)
EXTENDS KpiInputs

VARIABLES
  input,      \* what the execution loaded
  results,    \* the cells resolved so far
  outcome     \* "running", "complete" or "aborted"

vars == <<input, results, outcome>>

\* What a clause says of an account of a cohort.
Satisfies(kind, record, cohort) ==
  CASE kind = "eligibility_at_signup"  -> record.eligible_at_signup
    [] kind = "exclude_account_classes" ->
         record.account_class \notin {"TEST", "INTERNAL"}
    [] kind = "signup_cohort"          -> record.signup_month = cohort
    [] kind = "elapsed_day_maturity"   -> MatureAtCutoff(record)
    [] kind = "qualifying_activity_within_days" ->
         Observed(record.activity, record.signup_at)
    [] kind = "core_action_within_days" ->
         Observed(record.core_action, record.signup_at)
    [] kind = "all_eligible_matured_signups" -> TRUE

FailedClauses(kinds, account, cell) ==
  {kind \in kinds : ~Satisfies(kind, input.records[account], CohortOf(cell))}

Members(kinds, cell) ==
  {a \in CohortRecords(input, cell) : FailedClauses(kinds, a, cell) = {}}

Denominator(cell) == Members(DenominatorClauses(DefinitionOf(input, cell)), cell)
Numerator(cell)   == Members(NumeratorClauses(DefinitionOf(input, cell)), cell)

Excluded(cell) ==
  { <<a, FailedClauses(DenominatorClauses(DefinitionOf(input, cell)), a, cell)>> :
      a \in CohortRecords(input, cell) \ Denominator(cell) }

Computable(cell) == GapsOf(input, cell) = {}

Value(cell) ==
  IF Computable(cell)
  THEN [ status       |-> "EXACT",
         denominator  |-> Denominator(cell),
         numerator    |-> Numerator(cell),
         excluded     |-> Excluded(cell),
         reason_codes |-> {} ]
  ELSE [ status       |-> "NOT_COMPUTABLE",
         denominator  |-> {},
         numerator    |-> {},
         excluded     |-> {},
         reason_codes |-> GapsOf(input, cell) ]

\* A cell without a value: nobody declared its cohort, its definition names no
\* population, its ratio has no denominator or is not of a part to its whole.
Valueless(cell) ==
  \/ ~Declared(input, cell)
  \/ /\ Computable(cell)
     /\ \/ ~Supported(DefinitionOf(input, cell))
        \/ Denominator(cell) = {}
        \/ ~(Numerator(cell) \subseteq Denominator(cell))

-----------------------------------------------------------------------------
Init ==
  /\ input \in Input
  /\ results = <<>>
  /\ outcome = "running"

Resolve(cell) ==
  /\ outcome = "running"
  /\ cell \notin DOMAIN results
  /\ ~Valueless(cell)
  /\ results' = [c \in DOMAIN results \cup {cell} |->
                   IF c = cell THEN Value(cell) ELSE results[c]]
  /\ UNCHANGED <<input, outcome>>

Abort(cell) ==
  /\ outcome = "running"
  /\ cell \notin DOMAIN results
  /\ Valueless(cell)
  /\ outcome' = "aborted"
  /\ UNCHANGED <<input, results>>

Complete ==
  /\ outcome = "running"
  /\ DOMAIN results = Cells(input)
  /\ outcome' = "complete"
  /\ UNCHANGED <<input, results>>

Next ==
  \/ \E cell \in Cells(input) : Resolve(cell) \/ Abort(cell)
  \/ Complete

Spec == Init /\ [][Next]_vars
=============================================================================
