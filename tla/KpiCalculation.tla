--------------------------- MODULE KpiCalculation ---------------------------
(***************************************************************************)
(* The calculation stage of an execution: the result sets of the loaded    *)
(* definitions, cell after cell and account after account, then the        *)
(* verdicts and the restatement horizon of version 2.0.0.  An exception    *)
(* anywhere ends the execution with nothing published.                     *)
(***************************************************************************)
EXTENDS KpiInputs

VARIABLES
  input,            \* what the execution loaded
  todo,             \* the cells not resolved yet
  cell,             \* the cell being scanned, or scanned last
  pending,          \* its accounts not scanned yet
  denominator_ids, numerator_ids,   \* the ids appended so far
  excluded,         \* the accounts set aside, with their reason codes
  results,          \* the resolved cells
  horizon,          \* the restatement horizon
  phase             \* "idle", "scanning", "done" or "raised"

inCell == <<denominator_ids, numerator_ids, excluded>>
vars == <<input, todo, cell, pending, inCell, results, horizon, phase>>

(***************************************************************************)
(* One account.                                                            *)
(***************************************************************************)
BaseReasonsBoundary(record, cohort) ==
  UNION { IF record.eligible_at_signup THEN {} ELSE {"INELIGIBLE_AT_SIGNUP"},
          IF record.account_class \in {"TEST", "INTERNAL"}
            THEN {"EXCLUDED_ACCOUNT_CLASS"} ELSE {},
          IF record.signup_at + WindowDays >= Cutoff
            THEN {"NOT_MATURE_AT_CUTOFF"} ELSE {},
          IF record.signup_month # cohort
            THEN {"COHORT_LINKAGE_MISMATCH"} ELSE {} }

\* The reasons every definition shares.
BaseReasons(record, cohort) ==
  UNION { IF record.eligible_at_signup THEN {} ELSE {"INELIGIBLE_AT_SIGNUP"},
          IF record.account_class \in {"TEST", "INTERNAL"}
            THEN {"EXCLUDED_ACCOUNT_CLASS"} ELSE {},
          IF record.signup_at + WindowDays > Cutoff
            THEN {"NOT_MATURE_AT_CUTOFF"} ELSE {},
          IF record.signup_month # cohort
            THEN {"COHORT_LINKAGE_MISMATCH"} ELSE {} }

SilentReasons(definition, record, cohort) == BaseReasons(record, cohort)

\* Why the account is not in the denominator; none when it is.
Reasons(definition, record, cohort) ==
  BaseReasons(record, cohort)
    \cup IF /\ "qualifying_activity_within_days" \in definition.denominator
            /\ ~Observed(record.activity, record.signup_at)
         THEN {"NO_QUALIFYING_ACTIVITY_BY_CUTOFF"} ELSE {}

DenominatorIncluded(definition, record, cohort) ==
  Reasons(definition, record, cohort) = {}

NumeratorOfDenominator(definition, record, cohort) ==
  /\ DenominatorIncluded(definition, record, cohort)
  /\ Observed(record.core_action, record.signup_at)

\* The activity clause plays no part in the numerator.
NumeratorIncluded(definition, record, cohort) ==
  /\ BaseReasons(record, cohort) = {}
  /\ "core_action_within_days" \in definition.numerator =>
       Observed(record.core_action, record.signup_at)

-----------------------------------------------------------------------------
(***************************************************************************)
(* One cell.                                                               *)
(***************************************************************************)
NotComputable(gaps) ==
  [ status |-> "NOT_COMPUTABLE", denominator_ids |-> <<>>,
    numerator_ids |-> <<>>, excluded |-> {}, reason_codes |-> gaps ]

Exact ==
  [ status |-> "EXACT", denominator_ids |-> denominator_ids,
    numerator_ids |-> numerator_ids, excluded |-> excluded,
    reason_codes |-> {} ]

PublishAgain(c, result) ==
  /\ results' = [d \in DOMAIN results \cup {c} |->
                   IF d = c THEN result ELSE results[d]]
  /\ phase' = "idle"
  /\ UNCHANGED <<input, todo, inCell, pending, cell, horizon>>

Publish(c, result) ==
  /\ results' = [d \in DOMAIN results \cup {c} |->
                   IF d = c THEN result ELSE results[d]]
  /\ todo' = todo \ {c}
  /\ phase' = "idle"
  /\ UNCHANGED <<input, inCell, pending, cell, horizon>>

Raise ==
  /\ phase' = "raised"
  /\ UNCHANGED <<input, todo, cell, pending, inCell, results, horizon>>

NextCell(c) ==
  /\ phase = "idle"
  /\ c \in todo
  /\ \A d \in todo \ {c} : Precedes(c, d)

\* declarations[cohort] of a cohort nobody declared.
MissingDeclaration(c) ==
  /\ NextCell(c)
  /\ ~Declared(input, c)
  /\ Raise

Refuse(c) ==
  /\ NextCell(c)
  /\ Declared(input, c)
  /\ GapsOf(input, c) # {}
  /\ Publish(c, NotComputable(GapsOf(input, c)))

Unsupported(c) ==
  /\ NextCell(c)
  /\ Declared(input, c)
  /\ GapsOf(input, c) = {}
  /\ ~Supported(DefinitionOf(input, c))
  /\ Raise

StartScanKeeping(c) ==
  /\ NextCell(c)
  /\ Declared(input, c)
  /\ GapsOf(input, c) = {}
  /\ Supported(DefinitionOf(input, c))
  /\ cell' = c
  /\ pending' = CohortRecords(input, c)
  /\ phase' = "scanning"
  /\ UNCHANGED <<input, todo, inCell, results, horizon>>

StartScan(c) ==
  /\ NextCell(c)
  /\ Declared(input, c)
  /\ GapsOf(input, c) = {}
  /\ Supported(DefinitionOf(input, c))
  /\ cell' = c
  /\ pending' = CohortRecords(input, c)
  /\ denominator_ids' = <<>> /\ numerator_ids' = <<>> /\ excluded' = {}
  /\ phase' = "scanning"
  /\ UNCHANGED <<input, todo, results, horizon>>

NextAccount(a) ==
  /\ phase = "scanning"
  /\ a \in pending
  /\ \A b \in pending : a <= b

DenominatorHas(a) ==
  DenominatorIncluded(DefinitionOf(input, cell), input.records[a], CohortOf(cell))

NumeratorHas(a) ==
  NumeratorIncluded(DefinitionOf(input, cell), input.records[a], CohortOf(cell))

NumeratorOutsideDenominator(a) ==
  /\ NextAccount(a)
  /\ NumeratorHas(a) /\ ~DenominatorHas(a)
  /\ Raise

ScanAccount(a) ==
  /\ NextAccount(a)
  /\ NumeratorHas(a) => DenominatorHas(a)
  /\ denominator_ids' = IF DenominatorHas(a)
                        THEN Append(denominator_ids, a) ELSE denominator_ids
  /\ numerator_ids' = IF NumeratorHas(a)
                      THEN Append(numerator_ids, a) ELSE numerator_ids
  /\ excluded' =
       IF DenominatorHas(a) THEN excluded
       ELSE excluded \cup
              {<<a, Reasons(DefinitionOf(input, cell), input.records[a],
                            CohortOf(cell))>>}
  /\ pending' = pending \ {a}
  /\ UNCHANGED <<input, todo, cell, results, horizon, phase>>

EmptyDenominator ==
  /\ phase = "scanning" /\ pending = {}
  /\ denominator_ids = <<>>
  /\ Raise

FinishCell ==
  /\ phase = "scanning" /\ pending = {}
  /\ denominator_ids # <<>>
  /\ Publish(cell, Exact)

-----------------------------------------------------------------------------
(***************************************************************************)
(* The verdicts of version 2.0.0, in declaration order, and the horizon    *)
(* they leave.  One definition has that version.                           *)
(***************************************************************************)
ASSUME OneRestatedDefinition ==
  \A i \in Inputs :
    \E d \in DOMAIN i.definitions :
      \A e \in DOMAIN i.definitions :
        i.definitions[e].version = "2.0.0" <=> e = d

RestatedDefinition ==
  input.definitions[CHOOSE i \in DOMAIN input.definitions :
                      input.definitions[i].version = "2.0.0"]

Verdicts ==
  [ i \in DOMAIN input.coverage |->
      AssessReconstructability(RestatedDefinition, input.coverage[i]) ]

AssessHorizon ==
  /\ phase = "idle" /\ todo = {}
  /\ horizon' = HorizonCoverage(Verdicts)
  /\ phase' = "done"
  /\ UNCHANGED <<input, todo, cell, pending, inCell, results>>

Unassessed ==
  [ fully_reconstructable_cohorts |-> {}, non_reconstructable_cohorts |-> {},
    status |-> "UNASSESSED" ]

Init ==
  /\ input \in Inputs
  /\ todo = Cells(input)
  /\ cell = <<0, 0, 0>>
  /\ pending = {}
  /\ denominator_ids = <<>> /\ numerator_ids = <<>> /\ excluded = {}
  /\ results = <<>>
  /\ horizon = Unassessed
  /\ phase = "idle"

Terminated == phase \in {"done", "raised"} /\ UNCHANGED vars

Next ==
  \/ \E c \in todo :
       MissingDeclaration(c) \/ Refuse(c) \/ Unsupported(c) \/ StartScan(c)
  \/ \E a \in pending : ScanAccount(a) \/ NumeratorOutsideDenominator(a)
  \/ EmptyDenominator \/ FinishCell \/ AssessHorizon
  \/ Terminated

Spec == Init /\ [][Next]_vars

-----------------------------------------------------------------------------
(***************************************************************************)
(* Type invariant.                                                         *)
(***************************************************************************)
ReasonCodes ==
  { "INELIGIBLE_AT_SIGNUP", "EXCLUDED_ACCOUNT_CLASS", "NOT_MATURE_AT_CUTOFF",
    "COHORT_LINKAGE_MISMATCH", "NO_QUALIFYING_ACTIVITY_BY_CUTOFF" }

Result ==
  [ status          : {"EXACT", "NOT_COMPUTABLE"},
    denominator_ids : Seq(Accounts),
    numerator_ids   : Seq(Accounts),
    excluded        : SUBSET (Accounts \X SUBSET ReasonCodes),
    reason_codes    : SUBSET (CoverageStatus \X AllDependencies) ]

Horizon ==
  [ fully_reconstructable_cohorts : SUBSET CohortNames,
    non_reconstructable_cohorts   : SUBSET CohortNames,
    status : {"UNASSESSED", "COMPLETE", "PARTIAL", "NONE"} ]

\* Every variable has its shape; results is a function on the cells no longer
\* to do, and an execution that scans does so in a cell still to do.
TypeOK ==
  /\ input \in Input
  /\ todo \subseteq Cells(input)
  /\ cell \in Nat \X Nat \X Nat
  /\ pending \subseteq Accounts
  /\ denominator_ids \in Seq(Accounts) /\ numerator_ids \in Seq(Accounts)
  /\ excluded \subseteq Accounts \X SUBSET ReasonCodes
  /\ results \in [Cells(input) \ todo -> Result]
  /\ horizon \in Horizon
  /\ phase \in {"idle", "scanning", "done", "raised"}
  /\ phase = "scanning" => cell \in todo
=============================================================================
