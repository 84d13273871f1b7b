------------------------ MODULE KpiCalculationProofs ------------------------
(***************************************************************************)
(* Proofs about the calculation stage, for every set of accounts, channel  *)
(* list, window, cutoff and input: its types; the inductive invariant -    *)
(* what the lists hold in the middle of a scan, and what a published       *)
(* result was built from; that it implements KpiMetric; and the properties *)
(* of its results.  Definitions with the same clauses have the same        *)
(* results, list for list, and the horizon restates exactly the cohorts    *)
(* that have numbers.                                                      *)
(***************************************************************************)
EXTENDS KpiProperties, TLAPS, SequenceTheorems, FiniteSetTheorems

-----------------------------------------------------------------------------
(***************************************************************************)
(* What the helpers return.                                                *)
(***************************************************************************)

\* A cell is three positions.
LEMMA CellsArePositions ==
  ASSUME NEW i \in Input
  PROVE  Cells(i) \subseteq Nat \X Nat \X Nat
<1>1. DOMAIN i.definitions \subseteq Nat
  BY DEF Input
<1>2. DOMAIN Cohorts \subseteq Nat
  BY DEF Cohorts
<1>3. DOMAIN Channels \subseteq Nat
  BY ChannelsListed
<1> QED
  BY <1>1, <1>2, <1>3 DEF Cells

\* A definition of registered clauses depends on known dependencies only.
LEMMA DependenciesKnown ==
  ASSUME NEW definition \in MetricDefinition
  PROVE  DependenciesOf(definition) \subseteq AllDependencies
BY DEF MetricDefinition, DependenciesOf, DeriveDependencies, AllDependencies

\* The reason codes of a refusal pair a status with a known dependency.
LEMMA GapsType ==
  ASSUME NEW definition \in MetricDefinition, NEW declaration
  PROVE  Gaps(definition, declaration)
           \subseteq CoverageStatus \X AllDependencies
<1> DEFINE statuses == CoverageRecords(declaration, DependenciesOf(definition))
<1>1. DOMAIN statuses \subseteq AllDependencies
  BY DependenciesKnown DEF CoverageRecords
<1>2. ASSUME NEW d \in DOMAIN statuses PROVE statuses[d] \in CoverageStatus
  BY DEF CoverageRecords, CoverageStatus
<1>3. Gaps(definition, declaration)
        = {<<statuses[d], d>> :
             d \in {x \in DOMAIN statuses : statuses[x] # "AVAILABLE_COMPLETE"}}
  BY DEF Gaps
<1> HIDE DEF statuses
<1> QED
  BY <1>1, <1>2, <1>3

\* The reasons of an exclusion are reason codes.
LEMMA ReasonsType ==
  ASSUME NEW definition, NEW record, NEW cohort
  PROVE  Reasons(definition, record, cohort) \subseteq ReasonCodes
BY DEF Reasons, BaseReasons, ReasonCodes

\* The horizon of any verdicts has the type of one.
LEMMA HorizonType ==
  ASSUME NEW verdicts
  PROVE  HorizonCoverage(verdicts) \in Horizon
BY DEF HorizonCoverage, Horizon

\* Publishing a typed result keeps the types.
LEMMA PublishTyped ==
  ASSUME TypeOK, NEW c \in todo, NEW result \in Result, Publish(c, result)
  PROVE  TypeOK'
<1>1. results' \in [Cells(input) \ todo' -> Result]
  BY DEF TypeOK, Publish
<1> QED
  BY <1>1 DEF TypeOK, Publish, inCell

-----------------------------------------------------------------------------
\* Every reachable state of the calculation is well formed, whatever records,
\* coverage and definitions it loaded.
THEOREM TypeCorrect == Spec => []TypeOK
<1>1. Init => TypeOK
  <2> SUFFICES ASSUME Init PROVE TypeOK
    OBVIOUS
  <2>1. input \in Input
    BY InputsWellFormed DEF Init
  <2>2. results \in [Cells(input) \ todo -> Result]
    BY DEF Init
  <2>3. horizon \in Horizon
    BY DEF Init, Unassessed, Horizon
  <2> QED
    BY <2>1, <2>2, <2>3 DEF Init, TypeOK
<1>2. TypeOK /\ [Next]_vars => TypeOK'
  <2> SUFFICES ASSUME TypeOK, [Next]_vars PROVE TypeOK'
    OBVIOUS
  <2>1. ASSUME Raise PROVE TypeOK'
    BY <2>1 DEF TypeOK, Raise, inCell
  <2>2. ASSUME NEW c \in todo, MissingDeclaration(c) PROVE TypeOK'
    BY <2>1, <2>2 DEF MissingDeclaration
  <2>3. ASSUME NEW c \in todo, Refuse(c) PROVE TypeOK'
    <3>1. DefinitionOf(input, c) \in MetricDefinition
      BY DEF TypeOK, Input, Cells, DefinitionOf
    <3>2. GapsOf(input, c) \subseteq CoverageStatus \X AllDependencies
      BY <3>1, GapsType DEF GapsOf
    <3>3. NotComputable(GapsOf(input, c)) \in Result
      BY <3>2 DEF NotComputable, Result
    <3> QED
      BY <2>3, <3>3, PublishTyped DEF Refuse
  <2>4. ASSUME NEW c \in todo, Unsupported(c) PROVE TypeOK'
    BY <2>1, <2>4 DEF Unsupported
  <2>5. ASSUME NEW c \in todo, StartScan(c) PROVE TypeOK'
    <3>1. c \in Nat \X Nat \X Nat
      BY CellsArePositions DEF TypeOK
    <3>2. CohortRecords(input, c) \subseteq Accounts
      BY DEF CohortRecords
    <3> QED
      BY <2>5, <3>1, <3>2 DEF StartScan, TypeOK
  <2>6. ASSUME NEW a \in pending, ScanAccount(a) PROVE TypeOK'
    <3>1. a \in Accounts
      BY DEF TypeOK
    <3>2. denominator_ids' \in Seq(Accounts) /\ numerator_ids' \in Seq(Accounts)
      BY <2>6, <3>1 DEF ScanAccount, TypeOK
    <3>3. excluded' \subseteq Accounts \X SUBSET ReasonCodes
      BY <2>6, <3>1, ReasonsType DEF ScanAccount, TypeOK
    <3> QED
      BY <2>6, <3>2, <3>3 DEF ScanAccount, TypeOK
  <2>7. ASSUME NEW a \in pending, NumeratorOutsideDenominator(a) PROVE TypeOK'
    BY <2>1, <2>7 DEF NumeratorOutsideDenominator
  <2>8. CASE EmptyDenominator
    BY <2>1, <2>8 DEF EmptyDenominator
  <2>9. CASE FinishCell
    <3>1. Exact \in Result
      BY DEF Exact, Result, TypeOK
    <3> QED
      BY <2>9, <3>1, PublishTyped DEF FinishCell, TypeOK
  <2>10. CASE AssessHorizon
    BY <2>10, HorizonType DEF AssessHorizon, TypeOK, inCell
  <2>11. CASE UNCHANGED vars
    BY <2>11 DEF TypeOK, vars, inCell
  <2> QED
    BY <2>2, <2>3, <2>4, <2>5, <2>6, <2>7, <2>8, <2>9, <2>10, <2>11
       DEF Next, Terminated
<1> QED
  BY <1>1, <1>2, PTL DEF Spec

-----------------------------------------------------------------------------
(***************************************************************************)
(* The inductive invariant.                                                *)
(***************************************************************************)
InDenominator(c, a) ==
  DenominatorIncluded(DefinitionOf(input, c), input.records[a], CohortOf(c))

InNumerator(c, a) ==
  NumeratorIncluded(DefinitionOf(input, c), input.records[a], CohortOf(c))

ReasonsOf(c, a) ==
  Reasons(DefinitionOf(input, c), input.records[a], CohortOf(c))

\* den, num and out are the membership of cell c restricted to the accounts S.
Membership(c, S, den, num, out) ==
  /\ ToSet(den) = {a \in S : InDenominator(c, a)}
  /\ ToSet(num) = {a \in S : InNumerator(c, a)}
  /\ out = {<<a, ReasonsOf(c, a)>> : a \in {x \in S : ~InDenominator(c, x)}}
  /\ \A a \in S : InNumerator(c, a) => InDenominator(c, a)

ComputableCell(c) ==
  Declared(input, c) /\ GapsOf(input, c) = {} /\ Supported(DefinitionOf(input, c))

\* In a scan the lists hold the membership among the accounts scanned.
ScanInv ==
  phase = "scanning" =>
    /\ ComputableCell(cell)
    /\ pending \subseteq CohortRecords(input, cell)
    /\ Membership(cell, CohortRecords(input, cell) \ pending,
                  denominator_ids, numerator_ids, excluded)

RefusedSoundly(c) ==
  /\ Declared(input, c)
  /\ GapsOf(input, c) # {}
  /\ results[c] = NotComputable(GapsOf(input, c))

ExactSoundly(c) ==
  /\ ComputableCell(c)
  /\ results[c].status = "EXACT"
  /\ results[c].reason_codes = {}
  /\ results[c].denominator_ids # <<>>
  /\ Membership(c, CohortRecords(input, c), results[c].denominator_ids,
                results[c].numerator_ids, results[c].excluded)

\* A published result is a refusal for its gaps or the membership of its cell.
ResultsInv == \A c \in DOMAIN results : RefusedSoundly(c) \/ ExactSoundly(c)

\* The calculation ends only when no cell is left, with the horizon assessed.
DoneInv == phase = "done" => todo = {} /\ horizon = HorizonCoverage(Verdicts)

IInv == TypeOK /\ input \in Inputs /\ ScanInv /\ ResultsInv /\ DoneInv

-----------------------------------------------------------------------------
\* Appending to a list adds one element to its set.
LEMMA AppendToSet ==
  ASSUME NEW S, NEW s \in Seq(S), NEW e \in S
  PROVE  ToSet(Append(s, e)) = ToSet(s) \cup {e}
<1>1. DOMAIN Append(s, e) = DOMAIN s \cup {Len(s) + 1}
  OBVIOUS
<1>2. \A i \in DOMAIN s : Append(s, e)[i] = s[i]
  OBVIOUS
<1>3. Append(s, e)[Len(s) + 1] = e
  OBVIOUS
<1> QED
  BY <1>1, <1>2, <1>3 DEF ToSet

\* A list is empty exactly when its set is.
LEMMA EmptyToSet ==
  ASSUME NEW S, NEW s \in Seq(S)
  PROVE  s = <<>> <=> ToSet(s) = {}
<1>1. s # <<>> => 1 \in DOMAIN s
  OBVIOUS
<1> QED
  BY <1>1 DEF ToSet

\* An account is set aside with a reason exactly when it is not included.
LEMMA ReasonsOfExcluded ==
  ASSUME NEW c, NEW a
  PROVE  InDenominator(c, a) <=> ReasonsOf(c, a) = {}
BY DEF InDenominator, ReasonsOf, DenominatorIncluded

\* Scanning one account extends the membership by it.
LEMMA MembershipStep ==
  ASSUME NEW c, NEW S, NEW a \in Accounts, a \notin S,
         NEW den \in Seq(Accounts), NEW num \in Seq(Accounts), NEW out,
         Membership(c, S, den, num, out),
         InNumerator(c, a) => InDenominator(c, a)
  PROVE  Membership(c, S \cup {a},
                    IF InDenominator(c, a) THEN Append(den, a) ELSE den,
                    IF InNumerator(c, a) THEN Append(num, a) ELSE num,
                    IF InDenominator(c, a) THEN out
                    ELSE out \cup {<<a, ReasonsOf(c, a)>>})
<1>1. ToSet(Append(den, a)) = ToSet(den) \cup {a}
  BY AppendToSet
<1>2. ToSet(Append(num, a)) = ToSet(num) \cup {a}
  BY AppendToSet
<1>3. CASE InDenominator(c, a)
  <2>1. {x \in S \cup {a} : ~InDenominator(c, x)} = {x \in S : ~InDenominator(c, x)}
    BY <1>3
  <2> QED
    BY <1>1, <1>2, <1>3, <2>1 DEF Membership
<1>4. CASE ~InDenominator(c, a)
  <2>1. {x \in S \cup {a} : ~InDenominator(c, x)}
          = {x \in S : ~InDenominator(c, x)} \cup {a}
    BY <1>4
  <2>2. {<<x, ReasonsOf(c, x)>> : x \in {y \in S \cup {a} : ~InDenominator(c, y)}}
          = {<<x, ReasonsOf(c, x)>> : x \in {y \in S : ~InDenominator(c, y)}}
              \cup {<<a, ReasonsOf(c, a)>>}
    BY <2>1
  <2> QED
    BY <1>1, <1>2, <1>4, <2>2 DEF Membership
<1> QED
  BY <1>3, <1>4

-----------------------------------------------------------------------------
\* What a published cell says depends on the input alone.
LEMMA ResultsKept ==
  ASSUME IInv, input' = input, NEW c \in DOMAIN results,
         c \in DOMAIN results', results'[c] = results[c]
  PROVE  (RefusedSoundly(c) \/ ExactSoundly(c))'
BY DEF IInv, ResultsInv, RefusedSoundly, ExactSoundly, Membership, ComputableCell,
       InDenominator, InNumerator, ReasonsOf, DefinitionOf, Declared, GapsOf,
       DeclarationOf, CohortRecords, ExpectedPopulation, NotComputable

\* A step that publishes nothing keeps the results sound.
LEMMA ResultsUnchanged ==
  ASSUME IInv, input' = input, results' = results
  PROVE  ResultsInv'
<1> SUFFICES ASSUME NEW c \in DOMAIN results'
             PROVE (RefusedSoundly(c) \/ ExactSoundly(c))'
  BY DEF ResultsInv
<1> QED
  BY ResultsKept

\* Publishing one more sound cell keeps the results sound.
LEMMA PublishSound ==
  ASSUME IInv, NEW c \in todo, NEW result, Publish(c, result),
         (RefusedSoundly(c) \/ ExactSoundly(c))'
  PROVE  ResultsInv'
<1>1. DOMAIN results' = DOMAIN results \cup {c}
  BY DEF Publish
<1> SUFFICES ASSUME NEW d \in DOMAIN results'
             PROVE (RefusedSoundly(d) \/ ExactSoundly(d))'
  BY DEF ResultsInv
<1>2. CASE d = c
  BY <1>2
<1>3. CASE d # c
  <2>1. d \in DOMAIN results /\ results'[d] = results[d] /\ input' = input
    BY <1>1, <1>3 DEF Publish
  <2> QED
    BY <2>1, ResultsKept
<1> QED
  BY <1>2, <1>3

\* Primed, a cell is computable and has the records it had.
LEMMA CellKept ==
  ASSUME input' = input, NEW c
  PROVE  /\ ComputableCell(c)' <=> ComputableCell(c)
         /\ GapsOf(input, c)' = GapsOf(input, c)
         /\ Declared(input, c)' <=> Declared(input, c)
         /\ CohortRecords(input, c)' = CohortRecords(input, c)
         /\ \A S, den, num, out :
              Membership(c, S, den, num, out)' <=> Membership(c, S, den, num, out)
BY DEF ComputableCell, GapsOf, Declared, CohortRecords, Membership, InDenominator,
       InNumerator, ReasonsOf, DefinitionOf, DeclarationOf

-----------------------------------------------------------------------------
\* The inductive invariant holds throughout.
THEOREM Invariance == Spec => []IInv
<1>1. Init /\ TypeOK => IInv
  <2> SUFFICES ASSUME Init PROVE ScanInv /\ ResultsInv /\ DoneInv
    BY DEF Init, IInv
  <2> QED
    BY DEF Init, ScanInv, ResultsInv, DoneInv
<1>2. TypeOK' /\ IInv /\ [Next]_vars => IInv'
  <2> SUFFICES ASSUME TypeOK', IInv, [Next]_vars PROVE IInv'
    OBVIOUS
  <2>1. ASSUME Raise PROVE IInv'
    <3>1. ResultsInv'
      BY <2>1, ResultsUnchanged DEF Raise
    <3> QED
      BY <2>1, <3>1 DEF Raise, IInv, ScanInv, DoneInv
  <2>2. ASSUME NEW c \in todo, MissingDeclaration(c) \/ Unsupported(c) PROVE IInv'
    BY <2>1, <2>2 DEF MissingDeclaration, Unsupported
  <2>3. ASSUME NEW c \in todo, Refuse(c) PROVE IInv'
    <3>1. Publish(c, NotComputable(GapsOf(input, c))) /\ input' = input
      BY <2>3 DEF Refuse, Publish
    <3>2. results'[c] = NotComputable(GapsOf(input, c))
      BY <3>1 DEF Publish
    <3>3. RefusedSoundly(c)'
      BY <2>3, <3>1, <3>2, CellKept DEF Refuse, RefusedSoundly
    <3>4. ResultsInv'
      BY <3>1, <3>3, PublishSound
    <3> QED
      BY <3>1, <3>4 DEF IInv, Publish, ScanInv, DoneInv
  <2>4. ASSUME NEW c \in todo, StartScan(c) PROVE IInv'
    <3>1. input' = input /\ results' = results
      BY <2>4 DEF StartScan
    <3>2. Membership(c, {}, <<>>, <<>>, {})
      BY DEF Membership, ToSet
    <3>3. ScanInv'
      <4>1. ComputableCell(cell)'
        BY <2>4 DEF StartScan, ComputableCell, Declared, GapsOf, DeclarationOf,
                    DefinitionOf
      <4>2. /\ cell' = c
            /\ pending' = CohortRecords(input, c)
            /\ CohortRecords(input, cell)' = CohortRecords(input, c)
        BY <2>4 DEF StartScan, CohortRecords, DefinitionOf
      <4>3. Membership(cell, CohortRecords(input, cell) \ pending,
                       denominator_ids, numerator_ids, excluded)'
        <5>1. /\ denominator_ids' = <<>> /\ numerator_ids' = <<>>
              /\ excluded' = {}
              /\ CohortRecords(input, cell)' \ pending' = {}
          BY <2>4, <4>2 DEF StartScan
        <5> QED
          BY <5>1 DEF Membership, ToSet
      <4> QED
        BY <4>1, <4>2, <4>3 DEF ScanInv
    <3>4. ResultsInv'
      BY <3>1, ResultsUnchanged
    <3> QED
      BY <2>4, <3>3, <3>4 DEF IInv, StartScan, DoneInv
  <2>5. ASSUME NEW a \in pending, ScanAccount(a) PROVE IInv'
    <3> DEFINE S == CohortRecords(input, cell) \ pending
    <3>1. /\ input' = input /\ results' = results /\ cell' = cell
          /\ phase = "scanning" /\ phase' = "scanning"
          /\ pending' = pending \ {a}
      BY <2>5 DEF ScanAccount, NextAccount
    <3>2. /\ ComputableCell(cell)
          /\ pending \subseteq CohortRecords(input, cell)
          /\ Membership(cell, S, denominator_ids, numerator_ids, excluded)
      BY <3>1 DEF IInv, ScanInv
    <3>3. /\ a \in Accounts /\ a \notin S
          /\ denominator_ids \in Seq(Accounts) /\ numerator_ids \in Seq(Accounts)
      BY DEF IInv, TypeOK
    <3>4. /\ InNumerator(cell, a) => InDenominator(cell, a)
          /\ denominator_ids' = IF InDenominator(cell, a)
                                THEN Append(denominator_ids, a) ELSE denominator_ids
          /\ numerator_ids' = IF InNumerator(cell, a)
                              THEN Append(numerator_ids, a) ELSE numerator_ids
          /\ excluded' = IF InDenominator(cell, a) THEN excluded
                         ELSE excluded \cup {<<a, ReasonsOf(cell, a)>>}
      BY <2>5 DEF ScanAccount, InNumerator, InDenominator, NumeratorHas,
                  DenominatorHas, ReasonsOf
    <3>5. Membership(cell, S \cup {a}, denominator_ids', numerator_ids', excluded')
      <4> HIDE DEF S
      <4> QED
        BY <3>2, <3>3, <3>4, MembershipStep
    <3>6. CohortRecords(input, cell)' \ pending' = S \cup {a}
      BY <3>1, <3>2 DEF CohortRecords, DefinitionOf
    <3>7. ScanInv'
      <4>1. ComputableCell(cell)'
        BY <3>1, <3>2 DEF ComputableCell, Declared, GapsOf, DeclarationOf,
                          DefinitionOf
      <4>2. pending' \subseteq CohortRecords(input, cell)'
        BY <3>1, <3>2 DEF CohortRecords, DefinitionOf
      <4>3. Membership(cell, CohortRecords(input, cell) \ pending,
                       denominator_ids, numerator_ids, excluded)'
        BY <3>1, <3>5, <3>6 DEF Membership, InDenominator, InNumerator,
                                ReasonsOf, DefinitionOf
      <4> QED
        BY <4>1, <4>2, <4>3 DEF ScanInv
    <3>8. ResultsInv'
      BY <3>1, ResultsUnchanged
    <3> QED
      BY <3>1, <3>7, <3>8 DEF IInv, DoneInv
  <2>6. ASSUME NEW a \in pending, NumeratorOutsideDenominator(a) PROVE IInv'
    BY <2>1, <2>6 DEF NumeratorOutsideDenominator
  <2>7. CASE EmptyDenominator
    BY <2>1, <2>7 DEF EmptyDenominator
  <2>8. CASE FinishCell
    <3>1. /\ Publish(cell, Exact) /\ input' = input /\ cell \in todo
          /\ phase = "scanning" /\ pending = {} /\ denominator_ids # <<>>
      BY <2>8 DEF FinishCell, Publish, IInv, TypeOK
    <3>2. results'[cell] = Exact
      BY <3>1 DEF Publish
    <3>3. /\ ComputableCell(cell)
          /\ Membership(cell, CohortRecords(input, cell),
                        denominator_ids, numerator_ids, excluded)
      <4>1. CohortRecords(input, cell) \ pending = CohortRecords(input, cell)
        BY <3>1
      <4> QED
        BY <3>1, <4>1 DEF IInv, ScanInv
    <3>4. ASSUME NEW d, d = cell PROVE (RefusedSoundly(d) \/ ExactSoundly(d))'
      <4>1. ComputableCell(d)'
        BY <3>1, <3>3, <3>4 DEF ComputableCell, Declared, GapsOf, DeclarationOf,
                                DefinitionOf
      <4>2. Membership(d, CohortRecords(input, d), results[d].denominator_ids,
                       results[d].numerator_ids, results[d].excluded)'
        BY <3>1, <3>2, <3>3, <3>4
           DEF Membership, InDenominator, InNumerator, ReasonsOf, DefinitionOf,
               CohortRecords, Exact
      <4>3. /\ results'[d].status = "EXACT"
            /\ results'[d].reason_codes = {}
            /\ results'[d].denominator_ids # <<>>
        BY <3>1, <3>2, <3>4 DEF Exact
      <4> QED
        BY <4>1, <4>2, <4>3 DEF ExactSoundly
    <3>5. ResultsInv'
      <4> PICK d \in todo : d = cell
        BY <3>1
      <4> QED
        BY <3>1, <3>4, PublishSound
    <3> QED
      BY <3>1, <3>5 DEF IInv, Publish, ScanInv, DoneInv
  <2>9. CASE AssessHorizon
    <3>1. ResultsInv'
      BY <2>9, ResultsUnchanged DEF AssessHorizon
    <3>2. DoneInv'
      BY <2>9 DEF AssessHorizon, DoneInv, Verdicts, RestatedDefinition
    <3> QED
      BY <2>9, <3>1, <3>2 DEF IInv, AssessHorizon, ScanInv
  <2>10. CASE UNCHANGED vars
    <3>1. /\ input' = input /\ todo' = todo /\ cell' = cell /\ pending' = pending
          /\ denominator_ids' = denominator_ids /\ numerator_ids' = numerator_ids
          /\ excluded' = excluded /\ results' = results /\ horizon' = horizon
          /\ phase' = phase
      BY <2>10 DEF vars, inCell
    <3>2. ResultsInv'
      BY <3>1, ResultsUnchanged
    <3>3. DoneInv'
      BY <3>1 DEF IInv, DoneInv, Verdicts, RestatedDefinition
    <3>4. ScanInv'
      BY <3>1 DEF IInv, ScanInv, ComputableCell, Declared, GapsOf, DeclarationOf,
         DefinitionOf, CohortRecords, Membership, InDenominator, InNumerator, ReasonsOf
    <3> QED
      BY <3>1, <3>2, <3>3, <3>4 DEF IInv
  <2> QED
    BY <2>2, <2>3, <2>4, <2>5, <2>6, <2>7, <2>8, <2>9, <2>10 DEF Next, Terminated
<1> QED
  BY <1>1, <1>2, TypeCorrect, PTL DEF Spec

-----------------------------------------------------------------------------
(***************************************************************************)
(* What follows from the invariant.                                        *)
(***************************************************************************)
\* What is published as exact is the membership of its cell.
LEMMA ExactCellsSound ==
  ASSUME IInv, NEW c \in ExactCells
  PROVE  ExactSoundly(c)
BY DEF IInv, ResultsInv, ExactCells, RefusedSoundly, NotComputable

\* A resolved cell is a cell, of a registered definition.
LEMMA ResolvedCells ==
  ASSUME IInv
  PROVE  DOMAIN results \subseteq Cells(input)
BY DEF IInv, TypeOK

-----------------------------------------------------------------------------
\* Every account of a published cell is in its denominator or excluded once
\* with a reason of its own, in every instance.
THEOREM AccountedFor == Spec => []EveryAccountAccountedFor
<1>1. IInv => EveryAccountAccountedFor
  <2> SUFFICES ASSUME IInv, NEW c \in ExactCells
               PROVE  LET included == ToSet(results[c].denominator_ids)
                          out == results[c].excluded
                      IN  /\ included \cup {x[1] : x \in out} = CohortRecords(input, c)
                          /\ \A x \in out : x[1] \notin included /\ x[2] # {}
                          /\ \A x, y \in out : x[1] = y[1] => x = y
    BY DEF EveryAccountAccountedFor
  <2> DEFINE All == CohortRecords(input, c)
             in == {a \in All : InDenominator(c, a)}
             out == {<<a, ReasonsOf(c, a)>> : a \in {x \in All : ~InDenominator(c, x)}}
  <2>1. ToSet(results[c].denominator_ids) = in /\ results[c].excluded = out
    BY ExactCellsSound DEF ExactSoundly, Membership
  <2>2. {x[1] : x \in out} = {x \in All : ~InDenominator(c, x)}
    <3> DEFINE T == {x \in All : ~InDenominator(c, x)}
    <3>1. ASSUME NEW x \in T PROVE x \in {y[1] : y \in out}
      <4>1. <<x, ReasonsOf(c, x)>> \in out /\ <<x, ReasonsOf(c, x)>>[1] = x
        OBVIOUS
      <4> HIDE DEF out
      <4> QED
        BY <4>1
    <3>2. ASSUME NEW y \in out PROVE y[1] \in T
      OBVIOUS
    <3> HIDE DEF out, T
    <3>3. {y[1] : y \in out} = T
      BY <3>1, <3>2
    <3> QED
      BY <3>3 DEF T
  <2>3. \A x \in out : x[1] \notin in /\ x[2] # {}
    BY ReasonsOfExcluded
  <2>4. \A x, y \in out : x[1] = y[1] => x = y
    OBVIOUS
  <2>5. in \cup {x[1] : x \in out} = All
    BY <2>2
  <2> QED
    BY <2>1, <2>3, <2>4, <2>5
<1> QED
  BY <1>1, Invariance, PTL

\* Erasing what was received after the cutoff leaves the observed events.
LEMMA ObservedAsKnown ==
  ASSUME NEW record \in AccountRecord
  PROVE  /\ Observed(AsKnown(record).activity, AsKnown(record).signup_at)
              <=> Observed(record.activity, record.signup_at)
         /\ Observed(AsKnown(record).core_action, AsKnown(record).signup_at)
              <=> Observed(record.core_action, record.signup_at)
         /\ \A cohort : BaseReasons(AsKnown(record), cohort) = BaseReasons(record, cohort)
<1>1. /\ AsKnown(record).activity
           = {event \in record.activity : event.received_at <= Cutoff}
      /\ AsKnown(record).core_action
           = {event \in record.core_action : event.received_at <= Cutoff}
      /\ AsKnown(record).signup_at = record.signup_at
      /\ AsKnown(record).signup_month = record.signup_month
      /\ AsKnown(record).eligible_at_signup = record.eligible_at_signup
      /\ AsKnown(record).account_class = record.account_class
  BY DEF AsKnown, AccountRecord
<1> QED
  BY <1>1 DEF Observed, ReceivedByCutoff, BaseReasons

\* No published number depends on a fact received after the cutoff, in every
\* instance.
THEOREM NoLookAheadAlways == Spec => []NoLookAhead
<1>1. IInv => NoLookAhead
  <2> SUFFICES ASSUME IInv, NEW c \in ExactCells
      PROVE  /\ ToSet(results[c].denominator_ids)
                  = {a \in CohortRecords(input, c) :
                       DenominatorIncluded(DefinitionOf(input, c),
                                           AsKnown(input.records[a]), CohortOf(c))}
             /\ ToSet(results[c].numerator_ids)
                  = {a \in CohortRecords(input, c) :
                       NumeratorIncluded(DefinitionOf(input, c),
                                         AsKnown(input.records[a]), CohortOf(c))}
    BY DEF NoLookAhead
  <2>1. ASSUME NEW a \in CohortRecords(input, c)
        PROVE input.records[a] \in AccountRecord
    BY DEF IInv, TypeOK, Input, CohortRecords
  <2>2. ASSUME NEW a \in CohortRecords(input, c)
        PROVE  /\ InDenominator(c, a) <=>
                    DenominatorIncluded(DefinitionOf(input, c),
                                        AsKnown(input.records[a]), CohortOf(c))
               /\ InNumerator(c, a) <=>
                    NumeratorIncluded(DefinitionOf(input, c),
                                      AsKnown(input.records[a]), CohortOf(c))
    BY <2>1, ObservedAsKnown
       DEF InDenominator, InNumerator, DenominatorIncluded, NumeratorIncluded, Reasons
  <2>3. Membership(c, CohortRecords(input, c), results[c].denominator_ids,
                   results[c].numerator_ids, results[c].excluded)
    BY ExactCellsSound DEF ExactSoundly
  <2> QED
    BY <2>2, <2>3 DEF Membership
<1> QED
  BY <1>1, Invariance, PTL

\* Over one population the two definitions differ in the denominator alone, in
\* every instance.
THEOREM DenominatorChangeOnlyAlways == Spec => []DenominatorChangeOnly
<1>1. IInv => DenominatorChangeOnly
  <2> SUFFICES ASSUME IInv, NEW c \in ExactCells, NEW d \in ExactCells,
                      SamePlace(c, d),
                      DefinitionOf(input, c).numerator = DefinitionOf(input, d).numerator,
                      "qualifying_activity_within_days"
                        \notin DefinitionOf(input, d).denominator,
                      ExpectedPopulation(DefinitionOf(input, c), CohortOf(c))
                        = ExpectedPopulation(DefinitionOf(input, d), CohortOf(d))
               PROVE  /\ ToSet(results[c].numerator_ids)
                           = ToSet(results[d].numerator_ids)
                      /\ ToSet(results[c].denominator_ids)
                           \subseteq ToSet(results[d].denominator_ids)
    BY DEF DenominatorChangeOnly
  <2>1. CohortRecords(input, c) = CohortRecords(input, d)
    BY DEF CohortRecords, SamePlace
  <2>2. ASSUME NEW a PROVE InNumerator(c, a) <=> InNumerator(d, a)
    BY DEF InNumerator, NumeratorIncluded, SamePlace
  <2>3. ASSUME NEW a, InDenominator(c, a) PROVE InDenominator(d, a)
    BY <2>3 DEF InDenominator, DenominatorIncluded, Reasons, SamePlace
  <2>4. /\ Membership(c, CohortRecords(input, c), results[c].denominator_ids,
                      results[c].numerator_ids, results[c].excluded)
        /\ Membership(d, CohortRecords(input, d), results[d].denominator_ids,
                      results[d].numerator_ids, results[d].excluded)
    BY ExactCellsSound DEF ExactSoundly
  <2> QED
    BY <2>1, <2>2, <2>3, <2>4 DEF Membership
<1> QED
  BY <1>1, Invariance, PTL

-----------------------------------------------------------------------------
(***************************************************************************)
(* The refinement.  The definitions KpiMetric shares with the calculation  *)
(* are the same operators.                                                 *)
(***************************************************************************)
\* The instance's cells, gaps and populations are those of the calculation.
LEMMA SharedDefinitions ==
  ASSUME NEW c
  PROVE  /\ Metric!CohortRecords(input, c) = CohortRecords(input, c)
         /\ Metric!GapsOf(input, c) = GapsOf(input, c)
         /\ Metric!Declared(input, c) <=> Declared(input, c)
         /\ Metric!DefinitionOf(input, c) = DefinitionOf(input, c)
         /\ Metric!CohortOf(c) = CohortOf(c)
         /\ Metric!Supported(DefinitionOf(input, c)) <=> Supported(DefinitionOf(input, c))
         /\ Metric!Cells(input) = Cells(input)
         /\ \A definition :
              /\ Metric!NumeratorClauses(definition) = NumeratorClauses(definition)
              /\ Metric!DenominatorClauses(definition) = DenominatorClauses(definition)
<1>1. /\ Metric!CohortOf(c) = CohortOf(c)
      /\ Metric!ChannelOf(c) = ChannelOf(c)
      /\ Metric!DefinitionOf(input, c) = DefinitionOf(input, c)
      /\ Metric!Cells(input) = Cells(input)
      /\ Metric!Declared(input, c) <=> Declared(input, c)
  BY DEF Metric!CohortOf, CohortOf, Metric!Cohorts, Cohorts, Metric!ChannelOf,
         ChannelOf, Metric!DefinitionOf, DefinitionOf, Metric!Cells, Cells,
         Metric!Declared, Declared
<1>2. ASSUME NEW definition
      PROVE  /\ Metric!Supported(definition) <=> Supported(definition)
             /\ Metric!DependenciesOf(definition) = DependenciesOf(definition)
             /\ \A cohort : Metric!ExpectedPopulation(definition, cohort)
                              = ExpectedPopulation(definition, cohort)
  BY DEF Metric!Supported, Supported, Metric!DependenciesOf, DependenciesOf,
         Metric!DeriveDependencies, DeriveDependencies, Metric!ClauseDependencies,
         ClauseDependencies, Metric!BaseDependencies, BaseDependencies,
         Metric!FactPopulation, FactPopulation, Metric!RosterPopulation,
         RosterPopulation, Metric!ExpectedPopulation, ExpectedPopulation
<1>3. Metric!CohortRecords(input, c) = CohortRecords(input, c)
  BY <1>1, <1>2 DEF Metric!CohortRecords, CohortRecords
<1>4. Metric!DeclarationOf(input, c) = DeclarationOf(input, c)
  BY <1>1 DEF Metric!DeclarationOf, DeclarationOf, Metric!LastFor, LastFor
<1>5. Metric!GapsOf(input, c) = GapsOf(input, c)
  BY <1>1, <1>2, <1>4 DEF Metric!GapsOf, GapsOf, Metric!Gaps, Gaps,
                          Metric!CoverageRecords, CoverageRecords
<1>6. \A definition :
        /\ Metric!NumeratorClauses(definition) = NumeratorClauses(definition)
        /\ Metric!DenominatorClauses(definition) = DenominatorClauses(definition)
  BY DEF Metric!NumeratorClauses, NumeratorClauses, Metric!DenominatorClauses,
         DenominatorClauses, Metric!BaseClauses, BaseClauses
<1> QED
  BY <1>1, <1>2, <1>3, <1>5, <1>6

\* The instance loads the same inputs.
LEMMA SharedInputs == Metric!Input = Input
<1>1. Metric!CohortNames = CohortNames
  BY DEF Metric!CohortNames, CohortNames, Metric!Cohorts, Cohorts
<1>2. /\ Metric!ClauseDependencies = ClauseDependencies
      /\ Metric!BaseDependencies = BaseDependencies
  BY DEF Metric!ClauseDependencies, ClauseDependencies, Metric!BaseDependencies,
         BaseDependencies, Metric!FactPopulation, FactPopulation,
         Metric!RosterPopulation, RosterPopulation
<1>3. Metric!ClauseKinds = ClauseKinds /\ Metric!AllDependencies = AllDependencies
  BY <1>2 DEF Metric!ClauseKinds, ClauseKinds, Metric!AllDependencies,
              AllDependencies, Metric!DeriveDependencies, DeriveDependencies
<1>4. Metric!AccountRecord = AccountRecord
  <2>1. Metric!OptionalEvent = OptionalEvent
    BY DEF Metric!OptionalEvent, OptionalEvent, Metric!Event, Event
  <2>2. /\ Metric!Populations = Populations
        /\ Metric!AccountClasses = AccountClasses
    BY DEF Metric!Populations, Populations, Metric!AccountClasses, AccountClasses
  <2> QED
    BY <1>1, <2>1, <2>2 DEF Metric!AccountRecord, AccountRecord
<1>5. Metric!CoverageDeclaration = CoverageDeclaration
  BY <1>1, <1>3 DEF Metric!CoverageDeclaration, CoverageDeclaration
<1>6. Metric!MetricDefinition = MetricDefinition
  BY <1>3 DEF Metric!MetricDefinition, MetricDefinition, Metric!PredicateForm,
              PredicateForm
<1> QED
  BY <1>1, <1>4, <1>5, <1>6 DEF Metric!Input, Input

\* What each clause says, in the calculation's terms.
LEMMA ClauseMeaning ==
  ASSUME NEW record \in AccountRecord, NEW cohort
  PROVE  /\ Metric!Satisfies("eligibility_at_signup", record, cohort)
              <=> record.eligible_at_signup
         /\ Metric!Satisfies("exclude_account_classes", record, cohort)
              <=> record.account_class \notin {"TEST", "INTERNAL"}
         /\ Metric!Satisfies("signup_cohort", record, cohort)
              <=> record.signup_month = cohort
         /\ Metric!Satisfies("elapsed_day_maturity", record, cohort)
              <=> ~(record.signup_at + WindowDays > Cutoff)
         /\ Metric!Satisfies("qualifying_activity_within_days", record, cohort)
              <=> Observed(record.activity, record.signup_at)
         /\ Metric!Satisfies("core_action_within_days", record, cohort)
              <=> Observed(record.core_action, record.signup_at)
         /\ Metric!Satisfies("all_eligible_matured_signups", record, cohort)
<1>1. record.signup_at \in Nat /\ record.eligible_at_signup \in BOOLEAN
  BY DEF AccountRecord
<1>2. \A events, signup_at :
        Metric!Observed(events, signup_at) <=> Observed(events, signup_at)
  BY DEF Metric!Observed, Observed, Metric!WithinDays, WithinDays,
         Metric!ReceivedByCutoff, ReceivedByCutoff
<1>3. Metric!MatureAtCutoff(record) <=> ~(record.signup_at + WindowDays > Cutoff)
  BY <1>1, ClockIsNatural DEF Metric!MatureAtCutoff
<1> QED
  BY <1>1, <1>2, <1>3 DEF Metric!Satisfies

\* The exclusion reasons of an account are the denominator clauses it fails.
LEMMA ReasonsAreFailedClauses ==
  ASSUME NEW definition \in MetricDefinition,
         NEW record \in AccountRecord, NEW cohort
  PROVE  { kind \in DenominatorClauses(definition) :
             ~Metric!Satisfies(kind, record, cohort) }
           = {ClauseOf[code] : code \in Reasons(definition, record, cohort)}
<1> DEFINE failed == {kind \in DenominatorClauses(definition) :
                        ~Metric!Satisfies(kind, record, cohort)}
           reasons == Reasons(definition, record, cohort)
<1>1. /\ "eligibility_at_signup" \in failed <=> "INELIGIBLE_AT_SIGNUP" \in reasons
      /\ "exclude_account_classes" \in failed <=> "EXCLUDED_ACCOUNT_CLASS" \in reasons
      /\ "elapsed_day_maturity" \in failed <=> "NOT_MATURE_AT_CUTOFF" \in reasons
      /\ "signup_cohort" \in failed <=> "COHORT_LINKAGE_MISMATCH" \in reasons
      /\ "qualifying_activity_within_days" \in failed
           <=> "NO_QUALIFYING_ACTIVITY_BY_CUTOFF" \in reasons
  BY ClauseMeaning DEF Reasons, BaseReasons, DenominatorClauses, BaseClauses
<1>2. reasons \subseteq ReasonCodes
  BY ReasonsType
<1>3. failed \subseteq { "eligibility_at_signup", "exclude_account_classes",
                         "elapsed_day_maturity", "signup_cohort",
                         "qualifying_activity_within_days" }
  BY ClauseMeaning DEF MetricDefinition, ClauseKinds, ClauseDependencies,
                        DenominatorClauses, BaseClauses
<1>4. /\ ClauseOf["INELIGIBLE_AT_SIGNUP"] = "eligibility_at_signup"
      /\ ClauseOf["EXCLUDED_ACCOUNT_CLASS"] = "exclude_account_classes"
      /\ ClauseOf["NOT_MATURE_AT_CUTOFF"] = "elapsed_day_maturity"
      /\ ClauseOf["COHORT_LINKAGE_MISMATCH"] = "signup_cohort"
      /\ ClauseOf["NO_QUALIFYING_ACTIVITY_BY_CUTOFF"]
           = "qualifying_activity_within_days"
  BY DEF ClauseOf
<1> HIDE DEF failed, reasons
<1>5. ASSUME NEW code \in reasons PROVE ClauseOf[code] \in failed
  BY <1>1, <1>2, <1>4 DEF ReasonCodes
<1>6. ASSUME NEW kind \in failed PROVE \E code \in reasons : ClauseOf[code] = kind
  BY <1>1, <1>3, <1>4
<1>7. failed = {ClauseOf[code] : code \in reasons}
  BY <1>5, <1>6
<1> QED
  BY <1>7 DEF failed, reasons

\* An account is in the numerator exactly when it satisfies its clauses.
LEMMA NumeratorSatisfiesClauses ==
  ASSUME NEW definition \in MetricDefinition,
         NEW record \in AccountRecord, NEW cohort
  PROVE  NumeratorIncluded(definition, record, cohort) <=>
           \A kind \in NumeratorClauses(definition) : Metric!Satisfies(kind, record, cohort)
<1>1. BaseReasons(record, cohort) = {} <=>
        \A kind \in BaseClauses : Metric!Satisfies(kind, record, cohort)
  BY ClauseMeaning DEF BaseReasons, BaseClauses
<1>2. NumeratorClauses(definition) \ BaseClauses
        \subseteq {"core_action_within_days", "all_eligible_matured_signups"}
  BY DEF MetricDefinition, ClauseKinds, ClauseDependencies, NumeratorClauses, BaseClauses
<1>3. /\ BaseClauses \subseteq NumeratorClauses(definition)
      /\ "core_action_within_days" \in NumeratorClauses(definition)
           <=> "core_action_within_days" \in definition.numerator
  BY DEF NumeratorClauses, BaseClauses
<1>4. "core_action_within_days" \notin BaseClauses
  BY DEF BaseClauses
<1> QED
  BY <1>1, <1>2, <1>3, <1>4, ClauseMeaning DEF NumeratorIncluded

\* The accounts and exclusions KpiMetric gives a cell are those of the scan.
LEMMA AbstractMembership ==
  ASSUME IInv, NEW c \in Cells(input)
  PROVE  /\ Metric!Denominator(c) = {a \in CohortRecords(input, c) : InDenominator(c, a)}
         /\ Metric!Numerator(c) = {a \in CohortRecords(input, c) : InNumerator(c, a)}
         /\ \A a \in CohortRecords(input, c) :
              Metric!FailedClauses(DenominatorClauses(DefinitionOf(input, c)), a, c)
                = {ClauseOf[code] : code \in ReasonsOf(c, a)}
<1> DEFINE definition == DefinitionOf(input, c)
<1>1. definition \in MetricDefinition
  BY DEF IInv, TypeOK, Input, Cells, DefinitionOf
<1>2. ASSUME NEW a \in CohortRecords(input, c)
      PROVE input.records[a] \in AccountRecord
  BY DEF IInv, TypeOK, Input, CohortRecords
<1>3. ASSUME NEW a \in CohortRecords(input, c)
      PROVE /\ Metric!FailedClauses(DenominatorClauses(definition), a, c)
                 = {ClauseOf[code] : code \in ReasonsOf(c, a)}
            /\ InNumerator(c, a) <=>
                 Metric!FailedClauses(NumeratorClauses(definition), a, c) = {}
  <2> DEFINE record == input.records[a]
             cohort == CohortOf(c)
  <2>1. ASSUME NEW kinds
        PROVE  Metric!FailedClauses(kinds, a, c)
                 = {kind \in kinds : ~Metric!Satisfies(kind, record, cohort)}
    BY SharedDefinitions DEF Metric!FailedClauses
  <2>2. { kind \in DenominatorClauses(definition) :
            ~Metric!Satisfies(kind, record, cohort) }
          = {ClauseOf[code] : code \in Reasons(definition, record, cohort)}
    <3> HIDE DEF definition, record, cohort
    <3>1. record \in AccountRecord
      BY <1>2 DEF record
    <3> QED
      BY <1>1, <3>1, ReasonsAreFailedClauses
  <2>3. NumeratorIncluded(definition, record, cohort) <=>
          \A kind \in NumeratorClauses(definition) : Metric!Satisfies(kind, record, cohort)
    <3> HIDE DEF definition, record, cohort
    <3>1. record \in AccountRecord
      BY <1>2 DEF record
    <3> QED
      BY <1>1, <3>1, NumeratorSatisfiesClauses
  <2> QED
    BY <2>1, <2>2, <2>3 DEF ReasonsOf, InNumerator
<1>4. ASSUME NEW a \in CohortRecords(input, c)
      PROVE InDenominator(c, a) <=>
              Metric!FailedClauses(DenominatorClauses(definition), a, c) = {}
  BY <1>3, ReasonsOfExcluded
<1> QED
  BY <1>3, <1>4, SharedDefinitions
     DEF Metric!Denominator, Metric!Numerator, Metric!Members

\* The clauses of the exclusions of a scan are the abstract exclusions.
LEMMA AbstractExclusions ==
  ASSUME IInv, NEW c \in Cells(input), NEW out,
         out = {<<a, ReasonsOf(c, a)>> :
                  a \in {x \in CohortRecords(input, c) : ~InDenominator(c, x)}}
  PROVE  ClausesOf(out) = Metric!Excluded(c)
<1> DEFINE T == {x \in CohortRecords(input, c) : ~InDenominator(c, x)}
           Failed(a) == Metric!FailedClauses(DenominatorClauses(DefinitionOf(input, c)), a, c)
<1>1. Metric!Excluded(c) = {<<a, Failed(a)>> : a \in T}
  <2>1. CohortRecords(input, c) \ Metric!Denominator(c) = T
    BY AbstractMembership
  <2> QED
    BY <2>1, SharedDefinitions DEF Metric!Excluded
<1>2. \A a \in T : Failed(a) = {ClauseOf[code] : code \in ReasonsOf(c, a)}
  BY AbstractMembership
<1>3. ASSUME NEW x \in out
      PROVE  <<x[1], {ClauseOf[code] : code \in x[2]}>> \in {<<a, Failed(a)>> : a \in T}
  <2>1. PICK a \in T : x = <<a, ReasonsOf(c, a)>>
    OBVIOUS
  <2>2. x[1] = a /\ x[2] = ReasonsOf(c, a)
    BY <2>1
  <2>3. {ClauseOf[code] : code \in x[2]} = Failed(a)
    BY <1>2, <2>2
  <2> QED
    BY <2>2, <2>3
<1>4. ASSUME NEW a \in T
      PROVE  <<a, Failed(a)>> \in ClausesOf(out)
  <2> DEFINE x == <<a, ReasonsOf(c, a)>>
  <2>1. x \in out /\ x[1] = a /\ x[2] = ReasonsOf(c, a)
    OBVIOUS
  <2>2. {ClauseOf[code] : code \in x[2]} = Failed(a)
    BY <1>2, <2>1
  <2> HIDE DEF x
  <2> QED
    BY <2>1, <2>2 DEF ClausesOf
<1> HIDE DEF Failed, T
<1> QED
  BY <1>1, <1>3, <1>4 DEF ClausesOf

\* A published result that maps to the value of its cell resolves the cell.
LEMMA PublishResolves ==
  ASSUME IInv, NEW c \in todo, NEW result, Publish(c, result),
         phase \in {"idle", "scanning"}, ~Metric!Valueless(c),
         AbstractResult(result) = Metric!Value(c)
  PROVE  Metric!Resolve(c)
<1>1. c \notin DOMAIN results
  BY DEF IInv, TypeOK
<1>2. AbstractOutcome = "running" /\ AbstractOutcome' = "running"
  BY DEF AbstractOutcome, Publish
<1>3. DOMAIN AbstractResults = DOMAIN results
  BY DEF AbstractResults
<1>4. AbstractResults' = [d \in DOMAIN AbstractResults \cup {c} |->
                            IF d = c THEN Metric!Value(c) ELSE AbstractResults[d]]
  <2>1. results' = [d \in DOMAIN results \cup {c} |->
                      IF d = c THEN result ELSE results[d]]
    BY DEF Publish
  <2>2. AbstractResults' = [d \in DOMAIN results' |-> AbstractResult(results'[d])]
    BY DEF AbstractResults, AbstractResult, ClausesOf
  <2>3. ASSUME NEW d \in DOMAIN results \cup {c}
        PROVE AbstractResult(results'[d])
                = IF d = c THEN Metric!Value(c) ELSE AbstractResults[d]
    BY <2>1, <1>1 DEF AbstractResults
  <2> QED
    BY <1>3, <2>1, <2>2, <2>3
<1>5. input' = input
  BY DEF Publish
<1> QED
  BY <1>1, <1>2, <1>3, <1>4, <1>5 DEF Metric!Resolve

\* An exception in a cell without a value aborts.
LEMMA RaiseAborts ==
  ASSUME IInv, NEW c \in todo, Raise, phase \in {"idle", "scanning"},
         Metric!Valueless(c)
  PROVE  Metric!Abort(c)
<1>1. c \notin DOMAIN results
  BY DEF IInv, TypeOK
<1>2. AbstractOutcome = "running" /\ AbstractOutcome' = "aborted"
  BY DEF AbstractOutcome, Raise
<1>3. AbstractResults' = AbstractResults /\ DOMAIN AbstractResults = DOMAIN results
  BY DEF AbstractResults, Raise
<1> QED
  BY <1>1, <1>2, <1>3 DEF Metric!Abort, Raise

\* A step inside a scan is no step of the abstract execution.
LEMMA ScanStutters ==
  ASSUME input' = input, results' = results,
         phase' = phase \/ (phase = "idle" /\ phase' = "scanning")
  PROVE  UNCHANGED Metric!vars
BY DEF Metric!vars, AbstractResults, AbstractOutcome

\* A cell with gaps that somebody declared has the refusal as its value.
LEMMA RefusalIsValue ==
  ASSUME IInv, NEW c \in Cells(input), Declared(input, c), GapsOf(input, c) # {}
  PROVE  /\ ~Metric!Valueless(c)
         /\ AbstractResult(NotComputable(GapsOf(input, c))) = Metric!Value(c)
<1>1. ~Metric!Computable(c) /\ Metric!GapsOf(input, c) = GapsOf(input, c)
  BY SharedDefinitions DEF Metric!Computable
<1>2. ClausesOf({}) = {} /\ ToSet(<<>>) = {}
  BY DEF ClausesOf, ToSet
<1>3. Metric!Declared(input, c)
  BY SharedDefinitions
<1> QED
  BY <1>1, <1>2, <1>3
     DEF Metric!Valueless, Metric!Value, AbstractResult, NotComputable

-----------------------------------------------------------------------------
\* The calculation computes the registered clauses: every step publishes the
\* value KpiMetric gives a cell, aborts in a cell without a value, completes, or
\* changes nothing KpiMetric sees - for every input of registered definitions.
THEOREM Implementation == Spec => ImplementsMetric
<1>1. Init => Metric!Init
  <2> SUFFICES ASSUME Init PROVE Metric!Init
    OBVIOUS
  <2>1. input \in Input
    BY InputsWellFormed DEF Init
  <2>2. Metric!Input = Input
    BY SharedInputs
  <2>3. AbstractResults = <<>> /\ AbstractOutcome = "running"
    BY DEF Init, AbstractResults, AbstractOutcome
  <2> QED
    BY <2>1, <2>2, <2>3 DEF Metric!Init
<1>2. IInv /\ [Next]_vars => [Metric!Next]_(Metric!vars)
  <2> SUFFICES ASSUME IInv, [Next]_vars PROVE Metric!Next \/ UNCHANGED Metric!vars
    OBVIOUS
  <2> USE DEF Metric!Next
  <2>0. todo \subseteq Metric!Cells(input) /\ todo \subseteq Cells(input)
    BY SharedDefinitions DEF IInv, TypeOK
  <2>1. ASSUME NEW c \in todo, MissingDeclaration(c) PROVE Metric!Next
    <3>1. Metric!Valueless(c)
      BY <2>1, SharedDefinitions DEF MissingDeclaration, Metric!Valueless
    <3> QED
      BY <2>0, <2>1, <3>1, RaiseAborts DEF MissingDeclaration, NextCell
  <2>2. ASSUME NEW c \in todo, Refuse(c) PROVE Metric!Next
    <3>1. /\ ~Metric!Valueless(c)
          /\ AbstractResult(NotComputable(GapsOf(input, c))) = Metric!Value(c)
      BY <2>0, <2>2, RefusalIsValue DEF Refuse
    <3>2. Metric!Resolve(c)
      BY <2>2, <3>1, PublishResolves DEF Refuse, NextCell
    <3> QED
      BY <2>0, <3>2
  <2>3. ASSUME NEW c \in todo, Unsupported(c) PROVE Metric!Next
    <3>1. Metric!Valueless(c)
      BY <2>3, SharedDefinitions DEF Unsupported, Metric!Valueless, Metric!Computable
    <3> QED
      BY <2>0, <2>3, <3>1, RaiseAborts DEF Unsupported, NextCell
  <2>4. ASSUME NEW c \in todo, StartScan(c) PROVE UNCHANGED Metric!vars
    BY <2>4, ScanStutters DEF StartScan, NextCell
  <2>5. ASSUME NEW a \in pending, ScanAccount(a) PROVE UNCHANGED Metric!vars
    BY <2>5, ScanStutters DEF ScanAccount
  <2>6. ASSUME phase = "scanning"
        PROVE  /\ cell \in todo /\ ComputableCell(cell)
               /\ Metric!Computable(cell) /\ Metric!Declared(input, cell)
               /\ Metric!Supported(Metric!DefinitionOf(input, cell))
    BY <2>6, SharedDefinitions DEF IInv, TypeOK, ScanInv, ComputableCell,
                                   Metric!Computable
  <2>7. ASSUME NEW a \in pending, NumeratorOutsideDenominator(a) PROVE Metric!Next
    <3>1. /\ phase = "scanning" /\ Raise
          /\ InNumerator(cell, a) /\ ~InDenominator(cell, a)
      BY <2>7 DEF NumeratorOutsideDenominator, NextAccount, InNumerator,
                  InDenominator, NumeratorHas, DenominatorHas
    <3>2. a \in CohortRecords(input, cell)
      BY <3>1 DEF IInv, ScanInv
    <3>3. a \in Metric!Numerator(cell) /\ a \notin Metric!Denominator(cell)
      BY <2>0, <2>6, <3>1, <3>2, AbstractMembership
    <3>4. Metric!Valueless(cell)
      BY <2>6, <3>1, <3>3 DEF Metric!Valueless
    <3>5. Metric!Abort(cell)
      BY <2>6, <3>1, <3>4, RaiseAborts
    <3> QED
      BY <2>0, <2>6, <3>1, <3>5
  <2>8. ASSUME phase = "scanning", pending = {}
        PROVE  /\ Metric!Denominator(cell) = ToSet(denominator_ids)
               /\ Metric!Numerator(cell) = ToSet(numerator_ids)
               /\ Metric!Excluded(cell) = ClausesOf(excluded)
               /\ Metric!Numerator(cell) \subseteq Metric!Denominator(cell)
    <3>1. CohortRecords(input, cell) \ pending = CohortRecords(input, cell)
      BY <2>8
    <3>2. Membership(cell, CohortRecords(input, cell),
                     denominator_ids, numerator_ids, excluded)
      BY <2>8, <3>1 DEF IInv, ScanInv
    <3>3. cell \in Cells(input)
      BY <2>0, <2>6, <2>8
    <3>4. Metric!Excluded(cell) = ClausesOf(excluded)
      BY <3>2, <3>3, AbstractExclusions DEF Membership
    <3> QED
      BY <3>2, <3>3, <3>4, AbstractMembership DEF Membership
  <2>9. CASE EmptyDenominator
    <3>1. Metric!Denominator(cell) = {}
      BY <2>8, <2>9, EmptyToSet DEF EmptyDenominator, IInv, TypeOK
    <3>2. Metric!Valueless(cell)
      BY <2>6, <2>9, <3>1 DEF Metric!Valueless, EmptyDenominator
    <3>3. Metric!Abort(cell)
      BY <2>6, <2>9, <3>2, RaiseAborts DEF EmptyDenominator
    <3> QED
      BY <2>0, <2>6, <2>9, <3>3 DEF EmptyDenominator
  <2>10. CASE FinishCell
    <3>1. phase = "scanning" /\ pending = {} /\ Publish(cell, Exact)
      BY <2>10 DEF FinishCell
    <3>2. Metric!Denominator(cell) # {}
      BY <2>8, <2>10, EmptyToSet DEF FinishCell, IInv, TypeOK
    <3>3. ~Metric!Valueless(cell)
      BY <2>6, <2>8, <3>1, <3>2 DEF Metric!Valueless
    <3>4. AbstractResult(Exact) = Metric!Value(cell)
      BY <2>6, <2>8, <3>1 DEF AbstractResult, Exact, Metric!Value
    <3>5. Metric!Resolve(cell)
      BY <2>6, <3>1, <3>3, <3>4, PublishResolves
    <3> QED
      BY <2>0, <2>6, <3>1, <3>5
  <2>11. CASE AssessHorizon
    <3>1. DOMAIN AbstractResults = Metric!Cells(input)
      BY <2>11, SharedDefinitions DEF AssessHorizon, AbstractResults, IInv, TypeOK
    <3>2. AbstractOutcome = "running" /\ AbstractOutcome' = "complete"
      BY <2>11 DEF AssessHorizon, AbstractOutcome
    <3>3. UNCHANGED <<input, AbstractResults>>
      BY <2>11 DEF AssessHorizon, AbstractResults
    <3> QED
      BY <3>1, <3>2, <3>3 DEF Metric!Complete
  <2>12. CASE UNCHANGED vars
    BY <2>12, ScanStutters DEF vars
  <2> QED
    BY <2>1, <2>2, <2>3, <2>4, <2>5, <2>7, <2>9, <2>10, <2>11, <2>12
       DEF Next, Terminated
<1> QED
  BY <1>1, <1>2, Invariance, PTL DEF Spec, ImplementsMetric, Metric!Spec

-----------------------------------------------------------------------------
(***************************************************************************)
(* The ids of a result ascend: they are appended in the order of the ids,  *)
(* each larger than those before it and smaller than those to come.        *)
(***************************************************************************)
Ascending(ids) == \A i, j \in DOMAIN ids : i < j => ids[i] < ids[j]

AscendingUpTo(ids, coming) ==
  Ascending(ids) /\ \A i \in DOMAIN ids : \A a \in coming : ids[i] < a

OrderInv ==
  /\ phase = "scanning" => /\ AscendingUpTo(denominator_ids, pending)
                           /\ AscendingUpTo(numerator_ids, pending)
  /\ \A c \in DOMAIN results : /\ Ascending(results[c].denominator_ids)
                               /\ Ascending(results[c].numerator_ids)

\* The least of a set of naturals.
LEMMA LeastNatural ==
  ASSUME NEW T, T \subseteq Nat, T # {}
  PROVE  \E x \in T : \A y \in T : x <= y
<1>1. PICK x \in T : \A y \in T : ~(<<y, x>> \in OpToRel(<, Nat))
  BY NatLessThanWellFounded, WFMin
<1>2. ASSUME NEW y \in T PROVE x <= y
  <2>1. ~(y < x)
    BY <1>1 DEF OpToRel
  <2> QED
    BY <2>1
<1> QED
  BY <1>2

\* Two ascending lists are the same up to where the first of them ends.
LEMMA AscendingPrefix ==
  ASSUME NEW s \in Seq(Nat), NEW t \in Seq(Nat), Ascending(s), Ascending(t),
         ToSet(s) = ToSet(t),
         NEW k \in DOMAIN s, \A i \in 1..(k - 1) : i \in DOMAIN t /\ s[i] = t[i]
  PROVE  k \in DOMAIN t /\ t[k] <= s[k]
<1>1. /\ Len(s) \in Nat /\ DOMAIN s = 1..Len(s)
      /\ Len(t) \in Nat /\ DOMAIN t = 1..Len(t)
      /\ \A i \in DOMAIN s : s[i] \in Nat
      /\ \A i \in DOMAIN t : t[i] \in Nat
  OBVIOUS
<1>2. PICK j \in DOMAIN t : t[j] = s[k]
  BY DEF ToSet
<1>3. j >= k
  <2> SUFFICES ASSUME j < k PROVE FALSE
    BY <1>1
  <2>1. j \in DOMAIN s /\ s[j] = t[j]
    BY <1>1
  <2>2. s[j] < s[k]
    BY <1>1, <2>1 DEF Ascending
  <2> QED
    BY <1>1, <1>2, <2>1, <2>2
<1>4. k \in DOMAIN t
  BY <1>1, <1>3
<1>5. t[k] <= t[j]
  <2>1. k = j \/ k < j
    BY <1>1, <1>3
  <2> QED
    BY <1>1, <1>4, <2>1 DEF Ascending
<1> QED
  BY <1>2, <1>4, <1>5

\* A set of numbers is listed in ascending order in one way.
LEMMA AscendingUnique ==
  ASSUME NEW s \in Seq(Nat), NEW t \in Seq(Nat), Ascending(s), Ascending(t),
         ToSet(s) = ToSet(t)
  PROVE  s = t
<1>1. /\ Len(s) \in Nat /\ DOMAIN s = 1..Len(s)
      /\ Len(t) \in Nat /\ DOMAIN t = 1..Len(t)
      /\ \A i \in DOMAIN s : s[i] \in Nat
      /\ \A i \in DOMAIN t : t[i] \in Nat
  OBVIOUS
<1> DEFINE Same(i) == i \in DOMAIN s /\ i \in DOMAIN t /\ s[i] = t[i]
           Differ == {i \in DOMAIN s \cup DOMAIN t : ~Same(i)}
<1>2. Differ = {}
  <2> SUFFICES ASSUME Differ # {} PROVE FALSE
    OBVIOUS
  <2>1. PICK k \in Differ : \A i \in Differ : k <= i
    <3>1. Differ \subseteq Nat
      BY <1>1
    <3> HIDE DEF Differ
    <3> QED
      BY <3>1, LeastNatural
  <2>2. \A i \in 1..(k - 1) : Same(i)
    <3> SUFFICES ASSUME NEW i \in 1..(k - 1), ~Same(i) PROVE FALSE
      OBVIOUS
    <3>1. i < k /\ i \in DOMAIN s \cup DOMAIN t
      BY <1>1, <2>1
    <3> QED
      BY <1>1, <2>1, <3>1
  <2>3. k \in DOMAIN s => k \in DOMAIN t /\ t[k] <= s[k]
    BY <2>2, AscendingPrefix
  <2>4. k \in DOMAIN t => k \in DOMAIN s /\ s[k] <= t[k]
    BY <2>2, AscendingPrefix
  <2> QED
    BY <1>1, <2>1, <2>3, <2>4
<1>3. DOMAIN s = DOMAIN t /\ \A i \in DOMAIN s : s[i] = t[i]
  BY <1>2
<1> QED
  BY <1>1, <1>3

\* Lists of accounts are lists of numbers.
LEMMA AccountLists ==
  ASSUME NEW ids \in Seq(Accounts)
  PROVE  ids \in Seq(Nat)
BY AccountsAreOrdered, SeqMonotonic

\* Appending the least of what is to come keeps the order.
LEMMA AscendingAppend ==
  ASSUME NEW ids \in Seq(Nat), NEW coming, coming \subseteq Nat,
         AscendingUpTo(ids, coming),
         NEW a \in coming, \A b \in coming : a <= b
  PROVE  /\ AscendingUpTo(ids, coming \ {a})
         /\ AscendingUpTo(Append(ids, a), coming \ {a})
<1>1. /\ Len(ids) \in Nat /\ DOMAIN ids = 1..Len(ids)
      /\ \A i \in DOMAIN ids : ids[i] \in Nat
      /\ DOMAIN Append(ids, a) = 1..(Len(ids) + 1)
      /\ \A i \in DOMAIN ids : Append(ids, a)[i] = ids[i]
      /\ Append(ids, a)[Len(ids) + 1] = a
  OBVIOUS
<1>2. AscendingUpTo(ids, coming \ {a})
  BY DEF AscendingUpTo
<1> DEFINE longer == Append(ids, a)
<1>3. Ascending(longer)
  <2> SUFFICES ASSUME NEW i \in DOMAIN longer, NEW j \in DOMAIN longer, i < j
               PROVE  longer[i] < longer[j]
    BY DEF Ascending
  <2>1. i \in DOMAIN ids /\ longer[i] = ids[i]
    BY <1>1
  <2>2. CASE j \in DOMAIN ids
    BY <1>1, <2>1, <2>2 DEF AscendingUpTo, Ascending
  <2>3. CASE j = Len(ids) + 1
    BY <1>1, <2>1, <2>3 DEF AscendingUpTo
  <2> QED
    BY <1>1, <2>2, <2>3
<1>4. ASSUME NEW i \in DOMAIN longer, NEW b \in coming \ {a} PROVE longer[i] < b
  <2>1. a < b
    BY <1>4
  <2>2. CASE i \in DOMAIN ids
    BY <1>1, <2>2 DEF AscendingUpTo
  <2>3. CASE i = Len(ids) + 1
    BY <1>1, <2>1, <2>3
  <2> QED
    BY <1>1, <2>2, <2>3
<1> QED
  BY <1>2, <1>3, <1>4 DEF AscendingUpTo

\* The order holds throughout.
LEMMA OrderStep == IInv /\ OrderInv /\ [Next]_vars => OrderInv'
<1> SUFFICES ASSUME IInv, OrderInv, [Next]_vars PROVE OrderInv'
  OBVIOUS
<1>1. ASSUME NEW c \in todo, NEW result, Publish(c, result),
             Ascending(result.denominator_ids), Ascending(result.numerator_ids)
      PROVE  OrderInv'
  BY <1>1 DEF Publish, OrderInv
<1>2. ASSUME Raise PROVE OrderInv'
  BY <1>2 DEF Raise, OrderInv
<1>3. ASSUME NEW c \in todo, MissingDeclaration(c) \/ Unsupported(c) PROVE OrderInv'
  BY <1>2, <1>3 DEF MissingDeclaration, Unsupported
<1>4. ASSUME NEW c \in todo, Refuse(c) PROVE OrderInv'
  <2>1. Ascending(<<>>)
    BY DEF Ascending
  <2> QED
    BY <1>1, <1>4, <2>1 DEF Refuse, NotComputable
<1>5. ASSUME NEW c \in todo, StartScan(c) PROVE OrderInv'
  BY <1>5 DEF StartScan, OrderInv, AscendingUpTo, Ascending
<1>6. ASSUME NEW a \in pending, ScanAccount(a) PROVE OrderInv'
  <2>1. /\ denominator_ids \in Seq(Nat) /\ numerator_ids \in Seq(Nat)
        /\ pending \subseteq Nat
    BY AccountLists, AccountsAreOrdered DEF IInv, TypeOK
  <2>2. /\ \A b \in pending : a <= b
        /\ pending' = pending \ {a}
        /\ denominator_ids' \in {denominator_ids, Append(denominator_ids, a)}
        /\ numerator_ids' \in {numerator_ids, Append(numerator_ids, a)}
        /\ results' = results
        /\ phase = "scanning"
    BY <1>6 DEF ScanAccount, NextAccount
  <2>3. /\ AscendingUpTo(denominator_ids, pending \ {a})
        /\ AscendingUpTo(Append(denominator_ids, a), pending \ {a})
    <3>1. AscendingUpTo(denominator_ids, pending)
      BY <2>2 DEF OrderInv
    <3> QED
      BY <2>1, <2>2, <3>1, AscendingAppend
  <2>4. /\ AscendingUpTo(numerator_ids, pending \ {a})
        /\ AscendingUpTo(Append(numerator_ids, a), pending \ {a})
    <3>1. AscendingUpTo(numerator_ids, pending)
      BY <2>2 DEF OrderInv
    <3> QED
      BY <2>1, <2>2, <3>1, AscendingAppend
  <2> QED
    BY <2>2, <2>3, <2>4 DEF OrderInv, AscendingUpTo, Ascending
<1>7. ASSUME NEW a \in pending, NumeratorOutsideDenominator(a) PROVE OrderInv'
  BY <1>2, <1>7 DEF NumeratorOutsideDenominator
<1>8. CASE EmptyDenominator
  BY <1>2, <1>8 DEF EmptyDenominator
<1>9. CASE FinishCell
  <2>1. /\ phase = "scanning" /\ cell \in todo /\ Publish(cell, Exact)
    BY <1>9 DEF FinishCell, IInv, TypeOK
  <2>2. Ascending(Exact.denominator_ids) /\ Ascending(Exact.numerator_ids)
    BY <2>1 DEF Exact, OrderInv, AscendingUpTo
  <2> QED
    BY <1>1, <2>1, <2>2
<1>10. CASE AssessHorizon
  BY <1>10 DEF AssessHorizon, OrderInv
<1>11. CASE Terminated \/ UNCHANGED vars
  BY <1>11 DEF Terminated, vars, inCell, OrderInv, AscendingUpTo, Ascending
<1> QED
  BY <1>3, <1>4, <1>5, <1>6, <1>7, <1>8, <1>9, <1>10, <1>11 DEF Next

\* Results and what is appended ascend, always.
LEMMA OrderInvariance == Spec => []OrderInv
<1>1. Init => OrderInv
  BY DEF Init, OrderInv
<1> QED
  BY <1>1, OrderStep, Invariance, PTL DEF Spec

-----------------------------------------------------------------------------
\* Definitions with the same clauses need the same sources and take the same
\* accounts, so that their cells in one place are computed or refused alike.
LEMMA SameClausesAgree ==
  ASSUME IInv, OrderInv, NEW c \in DOMAIN results, NEW d \in DOMAIN results,
         SamePlace(c, d),
         DefinitionOf(input, c).numerator = DefinitionOf(input, d).numerator,
         DefinitionOf(input, c).denominator = DefinitionOf(input, d).denominator
  PROVE  results[c] = results[d]
<1>1. GapsOf(input, c) = GapsOf(input, d)
  BY DEF GapsOf, Gaps, DependenciesOf, DeclarationOf, SamePlace
<1>2. CohortRecords(input, c) = CohortRecords(input, d)
  BY DEF CohortRecords, SamePlace, ExpectedPopulation
<1>3. ASSUME NEW a
      PROVE  /\ ReasonsOf(c, a) = ReasonsOf(d, a)
             /\ InDenominator(c, a) <=> InDenominator(d, a)
             /\ InNumerator(c, a) <=> InNumerator(d, a)
  BY DEF ReasonsOf, InDenominator, InNumerator, DenominatorIncluded, Reasons,
         NumeratorIncluded, SamePlace
<1>4. /\ RefusedSoundly(c) \/ ExactSoundly(c)
      /\ RefusedSoundly(d) \/ ExactSoundly(d)
  BY DEF IInv, ResultsInv
<1>5. CASE GapsOf(input, c) # {}
  BY <1>1, <1>4, <1>5 DEF RefusedSoundly, ExactSoundly, ComputableCell
<1>6. CASE GapsOf(input, c) = {}
  <2>1. ExactSoundly(c) /\ ExactSoundly(d)
    BY <1>1, <1>4, <1>6 DEF RefusedSoundly
  <2>2. /\ ToSet(results[c].denominator_ids) = ToSet(results[d].denominator_ids)
        /\ ToSet(results[c].numerator_ids) = ToSet(results[d].numerator_ids)
        /\ results[c].excluded = results[d].excluded
    BY <1>2, <1>3, <2>1 DEF ExactSoundly, Membership
  <2>3. results[c] \in Result /\ results[d] \in Result
    BY DEF IInv, TypeOK
  <2>5. results[c].denominator_ids = results[d].denominator_ids
    <3>1. /\ results[c].denominator_ids \in Seq(Nat)
          /\ results[d].denominator_ids \in Seq(Nat)
      BY <2>3, AccountLists DEF Result
    <3> QED
      BY <2>2, <3>1, AscendingUnique DEF OrderInv
  <2>6. results[c].numerator_ids = results[d].numerator_ids
    <3>1. /\ results[c].numerator_ids \in Seq(Nat)
          /\ results[d].numerator_ids \in Seq(Nat)
      BY <2>3, AccountLists DEF Result
    <3> QED
      BY <2>2, <3>1, AscendingUnique DEF OrderInv
  <2>7. /\ results[c].status = results[d].status
        /\ results[c].reason_codes = results[d].reason_codes
    BY <2>1 DEF ExactSoundly
  <2> QED
    BY <2>2, <2>3, <2>5, <2>6, <2>7 DEF Result
<1> QED
  BY <1>5, <1>6

\* Definitions with the same clauses give the same result in every cell, in every
\* instance: what makes control G2 a control.
THEOREM SameClausesAlways == Spec => []SameClausesSameResults
<1>1. IInv /\ OrderInv => SameClausesSameResults
  BY SameClausesAgree DEF SameClausesSameResults
<1> QED
  BY <1>1, Invariance, OrderInvariance, PTL

-----------------------------------------------------------------------------
(***************************************************************************)
(* The horizon.  Of the items for a cohort, results and horizon take the   *)
(* last; there is one, as lists are finite.                                *)
(***************************************************************************)
IsLastFor(cohort, items, i) ==
  /\ i \in DOMAIN items
  /\ items[i].cohort = cohort
  /\ \A j \in DOMAIN items : items[j].cohort = cohort => j <= i

\* Of items for a cohort there is a last one, and it is what LastFor gives.
LEMMA LastForIsLast ==
  ASSUME NEW items, NEW n \in Nat, DOMAIN items = 1..n,
         NEW cohort, \E i \in DOMAIN items : items[i].cohort = cohort
  PROVE  \E i \in DOMAIN items :
           IsLastFor(cohort, items, i) /\ LastFor(cohort, items) = items[i]
<1> DEFINE mine == {i \in DOMAIN items : items[i].cohort = cohort}
           after == {n - i : i \in mine}
<1>1. \E i \in DOMAIN items : IsLastFor(cohort, items, i)
  <2>1. after \subseteq Nat /\ after # {}
    OBVIOUS
  <2>2. \E x \in after : \A y \in after : x <= y
    <3> HIDE DEF after
    <3> QED
      BY <2>1, LeastNatural
  <2>3. PICK i \in mine : \A j \in mine : n - i <= n - j
    BY <2>2
  <2>4. \A j \in mine : j <= i
    BY <2>3
  <2> QED
    BY <2>4 DEF IsLastFor
<1> DEFINE chosen == CHOOSE i \in DOMAIN items :
                       /\ items[i].cohort = cohort
                       /\ \A j \in DOMAIN items : items[j].cohort = cohort => j <= i
<1>2. chosen \in DOMAIN items /\ IsLastFor(cohort, items, chosen)
  BY <1>1 DEF IsLastFor
<1>3. LastFor(cohort, items) = items[chosen]
  BY DEF LastFor
<1> HIDE DEF chosen
<1> QED
  BY <1>2, <1>3

\* The fields of a verdict the horizon reads.
LEMMA VerdictFields ==
  ASSUME NEW definition, NEW declaration
  PROVE  LET verdict == AssessReconstructability(definition, declaration)
         IN  /\ verdict.cohort = declaration.cohort
             /\ verdict.status = "FULLY_RECONSTRUCTABLE"
                  <=> Gaps(definition, declaration) = {}
BY DEF AssessReconstructability, FullyReconstructable

\* The last verdict for a cohort is about the declaration its cells were computed
\* under, and positive exactly when that leaves no gap.
LEMMA LastVerdict ==
  ASSUME IInv, NEW c \in Cells(input), Declared(input, c),
         DefinitionOf(input, c) = RestatedDefinition
  PROVE  LastFor(CohortOf(c), Verdicts).status = "FULLY_RECONSTRUCTABLE"
           <=> GapsOf(input, c) = {}
<1>1. /\ Len(input.coverage) \in Nat
      /\ DOMAIN input.coverage = 1..Len(input.coverage)
  BY DEF IInv, TypeOK, Input
<1>2. /\ DOMAIN Verdicts = 1..Len(input.coverage)
      /\ \A i \in DOMAIN Verdicts :
           Verdicts[i] = AssessReconstructability(RestatedDefinition, input.coverage[i])
  BY <1>1 DEF Verdicts
<1>3. \A i \in DOMAIN Verdicts : Verdicts[i].cohort = input.coverage[i].cohort
  BY <1>2, VerdictFields
<1>4. PICK i \in DOMAIN input.coverage :
        /\ IsLastFor(CohortOf(c), input.coverage, i)
        /\ LastFor(CohortOf(c), input.coverage) = input.coverage[i]
  BY <1>1, LastForIsLast DEF Declared
<1>5. PICK j \in DOMAIN Verdicts :
        IsLastFor(CohortOf(c), Verdicts, j) /\ LastFor(CohortOf(c), Verdicts) = Verdicts[j]
  <2>1. \E k \in DOMAIN Verdicts : Verdicts[k].cohort = CohortOf(c)
    BY <1>1, <1>2, <1>3 DEF Declared
  <2> QED
    BY <1>1, <1>2, <2>1, LastForIsLast
<1>6. i = j
  BY <1>1, <1>2, <1>3, <1>4, <1>5 DEF IsLastFor
<1>7. Verdicts[i] = AssessReconstructability(RestatedDefinition, input.coverage[i])
  BY <1>2, <1>5, <1>6
<1>8. GapsOf(input, c) = Gaps(RestatedDefinition, input.coverage[i])
  BY <1>4 DEF GapsOf, DeclarationOf
<1> QED
  BY <1>5, <1>6, <1>7, <1>8, VerdictFields

\* Every input defines version 2.0.0 once, and that is the one restated.
LEMMA RestatedUnique ==
  ASSUME IInv, NEW c \in Cells(input)
  PROVE  DefinitionOf(input, c).version = "2.0.0"
           <=> DefinitionOf(input, c) = RestatedDefinition
<1>1. PICK d \in DOMAIN input.definitions :
        \A e \in DOMAIN input.definitions :
          input.definitions[e].version = "2.0.0" <=> e = d
  BY OneRestatedDefinition DEF IInv
<1>2. (CHOOSE i \in DOMAIN input.definitions :
         input.definitions[i].version = "2.0.0") = d
  BY <1>1
<1>3. c[1] \in DOMAIN input.definitions
  BY DEF Cells
<1> QED
  BY <1>1, <1>2, <1>3 DEF RestatedDefinition, DefinitionOf

\* Every cohort has a cell of the restated definition.
LEMMA RestatedCellExists ==
  ASSUME IInv, NEW cohort \in CohortNames
  PROVE  \E c \in Cells(input) :
           CohortOf(c) = cohort /\ DefinitionOf(input, c).version = "2.0.0"
<1>1. PICK d \in DOMAIN input.definitions : input.definitions[d].version = "2.0.0"
  BY OneRestatedDefinition DEF IInv
<1>2. PICK k \in DOMAIN Cohorts : Cohorts[k] = cohort
  BY DEF CohortNames
<1>3. 1 \in DOMAIN Channels
  BY ChannelsListed
<1> DEFINE c == <<d, k, 1>>
<1>4. c \in Cells(input) /\ c[1] = d /\ c[2] = k
  BY <1>3 DEF Cells
<1> HIDE DEF c
<1> QED
  BY <1>1, <1>2, <1>4 DEF CohortOf, DefinitionOf

\* Three different things are three.
LEMMA ThreeElements ==
  ASSUME NEW x, NEW y, NEW z, x # y, x # z, y # z
  PROVE  IsFiniteSet({x, y, z}) /\ Cardinality({x, y, z}) = 3
<1>1. IsFiniteSet({x}) /\ Cardinality({x}) = 1
  BY FS_Singleton
<1>2. IsFiniteSet({x} \cup {y}) /\ Cardinality({x} \cup {y}) = 1 + 1
  BY <1>1, FS_AddElement, y \notin {x}
<1>3. /\ IsFiniteSet(({x} \cup {y}) \cup {z})
      /\ Cardinality(({x} \cup {y}) \cup {z}) = 1 + 1 + 1
  BY <1>2, FS_AddElement, z \notin {x} \cup {y}
<1>4. ({x} \cup {y}) \cup {z} = {x, y, z}
  OBVIOUS
<1> QED
  BY <1>3, <1>4

\* There are three cohorts.
LEMMA ThreeCohorts ==
  ASSUME NEW S \in SUBSET CohortNames
  PROVE  Cardinality(S) = 3 <=> S = CohortNames
<1>1. CohortNames = {"2026-04", "2026-05", "2026-06"}
  BY DEF CohortNames, Cohorts
<1>2. IsFiniteSet(CohortNames) /\ Cardinality(CohortNames) = 3
  BY <1>1, ThreeElements
<1> QED
  BY <1>2, FS_Subset

\* The fields of a horizon.
LEMMA HorizonFields ==
  ASSUME NEW verdicts
  PROVE  LET assessed == HorizonCoverage(verdicts)
             full == assessed.fully_reconstructable_cohorts
         IN  /\ full \subseteq CohortNames
             /\ assessed.non_reconstructable_cohorts = CohortNames \ full
             /\ assessed.status = "COMPLETE" <=> Cardinality(full) = 3
BY DEF HorizonCoverage

\* When the calculation is done, a cohort is restatable exactly when every cell of
\* version 2.0.0 in it is a number.
LEMMA RestatableCohort ==
  ASSUME IInv, phase = "done", NEW c \in DOMAIN results,
         DefinitionOf(input, c).version = "2.0.0"
  PROVE  CohortOf(c) \in horizon.fully_reconstructable_cohorts <=> c \in ExactCells
<1>1. c \in Cells(input)
  BY ResolvedCells
<1>2. RefusedSoundly(c) \/ ExactSoundly(c)
  BY DEF IInv, ResultsInv
<1>3. Declared(input, c) /\ (GapsOf(input, c) = {} <=> c \in ExactCells)
  BY <1>2 DEF RefusedSoundly, ExactSoundly, ComputableCell, ExactCells, NotComputable
<1>4. CohortOf(c) \in CohortNames
  BY <1>1 DEF Cells, CohortOf, CohortNames
<1>5. horizon.fully_reconstructable_cohorts
        = { cohort \in CohortNames :
              LastFor(cohort, Verdicts).status = "FULLY_RECONSTRUCTABLE" }
  BY DEF IInv, DoneInv, HorizonCoverage
<1> QED
  BY <1>1, <1>3, <1>4, <1>5, LastVerdict, RestatedUnique

\* The horizon the migration plan restates over is the set of cohorts with numbers
\* under version 2.0.0, in every instance.
THEOREM HorizonMatchesAlways == Spec => []HorizonMatchesResults
<1>1. IInv => HorizonMatchesResults
  <2> SUFFICES ASSUME IInv, phase = "done" PROVE HorizonMatchesResults
    BY DEF HorizonMatchesResults
  <2> DEFINE restated == {c \in DOMAIN results :
                            DefinitionOf(input, c).version = "2.0.0"}
             full == horizon.fully_reconstructable_cohorts
             without == horizon.non_reconstructable_cohorts
  <2>1. /\ full \subseteq CohortNames
        /\ without = CohortNames \ full
        /\ horizon.status = "COMPLETE" <=> Cardinality(full) = 3
    BY HorizonFields DEF IInv, DoneInv
  <2>2. \A c \in restated : CohortOf(c) \in full <=> c \in ExactCells
    BY RestatableCohort
  <2>3. \A c \in restated : CohortOf(c) \in CohortNames
    BY ResolvedCells DEF Cells, CohortOf, CohortNames
  <2>4. \A cohort \in CohortNames : \E c \in restated : CohortOf(c) = cohort
    <3>1. DOMAIN results = Cells(input)
      BY DEF IInv, TypeOK, DoneInv
    <3> QED
      BY <3>1, RestatedCellExists
  <2> HIDE DEF restated, full, without
  <2>5. full = {cohort \in CohortNames :
                  \A c \in restated : CohortOf(c) = cohort => c \in ExactCells}
    BY <2>1, <2>2, <2>4
  <2>6. without = {CohortOf(c) : c \in restated \ ExactCells}
    BY <2>1, <2>2, <2>3, <2>4
  <2>7. horizon.status = "COMPLETE" <=> restated \subseteq ExactCells
    <3>1. Cardinality(full) = 3 <=> full = CohortNames
      BY <2>1, ThreeCohorts
    <3> QED
      BY <2>1, <2>2, <2>3, <2>4, <3>1
  <2> QED
    BY <2>5, <2>6, <2>7 DEF HorizonMatchesResults, restated, full, without
<1> QED
  BY <1>1, Invariance, PTL
=============================================================================
