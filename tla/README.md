# TLA+ verification of kpi-definition-migration-audit

This directory is a formal model of the audit in `src/kpi_definition_change_trial`
and of its two commands, with the properties it must have, checked by TLC on small
instances and, all but liveness, proved with TLAPS for every value of the constants.
Paths below are relative to the repository.

## The system

The audit asks what a change of a KPI definition does to published numbers: it
computes one activation rate under two registered definitions (1.0.0 and 2.0.0,
plus 1.0.1, a metadata-only control) over the same records, decides which months
the source coverage lets it restate, compares, derives decision changes and a
migration plan, validates all of it against itself, and writes it as a bundle of
files with a manifest. `run_golden` rewrites the checked-in bundle in place;
`run_demo` generates the same files elsewhere, compares every byte and prints.

| Part | Keeps | Does | Hard about it |
|---|---|---|---|
| Definitions (`models.py`, `fixtures/definitions`) | predicates, dependency projection | derive dependencies, check the projection a file carries | the projection must cover what the calculation reads |
| Coverage (`calculation.py` 26-74, 210-237) | declarations per cohort | verdicts, horizon | undeclared dependencies, cohorts declared twice or never |
| Calculation (`calculation.py` 87-207, `runner.py` 77-88, 425-437) | ids and exclusions appended during a scan, results | one cell after another | inclusive bounds, receipt against occurrence, accumulators, exceptions half way |
| Identity and arms (`canonical.py`) | hashes, diffs, fingerprints | bring predicates into one form, compare, attribute a difference | one meaning must have one hash; a confounded context must refuse attribution |
| Comparisons, decisions, plan (`evaluation.py`) | deltas, states, actions | gate on policy | plan, horizon and comparisons must agree |
| Barrier (`consistency.py`, `runner.py` 129-358) | nothing | resolve references, recompute and compare | fields it never recomputes, duplicate ids |
| Runner (`runner.py` 361-664) | the evidence | loads eleven files, calls the stages in order, controls | files edited between two reads; refuse before anything is written |
| Publication (`runner.py` 697-751, `scripts/run_golden`) | `artifacts/golden`, `schemas` | write file after file, manifest last | crash between files, stray files, stale manifest |
| Demonstration (`demo.py`, `scripts/run_demo`) | a temporary directory | compare, take a story out of seven files, print | reads while they are rewritten, a trap that does not exit, joins by name, labels that do not exist |
| Report, command line, tests, environment | - | formatting, arguments | - |

The stages call one another in one process and share only the values they pass;
the process is sequential. What runs concurrently is the two commands, through
the checked-in trees, and the people who edit the repository meanwhile. There is
no persistence besides the files and no network.

## Modules

| Module | Models |
|---|---|
| `KpiDefinitions` | clause kinds and their dependencies, `derive_dependencies`, versions 1.0.0, 2.0.0, 1.0.1 |
| `SourceCoverage` | `coverage_records`, `assess_reconstructability`, `horizon_coverage` |
| `KpiInputs` | what an execution loads, with the validators of the records; the clock rules; cells; the population of a cell |
| `KpiMetric` | abstract specification: what a result set promises, cell by cell, in any order |
| `KpiCalculation` | `_result_set` and `calculate_metric` account after account, every early return and every exception; then the horizon |
| `KpiProperties` | the properties of the calculation and its refinement mapping to `KpiMetric` |
| `KpiCalculationProofs` | the proofs about it: types, the inductive invariant, the refinement and the properties |
| `Evaluation` | arm differences of `canonical.py`; comparisons, decisions and the migration plan of `evaluation.py` over exact fractions |
| `Consistency` | the barrier: `consistency.py` and `_validate_identity_derivation`, one operator per check |
| `Audit` | `build_evidence` stage by stage, its controls, the barrier in its four stages, and the refusals of `execute` |
| `AuditProperties` | the properties across stages |
| `AuditProofs`, `BarrierProofs` | the proofs about them: the stages; that the barrier agrees with them |
| `AlteredEvidence` | the barrier over evidence some fields of which have other values |
| `AlteredProofs` | the proofs about what it lets through |
| `DefinitionIdentity` | definition files while people edit one: loading, `canonical_predicate`, both identities, `definition_diff`, attribution |
| `DefinitionIdentityProofs` | the proofs about it |
| `Loading` | how the two commands read the fixtures, one file after another, while people edit them |
| `LoadingProofs` | the proofs about it |
| `Publication` | `execute`, `write_evidence`, `write_schemas`, `run_golden`, `run_demo`, `validate_canonical_match`, and the people around them |
| `PublicationProofs` | the proofs about them |
| `Demonstration` | `load_demo_evidence` over what an execution publishes |
| `DemonstrationProofs` | the proofs about it |
| `MCKpiRecords`, `MCKpiCoverage`, `MCAudit`, `MCAlteredEvidence`, `MCDefinitionIdentity`, `MCLoading`, `MCPublication`, `MCPublicationTwo` | instances for TLC; `MCFixtures` holds the accounts and declarations several of them share |

`KpiCalculation` extends `KpiInputs`, which extends `SourceCoverage` and
`KpiDefinitions`. `KpiProperties` extends it and instantiates `KpiMetric` with a
refinement mapping. `Evaluation` extends `KpiInputs`, `Consistency` extends it, and
`Audit` composes both with the calculation: it takes the result of each cell from
`KpiMetric`, which theorem `Implementation` shows `KpiCalculation` to implement.
`AlteredEvidence` puts one step between the stages of `Audit` and its barrier;
`Demonstration` puts one behind its end. `DefinitionIdentity` extends
`KpiDefinitions`: it has files clause by clause, and shows that the code's identities
depend on the clauses of each predicate, with their values, repetitions and form, and
not on their order. The other modules keep of this the set of the kinds of the clauses,
whether the predicate is a conjunction, and a value that stands for class values and
repetitions. `Loading`
and `Publication` stand on their own, before and after what `Audit` models: what
an execution decides is a choice in the one and a boolean of a version of the
sources in the other.

### The calculation

| State | Code |
|---|---|
| `input` | the models `build_evidence` loads |
| `todo`, `cell` | the position in the two loops of `_result_set`, for each of the three definitions |
| `pending` | what is left of `cohort_records` |
| `denominator_ids`, `numerator_ids`, `excluded` | the lists of that name |
| `results`, `horizon` | the result sets and `horizon_coverage(v2_reconstructability)` |
| `phase` | whether the code is between cells, in a scan, done, or ended by an exception |

`MissingDeclaration` is the `KeyError` of `declarations[cohort]`, `Refuse` the
early return without a number, `Unsupported` and `NumeratorOutsideDenominator` and
`EmptyDenominator` the three `ValueError`s, `StartScan` the selection of the
records and the fresh lists, `ScanAccount` one turn of the loop, `FinishCell` the
exact result, `AssessHorizon` the reconstructability of version 2.0.0 and the
horizon.

What is abstracted: an instant is a natural number; an optional event is a set of
at most one pair of instants (the validator pairs them); the month `signup_at` is
written in is a field of its own, because its offset makes it independent of the
instant; the exact value is the pair of memberships it is the ratio of; of a
predicate the calculation has the set of its clause kinds, which is all `_clause_kinds`
keeps; reason codes of refusals are pairs of status and dependency. Identifiers and
evidence ids are left out.

Assumptions on the constants, checked by TLC in every run: one definition has version
2.0.0; accounts are naturals (the order in which ids sort), channels are distinct,
inputs are well formed as the validators require. What definitions list is free:
`calculate_metric` applies the base checks whatever the definition lists and looks for
each window clause in one predicate only, so a definition other than the registered
ones is not computed as it is written. `NumeratorClauses` and `DenominatorClauses` say
which clauses apply, and `KpiMetric` is stated with them.

### The audit

| State | Code |
|---|---|
| `input` | the models `build_evidence` loads; the first two definitions are 1.0.0 and 2.0.0 |
| `evidence` | its local variables, by name, each added by one stage and never changed |
| `stage`, `outcome` | the next stage, or the one that raised; `published` is `execute` about to write |

`Analyse` to `Plan` are the calls of `build_evidence` in their order, `Control` the
four controls. The barrier is four stages, each with its refusal: the reference
graph and the inputs of the derivation, the comparisons, the decision changes and
impact, and the plans; then `Release`, the checks of `execute`. `CalculationRaises`,
`RequiredResultAbsent`, the refusals of the barrier and `ReleaseRaises` are the
exceptions. Identities are compared as values, because a hash is of the whole
value; the semantic projection is the pair of predicates as they are written
(`Written`: the clauses and the form), since its other fields have one value or follow
from them. A rate is the pair of the counts and is
compared by cross-multiplication. A trend state carries the difference it ends
with, as its text does. What each comparison, change, rule and action cites is
modelled, since the reference graph resolves it; rationales are not. Of the policy
and the contract the fields their models allow one value for are constants, and so are
the threshold and the frozen counts of control G1. The ids in `assumptions.json`, the
rules in `migration_policy.json` and the cell control G4 looks at are free in their
models and are part of `input`.

Over evidence that comes straight from the stages the barrier recomputes with the
same functions from the same values, so it can only refuse what it resolves by
itself: an assumption or a rule that the code cites and no file declares, duplicate
identifiers, and the first of two April verdicts. What it is worth
shows when the evidence is not what the stages made. `AlteredEvidence` gives up to
`MaxAlterations` fields other values of their types before the first check: every
field of comparisons, decision changes, impact, plans with their rules and actions,
controls, horizon, analyses, results and verdicts, some in ways the tests of the
barrier use and some in ways they do not. References of records, arms and coverage
records are not altered.

### Definition files

`before` and `after` are two files; people edit the second before both are loaded:
they reorder or repeat clauses and excluded classes, replace clauses, change
metadata, and copy a dependency projection into the file which later edits may leave
behind. `Load` is the validation of the model, `Compare` the identities, the the diff
and the attribution. A file is a record of its fields, a predicate a sequence of
clauses; `Sorted` ranks each place by the number of its item and then by itself, as a
stable sort does. The orders of classes and of clauses (the bytes of their JSON) are
constants: lists without repetition. `version` and `description` stand for the metadata the diff
compares; `owner` is metadata it does not. A projection is a set: the code compares
sorted lists.

### Loading

`disk` is what the fixtures hold, `loader` where each command is, which files it has
still to read and what it has read. `Read` is one `_load`, `LoadRaises` any exception
while loading, `Loaded` the two checks over what was read, `Refuse` any later
refusal. `Publish` replaces the accepted evidence in one step and `Compare` compares
with it in one step; how that goes file after file is in `Publication`. The evidence
is the hash of the inputs and those inputs it repeats or hashes on its own; what it
shows of records and coverage beyond that hash is left out, because different
records may have the same results. `source` is a history variable.

### Demonstration

`Show` is `load_demo_evidence` over a published execution: which single item is
taken from which file, which label it gets, and where it raises; labels are looked for
among the members of a conjunction only, as `_denominator_label` does. The headline, May
and Alpha are texts of the code. Decimals and layout are left out.

### Publication

`accepted` is the content of each name of the checked-in trees. A file is opened,
which empties it (`Torn`), then written. A content is one value per file and
version of the sources, the manifest the identity of the inputs and the contents
it hashed. A publisher works through `WriteOrder`; the manifest is composed by
listing the directory and hashing each file, one step each. `Crash` stops it
anywhere. `run_demo` generates in one step (nobody else writes its directory),
then lists and reads the checked-in names in order, one step each, then compares;
the schemas are listed with the evidence rather than after it, which makes no
difference because no schema ever vanishes. `Interrupt` is the trap of the script,
which runs once the first command has ended, empties the directory and goes on.
`Edit`, `LeaveFile` and `RemoveFile` are what people do. Reading the sources and
everything `execute` does before it writes is one step: nothing is visible
outside until `write_evidence` begins.

Nothing keeps two `run_golden` apart, and the model has both usages. With one at a
time, which is what `docs/reproducibility.md` asks for (a clean worktree and one
deliberate regeneration), all properties are checked. With two at once
`ManifestVouches` and `PrintedEvidenceStood` do not hold: a run hashes a file the
other has opened and not yet written. A file two runs write at once may then end up
`Mixed`. `alone` is a history variable: whether any other run wrote while this one
did. `PublishedIsWhole` is checked for both usages: a run beside which nobody wrote
repairs whatever collisions left.

## Properties and runs

| Run | Checks | Bounds |
|---|---|---|
| `kpi_records` | `TypeOK`, `NoLookAhead`, `DenominatorChangeOnly`, `EveryAccountAccountedFor`, `ImplementsMetric` | two accounts in one cell; the first ranges over 7 profiles, 6 x 6 pairs of facts before, at the ends of, and past the window and received late, and both populations; in April and in May of the registered definitions, in May also of two that list no base clause and other window clauses; 12096 inputs |
| `kpi_coverage` | `SameClausesSameResults`, `HorizonMatchesResults`, `ImplementsMetric` | nine fixed accounts, all 18 cells; every choice of four declarations per cohort, each again with one more declaration of any cohort, and each with a cohort missing; definitions that list other clauses than are applied; three inputs with no value; 915 inputs |
| `kpi_population` | `IncompletePopulationNeverYieldsNumber` | as `kpi_coverage`; a violation, see below |
| `publication` | `TypeOK`, `PrintedEvidenceStood`, `ManifestVouches`, `PublishedIsWhole` | two evidence files, one schema, one stray name, four versions (three pass), one publisher, `MaxEdits` = 2 |
| `publication_liveness` | `CommandsEnd` | the same with `MaxEdits` = 1 |
| `publication_two` | `PublishedIsWhole` | two publishers, interchangeable; three versions (two pass), `MaxEdits` = 2; no demonstration |
| `audit` | `PlanFollowsCoverage`, `RestatementLowersOnly`, `PublishedIsolatesDenominator`, `MetadataControlIsSemantic`, `BarrierAgreesWithStages`, `OnlyWritingUndisplayable`, `DisplayTellsEvidence`, `HeadlineHolds` | the accounts of `kpi_coverage`, with four other sets of facts and other choices of definitions, some of them ones the demonstration has no label for, some the registered ones in other words; every coverage as there, also without each of the assumptions and rules, and with each cell for G4; 7761 inputs |
| `audit_verdicts` | `NoContradictoryVerdicts` | as `audit`; a violation, see below |
| `altered_evidence` | `AcceptedPlanStands`, `AcceptedNumbersAgree`, `NoDecisionSlips` | evidence of the intended input, which is published, and of one whose April can be restated, which the policy refuses; every alteration and every pair of them; 203174 states |
| `altered_rebuilt` | `PublishedComparisonsRebuilt` | the same with one alteration; a violation, see below |
| `definition_identity` | `IdentityIsMeaning`, `DiffExplainsIdentity`, `OnlyDenominatorAttributed` | three pairs of files, `MaxEdits` = 3 |
| `loading` | `AcceptedSourcesAgree`, `PrintedFromSameInputs` | two accounts of one snapshot, all eleven files, `MaxEdits` = 2 |

Why the bounds are enough. One account at a time decides membership, so every
combination of one account's fields, beside a companion that keeps the denominator
from being empty or not, meets each guard of the loop; what spans accounts and
cells (order, accumulators, exceptions half way) needs two. The four declarations
are the ways a dependency of one or of both versions can be short. In the
publication two evidence files and a schema give a before, a between and an after
for every crash; `MaxEdits` bounds everything people do, and two is enough for a
bundle of one version to be half replaced by a second and read or rerun under a
third. The audit is sequential and ends, so its instances vary only the input: the
coverage decides which stage refuses, one account at a time moves a rate across the
threshold or leaves a cell without a value, each choice of definitions breaks
one premise of the controls or of the display, and one id left out breaks each
citation. Two alterations are what it takes to alter a value and
what it is checked against; the pairs are taken over all fields. Three edits of a
definition file can give it a projection, change what it is derived from and change
it back. Two edits of the fixtures rename an id in one file and then in the other,
with reads before, between and after. The proofs cover any number of edits and, of
`AcceptedPlanStands` and `AcceptedNumbersAgree`, of alterations. Crashes and
reruns are not bounded. `Input` of the abstract specification is wider than the
enumerated `Inputs`; the proofs cover the rest.

- `ImplementsMetric`: each published cell is the refusal or the set of accounts that
  satisfy every clause that applies, listed or not, with the failed clauses of each
  excluded account; it is resolved once and left alone; an exception comes only where
  no value exists.
- `NoLookAhead`: erasing what was received after the cutoff changes no published
  membership.
- `DenominatorChangeOnly`: over one population the versions share the numerator,
  and the old denominator is inside the new one; the audit attributes differences
  to the denominator on this premise.
- `SameClausesSameResults`: equal clauses, equal results, whatever was computed in
  between (the premise of control G2).
- `EveryAccountAccountedFor`: each account of a cell is included or excluded once,
  with a reason; the fallback `NOT_IN_DENOMINATOR` is never needed.
- `HorizonMatchesResults`: the cohorts the horizon declares restatable are those
  whose version 2.0.0 results are numbers, also when a cohort is declared twice.
- `PrintedEvidenceStood`: what the demonstration prints passed its controls and has
  stood whole in the checked-in tree at some moment. It is not said that the tree
  stood whole at a moment of the comparison: a kill, a rerun and an edit can make
  the demonstration read the pieces of a bundle that was whole before.
- `ManifestVouches`: a manifest whose hashes match the directory is the manifest of
  one whole bundle of sources that pass.
- `PublishedIsWhole`: after a `run_golden` that ended and beside which no other wrote,
  every generated file is of its version and hashed in its manifest, whatever earlier
  runs left.
- `AcceptedSourcesAgree`: accepted evidence comes from records of one account each
  that cite snapshots declared for them, never the one of control G3, and from the
  registered pair of versions, whatever was edited between two reads.
- `PrintedFromSameInputs`: the demonstration prints only what it computed from the very
  inputs of the accepted evidence, although it compares files and not inputs.
- `PlanFollowsCoverage`: a positive plan restates exactly the horizon's restatable
  cohorts and marks exactly the others; what is published always carries a positive
  plan, and has numbers under both versions in the cohorts it bridges. So a
  refusing plan is built but never written.
- `RestatementLowersOnly`: where attribution is valid and the new denominator has no
  activity clause, restating moves no threshold
  from FAIL to PASS, and the restated trend is no worse than the stitch.
- `PublishedIsolatesDenominator`: published evidence differs in the denominator only,
  and 1.0.1 has the results of 1.0.0.
- `MetadataControlIsSemantic`: G2 passes exactly when 1.0.1 is another artifact with
  the predicates of 1.0.0, values, repetitions and form included. That equal clauses
  give equal results, refused or not, is what makes the two directions meet.
- `BarrierAgreesWithStages`: of what the stages made, the reference graph refuses
  exactly what cites an assumption or a rule that no file declares
  (`CitedAreDeclared`; one of the assumptions and four of the rules are cited by a
  restating plan only); the checks behind it raise only over duplicate identities, an
  invalid attribution (both plans then have the identifier of the G3 plan) or two
  different April verdicts; nothing passes with one of these but the verdicts.
- `AcceptedPlanStands`: evidence that passes the barrier, altered or not, recommends a
  restatement exactly when its own horizon, verdicts, controls, attribution and
  stitch allow one, and never in the plan of control G3.
- `AcceptedNumbersAgree`: in evidence that passes, comparisons quote the results they
  name and their difference, and the decisions say what these numbers say.
- `NoDecisionSlips`: no alteration of one or two fields gets a changed plan, decision,
  impact, control or attribution past the barrier. What does get past is what no
  decision rests on, see below.
- `IdentityIsMeaning`: two definitions have one semantic identity exactly when both
  predicates say the same, in whatever order.
- `DiffExplainsIdentity`: the diff says `EQUIVALENT` exactly when the semantic hashes
  agree, although the hash covers the projection and the diff passes it over.
- `OnlyDenominatorAttributed`: a change of results is attributed only if the denominator
  says something else and the numerator does not, and the listed implications are
  then the whole difference of the dependencies.
- `OnlyWritingUndisplayable`: the demonstration refuses published evidence over the way a
  denominator is written and over nothing else. One that is a single clause and no
  conjunction has the dependencies and the counts of the registered one, passes the
  controls and the barrier, is published, and is refused by `_denominator_label`
  (`demo.py:88-93`). So is a 1.0.0 that lists both populations, which passes only where
  2.0.0 depends on something 1.0.0 does not. Everything else the demonstration raises
  for, the controls and the barrier keep from being published.
- `DisplayTellsEvidence`: each displayed count stands by the label of the accounts it
  counts, ranges cover exactly the cohorts of the horizon and the plan, and the
  confounded arm is shown refused.
- `HeadlineHolds`: the printed headline is true of everything that can be published.
- `CommandsEnd`: both commands end.

Fairness. Only `Publication` has any: in it a command that has begun goes on
(`WF` on the steps of each); starting a command, a crash, a signal and what people
do are not fair. `CommandsEnd` lets a command end by being killed.

`Terminated` lets the calculation and the audit stutter at their end, so deadlock is
checked in all runs.

### What disagrees with the code

`kpi_population` finds a number over a population that is not declared complete:
`tests/test_calculation_and_coverage.py:77` is named
`test_c15_incomplete_population_never_yields_number` and tests version 2.0.0. In May
and June versions 1.0.0 and 1.0.1 read `AUTHORITATIVE_SIGNUP_ROSTER` as well
(`calculation.py:114-119`), but their projection requires only the activity-qualified
fact (`models.py:115-119`); with the roster undeclared or unavailable they still
give an exact value.

`audit_verdicts` finds published evidence that contradicts itself.
`validate_evidence_consistency` (`runner.py:327`) says it rejects "internally
contradictory evidence before serialization". Nothing forbids `coverage.json` to
declare a cohort twice; `runner.py:429-433` makes a verdict of each declaration, and
the bundle then holds two records of one `reconstructability_id`, one
`NOT_RECONSTRUCTABLE` and one `FULLY_RECONSTRUCTABLE`, for a May that the results,
the horizon and the plan take from the later declaration. The barrier indexes
results, comparisons, analyses and plans by unique identifier, but not verdicts.

`altered_rebuilt` finds published evidence with a comparison that the stages would
not have built. `README.md:58` says the barrier "independently rebuilds comparisons,
decision changes, impact, operand outcomes, and migration plans". Decision changes,
impact and plans are rebuilt and compared whole; a comparison is only checked for
its endpoints repeating the results they name, its difference, its context flag and
some implications between verdict, validity and versions (`consistency.py:89-157`).
In the run the left endpoint of an impact comparison names another result of the
channel, with the difference of that pair, and passes. What passes with up to two
alterations, besides that: the judgement of a comparison no decision reads and what
it cites; cohort lists of the horizon; the verdicts of 1.0.0 and 1.0.1; results no
comparison names; context flags and analysis identifiers altered together; an
assumption nobody refers to.

## Proofs

TLAPS proves what follows for all constants that satisfy the named assumptions:
every set of accounts, channels, cutoffs and inputs, every number of edits, of
versions of the sources, of files and of alterations.

Assumptions, besides those of the calculation above, all of them evaluated by TLC:

- `RecordsAreSequences`, `OriginalIsSound` (`Loading`): records are sequences, and the
  fixtures people begin with resolve.
- `ThreeDefinitions`: the first two definitions have the versions the names of their
  files say. The model of a definition leaves the version free; later stages ask for
  results of 1.0.0 and 2.0.0 by these names (`_require_result`) and raise where there are
  none, so what is left out is the two files with their versions exchanged.
- `TwoChannels`, `ThresholdIsFraction`: what the models of a record and the contract fix.
- `OrdersAreLists`, `ClausesRegistered`, `OriginalsAreFiles` (`DefinitionIdentity`): the
  two orders have no repetition, the clauses of the one are registered, over classes of
  the other and in canonical form there again, and people begin with well-formed files.
- `OracleIsOfGoldenKeys` (`Audit`): the frozen counts of `runner.py:468-479` are of
  the cells both versions have, all but April under 2.0.0.
- `OracleTellsMay` (`Demonstration`): of May and the first channel they say 7 of 8
  and 7 of 10, on both sides of the threshold 4/5. Only the theorems of the
  demonstration use it: the headline is a text, and it is true because of these counts.
- `FilesGiven`, `NamesDistinct`, `NamesSorted`, `MarkersDistinct` (`Publication`): the
  files are listed, with different names, and no content is an absent or an empty file.

The calculation:

- `TypeCorrect` (`KpiCalculationProofs`): `Spec => []TypeOK`.
- `Invariance` (`KpiCalculationProofs`): `Spec => []IInv`. The properties speak of
  published cells; a published cell is what a scan has accumulated, so `IInv` says
  of a scan that the accounts already seen (those of the cell not pending) are
  exactly the appended and the excluded ones, each where its own predicate puts it,
  that the numerator is inside the denominator, and of each resolved cell that it is its refusal or
  its complete membership.
- `AccountedFor`, `NoLookAheadAlways`, `DenominatorChangeOnlyAlways` and
  `Implementation` (`KpiCalculationProofs`): the four properties from `IInv`. For
  `Implementation` each action is shown to resolve, to abort or to stutter:
  publishing resolves, the four exceptions abort, a scan changes nothing abstract,
  and the horizon completes. The key lemmas are that the reason codes name exactly
  the failed clauses and that the numerator is the set of accounts satisfying the
  clauses that apply to it.
- `SameClausesAlways` and `HorizonMatchesAlways` (`KpiCalculationProofs`). The first
  needs results equal as lists: a second invariant, `OrderInv`, says that appended ids
  ascend and are below what is pending, and `AscendingUnique` that a set of numbers is
  listed in ascending order in one way (from the least place where two lists differ,
  since induction is out of reach). The second rests on `LastForIsLast`: the results
  take the last declaration of a cohort, the horizon the last verdict, and these stand
  at the same place. It needs a channel to exist, which `ChannelsListed` states.

Definition files:

- `FilesInvariance` (`DefinitionIdentityProofs`): files stay well formed under every
  edit (`ReversedClause`: turning the classes of a clause round leaves its canonical
  form), a loaded file carries the projection of its own predicates, and nobody edits
  after the comparison, so what it found is what it would find.
- `IdentityAlwaysMeaning`, `DiffAlwaysExplains` and `AttributionIsExact`. They rest on
  `SortedAgree`: two sequences are sorted into the same one exactly when every item
  occurs as often in both. In one direction the ranks are a bijection, because a smaller
  pair has fewer pairs up to it and there are as many pairs as places (`RankIs`), so
  sorting rearranges. In the other, two sequences in order with the same items agree up
  to the least place where they differ, where neither can be behind the other
  (`InOrderUnique`); induction is not needed. Used twice, for the classes of a clause
  and for the clauses of a predicate, it makes the canonical form the meaning
  (`CanonicalIsMeaning`); equal forms then have equal kinds of clauses and so, loaded,
  equal projections.

Loading:

- `AcceptedSources` and `PrintedSources` (`LoadingProofs`). The invariant says that a
  command that is loading holds some fixtures and has the others to read, that what
  a loaded command holds has passed the checks, and that the accepted evidence is
  that of such inputs. Equal evidence then means equal inputs, since the one hash
  covers every fixture.

The audit:

- `AuditInvariance` (`AuditProofs`): `Spec => []IInv`. The properties speak of evidence
  whose pieces eight stages made; a later stage reads what an earlier one wrote, so
  `IInv` says which pieces each stage finds (`ProducedInv`), that every piece there is
  still equals what its stage derives from the input and the pieces before it
  (`DerivedInv`), and which checks a stage of the barrier has behind it (`BarrierInv`).
  Each action adds to the evidence and changes nothing of it (`Grows`).
- `MetadataControlAlways`, `IsolationAlways`, `PlanFollowsCoverageAlways` and
  `RestatementLowersAlways` (`AuditProofs`). The third goes through the gate: a positive
  plan has every operand true, so its cohorts are those of the horizon, which the
  results follow. In the fourth the new denominator holds every account of the old one
  and the numerators are the same, so the rate only falls, by cross-multiplication.
- `BarrierAgreesAlways` (`BarrierProofs`): each check is shown of the derived pieces,
  references first (`StagesResolve`, from `CitedAreDeclared`), then comparisons
  (`StagesCompare`), decisions (`StagesDecide`) and plans (`StagesPlan`), from the
  premises the property names. That the references resolve only then is from what
  plans and changes cite (`PlansCite`).

The barrier over altered evidence, the first three for any number of alterations:

- `AlteredInvariance` (`AlteredProofs`). Until the first check the evidence is that of
  the stages and `IInv` holds. From then on it is altered and little is left: `ShapeInv`
  keeps what no alteration touches (the identifiers of the comparisons, that their ends
  name golden results, the two citations the trend decision may have, that no plan
  traces a stitch that was not refuted, plan identifiers), and `PassedInv` says that the
  checks already made still hold, since nothing is altered between two of them.
- `AcceptedPlanAlways`: plans that pass have two identifiers, hence are the recomputed
  ones; a gate that lists no failed stitch had its stitch refuted, by the one
  comparison with that identifier.
- `AcceptedNumbersAlways`: comparisons quote the results they name and decisions are
  those recomputed from the three comparisons that passed.
- `NoDecisionSlipsOfTwo`: `NoDecisionSlips` for `MaxAlterations <= 2`, which the theorem
  assumes and the run instantiates; every other constant is free. With three it is
  false: the context flag of the golden analysis and those of both trends, altered
  together, pass. Two fields are few enough to tell from the evidence which were
  altered. `SlipInv` says so of each part a decision reads (`Followed`): where no field
  of it was altered it is what the stages left, and where some were, it is none of what
  the barrier recomputes. Every alteration keeps this, form by form (`AlterFollowed`),
  and the stages establish it (`StagesFollowed`). Two things stay beside the evidence,
  the controls and the difference of May that the stages found. At the release:
  - both plans are recomputed and differ in their identifier, so the attribution was
    not altered, the input is auditable, and the plan of control G3 is `TheRefusal`
    (`ReleasedIsAuditable`, `ReleasedRefusal`);
  - the context flag is vouched for by each unaltered trend, and the difference of May
    by the results and by the confounded comparison, so that hiding either alteration
    takes two more (`ReleasedAnalysis`, `ReleasedDecisions`, counted by `TwoOfThree`);
  - the plan is the one restatement, or a rejection that the gate derives, from
    whatever horizon and verdicts (`GatePlans`, `ReleasedGate`). An altered plan is
    neither (`GatePlanUnaltered`), and an unaltered one tells which controls the stages found,
    since it fails on them exactly when they do not all pass (`GatePlanTellsControls`).

The demonstration:

- `DemoInvariance`, `OnlyWritingUndisplayableAlways`, `HeadlineAlways` and `DisplayTellsAlways`
  (`DemonstrationProofs`). The invariant says that nothing is shown but what the
  invariant of the audit holds of, and that what is shown was derived from it. Each
  single item the code looks up is then shown to exist once, a label by what the oracle
  and the dependencies leave of the two denominators (`PublishedLabels`), the others by
  the positions at which the stages put results, verdicts and comparisons.

The publication:

- `PublicationTypes`, `PublishedBundleIsWhole` (`PublicationProofs`), and
  `PublishedBundleIsWholeAmongMany` for any number of runs at a time and no
  demonstration. The invariant says of a run beside which nobody wrote that the files
  it has behind it hold what its version generates, that what it hashed is what they
  hold, and that the manifest it composed hashes every file (`AloneInv`, `WorkInv`).
- `ManifestVouchesForBundle` and `PrintedBundleStood`, under `OneAtATime`: no two runs
  write at once, as `docs/reproducibility.md` asks, whatever the number of publishers.
  With one publisher, as in the run, that is no restriction. `OneInv` adds that the
  manifest is torn or vouches for one version that passes, and that a manifest in
  place or read by the demonstration is of bundles that have stood: it is written
  last, when all it hashes is in place.

What stays with TLC. Liveness (`CommandsEnd`) is beyond the prover. Every
invariant and action property of a passing run is stated by a theorem.

## Not modelled

Not modelled: formatting (`reporting.py`, rendering and decimals of the
demonstration), rationales, argument parsing, environment scripts, hashing (contents
stand for their hashes), time zones, the pydantic checks no later stage depends on,
and the references of records, arms and coverage records in the barrier, which no
alteration touches. What is left of the system has no state and takes no decision.
