------------------------- MODULE DefinitionIdentity -------------------------
(***************************************************************************)
(* Two metric definitions as their files write them: loading, which checks *)
(* a dependency projection the file may carry; the semantic and artifact   *)
(* identities; the difference of the two and whether a change of results   *)
(* may be attributed to it.  People edit the second file before it is      *)
(* loaded.  A hash stands for what it hashes.                              *)
(***************************************************************************)
EXTENDS KpiDefinitions, SequencesExt, Integers

CONSTANTS
  ClassOrder,  \* the account classes, in the order of their names
  ClauseOrder, \* the canonical clauses that may occur, in the order of their JSON
  Originals,   \* pairs of definition files that people start from
  MaxEdits     \* bound on the edits of the second file
ASSUME EditsAreNatural == MaxEdits \in Nat

VARIABLES
  before, after,   \* the two files
  edits,           \* how often the second was edited
  stage,           \* "editing", "loaded", "raised" or "compared"
  found            \* what the comparison produced

vars == <<before, after, edits, stage, found>>

-----------------------------------------------------------------------------
(***************************************************************************)
(* Files.  A predicate is one clause or a conjunction of a sequence of     *)
(* them; a clause has values if it excludes account classes.               *)
(***************************************************************************)
Clause(kind)    == [kind |-> kind, values |-> <<>>]
Exclude(values) == [kind |-> "exclude_account_classes", values |-> values]

And(members) == [compound |-> TRUE, members |-> members]
Atom(clause) == [compound |-> FALSE, members |-> <<clause>>]

Predicates == {"numerator", "denominator"}

\* The metadata that definition_diff compares; it does not look at the owner.
ComparedMetadata == {"version", "description"}
Metadata         == ComparedMetadata \cup {"owner"}

NotGiven == {}

KindsOf(predicate) == {predicate.members[i].kind : i \in DOMAIN predicate.members}

Derived(file) ==
  DeriveDependencies(KindsOf(file.numerator), KindsOf(file.denominator))

-----------------------------------------------------------------------------
(***************************************************************************)
(* Canonical form: values in order, then the members of a conjunction in   *)
(* the order of their JSON.                                                *)
(***************************************************************************)
Place(item, order) == CHOOSE i \in DOMAIN order : order[i] = item

\* Every place of seq behind the number of its item.
Numbered(seq, order) == {<<Place(seq[i], order), i>> : i \in DOMAIN seq}

\* The pairs up to one of them, by their numbers and then as they stand.
UpTo(pair, pairs) ==
  {other \in pairs : \/ other[1] < pair[1]
                     \/ other[1] = pair[1] /\ other[2] <= pair[2]}

Sorted(seq, order) ==
  LET pairs == Numbered(seq, order)
  IN  [ rank \in DOMAIN seq |->
          seq[(CHOOSE pair \in pairs : Cardinality(UpTo(pair, pairs)) = rank)[2]] ]

CanonicalClause(clause) ==
  [clause EXCEPT !.values = Sorted(@, ClassOrder)]

CanonicalMembers(predicate) ==
  [i \in DOMAIN predicate.members |-> CanonicalClause(predicate.members[i])]

CanonicalAsWritten(predicate) ==
  [predicate EXCEPT !.members = CanonicalMembers(predicate)]

CanonicalPredicate(predicate) ==
  [predicate EXCEPT !.members = Sorted(CanonicalMembers(predicate), ClauseOrder)]

\* Registered clauses over known classes, in predicates, in files.
IsClause(clause) ==
  /\ clause \in [kind : ClauseKinds, values : Seq(ToSet(ClassOrder))]
  /\ CanonicalClause(clause) \in ToSet(ClauseOrder)

IsPredicate(predicate) ==
  /\ predicate = [compound |-> predicate.compound, members |-> predicate.members]
  /\ predicate.members \in Seq(ToSet(predicate.members))
  /\ \A i \in DOMAIN predicate.members : IsClause(predicate.members[i])

IsFile(file) ==
  /\ file = [ field \in Predicates \cup Metadata \cup {"projection"} |-> file[field] ]
  /\ \A key \in Predicates : IsPredicate(file[key])

ASSUME OrdersAreLists ==
  \A order \in {ClassOrder, ClauseOrder} :
    order \in Seq(ToSet(order)) /\ IsInjective(order)
ASSUME ClausesRegistered ==
  \A clause \in ToSet(ClauseOrder) : IsClause(clause)
ASSUME OriginalsAreFiles ==
  \A pair \in Originals : IsFile(pair[1]) /\ IsFile(pair[2])

LoadedProjection(file) ==
  IF file.projection = NotGiven THEN Derived(file) ELSE file.projection

SemanticHash(file) ==
  [ numerator |-> CanonicalPredicate(file.numerator),
    denominator |-> CanonicalPredicate(file.denominator),
    dependencies |-> LoadedProjection(file) ]

ArtifactHash(file) == [file EXCEPT !.projection = LoadedProjection(file)]

-----------------------------------------------------------------------------
(***************************************************************************)
(* The difference.                                                         *)
(***************************************************************************)
SemanticChanges ==
  { key \in Predicates :
      CanonicalPredicate(before[key]) # CanonicalPredicate(after[key]) }

Relation(changes) == IF changes = {} THEN "EQUIVALENT" ELSE "NON_EQUIVALENT"

\* A change of the denominator carries the dependencies it brings and drops.
Implications(changes) ==
  IF "denominator" \in changes
  THEN [ added |-> LoadedProjection(after) \ LoadedProjection(before),
         removed |-> LoadedProjection(before) \ LoadedProjection(after) ]
  ELSE [added |-> {}, removed |-> {}]

DenominatorAmongChanges(changes) == "denominator" \in changes

ExactlyDenominator(changes) == changes = {"denominator"}

SameHash == SemanticHash(before) = SemanticHash(after)

\* Over one controlled context.
AttributionValid(changes, same_hash) ==
  /\ ArtifactHash(before) # ArtifactHash(after)
  /\ ~same_hash
  /\ ExactlyDenominator(changes)

Comparison ==
  LET changes   == SemanticChanges
      same_hash == SameHash
  IN  [ relation |-> Relation(changes),
        semantic_changes |-> changes,
        implications |-> Implications(changes),
        non_semantic |-> {key \in ComparedMetadata : before[key] # after[key]},
        same_meaning |-> same_hash,
        attribution_valid |-> AttributionValid(changes, same_hash) ]

-----------------------------------------------------------------------------
Init ==
  /\ \E pair \in Originals : before = pair[1] /\ after = pair[2]
  /\ edits = 0
  /\ stage = "editing"
  /\ found = <<>>

Edit(file) ==
  /\ stage = "editing" /\ edits < MaxEdits
  /\ edits' = edits + 1
  /\ after' = file
  /\ UNCHANGED <<before, stage, found>>

SwapClauses ==
  \E key \in Predicates : \E i \in 1..(Len(after[key].members) - 1) :
    LET members == after[key].members
    IN  Edit([after EXCEPT ![key].members =
               [members EXCEPT ![i] = members[i + 1], ![i + 1] = members[i]]])

ReverseValues ==
  \E key \in Predicates : \E i \in DOMAIN after[key].members :
    Edit([after EXCEPT ![key].members[i].values = Reverse(@)])

ReplaceClause ==
  \E key \in Predicates, clause \in ToSet(ClauseOrder) :
    \E i \in DOMAIN after[key].members :
      Edit([after EXCEPT ![key].members[i] = clause])

AddClause ==
  \E key \in Predicates, clause \in ToSet(ClauseOrder) :
    after[key].compound /\ Edit([after EXCEPT ![key].members = Append(@, clause)])

RemoveClause ==
  \E key \in Predicates : \E i \in DOMAIN after[key].members :
    /\ Len(after[key].members) > 1
    /\ Edit([after EXCEPT ![key].members = RemoveAt(@, i)])

\* A conjunction of one clause may be written without the conjunction.
Unwrap ==
  \E key \in Predicates :
    /\ after[key].compound /\ Len(after[key].members) = 1
    /\ Edit([after EXCEPT ![key] = Atom(@.members[1])])

ChangeMetadata ==
  \E key \in Metadata : Edit([after EXCEPT ![key] = "changed"])

\* A projection copied from a serialized definition; later edits leave it behind.
WriteProjection == Edit([after EXCEPT !.projection = Derived(after)])

ProjectionUnchecked(file) == TRUE

ProjectionAgrees(file) == LoadedProjection(file) = Derived(file)

Load ==
  /\ stage = "editing"
  /\ stage' = IF ProjectionAgrees(before) /\ ProjectionAgrees(after)
              THEN "loaded" ELSE "raised"
  /\ UNCHANGED <<before, after, edits, found>>

Compare ==
  /\ stage = "loaded"
  /\ stage' = "compared"
  /\ found' = Comparison
  /\ UNCHANGED <<before, after, edits>>

Terminated == stage \in {"raised", "compared"} /\ UNCHANGED vars

Next ==
  \/ SwapClauses \/ ReverseValues \/ ReplaceClause \/ AddClause \/ RemoveClause
  \/ Unwrap \/ ChangeMetadata \/ WriteProjection
  \/ Load \/ Compare \/ Terminated

Spec == Init /\ [][Next]_vars

-----------------------------------------------------------------------------
(***************************************************************************)
(* Properties.                                                             *)
(***************************************************************************)
\* What a predicate says: its clauses, in no order, each with the classes it
\* excludes, in no order; and whether it is a conjunction.  Repetitions count.
Meaning(predicate) ==
  << predicate.compound,
     ToBag([ i \in DOMAIN predicate.members |->
                  << predicate.members[i].kind, ToBag(predicate.members[i].values) >> ]) >>

SameMeaning(key) == Meaning(before[key]) = Meaning(after[key])

\* Definitions have one semantic identity exactly when numerator and denominator
\* say the same, in whatever order the files write clauses and classes and
\* whatever metadata and projection they carry (canonical_predicate).
IdentityIsMeaning ==
  stage = "compared" =>
    (found.same_meaning <=> SameMeaning("numerator") /\ SameMeaning("denominator"))

\* The difference explains the identities: EQUIVALENT goes with equal semantic
\* hashes and NON_EQUIVALENT with different ones, although the hash covers the
\* dependency projection and the difference passes it over (definition_diff relies
\* on validate_projection).
DiffExplainsIdentity ==
  stage = "compared" => (found.relation = "EQUIVALENT" <=> found.same_meaning)

\* Results are attributed to the definition only if the denominator says something
\* else and the numerator does not; the implications listed with the change are
\* then the whole difference of what the two depend on (analyze_arm_difference).
OnlyDenominatorAttributed ==
  stage = "compared" =>
    /\ found.attribution_valid
         <=> SameMeaning("numerator") /\ ~SameMeaning("denominator")
    /\ found.attribution_valid =>
         Derived(after) = (Derived(before) \cup found.implications.added)
                            \ found.implications.removed
=============================================================================
