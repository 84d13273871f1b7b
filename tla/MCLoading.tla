----------------------------- MODULE MCLoading ------------------------------
(***************************************************************************)
(* Two accounts from one snapshot.  Edits rename the snapshot in either    *)
(* file, change a fact, give two records one account, cite the snapshot of *)
(* control G3 or none, swap the versions of the G4 case, leave a file half *)
(* saved, or change another fixture.                                       *)
(***************************************************************************)
EXTENDS Loading

Records(first, second, provenance, fact) ==
  << [account_id |-> first, provenance_id |-> provenance, fact |-> fact],
     [account_id |-> second, provenance_id |-> provenance, fact |-> "early"] >>

MCOriginal ==
  [ name \in FixtureNames |->
      CASE name = "account_records" -> Records(1, 2, "snapshot", "early")
        [] name = "provenance"      -> {"snapshot"}
        [] name = "g3_provenance"   -> "alternate"
        [] name = "g4_case"         -> <<"1.0.0", "2.0.0">>
        [] OTHER                    -> "original" ]

MCOthers ==
  [ name \in FixtureNames |->
      CASE name = "account_records" ->
             { Records(1, 2, "renamed", "early"), Records(1, 2, "snapshot", "late"),
               Records(1, 1, "snapshot", "early"), Records(1, 2, "alternate", "early") }
        [] name = "provenance" -> {{"renamed"}, {"snapshot", "renamed"}, {}}
        [] name = "g3_provenance" -> {"snapshot"}
        [] name = "g4_case" -> {<<"2.0.0", "1.0.0">>}
        [] name = "coverage" -> {"edited", Broken}
        [] name \in {"v1", "decision"} -> {"edited"}
        [] OTHER -> {} ]
=============================================================================
