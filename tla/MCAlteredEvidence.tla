------------------------- MODULE MCAlteredEvidence --------------------------
(***************************************************************************)
(* The evidence of the intended input, and of the one that keeps April     *)
(* complete so that the policy gate rejects it, with up to two fields      *)
(* altered.                                                                *)
(***************************************************************************)
EXTENDS AlteredEvidence, MCFixtures

MCThreshold == <<4, 5>>

\* The counts of the intended input.
MCOracle ==
  [ key \in GoldenKeys \ ({"2.0.0"} \X {"2026-04"} \X ChannelNames) |->
      IF key = <<"2.0.0", "2026-05", "Alpha">> THEN <<1, 2>> ELSE <<1, 1>> ]

MCInputs ==
  { InputOf(Records, [AllComplete EXCEPT ![1] = april], <<V1, V2, V101>>) :
      april \in { Complete("2026-04"),
                  Declaration("2026-04", {}, {RosterPopulation}, {}) } }
=============================================================================
