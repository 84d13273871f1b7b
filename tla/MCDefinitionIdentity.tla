------------------------ MODULE MCDefinitionIdentity ------------------------
(***************************************************************************)
(* Shortened files of versions 1.0.0 and 2.0.0 and of a numerator without  *)
(* a conjunction, each compared with a copy of itself and with the others. *)
(***************************************************************************)
EXTENDS DefinitionIdentity

MCClassOrder == <<"INTERNAL", "TEST">>

\* In JSON "days" comes before "granularity" and that before "kind".
MCClauseOrder ==
  << Clause("core_action_within_days"), Clause("elapsed_day_maturity"),
     Clause("qualifying_activity_within_days"), Clause("signup_cohort"),
     Clause("all_eligible_matured_signups"), Clause("eligibility_at_signup"),
     Exclude(<<"INTERNAL", "TEST">>), Exclude(<<"INTERNAL">>),
     Exclude(<<"TEST", "TEST">>), Exclude(<<"TEST">>) >>

File(numerator, denominator) ==
  [ numerator |-> numerator, denominator |-> denominator, version |-> "original",
    description |-> "original", owner |-> "original", projection |-> NotGiven ]

Base == << Exclude(<<"INTERNAL", "TEST">>), Clause("elapsed_day_maturity") >>

First ==
  File(And(Append(Base, Clause("core_action_within_days"))),
       And(Append(Base, Clause("qualifying_activity_within_days"))))

Restated ==
  [First EXCEPT !.denominator = And(Append(Base, Clause("all_eligible_matured_signups")))]

Short == [First EXCEPT !.numerator = And(<<Clause("core_action_within_days")>>)]

MCOriginals == {<<First, First>>, <<First, Restated>>, <<Short, Short>>}
=============================================================================
