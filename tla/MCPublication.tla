---------------------------- MODULE MCPublication ---------------------------
(***************************************************************************)
(* Three versions that pass: v2 changes the inputs of v1, hence every      *)
(* file, v3 only its code, hence no identity; and "bad", which is refused. *)
(***************************************************************************)
EXTENDS Publication

MCVersions      == {"v1", "v2", "v3", "bad"}
MCPublishable   == {"v1", "v2", "v3"}
MCEvidenceFiles == <<"identities", "calculations">>
MCSchemaFiles   == <<"metric_result">>
MCNameOrder     ==
  <<"bundle_manifest", "calculations", "identities", "notes", "metric_result">>

MCContent ==
  [ v \in MCVersions |->
      [ f \in {"identities", "calculations", "metric_result"} |->
          IF f = "identities" /\ v = "v3" THEN "v1" ELSE v ] ]

MCBundleId == [v \in MCVersions |-> IF v = "v3" THEN "v1" ELSE v]
=============================================================================
