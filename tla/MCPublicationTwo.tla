-------------------------- MODULE MCPublicationTwo --------------------------
(***************************************************************************)
(* Two people who run run_golden at the same time, over two versions that  *)
(* differ in every file and one that is refused.                           *)
(***************************************************************************)
EXTENDS MCPublication, TLC

CONSTANTS golden1, golden2

MCTwoPublishers   == {golden1, golden2}
MCTwoVersions     == {"v1", "v2", "bad"}
MCTwoPublishable  == {"v1", "v2"}
PublisherSymmetry == Permutations(MCTwoPublishers)
=============================================================================
