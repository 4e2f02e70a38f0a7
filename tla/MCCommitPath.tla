---------------------------- MODULE MCCommitPath ----------------------------
(* CommitPath for TLC: a few client threads, intent lanes, a serialized        *)
(* claimant and a driver.  Clients are interchangeable, which the safety run  *)
(* uses; the runs under fairness do not.                                     *)
EXTENDS CommitPath, TLC

CONSTANTS c1, c2, c3, l1, l2, s1, d1

ClientSymmetry == Permutations(Clients)
=============================================================================
