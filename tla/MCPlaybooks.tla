---------------------------- MODULE MCPlaybooks ----------------------------
(***************************************************************************)
(* Playbooks on a small instance: one procedure and one skill, and counts  *)
(* from before the side collection.                                        *)
(***************************************************************************)
EXTENDS Playbooks, TLC

CONSTANTS p1, s1, c1, c2

MCLegacy == {[success |-> 1, fail |-> 0, verified |-> TRUE]}
Alike == Permutations({c1, c2})

=============================================================================
