----------------------------- MODULE MCRebuild -----------------------------
(***************************************************************************)
(* Rebuild on small instances.                                             *)
(***************************************************************************)
EXTENDS Rebuild, TLC

CONSTANTS l1, l2, x, y, s1, s2, k1

Alike == Permutations({l1, l2})
AlikeTexts == Permutations({x, y})
AlikeCallers == Alike \cup Permutations({s1, s2})

\* An old collection that is empty at the start is as good as none.
SparingInit == Init /\ \A l \in Library : legacy[l] # {}
SparingSpec == SparingInit /\ [][Next]_vars

=============================================================================
