------------------------------- MODULE MCHome -------------------------------
(***************************************************************************)
(* Home on small instances.                                                *)
(***************************************************************************)
EXTENDS Home, TLC

CONSTANTS m1, m2, h1, h2, k1, k2, a, b, n1, n2, x, u, w

Mix(ops, by) == [ops |-> ops, by |-> by]
MCMixes ==
  {Mix({"start", "end"}, {m1, k1}), Mix({"start", "change"}, {m1, k1}),
   Mix({"change", "reanchor"}, {m1, h1, h2, k1}),
   Mix({"search", "rekey", "consolidate"}, {m1, h1, k1}),
   Mix({"block", "change"}, {m1, h1, k1}), Mix({"kv", "block"}, {m1, h1, h2}),
   Mix({"store", "retrieve", "list", "delete"}, {k1, k2})}

Alike == Permutations({h1, h2}) \cup Permutations({u, w})
=============================================================================
