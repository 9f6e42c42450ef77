---------------------------- MODULE MCFactStore ----------------------------
(***************************************************************************)
(* FactStore on small instances: two or three values, one or two agents,   *)
(* each agent in a process of its own or both in one.                      *)
(***************************************************************************)
EXTENDS FactViews, TLC

CONSTANTS x, y, z, a1, a2, p1, p2

AgentsApart == (a1 :> p1) @@ (a2 :> p2)
AgentsTogether == (a1 :> p1) @@ (a2 :> p1)
Alone == a1 :> p1

Two == Permutations({x, y})

\* The store of a user who never restores an invalidated fact.
NoRestoreSpec ==
  /\ Init /\ [][Next /\ ~ \E a \in Agent, o \in Object : RestoreValid(a, o)]_vars
  /\ \A a \in Agent : WF_vars(Continue(a))

\* The store of a user who only asserts, and never invalidates.
AssertOnlySpec ==
  Init /\ [][Next /\ ~ \E a \in Agent, o \in Object : Invalidate(a, o)]_vars

=============================================================================
