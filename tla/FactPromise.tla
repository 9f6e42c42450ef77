---------------------------- MODULE FactPromise ----------------------------
(***************************************************************************)
(* What the fact store promises a reader of one (subject, predicate) axis, *)
(* with no locks, duels or payload writes in sight.  Each value has a face:*)
(* absent, shown by the default query, hidden by a lost duel or retired    *)
(* (but still kept), or retracted by an explicit invalidate; and a count   *)
(* of its assertions.                                                      *)
(*                                                                         *)
(*   - a value is hidden only for the sake of another one that is shown;   *)
(*   - a retracted value cannot be asserted: it comes back through         *)
(*     Reinstate, which is no assertion;                                   *)
(*   - every assertion counts once, and a value is never forgotten.        *)
(***************************************************************************)
EXTENDS Naturals

CONSTANT Object
VARIABLES face, count

Face == {"absent", "shown", "hidden", "retracted"}

Init ==
  /\ face = [o \in Object |-> "absent"]
  /\ count = [o \in Object |-> 0]

ShownBeside(o) == \E p \in Object \ {o} : face[p] = "shown"

\* A value is asserted, for the first time or again; it may be turned away.
Assert(o) ==
  /\ face[o] # "retracted"
  /\ \/ face' = [face EXCEPT ![o] = "shown"]
     \/ ShownBeside(o) /\ face' = [face EXCEPT ![o] = "hidden"]
  /\ count' = [count EXCEPT ![o] = count[o] + 1]

\* A value is retired in favour of another.
Retire(o) ==
  /\ face[o] # "retracted"
  /\ ShownBeside(o)
  /\ face' = [face EXCEPT ![o] = "hidden"]
  /\ UNCHANGED count

Retract(o) ==
  /\ face[o] # "absent"
  /\ face' = [face EXCEPT ![o] = "retracted"]
  /\ UNCHANGED count

\* A retracted value returns to what it was before.
Reinstate(o) ==
  /\ face[o] = "retracted"
  /\ \E f \in {"shown", "hidden"} : face' = [face EXCEPT ![o] = f]
  /\ UNCHANGED count

Next == \E o \in Object : Assert(o) \/ Retire(o) \/ Retract(o) \/ Reinstate(o)

Spec == Init /\ [][Next]_<<face, count>>

=============================================================================
