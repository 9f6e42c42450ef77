------------------------------- MODULE Duel -------------------------------
(***************************************************************************)
(* The duel rule of src/src/duel.rs: how much an existing fact resists     *)
(* (entrenchment), how much a contradicting write weighs, and which of the *)
(* three outcomes follows.                                                 *)
(*                                                                         *)
(* The program computes with f32 logarithms.  Every quantity here is that  *)
(* number scaled to an integer: logarithms in thousandths (Log2), weights  *)
(* in percent, so that one comparison of integers is the program's         *)
(* comparison of floats.                                                   *)
(***************************************************************************)
EXTENDS Integers, Sequences

CONSTANT Mode   \* the install mode in the configuration

InstallMode == {"chat_only", "dev_with_ci", "multi_tenant"}

ASSUME ModeAssumption == Mode \in InstallMode

\* The confirmations slot of the mode's weight triple, in percent.  The
\* external slot never contributes: a fact write carries no signal.
ConfirmationsWeight ==
  [chat_only |-> 10, dev_with_ci |-> 15, multi_tenant |-> 40]

\* Log2(n) is 1000 * log2(n) for the n a model uses.
Log2Table ==
  <<    0, 1000, 1585, 2000, 2322, 2585, 2807, 3000,
     3170, 3322, 3459, 3585, 3700, 3807, 3907, 4000,
     4087, 4170, 4248, 4322, 4392, 4459, 4524, 4585,
     4644, 4700, 4755, 4807, 4858, 4907, 4954, 5000 >>

Log2(n) == Log2Table[n]

AgeCapMonths == 24

\* The three terms before the division by ENTRENCHMENT_NORM_DIVISOR = 50.
Entrenchment(dependants, confirmations, months) ==
  Log2(1 + dependants) + Log2(1 + confirmations)
    + Log2(1 + (IF months < AgeCapMonths THEN months ELSE AgeCapMonths))

\* Twice the weight of a write, in percent: an inherited challenger counts
\* half (INHERITANCE_DISCOUNT).
WeightNew(confirmations, live) ==
  ConfirmationsWeight[Mode] * Log2(1 + confirmations) * (IF live THEN 2 ELSE 1)

Outcome == {"flip", "contested", "quarantine"}

\* weight > 1.5 * entrenchment flips, weight > 0.5 * entrenchment contests.
\* weight = WeightNew / 200000 and entrenchment = Entrenchment / 50000.
ResolveDuel(entrenchment, weight) ==
  IF weight > 6 * entrenchment THEN "flip"
  ELSE IF weight > 2 * entrenchment THEN "contested"
  ELSE "quarantine"

=============================================================================
