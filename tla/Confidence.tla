---------------------------- MODULE Confidence ----------------------------
(***************************************************************************)
(* The confidence score of a fact and the verdict of a re-test             *)
(* (src/src/confidence.rs), with every f32 scaled to thousandths.          *)
(***************************************************************************)
EXTENDS Duel

Weights ==
  [chat_only    |-> [dependants |-> 70, confirmations |-> 10, external |-> 20],
   dev_with_ci  |-> [dependants |-> 50, confirmations |-> 15, external |-> 35],
   multi_tenant |-> [dependants |-> 40, confirmations |-> 40, external |-> 20]]

\* saturating_log_norm: 1 - 1 / (1 + log2(1 + n)).
LogNorm(n) == 1000 - (1000000 \div (1000 + Log2(1 + n)))

\* A fact carries no typed signal (they are kept on memories) and no fact
\* write sets the legacy count, so the external slot adds norm(0) = 0.
ConfidenceScore(dependants, confirmations, inherited) ==
  (Weights[Mode].dependants * LogNorm(dependants)
     + Weights[Mode].confirmations * LogNorm(confirmations)
     + Weights[Mode].external * LogNorm(0)) \div 100
  - (IF inherited THEN 500 ELSE 0)

RetestTransition == {"promote", "recover", "none"}

\* decide_retest_transition: two reasons to promote, one to recover.
RetestVerdict(old, new, inDoubt) ==
  IF new - old < -200 /\ new < 300
    THEN IF inDoubt THEN "none" ELSE "promote"
  ELSE IF inDoubt /\ new - old > 200 THEN "recover"
  ELSE "none"

=============================================================================
