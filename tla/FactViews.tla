----------------------------- MODULE FactViews -----------------------------
(***************************************************************************)
(* What each reader of the facts collection makes of the rows of an axis   *)
(* (src/src/knowledge.rs): the default query, the conflicts, the history,  *)
(* the point in time, and the scans of the maintenance commands.           *)
(***************************************************************************)
EXTENDS FactStore

\* query_facts, and list_all_facts for the dependants and redo-duels passes.
QueryFacts == {o \in Object : Visible(o)}
ListAllFacts == {o \in Object : Visible(o)}

\* list_all_facts_with_history, for cardinality inference.
ListWithHistory == {o \in Object : Stored(o) /\ valid[o]}

\* list_contested: what the duels left unresolved.
ListContested ==
  {o \in Object : valid[o] /\ status[o] \in {"contested", "quarantine_candidate"}}

\* count_pending_conflicts.
PendingConflicts == Cardinality({o \in Object : valid[o] /\ status[o] = "contested"})

\* query_fact_history: superseded values, retracted ones among them.
FactHistory == {o \in Object : status[o] = "superseded"}

\* query_fact_as_of, in record time.
AsOf(t) ==
  {o \in Object : /\ valid[o] /\ status[o] \in {"active", "superseded", "stale"}
                  /\ ValidAt(created[o], until[o], t)}

-----------------------------------------------------------------------------
(* Cardinality inference (src/src/migrate_v14.rs): which cardinality the   *)
(* history of a predicate suggests.                                        *)

\* group_facts_temporal, of this subject: a value retired by a duel is no
\* earlier value of a sequence.
Observation ==
  [distinct |-> ListWithHistory,
   superseded |-> {o \in ListWithHistory : status[o] = "superseded"}]

Proposed(c, confidence) == [card |-> c, confidence |-> confidence]

\* propose_cardinality_temporal, of one observation for each subject.  Where
\* each of k values but the last was superseded, the predicate is a sequence.
Propose(observations) ==
  LET several == {s \in DOMAIN observations : Cardinality(observations[s].distinct) >= 2}
      total == Cardinality({r \in several \X Object : r[2] \in observations[r[1]].distinct})
      superseded ==
        Cardinality({r \in several \X Object : r[2] \in observations[r[1]].superseded})
      sequence == total - Cardinality(several)
  IN  IF observations = << >> THEN Proposed("multi", "low")
      ELSE IF several = {} THEN Proposed("single", "high")
      ELSE IF sequence > 0 /\ superseded > sequence THEN Proposed("temporal_single", "low")
      ELSE IF sequence > 0 /\ 10 * superseded >= 6 * sequence
      THEN Proposed("temporal_single", IF 20 * superseded >= 17 * sequence THEN "high" ELSE "low")
      ELSE Proposed("multi", IF 5 * Cardinality(several) >= Len(observations) THEN "high" ELSE "low")

\* run_cardinality_inference: without facts there is no predicate.
Proposal == Propose(IF ListWithHistory = {} THEN << >> ELSE <<Observation>>)

\* migrate-v14 cardinality --apply: the confident proposals are registered.
ApplyProposal == Proposal.confidence = "high" /\ RegisterCardinality(Proposal.card)

\* The store of a user who lets the inference register what it is sure of.
InferringSpec == Init /\ [][Next \/ ApplyProposal]_vars

-----------------------------------------------------------------------------
(* Properties.                                                             *)

\* With no call under way, none cut short, and nothing restored, the readers
\* agree about now: what the default query shows has an open window, which is
\* what the briefing and the point-in-time query go by, and the latter finds
\* for now the active facts and no other.
ViewsAgree ==
  Idle => /\ \A o \in QueryFacts : until[o] = None
          /\ AsOf(clock) = ActiveObjects
          /\ PendingConflicts <= Cardinality(ListContested)

\* A predicate that was never registered as a sequence is not taken for one,
\* however often and by whomever its value was corrected: "a corrected Single
\* predicate must not be mislabeled TemporalSingle" (migrate_v14.rs tests).
CorrectedIsNoSequence ==
  "temporal_single" \notin Registrations => Proposal.card # "temporal_single"

\* The point-in-time query finds one value of a single-valued predicate,
\* whatever the moment ("For a TemporalSingle predicate that yields the one
\* value current then", knowledge.rs: query_fact_as_of).
AsOfIsOneValue == Idle => \A t \in 0 .. clock : Cardinality(AsOf(t)) <= 1

=============================================================================
