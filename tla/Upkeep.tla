------------------------------- MODULE Upkeep -------------------------------
(***************************************************************************)
(* The two maintenance commands over the memories, beside the calls of     *)
(* MemoryStore: consolidate --apply (src/src/consolidate.rs), which merges *)
(* near-duplicates and then archives or prunes what is cold, and relibrary *)
(* --apply (src/src/relibrary.rs), which moves texts between libraries by  *)
(* copying each to its new id and deleting the old one.                    *)
(*                                                                         *)
(* Both plan from a scan and write later, with every other caller free to  *)
(* write in between; both may stop between any two writes and be run again. *)
(***************************************************************************)
EXTENDS MemoryViews

vars == <<memoryVars, calm, torn>>

-----------------------------------------------------------------------------
(* Consolidation.                                                          *)

\* with_defaults: near_dup_threshold.
MergeThreshold == 97

\* NEAR_NEIGHBORS.
NearNeighbors == 5

\* The scope's ids, in hand and dropped, of all that was scanned.
Merging ==
  [op : {"consolidate"}, pc : {"merge", "drop", "cold"}, cold : {"no", "archive", "prune"},
   known : SUBSET Id, scope : SUBSET Id, todo : SUBSET Id, removed : SUBSET Id]

\* run: the scan takes every memory, hidden or not.
ConsolidateBegin(c) ==
  LET known == {i \in Id : Exists(i)} IN
  /\ work[c] = Idle
  /\ calls < MaxCalls /\ calls' = calls + 1
  /\ \E libraries \in {Library} \cup {{l} : l \in Library}, cold \in {"no", "archive", "prune"} :
       LET scope == {i \in known : i[1] \in libraries} IN
       Go(c, [op |-> "consolidate", pc |-> "merge", cold |-> cold, known |-> known,
              scope |-> scope, todo |-> scope, removed |-> {}])
  /\ UNCHANGED <<store, faults>>

Close(i) == {n \in Id \ {i} : n[1] = i[1] /\ Visible(n) /\ Cosine[i[2]][n[2]] >= MergeThreshold}

\* near_neighbors_by_id, of the visible points of the library, and the cut at
\* the threshold: the closest ones, up to the limit.
Neighbours(i) ==
  {S \in SUBSET Close(i) :
     /\ S = Close(i) \/ Cardinality(S) = NearNeighbors
     /\ Cardinality(S) <= NearNeighbors
     /\ \A n \in S, m \in Close(i) \ S : Cosine[i[2]][n[2]] >= Cosine[i[2]][m[2]]}

\* choose_drop: the shorter goes.  Of two as long the younger goes, or the
\* second when both are as old; ages are not kept here.
MayDrop(i, n) == Length[i[2]] <= Length[n[2]]

\* What the walk over i's neighbours, best first, adds to the dropped ones:
\* all that are still there, or, once one of them beats i, only those before
\* it and i itself.
Outcomes(i, rivals) ==
  LET rank(n) == Cosine[i[2]][n[2]]
      beaten(S) == \A n \in S : MayDrop(n, i)
  IN
  (IF beaten(rivals) THEN {rivals} ELSE {})
    \cup {S \cup {i} : S \in {S \in SUBSET rivals :
            /\ beaten(S)
            /\ \E winner \in rivals \ S :
                 /\ MayDrop(i, winner)
                 /\ \A n \in S : rank(n) >= rank(winner)
                 /\ \A n \in rivals \ (S \cup {winner}) : rank(n) <= rank(winner)}}

\* Mutant of Rivals: a neighbour that was dropped already may drop another.
RivalsDroppedOrNot(c, neighbours) == neighbours \cap work[c].known

Rivals(c, neighbours) == (neighbours \cap work[c].known) \ work[c].removed

\* One point of the walk: an await on its neighbours, unless it was dropped.
Merge(c) ==
  /\ At(c, "merge")
  /\ \E i \in work[c].todo : \E neighbours \in Neighbours(i) :
       \E dropped \in IF i \in work[c].removed THEN {{}} ELSE Outcomes(i, Rivals(c, neighbours)) :
         Go(c, [work[c] EXCEPT !.todo = @ \ {i}, !.removed = @ \cup dropped])
  /\ UNCHANGED store

\* Every dropped id in one delete.
MergeApply(c) ==
  /\ At(c, "merge") /\ work[c].todo = {}
  /\ Drop(work[c].removed)
  /\ IF work[c].cold = "no" THEN Answer(c) ELSE GoTo(c, "cold")

\* Cold is a matter of age and of the access journal: any of what is left of
\* the scan.  Archiving wins over pruning.
Cold(c) ==
  /\ At(c, "cold")
  /\ \E cold \in SUBSET (work[c].scope \ work[c].removed) :
       IF work[c].cold = "archive" THEN Flag(cold, "archived", TRUE) ELSE Drop(cold)
  /\ Answer(c)

-----------------------------------------------------------------------------
(* Relibrary.                                                              *)

\* copy: the payloads as scanned.  todo: the texts still to move.
Relocating ==
  [op : {"relibrary"}, pc : {"pick", "move_write", "move_delete"}, from : Library, to : Library,
   copy : [Text -> Point \cup {None}], todo : SUBSET Text, text : Text]

Source(c) == <<work[c].from, work[c].text>>
Target(c) == <<work[c].to, work[c].text>>

\* scroll_library_full, narrowed by the selectors.
MoveBegin(c) ==
  /\ work[c] = Idle
  /\ calls < MaxCalls /\ calls' = calls + 1
  /\ \E from, to \in Library, chosen \in (SUBSET Text) \ {{}} :
       LET matched == {t \in chosen : Exists(<<from, t>>)} IN
       /\ from # to
       /\ Go(c, [op |-> "relibrary", pc |-> "pick", from |-> from, to |-> to,
                 copy |-> [t \in Text |-> IF t \in matched THEN store[<<from, t>>] ELSE None],
                 todo |-> matched, text |-> CHOOSE t \in Text : TRUE])
  /\ UNCHANGED <<store, faults>>

MoveEnd(c) ==
  /\ At(c, "pick") /\ work[c].todo = {}
  /\ Answer(c)
  /\ UNCHANGED store

\* get_full_points on the destination: an earlier move of the same point is
\* finished, anything else is a collision and both points stay.
MoveRead(c) ==
  /\ At(c, "pick")
  /\ \E t \in work[c].todo :
       LET target == store[<<work[c].to, t>>]
           next == IF target = None THEN "move_write"
                   ELSE IF target.from = work[c].from THEN "move_delete" ELSE "pick"
       IN Go(c, [work[c] EXCEPT !.pc = next, !.text = t, !.todo = @ \ {t}])
  /\ UNCHANGED store

\* A destination that cannot be read counts as empty.
MoveReadFails(c) ==
  /\ Swallow(c, "pick")
  /\ \E t \in work[c].todo :
       Go(c, [work[c] EXCEPT !.pc = "move_write", !.text = t, !.todo = @ \ {t}])

\* Mutant of MoveWrite: the copy is written under the id it came from.
MoveWriteInPlace(c) ==
  /\ At(c, "move_write")
  /\ Put(Source(c), [work[c].copy[work[c].text] EXCEPT !.from = work[c].from])
  /\ GoTo(c, "move_delete")

\* Mutant of MoveWrite: the copy carries no mark.
MoveWriteUnmarked(c) ==
  /\ At(c, "move_write")
  /\ Put(Target(c), work[c].copy[work[c].text])
  /\ GoTo(c, "move_delete")

\* The scanned payload, marked with the id it came from.
MoveWrite(c) ==
  /\ At(c, "move_write")
  /\ Put(Target(c), [work[c].copy[work[c].text] EXCEPT !.from = work[c].from])
  /\ GoTo(c, "move_delete")

MoveDelete(c) ==
  /\ At(c, "move_delete")
  /\ Drop({Source(c)})
  /\ GoTo(c, "pick")

-----------------------------------------------------------------------------

Init ==
  /\ \E l \in Library : store \in {s \in [Id -> Kept \cup {None}] : \A i \in Id : i[1] # l => s[i] = None}
  /\ work = [c \in Caller |-> Idle]
  /\ calls = 0 /\ faults = 0
  /\ calm = [c \in Caller |-> TRUE]
  /\ torn = {}

Act ==
  \E c \in Caller :
    \/ Step(c)
    \/ ConsolidateBegin(c) \/ Merge(c) \/ MergeApply(c) \/ Cold(c)
    \/ MoveBegin(c) \/ MoveEnd(c) \/ MoveRead(c) \/ MoveReadFails(c)
    \/ MoveWrite(c) \/ MoveDelete(c)

\* What a call works on: the whole store for a consolidation, one text at a
\* time for a move.
Watched(c) ==
  CASE work[c].op = "consolidate" -> Id
    [] work[c].op = "relibrary" -> {Source(c), Target(c)}
    [] OTHER -> {work[c].id, work[c].old}

\* Both are history only.  calm stays true until another caller changes what
\* is watched, or a request of the call's own fails and is taken for an answer;
\* a move is torn by a stop, until either of its points changes.
Watch ==
  /\ calm' = [c \in Caller |->
       \/ work[c] = Idle \/ work[c].pc = "pick"
       \/ /\ calm[c]
          /\ IF work'[c] # work[c] THEN faults' = faults
             ELSE \A i \in Watched(c) : store'[i] = store[i]]
  /\ torn' = {move \in torn : \A i \in {move.source, move.target} : store'[i] = store[i]}
       \cup {[source |-> Source(c), target |-> Target(c)] :
               c \in {c \in Caller : work[c].pc = "move_delete" /\ work'[c] = Idle /\ calm[c]}}

Next == Act /\ Watch
Spec == Init /\ [][Next]_vars

-----------------------------------------------------------------------------
(* Properties.                                                             *)

TypeOK ==
  /\ store \in [Id -> Point \cup {None}]
  /\ work \in [Caller -> {Idle} \cup Handling \cup Merging \cup Relocating]
  /\ calls \in 0 .. MaxCalls
  /\ faults \in 0 .. MaxFaults
  /\ calm \in [Caller -> BOOLEAN]
  /\ torn \subseteq [source : Id, target : Id]

\* The call of c ends here, by itself.
Ends(c) == work[c] # Idle /\ work'[c] = Idle /\ faults' = faults

\* An ingest of a text that is kept ends with it kept, and one of a text in the
\* quarantine promotes it, whatever the gate and the near-duplicate check make
\* of either: repetition never demotes (ingest.rs: run_ingest_authored).  The
\* quarantine keeps a text the gate takes for new each time: one that passes
\* check_cheap and has no word to compare.  Another caller's write to that very
\* point meanwhile, and a failed request taken for an answer, are excepted.
ReassertionEndsKept ==
  [][\A c \in Caller :
       Ends(c) /\ calm[c] /\ work[c].op = "ingest" =>
         \A i \in Id :
           /\ i = work[c].id
           /\ \/ work[c].was = "kept"
              \/ work[c].was = "quarantined" /\ i[2] \notin Wordless \ Weak
           => Live(i)']_vars

\* Nothing offered to ingest is lost from view: at its end every reader that
\* hides anything shows the text (by author, if it bears one), or none does and
\* it is in the list of the quarantine or of the forgotten, from which it can
\* be brought back (ingest.rs: a Quarantine verdict does not drop the candidate).
OfferedIsFindable ==
  [][\A c \in Caller :
       Ends(c) /\ calm[c] /\ work[c].op = "ingest" =>
         \A i \in Id : i = work[c].id => Findable(i)']_vars

\* Expiring a quarantined text never deletes a kept one, even when the text
\* was promoted between the look and the delete (storage.rs:
\* expire_from_quarantine).
ExpireSparesKept ==
  [][\A c \in Caller, i \in Id :
       work[c].op = "expire" /\ work'[c] # work[c] /\ Live(i) => store'[i] = store[i]]_vars

\* A move gives up a text's old point only when the new one holds it: run to
\* the end, stopped or resumed, it never loses a text (relibrary.rs: run).
MoveLosesNothing ==
  [][\A c \in Caller :
       work[c].pc = "move_delete" /\ calm[c] /\ work'[c].pc = "pick" =>
         \A i \in Id : i = Target(c) => Exists(i)']_vars

\* A move stopped between its copy and its delete is finished by the next move
\* of that text, and never reported as a collision that leaves it in both
\* libraries (relibrary.rs: run).
ResumeFinishes ==
  [][\A c \in Caller :
       work[c].pc = "pick" /\ work'[c].pc = "pick" /\ work'[c] # work[c] =>
         [source |-> Source(c)', target |-> Target(c)'] \notin torn]_vars

\* Texts among which every near-duplicate of a member is a member.
Group(G) == \A s \in G, t \in Text : Cosine[s][t] >= MergeThreshold => t \in G

\* Whatever a consolidation merges away, some near-duplicate of it, or of one
\* of those, is still in its library: no two texts drop each other, though of
\* two equals either may go (consolidate.rs: run).
MergeKeepsOne ==
  [][\A c \in Caller :
       work[c].pc = "merge" /\ work'[c] # work[c] /\ store' # store /\ calm[c] =>
         \A i \in work[c].removed, G \in SUBSET Text :
           i[2] \in G /\ Group(G) => \E t \in G : Exists(<<i[1], t>>)']_vars

=============================================================================
