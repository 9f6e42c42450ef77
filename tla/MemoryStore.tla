---------------------------- MODULE MemoryStore ----------------------------
(***************************************************************************)
(* The memories of every library in one collection (src/src/storage.rs)    *)
(* and the calls that write them: add, ingest with its relevance gate and  *)
(* near-duplicate check (src/src/ingest.rs), promote and expire for the    *)
(* quarantine, archive and restore, edit and delete.                       *)
(*                                                                         *)
(* A point's id is the hash of its library and its trimmed text, so the id *)
(* is that pair here, and a quarantined text and a live one share a point. *)
(* Callers (HTTP tasks, the viewer, an MCP server, a terminal) share no    *)
(* lock: each step below is what happens between two awaits on the store.  *)
(***************************************************************************)
EXTENDS Integers, FiniteSets

CONSTANTS
  Library,   \* registered libraries
  Text,      \* contents of one chunk each
  Length,    \* Text -> characters
  Cosine,    \* Text -> Text -> similarity, in hundredths
  Weak,      \* the texts the cheap relevance gate quarantines
  Wordless,  \* the texts without a word of two characters
  None,      \* Rust's Option::None; no point
  Caller,    \* concurrent callers
  Named,     \* the callers whose name goes with what they store
  MaxCalls,  \* bound: calls begun
  Faults,    \* which of "stop", "swallow" may happen
  MaxFaults, \* bound: how many happen
  Kept       \* the points the first library may hold at the start

Id == Library \X Text
\* ingested: the source is "ingest", what a candidate gets that names none.
Point ==
  [quarantined : BOOLEAN, archived : BOOLEAN, from : Library \cup {None},
   author : Named \cup {None}, ingested : BOOLEAN]

ASSUME MemoryAssumption ==
  /\ None \notin Library /\ None \notin Point /\ None \notin Id /\ None \notin Caller
  /\ Length \in [Text -> Nat]
  /\ Cosine \in [Text -> [Text -> 0 .. 100]]
  /\ \A s, t \in Text : Cosine[t][t] = 100 /\ Cosine[s][t] = Cosine[t][s]
  /\ Weak \subseteq Text /\ Wordless \subseteq Text
  /\ Named \subseteq Caller
  /\ MaxCalls \in Nat /\ MaxFaults \in Nat
  /\ Faults \subseteq {"stop", "swallow"}
  /\ Kept \subseteq Point \cup {None}

VARIABLES
  store,  \* Id -> a point, or None
  work,   \* per caller: the call in hand
  calls,  \* how many calls have begun
  faults, \* how many faults have happened
  calm,   \* history, per caller: its call works on what it has read
  torn    \* history: the moves stopped between copy and delete, untouched since

memoryVars == <<store, work, calls, faults>>

-----------------------------------------------------------------------------
(* Points.                                                                 *)

\* INGEST_DEDUP_THRESHOLD.
DedupThreshold == 95

\* What a full upsert of a new memory leaves, whatever was there.
Fresh(author, ingested) ==
  [quarantined |-> FALSE, archived |-> FALSE, from |-> None, author |-> author, ingested |-> ingested]

\* A candidate goes to the quarantine without the name of who offered it.
Diverted ==
  [quarantined |-> TRUE, archived |-> FALSE, from |-> None, author |-> None, ingested |-> TRUE]

Exists(id) == store[id] # None
Quarantined(id) == Exists(id) /\ store[id].quarantined
\* live_memory_exists.
Live(id) == Exists(id) /\ ~store[id].quarantined
\* memory_query_filter.
Visible(id) == Live(id) /\ ~store[id].archived

\* upsert_points, delete_points and set_payload; the last leaves a missing point missing.
Put(id, point) == store' = [store EXCEPT ![id] = point]
Drop(ids) == store' = [i \in Id |-> IF i \in ids THEN None ELSE store[i]]
Flag(ids, field, value) ==
  store' = [i \in Id |-> IF i \in ids /\ Exists(i) THEN [store[i] EXCEPT ![field] = value] ELSE store[i]]

-----------------------------------------------------------------------------
(* Calls.                                                                  *)

Idle == [op |-> "none", pc |-> "idle"]

FirstStep ==
  [add |-> "write", ingest |-> "judge", promote |-> "promote_read", expire |-> "expire_read",
   archive |-> "archive", restore |-> "restore_read", edit |-> "edit_read", delete |-> "remove"]

\* id: the point a call writes.  old: the point an edit or a delete takes
\* away.  author: the name a new memory gets.  was: history, what the point was
\* when the call began.
Handling ==
  [op : DOMAIN FirstStep,
   pc : {"write", "judge", "nearest", "check", "divert", "promote_read", "promote", "expire_read",
         "expire", "archive", "restore_read", "restore", "edit_read", "remove"},
   id : Id, old : Id, author : Named \cup {None}, was : {"absent", "quarantined", "kept"}]

State(id) == IF ~Exists(id) THEN "absent" ELSE IF Quarantined(id) THEN "quarantined" ELSE "kept"

\* The caller's own name; an edit keeps that of the memory, once it has read it.
Author(c, op) == IF c \in Named /\ op # "edit" THEN c ELSE None

Beginning(c, op, id, old) ==
  [op |-> op, pc |-> FirstStep[op], id |-> id, old |-> old, author |-> Author(c, op), was |-> State(id)]

Go(c, record) == work' = [work EXCEPT ![c] = record]
GoTo(c, pc) == work' = [work EXCEPT ![c].pc = pc]
Answer(c) == Go(c, Idle)
\* c stands at pc, and the step begins no call and is no fault.
At(c, pc) == work[c].pc = pc /\ UNCHANGED <<calls, faults>>

\* A request c makes at pc fails, and c goes on as if it had been answered.
Swallow(c, pc) ==
  /\ "swallow" \in Faults /\ faults < MaxFaults /\ faults' = faults + 1
  /\ work[c].pc = pc
  /\ UNCHANGED <<store, calls>>

\* A tool, a route or a command is called.
Begin(c) ==
  /\ work[c] = Idle
  /\ calls < MaxCalls /\ calls' = calls + 1
  /\ \E op \in DOMAIN FirstStep, id \in Id, old \in Id :
       /\ old = id \/ (op = "edit" /\ old[1] = id[1])
       /\ Go(c, Beginning(c, op, id, old))
  /\ UNCHANGED <<store, faults>>

\* A write or a read fails, the request is dropped, or the process dies: the
\* steps already taken stay taken.
Stop(c) ==
  /\ "stop" \in Faults /\ faults < MaxFaults /\ faults' = faults + 1
  /\ work[c] # Idle
  /\ Answer(c)
  /\ UNCHANGED <<store, calls>>

-----------------------------------------------------------------------------
(* Ingest.                                                                 *)

\* Mutant of Verdicts: hidden points are no neighbours.
VerdictsOfVisible(id) ==
  IF id[2] \in Weak THEN {"quarantine"}
  ELSE IF id[2] \in Wordless \/ \A t \in Text : ~Visible(<<id[1], t>>) THEN {"accept"}
  ELSE IF Visible(id) THEN {"quarantine"}
  ELSE {"accept", "quarantine"}

\* check_cheap, then the share of words the nearest neighbours lack.  The
\* neighbours are every point of the library, hidden or not: a text that is
\* there is its own nearest neighbour and brings no new word.  With no
\* neighbour at all novelty cannot be judged, and a text without words is all
\* new to novelty_ratio.
Verdicts(id) ==
  IF id[2] \in Weak THEN {"quarantine"}
  ELSE IF id[2] \in Wordless \/ \A t \in Text : ~Exists(<<id[1], t>>) THEN {"accept"}
  ELSE IF Exists(id) THEN {"quarantine"}
  ELSE {"accept", "quarantine"}

Judge(c) ==
  /\ At(c, "judge")
  /\ \E verdict \in Verdicts(work[c].id) :
       GoTo(c, IF verdict = "quarantine" THEN "promote_read" ELSE "nearest")
  /\ UNCHANGED store

\* Without its neighbours a text that passes check_cheap is accepted.
JudgeFails(c) ==
  /\ Swallow(c, "judge") /\ work[c].id[2] \notin Weak
  /\ GoTo(c, "nearest")

\* nearest_score, over every point of the library.
Nearest(c) ==
  LET library == work[c].id[1]
      near == \E t \in Text : Exists(<<library, t>>) /\ Cosine[work[c].id[2]][t] >= DedupThreshold
  IN
  /\ At(c, "nearest")
  /\ GoTo(c, IF near THEN "check" ELSE "write")
  /\ UNCHANGED store

\* Without its nearest neighbour a text is stored.
NearestFails(c) == Swallow(c, "nearest") /\ GoTo(c, "write")

\* promote_from_quarantine looks before it flips.
PromoteRead(c) ==
  /\ At(c, "promote_read")
  /\ IF Quarantined(work[c].id) THEN GoTo(c, "promote")
     ELSE IF work[c].op = "ingest" THEN GoTo(c, "check")
     ELSE Answer(c)
  /\ UNCHANGED store

Promote(c) ==
  /\ At(c, "promote")
  /\ Flag({work[c].id}, "quarantined", FALSE)
  /\ Answer(c)

\* An ingest takes a promotion that fails, at its look or at its write, for
\* one that found nothing to promote.
PromoteFails(c) ==
  /\ Swallow(c, "promote_read") \/ Swallow(c, "promote")
  /\ work[c].op = "ingest"
  /\ GoTo(c, "check")

\* live_memory_exists: a live text is left as it is.
Check(c) ==
  /\ At(c, "check")
  /\ IF Live(work[c].id) THEN Answer(c) ELSE GoTo(c, "divert")
  /\ UNCHANGED store

\* An unreadable point counts as not live.
CheckFails(c) == Swallow(c, "check") /\ GoTo(c, "divert")

\* add_quarantined.
Divert(c) ==
  /\ At(c, "divert")
  /\ Put(work[c].id, Diverted)
  /\ Answer(c)

-----------------------------------------------------------------------------
(* The other calls.                                                        *)

\* add_memory_authored: one upsert, over whatever has the id.
Write(c) ==
  /\ At(c, "write")
  /\ Put(work[c].id, Fresh(work[c].author, work[c].op = "ingest"))
  /\ IF work[c].op = "edit" THEN GoTo(c, "remove") ELSE Answer(c)

\* expire_from_quarantine looks, then deletes what is still quarantined.
ExpireRead(c) ==
  /\ At(c, "expire_read")
  /\ IF Quarantined(work[c].id) THEN GoTo(c, "expire") ELSE Answer(c)
  /\ UNCHANGED store

\* Mutant of Expire: a delete by bare id.
ExpireById(c) ==
  /\ At(c, "expire")
  /\ Drop({work[c].id})
  /\ Answer(c)

Expire(c) ==
  /\ At(c, "expire")
  /\ Drop({i \in {work[c].id} : Quarantined(i)})
  /\ Answer(c)

Archive(c) ==
  /\ At(c, "archive")
  /\ Flag({work[c].id}, "archived", TRUE)
  /\ Answer(c)

RestoreRead(c) ==
  /\ At(c, "restore_read")
  /\ IF Exists(work[c].id) /\ store[work[c].id].archived THEN GoTo(c, "restore") ELSE Answer(c)
  /\ UNCHANGED store

Restore(c) ==
  /\ At(c, "restore")
  /\ Flag({work[c].id}, "archived", FALSE)
  /\ Answer(c)

\* edit_memory: the old point must be there; the new text is written beside
\* it, as a new memory under the old one's author, and then the old id is
\* deleted.
EditRead(c) ==
  /\ At(c, "edit_read")
  /\ IF Exists(work[c].old)
     THEN Go(c, [work[c] EXCEPT !.pc = "write", !.author = store[work[c].old].author])
     ELSE Answer(c)
  /\ UNCHANGED store

\* delete_memory, delete_memories.
Remove(c) ==
  /\ At(c, "remove")
  /\ Drop({work[c].old})
  /\ Answer(c)

Step(c) ==
  \/ Begin(c) \/ Stop(c)
  \/ Judge(c) \/ JudgeFails(c) \/ Nearest(c) \/ NearestFails(c)
  \/ PromoteRead(c) \/ Promote(c) \/ PromoteFails(c)
  \/ Check(c) \/ CheckFails(c) \/ Divert(c)
  \/ Write(c) \/ ExpireRead(c) \/ Expire(c) \/ Archive(c)
  \/ RestoreRead(c) \/ Restore(c) \/ EditRead(c) \/ Remove(c)

=============================================================================
