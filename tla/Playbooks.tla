----------------------------- MODULE Playbooks -----------------------------
(***************************************************************************)
(* Playbooks: procedures, learned from an error and its fix, and skills,   *)
(* written down under a name (src/src/procedure.rs, skill.rs, storage.rs). *)
(*                                                                         *)
(* A playbook's text is a point among the memories.  How often it worked   *)
(* is a row of a second collection, under the same id; procedures older    *)
(* than that collection carry their counts on the point.  Nothing locks    *)
(* the two: each step below is what happens between two awaits.            *)
(***************************************************************************)
EXTENDS Integers, FiniteSets

CONSTANTS
  Procedure, \* ids of procedures: an error signature with its fix
  Skill,     \* ids of skills: their names
  Client,    \* concurrent callers
  None,      \* no point, no row
  Legacy,    \* the counts a procedure's point may carry from before
  MaxCalls,  \* bound: calls begun
  MaxFaults  \* bound: reads and writes that fail, callers that die

Playbook == Procedure \cup Skill
ProcStats == [success : Nat, fail : Nat, verified : BOOLEAN]

ASSUME PlaybooksAssumption ==
  /\ Procedure \cap Skill = {}
  /\ None \notin ProcStats
  /\ Legacy \subseteq ProcStats
  /\ MaxCalls \in Nat /\ MaxFaults \in Nat

VARIABLES
  core,   \* id -> [legacy, confirmations] of its point, or None
  stats,  \* id -> its row in _mod_procstats, or None
  work,   \* per client: the call in hand
  calls, faults,
  earned  \* history: what was ever reported of the id

vars == <<core, stats, work, calls, faults, earned>>

-----------------------------------------------------------------------------
(* What readers see.                                                       *)

\* ProcStats::default().
Unproven == [success |-> 0, fail |-> 0, verified |-> FALSE]
Proven(s) == s # Unproven

\* The counts on the point, for a point that has some.
Seed(p) == IF core[p] # None THEN core[p].legacy ELSE Unproven
Row(p) == IF stats[p] # None THEN stats[p] ELSE Unproven

\* recall_procedures: the row, if there is one, overrides the seed.
Recalled(p) == IF stats[p] # None THEN stats[p] ELSE Seed(p)
\* list_verified_procedures: the row overrides if it says anything.
Listed(p) == IF Proven(Row(p)) THEN Row(p) ELSE Seed(p)
Exported == {p \in Procedure : core[p] # None /\ Listed(p).verified}
\* get_skill, list_skills, match_skills.
Decorated(p) == Row(p)
Shown(p) == IF p \in Skill THEN Decorated(p) ELSE Recalled(p)

\* rank_score above the relevance, in hundredths.
Trust(s) ==
  LET total == s.success + s.fail
      confidence == IF total < 5 THEN total ELSE 5
  IN (IF s.verified THEN 25 ELSE 0)
     + IF total = 0 THEN 0 ELSE (4 * (s.success - s.fail) * confidence) \div total

-----------------------------------------------------------------------------
(* Calls.                                                                  *)

Idle == [op |-> "none", pc |-> "idle"]

\* alone: history, no other call was about the playbook meanwhile, and nothing
\* failed.  before, there: history, what was shown, and whether it was there,
\* when the call began.  was, saw: what the call has read.
Call(op, pc, p, worked, verify) ==
  [op |-> op, pc |-> pc, id |-> p, worked |-> worked, verify |-> verify,
   was |-> FALSE, saw |-> Unproven, left |-> {},
   alone |-> \A d \in Client : work[d] = Idle,
   before |-> Shown(p), there |-> core[p] # None]

\* The tools: mind_learn; mind_procedure_outcome, which never verifies;
\* mind_outcome, which verifies by a success; mind_skill; delete; the
\* confirmations backfill.
Requests(p, worked, verify) ==
  IF p \in Procedure
  THEN {Call("learn", "core", p, FALSE, verify),
        Call("outcome", "row", p, worked, FALSE), Call("outcome", "row", p, worked, worked),
        Call("delete", "core", p, FALSE, FALSE), Call("backfill", "survey", p, FALSE, FALSE)}
  ELSE {Call("outcome", "find", p, worked, verify),
        Call("set", "find", p, FALSE, FALSE), Call("delete", "find", p, FALSE, FALSE)}

Disturbed(w) == IF w = Idle THEN w ELSE [w EXCEPT !.alone = FALSE]

Begin(c) ==
  /\ work[c] = Idle /\ calls < MaxCalls /\ calls' = calls + 1
  /\ \E p \in Playbook, worked \in BOOLEAN, verify \in BOOLEAN : \E call \in Requests(p, worked, verify) :
       work' = [d \in Client |-> IF d = c THEN call ELSE Disturbed(work[d])]
  /\ UNCHANGED <<core, stats, faults, earned>>

At(c, op, pc) == work[c].op = op /\ work[c].pc = pc
Works(c, record) == work' = [work EXCEPT ![c] = record] /\ UNCHANGED calls
Id(c) == work[c].id

\* A step that goes well; a read or a write that fails.
Fine == UNCHANGED faults
Fails == faults < MaxFaults /\ faults' = faults + 1

Put(p, point) == core' = [core EXCEPT ![p] = point]
SetRow(p, row) == stats' = [stats EXCEPT ![p] = row]
NoPoint == [legacy |-> Unproven, confirmations |-> 0]

-----------------------------------------------------------------------------
(* learn.                                                                  *)

\* existing_procedure, the point: an error reads as none.
LearnCore(c) ==
  /\ At(c, "learn", "core")
  /\ \/ /\ Fine
        /\ Works(c, [work[c] EXCEPT !.pc = "row", !.was = core[Id(c)] # None, !.saw = Seed(Id(c))])
     \/ Fails /\ Works(c, [work[c] EXCEPT !.pc = "row", !.alone = FALSE])
  /\ UNCHANGED <<core, stats, earned>>

\* Mutant of LearnRow: the counts on the point are dropped at a re-learn.
LearnRowOnly(c) ==
  /\ At(c, "learn", "row") /\ Fine
  /\ Works(c, [work[c] EXCEPT !.pc = IF work[c].was THEN "put" ELSE "clear",
                              !.saw = IF work[c].was THEN Row(Id(c)) ELSE Unproven])
  /\ UNCHANGED <<core, stats, earned>>

\* existing_procedure, the row; without a point its history is dropped.
LearnRow(c) ==
  /\ At(c, "learn", "row")
  /\ \E read \in BOOLEAN :
       LET saw == IF read /\ Proven(Row(Id(c))) THEN Row(Id(c)) ELSE work[c].saw
       IN /\ IF read THEN Fine ELSE Fails
          /\ Works(c, [work[c] EXCEPT !.pc = IF work[c].was THEN "put" ELSE "clear",
                                      !.saw = IF work[c].was THEN saw ELSE Unproven,
                                      !.alone = work[c].alone /\ read])
  /\ UNCHANGED <<core, stats, earned>>

\* delete_procstats, best effort.
ClearRow(c) ==
  /\ At(c, "learn", "clear")
  /\ \/ Fine /\ SetRow(Id(c), None) /\ Works(c, [work[c] EXCEPT !.pc = "put"])
     \/ Fails /\ UNCHANGED stats /\ Works(c, [work[c] EXCEPT !.pc = "put", !.alone = FALSE])
  /\ UNCHANGED <<core, earned>>

\* The upsert replaces the point: no counts, no confirmations.
LearnPut(c) ==
  /\ At(c, "learn", "put") /\ Fine
  /\ Put(Id(c), NoPoint)
  /\ Works(c, IF work[c].verify \/ Proven(work[c].saw)
              THEN [work[c] EXCEPT !.pc = "keep"] ELSE Idle)
  /\ UNCHANGED <<stats, earned>>

\* verified latches.
LearnKeep(c) ==
  /\ At(c, "learn", "keep") /\ Fine
  /\ SetRow(Id(c), [work[c].saw EXCEPT !.verified = @ \/ work[c].verify])
  /\ earned' = [earned EXCEPT ![Id(c)].verified = @ \/ work[c].verify]
  /\ Works(c, Idle)
  /\ UNCHANGED core

-----------------------------------------------------------------------------
(* outcome, of a procedure or a skill; set and delete.                     *)

\* get_skill: a skill that is not there has no outcome and is not removed.
Find(c) ==
  /\ work[c].pc = "find" /\ Fine
  /\ Works(c, IF work[c].op = "set" THEN [work[c] EXCEPT !.pc = "put"]
              ELSE IF core[Id(c)] = None THEN Idle
              ELSE [work[c] EXCEPT !.pc = IF work[c].op = "outcome" THEN "row" ELSE "core"])
  /\ UNCHANGED <<core, stats, earned>>

\* procstats_one: the row alone, and an error reads as zeros.
OutcomeRow(c) ==
  /\ At(c, "outcome", "row")
  /\ \/ Fine /\ Works(c, [work[c] EXCEPT !.pc = "bump", !.saw = Row(Id(c))])
     \/ Fails /\ Works(c, [work[c] EXCEPT !.pc = "bump", !.alone = FALSE])
  /\ UNCHANGED <<core, stats, earned>>

\* One more report in s.
Bumped(s, worked, verify) ==
  [success |-> s.success + (IF worked THEN 1 ELSE 0),
   fail |-> s.fail + (IF worked THEN 0 ELSE 1),
   verified |-> s.verified \/ (worked /\ verify)]

\* Mutant of OutcomeBump: whatever was verified stands verified, failed or not.
OutcomeBumpVerifies(c) ==
  /\ At(c, "outcome", "bump") /\ Fine
  /\ SetRow(Id(c), [Bumped(work[c].saw, work[c].worked, work[c].verify)
                      EXCEPT !.verified = @ \/ work[c].verify])
  /\ earned' = [earned EXCEPT ![Id(c)] = Bumped(@, work[c].worked, work[c].verify)]
  /\ Works(c, Idle)
  /\ UNCHANGED core

\* Mutant of OutcomeBump: the counts of a success and a failure are swapped.
OutcomeBumpSwapped(c) ==
  /\ At(c, "outcome", "bump") /\ Fine
  /\ SetRow(Id(c), Bumped(work[c].saw, ~work[c].worked, work[c].verify))
  /\ earned' = [earned EXCEPT ![Id(c)] = Bumped(@, work[c].worked, work[c].verify)]
  /\ Works(c, Idle)
  /\ UNCHANGED core

OutcomeBump(c) ==
  /\ At(c, "outcome", "bump") /\ Fine
  /\ SetRow(Id(c), Bumped(work[c].saw, work[c].worked, work[c].verify))
  /\ earned' = [earned EXCEPT ![Id(c)] = Bumped(@, work[c].worked, work[c].verify)]
  /\ Works(c, Idle)
  /\ UNCHANGED core

\* add_skill: the text alone; its row is neither read nor written.
SetPut(c) ==
  /\ At(c, "set", "put") /\ Fine
  /\ Put(Id(c), NoPoint) /\ Works(c, Idle)
  /\ UNCHANGED <<stats, earned>>

\* delete_memory, remove_skill: the point, and then, best effort, the row.
DeleteCore(c) ==
  /\ At(c, "delete", "core") /\ Fine
  /\ Put(Id(c), None) /\ Works(c, [work[c] EXCEPT !.pc = "stats"])
  /\ UNCHANGED <<stats, earned>>
DeleteStats(c) ==
  /\ At(c, "delete", "stats")
  /\ \/ Fine /\ SetRow(Id(c), None)
     \/ Fails /\ UNCHANGED stats
  /\ Works(c, Idle)
  /\ UNCHANGED <<core, earned>>

-----------------------------------------------------------------------------
(* The confirmations backfill.                                             *)

\* list_procedures_for_backfill, the points with their counts.
Survey(c) ==
  /\ At(c, "backfill", "survey") /\ Fine
  /\ Works(c, [work[c] EXCEPT !.pc = "rows",
       !.left = {[id |-> p, count |-> Seed(p).success] : p \in {q \in Procedure : core[q] # None}}])
  /\ UNCHANGED <<core, stats, earned>>

\* Their rows, which override; a count of zero is no signal.
Rows(c) ==
  /\ At(c, "backfill", "rows")
  /\ \E read \in BOOLEAN :
       LET Count(e) == IF read /\ stats[e.id] # None THEN stats[e.id].success ELSE e.count
           found == {[e EXCEPT !.count = Count(e)] : e \in work[c].left}
       IN /\ IF read THEN Fine ELSE Fails
          /\ Works(c, [work[c] EXCEPT !.pc = "confirm", !.left = {e \in found : e.count > 0}])
  /\ UNCHANGED <<core, stats, earned>>

\* set_memory_payload_field, one by one: a missing point stays missing.
Confirm(c) ==
  /\ At(c, "backfill", "confirm") /\ Fine
  /\ \E e \in work[c].left :
       /\ Works(c, [work[c] EXCEPT !.left = @ \ {e}])
       /\ core' = IF core[e.id] = None THEN core
                  ELSE [core EXCEPT ![e.id].confirmations = e.count]
  /\ UNCHANGED <<stats, earned>>
Confirmed(c) ==
  /\ At(c, "backfill", "confirm") /\ work[c].left = {} /\ Fine
  /\ Works(c, Idle)
  /\ UNCHANGED <<core, stats, earned>>

\* A write fails and the call with it, or the caller dies.
Stops(c) ==
  /\ work[c] # Idle /\ Fails
  /\ Works(c, Idle)
  /\ UNCHANGED <<core, stats, earned>>

-----------------------------------------------------------------------------

Init ==
  /\ core \in [Playbook -> {None} \cup {[legacy |-> l, confirmations |-> 0] : l \in Legacy \cup {Unproven}}]
  /\ \A p \in Skill : core[p] = None
  /\ stats = [p \in Playbook |-> None]
  /\ work = [c \in Client |-> Idle] /\ calls = 0 /\ faults = 0
  /\ earned = [p \in Playbook |-> Seed(p)]

Learn(c) == LearnCore(c) \/ LearnRow(c) \/ ClearRow(c) \/ LearnPut(c) \/ LearnKeep(c)
Report(c) == Find(c) \/ OutcomeRow(c) \/ OutcomeBump(c)
Write(c) == SetPut(c) \/ DeleteCore(c) \/ DeleteStats(c)
Backfill(c) == Survey(c) \/ Rows(c) \/ Confirm(c) \/ Confirmed(c)

Next == \E c \in Client :
  Begin(c) \/ Learn(c) \/ Report(c) \/ Write(c) \/ Backfill(c) \/ Stops(c)

Spec == Init /\ [][Next]_vars

-----------------------------------------------------------------------------
(* Properties.                                                             *)

\* s claims no more than t.
Within(s, t) == s.success <= t.success /\ s.fail <= t.fail /\ (s.verified => t.verified)

\* Type invariant.
Handling ==
  [op : {"learn", "outcome", "set", "delete", "backfill"},
   pc : {"core", "row", "clear", "put", "keep", "find", "bump", "stats", "survey", "rows", "confirm"},
   id : Playbook, worked : BOOLEAN, verify : BOOLEAN, was : BOOLEAN, saw : ProcStats,
   left : SUBSET [id : Playbook, count : Nat], alone : BOOLEAN, before : ProcStats, there : BOOLEAN]
TypeOK ==
  /\ core \in [Playbook -> {None} \cup [legacy : ProcStats, confirmations : Nat]]
  /\ stats \in [Playbook -> {None} \cup ProcStats]
  /\ work \in [Client -> {Idle} \cup Handling]
  /\ calls \in Nat /\ faults \in Nat
  /\ earned \in [Playbook -> ProcStats]

\* Trust is earned: whatever a reader shows of a playbook was reported of that
\* id, and "verified" only after a signal that verifies - although reports,
\* re-learning, deletion and the backfill run through each other and fail.
TrustIsEarned ==
  \A p \in Playbook :
    /\ Within(Recalled(p), earned[p]) /\ Within(Listed(p), earned[p])
    /\ core[p] # None => core[p].confirmations <= earned[p].success

Ends(c) == work[c] # Idle /\ work'[c] = Idle /\ work[c].alone /\ faults' = faults

\* Writing a playbook again, undisturbed, keeps what is known of it, counts
\* from before the side collection included, and verified latches; a procedure
\* that was not there starts with nothing, whatever its predecessor had.
RewritingKeepsTrust ==
  [][\A c \in Client, b \in Playbook :
       Ends(c) /\ b = Id(c) /\ work[c].op \in {"learn", "set"} /\ (work[c].there \/ b \in Procedure)
         => Shown(b)' = [(IF work[c].there THEN work[c].before ELSE Unproven)
                               EXCEPT !.verified = @ \/ work[c].verify]]_vars

\* An undisturbed report moves a playbook the right way: a success never sinks
\* it in the ranking, a failure never lifts it.  Counts still on the point are
\* left out: the first report overrides them with a row that starts at zero.
ReportMovesTrust ==
  [][\A c \in Client, b \in Playbook :
       Ends(c) /\ b = Id(c) /\ At(c, "outcome", "bump") /\ ~Proven(Seed(b))
         => IF work[c].worked
            THEN Trust(work[c].before) <= Trust(Shown(b)')
            ELSE Trust(Shown(b)') <= Trust(work[c].before)]_vars

=============================================================================
