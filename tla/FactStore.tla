----------------------------- MODULE FactStore -----------------------------
(***************************************************************************)
(* The facts of ONE (subject, predicate) axis and everything that writes   *)
(* them: fact add with its duel, invalidate, restore, the redo-duels pass, *)
(* the dependants backfill, the cardinality registry, and the inheritance  *)
(* marks of the session briefing (src/src/knowledge.rs, duel.rs, doubt.rs, *)
(* cli.rs).                                                                *)
(*                                                                         *)
(* A row is a Qdrant point.  Its id is a hash of the whole triple, so on   *)
(* one axis a row is named by its object.  Agents are the tasks that call  *)
(* the store; several share an operating-system process, and with it the   *)
(* per-axis mutex and the inheritance registry.  An agent's step is what   *)
(* happens between two awaits that another agent could observe.            *)
(***************************************************************************)
EXTENDS Integers, FiniteSets, Duel

CONSTANTS
  Object,          \* the values asserted on the axis
  Agent,           \* tasks that call the store
  Process,         \* operating-system processes
  ProcessOf,       \* the process an agent runs in
  None,            \* Rust's Option::None
  Registrations,   \* the cardinalities the predicate is registered with
  Backfill,        \* the dependants counts a backfill may write
  MonthsPerTick,   \* how far Tick moves the wall clock
  MaxClock,        \* bound on Tick
  MaxConfirmations,\* bound on how often one triple is asserted
  Faults,          \* which faults may happen: {} to {"abort", "crash", "read"}
  MaxFaults        \* bound on their number

Cardinalities == {"single", "temporal_single", "multi"}

ASSUME ConstantsAssumption ==
  /\ Registrations \subseteq Cardinalities
  /\ None \notin Nat
  /\ None \notin Agent
  /\ None \notin Object
  /\ ProcessOf \in [Agent -> Process]
  /\ Backfill \subseteq Nat
  /\ MonthsPerTick \in Nat

VARIABLES
  \* The facts collection: one point per object of the axis, and one
  \* function per payload key, for a payload write merges single keys.
  status, valid, created, until, conf, deps,
  card,       \* the predicate's registered cardinality
  inherited,  \* per process: the triples a briefing surfaced
  axisLock,   \* per process: holder of SUBJECT_PREDICATE_LOCKS[axis]
  flock,      \* holder of data_dir/.facts.lock
  pc,         \* per agent: where its call stands
  \* Per agent, the locals of the call: the triple, what was read of its
  \* prior row, the cardinality read, the status the duel gave, the rows
  \* still to retire and the one being retired.
  obj, seen, ruled, decided, losers, loser,
  clock, faults

payload == <<status, valid, created, until, conf, deps>>
store == <<payload, card>>
locks == <<axisLock, flock>>
locals == <<obj, seen, ruled, decided, losers, loser>>
vars == <<store, inherited, locks, pc, locals, clock, faults>>

-----------------------------------------------------------------------------
(* Rows.                                                                   *)

Status == {"active", "contested", "stale", "superseded", "quarantine_candidate"}
DefaultVisible == {"active", "contested"}

Time == Nat \cup {None}

\* status "none" is the point that is not there.
Stored(o) == status[o] # "none"
Invalidated(o) == Stored(o) /\ ~valid[o]
Visible(o) == valid[o] /\ status[o] \in DefaultVisible

\* What find_facts_by_subject_predicate and query_facts return.
VisibleObjects == {o \in Object : Visible(o)}

\* [created_at, valid_until), open on the right without a valid_until.
ValidAt(from, to, t) == /\ from # None => from <= t
                        /\ to # None => t < to

Resistance(o) ==
  Entrenchment(deps[o], conf[o],
               IF created[o] = None THEN 0 ELSE (clock - created[o]) * MonthsPerTick)

Scores == [o \in Object |-> Resistance(o)]

\* A key that cannot be read counts as zero.
Misread(o, key) ==
  [Scores EXCEPT ![o] =
    Entrenchment(IF key = "deps" THEN 0 ELSE deps[o],
                 IF key = "conf" THEN 0 ELSE conf[o],
                 IF key = "created" THEN 0 ELSE (clock - created[o]) * MonthsPerTick)]

\* The opponents resolve_against_existing may settle on: the most entrenched.
MostEntrenched(S, score) == {o \in S : \A p \in S : score[p] <= score[o]}

\* detect_conflict.
Conflict(S, o) == \E p \in S : p # o

-----------------------------------------------------------------------------
(* Calls.                                                                  *)

Critical == {"read", "duel", "write", "retire", "stamp", "reopen", "redo_read"}
Step == Critical \cup {"idle", "axis", "redo_flock"}

Seen == [conf : Nat, created : Time]
NothingSeen == [conf |-> 0, created |-> None]

Goto(a, step) == pc' = [pc EXCEPT ![a] = step]

\* The calls of the agents in A end, and their guards are dropped.
Release(A) ==
  /\ axisLock' = [p \in Process |-> IF axisLock[p] \in A THEN None ELSE axisLock[p]]
  /\ flock' = IF flock \in A THEN None ELSE flock
  /\ pc' = [a \in Agent |-> IF a \in A THEN "idle" ELSE pc[a]]
  /\ obj' = [a \in Agent |-> IF a \in A THEN None ELSE obj[a]]
  /\ seen' = [a \in Agent |-> IF a \in A THEN NothingSeen ELSE seen[a]]
  /\ ruled' = [a \in Agent |-> IF a \in A THEN "multi" ELSE ruled[a]]
  /\ decided' = [a \in Agent |-> IF a \in A THEN "active" ELSE decided[a]]
  /\ losers' = [a \in Agent |-> IF a \in A THEN {} ELSE losers[a]]
  /\ loser' = [a \in Agent |-> IF a \in A THEN None ELSE loser[a]]

Init ==
  /\ status = [o \in Object |-> "none"]
  /\ valid = [o \in Object |-> FALSE]
  /\ created = [o \in Object |-> None]
  /\ until = [o \in Object |-> None]
  /\ conf = [o \in Object |-> 0]
  /\ deps = [o \in Object |-> 0]
  /\ card \in Registrations
  /\ inherited = [p \in Process |-> {}]
  /\ axisLock = [p \in Process |-> None]
  /\ flock = None
  /\ pc = [a \in Agent |-> "idle"]
  /\ obj = [a \in Agent |-> None]
  /\ seen = [a \in Agent |-> NothingSeen]
  /\ ruled = [a \in Agent |-> "multi"]
  /\ decided = [a \in Agent |-> "active"]
  /\ losers = [a \in Agent |-> {}]
  /\ loser = [a \in Agent |-> None]
  /\ clock = 0
  /\ faults = 0

-----------------------------------------------------------------------------
(* fact add.                                                               *)

\* The per-axis mutex of this process.
AddBegin(a, o) ==
  /\ pc[a] = "idle"
  /\ conf[o] + Cardinality({b \in Agent : obj[b] = o}) < MaxConfirmations
  /\ axisLock[ProcessOf[a]] = None
  /\ axisLock' = [axisLock EXCEPT ![ProcessOf[a]] = a]
  /\ obj' = [obj EXCEPT ![a] = o]
  /\ Goto(a, "axis")
  /\ UNCHANGED <<store, inherited, flock, seen, ruled, decided, losers, loser,
                 clock, faults>>

\* Mutant of AddLock: the file lock is entered without waiting for it.
AddLockShared(a) ==
  /\ pc[a] = "axis"
  /\ flock' = a
  /\ Goto(a, "read")
  /\ UNCHANGED <<store, inherited, axisLock, locals, clock, faults>>

\* Then the machine-wide file lock.
AddLock(a) ==
  /\ pc[a] = "axis"
  /\ flock = None
  /\ flock' = a
  /\ Goto(a, "read")
  /\ UNCHANGED <<store, inherited, axisLock, locals, clock, faults>>

\* Mutant of AddRead: `valid` is not looked at.
AddReadAny(a) ==
  /\ pc[a] = "read"
  /\ seen' = [seen EXCEPT ![a] = [conf |-> conf[obj[a]], created |-> created[obj[a]]]]
  /\ Goto(a, "duel")
  /\ UNCHANGED <<store, inherited, locks, obj, ruled, decided, losers, loser,
                 clock, faults>>

\* The prior row of this very triple.
AddRead(a) ==
  /\ pc[a] = "read"
  /\ ~Invalidated(obj[a])
  /\ seen' = [seen EXCEPT ![a] = [conf |-> conf[obj[a]], created |-> created[obj[a]]]]
  /\ Goto(a, "duel")
  /\ UNCHANGED <<store, inherited, locks, obj, ruled, decided, losers, loser,
                 clock, faults>>

\* An invalidated triple is refused (verdict "invalidated"): nothing is written.
AddRefuse(a) ==
  /\ pc[a] = "read"
  /\ Invalidated(obj[a])
  /\ Release({a})
  /\ UNCHANGED <<store, inherited, clock, faults>>

\* A read that fails is taken for an absent row: existing_payload_strings
\* maps the error to None.
AddReadFails(a) ==
  /\ pc[a] = "read"
  /\ "read" \in Faults /\ faults < MaxFaults
  /\ faults' = faults + 1
  /\ seen' = [seen EXCEPT ![a] = NothingSeen]
  /\ Goto(a, "duel")
  /\ UNCHANGED <<store, inherited, locks, obj, ruled, decided, losers, loser, clock>>

\* What an outcome against opponent p means for the write and for p.
StatusAfter == [flip |-> "active", contested |-> "contested",
                quarantine |-> "quarantine_candidate"]

Sentence(outcome, p) ==
  [status |-> StatusAfter[outcome], losers |-> IF outcome = "flip" THEN {p} ELSE {}]

Unopposed == [status |-> "active", losers |-> {}]

\* What the duel may decide for call a: visible rows of another value on a
\* predicate that admits conflict are fought, the most entrenched of all the
\* visible rows being the opponent, the triple's own row included.
Decision(a, score) ==
  LET weight == WeightNew(seen[a].conf + 1, obj[a] \notin inherited[ProcessOf[a]])
  IN IF card # "multi" /\ Conflict(VisibleObjects, obj[a])
     THEN {Sentence(ResolveDuel(score[p], weight), p)
             : p \in MostEntrenched(VisibleObjects, score)}
     ELSE {Unopposed}

\* The decision d is taken, and clear_inherited for a fact that will be active.
Settle(a, d) ==
  /\ ruled' = [ruled EXCEPT ![a] = card]
  /\ decided' = [decided EXCEPT ![a] = d.status]
  /\ losers' = [losers EXCEPT ![a] = d.losers]
  /\ inherited' = IF d.status = "active"
                  THEN [inherited EXCEPT ![ProcessOf[a]] = @ \ {obj[a]}]
                  ELSE inherited
  /\ Goto(a, "write")
  /\ UNCHANGED <<store, locks, obj, seen, loser, clock>>

AddDuel(a) ==
  /\ pc[a] = "duel"
  /\ \E d \in Decision(a, Scores) : Settle(a, d)
  /\ UNCHANGED faults

\* A failed look at either collection is taken for "multi", or for no rows;
\* one at an opponent's payload, for a zero.
AddDuelBlind(a) ==
  /\ pc[a] = "duel"
  /\ "read" \in Faults /\ faults < MaxFaults
  /\ faults' = faults + 1
  /\ \/ Settle(a, Unopposed)
     \/ \E o \in VisibleObjects, key \in {"deps", "conf", "created"} :
          \E d \in Decision(a, Misread(o, key)) : Settle(a, d)

\* Mutant of AddWrite: the keys the call does not set are merged, not replaced.
AddWriteMerged(a) ==
  /\ pc[a] = "write"
  /\ status' = [status EXCEPT ![obj[a]] = decided[a]]
  /\ valid' = [valid EXCEPT ![obj[a]] = TRUE]
  /\ created' = [created EXCEPT ![obj[a]] =
                   IF seen[a].created = None THEN clock ELSE seen[a].created]
  /\ conf' = [conf EXCEPT ![obj[a]] = seen[a].conf + 1]
  /\ IF losers[a] = {}
     THEN Release({a})
     ELSE Goto(a, "retire") /\ UNCHANGED <<locals, locks>>
  /\ UNCHANGED <<until, deps, card, inherited, clock, faults>>

\* The upsert replaces the whole point: valid again, its window open, its
\* created_at kept, its dependants_count gone.  It ends the call unless a
\* loser is to be retired.
AddWrite(a) ==
  /\ pc[a] = "write"
  /\ status' = [status EXCEPT ![obj[a]] = decided[a]]
  /\ valid' = [valid EXCEPT ![obj[a]] = TRUE]
  /\ created' = [created EXCEPT ![obj[a]] =
                   IF seen[a].created = None THEN clock ELSE seen[a].created]
  /\ until' = [until EXCEPT ![obj[a]] = None]
  /\ conf' = [conf EXCEPT ![obj[a]] = seen[a].conf + 1]
  /\ deps' = [deps EXCEPT ![obj[a]] = 0]
  /\ IF losers[a] = {}
     THEN Release({a})
     ELSE Goto(a, "retire") /\ UNCHANGED <<locals, locks>>
  /\ UNCHANGED <<card, inherited, clock, faults>>

-----------------------------------------------------------------------------
(* retire_loser: two payload writes, the status and then the end of the    *)
(* validity window.  Shared by fact add and redo-duels.                    *)

\* Mutant of RetiredStatus: what is corrected is recorded as what has passed.
RetiredAsPast(c) == "superseded"

RetiredStatus(c) == IF c = "temporal_single" THEN "superseded" ELSE "stale"

\* Mutant of RetireStatus: set_fact_payload_field takes the facts lock itself.
RetireStatusLocking(a) ==
  /\ pc[a] = "retire"
  /\ flock = None
  /\ \E o \in losers[a] :
       /\ status' = [status EXCEPT ![o] = RetiredStatus(ruled[a])]
       /\ loser' = [loser EXCEPT ![a] = o]
  /\ Goto(a, "stamp")
  /\ UNCHANGED <<valid, created, until, conf, deps, card, inherited, locks,
                 obj, seen, ruled, decided, losers, clock, faults>>

RetireStatus(a) ==
  /\ pc[a] = "retire"
  /\ \E o \in losers[a] :
       /\ status' = [status EXCEPT ![o] = RetiredStatus(ruled[a])]
       /\ loser' = [loser EXCEPT ![a] = o]
  /\ Goto(a, "stamp")
  /\ UNCHANGED <<valid, created, until, conf, deps, card, inherited, locks,
                 obj, seen, ruled, decided, losers, clock, faults>>

RetireUntil(a) ==
  /\ pc[a] = "stamp"
  /\ until' = [until EXCEPT ![loser[a]] = clock]
  /\ LET rest == losers[a] \ {loser[a]} IN
       IF rest = {}
       THEN Release({a})
       ELSE /\ losers' = [losers EXCEPT ![a] = rest]
            /\ Goto(a, "retire")
            /\ UNCHANGED <<locks, obj, seen, ruled, decided, loser>>
  /\ UNCHANGED <<status, valid, created, conf, deps, card, inherited, clock, faults>>

-----------------------------------------------------------------------------
(* Invalidate and restore.                                                 *)

\* Mutant of Invalidate: no file lock, as before CHANGELOG.md:806.
InvalidateUnlocked(a, o) ==
  /\ pc[a] = "idle"
  /\ Stored(o)
  /\ valid' = [valid EXCEPT ![o] = FALSE]
  /\ until' = [until EXCEPT ![o] = clock]
  /\ UNCHANGED <<status, created, conf, deps, card, inherited, locks, pc, locals,
                 clock, faults>>

\* One payload write under the file lock.
Invalidate(a, o) ==
  /\ pc[a] = "idle"
  /\ flock = None
  /\ Stored(o)
  /\ valid' = [valid EXCEPT ![o] = FALSE]
  /\ until' = [until EXCEPT ![o] = clock]
  /\ UNCHANGED <<status, created, conf, deps, card, inherited, locks, pc, locals,
                 clock, faults>>

\* Restore makes the row valid, and only then removes valid_until.
RestoreValid(a, o) ==
  /\ pc[a] = "idle"
  /\ flock = None
  /\ Invalidated(o)
  /\ flock' = a
  /\ valid' = [valid EXCEPT ![o] = TRUE]
  /\ obj' = [obj EXCEPT ![a] = o]
  /\ Goto(a, "reopen")
  /\ UNCHANGED <<status, created, until, conf, deps, card, inherited, axisLock,
                 seen, ruled, decided, losers, loser, clock, faults>>

RestoreUntil(a) ==
  /\ pc[a] = "reopen"
  /\ until' = [until EXCEPT ![obj[a]] = None]
  /\ Release({a})
  /\ UNCHANGED <<status, valid, created, conf, deps, card, inherited, clock, faults>>

-----------------------------------------------------------------------------
(* migrate-v14 redo-duels --apply.                                         *)

\* The unlocked survey: a conflict-bearing cluster, and its cardinality.
RedoPlan(a) ==
  /\ pc[a] = "idle"
  /\ card # "multi"
  /\ Cardinality(VisibleObjects) > 1
  /\ ruled' = [ruled EXCEPT ![a] = card]
  /\ Goto(a, "redo_flock")
  /\ UNCHANGED <<store, inherited, locks, obj, seen, decided, losers, loser,
                 clock, faults>>

\* Mutant of RedoLock: the file lock is entered without waiting for it.
RedoLockShared(a) ==
  /\ pc[a] = "redo_flock"
  /\ flock' = a
  /\ Goto(a, "redo_read")
  /\ UNCHANGED <<store, inherited, axisLock, locals, clock, faults>>

RedoLock(a) ==
  /\ pc[a] = "redo_flock"
  /\ flock = None
  /\ flock' = a
  /\ Goto(a, "redo_read")
  /\ UNCHANGED <<store, inherited, axisLock, locals, clock, faults>>

\* Newest created_at first; the id that breaks a tie is any fixed order.
Newest(S) == {o \in S : \A p \in S : created[p] <= created[o]}

\* Mutant of RedoRead: the winner is not taken out of the list.
RedoReadAll(a) ==
  /\ pc[a] = "redo_read"
  /\ Cardinality(VisibleObjects) > 1
  /\ losers' = [losers EXCEPT ![a] = VisibleObjects]
  /\ Goto(a, "retire")
  /\ UNCHANGED <<store, inherited, locks, obj, seen, ruled, decided, loser,
                 clock, faults>>

\* The axis is read again under the lock; all but the newest are to go.
RedoRead(a) ==
  /\ pc[a] = "redo_read"
  /\ \E keep \in Newest(VisibleObjects) :
       /\ VisibleObjects \ {keep} # {}
       /\ losers' = [losers EXCEPT ![a] = VisibleObjects \ {keep}]
  /\ Goto(a, "retire")
  /\ UNCHANGED <<store, inherited, locks, obj, seen, ruled, decided, loser,
                 clock, faults>>

\* The cluster collapsed meanwhile.
RedoNothing(a) ==
  /\ pc[a] = "redo_read"
  /\ Cardinality(VisibleObjects) <= 1
  /\ Release({a})
  /\ UNCHANGED <<store, inherited, clock, faults>>

-----------------------------------------------------------------------------
(* Writers and readers that take no lock.                                  *)

\* migrate-v14 dependants --apply: one key merged into an existing point.
BackfillDependants(o, n) ==
  /\ Stored(o)
  /\ deps' = [deps EXCEPT ![o] = n]
  /\ UNCHANGED <<status, valid, created, until, conf, card, inherited, locks, pc,
                 locals, clock, faults>>

RegisterCardinality(c) ==
  /\ card' = c
  /\ UNCHANGED <<payload, inherited, locks, pc, locals, clock, faults>>

\* build_context marks every fact its briefing shows.
Briefing(p) ==
  /\ inherited' = [inherited EXCEPT ![p] =
                     @ \cup {o \in VisibleObjects : ValidAt(None, until[o], clock)}]
  /\ UNCHANGED <<store, locks, pc, locals, clock, faults>>

\* clear_all_inherited, at a session's end or its recovery.
SessionEnd(p) ==
  /\ inherited' = [inherited EXCEPT ![p] = {}]
  /\ UNCHANGED <<store, locks, pc, locals, clock, faults>>

-----------------------------------------------------------------------------
(* Time and faults.                                                        *)

\* Months pass; no call lasts that long.
Tick ==
  /\ clock < MaxClock
  /\ \A a \in Agent : pc[a] = "idle"
  /\ clock' = clock + 1
  /\ UNCHANGED <<store, inherited, locks, pc, locals, faults>>

\* A storage call fails and `?` returns, or the caller drops the future:
\* the guards are released, what was written stays written.
Abort(a) ==
  /\ "abort" \in Faults /\ faults < MaxFaults
  /\ pc[a] # "idle"
  /\ faults' = faults + 1
  /\ Release({a})
  /\ UNCHANGED <<store, inherited, clock>>

\* The process dies: its locks and its registry go with it.
Crash(p) ==
  /\ "crash" \in Faults /\ faults < MaxFaults
  /\ faults' = faults + 1
  /\ inherited' = [inherited EXCEPT ![p] = {}]
  /\ Release({a \in Agent : ProcessOf[a] = p})
  /\ UNCHANGED <<store, clock>>

-----------------------------------------------------------------------------

\* The steps of a call under way.
Continue(a) ==
  \/ AddLock(a)
  \/ AddRead(a) \/ AddRefuse(a) \/ AddReadFails(a)
  \/ AddDuel(a) \/ AddDuelBlind(a)
  \/ AddWrite(a)
  \/ RetireStatus(a) \/ RetireUntil(a)
  \/ RestoreUntil(a)
  \/ RedoLock(a) \/ RedoRead(a) \/ RedoNothing(a)

Start(a) ==
  \/ \E o \in Object : AddBegin(a, o) \/ Invalidate(a, o) \/ RestoreValid(a, o)
  \/ RedoPlan(a)

Unlocked ==
  \/ \E o \in Object, n \in Backfill : BackfillDependants(o, n)
  \/ \E c \in Registrations : RegisterCardinality(c)
  \/ \E p \in Process : Briefing(p) \/ SessionEnd(p)

Next ==
  \/ \E a \in Agent : Start(a) \/ Continue(a) \/ Abort(a)
  \/ \E p \in Process : Crash(p)
  \/ Unlocked
  \/ Tick

Spec == Init /\ [][Next]_vars

\* A started call goes on: tokio polls a ready task and Qdrant answers.
\* Nothing makes an agent start one.
FairSpec == Spec /\ \A a \in Agent : WF_vars(Continue(a))

\* The store of a user who never restores an invalidated fact.
NothingRestored == [][~ \E a \in Agent, o \in Object : RestoreValid(a, o)]_vars

-----------------------------------------------------------------------------
(* The promise this store implements.                                      *)

FaceOf(o) ==
  IF ~Stored(o) THEN "absent"
  ELSE IF ~valid[o] THEN "retracted"
  ELSE IF Visible(o) THEN "shown" ELSE "hidden"

faces == [o \in Object |-> FaceOf(o)]

Promise == INSTANCE FactPromise WITH face <- faces, count <- conf

\* Every run of the store, faults included, is a run of FactPromise: each
\* payload write, alone, is a step a reader was promised or no step at all.
KeepsPromise == Promise!Spec

-----------------------------------------------------------------------------
(* Properties.                                                             *)

\* Type invariant.
TypeOK ==
  /\ status \in [Object -> Status \cup {"none"}]
  /\ valid \in [Object -> BOOLEAN]
  /\ created \in [Object -> Time]
  /\ until \in [Object -> Time]
  /\ conf \in [Object -> Nat]
  /\ deps \in [Object -> Nat]
  /\ card \in Cardinalities
  /\ inherited \in [Process -> SUBSET Object]
  /\ axisLock \in [Process -> Agent \cup {None}]
  /\ flock \in Agent \cup {None}
  /\ pc \in [Agent -> Step]
  /\ obj \in [Agent -> Object \cup {None}]
  /\ seen \in [Agent -> Seen]
  /\ ruled \in [Agent -> Cardinalities]
  /\ decided \in [Agent -> Status]
  /\ losers \in [Agent -> SUBSET Object]
  /\ loser \in [Agent -> Object \cup {None}]
  /\ clock \in Nat
  /\ faults \in Nat

\* What holds inside the critical section of the facts lock, and makes every
\* write there sound although other agents go on: one agent at most is in it;
\* what it read of its own row is still so; the rows its duel set it against
\* are still visible, and whoever is to be hidden has another visible row
\* beside it.
OneInside == \A a \in Agent : pc[a] \in Critical => flock = a

DatedRows == \A o \in Object : Stored(o) => created[o] # None

ReadHolds(a) ==
  pc[a] \in {"duel", "write"} /\ "read" \notin Faults =>
    /\ ~Invalidated(obj[a])
    /\ seen[a] = [conf |-> conf[obj[a]], created |-> created[obj[a]]]

DecisionHolds(a) ==
  pc[a] = "write" =>
    /\ decided[a] \in {"active", "contested", "quarantine_candidate"}
    /\ losers[a] # {} => decided[a] = "active"
    /\ losers[a] \subseteq VisibleObjects
    /\ decided[a] = "quarantine_candidate" \/ obj[a] \in losers[a] =>
         \E o \in VisibleObjects \ losers[a] : o # obj[a]

RetirementHolds(a) ==
  pc[a] \in {"retire", "stamp"} =>
    /\ VisibleObjects \ losers[a] # {}
    /\ \A o \in losers[a] : Stored(o) /\ valid[o]
    /\ pc[a] = "stamp" => loser[a] \in losers[a]

Grounded ==
  /\ OneInside
  /\ DatedRows
  /\ \A a \in Agent : ReadHolds(a) /\ DecisionHolds(a) /\ RetirementHolds(a)

\* "Explicit invalidate is final": an invalidated fact becomes valid again
\* only through restore, however a fact add is interleaved with invalidate.
InvalidateIsFinal ==
  [][\A o \in Object :
       Invalidated(o) /\ valid'[o] => \E a \in Agent : RestoreValid(a, o)]_vars

\* An axis that shows a value goes on showing one: only an explicit
\* invalidate takes the last visible fact away.  The winner of a flip is
\* recorded before the loser is retired, and a rejected challenger is
\* rejected for the sake of a fact that is still there.
AxisKeepsAValue ==
  [][VisibleObjects # {} /\ VisibleObjects' = {}
       => \E a \in Agent, o \in Object : Invalidate(a, o)]_vars

\* A re-assertion adds exactly one confirmation to what the row holds, and
\* keeps its created_at: no concurrent assertion of the triple is lost.
EveryAssertionCounts ==
  [][\A a \in Agent :
       LET o == obj[a] IN
         AddWrite(a) => /\ conf'[o] = conf[o] + 1
                        /\ Stored(o) => created'[o] = created[o]]_vars

\* redo-duels leaves one visible fact on the axis when it has retired its
\* last loser, whatever was written since its unlocked survey.
RedoLeavesOneValue ==
  [][\A a \in Agent :
       pc[a] = "stamp" /\ obj[a] = None /\ RetireUntil(a) /\ pc'[a] = "idle"
         => Cardinality(VisibleObjects') = 1]_vars

\* Whoever takes the facts lock gives it back: the critical sections await
\* nothing that another agent holds.
FactsLockIsReleased ==
  \A a \in Agent : flock = a ~> flock # a

\* The torn-Active invariant: with the predicate registered as single-valued
\* before its first fact, and no call under way, one fact at most is active.
Idle == \A a \in Agent : pc[a] = "idle"
ActiveObjects == {o \in Object : valid[o] /\ status[o] = "active"}
OneActive == Idle /\ card # "multi" => Cardinality(ActiveObjects) <= 1

=============================================================================
