----------------------------- MODULE DoubtLoop -----------------------------
(***************************************************************************)
(* The doubt window and the background re-test loop of an MCP server       *)
(* (src/src/doubt.rs), beside the calls that raise its busy flag, fill its *)
(* registry (module Outcomes) and touch the facts it re-tests.             *)
(*                                                                         *)
(* The loop sleeps, drains the registry, tops its work up with facts,      *)
(* and re-tests one id after the other, looking at the busy flag only      *)
(* between two ids.  Its awaits interleave with every call.                *)
(***************************************************************************)
EXTENDS Outcomes, Confidence, SequencesExt

CONSTANTS
  Fact,              \* fact ids, numbered apart from the memories
  None,              \* Rust's Option::None
  Window,            \* DOUBT_WINDOW_N_RETRIEVALS
  TickCap,           \* BACKGROUND_PER_TICK_CAP
  CadenceMin, CadenceMax, CadenceDefault,  \* BACKGROUND_CADENCE_*_SECONDS
  Dependants         \* the counts a dependants backfill may write

ASSUME DoubtLoopAssumption ==
  /\ Fact \subseteq Nat /\ IsFiniteSet(Fact)
  /\ Fact \cap Memory = {}
  /\ None \notin Int
  /\ Window \in Nat /\ TickCap \in Nat
  /\ CadenceMin \in Nat /\ CadenceMax \in Nat /\ CadenceDefault \in CadenceMin .. CadenceMax
  /\ Dependants \subseteq Nat

VARIABLES
  \* The payload of a fact that a re-test reads or writes.
  deps, conf, score, doubt,
  inherited,  \* per server: the facts a briefing surfaced
  loop,       \* per server: where its loop stands
  cadence     \* per server: seconds until the next tick

factVars == <<deps, conf, score, doubt>>
loopVars == <<loop, cadence>>
vars == <<outcomeVars, factVars, inherited, loopVars>>

-----------------------------------------------------------------------------
(* Where a loop stands.                                                    *)

Id == Memory \cup Fact

\* work: the ids the tick has still to re-test, in order.
Asleep == [pc |-> "sleep", work |-> <<>>]
Walking == [pc : {"sleep", "select", "walk"}, work : Seq(Id)]
Scoring == [pc : {"score"}, work : Seq(Id), id : Id]
Judging == [pc : {"count"}, work : Seq(Id), id : Fact, old : Int, new : Int]
Moving == [pc : {"verdict"}, work : Seq(Id), id : Fact, new : Int, to : {0, Window}]
Storing == [pc : {"store"}, work : Seq(Id), id : Fact, new : Int]
LoopState == Walking \cup Scoring \cup Judging \cup Moving \cup Storing

Retesting == {"score", "count", "verdict", "store"}
Target(s) == IF loop[s].pc \in Retesting THEN {loop[s].id} ELSE {}

\* Everything the server still owes a re-test.
InHand(s) == flags[s] \cup ToSet(loop[s].work) \cup Target(s)

GoLoop(s, record) == loop' = [loop EXCEPT ![s] = record]

DoubtInit ==
  /\ Init
  /\ deps = [f \in Fact |-> 0]
  /\ conf = [f \in Fact |-> 1]
  /\ score = [f \in Fact |-> None]
  /\ doubt = [f \in Fact |-> 0]
  /\ inherited = [s \in Server |-> {}]
  /\ loop = [s \in Server |-> Asleep]
  /\ cadence = [s \in Server |-> CadenceDefault]

-----------------------------------------------------------------------------
(* A tick begins.                                                          *)

\* Mutant of NextCadence: halved without a floor.
NextCadenceNoFloor(previous, n) ==
  IF n = 0
  THEN IF 2 * previous < CadenceMax THEN 2 * previous ELSE CadenceMax
  ELSE IF n >= EditCap THEN previous \div 2
  ELSE previous

\* background_cadence_next.
NextCadence(previous, n) ==
  IF n = 0
  THEN IF 2 * previous < CadenceMax THEN 2 * previous ELSE CadenceMax
  ELSE IF n >= EditCap
  THEN IF previous \div 2 > CadenceMin THEN previous \div 2 ELSE CadenceMin
  ELSE IF previous < CadenceMin THEN CadenceMin
  ELSE IF previous > CadenceMax THEN CadenceMax ELSE previous

\* The elements of S in the order R, a set of pairs.
Sorted(S, R) ==
  [i \in 1 .. Cardinality(S) |-> CHOOSE x \in S : Cardinality({y \in S : <<y, x>> \in R}) = i - 1]
FirstN(q, n) == SubSeq(q, 1, IF n < Len(q) THEN n ELSE Len(q))

\* drain_doubt_window_flags: the first TickCap ids in order.
Increasing == {e \in Id \X Id : e[1] < e[2]}
Drained(F) == FirstN(Sorted(F, Increasing), TickCap)

\* The edit counter is swapped to zero, the load average may double the
\* cadence, and the registry is drained before the first await.
Wake(s) ==
  /\ loop[s] = Asleep
  /\ ~busy[s]
  /\ edits' = [edits EXCEPT ![s] = 0]
  /\ \E load \in {1, 2} :
       cadence' = [cadence EXCEPT ![s] = load * NextCadence(@, edits[s])]
  /\ flags' = [flags EXCEPT ![s] = @ \ ToSet(Drained(@))]
  /\ GoLoop(s, [pc |-> "select", work |-> Drained(flags[s])])
  /\ UNCHANGED <<log, stats, busy, call, clock, faults, history, factVars, inherited>>

\* list_top_dependants_facts: most dependants first, then by id.
MostDependants ==
  {e \in Fact \X Fact : deps[e[1]] > deps[e[2]] \/ (deps[e[1]] = deps[e[2]] /\ e[1] < e[2])}
TopFacts(n) == FirstN(Sorted(Fact, MostDependants), n)

\* Topped up to the cap, without an id that was drained.
TopUp(s) ==
  LET drained == loop[s].work
      room == TickCap - Len(drained)
      new == ToSet(TopFacts(room)) \ ToSet(drained)
  IN
  /\ loop[s].pc = "select"
  /\ GoLoop(s, [pc |-> "walk", work |-> drained \o Sorted(new, MostDependants)])
  /\ UNCHANGED <<outcomeVars, factVars, inherited, cadence>>

\* The facts cannot be listed: what was drained is all there is.
TopUpFails(s) ==
  /\ "abort" \in Faults /\ faults < MaxFaults /\ faults' = faults + 1
  /\ loop[s].pc = "select"
  /\ GoLoop(s, [pc |-> "walk", work |-> loop[s].work])
  /\ UNCHANGED <<log, stats, flags, edits, busy, call, clock, history, factVars,
                 inherited, cadence>>

-----------------------------------------------------------------------------
(* The walk.                                                               *)

\* Mutant of Take: the busy flag is looked at only at the wake.
TakeAnyway(s) ==
  LET work == loop[s].work IN
  /\ loop[s].pc = "walk"
  /\ work # <<>>
  /\ GoLoop(s, [pc |-> "score", work |-> Tail(work), id |-> Head(work)])
  /\ UNCHANGED <<outcomeVars, factVars, inherited, cadence>>

Take(s) ==
  LET work == loop[s].work IN
  /\ loop[s].pc = "walk"
  /\ work # <<>>
  /\ ~busy[s]
  /\ GoLoop(s, [pc |-> "score", work |-> Tail(work), id |-> Head(work)])
  /\ UNCHANGED <<outcomeVars, factVars, inherited, cadence>>

TickEnds(s) ==
  /\ loop[s].pc = "walk"
  /\ loop[s].work = <<>>
  /\ GoLoop(s, Asleep)
  /\ UNCHANGED <<outcomeVars, factVars, inherited, cadence>>

\* A call is in flight: the rest of the tick's work is dropped.
CutShort(s) ==
  /\ loop[s].pc = "walk"
  /\ loop[s].work # <<>>
  /\ busy[s]
  /\ GoLoop(s, Asleep)
  /\ UNCHANGED <<outcomeVars, factVars, inherited, cadence>>

-----------------------------------------------------------------------------
(* One re-test.                                                            *)

Current(s, f) == ConfidenceScore(deps[f], conf[f], f \in inherited[s])
Cached(f) == IF score[f] = None THEN 500 ELSE score[f]

RetestScore(s) ==
  LET l == loop[s] IN
  /\ l.pc = "score"
  /\ l.id \in Fact
  /\ GoLoop(s, [pc |-> "count", work |-> l.work, id |-> l.id,
                old |-> Cached(l.id), new |-> Current(s, l.id)])
  /\ UNCHANGED <<outcomeVars, factVars, inherited, cadence>>

\* A payload that cannot be read counts as an empty one.
RetestMisread(s) ==
  LET l == loop[s] IN
  /\ "read" \in Faults /\ faults < MaxFaults /\ faults' = faults + 1
  /\ l.pc = "score"
  /\ l.id \in Fact
  /\ GoLoop(s, [pc |-> "count", work |-> l.work, id |-> l.id, old |-> 500,
                new |-> ConfidenceScore(0, 0, l.id \in inherited[s])])
  /\ UNCHANGED <<log, stats, flags, edits, busy, call, clock, history, factVars,
                 inherited, cadence>>

\* The counter is read, and decides with the two scores.
Judge(s, count) ==
  LET l == loop[s]
      verdict == RetestVerdict(l.old, l.new, count >= Window)
  IN
  /\ l.pc = "count"
  /\ GoLoop(s,
       IF verdict = "none"
       THEN [pc |-> "store", work |-> l.work, id |-> l.id, new |-> l.new]
       ELSE [pc |-> "verdict", work |-> l.work, id |-> l.id, new |-> l.new,
             to |-> IF verdict = "promote" THEN Window ELSE 0])
  /\ UNCHANGED <<log, stats, flags, edits, busy, call, clock, history, factVars,
                 inherited, cadence>>

RetestJudge(s) == Judge(s, doubt[loop[s].id]) /\ UNCHANGED faults

\* A counter that cannot be read is zero.
RetestMisjudge(s) ==
  /\ "read" \in Faults /\ faults < MaxFaults /\ faults' = faults + 1
  /\ Judge(s, 0)

RetestMove(s) ==
  LET l == loop[s] IN
  /\ l.pc = "verdict"
  /\ doubt' = [doubt EXCEPT ![l.id] = l.to]
  /\ GoLoop(s, [pc |-> "store", work |-> l.work, id |-> l.id, new |-> l.new])
  /\ UNCHANGED <<outcomeVars, deps, conf, score, inherited, cadence>>

\* The new score is kept for the next tick, as an edit like any other, and the
\* id's flag is cleared.
RetestStore(s) ==
  LET l == loop[s] IN
  /\ l.pc = "store"
  /\ score' = [score EXCEPT ![l.id] = l.new]
  /\ edits' = [edits EXCEPT ![s] = Edited(@)]
  /\ flags' = [flags EXCEPT ![s] = @ \ {l.id}]
  /\ GoLoop(s, [pc |-> "walk", work |-> l.work])
  /\ UNCHANGED <<log, stats, busy, call, clock, faults, history, deps, conf, doubt,
                 inherited, cadence>>

\* A flagged id names a memory, and no point of the facts collection: its
\* re-test reads nothing there and writes to a point that is not there.  The
\* store may take such a write for done.
RetestMemory(s) ==
  LET l == loop[s] IN
  /\ l.pc = "score"
  /\ l.id \in Memory
  /\ edits' = [edits EXCEPT ![s] = Edited(@)]
  /\ flags' = [flags EXCEPT ![s] = @ \ {l.id}]
  /\ GoLoop(s, [pc |-> "walk", work |-> l.work])
  /\ UNCHANGED <<log, stats, busy, call, clock, faults, history, factVars, inherited,
                 cadence>>

\* Mutant of RetestMemoryFails: an id whose re-test failed is given up.
RetestMemoryGivesUp(s) ==
  LET l == loop[s] IN
  /\ l.pc = "score"
  /\ l.id \in Memory
  /\ GoLoop(s, [pc |-> "walk", work |-> l.work])
  /\ UNCHANGED <<outcomeVars, factVars, inherited, cadence>>

\* Or it may refuse it, and the id is flagged again.
RetestMemoryFails(s) ==
  LET l == loop[s] IN
  /\ l.pc = "score"
  /\ l.id \in Memory
  /\ flags' = [flags EXCEPT ![s] = @ \cup {l.id}]
  /\ GoLoop(s, [pc |-> "walk", work |-> l.work])
  /\ UNCHANGED <<log, stats, edits, busy, call, clock, faults, history, factVars,
                 inherited, cadence>>

\* A read or a write of a re-test fails, and the fact is flagged.
RetestFails(s) ==
  LET l == loop[s] IN
  /\ "abort" \in Faults /\ faults < MaxFaults /\ faults' = faults + 1
  /\ l.pc \in Retesting
  /\ l.id \in Fact
  /\ flags' = [flags EXCEPT ![s] = @ \cup {l.id}]
  /\ GoLoop(s, [pc |-> "walk", work |-> l.work])
  /\ UNCHANGED <<log, stats, edits, busy, call, clock, history, factVars, inherited,
                 cadence>>

-----------------------------------------------------------------------------
(* The calls that touch a fact.                                            *)

FactQuery == [pc : {"query"}, id : Fact]
FactCount == [pc : {"count"}, id : Fact, to : Nat]

\* A query, in mode "enforce": the counter of each fact it surfaces is read,
\* moved and written back.  A counter that cannot be read is zero.
QueryBegin(c, f) ==
  /\ Begin(c, [pc |-> "query", id |-> f])
  /\ UNCHANGED <<log, stats, flags, edits, faults, history, factVars, inherited,
                 loopVars>>

\* apply_retrieval_event.
Moved(prior, drifted) == IF drifted THEN prior + 1 ELSE 0

QueryRead(c, prior, drifted) ==
  LET f == call[c].id IN
  /\ call[c].pc = "query"
  /\ IF Moved(prior, drifted) = prior
     THEN Return(c)
     ELSE Goto(c, [pc |-> "count", id |-> f, to |-> Moved(prior, drifted)])
  /\ UNCHANGED <<log, stats, flags, edits, history, factVars, inherited, loopVars>>

QueryMisread(c, drifted) ==
  /\ "read" \in Faults /\ faults < MaxFaults /\ faults' = faults + 1
  /\ QueryRead(c, 0, drifted)

QueryWrite(c) ==
  /\ call[c].pc = "count"
  /\ doubt' = [doubt EXCEPT ![call[c].id] = call[c].to]
  /\ Return(c)
  /\ UNCHANGED <<log, stats, flags, edits, faults, history, deps, conf, score,
                 inherited, loopVars>>

\* fact add of a stored fact (module FactStore models its inside): the upsert
\* rebuilds the payload, so the counters of this module start over.
Reassert(c, f) ==
  /\ call[c] = Idle
  /\ clock < MaxCalls
  /\ clock' = clock + 1
  /\ deps' = [deps EXCEPT ![f] = 0]
  /\ conf' = [conf EXCEPT ![f] = @ + 1]
  /\ score' = [score EXCEPT ![f] = None]
  /\ doubt' = [doubt EXCEPT ![f] = 0]
  /\ edits' = [s \in Server |-> IF s = c THEN Edited(edits[s]) ELSE edits[s]]
  /\ inherited' = [s \in Server |-> IF s = c THEN inherited[s] \ {f} ELSE inherited[s]]
  /\ UNCHANGED <<log, stats, flags, busy, call, faults, history, loopVars>>

\* `dependants --apply`, in a process of its own.
BackfillDependants(f, n) ==
  /\ clock < MaxCalls
  /\ clock' = clock + 1
  /\ deps[f] # n
  /\ deps' = [deps EXCEPT ![f] = n]
  /\ UNCHANGED <<log, stats, flags, edits, busy, call, faults, history, conf, score,
                 doubt, inherited, loopVars>>

\* A briefing marks what it surfaces; the session's end clears the marks.
Briefing(s, F) ==
  /\ call[s] = Idle
  /\ clock < MaxCalls
  /\ clock' = clock + 1
  /\ inherited' = [inherited EXCEPT ![s] = @ \cup F]
  /\ UNCHANGED <<log, stats, flags, edits, busy, call, faults, history, factVars,
                 loopVars>>

SessionEnd(s) ==
  /\ call[s] = Idle
  /\ inherited[s] # {}
  /\ inherited' = [inherited EXCEPT ![s] = {}]
  /\ UNCHANGED <<outcomeVars, factVars, loopVars>>

\* The process dies and is started again: all it kept in memory is gone.
Crash(s) ==
  /\ "crash" \in Faults /\ faults < MaxFaults /\ faults' = faults + 1
  /\ call' = [call EXCEPT ![s] = Idle]
  /\ busy' = [busy EXCEPT ![s] = FALSE]
  /\ flags' = [flags EXCEPT ![s] = {}]
  /\ edits' = [edits EXCEPT ![s] = 0]
  /\ inherited' = [inherited EXCEPT ![s] = {}]
  /\ GoLoop(s, Asleep)
  /\ cadence' = [cadence EXCEPT ![s] = CadenceDefault]
  /\ UNCHANGED <<log, stats, clock, history, factVars>>

Beside == UNCHANGED <<factVars, inherited, loopVars>>

-----------------------------------------------------------------------------

LoopStep(s) ==
  \/ Wake(s) \/ TopUp(s) \/ Take(s) \/ TickEnds(s) \/ CutShort(s)
  \/ RetestScore(s) \/ RetestJudge(s) \/ RetestMove(s) \/ RetestStore(s)
  \/ RetestMemory(s) \/ RetestMemoryFails(s)

QueryStep(c) ==
  \/ \E drifted \in BOOLEAN :
       /\ call[c].pc = "query"
       /\ QueryRead(c, doubt[call[c].id], drifted)
       /\ UNCHANGED faults
  \/ QueryWrite(c)

Next ==
  \/ OutcomeNext /\ Beside
  \/ \E s \in Server : LoopStep(s)
  \/ \E s \in Server : TopUpFails(s) \/ RetestMisread(s) \/ RetestMisjudge(s) \/ RetestFails(s)
  \/ \E c \in Caller : QueryStep(c)
  \/ \E c \in Caller, f \in Fact : QueryBegin(c, f) \/ Reassert(c, f)
  \/ \E c \in Caller, drifted \in BOOLEAN : QueryMisread(c, drifted)
  \/ \E f \in Fact, n \in Dependants : BackfillDependants(f, n)
  \/ \E s \in Server, F \in SUBSET Fact : Briefing(s, F)
  \/ \E s \in Server : SessionEnd(s) \/ Crash(s)

\* The loop's timer fires and its task is polled; a call is answered.  Nobody
\* is obliged to call.
Fairness ==
  /\ \A s \in Server : WF_vars(LoopStep(s))
  /\ \A c \in Caller : WF_vars(QueryStep(c))
  /\ \A s \in Server : WF_vars(Answer(s) /\ Beside)

Spec == DoubtInit /\ [][Next]_vars /\ Fairness

-----------------------------------------------------------------------------
(* Properties.                                                             *)

TypeOK ==
  /\ log \in [Memory -> [Key -> Entry]]
  /\ stats \in [Memory -> Stats]
  /\ flags \in [Server -> SUBSET Id]
  /\ edits \in [Server -> 0 .. EditCap]
  /\ busy \in [Server -> BOOLEAN]
  /\ call \in [Caller -> OutcomeCall \cup FactQuery \cup FactCount]
  /\ clock \in Nat /\ faults \in Nat
  /\ manual \in [Memory -> Nat] /\ erased \subseteq Memory
  /\ deps \in [Fact -> Nat] /\ conf \in [Fact -> Nat]
  /\ score \in [Fact -> Int \cup {None}]
  /\ doubt \in [Fact -> Nat]
  /\ inherited \in [Server -> SUBSET Fact]
  /\ loop \in [Server -> LoopState]
  /\ cadence \in [Server -> Nat]

\* Guarantee (a) of the loop, as far as it goes: no re-test begins while a call
\* of its process is in flight, and a call that has ended, even by a panic, does
\* not keep the loop away.
YieldsToCalls ==
  [][\A s \in Server :
       loop'[s].pc = "score" /\ loop[s].pc # "score" => call[s] = Idle]_vars

\* What the registry holds is not lost on the way to its re-test: an id leaves
\* the registry and the tick's work only re-tested, dropped with the rest of a
\* tick that a call cut short, or with its process.
FlagsSurvive ==
  [][\A s \in Server : \A id \in InHand(s) \ InHand(s)' :
       \/ id \in Target(s) /\ (RetestMemory(s) \/ RetestStore(s))
       \/ CutShort(s)
       \/ Crash(s)]_vars

\* The interval never leaves its bounds, the load doubling the upper one, over
\* any sequence of busy, moderate and quiet ticks.
CadenceInRange == \A s \in Server : cadence[s] \in CadenceMin .. 2 * CadenceMax

\* Once its server's calls end, a flagged memory is taken up by the loop, or
\* was dropped with a tick or the process: neither a failed call nor a failing
\* re-test of another memory keeps the loop away from it for ever.
FlagIsTakenUp ==
  \A s \in Server, m \in Memory :
    m \in flags[s] ~> (m \in Target(s) \/ m \notin InHand(s))

=============================================================================
