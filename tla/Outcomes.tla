----------------------------- MODULE Outcomes -----------------------------
(***************************************************************************)
(* Outcome signals: the signal log a memory carries, the derived counters  *)
(* of a procedure, the error-rate guardrail and the registry it fills      *)
(* (src/src/outcome.rs, procedure.rs, the mind_outcome and                 *)
(* mind_procedure_outcome handlers of mcp.rs, procedure_outcome in         *)
(* storage.rs), under the busy flag every tool call of an MCP server       *)
(* raises.                                                                 *)
(*                                                                         *)
(* A server is one `mgimind mcp` process: it answers one call at a time    *)
(* and keeps a registry and a busy flag of its own.  A task is a caller of *)
(* another kind of process (an HTTP request): it only reads facts here     *)
(* and raises no flag.                                                     *)
(***************************************************************************)
EXTENDS Integers, FiniteSets

CONSTANTS
  Memory,        \* memory ids, numbered in the order of their strings
  Procedure,     \* those of type "procedure"
  Key,           \* (signal_type, source) pairs of signals
  TestKey,       \* those of type test_passed
  ProcedureKey,  \* those of type test_passed or code_compiled
  Server, Task,
  FailThreshold, \* ERROR_RATE_FAIL_THRESHOLD
  EditCap,       \* edits are counted up to here, which is "busy"
  MaxCalls,      \* bound on the calls
  Faults,        \* which faults may happen: {} to {"abort", "crash", "read"}
  MaxFaults      \* bound on their number

Caller == Server \cup Task

ASSUME OutcomesAssumption ==
  /\ Memory \subseteq Nat
  /\ Procedure \subseteq Memory
  /\ TestKey \subseteq ProcedureKey
  /\ ProcedureKey \subseteq Key
  /\ Server \cap Task = {}
  /\ EditCap \in Nat

VARIABLES
  log,     \* per memory and key: the entry of external_signals_v15
  stats,   \* per memory: its row in _mod_procstats
  flags,   \* per server: DOUBT_WINDOW_FLAGGED
  edits,   \* per server: EDITS_SINCE_LAST_TICK
  busy,    \* per server: MCP_BUSY
  call,    \* per caller: the call it is in
  clock,   \* how many calls were made; a signal's timestamp
  faults,
  manual,  \* history: outcomes recorded by hand, per memory
  erased   \* history: memories whose log was once read as empty by mistake

history == <<manual, erased>>
outcomeVars == <<log, stats, flags, edits, busy, call, clock, faults, history>>

-----------------------------------------------------------------------------
(* Data.                                                                   *)

\* "lapsed" is a failure that has left the guardrail's seven days.
Verdict == {"none", "pass", "fail", "lapsed"}
Entry == [verdict : Verdict, ts : Nat]
NoEntry == [verdict |-> "none", ts |-> 0]

Stats == [success : Nat, fail : Nat, verified : BOOLEAN]
NoStats == [success |-> 0, fail |-> 0, verified |-> FALSE]

Idle == [pc |-> "idle"]
Signal == [pc : {"post"}, id : Memory, key : Key, ok : BOOLEAN, ts : Nat]
Logging == [pc : {"log"}, id : Memory, key : Key, ok : BOOLEAN, ts : Nat,
            seen : [Key -> Entry]]
Bumping == [pc : {"stats"}, id : Memory, worked : BOOLEAN, verify : BOOLEAN,
            byHand : BOOLEAN]
Counting == [pc : {"bump"}, id : Memory, worked : BOOLEAN, verify : BOOLEAN,
             byHand : BOOLEAN, cur : Stats]
OutcomeCall == {Idle} \cup Signal \cup Logging \cup Bumping \cup Counting

\* record_edit, saturating at the only threshold its reader has.
Edited(n) == IF n < EditCap THEN n + 1 ELSE n

-----------------------------------------------------------------------------
(* Calls: BusyGuard is raised when a server's call begins and dropped when *)
(* it ends, however it ends.                                               *)

Begin(c, record) ==
  /\ call[c] = Idle
  /\ clock < MaxCalls
  /\ clock' = clock + 1
  /\ call' = [call EXCEPT ![c] = record]
  /\ busy' = [s \in Server |-> busy[s] \/ s = c]

Goto(c, record) ==
  /\ call' = [call EXCEPT ![c] = record]
  /\ UNCHANGED <<busy, clock>>

Return(c) ==
  /\ call' = [call EXCEPT ![c] = Idle]
  /\ busy' = [s \in Server |-> busy[s] /\ s # c]
  /\ UNCHANGED clock

Init ==
  /\ log = [m \in Memory |-> [k \in Key |-> NoEntry]]
  /\ stats = [m \in Memory |-> NoStats]
  /\ flags = [s \in Server |-> {}]
  /\ edits = [s \in Server |-> 0]
  /\ busy = [s \in Server |-> FALSE]
  /\ call = [c \in Caller |-> Idle]
  /\ clock = 0
  /\ faults = 0
  /\ manual = [m \in Memory |-> 0]
  /\ erased = {}

-----------------------------------------------------------------------------
(* mind_outcome.                                                           *)

\* The timestamp is taken before the log is read.
PostBegin(s, m, k, ok) ==
  /\ Begin(s, [pc |-> "post", id |-> m, key |-> k, ok |-> ok, ts |-> clock + 1])
  /\ UNCHANGED <<log, stats, flags, edits, faults, history>>

PostRead(s) ==
  /\ call[s].pc = "post"
  /\ Goto(s, [pc |-> "log", id |-> call[s].id, key |-> call[s].key,
              ok |-> call[s].ok, ts |-> call[s].ts, seen |-> log[call[s].id]])
  /\ UNCHANGED <<log, stats, flags, edits, faults, history>>

\* A read that fails reads as an empty log, which the write then stores.
PostMisread(s) ==
  LET c == call[s] IN
  /\ "read" \in Faults /\ faults < MaxFaults /\ faults' = faults + 1
  /\ c.pc = "post"
  /\ Goto(s, [pc |-> "log", id |-> c.id, key |-> c.key, ok |-> c.ok, ts |-> c.ts,
              seen |-> [k \in Key |-> NoEntry]])
  /\ erased' = erased \cup {c.id}
  /\ UNCHANGED <<log, stats, flags, edits, manual>>

\* dedup_keep_latest of the log that was read and the signal posted.
Deduped(c) ==
  IF c.seen[c.key].verdict # "none" /\ c.seen[c.key].ts >= c.ts
  THEN c.seen
  ELSE [c.seen EXCEPT ![c.key] =
          [verdict |-> IF c.ok THEN "pass" ELSE "fail", ts |-> c.ts]]

\* should_promote_to_doubt_window.
TooManyFailures(entries) ==
  Cardinality({k \in TestKey : entries[k].verdict = "fail"}) >= FailThreshold

\* Mutant of Bridged: a re-posted signal is counted again.
BridgedAlways(c) ==
  /\ c.key \in ProcedureKey
  /\ c.id \in Procedure

\* The bridge to the procedure's counters, for a new signal only.
Bridged(c) ==
  /\ c.seen[c.key].verdict = "none"
  /\ c.key \in ProcedureKey
  /\ c.id \in Procedure

\* The whole log is written back, the guardrail looks at what was written,
\* and the counters follow.
PostWrite(s) ==
  LET c == call[s] IN
  /\ c.pc = "log"
  /\ log' = [log EXCEPT ![c.id] = Deduped(c)]
  /\ edits' = [edits EXCEPT ![s] = Edited(@)]
  /\ flags' = IF TooManyFailures(Deduped(c))
              THEN [flags EXCEPT ![s] = @ \cup {c.id}] ELSE flags
  /\ IF Bridged(c)
     THEN Goto(s, [pc |-> "stats", id |-> c.id, worked |-> c.ok, verify |-> c.ok,
                   byHand |-> FALSE])
     ELSE Return(s)
  /\ UNCHANGED <<stats, faults, history>>

-----------------------------------------------------------------------------
(* mind_procedure_outcome, and the counters.                               *)

OutcomeBegin(s, m, worked) ==
  /\ Begin(s, [pc |-> "stats", id |-> m, worked |-> worked, verify |-> FALSE,
               byHand |-> TRUE])
  /\ UNCHANGED <<log, stats, flags, edits, faults, history>>

StatsRead(s) ==
  LET c == call[s] IN
  /\ c.pc = "stats"
  /\ Goto(s, [pc |-> "bump", id |-> c.id, worked |-> c.worked, verify |-> c.verify,
              byHand |-> c.byHand, cur |-> stats[c.id]])
  /\ UNCHANGED <<log, stats, flags, edits, faults, history>>

\* A read that fails reads as an absent row.
StatsMisread(s) ==
  LET c == call[s] IN
  /\ "read" \in Faults /\ faults < MaxFaults /\ faults' = faults + 1
  /\ c.pc = "stats"
  /\ Goto(s, [pc |-> "bump", id |-> c.id, worked |-> c.worked, verify |-> c.verify,
              byHand |-> c.byHand, cur |-> NoStats])
  /\ UNCHANGED <<log, stats, flags, edits, history>>

\* is_procedure cannot read the type: the signal is not bridged.
ProcedureMisread(s) ==
  /\ "read" \in Faults /\ faults < MaxFaults /\ faults' = faults + 1
  /\ call[s].pc = "stats"
  /\ ~call[s].byHand
  /\ Return(s)
  /\ UNCHANGED <<log, stats, flags, edits, history>>

\* procedure_outcome's upsert: the whole row, `verified` latching.
StatsWrite(s) ==
  LET c == call[s] IN
  /\ c.pc = "bump"
  /\ stats' = [stats EXCEPT ![c.id] =
       [success  |-> c.cur.success + (IF c.worked THEN 1 ELSE 0),
        fail     |-> c.cur.fail + (IF c.worked THEN 0 ELSE 1),
        verified |-> c.cur.verified \/ (c.worked /\ c.verify)]]
  /\ manual' = IF c.byHand THEN [manual EXCEPT ![c.id] = @ + 1] ELSE manual
  /\ Return(s)
  /\ UNCHANGED <<log, flags, edits, faults, erased>>

-----------------------------------------------------------------------------
(* Time and failure.                                                       *)

\* A failed test leaves the guardrail's window.
Lapse(m, k) ==
  /\ k \in TestKey
  /\ log[m][k].verdict = "fail"
  /\ log' = [log EXCEPT ![m][k].verdict = "lapsed"]
  /\ UNCHANGED <<stats, flags, edits, busy, call, clock, faults, history>>

\* Mutant of Abort: the flag is lowered by hand at the end of the handler.
AbortUnguarded(c) ==
  /\ "abort" \in Faults /\ faults < MaxFaults /\ faults' = faults + 1
  /\ call[c] # Idle
  /\ call' = [call EXCEPT ![c] = Idle]
  /\ UNCHANGED <<log, stats, flags, edits, history, busy, clock>>

\* A storage error returned with `?`, or a panic caught by handle_message.
Abort(c) ==
  /\ "abort" \in Faults /\ faults < MaxFaults /\ faults' = faults + 1
  /\ call[c] # Idle
  /\ Return(c)
  /\ UNCHANGED <<log, stats, flags, edits, history>>

Answer(s) == PostRead(s) \/ PostWrite(s) \/ StatsRead(s) \/ StatsWrite(s)

OutcomeNext ==
  \/ \E s \in Server, m \in Memory, k \in Key, ok \in BOOLEAN : PostBegin(s, m, k, ok)
  \/ \E s \in Server, m \in Memory, worked \in BOOLEAN : OutcomeBegin(s, m, worked)
  \/ \E s \in Server : Answer(s)
  \/ \E s \in Server : PostMisread(s) \/ ProcedureMisread(s) \/ StatsMisread(s)
  \/ \E m \in Memory, k \in Key : Lapse(m, k)
  \/ \E c \in Caller : Abort(c)

-----------------------------------------------------------------------------
(* Properties.                                                             *)

\* A procedure's counters never outrun the evidence: each distinct signal of
\* its log is counted once at most, however often it is posted again, and each
\* outcome recorded by hand once.  (mcp.rs: the counter must not inflate on
\* redelivery.)  A failed read that erased the log excuses the memory.
NoDoubleCount ==
  \A m \in Memory \ erased :
    stats[m].success + stats[m].fail
      <= manual[m] + Cardinality({k \in ProcedureKey : log[m][k].verdict # "none"})

=============================================================================
