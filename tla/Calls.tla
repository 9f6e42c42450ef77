------------------------------- MODULE Calls -------------------------------
(***************************************************************************)
(* Who uses the files of the data directory: stdio servers, which answer   *)
(* one call at a time (src/src/mcp.rs), the tasks of the HTTP server       *)
(* (src/src/http_api.rs), and commands at a terminal.  Each but the tasks  *)
(* is a process of its own.                                                *)
(***************************************************************************)
EXTENDS Integers, FiniteSets, Sequences

CONSTANTS
  Mcp,      \* stdio servers
  Task,     \* tasks of the HTTP server
  Terminal, \* command lines
  None,     \* Rust's Option::None
  MaxCalls, \* bound: calls begun
  MaxFaults \* bound: processes that die, files that are deleted

Caller == Mcp \cup Task \cup Terminal
Process == Mcp \cup {"http"} \cup Terminal
ProcessOf(c) == IF c \in Task THEN "http" ELSE c

ASSUME CallsAssumption ==
  /\ Mcp \cap Task = {} /\ Mcp \cap Terminal = {} /\ Task \cap Terminal = {}
  /\ "http" \notin Caller /\ None \notin Caller \cup Int
  /\ MaxCalls \in Nat /\ MaxFaults \in Nat

VARIABLES
  work,  \* per caller: the call in hand
  calls, \* calls begun
  faults \* how many of these so far

callVars == <<work, calls, faults>>

Idle == [op |-> "none", pc |-> "idle"]
Warming == [op |-> "warm", pc |-> "list"]

Go(c, record) == work' = [work EXCEPT ![c] = record] /\ UNCHANGED <<calls, faults>>
GoTo(c, pc) == Go(c, [work[c] EXCEPT !.pc = pc])

\* call_tool: whatever the tool said, a stdio server then warms the sessions.
Answer(c) == Go(c, IF c \in Mcp THEN Warming ELSE Idle)

At(c, op, pc) == work[c].op = op /\ work[c].pc = pc

Takes(c, record) ==
  /\ work[c] = Idle /\ calls < MaxCalls /\ calls' = calls + 1
  /\ work' = [work EXCEPT ![c] = record]
  /\ UNCHANGED faults

\* A process dies, and its calls with it.
Dies(p) ==
  /\ faults < MaxFaults /\ faults' = faults + 1
  /\ work' = [c \in Caller |-> IF ProcessOf(c) = p THEN Idle ELSE work[c]]
  /\ UNCHANGED calls

CallsInit == work = [c \in Caller |-> Idle] /\ calls = 0 /\ faults = 0

=============================================================================
