------------------------------ MODULE Sessions ------------------------------
(***************************************************************************)
(* Sessions (src/src/session.rs).  Each agent has a pointer to its active  *)
(* session's file and a heartbeat, both files; a session whose heartbeat   *)
(* is old is closed by the agent's next start.  Nothing is locked: every   *)
(* read and every write is a step.  The marks of inheritance that an end   *)
(* clears in its process are DoubtLoop's.                                  *)
(***************************************************************************)
EXTENDS Calls

CONSTANTS
  Agent,     \* agent names
  IdleTicks, \* DEFAULT_IDLE_THRESHOLD_MINUTES, in ticks
  MaxClock   \* bound: ticks

ASSUME SessionsAssumption == IdleTicks \in Nat \ {0} /\ MaxClock \in Nat

VARIABLES
  files,   \* the session files, in the order they were made
  pointer, \* .current.<agent>: a file, or None
  beat,    \* .heartbeat.<agent>: a tick, or None
  clock,
  warm,    \* history: the heartbeat written since the pointer was and not removed, or None
  calm     \* history, per caller: nobody else changed its agent's files

sessionVars == <<files, pointer, beat, clock, warm, calm>>

Statuses == {"active", "completed", "gone"}
File == [agent : Agent, started : 0 .. MaxClock, status : Statuses]
Exists(f) == files[f].status # "gone"

\* path: the file the call has read the pointer of, or made.
Starting ==
  [op : {"start"}, agent : Agent, path : {None} \cup (1 .. MaxCalls),
   pc : {"look", "age", "read", "write", "unpoint", "unbeat", "create", "point", "touch", "beat"}]
Ending ==
  [op : {"end"}, agent : Agent, path : {None} \cup (1 .. MaxCalls), pc : {"read", "write", "unpoint"}]
Stamping == [op : {"warm"}, pc : {"stamp"}, agents : SUBSET Agent, now : 0 .. MaxClock]

SessionCall(agent) ==
  {[op |-> "start", pc |-> "look", agent |-> agent, path |-> None],
   [op |-> "end", pc |-> "read", agent |-> agent, path |-> None]}

Mine(c) == work[c].agent
Path(c) == work[c].path
GoWith(c, pc, path) == Go(c, [work[c] EXCEPT !.pc = pc, !.path = path])
Stamp(agent, now) == beat' = [beat EXCEPT ![agent] = now] /\ warm' = [warm EXCEPT ![agent] = now]

-----------------------------------------------------------------------------
(* Start, first half: recover_zombie.                                      *)

\* A pointer to a file that is gone is removed, and nothing recovered.
StartLook(c) ==
  /\ At(c, "start", "look")
  /\ LET f == pointer[Mine(c)]
     IN  IF f # None /\ Exists(f) THEN GoWith(c, "age", f) /\ UNCHANGED pointer
         ELSE GoTo(c, "create") /\ pointer' = [pointer EXCEPT ![Mine(c)] = None]
  /\ UNCHANGED <<files, beat, clock, warm>>

\* Mutant of LastActive: a session is as old as its start.
LastStarted(agent, f) == files[f].started

\* The heartbeat, whichever session it is of; else the start.
LastActive(agent, f) == IF beat[agent] # None THEN beat[agent] ELSE files[f].started

StartAge(c) ==
  /\ At(c, "start", "age")
  /\ LET old == /\ beat[Mine(c)] # None \/ Exists(Path(c))
                /\ clock - LastActive(Mine(c), Path(c)) >= IdleTicks
     IN  GoTo(c, IF old THEN "read" ELSE "create")
  /\ UNCHANGED <<files, pointer, beat, clock, warm>>

-----------------------------------------------------------------------------
(* End, as a call of its own or of a recovery.                             *)

\* Without a pointer or its file there is nothing to end; a recovery goes on.
EndRead(c) ==
  /\ work[c].pc = "read" /\ work[c].op \in {"start", "end"}
  /\ LET f == pointer[Mine(c)]
     IN  IF f # None /\ Exists(f) THEN GoWith(c, "write", f)
         ELSE IF work[c].op = "start" THEN GoTo(c, "create") ELSE Answer(c)
  /\ UNCHANGED <<files, pointer, beat, clock, warm>>

\* The file is written whole: one deleted meanwhile is back.
EndWrite(c) ==
  /\ work[c].pc = "write" /\ work[c].op \in {"start", "end"}
  /\ files' = [files EXCEPT ![Path(c)].status = "completed"]
  /\ GoTo(c, "unpoint")
  /\ UNCHANGED <<pointer, beat, clock, warm>>

\* Mutant of EndUnpoint: a start that recovered a session starts none.
EndUnpointReturns(c) ==
  /\ work[c].pc = "unpoint" /\ work[c].op \in {"start", "end"}
  /\ pointer' = [pointer EXCEPT ![Mine(c)] = None]
  /\ Answer(c)
  /\ UNCHANGED <<files, beat, clock, warm>>

\* Whatever the pointer now points to.
EndUnpoint(c) ==
  /\ work[c].pc = "unpoint" /\ work[c].op \in {"start", "end"}
  /\ pointer' = [pointer EXCEPT ![Mine(c)] = None]
  /\ IF work[c].op = "start" THEN GoTo(c, "unbeat") ELSE Answer(c)
  /\ UNCHANGED <<files, beat, clock, warm>>

-----------------------------------------------------------------------------
(* Start, second half.                                                     *)

\* Whosever heartbeat it is by now.
StartUnbeat(c) ==
  /\ At(c, "start", "unbeat")
  /\ beat' = [beat EXCEPT ![Mine(c)] = None]
  /\ warm' = [warm EXCEPT ![Mine(c)] = None]
  /\ GoTo(c, "create")
  /\ UNCHANGED <<files, pointer, clock>>

StartCreate(c) ==
  /\ At(c, "start", "create")
  /\ files' = Append(files, [agent |-> Mine(c), started |-> clock, status |-> "active"])
  /\ GoWith(c, "point", Len(files) + 1)
  /\ UNCHANGED <<pointer, beat, clock, warm>>

StartPoint(c) ==
  /\ At(c, "start", "point")
  /\ pointer' = [pointer EXCEPT ![Mine(c)] = Path(c)]
  /\ warm' = [warm EXCEPT ![Mine(c)] = None]
  /\ GoTo(c, "touch")
  /\ UNCHANGED <<files, beat, clock>>

\* touch: only an active session has a heartbeat.
StartTouch(c) ==
  /\ At(c, "start", "touch")
  /\ IF pointer[Mine(c)] = None THEN Answer(c) ELSE GoTo(c, "beat")
  /\ UNCHANGED <<files, pointer, beat, clock, warm>>

StartBeat(c) ==
  /\ At(c, "start", "beat")
  /\ Stamp(Mine(c), clock)
  /\ Answer(c)
  /\ UNCHANGED <<files, pointer, clock>>

-----------------------------------------------------------------------------
(* touch_all_active: the server does not know who called it.               *)

WarmList(c) ==
  /\ At(c, "warm", "list")
  /\ LET agents == {a \in Agent : pointer[a] # None}
     IN  Go(c, IF agents = {} THEN Idle
               ELSE [op |-> "warm", pc |-> "stamp", agents |-> agents, now |-> clock])
  /\ UNCHANGED <<files, pointer, beat, clock, warm>>

WarmStamp(c) ==
  /\ At(c, "warm", "stamp")
  /\ \E a \in work[c].agents :
       /\ Stamp(a, work[c].now)
       /\ Go(c, IF work[c].agents = {a} THEN Idle ELSE [work[c] EXCEPT !.agents = @ \ {a}])
  /\ UNCHANGED <<files, pointer, clock>>

SessionStep(c) ==
  StartLook(c) \/ StartAge(c) \/ EndRead(c) \/ EndWrite(c) \/ EndUnpoint(c) \/ StartUnbeat(c)
    \/ StartCreate(c) \/ StartPoint(c) \/ StartTouch(c) \/ StartBeat(c) \/ WarmList(c) \/ WarmStamp(c)

Tick == clock < MaxClock /\ clock' = clock + 1 /\ UNCHANGED <<files, pointer, beat, warm, calm>>

\* The user deletes a session's file.
EraseFile ==
  /\ \E f \in DOMAIN files :
       Exists(f) /\ files' = [files EXCEPT ![f].status = "gone"]
  /\ UNCHANGED <<pointer, beat, clock, warm>>

\* What a caller has in hand about an agent still holds if only it changed it.
Disturbed(a) ==
  \/ pointer'[a] # pointer[a] \/ beat'[a] # beat[a]
  \/ \E f \in DOMAIN files : files[f].agent = a /\ files'[f] # files[f]
RememberCalm(c) ==
  calm' = [d \in Caller |->
    \/ work'[d].op \notin {"start", "end"}
    \/ calm[d] /\ (d = c \/ ~Disturbed(work'[d].agent))]

SessionInit ==
  /\ files = << >> /\ pointer = [a \in Agent |-> None] /\ beat = [a \in Agent |-> None]
  /\ clock = 0 /\ warm = [a \in Agent |-> None] /\ calm = [c \in Caller |-> TRUE]

-----------------------------------------------------------------------------
(* Properties.                                                             *)

SessionTypeOK ==
  /\ files \in Seq(File) /\ Len(files) <= MaxCalls
  /\ pointer \in [Agent -> {None} \cup DOMAIN files]
  /\ beat \in [Agent -> {None} \cup (0 .. MaxClock)]
  /\ clock \in 0 .. MaxClock
  /\ warm \in [Agent -> {None} \cup (0 .. MaxClock)]
  /\ calm \in [Caller -> BOOLEAN]

\* A start that nobody disturbs never closes a session of which a heartbeat
\* was written less than the threshold ago: however long it runs, and whichever
\* process the calls that keep it warm are made in.  Only a recovery that was
\* under way before the session was may have removed its heartbeat.
LiveIsNotClosed ==
  [][\A c \in Caller :
       At(c, "start", "write") /\ work'[c].pc = "unpoint" /\ calm[c] /\ warm[Mine(c)] # None
       => clock - warm[Mine(c)] >= IdleTicks]_<<files, work>>

\* A start that nobody disturbs leaves its agent with one session: active, its
\* own, and just touched, whatever it had to recover first.
StartIsActive ==
  [][\A c \in Caller :
       work[c].op = "start" /\ work'[c].op # "start" /\ faults' = faults /\ calm[c]
       => /\ Path(c) # None /\ pointer'[Mine(c)] = Path(c) /\ beat'[Mine(c)] = clock
          /\ files'[Path(c)].agent = Mine(c) /\ files'[Path(c)].status = "active"]_<<files, work>>

=============================================================================
