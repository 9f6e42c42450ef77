------------------------------- MODULE Daemon -------------------------------
(***************************************************************************)
(* The vector store's own process (src/src/cli.rs): whoever needs it looks *)
(* whether it answers, starts it detached if not, writes its process id to *)
(* a file and waits; `stop` tells what the file names to end, and removes  *)
(* the file.  Nothing is locked.                                           *)
(***************************************************************************)
EXTENDS Integers, Sequences

CONSTANTS
  Server,    \* stdio servers: long-lived
  Terminal,  \* command lines
  None,      \* Rust's Option::None
  MaxPolls,  \* attempts to wait for a child
  MaxCalls,  \* bound: commands
  MaxFaults  \* bound: processes that die

User == Server \cup Terminal

ASSUME DaemonAssumption ==
  /\ Server \cap Terminal = {} /\ None \notin User \cup Int
  /\ MaxPolls \in Nat \ {0} /\ MaxCalls \in Nat /\ MaxFaults \in Nat

VARIABLES
  work,    \* per user: the command in hand
  calls,   \* commands begun
  faults,  \* how many of these so far
  stores,  \* the store's processes, in the order they were started
  pidFile, \* .qdrant.pid: one of them, or None
  orderly  \* history: nobody started or stopped the store while another did,
           \* while one was still loading, or died or failed doing it

useVars == <<work, calls, faults>>
daemonVars == <<stores, pidFile, orderly>>

Idle == [op |-> "none", pc |-> "idle"]
Go(u, record) == work' = [work EXCEPT ![u] = record] /\ UNCHANGED <<calls, faults>>
GoTo(u, pc) == Go(u, [work[u] EXCEPT !.pc = pc])
Answer(u) == Go(u, Idle)
At(u, op, pc) == work[u].op = op /\ work[u].pc = pc

\* A store that was told to end still answers until it is gone.
StoreStatus == {"loading", "serving", "ending", "gone"}
Alive(i) == stores[i] # "gone"
Needed(i) == stores[i] \in {"loading", "serving"}
Serving == \E i \in DOMAIN stores : stores[i] = "serving"
\* is_qdrant_running: the port answers, whoever's child it is.
Up == \E i \in DOMAIN stores : stores[i] \in {"serving", "ending"}

DaemonCall == {[op |-> "start", pc |-> "look"], [op |-> "stop", pc |-> "look"]}
Daemonic(u) == work[u].op \in {"start", "stop"}

\* Whether it is orderly that u starts or stops the store now.
Orderly(u) ==
  orderly /\ (\A v \in User \ {u} : ~Daemonic(v)) /\ (\A i \in DOMAIN stores : stores[i] # "loading")

\* Mutant of StartLook: started without a look.
StartBlind(u) ==
  /\ At(u, "start", "look")
  /\ GoTo(u, "spawn")
  /\ UNCHANGED daemonVars

StartLook(u) ==
  /\ At(u, "start", "look")
  /\ IF Up THEN Answer(u) ELSE GoTo(u, "spawn")
  /\ UNCHANGED daemonVars

\* Without its program there is no child, and the start has failed.
StartSpawn(u) ==
  /\ At(u, "start", "spawn")
  /\ \/ /\ stores' = Append(stores, "loading")
        /\ Go(u, [op |-> "start", pc |-> "pid", pid |-> Len(stores) + 1])
     \/ UNCHANGED stores /\ Answer(u)
  /\ UNCHANGED <<pidFile, orderly>>

StartPid(u) ==
  /\ At(u, "start", "pid")
  /\ pidFile' = work[u].pid
  /\ Go(u, [op |-> "start", pc |-> "poll", polls |-> 0])
  /\ UNCHANGED <<stores, orderly>>

\* The write fails: the child that is running already is named nowhere, and
\* the file may have been emptied.
StartPidFails(u) ==
  /\ At(u, "start", "pid")
  /\ pidFile' \in {pidFile, None}
  /\ orderly' = FALSE
  /\ Answer(u)
  /\ UNCHANGED stores

\* Anyone's store will do; after the last look the start has failed.
StartPoll(u) ==
  /\ At(u, "start", "poll")
  /\ \/ Up /\ Answer(u)
     \/ ~Up /\ work[u].polls < MaxPolls /\ Go(u, [work[u] EXCEPT !.polls = @ + 1])
  /\ UNCHANGED daemonVars
StartGivesUp(u) ==
  /\ At(u, "start", "poll") /\ ~Up /\ work[u].polls = MaxPolls
  /\ Answer(u)
  /\ UNCHANGED daemonVars

StopLook(u) ==
  /\ At(u, "stop", "look")
  /\ IF pidFile = None THEN Answer(u)
     ELSE Go(u, [op |-> "stop", pc |-> "kill", pid |-> pidFile])
  /\ UNCHANGED daemonVars

\* The process is told to end (SIGTERM), if it is there; nobody waits for it.
StopKill(u) ==
  /\ At(u, "stop", "kill")
  /\ stores' = [stores EXCEPT ![work[u].pid] = IF @ = "gone" THEN @ ELSE "ending"]
  /\ GoTo(u, "remove")
  /\ UNCHANGED <<pidFile, orderly>>

\* `kill` cannot be run, or is refused: nobody looks at what came of it.
StopKillFails(u) ==
  /\ At(u, "stop", "kill")
  /\ orderly' = FALSE
  /\ GoTo(u, "remove")
  /\ UNCHANGED <<stores, pidFile>>

\* The file goes, if it can be removed.
StopRemove(u) ==
  /\ At(u, "stop", "remove")
  /\ pidFile' \in {None, pidFile}
  /\ Answer(u)
  /\ UNCHANGED <<stores, orderly>>

DaemonStep(u) ==
  StartLook(u) \/ StartSpawn(u) \/ StartPid(u) \/ StartPidFails(u) \/ StartPoll(u) \/ StartGivesUp(u)
    \/ StopLook(u) \/ StopKill(u) \/ StopKillFails(u) \/ StopRemove(u)

\* One store has the port and the storage; another that comes up goes.  One
\* that is ending may have let go of them already.
StoreLoads(i) ==
  /\ stores[i] = "loading"
  /\ \/ ~Serving /\ stores' = [stores EXCEPT ![i] = "serving"]
     \/ Up /\ stores' = [stores EXCEPT ![i] = "gone"]
  /\ UNCHANGED <<pidFile, orderly>>

StoreEnds(i) ==
  /\ stores[i] = "ending"
  /\ stores' = [stores EXCEPT ![i] = "gone"]
  /\ UNCHANGED <<pidFile, orderly>>

StoreDies(i) ==
  /\ Alive(i)
  /\ stores' = [stores EXCEPT ![i] = "gone"]
  /\ UNCHANGED <<pidFile, orderly>>

\* A user who dies leaves the store running, and its start or stop half done.
DaemonForgets(u) ==
  orderly' = (orderly /\ ~Daemonic(u)) /\ UNCHANGED <<stores, pidFile>>

DaemonInit == stores = << >> /\ pidFile = None /\ orderly = TRUE

-----------------------------------------------------------------------------
(* Properties.                                                             *)

DaemonTypeOK ==
  /\ stores \in Seq(StoreStatus) /\ pidFile \in {None} \cup DOMAIN stores
  /\ orderly \in BOOLEAN

\* `stop` finds the store: if starts and stops come one after the other and
\* none fails half-way, a store that serves and was not told to end is the one
\* the pid file names, however often it died, was slow to come up, or was
\* started again beside one that was still ending.
ServingIsNamed ==
  orderly /\ (\A u \in User : ~Daemonic(u))
    => \A i \in DOMAIN stores : stores[i] = "serving" => pidFile = i

=============================================================================
