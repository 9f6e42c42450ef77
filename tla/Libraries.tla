----------------------------- MODULE Libraries -----------------------------
(***************************************************************************)
(* The library registry (src/src/storage.rs): libraries.json, the copy of  *)
(* it each process keeps in memory, and the calls that create a library,   *)
(* drop it and write to it.                                                *)
(*                                                                         *)
(* A server lives long and runs many calls at once on one copy; a terminal *)
(* runs one command and forgets its copy.  The file has no lock: a process *)
(* writes its copy over it whole.                                          *)
(***************************************************************************)
EXTENDS Integers

CONSTANTS
  Library,   \* library names
  Text,      \* contents
  Server,    \* callers inside the one server
  Terminal,  \* command lines, each a process of its own
  None,      \* Rust's Option::None; no point; a copy not yet read
  MaxCalls,  \* bound: calls begun
  Faults,    \* which of "stop", "read", "write" may happen
  MaxFaults, \* bound: how many happen
  Kept       \* what the first library may hold at the start

Caller == Server \cup Terminal
Process == {"server"} \cup Terminal
ProcessOf(c) == IF c \in Server THEN "server" ELSE c

Id == Library \X Text
Kind == {"live", "archived", "quarantined"}

ASSUME LibrariesAssumption ==
  /\ Server \cap Terminal = {} /\ "server" \notin Caller
  /\ None \notin Kind /\ None \notin Process
  /\ \A libraries \in SUBSET Library : None # libraries
  /\ MaxCalls \in Nat /\ MaxFaults \in Nat
  /\ Faults \subseteq {"stop", "read", "write"}
  /\ Kept \subseteq Kind \cup {None}

VARIABLES
  store,   \* Id -> a kind, or None: the memories collection
  disk,    \* libraries.json
  cache,   \* Process -> LIB_CACHE, or None
  work,    \* per caller: the call in hand
  calls,   \* calls begun
  faults,  \* faults so far
  made,    \* history: the libraries whose creation was answered, and not dropped
  writers, \* history: who registered or dropped a library, and None once that failed
  stale    \* history: whose copy was read again, and was not the file's when kept

libraryVars == <<store, disk, cache, work, calls, faults, made, writers, stale>>
registryVars == <<disk, cache, made, writers, stale>>

-----------------------------------------------------------------------------
(* The registry.                                                           *)

\* lib_cache: read from disk on first use.
Cached(p) == IF cache[p] = None THEN disk ELSE cache[p]

\* What was read of the file is the copy from now on, old or not.
Keep(p, libraries) ==
  /\ cache' = [cache EXCEPT ![p] = libraries]
  /\ stale' = IF libraries = disk THEN stale ELSE stale \cup {p}

\* The copy is changed first, then written over the file, unless the write fails.
Rewrite(p, libraries, writes) ==
  /\ writes \/ libraries # Cached(p)
  /\ cache' = [cache EXCEPT ![p] = libraries]
  /\ disk' = IF writes /\ libraries # Cached(p) THEN libraries ELSE disk
  /\ writers' = writers \cup (IF writes THEN {p} ELSE {None})

\* Mutant of Register: the file is written before the name is added.
RegisterLate(p, library, writes) ==
  /\ cache' = [cache EXCEPT ![p] = Cached(p) \cup {library}]
  /\ disk' = IF writes THEN Cached(p) ELSE disk
  /\ writers' = writers \cup (IF writes THEN {p} ELSE {None})

\* register_library, unregister_library.
Register(p, library, writes) == Rewrite(p, Cached(p) \cup {library}, writes)
Unregister(p, library, writes) == Rewrite(p, Cached(p) \ {library}, writes)

-----------------------------------------------------------------------------
(* Calls.                                                                  *)

Idle == [op |-> "none", pc |-> "idle"]
FirstStep == [create |-> "look", drop |-> "empty", add |-> "look", bench |-> "empty"]
HandlingPc == {"look", "refresh", "believe", "register", "empty", "unregister", "put"}

\* left: how many drops and creates a benchmark still has to make; seen: what
\* was read of the file and is not yet in the copy.
Handling ==
  [op : DOMAIN FirstStep, pc : HandlingPc, library : Library, text : Text, left : 0 .. 2,
   seen : SUBSET Library]

Go(c, record) == work' = [work EXCEPT ![c] = record]
GoTo(c, pc) == work' = [work EXCEPT ![c].pc = pc]

Answer(c) == Go(c, Idle)

At(c, pc) == work[c].pc = pc /\ UNCHANGED calls
Fails(kind) == kind \in Faults /\ faults < MaxFaults /\ faults' = faults + 1
Works == UNCHANGED faults

Starts(c) == work[c] = Idle /\ calls < MaxCalls /\ calls' = calls + 1 /\ UNCHANGED faults

\* A name that is taken is not created again; only one that is there is written to.
Found(c) == IF work[c].op = "add" THEN GoTo(c, "put") ELSE Answer(c)
Missing(c) == IF work[c].op = "add" THEN Answer(c) ELSE GoTo(c, "register")

\* A terminal is a new process, with no copy yet.
Fresh(c) == cache' = IF c \in Terminal THEN [cache EXCEPT ![c] = None] ELSE cache

\* A server creates and writes; the rest is for the terminal.
Begin(c) ==
  /\ Starts(c)
  /\ \E op \in DOMAIN FirstStep, library \in Library, text \in Text :
       /\ c \in Server => op \in {"create", "add"}
       /\ Go(c, [op |-> op, pc |-> FirstStep[op], library |-> library, text |-> text,
                 left |-> IF op = "bench" THEN 2 ELSE 0, seen |-> {}])
  /\ Fresh(c)
  /\ UNCHANGED <<store, disk, made, writers, stale>>

\* The command is interrupted, or its request dropped; not within a look at the
\* registry, which awaits nothing.
Stop(c) ==
  /\ Fails("stop") /\ work[c] # Idle /\ work[c].pc \notin {"refresh", "believe"}
  /\ Answer(c)
  /\ UNCHANGED <<store, calls>> /\ UNCHANGED registryVars

\* The first use of a copy reads the file: one it cannot read is an empty one.
LoadFails(c) ==
  /\ work[c].pc \in {"look", "unregister", "next"} /\ cache[ProcessOf(c)] = None
  /\ Fails("read") /\ Keep(ProcessOf(c), {})
  /\ UNCHANGED <<store, disk, work, calls, made, writers>>

\* is_registered: a hit is believed.  A miss reads the file again first, and
\* has not the copy locked when it reads.
Look(c) ==
  LET p == ProcessOf(c)
  IN  /\ At(c, "look")
      /\ cache' = [cache EXCEPT ![p] = Cached(p)]
      /\ \/ work[c].library \in Cached(p) /\ Works /\ Found(c)
         \/ /\ work[c].library \notin Cached(p)
            /\ \/ Works /\ Go(c, [work[c] EXCEPT !.pc = "refresh", !.seen = disk])
               \/ Fails("read") /\ GoTo(c, "refresh")
      /\ UNCHANGED <<store, disk, made, writers, stale>>

\* refresh_lib_cache_from_disk: what it read goes over the copy whole.
Refresh(c) ==
  /\ At(c, "refresh") /\ Works
  /\ Keep(ProcessOf(c), work[c].seen)
  /\ Go(c, [work[c] EXCEPT !.pc = "believe", !.seen = {}])
  /\ UNCHANGED <<store, disk, made, writers>>

\* What the copy says now is the answer.
Believe(c) ==
  /\ At(c, "believe") /\ Works
  /\ IF work[c].library \in cache[ProcessOf(c)] THEN Found(c) ELSE Missing(c)
  /\ UNCHANGED store /\ UNCHANGED registryVars

\* The collection is there; the name is taken down.
CreateRegister(c) ==
  /\ At(c, "register")
  /\ \E writes \in BOOLEAN :
       /\ IF writes THEN Works ELSE Fails("write")
       /\ Register(ProcessOf(c), work[c].library, writes)
       /\ made' = IF writes THEN made \cup {work[c].library} ELSE made
       /\ IF work[c].left > 0 /\ writes THEN GoTo(c, "empty") ELSE Answer(c)
  /\ UNCHANGED <<store, stale>>

\* A benchmark's first drop may fail: it creates its library all the same.
Relook(c) == Go(c, [work[c] EXCEPT !.pc = "look", !.left = 1])

\* drop_library: the points first, then the name.  A collection it cannot look
\* for has none.
DropEmpty(c) ==
  /\ At(c, "empty")
  /\ \/ /\ Works
        /\ store' = [id \in Id |-> IF id[1] = work[c].library THEN None ELSE store[id]]
        /\ GoTo(c, "unregister")
     \/ Fails("read") /\ UNCHANGED store /\ GoTo(c, "unregister")
     \/ /\ Fails("write") /\ UNCHANGED store
        /\ IF work[c].left = 2 THEN Relook(c) ELSE Answer(c)
  /\ UNCHANGED registryVars

\* A benchmark drops its library, creates it, and drops it, in one process.
DropUnregister(c) ==
  /\ At(c, "unregister")
  /\ \E writes \in BOOLEAN :
       /\ IF writes THEN Works ELSE Fails("write")
       /\ Unregister(ProcessOf(c), work[c].library, writes)
  /\ made' = made \ {work[c].library}
  /\ IF work[c].left = 2 THEN Relook(c) ELSE Answer(c)
  /\ UNCHANGED <<store, stale>>

\* add_memory and its like: the library was there, or so it seemed.
AddPut(c) ==
  /\ At(c, "put")
  /\ \/ Works /\ store' = [store EXCEPT ![<<work[c].library, work[c].text>>] = "live"]
     \/ Fails("write") /\ UNCHANGED store
  /\ Answer(c)
  /\ UNCHANGED registryVars

LibraryStep(c) ==
  Begin(c) \/ Stop(c) \/ LoadFails(c) \/ Look(c) \/ Refresh(c) \/ Believe(c)
    \/ CreateRegister(c) \/ DropEmpty(c) \/ DropUnregister(c) \/ AddPut(c)

LibraryInit ==
  /\ disk \in SUBSET Library
  /\ cache = [p \in Process |-> None]
  /\ \E kept \in [Text -> Kept] :
       store = [id \in Id |-> IF id[1] \in disk THEN kept[id[2]] ELSE None]
  /\ work = [c \in Caller |-> Idle]
  /\ calls = 0 /\ faults = 0
  /\ made = {} /\ writers = {} /\ stale = {}

=============================================================================
