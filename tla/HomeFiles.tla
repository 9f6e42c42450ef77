----------------------------- MODULE HomeFiles -----------------------------
(***************************************************************************)
(* The small files of the data directory that are read, changed and        *)
(* written back whole: the journal of accesses with the tally each process *)
(* keeps of its own (src/src/access.rs), the pinned blocks                 *)
(* (src/src/storage.rs) and the key-value store of the HTTP server         *)
(* (src/src/http_api.rs).                                                  *)
(***************************************************************************)
EXTENDS Calls

CONSTANTS
  Old, New,   \* ids of a memory, before and after it is moved to another library
  Name,       \* names of blocks, and keys
  Value,      \* contents and values
  FlushEvery, \* FLUSH_EVERY
  MaxBlocks   \* MAX_BLOCKS

Id == {Old, New}

ASSUME HomeFilesAssumption ==
  /\ Old # New /\ FlushEvery \in Nat \ {0} /\ MaxBlocks \in Nat \ {0} /\ None \notin Value

VARIABLES
  journal, \* access_journal.json: Id -> count
  tally,   \* LOG, per process: Id -> count, or None until it is first used
  pending, \* PENDING, per process
  flushes, \* flushes under way
  hits,    \* history: Id -> how often a search surfaced it
  blocks,  \* blocks.json: Name -> content, or None
  kv,      \* kv_store.json: Name -> value, or None
  kvLock   \* who holds kv_lock, or None

accessVars == <<journal, tally, pending, flushes, hits>>
fileVars == <<accessVars, blocks, kv, kvLock>>

Counts == [Id -> Nat]
Zero == [id \in Id |-> 0]
Higher(m, n) == IF m < n THEN n ELSE m

\* Mutant of Merge: the tallies add up.
MergeSum(disk, own) == [id \in Id |-> disk[id] + own[id]]
Merge(disk, own) == [id \in Id |-> Higher(disk[id], own[id])]

Renamed(counts) == [id \in Id |-> IF id = Old THEN 0 ELSE Higher(counts[Old], counts[New])]

Own(p) == IF tally[p] = None THEN journal ELSE tally[p]

-----------------------------------------------------------------------------
(* Accesses.                                                               *)

FileCall ==
  [op : {"search"}, pc : {"record"}, ids : (SUBSET Id) \ {{}}]
    \cup {[op |-> "rekey", pc |-> "load", read |-> Zero], [op |-> "consolidate", pc |-> "flush"]}
    \cup [op : {"block"}, pc : {"load"}, name : Name, value : Value \cup {None}, read : {<<>>}]
    \cup [op : {"kv"}, pc : {"lock"}, name : Name, value : Value, read : {<<>>}]

\* A flush under way.
Flush == [by : Process, call : 1 .. MaxCalls, pc : {"clone", "load", "write"},
          own : Counts, read : Counts]
NewFlush(p) ==
  [by |-> p, call |-> calls, pc |-> "clone", own |-> Zero, read |-> Zero]

\* A search surfaced these ids; past the threshold a flush is on its way.
Record(c) ==
  LET p == ProcessOf(c)
      due == pending[p] + Cardinality(work[c].ids)
  IN  /\ At(c, "search", "record")
      /\ tally' = [tally EXCEPT ![p] = [id \in Id |-> Own(p)[id] + (IF id \in work[c].ids THEN 1 ELSE 0)]]
      /\ hits' = [id \in Id |-> hits[id] + (IF id \in work[c].ids THEN 1 ELSE 0)]
      /\ pending' = [pending EXCEPT ![p] = due]
      /\ flushes' = IF due >= FlushEvery THEN flushes \cup {NewFlush(p)} ELSE flushes
      /\ Answer(c)
      /\ UNCHANGED <<journal, blocks, kv, kvLock>>

\* consolidate flushes before it ends.
Consolidate(c) ==
  /\ At(c, "consolidate", "flush")
  /\ flushes' = flushes \cup {NewFlush(ProcessOf(c))}
  /\ GoTo(c, "flushing")
  /\ UNCHANGED <<journal, tally, pending, hits, blocks, kv, kvLock>>
ConsolidateEnds(c) ==
  /\ At(c, "consolidate", "flushing") /\ \A f \in flushes : f.by # ProcessOf(c)
  /\ Answer(c)
  /\ UNCHANGED fileVars

Replace(f, g) == flushes' = (flushes \ {f}) \cup {g}

FlushClone(f) ==
  /\ f.pc = "clone"
  /\ pending' = [pending EXCEPT ![f.by] = 0]
  /\ tally' = [tally EXCEPT ![f.by] = Own(f.by)]
  /\ Replace(f, [f EXCEPT !.pc = "load", !.own = Own(f.by)])
  /\ UNCHANGED <<journal, hits, blocks, kv, kvLock>>

FlushLoad(f) ==
  /\ f.pc = "load"
  /\ Replace(f, [f EXCEPT !.pc = "write", !.read = journal])
  /\ UNCHANGED <<journal, tally, pending, hits, blocks, kv, kvLock>>

FlushWrite(f) ==
  /\ f.pc = "write"
  /\ journal' = Merge(f.read, f.own)
  /\ flushes' = flushes \ {f}
  /\ UNCHANGED <<tally, pending, hits, blocks, kv, kvLock>>

\* rekey_ids: the file, then the tally of the process that moved the memory.
RekeyLoad(c) ==
  /\ At(c, "rekey", "load")
  /\ Go(c, [work[c] EXCEPT !.pc = "write", !.read = journal])
  /\ UNCHANGED fileVars
RekeyWrite(c) ==
  /\ At(c, "rekey", "write")
  /\ journal' = IF work[c].read[Old] > 0 THEN Renamed(work[c].read) ELSE journal
  /\ GoTo(c, "own")
  /\ UNCHANGED <<tally, pending, flushes, hits, blocks, kv, kvLock>>
RekeyOwn(c) ==
  LET p == ProcessOf(c) IN
  /\ At(c, "rekey", "own")
  /\ tally' = [tally EXCEPT ![p] = Renamed(Own(p))]
  /\ Answer(c)
  /\ UNCHANGED <<journal, pending, flushes, hits, blocks, kv, kvLock>>

AccessStep(c) ==
  Record(c) \/ Consolidate(c) \/ ConsolidateEnds(c) \/ RekeyLoad(c) \/ RekeyWrite(c) \/ RekeyOwn(c)
FlushStep == \E f \in flushes : FlushClone(f) \/ FlushLoad(f) \/ FlushWrite(f)

-----------------------------------------------------------------------------
(* Blocks, and keys and values.                                            *)

\* None as a content: the block is removed.
BlockLoad(c) ==
  /\ At(c, "block", "load")
  /\ Go(c, [work[c] EXCEPT !.pc = "save", !.read = blocks])
  /\ UNCHANGED fileVars

Held(map) == {n \in Name : map[n] # None}

Full(map, name) == map[name] = None /\ Cardinality(Held(map)) >= MaxBlocks

BlockSave(c) ==
  /\ At(c, "block", "save")
  /\ blocks' = IF work[c].value # None /\ Full(work[c].read, work[c].name) THEN blocks
               ELSE IF work[c].value = None /\ work[c].read[work[c].name] = None THEN blocks
               ELSE [work[c].read EXCEPT ![work[c].name] = work[c].value]
  /\ Answer(c)
  /\ UNCHANGED <<accessVars, kv, kvLock>>

\* One task of the HTTP server at a time reads the map and writes it back.
KvLock(c) ==
  /\ At(c, "kv", "lock") /\ kvLock = None
  /\ kvLock' = c /\ Go(c, [work[c] EXCEPT !.pc = "write", !.read = kv])
  /\ UNCHANGED <<accessVars, blocks, kv>>

KvWrite(c) ==
  /\ At(c, "kv", "write")
  /\ kv' = [work[c].read EXCEPT ![work[c].name] = work[c].value]
  /\ kvLock' = IF kvLock = c THEN None ELSE kvLock
  /\ Answer(c)
  /\ UNCHANGED <<accessVars, blocks>>

BlockStep(c) == BlockLoad(c) \/ BlockSave(c) \/ KvLock(c) \/ KvWrite(c)

-----------------------------------------------------------------------------

\* What a process knows dies with it; of a flush, either nothing or all is there.
FilesForget(p) ==
  /\ tally' = [tally EXCEPT ![p] = None] /\ pending' = [pending EXCEPT ![p] = 0]
  /\ flushes' = {f \in flushes : f.by # p}
  /\ kvLock' = IF p = "http" THEN None ELSE kvLock
  /\ UNCHANGED <<journal, hits, blocks, kv>>

FilesInit ==
  /\ journal = Zero /\ tally = [p \in Process |-> None] /\ pending = [p \in Process |-> 0]
  /\ flushes = {} /\ hits = Zero
  /\ blocks = [n \in Name |-> None] /\ kv = [n \in Name |-> None] /\ kvLock = None

-----------------------------------------------------------------------------
(* Properties.                                                             *)

FilesTypeOK ==
  /\ journal \in Counts /\ hits \in Counts
  /\ tally \in [Process -> {None} \cup Counts] /\ pending \in [Process -> Nat]
  /\ flushes \subseteq Flush
  /\ blocks \in [Name -> {None} \cup Value] /\ kv \in [Name -> {None} \cup Value]
  /\ kvLock \in {None} \cup Task

\* However many processes tally and flush, and wherever they die, the journal
\* never counts an access that was not made: moved ids take theirs along.
NoAccessInvented == journal[Old] <= hits[Old] /\ journal[New] <= hits[New] + hits[Old]

=============================================================================
