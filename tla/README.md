# mgi-mind in TLA+

mgi-mind is a memory for coding assistants: one Rust binary that serves MCP over stdio and HTTP over a
port, is also a command line and a small web viewer, and keeps its state in a local Qdrant and a few
JSON files. Several of these processes run at once on one store, and inside each the `tokio` runtime
interleaves handlers at every `await`. This directory holds TLA+ modules translated from
`src/src/*.rs`, the TLC runs that check them on small instances, and theorems TLAPS proves for every
instance. Line numbers below are those of `src/src`.

- [1. The system](#1-the-system)
- [2. Modules and how they correspond to the code](#2-modules-and-how-they-correspond-to-the-code)
- [3. Runs](#3-runs)
- [4. Proofs](#4-proofs)
- [5. Divergences](#5-divergences)
- [6. What is not modelled](#6-what-is-not-modelled)
- [7. Plan](#7-plan)

To reproduce: `tlc -config <name>.cfg MC<Module>` for a run of section 3, `tlapm <Module>Proofs.tla` for
section 4.

## 1. The system

Components, their state, their operations and what makes them correct. "Shared" says who else writes
the same state.

| component | state | operations | hard behaviours | correct when |
|---|---|---|---|---|
| fact store (`knowledge.rs`, `duel.rs`) | one Qdrant point per (subject, predicate, object): status, valid, created_at, valid_until, confirmations, dependants; `cardinality.json`; a lock file | add with a duel, invalidate, restore, register cardinality, redo-duels, the readers | two processes on one axis; a read overtaken before the write; a loser retired in two writes; failed reads that look like absent keys | a single-valued axis has one Active fact; an invalidated fact stays so; an axis keeps a value; each assertion counts once; readers agree |
| doubt window and re-test loop (`doubt.rs`, `confidence.rs`) | counter and score in a fact's payload; flags, edit count, busy flag and interval in the process | a tick drains flags, selects, re-tests; a query moves the counter; a call raises the busy flag | a call begins in the middle of a tick; a re-test fails; a counter read, awaited and written back | flags are taken up; no re-test starts in a call; the interval stays bounded |
| outcome signals (`outcome.rs`, `mcp.rs`) | a log in the memory's payload | post a signal | reposts, failed reads, a fault between log and counters | a signal counts once |
| procedures and skills (`procedure.rs`, `skill.rs`) | a point among the memories, a row of counts in `_mod_procstats` | learn, report, set, remove, recall, backfill | a report against a re-learn, a deletion or another report; counts from before the rows | trust is earned and survives a rewrite |
| memory store, ingest gate, quarantine (`storage.rs`, `ingest.rs`, `relevance.rs`) | one point per (library, text): quarantined, archived, provenance | add, ingest, promote, expire, archive, restore, edit, delete, and what each reader shows | a quarantined and a live text share a point; check-then-write with no lock; repeated offers | repetition promotes and never demotes; what is offered can be found again; expire spares what is live |
| consolidation, relibrary (`consolidate.rs`, `relibrary.rs`) | the same points; the mark on a moved one | merge near-duplicates, archive or prune the cold, move a text to another library | plan from a scan, write later; stop between copy and delete | no merge or move loses a text; a move run again finishes |
| library registry (`storage.rs`) | `libraries.json`, a cached copy per process | create, drop, check on write | a stale copy rewrites the file; a drop overtakes an add | a created library stays registered |
| backup, restore, reindex, migration (`cli.rs`, `storage.rs`) | the collection, an export per library, old collections, an archive | read all, delete, insert again | a stop in between, a server writing meanwhile, a second run | each text is in the store or in a copy |
| HTTP surface (`http_api.rs`) | tokens, allowlists, a sliding minute of writes per agent | authenticate, confine, attribute, spend, dispatch | library arguments of every shape, names from three places, requests in flight | a token sees, changes, signs and spends what it may |
| sessions (`session.rs`) | a file per session, a pointer and a heartbeat per agent | start with recovery, end, touch | a death between two files, a start beside a live session | a live session is not closed; a start leaves one active session |
| audit log (`audit.rs`) | append-only lines, each with the hash of the one before; a lock file | record, verify, acknowledge breaks | processes append at once; one dies within a line | no break but the old ones is reported |
| access counters (`access.rs`) | a tally per process, a journal of all | bump, flush at a threshold, re-key | flushes of two processes, a move in between | no access is invented |
| core blocks, key-value store (`storage.rs`, `http_api.rs`) | `blocks.json`, `kv_store.json`, each rewritten whole | set, remove | two processes read, change and rewrite | within one process no write is lost |
| vault (`vault.rs`) | an encrypted file, a salt in another | store, retrieve, list, delete | made on first use by whoever comes first; killed between salt and vault | what was stored opens with the password it was stored under |
| vector store launch (`cli.rs`) | a detached process, a pid file | look, start, wait, stop | slow to load or to end, started twice, dead with its pid file left, a pid not written, a signal not sent | stop finds what serves |
| fact extractor (`extractor.rs`) | a bounded queue, a worker, a model server per process; binary, libraries, sentinel, model on disk | enqueue, extract, install, uninstall | a child that never loads, hangs or dies; shutdown while one starts; an install that died | the queue moves on; one child per process; installed means whole |
| downloads (`cli.rs`, `embedder.rs`) | binaries, models, the marker of the variant | `doctor --fix` | a pass that fails or dies, the variant changed between passes | what is there by name is whole and what the marker says |
| MCP server (`mcp.rs`) | the busy flag | dispatch, one call at a time | a panic, a death | the flag is up exactly during a call |
| origin contexts, markdown reconcile, secret detector, retrieval policy, viewer, benchmarks, packaging | files or nothing | | | not state machines worth modelling, see section 6 |

Interaction. Calls arrive through the MCP server (one at a time per process), HTTP tasks (concurrent)
or a terminal (a process of its own). All of them write Qdrant directly; nothing is cached between
processes but `libraries.json`. Facts have two locks: a mutex per axis within a process and a lock file
between processes. Memories have none. The re-test loop of an MCP server shares the facts with every
call of every process and looks at its own process's busy flag only. Outcome signals are posted on
memories and flag them for the loop. Ingest writes memories, facts and procedures, and queues what it stored
for the extractor, whose worker writes facts. `serve` launches the vector store before it answers; each call
stamps the heartbeat of every active session. The small files of the data directory are read and rewritten by
every process; only the audit log and the facts have a lock between processes.

## 2. Modules and how they correspond to the code

A step of an agent is what its handler does between two awaits that another agent can observe.
Everything before the first such await of a handler is part of the action that begins it; logging and
wording are left out. Writes reach the store at once or, under a fault, not at all.

**Duel.** The duel rule of `duel.rs`: entrenchment from dependants, confirmations and age, the weight of
the new fact in the mode `install_mode.rs` detects, and the outcome. Logarithms are a table in
thousandths, exact to the ratios the thresholds compare.

**FactStore.** One axis (subject and predicate) of facts. `status`, `valid`, `created`, `until`, `conf`,
`deps` are the payload keys of each object's point, `card` the registered cardinality, `axisLock` and
`flock` the two locks. `pc` is where an agent stands: `AddBegin`, `AddLock`, `AddRead` (or `AddRefuse`),
`AddDuel`, `AddWrite`, `RetireStatus`, `RetireUntil` are the stretches of `add_fact_core` and of
`retire_loser`; `Invalidate`, `RestoreValid` and `RestoreUntil`, the `Redo...` actions,
`RegisterCardinality`, `BackfillDependants`, `Briefing` and `SessionEnd` are the other writers. `Abort`
and `Crash` end a call at any await; failed reads are `AddReadFails` and `AddDuelBlind`, or a key of one
row misread by `AddDuel`. Cardinality, rows and scores are read by the duel in one step: the facts lock
keeps other duels out, and only unlocked writers (a backfill) could tell the difference.

**FactPromise.** What the axis promises whoever does not see locks and partial writes: an assertion is
recorded, wins, contends or is quarantined; losers disappear only for a winner; invalidation is final.
`FactStore` instances it with the mapping `visible := VisibleObjects`, and refines it.

**Outcomes, Confidence, DoubtLoop.** `Outcomes` has the calls of the MCP server and of HTTP tasks that post
signals: `PostBegin`, `PostRead`, `PostWrite` and the counters of a procedure, with the busy flag raised
by `Begin` and dropped by every way a call can end. `Confidence` is the score of `confidence.rs` in
thousandths and the verdict of a re-test. `DoubtLoop` extends both with the loop: `Wake` (edits swapped,
cadence set, flags drained), `TopUp`, `Take` (the busy flag is looked at between two ids), `RetestScore`
and the stores after it, and with the queries, re-assertions, backfills and briefings that touch the same
facts. Whether a retrieval drifted is a free choice. A memory that was flagged is re-tested in the facts
collection, where it has no point: `RetestMemory` and `RetestMemoryFails` are the two answers Qdrant may
give to a payload write on a missing point.

**MemoryStore, Upkeep.** `store` maps (library, text) to its point or to `None`: ids are hashes of exactly
that pair, so a quarantined and a live text are one point. `work` holds each caller's call: `Begin`, then
for ingest `Judge`, `PromoteRead`, `Promote`, `Nearest`, `Check`, `Divert`, `Write`, in the order of
`run_ingest_authored`; for the other calls a look and a write, or one write. `Upkeep` adds the two
commands: `ConsolidateBegin` scans, `Merge` walks one point's neighbours as they are at that await,
`MergeApply` deletes, `Cold` archives or prunes any subset (ages and the access journal are not kept);
`MoveBegin` scans, and each text goes through `MoveRead`, `MoveWrite`, `MoveDelete`. `Stop` ends any call
at any await. `JudgeFails`, `PromoteFails`, `NearestFails`, `CheckFails` are the requests of an ingest that may fail
while the code goes on as if they had been answered (`unwrap_or(false)`, `if let Ok`). Similarity and length are
constants; the cheap gate is the set `Weak`; novelty is decided when it follows from the neighbours (the text itself is
there, or nothing is) or when the text has no word of two characters (`Wordless`: `novelty_ratio` is then 1), and free
otherwise. A point bears the name it was stored with: the caller's, none once it was diverted (`add_quarantined` has no
author), the memory's own after an edit. `Neighbours` has the limit of `NEAR_NEIGHBORS`; two texts do not reach it, the
theorem covers it. `calm` and `torn` are history variables no action reads.

**MemoryViews.** What each reader makes of the points: `Searched`, `Browsed`, `Recent`, `ByAuthor`, `InQuarantine`
with their filters. `Shown` is what every reader that hides anything shows, by author if it bears a name, `Hidden` what
none of them does, `Findable` what can at least be brought back; `OfLibrary` is the filter that hides. `Ingested`
(`recent_by_source_since`) hides nothing, so that it shows every text and tells none from another.

**FactViews.** The readers of facts over the rows of `FactStore`: the default query, the conflicts, the history,
the point-in-time query, and the proposal of cardinality inference, which `ApplyProposal` registers when it is
sure.

**Libraries, Rebuild.** `disk` is `libraries.json`, `cache` the copy each process keeps. A miss in the copy
reads the file again; a write puts the whole copy over it. `Libraries` has create, drop, the benchmark that makes
and drops a library, and adds, each check and write a step of its own. The look at the registry is three: `Look` finds the
name in the copy or else reads the file, without the lock of the copy; `Refresh` puts what was read over the copy;
`Believe` looks again. Between two of them another task of the server may register. The look and the read after it
touch no state but the file, and are one step; none of the three awaits, so a call is not stopped among them.
`LoadFails` and `Look` have the file that cannot be read, which counts as empty. `DropEmpty` whose existence check fails
deletes nothing and still takes the name out. `Rebuild` adds the commands that rebuild the
collection: `ReindexRead`, `ReindexExport`, `ReindexRecreate`, `ReindexEmbed`, where a first existence check that fails
leads past the export to the drop, and a failed look, delete or create at the drop ends the command; the migration library by library
with its purge; `BackupSnapshot` and `BackupFiles`; `RestoreUnpack` and `RestoreUpload`.

**Gateway.** The HTTP surface from the request to the tool. A handler awaits nothing between authentication and
dispatch, so the gate, the allowlist, the name and the quota are one action per route, `Serve` or `Fail` another.
Contents are abstracted to the place they are in, a library or a store that all libraries share, and `OtherRoutes` is
the table of the routes a confined token may not take. No two entries share a name, since the parser refuses them
(http_api.rs:217-260); two may share a token, which is then the later one's. `signed` has the names memories bear, those
of `Earlier` since before: an edit stores the caller's new text under one of them (storage.rs:1303). The names the surface
itself uses ("http", "mcp", "ingest") are no agent's and are `None`, as is the author of a diverted memory and of a
procedure that an ingest learned.

**Calls, Sessions, AuditLog, HomeFiles, Vault, Home.** The data directory. `Calls` says who uses it and what a
death does; each of the four others has the reads and writes of its files as separate steps, because nothing but
the audit log is locked; `Home` is their composition: one `Begin`, one `Work`, background flushes, deaths, erased
files and time. A line of the audit log is a sequence of pieces, more than one when a process died within it.

**Daemon, ExtractorInstall, Extractor, Downloads, Helpers.** The processes beside the servers and the files they
need. `Daemon` launches and stops the vector store: a store told to end answers until it is gone, the write of its pid
may fail after it was spawned (`StartPidFails`), and so may the signal of a stop, which removes the file all the same
(`StopKillFails`). `ExtractorInstall` installs and removes the extractor,
sentinel last; `Extractor` is the queue, the worker (`peek`, `binary`, `model`, `spawn`, `hold`, `poll`, `ask`,
`add`) and the children, which may load, die, or hang (`ChildHangs`: connected, and never an answer); `Downloads` is `doctor --fix`, file by file; `Helpers` composes them.

**Playbooks.** `core` is a playbook's point, `stats` its row of counts, `work` a call between reading one and
writing the other. `earned` is history: what was reported of that id. `Recalled`, `Listed` and `Shown` are the
readers, each with the precedence it gives the row over the counts on the point.

## 3. Runs

| run | question | instance | states |
|---|---|---|---|
| `race` | do two processes on one axis keep its invariants, do readers agree, and does FactStore implement FactPromise | 2 processes, 2 values, 2 confirmations, cardinality `single`, no faults | 0.13 M |
| `faults` | "an axis keeps a value" under faults | 2 tasks of a process, 2 values, all three cardinalities and what inference registers, time, restore, 1 fault | 0.76 M |
| `guardrail` | counters against evidence; is every flag taken up | 1 server, 2 memories, 3 calls, 1 abort or crash | 0.43 M |
| `retest` | the loop against every writer of its facts | 1 server, 1 HTTP task, 2 facts, 1 memory, 2 calls, 1 fault of any kind | 2.2 M |
| `memory` | ingest, quarantine, moves and merges | 2 callers, one of them named, 2 libraries, 2 texts, one without a word, 2 calls, 1 fault | 0.97 M |
| `playbooks` | counts against reports | 2 callers, 1 procedure with or without old counts, 1 skill, 4 calls, 1 fault | 0.80 M |
| `gateway` | what a token may see, change, sign and spend | 2 libraries, 3 lists of tokens, 1 name of before, quota 1 in a window of 2, 2 requests, 3 ticks | 0.18 M |
| `rebuild` | the registry, and each text while the collection is rebuilt | 2 tasks of a server, a terminal, 2 libraries, 1 text, archived or absent at the start, no old collection empty, 3 calls, 1 fault | 1.6 M |
| `home` | the files of the data directory | a stdio server, 2 HTTP tasks, 2 terminals in 7 mixes of operations, 3 calls, 1 death | 0.54 M |
| `helpers` | the processes and files beside the servers | a server, a terminal, 7 scenes, 3 commands, 1 death or hang | 0.56 M |
| `reindex_rerun`, `as_of` | each finds one disagreement between the code and what it says of itself (section 5) | smallest that shows it | |

What the passing runs show.

- `race`: `OneActive` (outside calls, a single-valued axis has at most one Active fact: the torn race of
  CHANGELOG.md:802 is closed by the file lock), `ViewsAgree` (outside calls the default query, the briefing and the
  point-in-time query agree about now), `CorrectedIsNoSequence` (inference never takes a corrected value for a
  sequence), `EveryAssertionCounts`, `RedoLeavesOneValue` (redo-duels plans without the lock and still leaves one),
  `InvalidateIsFinal`, `KeepsPromise` (the refinement), `FactsLockIsReleased`. Restore is left out of this run because
  nothing duels a restored fact (section 5), and there are two values because with three `OneActive` fails even in
  sequence.
- `faults`: `AxisKeepsAValue`: only an invalidation takes the last visible value away, at whichever write a call
  dies.
- `guardrail`: `NoDoubleCount` (a counter never exceeds the distinct signals that were posted) and
  `FlagIsTakenUp` (a flag raised is re-tested once calls stop). `TickCap` is not smaller than the number of
  memories: below that, ids that always fail come first in every drain and starve the rest.
- `retest`: `YieldsToCalls` (no re-test starts while a call is in flight), `FlagsSurvive` (a flag leaves the
  registry only for a re-test or with its process), `CadenceInRange`.
- `memory`: `ReassertionEndsKept` (a kept text is kept after an ingest of it, and a quarantined one is promoted,
  whichever verdict the gate gives: this rests on the gate taking hidden points for neighbours; excepted is the
  quarantined text that passes the cheap gate and has no word, section 5),
  `OfferedIsFindable` (after an ingest every reader that hides anything shows the text, or none does and it waits in the
  quarantine or among the forgotten; by author exactly under the name it bears, if any), `ExpireSparesKept` (the delete is conditional, so a promote between look and delete
  wins), `MoveLosesNothing`, `ResumeFinishes` (a stopped move is finished by the next and not reported as a
  collision), `MergeKeepsOne` (of two equally long texts each could drop the other: the set of ids already
  dropped is what prevents it). The library that is filled at the start holds any mix of live,
  quarantined and archived texts.
- `playbooks`: `TrustIsEarned` (no reader shows more successes than were reported, nor a verification nobody
  gave), `RewritingKeepsTrust` (a re-learn or a rewrite leaves the counts as they were), `ReportMovesTrust` (a report moves them
  its way, but for the first report of a procedure with old counts, section 5).
- `gateway`: `ScopeConfines` (every shape of the two library fields, the empty list among them), `SignedByItsHolder`
  (on a server with agents, whatever the header and the body claim, nobody but its holder puts a name into the store, on
  every route but sessions; an edit leaves the name its memory had, which the holder, or an earlier server, put there),
  `QuotaHolds` (no sliding minute holds more writes than the quota).
- `rebuild`: `SoleWriterKeeps` (with one process writing the registry, and no old list put in its copy, a created
  library stays in it), `ReindexKeepsText` (what a reindex found is in the store or in its export, stopped anywhere, with
  a server writing, unless its first look at the collection failed),
  `MigrateKeepsText` (an old collection is deleted only when its texts have arrived).
- `home`: `NoNewBreak` and `ReanchorSettles` (processes that append at once, and one that dies within a line, cause no false
  alarm of tampering), `NoAccessInvented`, `LiveIsNotClosed` and `StartIsActive` (a start against a heartbeat
  that may be of the session before), `VaultKeepsItsKey`. Blocks and keys are steps of these processes too, but only
  their types are checked: between processes they lose updates (section 5).
- `helpers`: `ServingIsNamed` (starts and stops in sequence, none failing half-way: what serves and was not told to end is
  in the pid file, also when it was started beside a store that was still ending), `InstalledIsWhole` (the
  sentinel is never there without the server), `OneChild` (no process has two model servers), `QueuedIsSettled` (a
  queued chunk is settled, unless a child hangs for ever before it is ready: one that never loads, dies or answers prose does
  not hold up the rest), `DownloadsAreWhole` (a file whose
  checksum is known is that file; as long as no pass failed, the marker names the model that is there).

Bounds. Two of everything is what the hazards need: an actor who reads and another who writes in between.
Three calls suffice for a repost after a fault, or an install, a use and an uninstall; two for a move and its
resumption; four for learning, reporting, deleting and learning again. Confirmations stop at
`MaxConfirmations`, time at `MaxClock`, calls at `MaxCalls`, faults at `MaxFaults`, and every bound is a
guard on the action that would exceed it. Thresholds of the code are scaled down where only their being
crossed matters (`Window`, `FailThreshold`, `EditCap`, `TickCap`, `FlushEvery`, `QueueCap`, `MaxBlocks`, `Quota`, `IdleTicks`,
`MaxPolls`, the cadence in ticks); the theorems hold for all their values. The files of `home` and the processes
of `helpers` mostly ignore each other: a behaviour there is about one mix or scene (`Mixes`, `Scenes`: which operations, by
whom, what is installed at first), chosen so that whatever shares a file is in one mix, and `change`, which writes
the audit log, and `start` also meet other files'. `SYMMETRY` is used where callers or values are
interchangeable and no liveness is checked. `CHECK_DEADLOCK FALSE` is set where a system whose calls are bounded
comes to rest.

Exceptions stated in properties. `ReassertionEndsKept`, `OfferedIsFindable`, `MoveLosesNothing`,
`MergeKeepsOne` and `MigrateKeepsText` speak of calls that were `calm`: no other caller wrote to the very points the call works on,
and no request of its own failed and was taken for an answer. Without the exception `ReassertionEndsKept` fails:
memories have no lock, and an add between ingest's live check and its quarantine write is hidden by it; a
failed look has the same effect, as the comment at storage.rs:1249 admits; and a promotion that fails is taken for none. `LiveIsNotClosed` and `StartIsActive`
are about a start nobody disturbed. `NoDoubleCount` excuses a memory whose log was erased by a failed read, and
speaks of one server: two may each count a signal as new. `ReindexKeepsText` is
checked with one terminal: two reindexes share one export directory; it excepts the reindex that went on without
reading (`blind`). `SoleWriterKeeps` excepts a second writer and a miss that put in the copy a list the file no longer
was (`stale`): TLC finds a created library lost without either condition. `ServingIsNamed` (`orderly`) and
`VaultKeepsItsKey` (`raced`) leave out two at once, the former also a pid that could not be written and a signal that was not
sent, and `InstalledIsWhole` (`wrecked`) an uninstall that died: section 5 says what happens then.

Fairness. Facts: an agent that has begun is weakly fair in its next step (a future that is polled progresses), and
`FactsLockIsReleased` asks no more: that who waits for the lock ever gets it is left to the operating system;
nobody is obliged to begin a call. Loop: its timer fires and its task is polled, and calls that began
are answered; again nobody is obliged to call, and calls are bounded, so the liveness reads "once calls
stop". Without that the loop may rightly yield for ever. Helpers: the extraction worker is weakly fair, since its sleeps
and the question to the model end by a timeout. The request for `/health` has none (extractor.rs:821-824): it is no step at
all while the child hangs, so fairness asks nothing there, and `QueuedIsSettled` says of that one state that it may last.
No child need ever be ready, and nobody need call. The other runs have no
liveness property and no fairness.

## 4. Proofs

For every value of the constants, under the assumptions the modules name (`ConstantsAssumption`,
`DoubtLoopAssumption` and so on: sets of the right kind, `None` outside them, naturals for bounds).

- `FactStoreProofs`. `TypeCorrect`. `CriticalSection`: `[]Grounded`. `Grounded` is the inductive invariant
  that carries the rest: it says that one agent at most is between taking and releasing the facts lock and that the prior
  row it read, the losers it decided to retire and another visible row beside whoever it hides are as it
  found them. None of the properties is inductive alone: that an upsert does not revive an invalidated fact
  depends on what was read steps ago still being so. From it: `InvalidateStays` and `AssertionsCount` (no failed
  reads), `AxisKeeps` (all faults), and `PromiseKept`: the refinement of `FactPromise`, with initial states mapped
  to initial states and every step to a step or a stutter (no failed reads). Four more come from what a call inside knows:
  `InsideStep` says that whoever is about to write or to retire got there by a step of its own, and that no other agent
  touches the rows meanwhile. `RedoLeavesOne` (all faults): one visible row at most is no loser (`RedoHolds`). `OneActiveFact`:
  one row at most will be active when the losers are retired (`ActiveInv`); it asks for two values, no fault, nothing
  restored and no registration as multi, and TLC finds a counterexample when any of the four is dropped.
  `ReadersAgree` (any number of values, failed reads included; no call cut short, nothing restored): a window is closed
  once its row is retired, or a call is about to close it (`WindowInv`). `CorrectedStays` (all faults): without a registration as
  temporal_single no row is ever superseded (`NoSequence`), and the inference, which counts those, does not propose it.
  Two theorems prepare the liveness that only TLC checks: `NoLockIsLeaked` (a lock is held exactly while the call that took
  it is at work, on every error path) and `CallsEnd` (`StepsLeft` falls at each step of a call and nothing raises it); what
  remains for `FactsLockIsReleased` is that a call is never without a next step, and fairness.
- `DoubtLoopProofs`. `BusyMatches`: the busy flag of a server is up exactly while a call of it is in flight,
  whatever aborts, panics or crashes; from it `Yields`. `CadenceBounded`: the interval stays between the floor
  and twice the cap (twice, since the load multiplier comes after the clamp). `NoDoubleCount`: what a call owes the counters
  is part of the sum (`Balanced`: counted, plus owed, is at most recorded by hand plus shown in the log), and what a call has
  read still holds when it writes (`ReadHolds`). Proved under `[]OneReports`, one call at a time between a read and its
  write: without it TLC finds a signal counted twice, by two servers. `FlagsSurvive` needs that the tick's work is a list
  (`LInv`), and so that a finite set in a total order has a sorted list with just its elements (`SortedHolds`: by the pigeonhole
  principle, since the ranks of n elements are n numbers below n).

- `UpkeepProofs` proves every property of run `memory`, for any number of callers, libraries
  and texts, any similarity that is symmetric, any lengths and bounds, both kinds of fault. The inductive
  invariant `Inv` adds to the types: an expiry only looks and deletes; a move goes to another library and holds a
  payload for every text it has yet to write (`Carrying`: without it what a move writes need not be a point);
  an undisturbed move about to delete has its copy in place with its mark (`Arrived`), and so has a torn one
  (`Resumable`). From it `TypeCorrect`, `ExpirySpares`, `MoveKeeps`, `TornMovesResume`. `MergesSpare` needs
  `Sparing`: of every group a running merge has taken from, one point is there and not dropped; each step
  renews the witness, since a text that drops others stays or yields to a rival that is not dropped yet.
  `RepetitionPromotes` and `OffersAreKept` need `Offered`: an undisturbed ingest of a kept text, or of a quarantined one
  the gate can compare, never reaches the writes for new texts. A kept text the gate accepts is its own near-duplicate
  and is found live; any other is sent to the quarantine, and a promotion or the live check comes first.
- `GatewayProofs` proves every property of run `gateway`, for any accepted lists of tokens, libraries, quota and window. The
  inductive invariant adds to the three properties what is in flight: a request handed to the tools reads and writes
  where its token may and bears its name (`HandsFit`); the names that memories bear, which an edit may pick up, were put there
  by their holders or before (`SignedAreHeld`, for `Attribution`); and a write that was let pass within the minute is still counted
  (`Counted`). Each handler is shown to do no more than forward what fits and pay from its agent's budget (`Handled`), so
  that a step is proved once for all routes; `AskedIsAllowed` is the heart of `Confinement`: the list a confined read is given is never
  the empty one, which would mean every library. `Frugality` rests on `GrantHolds`: what a minute has seen is a subset of
  what is counted when the next write is let pass.
- `PlaybooksProofs` proves `TrustIsEarned`, for any number of playbooks and callers and all faults. The invariant says
  that the point, the row and whatever a call has in hand hold no more than was earned; a call that reads, waits and
  writes back may lose a report but cannot invent one. `RewritingKeepsTrust` and `ReportMovesTrust` need what an undisturbed
  call knows at each of its steps (`Knows`): what was shown when it began is still shown until it writes, and what it
  has read is that, whether it lay on the point or in the row. Two more facts carry it: every row says something
  (`Says`: an empty one would hide the counts on the point) and a call is at its last write only with something to
  write (`Keeping`). For the ranking, `RankRises` and `RankFalls` show that the truncated quotient moves the right way for
  all counts, across the point where the confidence stops growing.
- `RegistryProofs` proves `SoleWriterKeeps`, for any number of tasks of the server and of terminals, any libraries and all
  faults. The invariant says of each process that, as long as nobody else has written the registry and no miss made its copy old, that copy is unread
  or equal to the file, and the file holds every library answered for (`Coherent`): the theorem alone is not
  inductive, since a write puts the copy, not the file, on disk. `ServersServe` keeps the commands to the terminals, each a process
  with a copy of its own; a restore, which writes the file behind the copies, counts as a second writer.
  `MigrateKeepsText` rests on `Copied`: a text of the old collection is in the store or still in the migration's hand.
  `ReindexKeepsText` rests on `Owing`, which says where what was read is at each step: in the store until the export
  is written, in the export when the collection is emptied, all of it as long as the reindex is not `blind`. It is proved under `[]OneReindex`: two reindexes at once lose a text
  (section 5). Nothing is asked of the server, which may write all the while.

- `HomeProofs` proves every property of run `home`, for any number of processes, tasks, agents, ids, secrets and
  passwords and any mix of operations. One invariant per component, and one frame lemma for each (`SessionAside`,
  `AuditAside`, `FilesAside`, `VaultAside`) that says what it asks of the steps of the others: no more than that they
  leave its files and its calls alone. Sessions: `Knows` is what an undisturbed start has read or made and still
  holds, and `WarmIsBeat` ties the history of heartbeats to the file. Audit log: `Linked`, about
  every readable line since the lock, needs that who writes holds the lock and the tip it read (`Appending`), and that a
  piece written after a torn one changes the length the next link names; `Tidy` is what a reanchor knows while no line is
  torn. Counters: every copy of the counts lies in `FairCounts(hits)`, which is closed under merging, renaming and
  counting. Vault: a vault has its salt and nobody about to change either (`OneKey`), or there is none and one
  command at most is founding it (`OneFounder`). `VaultAssumption` says that Rust's None is no sealed file.

- `HelpersProofs` proves every safety property of run `helpers`, for any number of servers and commands, any scene that
  could be found (`ScenesAssumption`: files by known names, no sentinel without the files it stands for) and any queue.
  One invariant per component again, and `WorkOK`: one person at a time installs, removes or repairs. Store: while all is
  orderly one process at most was not told to end, the one in the pid file or one whose start is about to write it
  (`NeededIsNamed`); however many others are still ending, and a start that is about to spawn, or a stop about to remove the
  file, knows that there is none. Extractor: while a child is
  being started the slot is empty and none lives (`SlotOK`): that is what `OneChild` alone lacks to be inductive, since a
  shutdown may come between spawn and slot. Installer: who makes the files removed the sentinel first (`MakingOK`). Downloads: between fetches of the model, file and
  marker agree (`Agreed`), and during one what is in hand is what the marker will say (`ModelInHand`). `DownloadsAssumption` says that
  no content is Rust's None.

Every safety property and action property of the passing runs is stated by a theorem. Only model-checked are the liveness
properties, `FactsLockIsReleased`, `FlagIsTakenUp` and `QueuedIsSettled` (fairness and ENABLED are beyond the prover).

## 5. Divergences

Found by a violating run; each is a finding in `PROJECT.json` with the line that says otherwise.

- `reindex_rerun`: a reindex that died while embedding, run again, exports what is left over the export that held the
  rest (storage.rs:4720).
- `as_of`: a value that was superseded and returns keeps its first created_at, so a point-in-time query finds two
  (knowledge.rs:480).

Seen while modelling, without a run of their own:

- Facts. Three values asserted in sequence leave two Active facts on a single-valued axis, against CHANGELOG.md:802
  (knowledge.rs:540). A re-assertion duels against its own row and may hide what it has just written (duel.rs:323). A failed read of
  the prior row lets an add revive an invalidated fact (storage.rs:1199). Restore can bring back a second Active
  fact (knowledge.rs:1229), and a crash between its two writes leaves a visible row with a closed window
  (knowledge.rs:1244). A re-assertion wipes dependants_count, which CHANGELOG.md:152-154 counts on (knowledge.rs:588). Resisting a
  contradiction takes ten confirmations in chat_only mode and more in dev_with_ci, where README.md:95 speaks
  of a few. The history also shows invalidated rows that had been superseded; an active row that becomes contested vanishes
  from the point-in-time query; the walk over entities is depth-first with one visited set and misses entities within
  its radius, where its comment says breadth-first. Inference proposes Multi for a corrected single value, with High
  confidence, and `--apply` registers it.
- Loop. A call that cuts a tick short drops the flags the tick had drained (doubt.rs:840). The first re-test
  compares with 0.5, because no write computes the score (doubt.rs:491). A query writes back a counter it read before
  the loop promoted the fact (doubt.rs:426). The loop's own writes count as edits, so a quiet store does
  not slow down (knowledge.rs:1614); the cadence may exceed its cap twofold (doubt.rs:824); a call can begin in
  the middle of a re-test, which ADR 0003 rules out; flags name memories but the re-test acts on facts, so the
  guardrail never reaches the memory; a green test after a red one of the same source never verifies a procedure
  (storage.rs:3228).
- Memories. An edit that leaves the trimmed text unchanged deletes the memory (storage.rs:1317). Consolidation may
  delete a visible memory in favour of a longer quarantined near-duplicate (consolidate.rs:217). A text written anew in a library it was moved from is taken for the rest of that
  move, and deleted even when the moved point is quarantined (relibrary.rs:365). An ingest of an archived text is
  answered "already kept" while search does not show it. `recent_by_source_since`, the viewer's, shows quarantined and
  archived memories (storage.rs:4213). A text without a word of two characters that passes the cheap gate is all new to `novelty_ratio`, whose comment says that the cheap filter handles it
  (relevance.rs:290-292): if it is a near-duplicate it goes to the quarantine again each time and is never promoted. A
  quarantined text loses its author (storage.rs:1583-1594), and once promoted is never shown by author. The quarantine's paging cursor is inclusive: texts of the same instant as a page's
  last can repeat.
- Playbooks. The first report of a legacy procedure starts its row at zero and overrides the counts on the point, which the comment
  at storage.rs:2843-2844 calls a no-data-loss fallback. Last-used is read from the point though it lives in the row (storage.rs:3023). A failed read
  of the point or the row erases history; a re-learn drops confirmations_count. A row left by a crash in remove comes
  back with a new skill of the name.
- Registry and rebuild. Two processes that create libraries lose one (storage.rs:582). A benchmark's drop with a stale copy does the
  same. So do two tasks of one server, or one failed read: a miss reads the file before it locks the copy and then overwrites
  it (storage.rs:558-563), and the next register writes the old list over the file, where the comment at
  storage.rs:525-529 has the copy authoritative for the process's own writes. A reindex whose first
  `collection_exists` fails takes the collection for absent, skips the snapshot and drops it unread
  (storage.rs:4673-4681, 4736-4744), against storage.rs:4660-4661, which has every point held and written before the
  drop. TLC finds both losses when `stale` or `blind` is struck from the property. After a failed write of `libraries.json` the copy keeps the name. A reindex brings archived memories back to
  sight; two reindexes at once lose a text when the second has read what the first has left in the store and writes it over the
  first's export; `migrate --purge` deletes an old collection whose scroll failed; `migrate_facts_to_vectorless` loses facts on
  a failed scroll or a crash (storage.rs:906). A backup holds the collections of different moments; "recoverable via `mgimind
  import`" (storage.rs:4712) does not hold for the JSON it writes.
- HTTP. An edit stores the caller's text under the author its memory had (storage.rs:1303, 1316), so that one agent's words bear
  another's name. The comments at http_api.rs:10 and 1070 keep delete off the surface, where it is (http_api.rs:149). A structured add ignores X-Agent
  without tokens; an add without a library is turned down after the quota was spent. What a confined token stores still
  reaches the global facts through the extraction worker (ingest.rs:466).
- Data directory. The event that follows a torn audit line is lost to every reader with it, and a torn multi-byte character stops
  `load_all` altogether. A slow recovery removes the heartbeat of the session another start has made since
  (session.rs:287), and the next start judges that session by its start alone. A start closes a live session that has not been touched yet (session.rs:57-60), and orphans
  one whose pointer it cannot read. Blocks and keys lose updates between processes. Counts flushed by two processes are
  lost or given back to a moved id. Two commands that found the vault at once lose one of the two vaults or its salt; a
  store that died after its salt makes the next skip the confirmation of the password.
- Helpers. Two starts at once leave the pid file naming the dead one, and `stop` reports success while the other
  runs. So it does when the pid could not be written after the spawn, or the signal was not sent (cli.rs:4357, 4504-4512: the
  result of `kill` is dropped). The poll of `/health` says "up to 30s" (extractor.rs:818) but its requests have no
  timeout: a child that takes the connection and never answers holds the worker and the only permit for
  ever. `extractor unload` from a terminal cannot reach the server's child. An uninstall that died leaves a sentinel
  without its binary. Archives are unpacked in place: a pass that dies leaves a truncated library that passes for
  installed. A model without a marker asked for its GPU variant keeps the CPU file and is marked GPU, where embedder.rs:330
  says it will be fetched again.

## 6. What is not modelled

Embedding, reranking, vector arithmetic and the words of the gate are numeric or textual functions with no
protocol: their results are constants or free choices. The secret detector, provenance formats,
the retrieval policy, calibration and benchmarks, the viewer's page, installers and the Python client keep
no shared state or only print. Markdown reconcile folds files into adds and deletes of the memory store, one by
one: a replace deletes before it adds, so an add that is refused loses the old text, and files of one name share a
source; a module would repeat those of `MemoryStore`. Origin contexts are a table keyed by vectors. Qdrant is external and modelled by what the code
asks of it: atomic upserts, conditional deletes, and payload writes that ignore missing points. A request that
the server applies after the client has given up is not modelled. The world-time axis of facts, facts in backups,
chunks of long texts and ranking are left out of modules that are otherwise there.

## 7. Plan

1. `FactStore` with world time: the window of `valid_from` and its own point-in-time query.
2. Facts in `Rebuild`: the vectorless migration and the restore of several collections.
3. Pure functions against reference definitions: the weighted score of an outcome log, chunking with
   overlap, coldness.
