------------------------------ MODULE Rebuild ------------------------------
(***************************************************************************)
(* The commands that rebuild the collection of memories whole              *)
(* (src/src/storage.rs), while a server may be writing to it: reindex,     *)
(* migrate from one collection per library, backup and restore.            *)
(***************************************************************************)
EXTENDS Libraries

VARIABLES
  exported, \* Library -> the texts in its file of the reindex-backup directory
  legacy,   \* Library -> the texts of its old collection, or None
  archive,  \* the backup file, or None
  calm,     \* history, per caller: nobody else took a memory or a name away
  owed,     \* history: what the last reindex found to read, less what was dropped since
  blind,    \* history: that it went on without reading it
  ever      \* history: what any reindex read, less what was dropped since

rebuildVars == <<exported, legacy, archive>>
vars == <<libraryVars, rebuildVars, calm, owed, blind, ever>>

Store == [Id -> Kind \cup {None}]
Present == {id \in Id : store[id] # None}
TextsOf(library) == {t \in Text : store[<<library, t>>] # None}
Exported == {id \in Id : id[2] \in exported[id[1]]}

Rebuilding ==
  [op : {"reindex"}, pc : {"read", "export", "recreate", "embed"}, copy : Store]
Migrating ==
  [op : {"migrate"}, pc : {"next", "scroll", "copy", "purge"}, purge : BOOLEAN,
   library : Library, todo : SUBSET Library, texts : SUBSET Text, clean : BOOLEAN]
Saving == [op : {"backup"}, pc : {"snapshot", "files"}, copy : Store]
Restoring == [op : {"restore"}, pc : {"unpack", "upload"}]
Archive == [store : Store, libraries : SUBSET Library]

Empty == [id \in Id |-> None]

\* A command is typed.
Command(c) ==
  /\ c \in Terminal /\ Starts(c) /\ Fresh(c)
  /\ \/ Go(c, [op |-> "reindex", pc |-> "read", copy |-> Empty])
     \/ \E purge \in BOOLEAN, library \in Library :
          Go(c, [op |-> "migrate", pc |-> "next", purge |-> purge, library |-> library,
                 todo |-> {l \in Library : legacy[l] # None}, texts |-> {}, clean |-> TRUE])
     \/ Go(c, [op |-> "backup", pc |-> "snapshot", copy |-> Empty])
     \/ archive # None /\ Go(c, [op |-> "restore", pc |-> "unpack"])
  /\ UNCHANGED <<store, disk, made, writers, stale>> /\ UNCHANGED rebuildVars

-----------------------------------------------------------------------------
(* Reindex: every text is embedded anew, in a collection of its own.       *)

\* What there is, in memory.  A collection it cannot look for is not there, and
\* has nothing to export; one it cannot read ends the command.
ReindexRead(c) ==
  /\ At(c, "read")
  /\ \/ /\ Works
        /\ Go(c, [work[c] EXCEPT !.copy = store, !.pc = IF store = Empty THEN "recreate" ELSE "export"])
     \/ Fails("read") /\ (GoTo(c, "recreate") \/ Answer(c))
  /\ UNCHANGED store /\ UNCHANGED registryVars /\ UNCHANGED rebuildVars

\* Mutant of ReindexExport: a read that fails is an empty store, and goes on.
ReindexExportBlind(c) ==
  /\ At(c, "export")
  /\ \/ /\ Works
        /\ exported' = [l \in Library |-> IF TextsOf(l) = {} THEN exported[l] ELSE TextsOf(l)]
     \/ Fails("read") /\ UNCHANGED exported
  /\ GoTo(c, "recreate")
  /\ UNCHANGED store /\ UNCHANGED registryVars /\ UNCHANGED <<legacy, archive>>

\* export_all into the one directory: a file for each library that has
\* memories, over the file of the run before.  Nothing written, nothing done.
ReindexExport(c) ==
  /\ At(c, "export")
  /\ \/ /\ Works
        /\ exported' = [l \in Library |-> IF TextsOf(l) = {} THEN exported[l] ELSE TextsOf(l)]
        /\ IF store = Empty THEN Answer(c) ELSE GoTo(c, "recreate")
     \/ Fails("read") /\ Answer(c) /\ UNCHANGED exported
  /\ UNCHANGED store /\ UNCHANGED registryVars /\ UNCHANGED <<legacy, archive>>

\* The collection is dropped, and created in the new dimension.  One it cannot
\* look for is not dropped, and then cannot be created; dropping may fail, or
\* creating after it.
ReindexRecreate(c) ==
  /\ At(c, "recreate")
  /\ \/ Works /\ store' = Empty /\ GoTo(c, "embed")
     \/ Fails("read") /\ UNCHANGED store /\ Answer(c)
     \/ Fails("write") /\ store' \in {store, Empty} /\ Answer(c)
  /\ UNCHANGED registryVars /\ UNCHANGED rebuildVars

\* One text is embedded and written, or skipped.  Of what it was, only the
\* quarantine is kept: the archived come back to sight.
ReindexEmbed(c) ==
  /\ At(c, "embed")
  /\ IF work[c].copy = Empty THEN Works /\ Answer(c) /\ UNCHANGED store
     ELSE \E id \in {i \in Id : work[c].copy[i] # None} :
            LET kind == IF work[c].copy[id] = "quarantined" THEN "quarantined" ELSE "live"
            IN  /\ \/ Works /\ store' = [store EXCEPT ![id] = kind]
                   \/ Fails("write") /\ UNCHANGED store
                /\ Go(c, [work[c] EXCEPT !.copy[id] = None])
  /\ UNCHANGED registryVars /\ UNCHANGED rebuildVars

-----------------------------------------------------------------------------
(* Migrate: the old collections, one after the other.                      *)

MigrateNext(c) ==
  /\ At(c, "next")
  /\ IF work[c].todo = {} THEN Works /\ Answer(c) /\ UNCHANGED registryVars
     ELSE \E library \in work[c].todo, writes \in BOOLEAN :
            /\ IF writes THEN Works ELSE Fails("write")
            /\ Register(c, library, writes) /\ UNCHANGED <<made, stale>>
            /\ IF writes
               THEN Go(c, [work[c] EXCEPT !.library = library, !.todo = @ \ {library},
                                          !.pc = "scroll", !.clean = TRUE])
               ELSE Answer(c)
  /\ UNCHANGED store /\ UNCHANGED rebuildVars

\* A read that fails is an empty collection.
MigrateScroll(c) ==
  LET texts == IF legacy[work[c].library] = None THEN {} ELSE legacy[work[c].library]
  IN  /\ At(c, "scroll")
      /\ \/ Works /\ Go(c, [work[c] EXCEPT !.texts = texts, !.pc = "copy"])
         \/ Fails("read") /\ Go(c, [work[c] EXCEPT !.pc = "copy", !.clean = FALSE])
      /\ UNCHANGED store /\ UNCHANGED registryVars /\ UNCHANGED rebuildVars

\* One text is embedded and written, or skipped.
MigrateCopy(c) ==
  /\ At(c, "copy") /\ work[c].texts # {}
  /\ \E t \in work[c].texts :
       \/ /\ Works
          /\ store' = [store EXCEPT ![<<work[c].library, t>>] = "live"]
          /\ Go(c, [work[c] EXCEPT !.texts = @ \ {t}])
       \/ /\ Fails("write") /\ UNCHANGED store
          /\ Go(c, [work[c] EXCEPT !.texts = @ \ {t}, !.clean = FALSE])
  /\ UNCHANGED registryVars /\ UNCHANGED rebuildVars

\* Mutant of MigratePurge: all old collections go with the first.
MigratePurgeAll(c) ==
  /\ At(c, "copy") /\ work[c].texts = {} /\ Works
  /\ legacy' = IF work[c].purge THEN [l \in Library |-> None] ELSE legacy
  /\ GoTo(c, "next")
  /\ UNCHANGED store /\ UNCHANGED registryVars /\ UNCHANGED <<exported, archive>>

\* With --purge the old collection is deleted, whatever was skipped.
MigratePurge(c) ==
  /\ At(c, "copy") /\ work[c].texts = {}
  /\ \/ Works /\ legacy' = IF work[c].purge THEN [legacy EXCEPT ![work[c].library] = None] ELSE legacy
     \/ Fails("write") /\ work[c].purge /\ UNCHANGED legacy
  /\ GoTo(c, "next")
  /\ UNCHANGED store /\ UNCHANGED registryVars /\ UNCHANGED <<exported, archive>>

-----------------------------------------------------------------------------
(* Backup and restore.                                                     *)

\* The collections first, as snapshots of one moment.
BackupSnapshot(c) ==
  /\ At(c, "snapshot") /\ Works
  /\ Go(c, [work[c] EXCEPT !.pc = "files", !.copy = store])
  /\ UNCHANGED store /\ UNCHANGED registryVars /\ UNCHANGED rebuildVars

\* Then the files of the data directory, libraries.json among them.
BackupFiles(c) ==
  /\ At(c, "files") /\ Works
  /\ archive' = [store |-> work[c].copy, libraries |-> disk]
  /\ Answer(c)
  /\ UNCHANGED store /\ UNCHANGED registryVars /\ UNCHANGED <<exported, legacy>>

\* restore_archive: the files in place, whatever a server keeps in memory.
RestoreUnpack(c) ==
  /\ At(c, "unpack") /\ Works
  /\ disk' = archive.libraries /\ writers' = writers \cup {c, None}
  /\ GoTo(c, "upload")
  /\ UNCHANGED <<store, cache, made, stale>> /\ UNCHANGED rebuildVars

\* Then the snapshots, one upload each; the first that fails ends it.
RestoreUpload(c) ==
  /\ At(c, "upload")
  /\ \/ Works /\ store' = archive.store
     \/ Fails("write") /\ UNCHANGED store
  /\ Answer(c)
  /\ UNCHANGED registryVars /\ UNCHANGED rebuildVars

-----------------------------------------------------------------------------
(* The specification.                                                      *)

RebuildStep(c) ==
  Command(c) \/ ReindexRead(c) \/ ReindexExport(c) \/ ReindexRecreate(c) \/ ReindexEmbed(c)
    \/ MigrateNext(c) \/ MigrateScroll(c) \/ MigrateCopy(c) \/ MigratePurge(c)
    \/ BackupSnapshot(c) \/ BackupFiles(c) \/ RestoreUnpack(c) \/ RestoreUpload(c)

Step(c) == RebuildStep(c) \/ (LibraryStep(c) /\ UNCHANGED rebuildVars)

\* What a step takes away on purpose: a drop, or the contents a restore replaces.
Dropped(c) ==
  IF work[c].pc \in {"empty", "upload"} THEN {id \in Present : store'[id] = None} ELSE {}

Remember(c) ==
  LET takes == (\E id \in Present : store'[id] = None) \/ ~(disk \subseteq disk')
      onward == work[c].pc = "read" /\ work'[c] # Idle
      read  == IF onward /\ faults' = faults THEN Present ELSE {}
  IN  /\ calm' = [d \in Caller |-> work'[d] = Idle \/ (calm[d] /\ (d = c \/ ~takes))]
      /\ owed' = IF onward THEN Present ELSE owed \ Dropped(c)
      /\ blind' = IF onward THEN faults' # faults ELSE blind
      /\ ever' = (ever \cup read) \ Dropped(c)

Init ==
  /\ LibraryInit
  /\ exported = [l \in Library |-> {}]
  /\ legacy \in [Library -> {None} \cup SUBSET Text]
  /\ archive = None
  /\ calm = [c \in Caller |-> TRUE] /\ owed = {} /\ blind = FALSE /\ ever = {}

Next == \E c \in Caller : Step(c) /\ Remember(c)

Spec == Init /\ [][Next]_vars

-----------------------------------------------------------------------------
(* Properties.                                                             *)

TypeOK ==
  /\ store \in Store
  /\ disk \subseteq Library
  /\ cache \in [Process -> {None} \cup SUBSET Library]
  /\ work \in [Caller -> {Idle} \cup Handling \cup Rebuilding \cup Migrating \cup Saving \cup Restoring]
  /\ calls \in 0 .. MaxCalls /\ faults \in 0 .. MaxFaults
  /\ made \subseteq Library /\ writers \subseteq Process \cup {None} /\ stale \subseteq Process
  /\ exported \in [Library -> SUBSET Text]
  /\ legacy \in [Library -> {None} \cup SUBSET Text]
  /\ archive \in {None} \cup Archive
  /\ calm \in [Caller -> BOOLEAN] /\ owed \subseteq Id /\ blind \in BOOLEAN /\ ever \subseteq Id

\* While one process alone writes the registry, and its writes do not fail, a
\* library whose creation it answered is in the file until it is dropped: unless
\* a miss put in its copy what was not the file's by then (its own other task
\* had registered meanwhile, or the file could not be read), which is the one
\* way its copy, "authoritative for this process's own writes", is not.
SoleWriterKeeps == \A p \in Process \ stale : writers = {p} => made \subseteq disk

\* From the moment a reindex has read the store, every text it found is in the
\* store or in its backup: stopped or failing anywhere, with a server writing
\* all the while, until the next reindex begins.  A reindex whose first look at
\* the collection failed read nothing, and drops the texts unread.
ReindexKeepsText == ~blind => owed \subseteq Present \cup Exported

\* A migration nothing failed in, and nobody dropped anything under, deletes
\* an old collection only when all its texts are in the store.
MigrateKeepsText ==
  [][\A c \in Caller, l \in Library :
       /\ work[c].op = "migrate" /\ work[c].clean /\ calm[c]
       /\ legacy[l] # None /\ legacy'[l] = None /\ work'[c] # work[c]
       => legacy[l] \subseteq TextsOf(l)]_vars

\* "This on-disk snapshot is the real recovery point if the pass dies between
\* the drop and the re-upsert", and the operation may be run again.
ReindexIsRecoverable == ever \subseteq Present \cup Exported

=============================================================================
