-------------------------- MODULE RegistryProofs --------------------------
(***************************************************************************)
(* For any number of servers' tasks, commands, libraries and texts: the    *)
(* registry of libraries under one writer; migrations; reindexes, one at a *)
(* time.                                                                   *)
(***************************************************************************)
EXTENDS Rebuild, TLAPS

-----------------------------------------------------------------------------
(* The inductive invariant.                                                *)

LEMMA ProcessOfCaller ==
  ASSUME NEW c \in Caller
  PROVE  /\ ProcessOf(c) \in Process
         /\ c \in Terminal => ProcessOf(c) = c
  BY LibrariesAssumption DEF Caller, Process, ProcessOf

\* A server makes, checks and writes; the rest is for the terminals.
Serves(r) ==
  /\ r = [f \in DOMAIN r |-> r[f]] /\ "pc" \in DOMAIN r
  /\ r.pc \in {"idle"} \cup HandlingPc

ServersServe ==
  /\ work = [c \in Caller |-> work[c]]
  /\ \A c \in Server : Serves(work[c])

LEMMA ServesNext ==
  ASSUME NEW r, Serves(r), NEW pc \in HandlingPc
  PROVE  Serves([r EXCEPT !.pc = pc])
  <1> DEFINE q == [r EXCEPT !.pc = pc]
  <1>1. q = [f \in DOMAIN r |-> IF f = "pc" THEN pc ELSE r[f]]
    BY DEF Serves
  <1>2. DOMAIN q = DOMAIN r /\ q["pc"] = pc /\ q = [f \in DOMAIN q |-> q[f]]
    BY <1>1 DEF Serves
  <1> QED
    BY <1>2 DEF Serves

LEMMA ServesOn ==
  ASSUME NEW r, Serves(r), NEW pc \in HandlingPc, NEW field, field # "pc", NEW v
  PROVE  Serves([r EXCEPT !.pc = pc, ![field] = v])
  <1> DEFINE q == [r EXCEPT !.pc = pc]
  <1>1. Serves(q) /\ q["pc"] = pc
    BY ServesNext DEF Serves
  <1> DEFINE p == [r EXCEPT !.pc = pc, ![field] = v]
  <1>2. p = [f \in DOMAIN q |-> IF f = field THEN v ELSE q[f]]
    BY DEF Serves
  <1>3. DOMAIN p = DOMAIN q /\ p["pc"] = pc /\ p = [f \in DOMAIN p |-> p[f]]
    BY <1>1, <1>2 DEF Serves
  <1> QED
    BY <1>1, <1>3 DEF Serves

LEMMA IdleServes == Serves(Idle)
  BY DEF Serves, Idle

RegistryOK ==
  /\ cache = [p \in Process |-> cache[p]]
  /\ writers \subseteq Process \cup {None}

\* The copy of who alone has written, and never kept an old list, is the
\* file's, or not yet read.
Coherent(p) ==
  writers \subseteq {p} /\ p \notin stale => made \subseteq disk /\ cache[p] \in {None, disk}

IInv ==
  /\ ServersServe
  /\ RegistryOK
  /\ \A p \in Process : Coherent(p)

LEMMA InitHolds == Init => IInv
  <1> SUFFICES ASSUME Init PROVE IInv
    OBVIOUS
  <1>1. ServersServe
    BY IdleServes DEF Init, LibraryInit, ServersServe, Caller
  <1>2. RegistryOK
    BY DEF Init, LibraryInit, RegistryOK
  <1>3. \A p \in Process : Coherent(p)
    BY DEF Init, LibraryInit, Coherent
  <1> QED
    BY <1>1, <1>2, <1>3 DEF IInv

-----------------------------------------------------------------------------
(* What the steps do to the registry.                                      *)

\* Nothing, or only forget a copy, or read it for the first time.
LEMMA CopyKeeps ==
  ASSUME RegistryOK, \A p \in Process : Coherent(p),
         NEW q \in Process, UNCHANGED <<disk, made, writers, stale>>,
         \/ UNCHANGED cache
         \/ cache' = [cache EXCEPT ![q] = None]
         \/ cache' = [cache EXCEPT ![q] = Cached(q)]
  PROVE  RegistryOK' /\ \A p \in Process : Coherent(p)'
  <1>1. cache[q] \in {None, disk} => Cached(q) = disk
    BY DEF Cached
  <1>2. RegistryOK'
    BY <1>1 DEF RegistryOK
  <1>3. ASSUME NEW p \in Process PROVE Coherent(p)'
    <2>1. Coherent(p)
      OBVIOUS
    <2>2. p # q => cache'[p] = cache[p]
      BY DEF RegistryOK
    <2>3. cache'[q] \in {cache[q], None, Cached(q)}
      BY DEF RegistryOK
    <2> QED
      BY <1>1, <2>1, <2>2, <2>3 DEF Coherent
  <1> QED
    BY <1>2, <1>3

\* A list that is kept is the file's, or known for old.
LEMMA KeepKeeps ==
  ASSUME RegistryOK, \A p \in Process : Coherent(p),
         NEW q \in Process, NEW libraries, Keep(q, libraries), UNCHANGED <<disk, made, writers>>
  PROVE  RegistryOK' /\ \A p \in Process : Coherent(p)'
  <1>1. RegistryOK'
    BY DEF Keep, RegistryOK
  <1>2. ASSUME NEW p \in Process PROVE Coherent(p)'
    <2>1. p # q => cache'[p] = cache[p] /\ (p \in stale' <=> p \in stale)
      BY DEF Keep, RegistryOK
    <2>2. cache'[q] = libraries /\ (q \notin stale' => q \notin stale /\ libraries = disk)
      BY DEF Keep, RegistryOK
    <2> QED
      BY <2>1, <2>2 DEF Coherent
  <1> QED
    BY <1>1, <1>2

LEMMA RewriteKeeps ==
  ASSUME RegistryOK, \A p \in Process : Coherent(p),
         NEW q \in Process, NEW libraries, NEW writes \in BOOLEAN,
         Rewrite(q, libraries, writes), UNCHANGED stale,
         writes => made' \subseteq libraries \cup (made \ Cached(q))
  PROVE  RegistryOK' /\ \A p \in Process : Coherent(p)'
  <1>1. cache' = [cache EXCEPT ![q] = libraries] /\ disk' \in {disk, libraries}
    BY DEF Rewrite
  <1>2. writers' = writers \cup {q} \/ (writers' = writers \cup {None} /\ ~writes)
    BY DEF Rewrite
  <1>3. RegistryOK'
    BY <1>1, <1>2 DEF RegistryOK
  <1>4. ASSUME NEW p \in Process PROVE Coherent(p)'
    <2> SUFFICES ASSUME writers' \subseteq {p}, p \notin stale
                 PROVE  made' \subseteq disk' /\ cache'[p] \in {None, disk'}
      BY DEF Coherent
    <2>1. p = q /\ writes /\ writers \subseteq {p}
      BY <1>2, LibrariesAssumption DEF Rewrite
    <2>2. made \subseteq disk /\ cache[q] \in {None, disk}
      BY <2>1 DEF Coherent
    <2>3. Cached(q) = disk
      BY <2>2 DEF Cached
    <2>4. disk' = libraries
      BY <2>1, <2>3 DEF Rewrite
    <2>5. cache'[q] = libraries
      BY <1>1 DEF RegistryOK
    <2> QED
      BY <2>1, <2>2, <2>3, <2>4, <2>5
  <1> QED
    BY <1>3, <1>4

LEMMA UntouchedKeeps ==
  ASSUME RegistryOK, \A p \in Process : Coherent(p), UNCHANGED registryVars
  PROVE  RegistryOK' /\ \A p \in Process : Coherent(p)'
  BY DEF registryVars, RegistryOK, Coherent

LEMMA WorkKeeps ==
  ASSUME ServersServe, NEW c \in Caller, NEW r, Go(c, r), c \in Server => Serves(r)
  PROVE  ServersServe'
  <1>1. work' = [work EXCEPT ![c] = r]
    BY DEF Go
  <1>2. \A d \in Caller : work'[d] = IF d = c THEN r ELSE work[d]
    BY <1>1 DEF ServersServe
  <1>3. \A d \in Server : d \in Caller
    BY DEF Caller
  <1> QED
    BY <1>1, <1>2, <1>3 DEF ServersServe

LEMMA AnswerKeeps ==
  ASSUME ServersServe, NEW c \in Caller, Answer(c)
  PROVE  ServersServe'
  BY IdleServes, WorkKeeps DEF Answer

LEMMA GoToKeeps ==
  ASSUME ServersServe, NEW c \in Caller, NEW pc, GoTo(c, pc), work[c] # Idle,
         c \in Server => pc \in HandlingPc
  PROVE  ServersServe'
  <1>1. Go(c, [work[c] EXCEPT !.pc = pc])
    BY DEF GoTo, Go, ServersServe
  <1>2. c \in Server => Serves([work[c] EXCEPT !.pc = pc])
    BY ServesNext DEF ServersServe
  <1> QED
    BY <1>1, <1>2, WorkKeeps

LEMMA RelookKeeps ==
  ASSUME ServersServe, NEW c \in Caller, Relook(c), work[c] # Idle
  PROVE  ServersServe'
  <1>1. c \in Server => Serves([work[c] EXCEPT !.pc = "look", !.left = 1])
    BY ServesOn DEF ServersServe, HandlingPc
  <1> QED
    BY <1>1, WorkKeeps DEF Relook

\* Whose call is at one of a terminal's steps is a terminal.
LEMMA TerminalsOnly ==
  ASSUME ServersServe, NEW c \in Caller,
         work[c].pc \in {"read", "export", "recreate", "embed", "next", "scroll", "copy", "snapshot",
                         "files", "unpack", "upload"}
  PROVE  c \in Terminal /\ c \notin Server
  <1>1. c \notin Server
    <2> SUFFICES ASSUME c \in Server PROVE FALSE
      OBVIOUS
    <2>1. work[c].pc \in {"idle"} \cup HandlingPc
      BY DEF ServersServe, Serves
    <2> QED
      BY <2>1 DEF HandlingPc
  <1> QED
    BY <1>1 DEF Caller

-----------------------------------------------------------------------------
(* The calls that create, drop and write to a library.                     *)

LEMMA AnswerOrGoKeeps ==
  ASSUME ServersServe, NEW c \in Caller, work[c] # Idle,
         Found(c) \/ Missing(c)
  PROVE  ServersServe'
  BY AnswerKeeps, GoToKeeps DEF Found, Missing, HandlingPc

\* A call of the server keeps or forgets what it has read.
\* A call keeps or forgets what it has read.
LEMMA SeenKeeps ==
  ASSUME ServersServe, NEW c \in Caller, NEW pc \in HandlingPc, NEW seen,
         Go(c, [work[c] EXCEPT !.pc = pc, !.seen = seen])
  PROVE  ServersServe'
  <1>1. c \in Server => Serves([work[c] EXCEPT !.pc = pc, !.seen = seen])
    BY ServesOn DEF ServersServe
  <1> QED
    BY <1>1, WorkKeeps

LEMMA LibraryKeeps ==
  ASSUME IInv, NEW c \in Caller, LibraryStep(c)
  PROVE  IInv'
  <1> DEFINE q == ProcessOf(c)
  <1>0. /\ q \in Process /\ ServersServe /\ RegistryOK /\ \A p \in Process : Coherent(p)
    BY ProcessOfCaller DEF IInv
  <1> HIDE DEF q
  <1>1. CASE Begin(c)
    <2>1. PICK op \in DOMAIN FirstStep, library \in Library, text \in Text :
            /\ c \in Server => op \in {"create", "add"}
            /\ Go(c, [op |-> op, pc |-> FirstStep[op], library |-> library, text |-> text,
                      left |-> IF op = "bench" THEN 2 ELSE 0, seen |-> {}])
      BY <1>1 DEF Begin
    <2>2. [op |-> op, pc |-> FirstStep[op], library |-> library, text |-> text,
           left |-> IF op = "bench" THEN 2 ELSE 0, seen |-> {}].pc \in HandlingPc
      BY DEF FirstStep, HandlingPc
    <2> DEFINE r == [op |-> op, pc |-> FirstStep[op], library |-> library, text |-> text,
                     left |-> IF op = "bench" THEN 2 ELSE 0, seen |-> {}]
    <2>7. Serves(r)
      BY <2>2 DEF Serves
    <2>8. Go(c, r)
      BY <2>1
    <2> HIDE DEF r
    <2>3. ServersServe'
      BY <1>0, <2>7, <2>8, WorkKeeps
    <2>4. UNCHANGED cache \/ (c \in Terminal /\ cache' = [cache EXCEPT ![c] = None])
      BY <1>1 DEF Begin, Fresh
    <2>5. UNCHANGED cache \/ (q = c /\ cache' = [cache EXCEPT ![q] = None])
      BY <2>4, ProcessOfCaller DEF q
    <2>6. UNCHANGED <<disk, made, writers, stale>>
      BY <1>1 DEF Begin
    <2> QED
      BY <1>0, <2>3, <2>5, <2>6, CopyKeeps DEF IInv
  <1>2. CASE Stop(c)
    BY <1>0, <1>2, AnswerKeeps, UntouchedKeeps DEF Stop, IInv
  <1>3. CASE Look(c)
    <2>1. work[c] # Idle
      BY <1>3 DEF Look, At, Idle
    <2>2. \/ Found(c)
          \/ Go(c, [work[c] EXCEPT !.pc = "refresh", !.seen = disk])
          \/ GoTo(c, "refresh")
      BY <1>3 DEF Look
    <2>3. ServersServe'
      BY <1>0, <2>1, <2>2, AnswerOrGoKeeps, SeenKeeps, GoToKeeps DEF HandlingPc
    <2>4. cache' = [cache EXCEPT ![q] = Cached(q)] /\ UNCHANGED <<disk, made, writers, stale>>
      BY <1>3 DEF Look, q
    <2> QED
      BY <1>0, <2>3, <2>4, CopyKeeps DEF IInv
  <1>4. CASE Refresh(c)
    <2>1. ServersServe'
      BY <1>0, <1>4, SeenKeeps DEF Refresh, HandlingPc
    <2>2. Keep(q, work[c].seen) /\ UNCHANGED <<disk, made, writers>>
      BY <1>4 DEF Refresh, q
    <2> QED
      BY <1>0, <2>1, <2>2, KeepKeeps DEF IInv
  <1>9. CASE Believe(c)
    <2>1. work[c] # Idle /\ (Found(c) \/ Missing(c))
      BY <1>9 DEF Believe, At, Idle
    <2>2. ServersServe'
      BY <1>0, <2>1, AnswerOrGoKeeps
    <2> QED
      BY <1>0, <1>9, <2>2, UntouchedKeeps DEF Believe, IInv
  <1>10. CASE LoadFails(c)
    <2>1. ServersServe'
      BY <1>0, <1>10 DEF LoadFails, ServersServe
    <2>2. Keep(q, {}) /\ UNCHANGED <<disk, made, writers>>
      BY <1>10 DEF LoadFails, q
    <2> QED
      BY <1>0, <2>1, <2>2, KeepKeeps DEF IInv
  <1>5. CASE CreateRegister(c)
    <2> DEFINE library == work[c].library
    <2>1. PICK writes \in BOOLEAN :
            /\ Register(q, library, writes)
            /\ made' = IF writes THEN made \cup {library} ELSE made
            /\ IF work[c].left > 0 /\ writes THEN GoTo(c, "empty") ELSE Answer(c)
      BY <1>5 DEF CreateRegister, q
    <2>2. work[c] # Idle
      BY <1>5 DEF CreateRegister, At, Idle
    <2>3. ServersServe'
      BY <1>0, <2>1, <2>2, AnswerKeeps, GoToKeeps DEF HandlingPc
    <2>4. Rewrite(q, Cached(q) \cup {library}, writes)
      BY <2>1 DEF Register
    <2>5. UNCHANGED stale
          /\ (writes => made' \subseteq (Cached(q) \cup {library}) \cup (made \ Cached(q)))
      BY <1>5, <2>1 DEF CreateRegister
    <2> HIDE DEF library
    <2> QED
      BY <1>0, <2>3, <2>4, <2>5, RewriteKeeps DEF IInv
  <1>6. CASE DropUnregister(c)
    <2> DEFINE library == work[c].library
    <2>1. PICK writes \in BOOLEAN : Unregister(q, library, writes)
      BY <1>6 DEF DropUnregister, q
    <2>2. work[c] # Idle
      BY <1>6 DEF DropUnregister, At, Idle
    <2>3. ServersServe'
      BY <1>0, <1>6, <2>2, AnswerKeeps, RelookKeeps DEF DropUnregister
    <2>4. Rewrite(q, Cached(q) \ {library}, writes)
      BY <2>1 DEF Unregister
    <2>5. UNCHANGED stale /\ made' \subseteq (Cached(q) \ {library}) \cup (made \ Cached(q))
      BY <1>6 DEF DropUnregister
    <2> HIDE DEF library
    <2> QED
      BY <1>0, <2>3, <2>4, <2>5, RewriteKeeps DEF IInv
  <1>7. CASE DropEmpty(c)
    <2>1. work[c] # Idle
      BY <1>7 DEF DropEmpty, At, Idle
    <2>2. ServersServe'
      BY <1>0, <1>7, <2>1, AnswerKeeps, GoToKeeps, RelookKeeps DEF DropEmpty, HandlingPc
    <2> QED
      BY <1>0, <1>7, <2>2, UntouchedKeeps DEF DropEmpty, IInv
  <1>8. CASE AddPut(c)
    BY <1>0, <1>8, AnswerKeeps, UntouchedKeeps DEF AddPut, IInv
  <1> QED
    BY <1>1, <1>2, <1>3, <1>4, <1>5, <1>6, <1>7, <1>8, <1>9, <1>10 DEF LibraryStep

-----------------------------------------------------------------------------
(* The commands that rebuild the collection: all a terminal's.             *)

\* The steps that leave the registry alone.
LEMMA AsideKeeps ==
  ASSUME IInv, NEW c \in Terminal, UNCHANGED registryVars,
         Answer(c) \/ \E r : Go(c, r)
  PROVE  IInv'
  <1>1. c \in Caller /\ c \notin Server
    BY LibrariesAssumption DEF Caller
  <1>2. ServersServe'
    BY <1>1, AnswerKeeps, WorkKeeps DEF IInv
  <1> QED
    BY <1>2, UntouchedKeeps DEF IInv

LEMMA RebuildKeeps ==
  ASSUME IInv, NEW c \in Caller, RebuildStep(c)
  PROVE  IInv'
  <1>0. ServersServe /\ RegistryOK /\ \A p \in Process : Coherent(p)
    BY DEF IInv
  <1>1. c \in Terminal
    BY <1>0, TerminalsOnly DEF RebuildStep, Command, ReindexRead, ReindexExport, ReindexRecreate,
         ReindexEmbed, MigrateNext, MigrateScroll, MigrateCopy, MigratePurge, BackupSnapshot,
         BackupFiles, RestoreUnpack, RestoreUpload, At
  <1>2. c \in Process /\ c \notin Server
    BY <1>1, LibrariesAssumption DEF Process
  <1>3. CASE Command(c)
    <2>1. \E r : Go(c, r)
      BY <1>3 DEF Command
    <2>2. ServersServe'
      BY <1>0, <1>2, <2>1, WorkKeeps
    <2>3. cache' = [cache EXCEPT ![c] = None] /\ UNCHANGED <<disk, made, writers, stale>>
      BY <1>1, <1>3 DEF Command, Fresh
    <2> QED
      BY <1>0, <1>2, <2>2, <2>3, CopyKeeps DEF IInv
  <1>4. CASE ReindexRead(c)
    <2>1. Answer(c) \/ \E r : Go(c, r)
      BY <1>4 DEF ReindexRead, GoTo, Go
    <2> QED
      BY <1>1, <1>4, <2>1, AsideKeeps DEF ReindexRead
  <1>5. CASE ReindexExport(c)
    <2>1. Answer(c) \/ \E r : Go(c, r)
      BY <1>5 DEF ReindexExport, GoTo, Go
    <2> QED
      BY <1>1, <1>5, <2>1, AsideKeeps DEF ReindexExport
  <1>6. CASE ReindexRecreate(c)
    <2>1. Answer(c) \/ \E r : Go(c, r)
      BY <1>6 DEF ReindexRecreate, GoTo, Go
    <2> QED
      BY <1>1, <1>6, <2>1, AsideKeeps DEF ReindexRecreate
  <1>7. CASE ReindexEmbed(c)
    <2>1. Answer(c) \/ \E r : Go(c, r)
      BY <1>7 DEF ReindexEmbed
    <2> QED
      BY <1>1, <1>7, <2>1, AsideKeeps DEF ReindexEmbed
  <1>8. CASE MigrateNext(c)
    <2>1. CASE work[c].todo = {}
      BY <1>1, <1>8, <2>1, AsideKeeps DEF MigrateNext
    <2>2. CASE work[c].todo # {}
      <3>1. PICK library \in work[c].todo, writes \in BOOLEAN :
              /\ Register(c, library, writes) /\ UNCHANGED <<made, stale>>
              /\ IF writes
                 THEN Go(c, [work[c] EXCEPT !.library = library, !.todo = @ \ {library},
                                            !.pc = "scroll", !.clean = TRUE])
                 ELSE Answer(c)
        BY <1>8, <2>2 DEF MigrateNext
      <3>2. ServersServe'
        <4>1. CASE writes
          BY <1>0, <1>2, <3>1, <4>1, WorkKeeps
        <4>2. CASE ~writes
          BY <1>0, <3>1, <4>2, AnswerKeeps
        <4> QED
          BY <4>1, <4>2
      <3>3. Rewrite(c, Cached(c) \cup {library}, writes)
        BY <3>1 DEF Register
      <3>4. UNCHANGED stale /\ made' \subseteq (Cached(c) \cup {library}) \cup (made \ Cached(c))
        BY <3>1
      <3> QED
        BY <1>0, <1>2, <3>2, <3>3, <3>4, RewriteKeeps DEF IInv
    <2> QED
      BY <2>1, <2>2
  <1>9. CASE MigrateScroll(c)
    <2>1. \E r : Go(c, r)
      BY <1>9 DEF MigrateScroll
    <2> QED
      BY <1>1, <1>9, <2>1, AsideKeeps DEF MigrateScroll
  <1>10. CASE MigrateCopy(c)
    <2>1. \E r : Go(c, r)
      BY <1>10 DEF MigrateCopy
    <2> QED
      BY <1>1, <1>10, <2>1, AsideKeeps DEF MigrateCopy
  <1>11. CASE MigratePurge(c)
    <2>1. \E r : Go(c, r)
      BY <1>11 DEF MigratePurge, GoTo, Go
    <2> QED
      BY <1>1, <1>11, <2>1, AsideKeeps DEF MigratePurge
  <1>12. CASE BackupSnapshot(c)
    BY <1>1, <1>12, AsideKeeps DEF BackupSnapshot
  <1>13. CASE BackupFiles(c)
    BY <1>1, <1>13, AsideKeeps DEF BackupFiles
  <1>14. CASE RestoreUnpack(c)
    <2>1. \E r : Go(c, r)
      BY <1>14 DEF RestoreUnpack, GoTo, Go
    <2>2. ServersServe'
      BY <1>0, <1>2, <2>1, WorkKeeps
    <2>3. writers' = (writers \cup {c}) \cup {None} /\ UNCHANGED <<cache, stale>>
      BY <1>14 DEF RestoreUnpack
    <2>4. RegistryOK'
      BY <1>0, <1>2, <2>3 DEF RegistryOK
    <2>5. \A p \in Process : Coherent(p)'
      BY <2>3, LibrariesAssumption DEF Coherent
    <2> QED
      BY <2>2, <2>4, <2>5 DEF IInv
  <1>15. CASE RestoreUpload(c)
    BY <1>1, <1>15, AsideKeeps DEF RestoreUpload
  <1> QED
    BY <1>3, <1>4, <1>5, <1>6, <1>7, <1>8, <1>9, <1>10, <1>11, <1>12, <1>13, <1>14, <1>15
       DEF RebuildStep

-----------------------------------------------------------------------------
(* The theorem.                                                            *)

LEMMA NextKeeps == IInv /\ [Next]_vars => IInv'
  <1> SUFFICES ASSUME IInv, [Next]_vars PROVE IInv'
    OBVIOUS
  <1>1. CASE Next
    <2>1. PICK c \in Caller : Step(c)
      BY <1>1 DEF Next
    <2> QED
      BY <2>1, LibraryKeeps, RebuildKeeps DEF Step
  <1>2. CASE UNCHANGED vars
    <2>1. UNCHANGED <<work, disk, cache, made, writers, stale>>
      BY <1>2 DEF vars, libraryVars
    <2>2. ServersServe'
      BY <2>1 DEF IInv, ServersServe
    <2> QED
      BY <2>1, <2>2, UntouchedKeeps DEF IInv, registryVars
  <1> QED
    BY <1>1, <1>2

\* SoleWriterKeeps: while one process alone writes the registry, none of its
\* writes fails and no miss of its tasks puts an old list in its copy, every
\* library it answered for is in the file, whatever its calls, the benchmarks
\* and the migrations do in between.
THEOREM SoleWriterSafe == Spec => []SoleWriterKeeps
  <1>1. IInv => SoleWriterKeeps
    BY DEF IInv, Coherent, SoleWriterKeeps
  <1> QED
    BY <1>1, InitHolds, NextKeeps, PTL DEF Spec

-----------------------------------------------------------------------------
(* The types.  What is not a call's own is left to the steps that change   *)
(* it; the archive a restore unpacks is there.                             *)

Call == {Idle} \cup Handling \cup Rebuilding \cup Migrating \cup Saving \cup Restoring

CallsOK ==
  /\ work \in [Caller -> Call]
  /\ archive \in {None} \cup Archive
  /\ \A c \in Caller : work[c].pc \in {"unpack", "upload"} => archive \in Archive

FilesOK ==
  /\ disk \subseteq Library /\ made \subseteq Library /\ writers \subseteq Process \cup {None}
  /\ stale \subseteq Process
  /\ cache \in [Process -> {None} \cup SUBSET Library]

TextsOK ==
  /\ store \in Store
  /\ exported \in [Library -> SUBSET Text]
  /\ legacy \in [Library -> {None} \cup SUBSET Text]

BoundsOK == calls \in 0 .. MaxCalls /\ faults \in 0 .. MaxFaults
HistoryOK ==
  /\ calm \in [Caller -> BOOLEAN] /\ owed \subseteq Id /\ blind \in BOOLEAN /\ ever \subseteq Id

Typed == CallsOK /\ FilesOK /\ TextsOK /\ BoundsOK /\ HistoryOK

\* Of what kind a call is, by the step it is at.
LEMMA PcTells ==
  ASSUME NEW r \in Call
  PROVE  /\ r.pc \in HandlingPc => r \in Handling
         /\ r.pc \in {"read", "export", "recreate", "embed"} => r \in Rebuilding
         /\ r.pc \in {"next", "scroll", "copy"} => r \in Migrating
         /\ r.pc \in {"snapshot", "files"} => r \in Saving
         /\ r.pc \in {"unpack", "upload"} => r \in Restoring
  BY DEF Call, Idle, Handling, HandlingPc, Rebuilding, Migrating, Saving, Restoring

\* A call's step moves it alone, on to a call of some kind.
Moved(c, r) == r \in Call /\ work' = [work EXCEPT ![c] = r]

LEMMA MovedAlone ==
  ASSUME CallsOK, NEW c \in Caller, NEW r, Moved(c, r)
  PROVE  /\ work' \in [Caller -> Call]
         /\ \A d \in Caller : work'[d] = IF d = c THEN r ELSE work[d]
  BY DEF CallsOK, Moved

LEMMA GoMoves ==
  ASSUME CallsOK, NEW c \in Caller, NEW r \in Call, Go(c, r)
  PROVE  Moved(c, r)
  BY DEF CallsOK, Go, Moved

LEMMA AnswerMoves ==
  ASSUME CallsOK, NEW c \in Caller, Answer(c)
  PROVE  Moved(c, Idle)
  BY GoMoves DEF Answer, Call

LEMMA GoToMoves ==
  ASSUME CallsOK, NEW c \in Caller, NEW pc, GoTo(c, pc),
         [work[c] EXCEPT !.pc = pc] \in Call
  PROVE  Moved(c, [work[c] EXCEPT !.pc = pc])
  BY DEF CallsOK, GoTo, Moved

LEMMA RebuildingGoes ==
  ASSUME NEW r \in Rebuilding, NEW pc \in {"read", "export", "recreate", "embed"}, NEW copy \in Store
  PROVE  /\ [r EXCEPT !.pc = pc] \in Rebuilding
         /\ [r EXCEPT !.copy = copy] \in Rebuilding
         /\ [r EXCEPT !.copy = copy, !.pc = pc] \in Rebuilding
  <1>1. [r EXCEPT !.pc = pc] \in Rebuilding
    BY DEF Rebuilding
  <1>2. \A q \in Rebuilding : [q EXCEPT !.copy = copy] \in Rebuilding
    BY DEF Rebuilding
  <1>3. [r EXCEPT !.copy = copy, !.pc = pc] = [[r EXCEPT !.copy = copy] EXCEPT !.pc = pc]
    BY DEF Rebuilding
  <1>4. \A q \in Rebuilding : [q EXCEPT !.pc = pc] \in Rebuilding
    BY DEF Rebuilding
  <1> QED
    BY <1>1, <1>2, <1>3, <1>4

LEMMA MigratingGoes ==
  ASSUME NEW r \in Migrating, NEW pc \in {"next", "scroll", "copy", "purge"},
         NEW library \in Library, NEW texts \in SUBSET Text
  PROVE  /\ [r EXCEPT !.pc = pc] \in Migrating
         /\ [r EXCEPT !.texts = texts] \in Migrating
         /\ [r EXCEPT !.library = library] \in Migrating
         /\ [r EXCEPT !.todo = @ \ {library}] \in Migrating
         /\ \A clean \in BOOLEAN : [r EXCEPT !.clean = clean] \in Migrating
  BY DEF Migrating

LEMMA MovedKeeps ==
  ASSUME CallsOK, NEW c \in Caller, NEW r, Moved(c, r), archive' = archive \/ archive' \in Archive,
         r.pc \in {"unpack", "upload"} => archive' \in Archive
  PROVE  CallsOK'
  BY MovedAlone DEF CallsOK

LEMMA StepBounds ==
  ASSUME BoundsOK, NEW c \in Caller, Step(c)
  PROVE  BoundsOK'
  <1> USE LibrariesAssumption DEF BoundsOK, Works, Fails, At, Starts
  <1>1. CASE Begin(c) \/ Command(c)
    BY <1>1 DEF Begin, Command
  <1>2. CASE Stop(c)
    BY <1>2 DEF Stop
  <1>3. CASE LoadFails(c) \/ Look(c) \/ Refresh(c) \/ Believe(c)
    BY <1>3 DEF LoadFails, Look, Refresh, Believe
  <1>4. CASE CreateRegister(c)
    BY <1>4 DEF CreateRegister
  <1>5. CASE DropUnregister(c)
    BY <1>5 DEF DropUnregister
  <1>6. CASE DropEmpty(c) \/ AddPut(c)
    BY <1>6 DEF DropEmpty, AddPut
  <1>7. CASE ReindexRead(c) \/ ReindexExport(c) \/ ReindexRecreate(c)
    BY <1>7 DEF ReindexRead, ReindexExport, ReindexRecreate
  <1>8. CASE ReindexEmbed(c)
    <2>1. CASE work[c].copy = Empty
      BY <1>8, <2>1 DEF ReindexEmbed
    <2>2. CASE work[c].copy # Empty
      <3>1. PICK id \in Id :
              LET kind == IF work[c].copy[id] = "quarantined" THEN "quarantined" ELSE "live"
              IN  /\ \/ Works /\ store' = [store EXCEPT ![id] = kind]
                     \/ Fails("write") /\ UNCHANGED store
                  /\ Go(c, [work[c] EXCEPT !.copy[id] = None])
        BY <1>8, <2>2 DEF ReindexEmbed
      <3>2. Works \/ Fails("write")
        BY <3>1 DEF Works, Fails
      <3> QED
        BY <1>8, <3>2 DEF ReindexEmbed
    <2> QED
      BY <2>1, <2>2
  <1>9. CASE MigrateNext(c)
    <2>1. CASE work[c].todo = {}
      BY <1>9, <2>1 DEF MigrateNext
    <2>2. CASE work[c].todo # {}
      <3>1. PICK library \in work[c].todo, writes \in BOOLEAN : IF writes THEN Works ELSE Fails("write")
        BY <1>9, <2>2 DEF MigrateNext
      <3>2. UNCHANGED calls /\ (Works \/ Fails("write"))
        <4>1. UNCHANGED calls
          BY <1>9 DEF MigrateNext
        <4> QED
          BY <3>1, <4>1 DEF Works, Fails
      <3> QED
        BY <3>2
    <2> QED
      BY <2>1, <2>2
  <1>10. CASE MigrateScroll(c) \/ MigratePurge(c)
    BY <1>10 DEF MigrateScroll, MigratePurge
  <1>12. CASE MigrateCopy(c)
    <2>1. PICK t \in work[c].texts : Works \/ Fails("write")
      BY <1>12 DEF MigrateCopy
    <2> QED
      BY <1>12, <2>1 DEF MigrateCopy
  <1>11. CASE BackupSnapshot(c) \/ BackupFiles(c) \/ RestoreUnpack(c) \/ RestoreUpload(c)
    BY <1>11 DEF BackupSnapshot, BackupFiles, RestoreUnpack, RestoreUpload
  <1> QED
    BY <1>1, <1>2, <1>3, <1>4, <1>5, <1>6, <1>7, <1>8, <1>9, <1>10, <1>11, <1>12
       DEF Step, LibraryStep, RebuildStep

\* What the registry holds are libraries.
LEMMA LookTyped ==
  ASSUME FilesOK, NEW q \in Process, cache' = [cache EXCEPT ![q] = Cached(q)],
         UNCHANGED <<disk, made, writers, stale>>
  PROVE  FilesOK'
  BY DEF FilesOK, Cached

LEMMA KeepTyped ==
  ASSUME FilesOK, NEW q \in Process, NEW libraries \in SUBSET Library, Keep(q, libraries),
         UNCHANGED <<disk, made, writers>>
  PROVE  FilesOK'
  BY DEF FilesOK, Keep

LEMMA RewriteTyped ==
  ASSUME FilesOK, NEW q \in Process, NEW library \in Library, NEW writes \in BOOLEAN,
         \/ Register(q, library, writes) /\ made' \subseteq made \cup {library}
         \/ Unregister(q, library, writes) /\ made' \subseteq made,
         UNCHANGED stale
  PROVE  FilesOK'
  <1>1. Cached(q) \subseteq Library
    BY DEF FilesOK, Cached
  <1>2. PICK libraries \in SUBSET Library : Rewrite(q, libraries, writes)
    BY <1>1 DEF Register, Unregister
  <1> QED
    BY <1>2 DEF FilesOK, Rewrite

\* A text is written, or those of a library are taken away.
LEMMA PutTyped ==
  ASSUME TextsOK, NEW id \in Id, NEW kind \in Kind, store' = [store EXCEPT ![id] = kind],
         UNCHANGED <<exported, legacy>>
  PROVE  TextsOK' /\ \A i \in Id : store[i] # None => store'[i] # None
  BY LibrariesAssumption DEF TextsOK, Store

-----------------------------------------------------------------------------
(* What a step does to the calls and the texts: of what is there it takes  *)
(* only what a drop or a restore takes on purpose, and what a reindex has  *)
(* set out to write again.                                                 *)

Spares(c) ==
  \A id \in Present : store'[id] = None => work[c].pc \in {"empty", "upload", "recreate"}

LEMMA Unwritten ==
  ASSUME NEW c \in Caller, UNCHANGED store
  PROVE  Spares(c)
  BY DEF Spares, Present

\* A step of these calls leads to another of theirs, or to the answer; the
\* first use of a copy leaves the call where it is.
Onward(c) ==
  \E r \in Call : Moved(c, r) /\ r.pc \notin {"export", "recreate", "copy", "unpack", "upload"}

LEMMA HandlingOnward ==
  ASSUME NEW c \in Caller, NEW r \in Handling \cup {Idle}, Moved(c, r)
  PROVE  Onward(c)
  <1>1. r.pc \notin {"export", "recreate", "copy", "unpack", "upload"} /\ r \in Call
    BY DEF Handling, HandlingPc, Idle, Call
  <1> QED
    BY <1>1 DEF Onward

LEMMA LibraryDoes ==
  ASSUME Typed, NEW c \in Caller, LibraryStep(c), UNCHANGED rebuildVars
  PROVE  Onward(c) /\ FilesOK' /\ TextsOK' /\ Spares(c)
  <1>0. /\ ProcessOf(c) \in Process /\ CallsOK /\ FilesOK /\ TextsOK /\ work[c] \in Call
        /\ UNCHANGED <<exported, legacy, archive>>
    BY ProcessOfCaller DEF Typed, CallsOK, rebuildVars
  <1>1. work[c].pc \in HandlingPc =>
          /\ work[c] \in Handling
          /\ \A pc \in HandlingPc :
               GoTo(c, pc) => Onward(c)
          /\ Relook(c) => Onward(c)
          /\ \A pc \in HandlingPc, seen \in SUBSET Library :
               Go(c, [work[c] EXCEPT !.pc = pc, !.seen = seen]) => Onward(c)
    <2> SUFFICES ASSUME work[c].pc \in HandlingPc
                 PROVE  /\ work[c] \in Handling
                        /\ \A pc \in HandlingPc :
                             GoTo(c, pc) => Onward(c)
                        /\ Relook(c) => Onward(c)
                        /\ \A pc \in HandlingPc, seen \in SUBSET Library :
                             Go(c, [work[c] EXCEPT !.pc = pc, !.seen = seen]) => Onward(c)
      OBVIOUS
    <2>1. work[c] \in Handling
      BY <1>0, PcTells
    <2>2. \A q \in Handling : \A pc \in HandlingPc :
            [q EXCEPT !.pc = pc] \in Handling
      BY DEF Handling
    <2>3. \A q \in Handling : [q EXCEPT !.left = 1] \in Handling
      BY DEF Handling
    <2>4. [work[c] EXCEPT !.pc = "look", !.left = 1] \in Handling
      BY <2>1, <2>2, <2>3 DEF HandlingPc
    <2>5. \A pc \in HandlingPc :
            GoTo(c, pc) => Moved(c, [work[c] EXCEPT !.pc = pc])
      BY <1>0, <2>1, <2>2, GoToMoves DEF Call
    <2>6. Relook(c) => Moved(c, [work[c] EXCEPT !.pc = "look", !.left = 1])
      BY <1>0, <2>4, GoMoves DEF Relook, Call
    <2>7. \A q \in Handling : \A seen \in SUBSET Library : [q EXCEPT !.seen = seen] \in Handling
      BY DEF Handling
    <2>8. ASSUME NEW pc \in HandlingPc, NEW seen \in SUBSET Library,
                 Go(c, [work[c] EXCEPT !.pc = pc, !.seen = seen])
          PROVE  Onward(c)
      <3>1. [work[c] EXCEPT !.pc = pc, !.seen = seen] \in Handling
        BY <2>1, <2>2, <2>7
      <3> QED
        BY <1>0, <2>8, <3>1, GoMoves, HandlingOnward DEF Call
    <2> QED
      BY <2>1, <2>2, <2>4, <2>5, <2>6, <2>8, HandlingOnward
  <1>2. Answer(c) => Onward(c)
    BY <1>0, AnswerMoves, HandlingOnward
  <1>13. work[c].pc \in HandlingPc /\ (Found(c) \/ Missing(c)) => Onward(c)
    BY <1>1, <1>2 DEF Found, Missing, HandlingPc
  <1>3. UNCHANGED store => TextsOK' /\ Spares(c)
    BY <1>0, Unwritten DEF TextsOK
  <1>4. UNCHANGED registryVars => FilesOK'
    BY <1>0 DEF registryVars, FilesOK
  <1>5. CASE Begin(c)
    <2>1. PICK op \in DOMAIN FirstStep, library \in Library, text \in Text :
            Go(c, [op |-> op, pc |-> FirstStep[op], library |-> library, text |-> text,
                   left |-> IF op = "bench" THEN 2 ELSE 0, seen |-> {}])
      BY <1>5 DEF Begin
    <2> DEFINE r == [op |-> op, pc |-> FirstStep[op], library |-> library, text |-> text,
                     left |-> IF op = "bench" THEN 2 ELSE 0, seen |-> {}]
    <2>2. r \in Handling
      BY DEF FirstStep, Handling, HandlingPc
    <2>3. Moved(c, r)
      BY <1>0, <2>1, <2>2, GoMoves DEF Call
    <2>4. FilesOK'
      BY <1>0, <1>5 DEF Begin, Fresh, FilesOK
    <2> HIDE DEF r
    <2> QED
      BY <1>3, <1>5, <2>2, <2>3, <2>4, HandlingOnward DEF Begin
  <1>6. CASE Stop(c)
    BY <1>2, <1>3, <1>4, <1>6 DEF Stop
  <1>7. CASE Look(c)
    <2>1. work[c].pc \in HandlingPc /\ disk \in SUBSET Library
      BY <1>0, <1>7 DEF Look, At, HandlingPc, FilesOK
    <2>2. \/ Found(c)
          \/ Go(c, [work[c] EXCEPT !.pc = "refresh", !.seen = disk])
          \/ GoTo(c, "refresh")
      BY <1>7 DEF Look
    <2>3. Onward(c)
      BY <1>1, <1>13, <2>1, <2>2 DEF HandlingPc
    <2> QED
      BY <1>0, <1>3, <1>7, <2>3, LookTyped DEF Look
  <1>14. CASE Refresh(c)
    <2>1. work[c].pc \in HandlingPc /\ work[c] \in Handling
      BY <1>1, <1>14 DEF Refresh, At, HandlingPc
    <2>4. {} \in SUBSET Library /\ "believe" \in HandlingPc
      BY DEF HandlingPc
    <2>5. Go(c, [work[c] EXCEPT !.pc = "believe", !.seen = {}])
      BY <1>14 DEF Refresh
    <2>2. Onward(c)
      BY <1>1, <2>1, <2>4, <2>5
    <2>3. work[c].seen \in SUBSET Library
      BY <2>1 DEF Handling
    <2> QED
      BY <1>0, <1>3, <1>14, <2>2, <2>3, KeepTyped DEF Refresh
  <1>15. CASE Believe(c)
    <2>1. Onward(c)
      BY <1>13, <1>15 DEF Believe, At, HandlingPc
    <2> QED
      BY <1>3, <1>4, <1>15, <2>1 DEF Believe
  <1>16. CASE LoadFails(c)
    <2>1. UNCHANGED work /\ work[c].pc \in {"look", "unregister", "next"}
      BY <1>16 DEF LoadFails
    <2>2. Moved(c, work[c])
      BY <1>0, <2>1 DEF CallsOK, Moved
    <2>3. Onward(c)
      BY <1>0, <2>1, <2>2 DEF Onward
    <2> QED
      BY <1>0, <1>3, <1>16, <2>3, KeepTyped DEF LoadFails
  <1>8. CASE CreateRegister(c)
    <2>1. PICK writes \in BOOLEAN :
            /\ Register(ProcessOf(c), work[c].library, writes)
            /\ made' = IF writes THEN made \cup {work[c].library} ELSE made
            /\ IF work[c].left > 0 /\ writes THEN GoTo(c, "empty") ELSE Answer(c)
      BY <1>8 DEF CreateRegister
    <2>2. work[c] \in Handling /\ work[c].library \in Library
      BY <1>1, <1>8 DEF CreateRegister, At, Handling, HandlingPc
    <2>3. FilesOK'
      BY <1>0, <1>8, <2>1, <2>2, RewriteTyped DEF CreateRegister
    <2>4. Onward(c)
      BY <1>1, <1>2, <1>8, <2>1 DEF CreateRegister, At, HandlingPc
    <2> QED
      BY <1>3, <1>8, <2>3, <2>4 DEF CreateRegister
  <1>9. CASE DropUnregister(c)
    <2>1. PICK writes \in BOOLEAN : Unregister(ProcessOf(c), work[c].library, writes)
      BY <1>9 DEF DropUnregister
    <2>2. work[c] \in Handling /\ work[c].library \in Library
      BY <1>1, <1>9 DEF DropUnregister, At, Handling, HandlingPc
    <2>3. FilesOK'
      BY <1>0, <1>9, <2>1, <2>2, RewriteTyped DEF DropUnregister
    <2>4. Onward(c)
      BY <1>1, <1>2, <1>9 DEF DropUnregister, At, HandlingPc
    <2> QED
      BY <1>3, <1>9, <2>3, <2>4 DEF DropUnregister
  <1>10. CASE DropEmpty(c)
    <2>1. Onward(c)
      BY <1>1, <1>2, <1>10 DEF DropEmpty, At, HandlingPc
    <2>2. TextsOK'
      BY <1>0, <1>10 DEF DropEmpty, TextsOK, Store
    <2>3. Spares(c)
      BY <1>10 DEF DropEmpty, At, Spares
    <2> QED
      BY <1>4, <1>10, <2>1, <2>2, <2>3 DEF DropEmpty
  <1>12. CASE AddPut(c)
    <2>1. Onward(c)
      BY <1>2, <1>12 DEF AddPut
    <2>2. <<work[c].library, work[c].text>> \in Id
      BY <1>1, <1>12 DEF AddPut, At, Handling, HandlingPc, Id
    <2>3. CASE store' = [store EXCEPT ![<<work[c].library, work[c].text>>] = "live"]
      BY <1>0, <1>4, <1>12, <2>1, <2>2, <2>3, PutTyped DEF AddPut, Kind, Spares, Present
    <2>4. CASE UNCHANGED store
      BY <1>3, <1>4, <1>12, <2>1, <2>4 DEF AddPut
    <2> QED
      BY <1>12, <2>3, <2>4 DEF AddPut
  <1> QED
    BY <1>5, <1>6, <1>7, <1>8, <1>9, <1>10, <1>12, <1>14, <1>15, <1>16 DEF LibraryStep

LEMMA RebuildDoes ==
  ASSUME Typed, NEW c \in Terminal, RebuildStep(c)
  PROVE  CallsOK' /\ FilesOK' /\ TextsOK' /\ Spares(c)
  <1> DEFINE w == work[c]
  <1>0. /\ CallsOK /\ FilesOK /\ TextsOK /\ w \in Call
        /\ c \in Caller /\ c \in Process
    BY DEF Typed, CallsOK, Caller, Process
  <1>1. /\ w.pc \in {"read", "export", "recreate", "embed"} => w \in Rebuilding
        /\ w.pc \in {"next", "scroll", "copy"} => w \in Migrating
        /\ w.pc \in {"snapshot", "files"} => w \in Saving
        /\ w.pc \in {"unpack", "upload"} => w \in Restoring /\ archive \in Archive
    <2> HIDE DEF w
    <2>1. w.pc \in {"unpack", "upload"} => archive \in Archive
      BY <1>0 DEF CallsOK, w
    <2> QED
      BY <1>0, <2>1, PcTells
  <1>2. UNCHANGED store /\ UNCHANGED <<exported, legacy>> => TextsOK' /\ Spares(c)
    BY <1>0, Unwritten DEF TextsOK
  <1>3. UNCHANGED registryVars => FilesOK'
    BY <1>0 DEF registryVars, FilesOK
  <1>4. ASSUME UNCHANGED archive,
               Answer(c) \/ \E r \in Rebuilding \cup Migrating \cup Saving : Go(c, r)
        PROVE  CallsOK'
    <2>1. Answer(c) => CallsOK'
      BY <1>0, <1>4, AnswerMoves, MovedKeeps DEF Idle
    <2>2. ASSUME NEW r \in Rebuilding \cup Migrating \cup Saving, Go(c, r) PROVE CallsOK'
      <3>1. r \in Call /\ r.pc \notin {"unpack", "upload"}
        BY DEF Call, Rebuilding, Migrating, Saving
      <3> QED
        BY <1>0, <1>4, <2>2, <3>1, GoMoves, MovedKeeps
    <2> QED
      BY <1>4, <2>1, <2>2
  <1>5. ASSUME NEW pc, GoTo(c, pc) PROVE Go(c, [w EXCEPT !.pc = pc])
    BY <1>0, <1>5 DEF GoTo, Go, CallsOK
  <1> HIDE DEF w
  <1>6. CASE Command(c)
    <2>1. c \in Terminal /\ UNCHANGED <<store, disk, made, writers>> /\ UNCHANGED rebuildVars
      BY <1>6 DEF Command
    <2>2. FilesOK'
      BY <1>0, <1>6, <2>1 DEF Command, Fresh, FilesOK
    <2>3. CASE \/ Go(c, [op |-> "reindex", pc |-> "read", copy |-> Empty])
               \/ Go(c, [op |-> "backup", pc |-> "snapshot", copy |-> Empty])
      <3>1. Empty \in Store
        BY DEF Empty, Store
      <3>2. /\ [op |-> "reindex", pc |-> "read", copy |-> Empty] \in Rebuilding
            /\ [op |-> "backup", pc |-> "snapshot", copy |-> Empty] \in Saving
        BY <3>1 DEF Rebuilding, Saving
      <3> QED
        BY <1>2, <1>4, <2>1, <2>2, <2>3, <3>2 DEF rebuildVars
    <2>4. CASE \E purge \in BOOLEAN, library \in Library :
                 Go(c, [op |-> "migrate", pc |-> "next", purge |-> purge, library |-> library,
                        todo |-> {l \in Library : legacy[l] # None}, texts |-> {}, clean |-> TRUE])
      <3>1. PICK purge \in BOOLEAN, library \in Library :
              Go(c, [op |-> "migrate", pc |-> "next", purge |-> purge, library |-> library,
                     todo |-> {l \in Library : legacy[l] # None}, texts |-> {}, clean |-> TRUE])
        BY <2>4
      <3>2. [op |-> "migrate", pc |-> "next", purge |-> purge, library |-> library,
             todo |-> {l \in Library : legacy[l] # None}, texts |-> {}, clean |-> TRUE] \in Migrating
        BY DEF Migrating
      <3> QED
        BY <1>2, <1>4, <2>1, <2>2, <3>1, <3>2 DEF rebuildVars
    <2>5. CASE archive # None /\ Go(c, [op |-> "restore", pc |-> "unpack"])
      <3>1. [op |-> "restore", pc |-> "unpack"] \in Call /\ archive' \in Archive /\ archive' = archive
        BY <1>0, <2>1, <2>5 DEF Call, Restoring, CallsOK, rebuildVars
      <3>2. CallsOK'
        BY <1>0, <2>5, <3>1, GoMoves, MovedKeeps
      <3> QED
        BY <1>2, <2>1, <2>2, <3>2 DEF rebuildVars
    <2> QED
      BY <1>6, <2>3, <2>4, <2>5 DEF Command
  <1>7. CASE ReindexRead(c)
    <2>1. w \in Rebuilding /\ store \in Store
      BY <1>0, <1>1, <1>7 DEF ReindexRead, At, TextsOK, w
    <2>2. \/ Answer(c) \/ GoTo(c, "recreate")
          \/ \E pc \in {"recreate", "export"} : Go(c, [w EXCEPT !.copy = store, !.pc = pc])
      BY <1>7 DEF ReindexRead, w
    <2>3. Answer(c) \/ \E r \in Rebuilding : Go(c, r)
      BY <1>5, <2>1, <2>2, RebuildingGoes
    <2> QED
      BY <1>2, <1>3, <1>4, <1>7, <2>3 DEF ReindexRead, rebuildVars
  <1>8. CASE ReindexExport(c)
    <2>1. w \in Rebuilding /\ UNCHANGED <<store, legacy, archive>> /\ UNCHANGED registryVars
      BY <1>0, <1>1, <1>8 DEF ReindexExport, At, w
    <2>2. Answer(c) \/ Go(c, [w EXCEPT !.pc = "recreate"])
      BY <1>5, <1>8 DEF ReindexExport
    <2>3. [w EXCEPT !.pc = "recreate"] \in Rebuilding
      BY <2>1 DEF Rebuilding
    <2>4. CallsOK'
      BY <1>4, <2>1, <2>2, <2>3
    <2>5. exported' \in [Library -> SUBSET Text]
      BY <1>0, <1>8 DEF ReindexExport, TextsOK, TextsOf
    <2> QED
      BY <1>0, <1>3, <2>1, <2>4, <2>5, Unwritten DEF TextsOK
  <1>9. CASE ReindexRecreate(c)
    <2>1. w \in Rebuilding /\ w.pc = "recreate"
      BY <1>1, <1>9 DEF ReindexRecreate, At, w
    <2>2. /\ [w EXCEPT !.pc = "embed"] \in Rebuilding
          /\ Answer(c) \/ Go(c, [w EXCEPT !.pc = "embed"])
      BY <1>5, <1>9, <2>1 DEF ReindexRecreate, Rebuilding
    <2>3. TextsOK'
      BY <1>0, <1>9 DEF ReindexRecreate, TextsOK, Store, Empty, rebuildVars
    <2>4. UNCHANGED registryVars /\ UNCHANGED rebuildVars
      BY <1>9 DEF ReindexRecreate
    <2> QED
      BY <1>3, <1>4, <2>1, <2>2, <2>3, <2>4 DEF rebuildVars, Spares, w
  <1>10. CASE ReindexEmbed(c)
    <2>1. w \in Rebuilding /\ w.copy \in Store /\ UNCHANGED registryVars /\ UNCHANGED rebuildVars
      BY <1>1, <1>10 DEF ReindexEmbed, At, w, Rebuilding
    <2>2. CASE Answer(c) /\ UNCHANGED store
      BY <1>2, <1>3, <1>4, <2>1, <2>2 DEF rebuildVars
    <2>3. CASE \E id \in Id, kind \in Kind :
                 /\ store' = [store EXCEPT ![id] = kind] \/ UNCHANGED store
                 /\ Go(c, [w EXCEPT !.copy[id] = None])
      <3>1. PICK id \in Id, kind \in Kind :
              /\ store' = [store EXCEPT ![id] = kind] \/ UNCHANGED store
              /\ Go(c, [w EXCEPT !.copy[id] = None])
        BY <2>3
      <3>2. PICK copy \in Store : copy = [w.copy EXCEPT ![id] = None]
        BY <2>1 DEF Store
      <3>3. [w EXCEPT !.copy[id] = None] = [w EXCEPT !.copy = copy]
        BY <3>2
      <3>4. CallsOK'
        BY <1>4, <2>1, <3>1, <3>3, RebuildingGoes DEF rebuildVars
      <3>5. TextsOK' /\ Spares(c)
        BY <1>0, <1>2, <2>1, <3>1, PutTyped DEF rebuildVars, Spares, Present
      <3> QED
        BY <1>3, <2>1, <3>4, <3>5
    <2> QED
      BY <1>10, <2>2, <2>3 DEF ReindexEmbed, Kind, w
  <1>11. CASE MigrateNext(c)
    <2>1. w \in Migrating /\ UNCHANGED store /\ UNCHANGED rebuildVars
      BY <1>1, <1>11 DEF MigrateNext, At, w
    <2>2. CASE Answer(c) /\ UNCHANGED registryVars
      BY <1>2, <1>3, <1>4, <2>1, <2>2 DEF rebuildVars
    <2>3. CASE \E library \in w.todo, writes \in BOOLEAN :
                 /\ Register(c, library, writes) /\ UNCHANGED <<made, stale>>
                 /\ IF writes
                    THEN Go(c, [w EXCEPT !.library = library, !.todo = @ \ {library},
                                         !.pc = "scroll", !.clean = TRUE])
                    ELSE Answer(c)
      <3>1. PICK library \in w.todo, writes \in BOOLEAN :
              /\ Register(c, library, writes) /\ UNCHANGED <<made, stale>>
              /\ IF writes
                 THEN Go(c, [w EXCEPT !.library = library, !.todo = @ \ {library},
                                      !.pc = "scroll", !.clean = TRUE])
                 ELSE Answer(c)
        BY <2>3
      <3>2. library \in Library
        BY <2>1 DEF Migrating
      <3>3. /\ [w EXCEPT !.library = library, !.todo = @ \ {library}, !.pc = "scroll", !.clean = TRUE]
                 \in Migrating
        <4>1. PICK w1 \in Migrating : w1 = [w EXCEPT !.library = library]
          BY <2>1, <3>2, MigratingGoes
        <4>2. PICK w2 \in Migrating : w2 = [w1 EXCEPT !.todo = @ \ {library}]
          BY <3>2, MigratingGoes
        <4>3. PICK w3 \in Migrating : w3 = [w2 EXCEPT !.pc = "scroll"]
          BY MigratingGoes, <3>2
        <4>4. [w3 EXCEPT !.clean = TRUE] \in Migrating
          BY DEF Migrating
        <4>5. [w3 EXCEPT !.clean = TRUE]
                = [w EXCEPT !.library = library, !.todo = @ \ {library}, !.pc = "scroll", !.clean = TRUE]
          BY <2>1, <4>1, <4>2, <4>3 DEF Migrating
        <4> QED
          BY <4>4, <4>5
      <3>4. CallsOK'
        BY <1>4, <2>1, <3>1, <3>3 DEF rebuildVars
      <3>5. FilesOK'
        BY <1>0, <3>1, <3>2, RewriteTyped
      <3> QED
        BY <1>2, <2>1, <3>4, <3>5 DEF rebuildVars
    <2> QED
      BY <1>11, <2>2, <2>3 DEF MigrateNext, w
  <1>12. CASE MigrateScroll(c)
    <2>1. w \in Migrating /\ w.library \in Library /\ UNCHANGED store /\ UNCHANGED rebuildVars
      BY <1>1, <1>12 DEF MigrateScroll, At, w, Migrating
    <2>2. PICK texts \in SUBSET Text :
            \/ Go(c, [w EXCEPT !.texts = texts, !.pc = "copy"])
            \/ Go(c, [w EXCEPT !.pc = "copy", !.clean = FALSE])
      <3>1. (IF legacy[w.library] = None THEN {} ELSE legacy[w.library]) \in SUBSET Text
        BY <1>0, <2>1 DEF TextsOK
      <3> QED
        BY <1>12, <3>1 DEF MigrateScroll, w
    <2>3. PICK w1 \in Migrating : w1 = [w EXCEPT !.texts = texts]
      BY <2>1 DEF Migrating
    <2>4. PICK w2 \in Migrating : w2 = [w EXCEPT !.pc = "copy"]
      BY <2>1 DEF Migrating
    <2>5. [w1 EXCEPT !.pc = "copy"] \in Migrating /\ [w2 EXCEPT !.clean = FALSE] \in Migrating
      BY DEF Migrating
    <2>6. /\ [w EXCEPT !.texts = texts, !.pc = "copy"] = [w1 EXCEPT !.pc = "copy"]
          /\ [w EXCEPT !.pc = "copy", !.clean = FALSE] = [w2 EXCEPT !.clean = FALSE]
      BY <2>1, <2>3, <2>4 DEF Migrating
    <2>7. CallsOK'
      BY <1>4, <2>1, <2>2, <2>5, <2>6 DEF rebuildVars
    <2> QED
      BY <1>2, <1>3, <1>12, <2>1, <2>7 DEF MigrateScroll, rebuildVars
  <1>13. CASE MigrateCopy(c)
    <2>1. w \in Migrating /\ w.library \in Library /\ w.texts \subseteq Text
          /\ UNCHANGED registryVars /\ UNCHANGED rebuildVars
      BY <1>1, <1>13 DEF MigrateCopy, At, w, Migrating
    <2>2. PICK t \in w.texts :
            \/ /\ store' = [store EXCEPT ![<<w.library, t>>] = "live"]
               /\ Go(c, [w EXCEPT !.texts = @ \ {t}])
            \/ /\ UNCHANGED store
               /\ Go(c, [w EXCEPT !.texts = @ \ {t}, !.clean = FALSE])
      BY <1>13 DEF MigrateCopy, w
    <2>3. PICK w1 \in Migrating : w1 = [w EXCEPT !.texts = @ \ {t}]
      BY <2>1, <2>2 DEF Migrating
    <2>4. [w EXCEPT !.texts = @ \ {t}, !.clean = FALSE] = [w1 EXCEPT !.clean = FALSE]
          /\ [w1 EXCEPT !.clean = FALSE] \in Migrating
      BY <2>1, <2>3 DEF Migrating
    <2>5. CallsOK'
      BY <1>4, <2>1, <2>2, <2>3, <2>4 DEF rebuildVars
    <2>6. <<w.library, t>> \in Id /\ "live" \in Kind
      BY <2>1, <2>2 DEF Id, Kind
    <2>7. TextsOK' /\ Spares(c)
      BY <1>0, <1>2, <2>1, <2>2, <2>6, PutTyped DEF rebuildVars, Spares, Present
    <2> QED
      BY <1>3, <2>1, <2>5, <2>7
  <1>14. CASE MigratePurge(c)
    <2>1. w \in Migrating /\ UNCHANGED <<store, exported, archive>> /\ UNCHANGED registryVars
      BY <1>1, <1>14 DEF MigratePurge, At, w
    <2>2. [w EXCEPT !.pc = "next"] \in Migrating /\ Go(c, [w EXCEPT !.pc = "next"])
      BY <1>5, <1>14, <2>1 DEF MigratePurge, Migrating
    <2>3. legacy' = legacy \/ legacy' = [legacy EXCEPT ![w.library] = None]
      BY <1>14 DEF MigratePurge, w
    <2>4. TextsOK'
      BY <1>0, <2>1, <2>3 DEF TextsOK
    <2> QED
      BY <1>0, <1>3, <1>4, <2>1, <2>2, <2>4, Unwritten
  <1>15. CASE BackupSnapshot(c)
    <2>1. w \in Saving /\ store \in Store
      BY <1>0, <1>1, <1>15 DEF BackupSnapshot, At, w, TextsOK
    <2>2. PICK w1 \in Saving : w1 = [w EXCEPT !.pc = "files"]
      BY <2>1 DEF Saving
    <2>3. [w1 EXCEPT !.copy = store] \in Saving
      BY <2>1 DEF Saving
    <2>4. [w EXCEPT !.pc = "files", !.copy = store] = [w1 EXCEPT !.copy = store]
      BY <2>1, <2>2 DEF Saving
    <2> QED
      BY <1>2, <1>3, <1>4, <1>15, <2>3, <2>4 DEF BackupSnapshot, rebuildVars, w
  <1>16. CASE BackupFiles(c)
    <2>1. w \in Saving /\ w.copy \in Store
      BY <1>1, <1>16 DEF BackupFiles, At, w, Saving
    <2>2. archive' \in Archive
      BY <1>0, <1>16, <2>1 DEF BackupFiles, Archive, FilesOK, w
    <2>3. CallsOK'
      BY <1>0, <1>16, <2>2, AnswerMoves, MovedKeeps DEF BackupFiles
    <2> QED
      BY <1>2, <1>3, <1>16, <2>3 DEF BackupFiles
  <1>17. CASE RestoreUnpack(c)
    <2>1. w \in Restoring /\ archive \in Archive /\ UNCHANGED rebuildVars
      BY <1>1, <1>17 DEF RestoreUnpack, At, w
    <2>2. [w EXCEPT !.pc = "upload"] \in Call /\ Go(c, [w EXCEPT !.pc = "upload"])
      BY <1>5, <1>17, <2>1 DEF RestoreUnpack, Restoring, Call
    <2>3. CallsOK'
      BY <1>0, <2>1, <2>2, GoMoves, MovedKeeps DEF rebuildVars
    <2>4. FilesOK'
      BY <1>0, <1>17, <2>1 DEF RestoreUnpack, FilesOK, Archive
    <2> QED
      BY <1>2, <1>17, <2>1, <2>3, <2>4 DEF RestoreUnpack, rebuildVars
  <1>18. CASE RestoreUpload(c)
    <2>1. archive \in Archive /\ w.pc = "upload" /\ UNCHANGED rebuildVars /\ UNCHANGED registryVars
      BY <1>1, <1>18 DEF RestoreUpload, At, w
    <2>2. CallsOK'
      BY <1>4, <1>18, <2>1 DEF RestoreUpload, rebuildVars
    <2>3. TextsOK'
      BY <1>0, <1>18, <2>1 DEF RestoreUpload, TextsOK, Archive, rebuildVars
    <2>4. Spares(c)
      BY <2>1 DEF Spares, w
    <2> QED
      BY <1>3, <2>1, <2>2, <2>3, <2>4
  <1> QED
    BY <1>6, <1>7, <1>8, <1>9, <1>10, <1>11, <1>12, <1>13, <1>14, <1>15, <1>16, <1>17, <1>18
       DEF RebuildStep

-----------------------------------------------------------------------------
(* Every reachable state is typed.                                         *)

TInv == IInv /\ Typed

LEMMA TypedInit == Init => Typed
  <1> SUFFICES ASSUME Init PROVE Typed
    OBVIOUS
  <1>1. CallsOK
    BY DEF Init, LibraryInit, CallsOK, Call, Idle
  <1>2. FilesOK
    BY DEF Init, LibraryInit, FilesOK
  <1>3. TextsOK
    <2>1. PICK kept \in [Text -> Kept] :
            store = [id \in Id |-> IF id[1] \in disk THEN kept[id[2]] ELSE None]
      BY DEF Init, LibraryInit
    <2>2. \A id \in Id : id[2] \in Text
      BY DEF Id
    <2>3. store \in Store
      BY <2>1, <2>2, LibrariesAssumption DEF Store
    <2> QED
      BY <2>3 DEF Init, TextsOK
  <1>4. BoundsOK
    BY LibrariesAssumption DEF Init, LibraryInit, BoundsOK
  <1>5. HistoryOK
    BY DEF Init, HistoryOK
  <1> QED
    BY <1>1, <1>2, <1>3, <1>4, <1>5 DEF Typed

LEMMA RebuildsAreTerminals ==
  ASSUME ServersServe, NEW c \in Caller, RebuildStep(c)
  PROVE  c \in Terminal
  BY TerminalsOnly DEF RebuildStep, Command, ReindexRead, ReindexExport, ReindexRecreate,
     ReindexEmbed, MigrateNext, MigrateScroll, MigrateCopy, MigratePurge, BackupSnapshot,
     BackupFiles, RestoreUnpack, RestoreUpload, At

LEMMA StepDoes ==
  ASSUME TInv, NEW c \in Caller, Step(c)
  PROVE  CallsOK' /\ FilesOK' /\ TextsOK' /\ Spares(c)
  <1>1. CASE RebuildStep(c)
    BY <1>1, RebuildsAreTerminals, RebuildDoes DEF TInv, IInv
  <1>2. CASE LibraryStep(c) /\ UNCHANGED rebuildVars
    <2>1. Onward(c) /\ FilesOK' /\ TextsOK' /\ Spares(c)
      BY <1>2, LibraryDoes DEF TInv
    <2>2. PICK r \in Call : Moved(c, r) /\ r.pc \notin {"unpack", "upload"}
      BY <2>1 DEF Onward
    <2>3. CallsOK'
      BY <1>2, <2>2, MovedKeeps DEF TInv, Typed, rebuildVars
    <2> QED
      BY <2>1, <2>3
  <1> QED
    BY <1>1, <1>2 DEF Step

LEMMA HistoryKeeps ==
  ASSUME HistoryOK, NEW c \in Caller, Remember(c)
  PROVE  HistoryOK'
  <1>1. calm' \in [Caller -> BOOLEAN]
    BY DEF Remember
  <1>2. owed' \subseteq Id
    BY DEF HistoryOK, Remember, Present
  <1>3. ever' \subseteq Id /\ blind' \in BOOLEAN
    BY DEF HistoryOK, Remember, Present
  <1> QED
    BY <1>1, <1>2, <1>3 DEF HistoryOK

LEMMA TypedKeeps == TInv /\ [Next]_vars => TInv'
  <1> SUFFICES ASSUME TInv, [Next]_vars PROVE TInv'
    OBVIOUS
  <1>1. IInv'
    BY NextKeeps DEF TInv
  <1>2. CASE Next
    <2>1. PICK c \in Caller : Step(c) /\ Remember(c)
      BY <1>2 DEF Next
    <2> QED
      BY <1>1, <2>1, StepDoes, StepBounds, HistoryKeeps DEF TInv, Typed
  <1>3. CASE UNCHANGED vars
    BY <1>1, <1>3 DEF vars, libraryVars, rebuildVars, TInv, Typed, CallsOK, FilesOK, TextsOK, BoundsOK,
       HistoryOK
  <1> QED
    BY <1>2, <1>3

\* TypeOK: the store, the registry, its copies, the exports, the old collections,
\* the archive and the calls in hand are what they are meant to be, whatever
\* fails or is interrupted.
THEOREM TypesHold == Spec => []TypeOK
  <1>1. Init => TInv
    BY InitHolds, TypedInit DEF TInv
  <1>2. TInv => TypeOK
    BY DEF TInv, Typed, CallsOK, FilesOK, TextsOK, BoundsOK, HistoryOK, Call, TypeOK
  <1> QED
    BY <1>1, <1>2, TypedKeeps, PTL DEF Spec

-----------------------------------------------------------------------------
(* Migration.  A call that nothing failed in and nobody took from has of   *)
(* its library's old collection what it has yet to write, and the rest is  *)
(* in the store.                                                           *)

Copied(c) ==
  work[c].pc = "copy" /\ work[c].clean /\ calm[c] /\ legacy[work[c].library] # None
    => legacy[work[c].library] \subseteq work[c].texts \cup TextsOf(work[c].library)

MInv == TInv /\ \A c \in Caller : Copied(c)

\* A step leaves the other calls where they are; those it takes a text from
\* are no longer calm.
LEMMA OthersStand ==
  ASSUME TInv, NEW c \in Caller, Step(c), Remember(c), NEW d \in Caller, d # c
  PROVE  /\ work'[d] = work[d]
         /\ calm'[d] /\ work[d] # Idle => calm[d] /\ \A id \in Present : store'[id] # None
  <1>1. work'[d] = work[d]
    <2>1. \A r : Go(c, r) => work'[d] = work[d]
      BY DEF Go, TInv, Typed, CallsOK
    <2>2. \A pc : GoTo(c, pc) => work'[d] = work[d]
      BY DEF GoTo, TInv, Typed, CallsOK
    <2>3. (\E r : Go(c, r)) \/ (\E pc : GoTo(c, pc)) \/ UNCHANGED work
      <3>1. CASE LibraryStep(c)
        BY <3>1 DEF LibraryStep, Begin, Stop, LoadFails, Look, Refresh, Believe, Found, Missing,
           CreateRegister, DropEmpty, DropUnregister, AddPut, Answer, Relook
      <3>2. CASE RebuildStep(c)
        BY <3>2 DEF RebuildStep, Command, ReindexRead, ReindexExport, ReindexRecreate,
           ReindexEmbed, MigrateNext, MigrateScroll, MigrateCopy, MigratePurge, BackupSnapshot,
           BackupFiles, RestoreUnpack, RestoreUpload, Answer
      <3> QED
        BY <3>1, <3>2 DEF Step
    <2> QED
      BY <2>1, <2>2, <2>3
  <1>2. calm'[d] = (work'[d] = Idle \/ (calm[d] /\ (d = c \/ ~((\E id \in Present : store'[id] = None)
                                                             \/ ~(disk \subseteq disk')))))
    BY DEF Remember
  <1> QED
    BY <1>1, <1>2

\* An old collection goes only with a purge, of the library it is at.
LEMMA PurgesOnly ==
  ASSUME TInv, NEW c \in Caller, Step(c), NEW l \in Library, legacy'[l] # legacy[l]
  PROVE  MigratePurge(c) /\ legacy'[l] = None /\ l = work[c].library
  <1>1. legacy \in [Library -> {None} \cup SUBSET Text]
    BY DEF TInv, Typed, TextsOK
  <1>2. MigratePurge(c)
    BY DEF Step, RebuildStep, rebuildVars, Command, ReindexRead, ReindexExport, ReindexRecreate, ReindexEmbed,
       MigrateNext, MigrateScroll, MigrateCopy, BackupSnapshot, BackupFiles, RestoreUnpack, RestoreUpload
  <1>3. legacy' = [legacy EXCEPT ![work[c].library] = None]
    BY <1>2 DEF MigratePurge
  <1> QED
    BY <1>1, <1>2, <1>3

\* Where a call arrives, if it goes on: to copy in one of two ways, and to
\* export and recreate in one each.
LEMMA Arrivals ==
  ASSUME TInv, NEW c \in Caller, Step(c)
  PROVE  /\ work'[c].pc = "copy" => MigrateScroll(c) \/ MigrateCopy(c)
         /\ work'[c].pc \in {"export", "recreate"} => ReindexRead(c) \/ ReindexExport(c)
  <1>1. CallsOK /\ work[c] \in Call
    BY DEF TInv, Typed, CallsOK
  <1>2. ASSUME NEW pc, GoTo(c, pc), work[c].pc # "idle" PROVE work'[c].pc = pc
    <2>1. "pc" \in DOMAIN work[c]
      BY <1>1, <1>2 DEF CallsOK, Call, Idle, Handling, Rebuilding, Migrating, Saving, Restoring
    <2> QED
      BY <1>1, <1>2, <2>1 DEF CallsOK, GoTo
  <1>3. ASSUME NEW r, Go(c, r) PROVE work'[c] = r
    BY <1>1, <1>3 DEF CallsOK, Go
  <1>4. Answer(c) => work'[c].pc = "idle"
    BY <1>3 DEF Answer, Idle
  <1>5. CASE LibraryStep(c) /\ UNCHANGED rebuildVars
    <2>1. PICK r \in Call : Moved(c, r) /\ r.pc \notin {"export", "recreate", "copy"}
      BY <1>5, LibraryDoes DEF TInv, Onward
    <2> QED
      BY <1>1, <2>1, MovedAlone
  <1>6. CASE RebuildStep(c)
    <2>0. /\ work[c].pc = "embed" => work[c] \in Rebuilding
          /\ work[c].pc \in {"next", "scroll", "copy"} => work[c] \in Migrating
          /\ work[c].pc = "snapshot" => work[c] \in Saving
      BY <1>1, PcTells
    <2>1. Command(c) => work'[c].pc \in {"read", "next", "snapshot", "unpack"}
      <3> SUFFICES ASSUME Command(c) PROVE \E r : Go(c, r) /\ r.pc \in {"read", "next", "snapshot", "unpack"}
        BY <1>3
      <3>1. CASE \E purge \in BOOLEAN, library \in Library :
                   Go(c, [op |-> "migrate", pc |-> "next", purge |-> purge, library |-> library,
                          todo |-> {l \in Library : legacy[l] # None}, texts |-> {}, clean |-> TRUE])
        BY <3>1
      <3>2. CASE \/ Go(c, [op |-> "reindex", pc |-> "read", copy |-> Empty])
                 \/ Go(c, [op |-> "backup", pc |-> "snapshot", copy |-> Empty])
                 \/ Go(c, [op |-> "restore", pc |-> "unpack"])
        BY <3>2
      <3> QED
        BY <3>1, <3>2 DEF Command
    <2>2. /\ ReindexRead(c) => work[c].pc = "read"
          /\ ReindexExport(c) => work'[c].pc \in {"recreate", "idle"}
          /\ ReindexRecreate(c) => work'[c].pc \in {"embed", "idle"}
      BY <1>2, <1>4 DEF ReindexRead, ReindexExport, ReindexRecreate, At
    <2>3. ReindexRead(c) => work'[c].pc # "copy"
      <3> SUFFICES ASSUME ReindexRead(c) PROVE work'[c].pc # "copy"
        OBVIOUS
      <3>1. work[c] \in Rebuilding
        BY <1>1, <2>2, PcTells
      <3>2. \/ Answer(c) \/ GoTo(c, "recreate")
            \/ Go(c, [work[c] EXCEPT !.copy = store, !.pc = IF store = Empty THEN "recreate" ELSE "export"])
        BY DEF ReindexRead
      <3> QED
        BY <1>2, <1>3, <1>4, <2>2, <3>1, <3>2 DEF Rebuilding
    <2>4. ReindexEmbed(c) => work'[c].pc \in {"embed", "idle"}
      <3> SUFFICES ASSUME ReindexEmbed(c) PROVE work'[c].pc \in {"embed", "idle"}
        OBVIOUS
      <3>1. Answer(c) \/ \E id \in Id : Go(c, [work[c] EXCEPT !.copy[id] = None])
        BY DEF ReindexEmbed
      <3>2. work[c] \in Rebuilding /\ work[c].pc = "embed"
        BY <2>0 DEF ReindexEmbed, At
      <3>3. \A id \in Id : [work[c] EXCEPT !.copy[id] = None].pc = "embed"
        BY <3>2 DEF Rebuilding
      <3> QED
        BY <1>3, <1>4, <3>1, <3>3
    <2>5. MigrateNext(c) => work'[c].pc \in {"scroll", "idle"}
      <3> SUFFICES ASSUME MigrateNext(c) PROVE work'[c].pc \in {"scroll", "idle"}
        OBVIOUS
      <3>1. work[c] \in Migrating
        BY <2>0 DEF MigrateNext, At
      <3>2. Answer(c) \/ \E library : Go(c, [work[c] EXCEPT !.library = library, !.todo = @ \ {library},
                                                          !.pc = "scroll", !.clean = TRUE])
        BY DEF MigrateNext
      <3>3. \A library : [work[c] EXCEPT !.library = library, !.todo = @ \ {library},
                                        !.pc = "scroll", !.clean = TRUE].pc = "scroll"
        BY <3>1 DEF Migrating
      <3> QED
        BY <1>3, <1>4, <3>2, <3>3
    <2>6. MigrateScroll(c) \/ MigrateCopy(c) => work'[c].pc = "copy"
      <3> SUFFICES ASSUME MigrateScroll(c) \/ MigrateCopy(c) PROVE work'[c].pc = "copy"
        OBVIOUS
      <3>1. work[c] \in Migrating /\ (MigrateCopy(c) => work[c].pc = "copy")
        BY <2>0 DEF MigrateScroll, MigrateCopy, At
      <3>2. MigrateScroll(c) => (\E texts : Go(c, [work[c] EXCEPT !.texts = texts, !.pc = "copy"]))
                                \/ Go(c, [work[c] EXCEPT !.pc = "copy", !.clean = FALSE])
        BY DEF MigrateScroll
      <3>3. MigrateCopy(c) => \E t : \/ Go(c, [work[c] EXCEPT !.texts = @ \ {t}])
                                    \/ Go(c, [work[c] EXCEPT !.texts = @ \ {t}, !.clean = FALSE])
        BY DEF MigrateCopy
      <3>4. CASE MigrateScroll(c)
        BY <1>3, <3>1, <3>2, <3>4 DEF Migrating
      <3>5. CASE MigrateCopy(c)
        BY <1>3, <3>1, <3>3, <3>5 DEF Migrating
      <3> QED
        BY <3>4, <3>5
    <2>7. MigratePurge(c) => work'[c].pc = "next"
      BY <1>2 DEF MigratePurge, At
    <2>8. BackupSnapshot(c) => work'[c].pc = "files"
      BY <1>3, <2>0 DEF BackupSnapshot, At, Saving
    <2>9. BackupFiles(c) \/ RestoreUnpack(c) \/ RestoreUpload(c) => work'[c].pc \in {"upload", "idle"}
      BY <1>2, <1>4 DEF BackupFiles, RestoreUnpack, RestoreUpload, At
    <2> QED
      BY <1>6, <2>1, <2>2, <2>3, <2>4, <2>5, <2>6, <2>7, <2>8, <2>9 DEF RebuildStep
  <1> QED
    BY <1>5, <1>6 DEF Step

LEMMA CopiedKeeps ==
  ASSUME MInv, NEW c \in Caller, Step(c), Remember(c), NEW d \in Caller
  PROVE  Copied(d)'
  <1> SUFFICES ASSUME work'[d].pc = "copy", work'[d].clean, calm'[d], legacy'[work'[d].library] # None
               PROVE  \A t \in legacy'[work'[d].library] :
                        t \in work'[d].texts \/ (t \in Text /\ store'[<<work'[d].library, t>>] # None)
    BY DEF Copied, TextsOf
  <1>1. /\ TInv' /\ TInv /\ CallsOK /\ Copied(d)
        /\ legacy \in [Library -> {None} \cup SUBSET Text] /\ store \in Store
    <2>1. Next
      BY DEF Next
    <2> QED
      BY <2>1, TypedKeeps DEF MInv, TInv, Typed, TextsOK
  <1>2. work'[d] \in Migrating /\ work'[d].library \in Library
    <2>1. work'[d] \in Call
      BY <1>1 DEF TInv, Typed, CallsOK
    <2>2. work'[d] \in Migrating
      BY <2>1, PcTells
    <2> QED
      BY <2>2 DEF Migrating
  <1>3. CASE d # c
    <2>1. work'[d] = work[d] /\ calm[d] /\ \A id \in Present : store'[id] # None
      BY <1>1, <1>3, OthersStand DEF Idle
    <2>2. legacy'[work[d].library] = legacy[work[d].library]
      BY <1>1, <1>2, <2>1, PurgesOnly
    <2>3. legacy[work[d].library] \subseteq work[d].texts \cup TextsOf(work[d].library)
      BY <1>1, <2>1, <2>2 DEF Copied
    <2>4. \A t \in TextsOf(work[d].library) : t \in Text /\ store'[<<work[d].library, t>>] # None
      BY <1>2, <2>1 DEF TextsOf, Present, Id
    <2> QED
      BY <2>1, <2>2, <2>3, <2>4
  <1>4. CASE d = c
    <2>1. UNCHANGED legacy
      BY <1>4, Arrivals, <1>1 DEF MigrateScroll, MigrateCopy, rebuildVars
    <2>2. CASE MigrateScroll(d)
      <3>1. work[d].pc = "scroll" /\ work[d] \in Migrating
        BY <1>1, <2>2, PcTells DEF MigrateScroll, At, CallsOK
      <3> DEFINE texts == IF legacy[work[d].library] = None THEN {} ELSE legacy[work[d].library]
      <3>2. \/ work'[d] = [work[d] EXCEPT !.texts = texts, !.pc = "copy"]
            \/ work'[d] = [work[d] EXCEPT !.pc = "copy", !.clean = FALSE]
        BY <1>1, <2>2 DEF MigrateScroll, Go, CallsOK
      <3>3. work'[d] = [work[d] EXCEPT !.texts = texts, !.pc = "copy"]
        BY <3>1, <3>2 DEF Migrating
      <3>4. work'[d].texts = texts /\ work'[d].library = work[d].library
        BY <3>1, <3>3 DEF Migrating
      <3> QED
        BY <2>1, <3>4
    <2>3. CASE MigrateCopy(d)
      <3>1. work[d].pc = "copy" /\ work[d] \in Migrating /\ work[d].library \in Library
            /\ work[d].texts \subseteq Text
        BY <1>1, <2>3, PcTells DEF MigrateCopy, At, CallsOK, Migrating
      <3>2. PICK t \in work[d].texts :
              \/ /\ store' = [store EXCEPT ![<<work[d].library, t>>] = "live"]
                 /\ work'[d] = [work[d] EXCEPT !.texts = @ \ {t}]
              \/ work'[d] = [work[d] EXCEPT !.texts = @ \ {t}, !.clean = FALSE]
        BY <1>1, <2>3 DEF MigrateCopy, Go, CallsOK
      <3>3. store' = [store EXCEPT ![<<work[d].library, t>>] = "live"]
            /\ work'[d] = [work[d] EXCEPT !.texts = @ \ {t}]
        BY <3>1, <3>2 DEF Migrating
      <3>4. work'[d].texts = work[d].texts \ {t} /\ work'[d].library = work[d].library
            /\ work'[d].clean = work[d].clean
        BY <3>1, <3>3 DEF Migrating
      <3>5. calm[d]
        BY <1>1, <1>4, <3>1 DEF Remember, Idle, TInv, Typed, HistoryOK
      <3>6. legacy[work[d].library] \subseteq work[d].texts \cup TextsOf(work[d].library)
        BY <1>1, <2>1, <3>1, <3>4, <3>5 DEF Copied
      <3>7. \A u \in TextsOf(work[d].library) \cup {t} :
              u \in Text /\ store'[<<work[d].library, u>>] # None
        <4>1. <<work[d].library, t>> \in Id /\ t \in Text
          BY <3>1 DEF Id
        <4>2. \A id \in Id : store[id] # None \/ id = <<work[d].library, t>> => store'[id] # None
          BY <1>1, <3>3, <4>1, LibrariesAssumption DEF Store, Kind
        <4> QED
          BY <3>1, <4>1, <4>2 DEF TextsOf, Id
      <3> QED
        BY <2>1, <3>4, <3>6, <3>7
    <2> QED
      BY <1>1, <1>4, <2>2, <2>3, Arrivals
  <1> QED
    BY <1>3, <1>4

LEMMA MigrationKeeps == MInv /\ [Next]_vars => MInv'
  <1> SUFFICES ASSUME MInv, [Next]_vars PROVE MInv'
    OBVIOUS
  <1>1. TInv'
    BY TypedKeeps DEF MInv
  <1>2. CASE Next
    BY <1>1, <1>2, CopiedKeeps DEF Next, MInv
  <1>3. CASE UNCHANGED vars
    BY <1>1, <1>3 DEF vars, libraryVars, rebuildVars, MInv, Copied, TextsOf
  <1> QED
    BY <1>2, <1>3

\* MigrateKeepsText: for any number of processes, whatever they do, and any old
\* collections: a migration in which nothing failed and under which nobody
\* dropped anything deletes an old collection only when all its texts are in
\* the store.
THEOREM MigrationLosesNothing == Spec => MigrateKeepsText
  <1>1. Init => MInv
    <2> SUFFICES ASSUME Init PROVE MInv
      OBVIOUS
    <2>1. TInv
      BY InitHolds, TypedInit DEF TInv
    <2> QED
      BY <2>1 DEF MInv, Copied, Init, LibraryInit, Idle
  <1> DEFINE Keeps == \A c \in Caller, l \in Library :
                        /\ work[c].op = "migrate" /\ work[c].clean /\ calm[c]
                        /\ legacy[l] # None /\ legacy'[l] = None /\ work'[c] # work[c]
                        => legacy[l] \subseteq TextsOf(l)
  <1>2. MInv /\ [Next]_vars => Keeps
    <2> SUFFICES ASSUME MInv, [Next]_vars, NEW c \in Caller, NEW l \in Library,
                        work[c].clean, calm[c], legacy[l] # None, legacy'[l] = None,
                        work'[c] # work[c]
                 PROVE  legacy[l] \subseteq TextsOf(l)
      OBVIOUS
    <2>1. TInv /\ Copied(c)
      BY DEF MInv
    <2>2. Next
      BY DEF vars, libraryVars
    <2>3. PICK d \in Caller : Step(d) /\ Remember(d)
      BY <2>2 DEF Next
    <2>4. d = c
      BY <2>1, <2>3, OthersStand
    <2>5. MigratePurge(c) /\ l = work[c].library
      BY <2>1, <2>3, <2>4, PurgesOnly
    <2>6. work[c].pc = "copy" /\ work[c].texts = {}
      BY <2>5 DEF MigratePurge, At
    <2> QED
      BY <2>1, <2>5, <2>6 DEF Copied
  <1>3. MInv /\ [Next]_vars => [Keeps]_vars
    BY <1>2
  <1> HIDE DEF Keeps
  <1>4. Spec => [][Keeps]_vars
    BY <1>1, <1>3, MigrationKeeps, PTL DEF Spec
  <1> QED
    BY <1>4 DEF Keeps, MigrateKeepsText

-----------------------------------------------------------------------------
(* Reindex.  What was read is in the store until the export has it, and in *)
(* the export from then on: a reindex that finds no memories has read none.*)

\* One person reindexes at a time.
OneReindex == \A c, d \in Caller : work[c].op = "reindex" /\ work[d].op = "reindex" => c = d

Saved ==
  /\ owed \subseteq Present \cup Exported
  /\ \A c \in Caller :
       /\ work[c].pc = "export" => owed \subseteq Present
       /\ work[c].pc = "recreate" => owed \subseteq Exported

Owing == ~blind => Saved

OInv == TInv /\ Owing

\* Who is at a step of a reindex is reindexing.
LEMMA ReindexingTells ==
  ASSUME TInv, NEW c \in Caller, work[c].pc \in {"read", "export", "recreate", "embed"}
  PROVE  work[c] \in Rebuilding /\ work[c].op = "reindex"
  BY PcTells DEF TInv, Typed, CallsOK, Rebuilding

\* What a step does to what is owed, but for the read that sets it anew.
LEMMA OwedShrinks ==
  ASSUME NEW c \in Caller, Remember(c), ~(work[c].pc = "read" /\ work'[c] # Idle)
  PROVE  owed' \subseteq owed /\ UNCHANGED blind
         /\ (work[c].pc \in {"empty", "upload"} => \A id \in owed' \cap Present : store'[id] # None)
  <1>1. owed' = owed \ Dropped(c) /\ UNCHANGED blind
    BY DEF Remember
  <1> QED
    BY <1>1 DEF Dropped, Present

\* A read that is answered with memories leads to their export, and an export
\* that is written to the drop of the collection.
LEMMA ReadLeads ==
  ASSUME TInv, NEW c \in Caller, ReindexRead(c), work'[c] # Idle, faults' = faults
  PROVE  /\ UNCHANGED <<store, exported>>
         /\ store # Empty => work'[c].pc = "export"
  <1>1. CallsOK /\ work[c] \in Rebuilding
    BY ReindexingTells DEF ReindexRead, At, TInv, Typed
  <1>2. ~Answer(c)
    BY <1>1 DEF Answer, Go, CallsOK
  <1>5. ~Fails("read")
    BY LibrariesAssumption DEF Fails, TInv, Typed, BoundsOK
  <1>3. Go(c, [work[c] EXCEPT !.copy = store, !.pc = IF store = Empty THEN "recreate" ELSE "export"])
    BY <1>2, <1>5 DEF ReindexRead
  <1>4. store # Empty => work'[c].pc = "export"
    BY <1>1, <1>3 DEF Go, CallsOK, Rebuilding
  <1> QED
    BY <1>2, <1>4 DEF ReindexRead, rebuildVars

LEMMA ExportLeads ==
  ASSUME TInv, NEW c \in Caller, ReindexExport(c)
  PROVE  /\ UNCHANGED store
         /\ work'[c].pc = "recreate" =>
              exported' = [l \in Library |-> IF TextsOf(l) = {} THEN exported[l] ELSE TextsOf(l)]
         /\ work'[c].pc # "export"
  <1>1. CallsOK /\ work[c] \in Rebuilding
    BY ReindexingTells DEF ReindexExport, At, TInv, Typed
  <1>2. Answer(c) => work'[c].pc = "idle"
    BY <1>1 DEF Answer, Go, CallsOK, Idle
  <1>3. GoTo(c, "recreate") => work'[c].pc = "recreate"
    BY <1>1 DEF GoTo, CallsOK, Rebuilding
  <1> QED
    BY <1>2, <1>3 DEF ReindexExport

\* The exports change only with an export.
LEMMA ExportsOnly ==
  ASSUME NEW c \in Caller, Step(c), ~ReindexExport(c)
  PROVE  UNCHANGED exported
  BY DEF Step, RebuildStep, rebuildVars, Command, ReindexRead, ReindexRecreate, ReindexEmbed, MigrateNext,
     MigrateScroll, MigrateCopy, MigratePurge, BackupSnapshot, BackupFiles, RestoreUnpack, RestoreUpload

\* At the read, a step that goes on is the read's, and at the drop of the
\* collection the drop's; else the call is stopped.
LEMMA ReadsOnly ==
  ASSUME NEW c \in Caller, Step(c), TInv
  PROVE  /\ work[c].pc = "read" /\ work'[c] # Idle => ReindexRead(c)
         /\ work[c].pc = "recreate" => ReindexRecreate(c) \/ UNCHANGED store
  <1>1. Stop(c) => UNCHANGED store /\ work'[c] = Idle
    BY DEF Stop, Answer, Go, TInv, Typed, CallsOK
  <1>2. Starts(c) => work[c].pc = "idle"
    BY DEF Starts, Idle
  <1>3. LibraryStep(c) => Stop(c) \/ work[c].pc \notin {"read", "recreate"}
    BY <1>2 DEF LibraryStep, Begin, LoadFails, Look, Refresh, Believe, CreateRegister, DropEmpty,
       DropUnregister, AddPut, At
  <1> QED
    BY <1>1, <1>2, <1>3 DEF Step, RebuildStep, Command, ReindexRead, ReindexExport, ReindexRecreate, ReindexEmbed,
       MigrateNext, MigrateScroll, MigrateCopy, MigratePurge, BackupSnapshot, BackupFiles,
       RestoreUnpack, RestoreUpload, At

LEMMA OwingKeeps ==
  ASSUME OInv, OneReindex, OneReindex', NEW c \in Caller, Step(c), Remember(c)
  PROVE  Owing'
  <1>1. TInv /\ Owing /\ TInv' /\ Spares(c) /\ CallsOK /\ work[c] \in Call
    <2>1. Next
      BY DEF Next
    <2> QED
      BY <2>1, TypedKeeps, StepDoes DEF OInv, TInv, Typed, CallsOK
  <1>2. \A d \in Caller : d # c => work'[d] = work[d]
    BY <1>1, OthersStand
  <1>3. \A d \in Caller : d # c /\ work[d].pc \in {"read", "export", "recreate", "embed"} =>
          work[c].pc \notin {"read", "export", "recreate", "embed"}
    BY <1>1, ReindexingTells DEF OneReindex
  <1>8. CASE work[c].pc = "read" /\ work'[c] # Idle /\ faults' # faults
    BY <1>8 DEF Remember, Owing
  <1>9. ~(work[c].pc = "read" /\ work'[c] # Idle) /\ ~blind' => Saved
    BY <1>1, OwedShrinks DEF Owing
  <1> SUFFICES ASSUME ~blind' PROVE Saved'
    BY DEF Owing
  <1>4. CASE work[c].pc = "read" /\ work'[c] # Idle /\ faults' = faults
    <2>1. ReindexRead(c) /\ owed' = Present
      BY <1>1, <1>4, ReadsOnly DEF Remember
    <2>2. UNCHANGED <<store, exported>> /\ (store # Empty => work'[c].pc = "export")
      BY <1>1, <1>4, <2>1, ReadLeads
    <2>3. store = Empty => Present = {}
      BY DEF Empty, Present
    <2> QED
      BY <1>2, <1>3, <1>4, <2>1, <2>2, <2>3 DEF Saved, Present
  <1>5. CASE ReindexExport(c)
    <2>0. work[c].pc = "export"
      BY <1>5 DEF ReindexExport, At
    <2>7. owed' \subseteq owed /\ Saved
      BY <1>9, <2>0, OwedShrinks
    <2>1. work[c].pc = "export" /\ owed' \subseteq Present
      BY <2>0, <2>7 DEF Saved
    <2>2. /\ UNCHANGED store /\ work'[c].pc # "export"
          /\ work'[c].pc = "recreate" =>
               exported' = [l \in Library |-> IF TextsOf(l) = {} THEN exported[l] ELSE TextsOf(l)]
      BY <1>1, <1>5, ExportLeads
    <2>3. work'[c].pc = "recreate" => Present \subseteq Exported'
      BY <2>2 DEF Present, Exported, TextsOf, Id
    <2>4. owed' \subseteq Present'
      BY <2>1, <2>2 DEF Present
    <2>5. \A d \in Caller : work'[d].pc = "recreate" => d = c
      BY <1>2, <1>3, <2>1
    <2>6. \A d \in Caller : work'[d].pc = "recreate" => owed' \subseteq Exported'
      BY <2>1, <2>3, <2>5
    <2> QED
      BY <2>4, <2>6 DEF Saved
  <1>6. CASE ReindexRecreate(c)
    <2>1. work[c].pc = "recreate" /\ owed \subseteq Exported
      BY <1>1, <1>6, <1>9 DEF ReindexRecreate, At, Saved
    <2>2. UNCHANGED exported /\ owed' \subseteq owed
      BY <1>6, <2>1, OwedShrinks DEF ReindexRecreate, rebuildVars
    <2>3. owed' \subseteq Exported'
      BY <2>1, <2>2 DEF Exported
    <2>4. work'[c].pc # "export"
      <3>1. Answer(c) \/ GoTo(c, "embed")
        BY <1>6 DEF ReindexRecreate
      <3>2. work[c] \in Rebuilding
        BY <1>1, <2>1, ReindexingTells
      <3> QED
        BY <1>1, <3>1, <3>2 DEF Answer, Go, GoTo, Idle, CallsOK, Rebuilding
    <2>5. \A d \in Caller : work'[d].pc # "export"
      BY <1>2, <1>3, <2>1, <2>4
    <2> QED
      BY <2>3, <2>5 DEF Saved
  <1>7. CASE /\ ~(work[c].pc = "read" /\ work'[c] # Idle)
             /\ ~ReindexExport(c) /\ ~ReindexRecreate(c)
    <2>1. owed' \subseteq owed /\ UNCHANGED exported
      BY <1>7, OwedShrinks, ExportsOnly
    <2>2. \A id \in owed' \cap Present : work[c].pc # "recreate" => store'[id] # None
      BY <1>1, <1>7, OwedShrinks DEF Spares
    <2>3. work[c].pc = "recreate" => UNCHANGED store
      BY <1>1, <1>7, ReadsOnly
    <2>4. ~(work'[c].pc \in {"export", "recreate"})
      <3> SUFFICES ASSUME work'[c].pc \in {"export", "recreate"} PROVE FALSE
        OBVIOUS
      <3>1. ReindexRead(c) /\ work'[c] # Idle
        BY <1>1, <1>7, Arrivals DEF Idle
      <3> QED
        BY <1>7, <3>1 DEF ReindexRead, At
    <2>5. \A id \in owed' \cap Present : store'[id] # None
      BY <2>2, <2>3 DEF Present
    <2>6. owed' \subseteq Present' \cup Exported'
      BY <1>7, <1>9, <2>1, <2>5 DEF Saved, Present, Exported
    <2>7. ASSUME NEW d \in Caller
          PROVE  /\ work'[d].pc = "export" => owed' \subseteq Present'
                 /\ work'[d].pc = "recreate" => owed' \subseteq Exported'
      <3>1. work'[d].pc \in {"export", "recreate"} => work'[d] = work[d]
        BY <1>2, <2>4
      <3>2. /\ work[d].pc = "export" => owed \subseteq Present
            /\ work[d].pc = "recreate" => owed \subseteq Exported
        BY <1>7, <1>9 DEF Saved
      <3> QED
        BY <2>1, <2>5, <3>1, <3>2 DEF Present, Exported
    <2> QED
      BY <2>6, <2>7 DEF Saved
  <1> QED
    BY <1>4, <1>5, <1>6, <1>7, <1>8 DEF Owing

LEMMA ReindexKeeps == OInv /\ [Next]_vars /\ OneReindex /\ OneReindex' => OInv'
  <1> SUFFICES ASSUME OInv, [Next]_vars, OneReindex, OneReindex' PROVE OInv'
    OBVIOUS
  <1>1. TInv'
    BY TypedKeeps DEF OInv
  <1>2. CASE Next
    BY <1>1, <1>2, OwingKeeps DEF Next, OInv
  <1>3. CASE UNCHANGED vars
    BY <1>1, <1>3 DEF vars, libraryVars, rebuildVars, OInv, Owing, Saved, Present, Exported
  <1> QED
    BY <1>2, <1>3

\* ReindexKeepsText: for any number of processes, whatever they write, drop,
\* migrate and restore meanwhile: as long as one person reindexes at a time,
\* every text a reindex found is in the store or in the export, wherever it
\* stops or fails, but in its first look at the collection.
THEOREM ReindexLosesNothing == Spec /\ []OneReindex => []ReindexKeepsText
  <1>1. Init => OInv
    <2> SUFFICES ASSUME Init PROVE OInv
      OBVIOUS
    <2>1. TInv
      BY InitHolds, TypedInit DEF TInv
    <2> QED
      BY <2>1 DEF OInv, Owing, Saved, Init, LibraryInit, Idle
  <1>2. OInv => ReindexKeepsText
    BY DEF OInv, Owing, Saved, ReindexKeepsText
  <1> QED
    BY <1>1, <1>2, ReindexKeeps, PTL DEF Spec

=============================================================================
