--------------------------- MODULE HelpersProofs ---------------------------
(***************************************************************************)
(* The processes beside the servers and what they need, for any number of  *)
(* servers and terminals, chunks, polls and faults, whatever is installed  *)
(* at first: an inductive invariant for each of the four components.       *)
(***************************************************************************)
EXTENDS Helpers, SequenceTheorems, TLAPS

-----------------------------------------------------------------------------
(* The commands in hand.                                                   *)

DaemonWork ==
  [op : {"start"}, pc : {"look", "spawn"}] \cup [op : {"start"}, pc : {"pid"}, pid : Nat]
    \cup [op : {"start"}, pc : {"poll"}, polls : Nat]
    \cup [op : {"stop"}, pc : {"look"}] \cup [op : {"stop"}, pc : {"kill", "remove"}, pid : Nat]
InstallWork ==
  [op : {"install"}, pc : {"look", "clean", "unpack", "mark", "model"}]
    \cup [op : {"install"}, pc : {"move"}, left : SUBSET Part] \cup [op : {"uninstall"}, pc : {"remove"}]
\* Of what a stage fetches, the files that are left.
All(stage) == Fetches[Stages[stage]]
Todo(stage) == {<< >>} \cup (IF stage \in 1 .. 4 THEN {All(stage), Tail(All(stage))} ELSE {})
DoctorPcs == {"check", "file", "arrive", "create", "copy"}
DoctorRecord ==
  [op : {"doctor"}, pc : DoctorPcs, stage : 1 .. 5, variant : Variant,
   todo : UNION {Todo(i) : i \in 1 .. 5}, forced : BOOLEAN, got : Content \ {"cut"}]
DoctorWork ==
  {d \in DoctorRecord :
     /\ d.todo \in Todo(d.stage)
     /\ d.pc \in {"arrive", "create", "copy"} => d.todo # << >>
     /\ d.pc \in {"create", "copy"} => Head(d.todo) \in Archived
     /\ d.pc # "check" => d.stage # 5}

Commands == {Idle} \cup DaemonWork \cup InstallWork \cup DoctorWork
Doctoring(u) == work[u].op = "doctor"

\* One person installs or removes the extractor at a time, and so with doctor.
WorkOK ==
  /\ work \in [User -> Commands] /\ faults \in Nat
  /\ \A u, v \in User : (Installing(u) \/ Doctoring(u)) /\ (Installing(v) \/ Doctoring(v)) => u = v
  /\ \A s \in Server : ~Installing(s) /\ ~Doctoring(s) /\ (life[s] # "up" => work[s] = Idle)

-----------------------------------------------------------------------------
(* The vector store.  As long as starts and stops come one after the other,*)
(* the only process that was not told to end is the one the pid file names,*)
(* or is about to name.                                                    *)

DaemonOK ==
  /\ stores \in Seq(StoreStatus) /\ pidFile \in {None} \cup DOMAIN stores /\ orderly \in BOOLEAN
  /\ \A u \in User :
       At(u, "start", "pid") \/ At(u, "stop", "kill") => work[u].pid \in DOMAIN stores

OneDaemonic == \A u, v \in User : Daemonic(u) /\ Daemonic(v) => u = v
NeededIsNamed ==
  \A i \in DOMAIN stores :
    Needed(i) => pidFile = i \/ \E u \in User : At(u, "start", "pid") /\ work[u].pid = i
\* What a start or a stop in hand has found out still holds.
FoundHolds ==
  \A u \in User :
    /\ At(u, "stop", "kill") => work[u].pid = pidFile
    /\ \A i \in DOMAIN stores :
         /\ At(u, "start", "look") => stores[i] # "loading"
         /\ At(u, "start", "spawn") \/ At(u, "stop", "remove") => ~Needed(i)
         /\ At(u, "start", "pid") /\ Needed(i) => work[u].pid = i
DaemonInv == DaemonOK /\ (orderly => OneDaemonic /\ NeededIsNamed /\ FoundHolds)

-----------------------------------------------------------------------------
(* The extractor's files.                                                  *)

InstallOK == disk \subseteq Files /\ installed \in BOOLEAN /\ wrecked \in BOOLEAN

\* What an install in hand has found or made.
MakingOK ==
  \A u \in User : work[u].op = "install" =>
    /\ work[u].pc \in {"clean", "unpack", "move", "mark"} => ~There("sentinel")
    /\ work[u].pc = "move" => Part \ work[u].left \subseteq disk
    /\ work[u].pc = "mark" => Part \subseteq disk
    /\ work[u].pc = "model" => There("sentinel")
InstallInv == InstallOK /\ MakingOK /\ InstalledIsWhole

-----------------------------------------------------------------------------
(* The extractor's process.                                                *)

WorkerState ==
  {Resting} \cup [pc : {"peek", "binary", "model", "spawn", "add"}, chunk : Chunk]
    \cup [pc : {"hold"}, chunk : Chunk, child : Nat]
    \cup [pc : {"poll"}, chunk : Chunk, child : Nat, polls : Nat]
    \cup [pc : {"ask"}, chunk : Chunk, child : Nat, asked : 1 .. 2]
ExtractorOK == ExtractorTypeOK /\ worker \in [Server -> WorkerState]

\* While a child is being started there is none in the slot, and none that lives.
Starting(s) == worker[s].pc \in {"binary", "model", "spawn", "hold"}
SlotOf(s) ==
  /\ Starting(s) => slot[s] = None
  /\ worker[s].pc = "hold" => worker[s].child \in DOMAIN children
  /\ \A i \in Mine(s) : IF worker[s].pc = "hold" THEN i = worker[s].child ELSE i = slot[s]
SlotOK == \A s \in Server : SlotOf(s)
ExtractorInv == ExtractorOK /\ SlotOK

-----------------------------------------------------------------------------
(* What doctor fetches.                                                    *)

InModel(u) == Doctoring(u) /\ work[u].stage = 3 /\ work[u].pc # "check"
PinnedModel == "model.onnx" \in pinned

\* Between two fetches of a model, the marker names it.
Agreed ==
  IF marker = None THEN have["model.onnx"] = None ELSE PinnedModel => have["model.onnx"] = marker
ModelInHand(u) ==
  IF work[u].todo = All(3)
  THEN work[u].pc = "file" => Agreed /\ (work[u].forced <=> marker \notin {None, work[u].variant})
  ELSE PinnedModel => have["model.onnx"] = work[u].variant

PinnedOK == \A file \in pinned \ Archived : have[file] \in {None, "meant"} \cup Variant
CutOK ==
  \A file \in Fetched : have[file] = "cut" =>
    \E u \in User : At(u, "doctor", "copy") /\ Head(work[u].todo) = file
ModelOK ==
  /\ (\A u \in User : ~InModel(u)) => Agreed
  /\ \A u \in User : InModel(u) => ModelInHand(u)
DownloadsInv == DownloadsTypeOK /\ PinnedOK /\ (~astray => CutOK /\ ModelOK)

-----------------------------------------------------------------------------

IInv ==
  /\ scene \in Scenes /\ calls \in Nat
  /\ WorkOK /\ DaemonInv /\ InstallInv /\ ExtractorInv /\ DownloadsInv

-----------------------------------------------------------------------------
(* Commands.                                                               *)

LEMMA Ops ==
  ASSUME NEW c \in Commands
  PROVE  /\ c.op \in {"none", "start", "stop", "install", "uninstall", "doctor"}
         /\ c.op = "none" => c = Idle
         /\ c.op \in {"start", "stop"} => c \in DaemonWork
         /\ c.op \in {"install", "uninstall"} => c \in InstallWork
         /\ c.op = "doctor" => c \in DoctorWork
  BY DEF Commands, DaemonWork, InstallWork, DoctorWork, DoctorRecord, Idle

\* u goes on with a command of the kind it had, or has none.
LEMMA WorkSet ==
  ASSUME WorkOK, NEW u \in User, NEW c \in Commands, work' = [work EXCEPT ![u] = c], faults' \in Nat,
         c.op \in {"install", "uninstall", "doctor"} => Installing(u) \/ Doctoring(u),
         \A s \in Server : life'[s] # "up" => work'[s] = Idle
  PROVE  WorkOK'
  <1>1. work' \in [User -> Commands]
    BY DEF WorkOK
  <1>2. \A v \in User : (Installing(v) \/ Doctoring(v))' => Installing(v) \/ Doctoring(v)
    BY DEF WorkOK, Installing, Doctoring
  <1>3. Server \subseteq User
    BY DEF User
  <1> QED
    BY <1>1, <1>2, <1>3 DEF WorkOK

\* A step of u's command.
Turn(u) == work' = [work EXCEPT ![u] = work'[u]]
DaemonTurn(u) == Turn(u) /\ Daemonic(u) /\ (Daemonic(u)' \/ work'[u] = Idle)
InstallTurn(u) == Turn(u) /\ Installing(u) /\ (Installing(u)' \/ work'[u] = Idle)
DoctorTurn(u) == Turn(u) /\ Doctoring(u) /\ (Doctoring(u)' \/ work'[u] = Idle)

LEMMA TurnKeepsWork ==
  ASSUME WorkOK, NEW u \in User, Turn(u), work'[u] \in Commands, UNCHANGED <<life, faults>>,
         DaemonTurn(u) \/ InstallTurn(u) \/ DoctorTurn(u)
  PROVE  WorkOK'
  <1>1. work'[u].op \in {"install", "uninstall", "doctor"} => Installing(u) \/ Doctoring(u)
    BY DEF DaemonTurn, InstallTurn, DoctorTurn, Installing, Doctoring, Daemonic, Idle
  <1>2. ASSUME NEW s \in Server, life[s] # "up"
        PROVE  work'[s] = Idle
    <2>1. work[s] = Idle
      BY <1>2 DEF WorkOK
    <2>2. s # u
      BY <2>1 DEF DaemonTurn, InstallTurn, DoctorTurn, Installing, Doctoring, Daemonic, Idle
    <2>3. s \in User
      BY DEF User
    <2> QED
      BY <2>1, <2>2, <2>3 DEF Turn, WorkOK
  <1>3. faults' \in Nat
    BY DEF WorkOK
  <1> QED
    BY <1>1, <1>2, <1>3, WorkSet DEF Turn

-----------------------------------------------------------------------------
(* The vector store.                                                       *)

LEMMA StoreFacts ==
  ASSUME DaemonOK
  PROVE  /\ DOMAIN stores = 1 .. Len(stores) /\ Len(stores) \in Nat
         /\ \A i \in DOMAIN stores : stores[i] \in StoreStatus
         /\ None \notin DOMAIN stores
  BY LenProperties, ElementOfSeq, DaemonAssumption DEF DaemonOK

\* Others start, stop or die: nothing of the store.
DaemonFrame ==
  /\ UNCHANGED daemonVars
  /\ \A u \in User : Daemonic(u) \/ Daemonic(u)' => work'[u] = work[u]

LEMMA DaemonFrameHolds ==
  ASSUME DaemonInv, DaemonFrame
  PROVE  DaemonInv'
  <1>1. DaemonOK'
    BY DEF DaemonInv, DaemonOK, DaemonFrame, daemonVars, At, Daemonic
  <1>2. \A u \in User : Daemonic(u)' => Daemonic(u) /\ work'[u] = work[u]
    BY DEF DaemonFrame, Daemonic
  <1>3. ASSUME orderly, OneDaemonic PROVE OneDaemonic'
    BY <1>2, <1>3 DEF OneDaemonic
  <1>4. ASSUME orderly, NeededIsNamed PROVE NeededIsNamed'
    BY <1>4 DEF NeededIsNamed, DaemonFrame, daemonVars, At, Daemonic, Needed
  <1>5. ASSUME orderly, FoundHolds PROVE FoundHolds'
    BY <1>5, <1>2 DEF FoundHolds, DaemonFrame, daemonVars, At, Daemonic, Needed
  <1>6. orderly' = orderly
    BY DEF DaemonFrame, daemonVars
  <1> QED
    BY <1>1, <1>3, <1>4, <1>5, <1>6 DEF DaemonInv


LEMMA DaemonTurns ==
  ASSUME WorkOK, DaemonOK, NEW u \in User, DaemonStep(u)
  PROVE  DaemonTurn(u) /\ work'[u] \in Commands /\ UNCHANGED <<calls, faults>>
  <1>0. work \in [User -> Commands] /\ work[u] \in Commands /\ MaxPolls \in Nat
    BY DaemonAssumption DEF WorkOK
  <1>1. work[u].op \in {"start", "stop"}
    BY DEF DaemonStep, StartLook, StartSpawn, StartPid, StartPidFails, StartPoll, StartGivesUp, StopLook, StopKill, StopKillFails, StopRemove, At
  <1>2. Daemonic(u) /\ work[u] \in DaemonWork
    BY <1>0, <1>1, Ops DEF Daemonic
  <1>3. ASSUME NEW c \in {Idle} \cup DaemonWork, Go(u, c)
        PROVE  DaemonTurn(u) /\ work'[u] \in Commands /\ UNCHANGED <<calls, faults>>
    <2>1. work'[u] = c /\ Turn(u)
      BY <1>0, <1>3 DEF Go, Turn
    <2>2. c \in Commands /\ (c = Idle \/ c.op \in {"start", "stop"})
      BY DEF Commands, DaemonWork
    <2> QED
      BY <1>2, <1>3, <2>1, <2>2 DEF DaemonTurn, Daemonic, Go
  <1>4. CASE StartLook(u)
    <2>1. [work[u] EXCEPT !.pc = "spawn"] \in DaemonWork
      BY <1>2, <1>4 DEF StartLook, At, DaemonWork
    <2> QED
      BY <2>1, <1>3, <1>4 DEF StartLook, GoTo, Answer
  <1>5. CASE StartSpawn(u)
    <2>1. [op |-> "start", pc |-> "pid", pid |-> Len(stores) + 1] \in DaemonWork
      BY StoreFacts DEF DaemonWork
    <2> QED
      BY <2>1, <1>3, <1>5 DEF StartSpawn, Answer
  <1>6. CASE StartPid(u)
    <2>1. [op |-> "start", pc |-> "poll", polls |-> 0] \in DaemonWork
      BY DEF DaemonWork
    <2> QED
      BY <2>1, <1>3, <1>6 DEF StartPid
  <1>7. CASE StartPoll(u) \/ StartGivesUp(u)
    <2>0. work[u] \in [op : {"start"}, pc : {"poll"}, polls : Nat]
      BY <1>2, <1>7 DEF StartPoll, StartGivesUp, At, DaemonWork
    <2>1. [work[u] EXCEPT !.polls = work[u].polls + 1] \in [op : {"start"}, pc : {"poll"}, polls : Nat]
      BY <2>0
    <2>2. [work[u] EXCEPT !.polls = work[u].polls + 1] \in DaemonWork
      BY <2>1 DEF DaemonWork
    <2> QED
      BY <2>2, <1>3, <1>7 DEF StartPoll, StartGivesUp, Answer
  <1>8. CASE StopLook(u)
    <2>1. pidFile # None => [op |-> "stop", pc |-> "kill", pid |-> pidFile] \in DaemonWork
      BY StoreFacts DEF DaemonWork, DaemonOK
    <2> QED
      BY <2>1, <1>3, <1>8 DEF StopLook, Answer
  <1>9. CASE StopKill(u) \/ StopKillFails(u)
    <2>0. work[u] \in [op : {"stop"}, pc : {"kill", "remove"}, pid : Nat]
      BY <1>2, <1>9 DEF StopKill, StopKillFails, At, DaemonWork
    <2>1. [work[u] EXCEPT !.pc = "remove"] \in [op : {"stop"}, pc : {"kill", "remove"}, pid : Nat]
      BY <2>0
    <2>2. [work[u] EXCEPT !.pc = "remove"] \in DaemonWork
      BY <2>1 DEF DaemonWork
    <2> QED
      BY <2>2, <1>3, <1>9 DEF StopKill, StopKillFails, GoTo
  <1>10. CASE StopRemove(u) \/ StartPidFails(u)
    BY <1>3, <1>10 DEF StopRemove, StartPidFails, Answer
  <1> QED
    BY <1>4, <1>5, <1>6, <1>7, <1>8, <1>9, <1>10 DEF DaemonStep

\* In orderly times no one else's start or stop is in hand.
LEMMA Alone ==
  ASSUME WorkOK, OneDaemonic, NEW u \in User, DaemonTurn(u)
  PROVE  OneDaemonic' /\ \A v \in User : v # u => ~Daemonic(v) /\ work'[v] = work[v] /\ ~Daemonic(v)'
  BY DEF OneDaemonic, DaemonTurn, Turn, WorkOK, Daemonic

LEMMA DaemonTypes ==
  ASSUME WorkOK, DaemonOK, NEW u \in User, DaemonStep(u)
  PROVE  DaemonOK'
  <1>0. work \in [User -> Commands] /\ DOMAIN stores = 1 .. Len(stores) /\ Len(stores) \in Nat
    BY StoreFacts DEF WorkOK
  <1>1. DaemonTurn(u)
    BY DaemonTurns
  <1>2. \A v \in User : v # u => work'[v] = work[v]
    BY <1>0, <1>1 DEF DaemonTurn, Turn
  <1>3. CASE StartLook(u) \/ StartPoll(u) \/ StartGivesUp(u) \/ StopLook(u)
    <2>0. UNCHANGED daemonVars /\ work[u] \in Commands
      BY <1>0, <1>3 DEF StartLook, StartPoll, StartGivesUp, StopLook
    <2>1. CASE StartLook(u)
      <3>1. work[u] \in [op : {"start"}, pc : {"look", "spawn"}]
        BY <2>0, <2>1, Ops DEF StartLook, At, DaemonWork
      <3>2. work'[u] = Idle \/ work'[u] = [work[u] EXCEPT !.pc = "spawn"]
        BY <1>0, <2>1 DEF StartLook, Go, GoTo, Answer
      <3> QED
        BY <1>2, <2>0, <3>1, <3>2 DEF DaemonOK, daemonVars, At, Idle
    <2>2. CASE StartPoll(u) \/ StartGivesUp(u)
      <3>1. work[u] \in [op : {"start"}, pc : {"poll"}, polls : Nat]
        BY <2>0, <2>2, Ops DEF StartPoll, StartGivesUp, At, DaemonWork
      <3>2. work'[u] = Idle \/ work'[u] = [work[u] EXCEPT !.polls = work[u].polls + 1]
        BY <1>0, <2>2 DEF StartPoll, StartGivesUp, Go, Answer
      <3> QED
        BY <1>2, <2>0, <3>1, <3>2 DEF DaemonOK, daemonVars, At, Idle
    <2>3. CASE StopLook(u)
      <3>1. work'[u] = Idle \/ (pidFile # None /\ work'[u] = [op |-> "stop", pc |-> "kill", pid |-> pidFile])
        BY <1>0, <2>3 DEF StopLook, Go, Answer
      <3> QED
        BY <1>2, <2>0, <3>1 DEF DaemonOK, daemonVars, At, Idle
    <2> QED
      BY <1>3, <2>1, <2>2, <2>3
  <1>4. CASE StartSpawn(u) /\ UNCHANGED stores /\ Answer(u)
    BY <1>0, <1>2, <1>4 DEF StartSpawn, Answer, Go, DaemonOK, At, Idle
  <1>8. CASE StartSpawn(u) /\ ~UNCHANGED stores
    <2>0. stores' = Append(stores, "loading") /\ Go(u, [op |-> "start", pc |-> "pid", pid |-> Len(stores) + 1])
      BY <1>8 DEF StartSpawn
    <2>1. stores' \in Seq(StoreStatus) /\ Len(stores') = Len(stores) + 1 /\ DOMAIN stores' = 1 .. Len(stores) + 1
      BY <2>0, AppendProperties, LenProperties DEF DaemonOK, StoreStatus
    <2>2. work'[u] = [op |-> "start", pc |-> "pid", pid |-> Len(stores) + 1] /\ UNCHANGED <<pidFile, orderly>>
      BY <1>0, <1>8, <2>0 DEF StartSpawn, Go
    <2>3. DOMAIN stores \subseteq DOMAIN stores' /\ Len(stores) + 1 \in DOMAIN stores'
      BY <1>0, <2>1
    <2> QED
      BY <1>2, <2>1, <2>2, <2>3 DEF DaemonOK, At
  <1>5. CASE StartPid(u)
    <2>1. pidFile' \in DOMAIN stores /\ work'[u].op = "start" /\ work'[u].pc = "poll" /\ UNCHANGED <<stores, orderly>>
      BY <1>0, <1>5 DEF StartPid, Go, DaemonOK
    <2> QED
      BY <1>2, <2>1 DEF DaemonOK, At
  <1>6. CASE StopKill(u) \/ StopKillFails(u)
    <2>1. stores' \in Seq(StoreStatus) /\ DOMAIN stores' = DOMAIN stores
      <3>1. CASE StopKill(u)
        <4> DEFINE status == IF stores[work[u].pid] = "gone" THEN stores[work[u].pid] ELSE "ending"
        <4>1. status \in StoreStatus
          BY DEF StoreStatus
        <4>2. stores' = [stores EXCEPT ![work[u].pid] = status] /\ work[u].pid \in DOMAIN stores
          BY <3>1 DEF StopKill, DaemonOK
        <4> HIDE DEF status
        <4> QED
          BY <4>1, <4>2, ExceptSeq DEF DaemonOK
      <3>2. CASE StopKillFails(u)
        BY <3>2 DEF StopKillFails, DaemonOK
      <3> QED
        BY <1>6, <3>1, <3>2
    <2>2. work[u] \in [op : {"stop"}, pc : {"kill", "remove"}, pid : Nat]
      BY <1>0, <1>6, Ops DEF StopKill, StopKillFails, At, DaemonWork
    <2>3. work'[u].op = "stop" /\ work'[u].pc = "remove" /\ UNCHANGED pidFile /\ orderly' \in BOOLEAN
      BY <1>0, <1>6, <2>2 DEF StopKill, StopKillFails, GoTo, Go, DaemonOK
    <2> QED
      BY <1>2, <2>1, <2>3 DEF DaemonOK, At
  <1>7. CASE StopRemove(u) \/ StartPidFails(u)
    <2>1. pidFile' \in {None, pidFile} /\ work'[u] = Idle /\ UNCHANGED stores /\ orderly' \in BOOLEAN
      BY <1>0, <1>7 DEF StopRemove, StartPidFails, Answer, Go, DaemonOK
    <2> QED
      BY <1>2, <2>1 DEF DaemonOK, At, Idle
  <1>9. CASE StartSpawn(u)
    BY <1>4, <1>8, <1>9 DEF StartSpawn
  <1> QED
    BY <1>3, <1>5, <1>6, <1>7, <1>9 DEF DaemonStep, StartLook, StartPoll, StartGivesUp, StopLook

LEMMA DaemonSteps ==
  ASSUME WorkOK, DaemonInv, NEW u \in User, DaemonStep(u)
  PROVE  DaemonInv'
  <1>0. work \in [User -> Commands] /\ work[u] \in Commands /\ DOMAIN stores = 1 .. Len(stores) /\ Len(stores) \in Nat
    BY StoreFacts DEF WorkOK, DaemonInv
  <1>1. DaemonTurn(u) /\ DaemonOK'
    BY DaemonTurns, DaemonTypes DEF DaemonInv
  <1>2. orderly' => orderly /\ ~StartPidFails(u) /\ ~StopKillFails(u)
    BY DEF DaemonStep, StartLook, StartSpawn, StartPid, StartPidFails, StartPoll, StartGivesUp, StopLook, StopKill, StopKillFails, StopRemove,
           daemonVars
  <1> SUFFICES ASSUME orderly' PROVE OneDaemonic' /\ NeededIsNamed' /\ FoundHolds'
    BY <1>1, <1>2 DEF DaemonInv
  <1>3. OneDaemonic /\ NeededIsNamed /\ FoundHolds /\ DaemonOK
    BY <1>2 DEF DaemonInv
  <1>4. OneDaemonic' /\ \A v \in User : v # u => ~Daemonic(v) /\ work'[v] = work[v] /\ ~Daemonic(v)'
    BY <1>1, <1>3, Alone
  <1>5. \A i \in DOMAIN stores : Needed(i) => pidFile = i \/ (At(u, "start", "pid") /\ work[u].pid = i)
    BY <1>3, <1>4 DEF NeededIsNamed, At, Daemonic
  <1>6. /\ At(u, "stop", "kill") => work[u].pid = pidFile
        /\ \A i \in DOMAIN stores :
             /\ At(u, "start", "look") => stores[i] # "loading"
             /\ At(u, "start", "spawn") \/ At(u, "stop", "remove") => ~Needed(i)
             /\ At(u, "start", "pid") /\ Needed(i) => work[u].pid = i
    BY <1>3 DEF FoundHolds
  <1>7. SUFFICES /\ At(u, "stop", "kill")' => work'[u].pid = pidFile'
                 /\ \A i \in DOMAIN stores' :
                      /\ Needed(i)' => pidFile' = i \/ (At(u, "start", "pid")' /\ work'[u].pid = i)
                      /\ At(u, "start", "look")' => stores'[i] # "loading"
                      /\ At(u, "start", "spawn")' \/ At(u, "stop", "remove")' => ~Needed(i)'
                      /\ At(u, "start", "pid")' /\ Needed(i)' => work'[u].pid = i
    <2>1. \A v \in User : v # u => ~At(v, "start", "pid")' /\ ~At(v, "stop", "kill")' /\ ~At(v, "start", "look")'
                                 /\ ~At(v, "start", "spawn")' /\ ~At(v, "stop", "remove")'
      BY <1>4 DEF At, Daemonic
    <2>2. NeededIsNamed'
      BY <1>7 DEF NeededIsNamed
    <2>3. FoundHolds'
      BY <1>7, <2>1 DEF FoundHolds
    <2> QED
      BY <1>4, <2>2, <2>3
  <1>8. CASE StartLook(u)
    <2>1. work[u] \in [op : {"start"}, pc : {"look", "spawn"}] /\ UNCHANGED daemonVars
      BY <1>0, <1>8, Ops DEF StartLook, At, DaemonWork
    <2>2. IF Up THEN work'[u] = Idle ELSE work'[u] = [work[u] EXCEPT !.pc = "spawn"]
      BY <1>0, <1>8 DEF StartLook, Go, GoTo, Answer
    <2>3. ~Up => \A i \in DOMAIN stores : ~Needed(i)
      BY <1>3, <1>6, <1>8, StoreFacts DEF Up, Needed, StoreStatus, StartLook
    <2> QED
      BY <1>5, <1>8, <2>1, <2>2, <2>3 DEF At, Idle, Needed, daemonVars, StartLook
  <1>9. CASE StartSpawn(u)
    <2>1. CASE UNCHANGED stores /\ Answer(u)
      <3>1. work'[u] = Idle /\ UNCHANGED daemonVars
        BY <1>0, <1>9, <2>1 DEF StartSpawn, Answer, Go, daemonVars
      <3> QED
        BY <1>5, <1>6, <1>9, <3>1 DEF StartSpawn, At, Idle, Needed, daemonVars
    <2>2. CASE stores' = Append(stores, "loading") /\ Go(u, [op |-> "start", pc |-> "pid", pid |-> Len(stores) + 1])
      <3>1. /\ Len(stores') = Len(stores) + 1 /\ DOMAIN stores' = 1 .. Len(stores) + 1
            /\ \A i \in 1 .. Len(stores) : stores'[i] = stores[i]
        BY <1>3, <2>2, AppendProperties, LenProperties DEF DaemonOK, StoreStatus
      <3>2. work'[u] = [op |-> "start", pc |-> "pid", pid |-> Len(stores) + 1] /\ UNCHANGED <<pidFile, orderly>>
        BY <1>0, <1>9, <2>2 DEF StartSpawn, Go
      <3>3. \A i \in DOMAIN stores' : Needed(i)' => i = Len(stores) + 1
        BY <1>0, <1>6, <1>9, <3>1 DEF Needed, StartSpawn
      <3> QED
        BY <3>2, <3>3 DEF At
    <2> QED
      BY <1>9, <2>1, <2>2 DEF StartSpawn
  <1>10. CASE StartPid(u)
    <2>1. /\ work'[u] = [op |-> "start", pc |-> "poll", polls |-> 0] /\ pidFile' = work[u].pid
          /\ UNCHANGED <<stores, orderly>>
      BY <1>0, <1>10 DEF StartPid, Go
    <2> QED
      BY <1>6, <1>10, <2>1 DEF At, StartPid, Needed
  <1>11. CASE StartPoll(u) \/ StartGivesUp(u)
    <2>1. work[u] \in [op : {"start"}, pc : {"poll"}, polls : Nat] /\ UNCHANGED daemonVars
      BY <1>0, <1>11, Ops DEF StartPoll, StartGivesUp, At, DaemonWork
    <2>2. work'[u] = Idle \/ work'[u] = [work[u] EXCEPT !.polls = work[u].polls + 1]
      BY <1>0, <1>11 DEF StartPoll, StartGivesUp, Go, Answer
    <2> QED
      BY <1>5, <1>11, <2>1, <2>2 DEF At, Idle, Needed, daemonVars, StartPoll, StartGivesUp
  <1>12. CASE StopLook(u)
    <2>1. /\ UNCHANGED daemonVars
          /\ \/ work'[u] = Idle
             \/ pidFile # None /\ work'[u] = [op |-> "stop", pc |-> "kill", pid |-> pidFile]
      BY <1>0, <1>12 DEF StopLook, Go, Answer
    <2> QED
      BY <1>5, <1>12, <2>1 DEF At, Idle, Needed, daemonVars, StopLook
  <1>13. CASE StopKill(u)
    <2>1. work[u] \in [op : {"stop"}, pc : {"kill", "remove"}, pid : Nat]
      BY <1>0, <1>13, Ops DEF StopKill, At, DaemonWork
    <2>2. work'[u] = [work[u] EXCEPT !.pc = "remove"] /\ UNCHANGED <<pidFile, orderly>>
      BY <1>0, <1>13 DEF StopKill, GoTo, Go
    <2>3. DOMAIN stores' = DOMAIN stores /\ \A i \in DOMAIN stores : ~Needed(i)'
      BY <1>5, <1>6, <1>13 DEF StopKill, At, Needed
    <2> QED
      BY <2>1, <2>2, <2>3 DEF At
  <1>14. CASE StopRemove(u)
    <2>1. work'[u] = Idle /\ UNCHANGED <<stores, orderly>>
      BY <1>0, <1>14 DEF StopRemove, Answer, Go
    <2> QED
      BY <1>6, <1>14, <2>1 DEF At, Idle, Needed, StopRemove
  <1> QED
    BY <1>2, <1>8, <1>9, <1>10, <1>11, <1>12, <1>13, <1>14 DEF DaemonStep

\* What comes of a process: it comes up, or is gone.
LEMMA StoresMove ==
  ASSUME DaemonInv, NEW i \in DOMAIN stores, StoreLoads(i) \/ StoreEnds(i) \/ StoreDies(i), work' = work
  PROVE  DaemonInv'
  <1>1. /\ UNCHANGED <<pidFile, orderly>>
        /\ \E status \in {"serving", "gone"} : stores' = [stores EXCEPT ![i] = status]
    BY DEF StoreLoads, StoreEnds, StoreDies
  <1>2. stores' \in Seq(StoreStatus) /\ DOMAIN stores' = DOMAIN stores
    BY <1>1, ExceptSeq DEF DaemonInv, DaemonOK, StoreStatus
  <1>3. \A j \in DOMAIN stores : (Needed(j)' => Needed(j)) /\ (stores'[j] = "loading" => stores[j] = "loading")
    BY <1>1 DEF StoreLoads, StoreEnds, StoreDies, Needed
  <1>4. \A u \in User, op, pc \in STRING : At(u, op, pc)' <=> At(u, op, pc)
    BY DEF At
  <1>5. DaemonOK'
    BY <1>1, <1>2 DEF DaemonInv, DaemonOK, At
  <1>6. ASSUME OneDaemonic PROVE OneDaemonic'
    BY <1>6 DEF OneDaemonic, Daemonic
  <1>7. ASSUME NeededIsNamed PROVE NeededIsNamed'
    BY <1>1, <1>2, <1>3, <1>7 DEF NeededIsNamed, At
  <1>8. ASSUME FoundHolds PROVE FoundHolds'
    BY <1>1, <1>2, <1>3, <1>8 DEF FoundHolds, At
  <1> QED
    BY <1>1, <1>5, <1>6, <1>7, <1>8 DEF DaemonInv

LEMMA DaemonBegins ==
  ASSUME WorkOK, DaemonInv, NEW u \in User, work[u] = Idle, NEW c \in DaemonCall,
         work' = [work EXCEPT ![u] = c], orderly' = Orderly(u), UNCHANGED <<stores, pidFile>>
  PROVE  DaemonInv'
  <1>0. work \in [User -> Commands] /\ work'[u] = c /\ \A v \in User : v # u => work'[v] = work[v]
    BY DEF WorkOK
  <1>1. c.op \in {"start", "stop"} /\ c.pc = "look"
    BY DEF DaemonCall
  <1>2. DaemonOK'
    BY <1>0, <1>1 DEF DaemonInv, DaemonOK, At, Orderly
  <1>3. ASSUME orderly' PROVE OneDaemonic' /\ NeededIsNamed' /\ FoundHolds'
    <2>1. orderly /\ (\A v \in User : v # u => ~Daemonic(v)) /\ (\A i \in DOMAIN stores : stores[i] # "loading")
      BY <1>3 DEF Orderly
    <2>2. \A v \in User : ~Daemonic(v)
      BY <2>1 DEF Daemonic, Idle
    <2>3. OneDaemonic'
      BY <1>0, <2>1 DEF OneDaemonic, Daemonic
    <2>4. \A i \in DOMAIN stores : Needed(i) => pidFile = i
      BY <2>1, <2>2 DEF DaemonInv, NeededIsNamed, At, Daemonic
    <2>5. NeededIsNamed'
      BY <2>4 DEF NeededIsNamed, Needed
    <2>6. \A v \in User : Daemonic(v)' => v = u
      BY <1>0, <2>2 DEF Daemonic
    <2>7. FoundHolds'
      BY <1>0, <1>1, <2>1, <2>6 DEF FoundHolds, At, Daemonic
    <2> QED
      BY <2>3, <2>5, <2>7
  <1> QED
    BY <1>2, <1>3 DEF DaemonInv

LEMMA DaemonDies ==
  ASSUME WorkOK, DaemonInv, NEW u \in User, work' = [work EXCEPT ![u] = Idle], DaemonForgets(u)
  PROVE  DaemonInv'
  <1>0. work \in [User -> Commands] /\ work'[u] = Idle /\ \A v \in User : v # u => work'[v] = work[v]
    BY DEF WorkOK
  <1>1. CASE ~Daemonic(u)
    <2>1. DaemonFrame
      BY <1>0, <1>1 DEF DaemonFrame, DaemonForgets, daemonVars, Daemonic, Idle, DaemonInv, DaemonOK
    <2> QED
      BY <2>1, DaemonFrameHolds
  <1>2. CASE Daemonic(u)
    BY <1>0, <1>2 DEF DaemonInv, DaemonOK, DaemonForgets, At, Idle
  <1> QED
    BY <1>1, <1>2

-----------------------------------------------------------------------------
(* The extractor's files.                                                  *)

\* Others work: nothing of the files, and no install goes on.
InstallFrame ==
  /\ UNCHANGED diskVars
  /\ \A u \in User : work'[u].op = "install" => work'[u] = work[u] \/ work'[u].pc = "look"

LEMMA InstallFrameHolds ==
  ASSUME InstallInv, InstallFrame
  PROVE  InstallInv'
  <1>1. InstallOK' /\ InstalledIsWhole'
    BY DEF InstallInv, InstallOK, InstalledIsWhole, InstallFrame, diskVars, There
  <1>2. MakingOK'
    BY DEF InstallInv, MakingOK, InstallFrame, diskVars, There
  <1> QED
    BY <1>1, <1>2 DEF InstallInv

LEMMA InstallTurns ==
  ASSUME WorkOK, NEW u \in User, InstallStep(u)
  PROVE  /\ InstallTurn(u) /\ work'[u] \in Commands /\ UNCHANGED <<calls, faults>>
         /\ work[u] \in InstallWork /\ \A v \in User : v # u => work'[v] = work[v] /\ work'[v].op # "install"
  <1>0. work \in [User -> Commands] /\ work[u] \in Commands
    BY DEF WorkOK
  <1>1. work[u].op \in {"install", "uninstall"}
    BY DEF InstallStep, InstallLook, InstallClean, InstallUnpack, InstallMove, InstallMark, InstallModel, Uninstall, At
  <1>2. Installing(u) /\ work[u] \in InstallWork
    BY <1>0, <1>1, Ops DEF Installing
  <1>3. SUFFICES InstallTurn(u) /\ work'[u] \in Commands /\ UNCHANGED <<calls, faults>>
    BY <1>0, <1>2 DEF WorkOK, InstallTurn, Turn, Installing
  <1>4. ASSUME NEW c \in {Idle} \cup InstallWork, Go(u, c)
        PROVE  InstallTurn(u) /\ work'[u] \in Commands /\ UNCHANGED <<calls, faults>>
    <2>1. work'[u] = c /\ Turn(u)
      BY <1>0, <1>4 DEF Go, Turn
    <2>2. c \in Commands /\ (c = Idle \/ c.op \in {"install", "uninstall"})
      BY DEF Commands, InstallWork
    <2> QED
      BY <1>2, <1>4, <2>1, <2>2 DEF InstallTurn, Installing, Go
  <1>5. ASSUME UNCHANGED useVars
        PROVE  InstallTurn(u) /\ work'[u] \in Commands /\ UNCHANGED <<calls, faults>>
    BY <1>0, <1>2, <1>5 DEF useVars, InstallTurn, Turn, Installing
  <1>6. ASSUME NEW pc \in {"clean", "unpack", "mark", "model"}, GoTo(u, pc),
               work[u] \in [op : {"install"}, pc : {"look", "clean", "unpack", "mark", "model"}]
        PROVE  InstallTurn(u) /\ work'[u] \in Commands /\ UNCHANGED <<calls, faults>>
    <2>1. [work[u] EXCEPT !.pc = pc] \in [op : {"install"}, pc : {"look", "clean", "unpack", "mark", "model"}]
      BY <1>6
    <2>2. [work[u] EXCEPT !.pc = pc] \in InstallWork
      BY <2>1 DEF InstallWork
    <2> QED
      BY <1>4, <1>6, <2>2 DEF GoTo
  <1>7. work[u].op = "install" /\ work[u].pc \in {"look", "clean", "unpack", "mark", "model"} =>
          work[u] \in [op : {"install"}, pc : {"look", "clean", "unpack", "mark", "model"}]
    BY <1>2 DEF InstallWork
  <1>8. CASE InstallLook(u)
    BY <1>6, <1>7, <1>8 DEF InstallLook, At
  <1>9. CASE InstallClean(u)
    BY <1>5, <1>6, <1>7, <1>9 DEF InstallClean, At
  <1>10. CASE InstallUnpack(u)
    <2>1. [op |-> "install", pc |-> "move", left |-> Part] \in InstallWork
      BY DEF InstallWork
    <2> QED
      BY <2>1, <1>4, <1>10 DEF InstallUnpack, Answer
  <1>11. CASE InstallMove(u)
    <2>1. work[u] \in [op : {"install"}, pc : {"move"}, left : SUBSET Part]
      BY <1>2, <1>11 DEF InstallMove, At, InstallWork
    <2>2. \A part \in work[u].left :
            [work[u] EXCEPT !.left = work[u].left \ {part}] \in [op : {"install"}, pc : {"move"}, left : SUBSET Part]
      BY <2>1
    <2>3. [op |-> "install", pc |-> "mark"] \in InstallWork
      BY DEF InstallWork
    <2>4. \A part \in work[u].left : [work[u] EXCEPT !.left = work[u].left \ {part}] \in InstallWork
      BY <2>2 DEF InstallWork
    <2> QED
      BY <2>3, <2>4, <1>4, <1>11 DEF InstallMove
  <1>12. CASE InstallMark(u)
    BY <1>6, <1>7, <1>12 DEF InstallMark, At
  <1>13. CASE InstallModel(u)
    BY <1>4, <1>13 DEF InstallModel, Answer
  <1>14. CASE Uninstall(u)
    BY <1>4, <1>5, <1>14 DEF Uninstall, Answer
  <1> QED
    BY <1>8, <1>9, <1>10, <1>11, <1>12, <1>13, <1>14 DEF InstallStep

LEMMA InstallSteps ==
  ASSUME WorkOK, InstallInv, NEW u \in User, InstallStep(u)
  PROVE  InstallInv'
  <1>0. work \in [User -> Commands] /\ InstallOK /\ InstalledIsWhole /\ work[u] \in InstallWork
    BY InstallTurns DEF WorkOK, InstallInv
  <1>1. work[u].op = "install" =>
          /\ work[u].pc \in {"clean", "unpack", "move", "mark"} => ~There("sentinel")
          /\ work[u].pc = "move" => Part \ work[u].left \subseteq disk
          /\ work[u].pc = "mark" => Part \subseteq disk
          /\ work[u].pc = "model" => There("sentinel")
    BY DEF InstallInv, MakingOK
  <1>2. ASSUME work'[u].op = "install" =>
                 /\ work'[u].pc \in {"clean", "unpack", "move", "mark"} => "sentinel" \notin disk'
                 /\ work'[u].pc = "move" => Part \ work'[u].left \subseteq disk'
                 /\ work'[u].pc = "mark" => Part \subseteq disk'
                 /\ work'[u].pc = "model" => "sentinel" \in disk'
        PROVE  MakingOK'
    <2>1. \A v \in User : work'[v].op = "install" => v = u
      BY InstallTurns
    <2> QED
      BY <1>2, <2>1 DEF MakingOK, There
  <1>3. UNCHANGED diskVars => InstallOK' /\ InstalledIsWhole'
    BY <1>0 DEF diskVars, InstallOK, InstalledIsWhole, There
  <1>4. work[u].op = "install" /\ work[u].pc \in {"look", "clean", "unpack", "mark", "model"} =>
          work[u] \in [op : {"install"}, pc : {"look", "clean", "unpack", "mark", "model"}]
    BY <1>0 DEF InstallWork
  <1>5. CASE InstallLook(u)
    <2>1. work'[u] = [work[u] EXCEPT !.pc = IF There("sentinel") THEN "model"
                                              ELSE IF There("binary") THEN "clean" ELSE "unpack"]
      BY <1>0, <1>5 DEF InstallLook, GoTo, Go
    <2>2. work'[u].pc = IF There("sentinel") THEN "model" ELSE IF There("binary") THEN "clean" ELSE "unpack"
      BY <1>4, <1>5, <2>1 DEF InstallLook, At
    <2>3. MakingOK'
      BY <1>2, <1>5, <2>2 DEF InstallLook, diskVars, There
    <2> QED
      BY <1>3, <1>5, <2>3 DEF InstallInv, InstallLook
  <1>6. CASE InstallClean(u)
    <2>1. /\ ~There("sentinel") /\ disk' \subseteq disk /\ UNCHANGED <<installed, wrecked>>
          /\ work'[u].pc \in {"clean", "unpack"}
      <3>1. ~There("sentinel") /\ disk' \subseteq disk /\ UNCHANGED <<installed, wrecked>>
        BY <1>1, <1>6 DEF InstallClean, At
      <3>2. CASE UNCHANGED useVars
        BY <1>6, <3>1, <3>2 DEF InstallClean, At, useVars
      <3>3. CASE GoTo(u, "unpack")
        BY <1>0, <1>4, <1>6, <3>1, <3>3 DEF InstallClean, At, GoTo, Go
      <3> QED
        BY <1>6, <3>1, <3>2, <3>3 DEF InstallClean
    <2>2. MakingOK'
      BY <1>2, <2>1 DEF There
    <2>3. ~wrecked => ~installed
      BY <1>0, <2>1 DEF InstalledIsWhole, There, Files
    <2> QED
      BY <1>0, <2>1, <2>2, <2>3 DEF InstallInv, InstallOK, InstalledIsWhole, There
  <1>7. CASE InstallUnpack(u)
    <2>1. work'[u] = Idle \/ work'[u] = [op |-> "install", pc |-> "move", left |-> Part]
      BY <1>0, <1>7 DEF InstallUnpack, Go, Answer
    <2>2. MakingOK'
      BY <1>1, <1>2, <1>7, <2>1 DEF InstallUnpack, At, diskVars, There, Idle
    <2> QED
      BY <1>3, <1>7, <2>2 DEF InstallInv, InstallUnpack
  <1>8. CASE InstallMove(u)
    <2>1. work[u] \in [op : {"install"}, pc : {"move"}, left : SUBSET Part]
      BY <1>0, <1>8 DEF InstallMove, At, InstallWork
    <2>2. PICK part \in work[u].left :
            /\ disk' = disk \cup {part}
            /\ work'[u] = IF work[u].left = {part} THEN [op |-> "install", pc |-> "mark"]
                          ELSE [work[u] EXCEPT !.left = work[u].left \ {part}]
      BY <1>0, <1>8 DEF InstallMove, Go
    <2>3. /\ "sentinel" \notin disk' /\ Part \ (work[u].left \ {part}) \subseteq disk'
          /\ disk \subseteq disk' /\ disk' \subseteq Files /\ "sentinel" \notin disk
      BY <1>0, <1>1, <1>8, <2>1, <2>2 DEF InstallMove, At, Part, Files, There, InstallOK
    <2>4. MakingOK'
      BY <1>2, <2>1, <2>2, <2>3
    <2>5. ~wrecked => ~installed
      BY <1>0, <2>3 DEF InstalledIsWhole, There, Files
    <2> QED
      BY <1>0, <1>8, <2>3, <2>4, <2>5 DEF InstallInv, InstallOK, InstalledIsWhole, There, InstallMove
  <1>9. CASE InstallMark(u)
    <2>1. work'[u] = [work[u] EXCEPT !.pc = "model"] /\ disk' = disk \cup {"sentinel"} /\ Part \subseteq disk
      BY <1>0, <1>1, <1>9 DEF InstallMark, GoTo, Go, At
    <2>2. work'[u].pc = "model"
      BY <1>4, <1>9, <2>1 DEF InstallMark, At
    <2>3. MakingOK'
      BY <1>2, <2>1, <2>2
    <2> QED
      BY <1>0, <1>9, <2>1, <2>3 DEF InstallInv, InstallOK, InstalledIsWhole, There, InstallMark, Files
  <1>10. CASE InstallModel(u)
    <2>1. work'[u] = Idle /\ There("sentinel") /\ UNCHANGED wrecked
      BY <1>0, <1>1, <1>10 DEF InstallModel, Go, Answer, At
    <2>2. MakingOK'
      BY <1>2, <2>1 DEF Idle
    <2>3. CASE disk' = disk \cup {"model"} /\ installed' = TRUE
      BY <1>0, <2>1, <2>2, <2>3 DEF InstallInv, InstallOK, InstalledIsWhole, There, Files, Part
    <2>4. CASE UNCHANGED <<disk, installed>>
      BY <1>3, <2>1, <2>2, <2>4 DEF InstallInv, diskVars
    <2> QED
      BY <1>10, <2>3, <2>4 DEF InstallModel
  <1>11. CASE Uninstall(u)
    <2>1. work'[u].op # "install"
      BY <1>0, <1>11 DEF Uninstall, Answer, Go, At, Idle, useVars
    <2>2. disk' \subseteq disk /\ installed' = FALSE /\ (wrecked' = TRUE \/ (wrecked' = FALSE /\ disk' = {}))
      BY <1>11 DEF Uninstall
    <2>3. MakingOK'
      BY <1>2, <2>1
    <2> QED
      BY <1>0, <2>2, <2>3 DEF InstallInv, InstallOK, InstalledIsWhole, There
  <1> QED
    BY <1>5, <1>6, <1>7, <1>8, <1>9, <1>10, <1>11 DEF InstallStep

-----------------------------------------------------------------------------
(* The extractor's process.                                                *)

LEMMA ChildFacts ==
  ASSUME ExtractorOK
  PROVE  /\ DOMAIN children = 1 .. Len(children) /\ Len(children) \in Nat
         /\ \A i \in DOMAIN children : children[i] \in Child
         /\ None \notin Nat
  BY LenProperties, ElementOfSeq, DaemonAssumption DEF ExtractorOK, ExtractorTypeOK

LEMMA ExtractorFrame ==
  ASSUME ExtractorInv, UNCHANGED extractorVars
  PROVE  ExtractorInv'
  BY DEF ExtractorInv, ExtractorOK, ExtractorTypeOK, SlotOK, SlotOf, Starting, Mine, extractorVars

\* Some children are gone, or ready; none comes or goes elsewhere.
ChildrenKept ==
  /\ children' \in Seq(Child) /\ DOMAIN children' = DOMAIN children
  /\ \A i \in DOMAIN children :
       children'[i].of = children[i].of /\ (children'[i].status # "gone" => children[i].status # "gone")

LEMMA Kill ==
  ASSUME ExtractorOK, NEW c \in {None} \cup DOMAIN children, children' = Killed(c)
  PROVE  ChildrenKept /\ (c # None => children'[c].status = "gone")
  <1>1. CASE c = None
    BY <1>1, ChildFacts DEF Killed, ChildrenKept, ExtractorOK, ExtractorTypeOK
  <1>2. CASE c # None
    <2>1. c \in DOMAIN children /\ children[c] \in Child
      BY <1>2, ChildFacts
    <2>2. [children[c] EXCEPT !.status = "gone"] \in Child
      BY <2>1 DEF Child, ChildStatus
    <2>3. children' = [children EXCEPT ![c] = [children[c] EXCEPT !.status = "gone"]]
      BY <1>2 DEF Killed
    <2>4. children' \in Seq(Child) /\ DOMAIN children' = DOMAIN children
      BY <2>1, <2>2, <2>3, ExceptSeq DEF ExtractorOK, ExtractorTypeOK
    <2>5. children'[c] = [children[c] EXCEPT !.status = "gone"] /\ \A i \in DOMAIN children : i # c => children'[i] = children[i]
      BY <2>1, <2>3
    <2>6. children'[c].of = children[c].of /\ children'[c].status = "gone"
      BY <2>1, <2>5 DEF Child
    <2> QED
      BY <2>4, <2>5, <2>6 DEF ChildrenKept
  <1> QED
    BY <1>1, <1>2

\* A step of the server s.
ServerStep(s) ==
  /\ \A t \in Server : t # s => worker'[t] = worker[t] /\ slot'[t] = slot[t]
  /\ DOMAIN children \subseteq DOMAIN children' /\ \A t \in Server : t # s => Mine(t)' \subseteq Mine(t)

LEMMA OthersKeepTheirs ==
  ASSUME SlotOK, NEW s \in Server, ServerStep(s), SlotOf(s)'
  PROVE  SlotOK'
  <1>1. ASSUME NEW t \in Server, t # s PROVE SlotOf(t)'
    <2>1. SlotOf(t)
      BY DEF SlotOK
    <2>2. worker'[t] = worker[t] /\ slot'[t] = slot[t] /\ Mine(t)' \subseteq Mine(t) /\ DOMAIN children \subseteq DOMAIN children'
      BY <1>1 DEF ServerStep
    <2> QED
      BY <2>1, <2>2 DEF SlotOf, Starting
  <1> QED
    BY <1>1 DEF SlotOK

LEMMA KeptIsMine ==
  ASSUME ChildrenKept, NEW s \in Server
  PROVE  Mine(s)' \subseteq Mine(s)
  BY DEF ChildrenKept, Mine

\* What a worker with a chunk in hand is a step of.
LEMMA Busy ==
  ASSUME ExtractorOK, NEW s \in Server
  PROVE  /\ worker[s] \in WorkerState
         /\ worker[s].pc \in {"peek", "binary", "model", "spawn", "add"} =>
              worker[s] \in [pc : {"peek", "binary", "model", "spawn", "add"}, chunk : Chunk]
         /\ worker[s].pc = "hold" => worker[s] \in [pc : {"hold"}, chunk : Chunk, child : Nat]
         /\ worker[s].pc = "poll" => worker[s] \in [pc : {"poll"}, chunk : Chunk, child : Nat, polls : Nat]
         /\ worker[s].pc = "ask" => worker[s] \in [pc : {"ask"}, chunk : Chunk, child : Nat, asked : 1 .. 2]
         /\ worker[s].pc # "idle" => worker[s].chunk \in Chunk
  BY DEF ExtractorOK, WorkerState, Resting

\* The worker takes another state, and the rest keeps its type.
LEMMA WorkerTyped ==
  ASSUME ExtractorOK, NEW s \in Server, NEW w \in WorkerState, With(s, w),
         children' \in Seq(Child), DOMAIN children \subseteq DOMAIN children',
         NEW c \in {None} \cup DOMAIN children, slot' = slot \/ slot' = [slot EXCEPT ![s] = c],
         queue' \in [Server -> Seq(Chunk)], UNCHANGED life,
         fate' \in [Chunk -> Fates]
  PROVE  /\ ExtractorOK' /\ worker'[s] = w
         /\ \A t \in Server : t # s => worker'[t] = worker[t] /\ slot'[t] = slot[t]
         /\ slot'[s] = slot[s] \/ slot'[s] = c
  <1>1. worker' \in [Server -> WorkerState] /\ worker'[s] = w /\ \A t \in Server : t # s => worker'[t] = worker[t]
    BY DEF With, ExtractorOK
  <1>2. slot' \in [Server -> {None} \cup DOMAIN children'] /\ \A t \in Server : t # s => slot'[t] = slot[t]
    BY DEF ExtractorOK, ExtractorTypeOK
  <1>3. slot'[s] = slot[s] \/ slot'[s] = c
    BY DEF ExtractorOK, ExtractorTypeOK
  <1> QED
    BY <1>1, <1>2, <1>3 DEF ExtractorOK, ExtractorTypeOK

\* A step that leaves the child and the slot alone.
LEMMA WorkerMoves ==
  ASSUME ExtractorInv, NEW s \in Server, NEW w \in WorkerState, With(s, w), UNCHANGED <<life, slot, children>>,
         queue' \in [Server -> Seq(Chunk)], fate' \in [Chunk -> Fates],
         w.pc # "hold" /\ worker[s].pc # "hold",
         w.pc \in {"binary", "model", "spawn"} => slot[s] = None
  PROVE  ExtractorInv'
  <1>1. ExtractorOK /\ SlotOf(s)
    BY DEF ExtractorInv, SlotOK
  <1>2. children' \in Seq(Child) /\ DOMAIN children' = DOMAIN children /\ slot' = slot /\ life' = life
    BY <1>1 DEF ExtractorOK, ExtractorTypeOK
  <1>3. ExtractorOK' /\ worker'[s] = w /\ \A t \in Server : t # s => worker'[t] = worker[t] /\ slot'[t] = slot[t]
    BY <1>1, <1>2, WorkerTyped
  <1>4. \A t \in Server : Mine(t)' = Mine(t)
    BY DEF Mine
  <1>5. ServerStep(s)
    BY <1>2, <1>3, <1>4 DEF ServerStep
  <1>6. SlotOf(s)'
    BY <1>1, <1>2, <1>3, <1>4 DEF SlotOf, Starting
  <1> QED
    BY <1>3, <1>5, <1>6, OthersKeepTheirs DEF ExtractorInv

LEMMA RestsTyped ==
  ASSUME ExtractorOK, NEW s \in Server, NEW end \in Fates, Rests(s, end), worker[s].pc # "idle"
  PROVE  With(s, Resting) /\ Resting \in WorkerState /\ Resting.pc = "idle" /\ fate' \in [Chunk -> Fates]
  BY Busy DEF Rests, Resting, WorkerState, ExtractorOK, ExtractorTypeOK

LEMMA WorkerSteps ==
  ASSUME ExtractorInv, NEW s \in Server, WorkerStep(s)
  PROVE  ExtractorInv'
  <1>0. ExtractorOK /\ SlotOf(s) /\ MaxPolls \in Nat /\ None \notin Nat
    BY ChildFacts, DaemonAssumption DEF ExtractorInv, SlotOK
  <1>1. /\ fate \in [Chunk -> Fates] /\ queue \in [Server -> Seq(Chunk)]
        /\ slot \in [Server -> {None} \cup DOMAIN children] /\ children \in Seq(Child)
    BY <1>0 DEF ExtractorOK, ExtractorTypeOK
  <1>2. CASE Take(s)
    <2>1. queue[s] \in Seq(Chunk) /\ Head(queue[s]) \in Chunk /\ Tail(queue[s]) \in Seq(Chunk)
      BY <1>1, <1>2, HeadTailProperties DEF Take
    <2>2. queue' \in [Server -> Seq(Chunk)]
      BY <1>1, <1>2, <2>1 DEF Take
    <2>3. [pc |-> "peek", chunk |-> Head(queue[s])] \in WorkerState
      BY <2>1 DEF WorkerState
    <2> QED
      BY <1>1, <1>2, <2>2, <2>3, WorkerMoves DEF Take
  <1>3. CASE Peek(s)
    <2>1. worker[s] \in [pc : {"peek", "binary", "model", "spawn", "add"}, chunk : Chunk]
      BY <1>0, <1>3, Busy DEF Peek
    <2>2. CASE slot[s] # None
      <3>1. slot[s] \in Nat
        BY <1>0, <1>1, <2>2, ChildFacts
      <3>2. [pc |-> "ask", chunk |-> worker[s].chunk, child |-> slot[s], asked |-> 1] \in WorkerState
        BY <2>1, <3>1 DEF WorkerState
      <3> QED
        BY <1>1, <1>3, <2>1, <2>2, <3>2, WorkerMoves DEF Peek
    <2>3. CASE slot[s] = None
      <3>1. [worker[s] EXCEPT !.pc = "binary"] \in [pc : {"peek", "binary", "model", "spawn", "add"}, chunk : Chunk]
        BY <2>1
      <3>2. [worker[s] EXCEPT !.pc = "binary"] \in WorkerState /\ [worker[s] EXCEPT !.pc = "binary"].pc = "binary"
        BY <2>1, <3>1 DEF WorkerState
      <3> QED
        BY <1>1, <1>3, <2>3, <3>2, WorkerMoves DEF Peek, WithPc
    <2> QED
      BY <2>2, <2>3
  <1>4. CASE Preflight(s)
    <2>1. worker[s] \in [pc : {"peek", "binary", "model", "spawn", "add"}, chunk : Chunk]
      BY <1>0, <1>4, Busy DEF Preflight
    <2>2. CASE Rests(s, "lost")
      <3>1. With(s, Resting) /\ Resting \in WorkerState /\ Resting.pc = "idle" /\ fate' \in [Chunk -> Fates]
        BY <1>0, <1>4, <2>2, RestsTyped DEF Preflight, Fates
      <3> QED
        BY <1>1, <1>4, <3>1, WorkerMoves DEF Preflight
    <2>3. ASSUME NEW pc \in {"model", "spawn"}, WithPc(s, pc), UNCHANGED fate
          PROVE  ExtractorInv'
      <3>1. [worker[s] EXCEPT !.pc = pc] \in [pc : {"peek", "binary", "model", "spawn", "add"}, chunk : Chunk]
        BY <2>1, <2>3
      <3>2. [worker[s] EXCEPT !.pc = pc] \in WorkerState /\ [worker[s] EXCEPT !.pc = pc].pc = pc
        BY <2>1, <3>1 DEF WorkerState
      <3>3. slot[s] = None /\ worker[s].pc # "hold"
        BY <1>0, <1>4 DEF Preflight, SlotOf, Starting
      <3> QED
        BY <1>1, <1>4, <2>3, <3>2, <3>3, WorkerMoves DEF Preflight, WithPc
    <2> QED
      BY <1>4, <2>2, <2>3 DEF Preflight
  <1>5. CASE Poll(s)
    <2>1. worker[s] \in [pc : {"poll"}, chunk : Chunk, child : Nat, polls : Nat]
      BY <1>0, <1>5, Busy DEF Poll
    <2>2. [pc |-> "ask", chunk |-> worker[s].chunk, child |-> worker[s].child, asked |-> 1] \in WorkerState
      BY <2>1 DEF WorkerState
    <2>3. [worker[s] EXCEPT !.polls = worker[s].polls + 1] \in [pc : {"poll"}, chunk : Chunk, child : Nat, polls : Nat]
      BY <2>1
    <2>4. [worker[s] EXCEPT !.polls = worker[s].polls + 1] \in WorkerState
          /\ [worker[s] EXCEPT !.polls = worker[s].polls + 1].pc = "poll"
      BY <2>3 DEF WorkerState
    <2>5. CASE With(s, [pc |-> "ask", chunk |-> worker[s].chunk, child |-> worker[s].child, asked |-> 1])
      BY <1>1, <1>5, <2>1, <2>2, <2>5, WorkerMoves DEF Poll
    <2>6. CASE With(s, [worker[s] EXCEPT !.polls = worker[s].polls + 1])
      BY <1>1, <1>5, <2>1, <2>4, <2>6, WorkerMoves DEF Poll
    <2> QED
      BY <1>5, <2>5, <2>6 DEF Poll
  <1>6. CASE Ask(s)
    <2>1. worker[s] \in [pc : {"ask"}, chunk : Chunk, child : Nat, asked : 1 .. 2]
      BY <1>0, <1>6, Busy DEF Ask
    <2>2. [pc |-> "add", chunk |-> worker[s].chunk] \in WorkerState
      BY <2>1 DEF WorkerState
    <2>3. [worker[s] EXCEPT !.asked = 2] \in [pc : {"ask"}, chunk : Chunk, child : Nat, asked : 1 .. 2]
      BY <2>1
    <2>4. [worker[s] EXCEPT !.asked = 2] \in WorkerState /\ [worker[s] EXCEPT !.asked = 2].pc = "ask"
      BY <2>3 DEF WorkerState
    <2>5. CASE With(s, [pc |-> "add", chunk |-> worker[s].chunk]) /\ UNCHANGED fate
      BY <1>1, <1>6, <2>1, <2>2, <2>5, WorkerMoves DEF Ask
    <2>6. CASE With(s, [worker[s] EXCEPT !.asked = 2]) /\ UNCHANGED fate
      BY <1>1, <1>6, <2>1, <2>4, <2>6, WorkerMoves DEF Ask
    <2>7. CASE Rests(s, "lost")
      <3>1. With(s, Resting) /\ Resting \in WorkerState /\ Resting.pc = "idle" /\ fate' \in [Chunk -> Fates]
        BY <1>0, <2>1, <2>7, RestsTyped DEF Fates
      <3> QED
        BY <1>1, <1>6, <2>1, <3>1, WorkerMoves DEF Ask
    <2> QED
      BY <1>6, <2>5, <2>6, <2>7 DEF Ask
  <1>7. CASE AddFacts(s)
    <2>1. PICK end \in {"done", "lost"} : Rests(s, end)
      BY <1>7 DEF AddFacts
    <2>2. With(s, Resting) /\ Resting \in WorkerState /\ Resting.pc = "idle" /\ fate' \in [Chunk -> Fates]
      BY <1>0, <1>7, <2>1, RestsTyped DEF AddFacts, Fates
    <2> QED
      BY <1>1, <1>7, <2>2, WorkerMoves DEF AddFacts
  <1>8. CASE Spawn(s)
    <2>1. worker[s] \in [pc : {"peek", "binary", "model", "spawn", "add"}, chunk : Chunk] /\ slot[s] = None /\ Mine(s) = {}
      <3>1. worker[s] \in [pc : {"peek", "binary", "model", "spawn", "add"}, chunk : Chunk] /\ slot[s] = None
        BY <1>0, <1>8, Busy DEF Spawn, SlotOf, Starting
      <3>2. \A i \in Mine(s) : i \in Nat
        BY <1>0, ChildFacts DEF Mine
      <3> QED
        BY <1>0, <1>8, <3>1, <3>2 DEF Spawn, SlotOf
    <2>2. CASE Rests(s, "lost") /\ UNCHANGED children
      <3>1. With(s, Resting) /\ Resting \in WorkerState /\ Resting.pc = "idle" /\ fate' \in [Chunk -> Fates]
        BY <1>0, <1>8, <2>2, RestsTyped DEF Spawn, Fates
      <3> QED
        BY <1>1, <1>8, <2>2, <3>1, WorkerMoves DEF Spawn
    <2>3. ASSUME NEW status \in {"loading", "gone"}, children' = Append(children, [of |-> s, status |-> status]),
                 With(s, [pc |-> "hold", chunk |-> worker[s].chunk, child |-> Len(children) + 1]), UNCHANGED fate
          PROVE  ExtractorInv'
      <3>1. [of |-> s, status |-> status] \in Child
        BY DEF Child, ChildStatus
      <3>2. /\ children' \in Seq(Child) /\ Len(children') = Len(children) + 1
            /\ \A i \in 1 .. Len(children) : children'[i] = children[i]
            /\ children'[Len(children) + 1] = [of |-> s, status |-> status]
        BY <1>1, <2>3, <3>1, AppendProperties
      <3>3. DOMAIN children' = 1 .. Len(children) + 1 /\ DOMAIN children = 1 .. Len(children) /\ Len(children) \in Nat
        BY <1>0, <3>2, LenProperties, ChildFacts
      <3>4. [pc |-> "hold", chunk |-> worker[s].chunk, child |-> Len(children) + 1] \in WorkerState
        BY <2>1, <3>3 DEF WorkerState
      <3>5. DOMAIN children \subseteq DOMAIN children' /\ UNCHANGED <<life, queue, slot>>
        BY <1>8, <3>3 DEF Spawn
      <3>6. /\ ExtractorOK' /\ worker'[s] = [pc |-> "hold", chunk |-> worker[s].chunk, child |-> Len(children) + 1]
            /\ \A t \in Server : t # s => worker'[t] = worker[t] /\ slot'[t] = slot[t]
        BY <1>0, <1>1, <2>3, <3>2, <3>4, <3>5, WorkerTyped
      <3>7. \A t \in Server, i \in DOMAIN children' : i \in Mine(t)' =>
              (i \in DOMAIN children /\ i \in Mine(t)) \/ (t = s /\ i = Len(children) + 1)
        BY <3>2, <3>3 DEF Mine
      <3>8. \A t \in Server : t # s => Mine(t)' \subseteq Mine(t)
        BY <3>7 DEF Mine
      <3>9. \A i \in Mine(s)' : i = Len(children) + 1
        BY <2>1, <3>7 DEF Mine
      <3>10. SlotOf(s)'
        BY <2>1, <3>3, <3>5, <3>6, <3>9 DEF SlotOf
      <3> QED
        BY <3>5, <3>6, <3>8, <3>10, OthersKeepTheirs DEF ExtractorInv, ServerStep
    <2> QED
      BY <1>8, <2>2, <2>3 DEF Spawn
  <1>9. CASE Hold(s)
    <2>1. worker[s] \in [pc : {"hold"}, chunk : Chunk, child : Nat] /\ slot[s] = None /\ worker[s].child \in DOMAIN children
      BY <1>0, <1>9, Busy DEF Hold, SlotOf, Starting
    <2>2. [pc |-> "poll", chunk |-> worker[s].chunk, child |-> worker[s].child, polls |-> 0] \in WorkerState
      BY <2>1 DEF WorkerState
    <2>3. children' = children /\ UNCHANGED <<life, queue, fate>> /\ slot' = [slot EXCEPT ![s] = worker[s].child]
      BY <1>9, <2>1 DEF Hold, Killed
    <2>4. /\ ExtractorOK' /\ worker'[s] = [pc |-> "poll", chunk |-> worker[s].chunk, child |-> worker[s].child, polls |-> 0]
          /\ \A t \in Server : t # s => worker'[t] = worker[t] /\ slot'[t] = slot[t]
      BY <1>0, <1>1, <1>9, <2>1, <2>2, <2>3, WorkerTyped DEF Hold
    <2>5. slot'[s] = worker[s].child
      BY <1>1, <2>3
    <2>6. \A t \in Server : Mine(t)' = Mine(t)
      BY <2>3 DEF Mine
    <2>7. SlotOf(s)'
      BY <1>0, <1>9, <2>3, <2>4, <2>5, <2>6 DEF SlotOf, Starting, Hold
    <2> QED
      BY <2>3, <2>4, <2>6, <2>7, OthersKeepTheirs DEF ExtractorInv, ServerStep
  <1>10. CASE GiveUp(s)
    <2>1. With(s, Resting) /\ Resting \in WorkerState /\ Resting.pc = "idle" /\ fate' \in [Chunk -> Fates]
      BY <1>0, <1>10, RestsTyped DEF GiveUp, Fates
    <2>2. ChildrenKept /\ (slot[s] # None => children'[slot[s]].status = "gone")
      BY <1>0, <1>1, <1>10, Kill DEF GiveUp
    <2>3. /\ children' \in Seq(Child) /\ DOMAIN children' = DOMAIN children
          /\ UNCHANGED <<life, queue>> /\ slot' = [slot EXCEPT ![s] = None]
      BY <1>10, <2>2 DEF GiveUp, ChildrenKept
    <2>4. /\ ExtractorOK' /\ worker'[s] = Resting
          /\ \A t \in Server : t # s => worker'[t] = worker[t] /\ slot'[t] = slot[t]
      BY <1>0, <1>1, <2>1, <2>3, WorkerTyped
    <2>5. \A t \in Server : Mine(t)' \subseteq Mine(t)
      BY <2>2, KeptIsMine
    <2>6. \A i \in Mine(s) : i = slot[s] /\ i # None
      BY <1>0, <1>10, ChildFacts DEF SlotOf, GiveUp, Mine
    <2>7. Mine(s)' = {}
      BY <2>2, <2>5, <2>6 DEF Mine
    <2>8. SlotOf(s)'
      BY <2>1, <2>4, <2>7 DEF SlotOf, Starting
    <2> QED
      BY <2>3, <2>4, <2>5, <2>8, OthersKeepTheirs DEF ExtractorInv, ServerStep
  <1> QED
    BY <1>2, <1>3, <1>4, <1>5, <1>6, <1>7, <1>8, <1>9, <1>10 DEF WorkerStep

LEMMA Enqueues ==
  ASSUME ExtractorInv, NEW s \in Server, NEW chunk \in Chunk, Enqueue(s, chunk)
  PROVE  ExtractorInv'
  <1>0. queue \in [Server -> Seq(Chunk)] /\ fate \in [Chunk -> Fates]
    BY DEF ExtractorInv, ExtractorOK, ExtractorTypeOK
  <1>1. queue' \in [Server -> Seq(Chunk)] /\ fate' \in [Chunk -> Fates]
    <2>1. Append(queue[s], chunk) \in Seq(Chunk)
      BY <1>0, AppendProperties
    <2>2. queue' = queue \/ queue' = [queue EXCEPT ![s] = Append(queue[s], chunk)]
      BY DEF Enqueue
    <2>3. \E end \in Fates : fate' = [fate EXCEPT ![chunk] = end]
      BY DEF Enqueue, Fates
    <2> QED
      BY <1>0, <2>1, <2>2, <2>3
  <1>2. UNCHANGED <<life, worker, slot, children>>
    BY DEF Enqueue
  <1>3. ExtractorOK'
    BY <1>1, <1>2 DEF ExtractorInv, ExtractorOK, ExtractorTypeOK
  <1>4. SlotOK'
    BY <1>2 DEF ExtractorInv, SlotOK, SlotOf, Starting, Mine
  <1> QED
    BY <1>3, <1>4 DEF ExtractorInv

LEMMA ChildrenMove ==
  ASSUME ExtractorInv, NEW i \in DOMAIN children, ChildLoads(i) \/ ChildHangs(i) \/ ChildDies(i)
  PROVE  ExtractorInv'
  <1>1. PICK status \in {"hung", "ready", "gone"} : children' = [children EXCEPT ![i] = [children[i] EXCEPT !.status = status]]
    BY DEF ChildLoads, ChildHangs, ChildDies
  <1>2. UNCHANGED <<life, queue, worker, slot, fate>> /\ children[i].status # "gone"
    BY DEF ChildLoads, ChildHangs, ChildDies
  <1>3. children[i] \in Child
    BY ChildFacts DEF ExtractorInv
  <1>4. [children[i] EXCEPT !.status = status] \in Child /\ [children[i] EXCEPT !.status = status].of = children[i].of
    BY <1>3 DEF Child, ChildStatus
  <1>5. children' \in Seq(Child) /\ DOMAIN children' = DOMAIN children
    BY <1>1, <1>4, ExceptSeq DEF ExtractorInv, ExtractorOK, ExtractorTypeOK
  <1>6. children'[i] = [children[i] EXCEPT !.status = status] /\ \A j \in DOMAIN children : j # i => children'[j] = children[j]
    BY <1>1
  <1>7. ChildrenKept
    BY <1>2, <1>4, <1>5, <1>6 DEF ChildrenKept
  <1>8. \A t \in Server : Mine(t)' \subseteq Mine(t)
    BY <1>7, KeptIsMine
  <1>9. ExtractorOK'
    BY <1>2, <1>5 DEF ExtractorInv, ExtractorOK, ExtractorTypeOK
  <1>10. SlotOK'
    BY <1>2, <1>5, <1>8 DEF ExtractorInv, SlotOK, SlotOf, Starting
  <1> QED
    BY <1>9, <1>10 DEF ExtractorInv

LEMMA ShutsDown ==
  ASSUME ExtractorInv, NEW s \in Server, Shutdown(s)
  PROVE  ExtractorInv'
  <1>1. ExtractorOK /\ SlotOf(s) /\ slot[s] \in {None} \cup DOMAIN children /\ None \notin Nat
    BY ChildFacts DEF ExtractorInv, SlotOK, ExtractorOK, ExtractorTypeOK
  <1>2. ChildrenKept /\ (slot[s] # None => children'[slot[s]].status = "gone")
    BY <1>1, Kill DEF Shutdown
  <1>3. UNCHANGED <<queue, worker, fate>> /\ slot' = [slot EXCEPT ![s] = None] /\ life' = [life EXCEPT ![s] = "ending"]
    BY DEF Shutdown
  <1>4. \A t \in Server : Mine(t)' \subseteq Mine(t)
    BY <1>2, KeptIsMine
  <1>5. ExtractorOK'
    BY <1>1, <1>2, <1>3 DEF ExtractorOK, ExtractorTypeOK, ChildrenKept
  <1>6. slot'[s] = None /\ \A t \in Server : t # s => slot'[t] = slot[t]
    BY <1>1, <1>3 DEF ExtractorOK, ExtractorTypeOK
  <1>7. ServerStep(s)
    BY <1>2, <1>3, <1>4, <1>6 DEF ServerStep, ChildrenKept
  <1>8. SlotOf(s)'
    <2>1. CASE worker[s].pc = "hold"
      BY <1>1, <1>2, <1>3, <1>4, <1>6, <2>1 DEF SlotOf, Starting, ChildrenKept
    <2>2. CASE worker[s].pc # "hold"
      <3>1. \A i \in Mine(s) : i = slot[s] /\ i # None
        BY <1>1, <2>2, ChildFacts DEF SlotOf, Mine
      <3>2. Mine(s)' = {}
        BY <1>2, <1>4, <3>1 DEF Mine
      <3> QED
        BY <1>3, <1>6, <2>2, <3>2 DEF SlotOf, Starting
    <2> QED
      BY <2>1, <2>2
  <1> QED
    BY <1>5, <1>7, <1>8, OthersKeepTheirs DEF ExtractorInv

LEMMA Forgets ==
  ASSUME ExtractorInv, NEW s \in Server, Forgotten(s)
  PROVE  ExtractorInv' /\ life' = [life EXCEPT ![s] = "off"]
  <1>1. ExtractorOK
    BY DEF ExtractorInv
  <1>2. ASSUME NEW i \in DOMAIN children
        PROVE  children[i] \in Child /\ [children[i] EXCEPT !.status = "gone"] \in Child
               /\ [children[i] EXCEPT !.status = "gone"].of = children[i].of
               /\ [children[i] EXCEPT !.status = "gone"].status = "gone"
    <2>1. children[i] \in Child
      BY <1>1, ChildFacts
    <2> QED
      BY <2>1 DEF Child, ChildStatus
  <1>3. children' = [i \in 1 .. Len(children) |->
           IF children[i].of = s THEN [children[i] EXCEPT !.status = "gone"] ELSE children[i]]
    BY <1>1, ChildFacts DEF Forgotten
  <1>4. DOMAIN children' = 1 .. Len(children) /\ DOMAIN children = 1 .. Len(children) /\ Len(children) \in Nat
    BY <1>1, <1>3, ChildFacts
  <1>5. \A i \in DOMAIN children : /\ children'[i] \in Child /\ children'[i].of = children[i].of
                                   /\ children'[i].status # "gone" => children[i].status # "gone" /\ children[i].of # s
    BY <1>2, <1>3, <1>4
  <1>6. children' \in Seq(Child)
    BY <1>3, <1>4, <1>5, SeqDef
  <1>7. ChildrenKept
    BY <1>4, <1>5, <1>6 DEF ChildrenKept
  <1>8. (\A t \in Server : Mine(t)' \subseteq Mine(t)) /\ Mine(s)' = {}
    BY <1>4, <1>5, <1>7, KeptIsMine DEF Mine
  <1>9. /\ life' = [life EXCEPT ![s] = "off"] /\ queue' = [queue EXCEPT ![s] = << >>]
        /\ worker' = [worker EXCEPT ![s] = Resting] /\ slot' = [slot EXCEPT ![s] = None]
    BY DEF Forgotten
  <1>10. fate' \in [Chunk -> Fates]
    <2>1. PICK held : fate' = [c \in Chunk |-> IF c \in held THEN "lost" ELSE fate[c]]
      BY DEF Forgotten
    <2> QED
      BY <1>1, <2>1 DEF ExtractorOK, ExtractorTypeOK, Fates
  <1>11. queue' \in [Server -> Seq(Chunk)]
    BY <1>1, <1>9, EmptySeq DEF ExtractorOK, ExtractorTypeOK
  <1>12. worker' \in [Server -> WorkerState] /\ worker'[s] = Resting /\ \A t \in Server : t # s => worker'[t] = worker[t]
    BY <1>1, <1>9 DEF ExtractorOK, WorkerState
  <1>13. slot' \in [Server -> {None} \cup DOMAIN children'] /\ slot'[s] = None /\ \A t \in Server : t # s => slot'[t] = slot[t]
    BY <1>1, <1>4, <1>9 DEF ExtractorOK, ExtractorTypeOK
  <1>14. ExtractorOK'
    BY <1>1, <1>6, <1>9, <1>10, <1>11, <1>12, <1>13 DEF ExtractorOK, ExtractorTypeOK
  <1>15. ServerStep(s) /\ SlotOf(s)'
    BY <1>4, <1>8, <1>12, <1>13 DEF ServerStep, SlotOf, Starting, Resting
  <1> QED
    BY <1>9, <1>14, <1>15, OthersKeepTheirs DEF ExtractorInv

-----------------------------------------------------------------------------
(* What doctor fetches.                                                    *)

\* Others work: nothing of the files, and no fetch goes on.
DoctorFrame ==
  /\ UNCHANGED downloadVars
  /\ \A u \in User : InModel(u) \/ InModel(u)' => work'[u] = work[u]
  /\ \A u \in User : At(u, "doctor", "copy") => work'[u] = work[u]

LEMMA DoctorFrameHolds ==
  ASSUME DownloadsInv, DoctorFrame
  PROVE  DownloadsInv'
  <1>1. UNCHANGED <<pinned, have, marker, astray>>
    BY DEF DoctorFrame, downloadVars
  <1>2. DownloadsTypeOK' /\ PinnedOK'
    BY <1>1 DEF DownloadsInv, DownloadsTypeOK, PinnedOK
  <1>3. ASSUME CutOK PROVE CutOK'
    BY <1>1, <1>3 DEF CutOK, DoctorFrame, At
  <1>4. \A u \in User : (InModel(u) <=> InModel(u)') /\ (InModel(u) => work'[u] = work[u])
    BY DEF DoctorFrame, InModel, Doctoring
  <1>5. ASSUME ModelOK PROVE ModelOK'
    BY <1>1, <1>4, <1>5 DEF ModelOK, Agreed, ModelInHand, PinnedModel
  <1> QED
    BY <1>1, <1>2, <1>3, <1>5 DEF DownloadsInv

LEMMA PairTail ==
  ASSUME NEW S, NEW x \in S, NEW y \in S
  PROVE  Tail(<<x, y>>) = <<y>>
  <1> DEFINE s == <<x, y>>
  <1>1. s \in Seq(S)
    OBVIOUS
  <1>2. <<y>> \in Seq(S)
    OBVIOUS
  <1>3. Len(s) = 2 /\ s[2] = y
    OBVIOUS
  <1>4. Len(<<y>>) = 1 /\ <<y>>[1] = y
    OBVIOUS
  <1>5. s # << >>
    OBVIOUS
  <1> HIDE DEF s
  <1>6. Tail(s) \in Seq(S) /\ Len(Tail(s)) = Len(s) - 1 /\ \A i \in 1 .. Len(Tail(s)) : Tail(s)[i] = s[i + 1]
    BY <1>1, <1>5, HeadTailProperties
  <1>7. Len(Tail(s)) = Len(s) - 1
    BY <1>6
  <1>8. Len(Tail(s)) = 1
    BY <1>3, <1>7
  <1>9. ASSUME NEW i \in 1 .. Len(Tail(s)) PROVE Tail(s)[i] = <<y>>[i]
    <2>1. 1 .. Len(Tail(s)) = 1 .. 1
      BY <1>8
    <2>2. i = 1 /\ i + 1 = 2
      BY <2>1
    <2>3. Tail(s)[i] = s[2]
      BY <1>6, <2>2
    <2> QED
      BY <1>3, <1>4, <2>2, <2>3
  <1>10. Tail(s) = <<y>>
    BY <1>2, <1>4, <1>6, <1>8, <1>9, SeqEqual
  <1> QED
    BY <1>10 DEF s

LEMMA Singles ==
  /\ Tail(<<"qdrant">>) = << >> /\ Head(<<"qdrant">>) = "qdrant" /\ <<"qdrant">> # << >>
  /\ Tail(<<"ort">>) = << >> /\ Head(<<"ort">>) = "ort" /\ <<"ort">> # << >>
  /\ Tail(<<"tokenizer">>) = << >> /\ Head(<<"tokenizer">>) = "tokenizer" /\ <<"tokenizer">> # << >>
  /\ Tail(<<"reranker tokenizer">>) = << >> /\ Head(<<"reranker tokenizer">>) = "reranker tokenizer"
  /\ <<"reranker tokenizer">> # << >>
  OBVIOUS

LEMMA Pairs ==
  /\ Tail(<<"model.onnx", "tokenizer">>) = <<"tokenizer">> /\ Head(<<"model.onnx", "tokenizer">>) = "model.onnx"
  /\ <<"model.onnx", "tokenizer">> # << >> /\ <<"model.onnx", "tokenizer">> # <<"tokenizer">>
  /\ Tail(<<"reranker.onnx", "reranker tokenizer">>) = <<"reranker tokenizer">>
  /\ Head(<<"reranker.onnx", "reranker tokenizer">>) = "reranker.onnx"
  /\ <<"reranker.onnx", "reranker tokenizer">> # << >>
  <1>1. /\ "model.onnx" \in Fetched /\ "tokenizer" \in Fetched /\ "reranker.onnx" \in Fetched
        /\ "reranker tokenizer" \in Fetched
    BY DEF Fetched
  <1>2. Tail(<<"model.onnx", "tokenizer">>) = <<"tokenizer">>
    BY <1>1, PairTail, Zenon
  <1>3. Tail(<<"reranker.onnx", "reranker tokenizer">>) = <<"reranker tokenizer">>
    BY <1>1, PairTail, Zenon
  <1>4. /\ Head(<<"model.onnx", "tokenizer">>) = "model.onnx" /\ <<"model.onnx", "tokenizer">> # << >>
        /\ Head(<<"reranker.onnx", "reranker tokenizer">>) = "reranker.onnx"
        /\ <<"reranker.onnx", "reranker tokenizer">> # << >>
    OBVIOUS
  <1>5. <<"model.onnx", "tokenizer">> # <<"tokenizer">>
    OBVIOUS
  <1> QED
    BY <1>2, <1>3, <1>4, <1>5

\* The fetches of each stage, and what comes after the first of them.
LEMMA AllFacts ==
  /\ All(1) # << >> /\ Tail(All(1)) = << >> /\ Head(All(1)) = "qdrant"
  /\ All(2) # << >> /\ Tail(All(2)) = << >> /\ Head(All(2)) = "ort"
  /\ All(3) # << >> /\ Tail(All(3)) # << >> /\ Tail(Tail(All(3))) = << >> /\ Tail(All(3)) # All(3)
  /\ Head(All(3)) = "model.onnx" /\ Head(Tail(All(3))) = "tokenizer"
  /\ All(4) # << >> /\ Tail(All(4)) # << >> /\ Tail(Tail(All(4))) = << >>
  /\ Head(All(4)) = "reranker.onnx" /\ Head(Tail(All(4))) = "reranker tokenizer"
  <1>1. Stages[1] = "store" /\ Stages[2] = "runtime" /\ Stages[3] = "model" /\ Stages[4] = "reranker"
    BY DEF Stages
  <1>2. /\ Fetches["store"] = <<"qdrant">> /\ Fetches["runtime"] = <<"ort">>
        /\ Fetches["model"] = <<"model.onnx", "tokenizer">>
        /\ Fetches["reranker"] = <<"reranker.onnx", "reranker tokenizer">>
    BY DEF Fetches
  <1>3. /\ All(1) = <<"qdrant">> /\ All(2) = <<"ort">> /\ All(3) = <<"model.onnx", "tokenizer">>
        /\ All(4) = <<"reranker.onnx", "reranker tokenizer">>
    BY <1>1, <1>2 DEF All
  <1> QED
    BY <1>3, Singles, Pairs, Zenon

\* What is left of a stage, and the next of it.
LEMMA TodoFacts ==
  ASSUME NEW stage \in 1 .. 5
  PROVE  /\ << >> \in Todo(stage)
         /\ stage \in 1 .. 4 => All(stage) \in Todo(stage) /\ All(stage) # << >>
         /\ \A todo \in Todo(stage) : todo # << >> =>
              /\ Tail(todo) \in Todo(stage) /\ Head(todo) \in Fetched /\ stage \in 1 .. 4
              /\ Head(todo) \in Archived <=> stage \in {1, 2}
              /\ Head(todo) \in {"model.onnx", "tokenizer"} <=> stage = 3
         /\ \A todo \in Todo(3) : todo # All(3) /\ todo # << >> => Head(todo) = "tokenizer" /\ Tail(todo) = << >>
  <1>1. << >> \in Todo(stage) /\ (stage \in 1 .. 4 => All(stage) \in Todo(stage) /\ All(stage) # << >>)
    <2>1. << >> \in Todo(stage) /\ (stage \in 1 .. 4 => All(stage) \in Todo(stage))
      BY DEF Todo
    <2>2. stage \in 1 .. 4 => stage = 1 \/ stage = 2 \/ stage = 3 \/ stage = 4
      OBVIOUS
    <2>3. All(1) # << >> /\ All(2) # << >> /\ All(3) # << >> /\ All(4) # << >>
      BY AllFacts
    <2>4. stage \in 1 .. 4 => All(stage) # << >>
      BY <2>2, <2>3
    <2> QED
      BY <2>1, <2>4
  <1>2. ASSUME NEW todo \in Todo(stage), todo # << >>
        PROVE  /\ Tail(todo) \in Todo(stage) /\ Head(todo) \in Fetched /\ stage \in 1 .. 4
               /\ Head(todo) \in Archived <=> stage \in {1, 2}
               /\ Head(todo) \in {"model.onnx", "tokenizer"} <=> stage = 3
    <2>1. stage \in 1 .. 4 /\ (todo = All(stage) \/ todo = Tail(All(stage))) /\ << >> \in Todo(stage)
          /\ Tail(All(stage)) \in Todo(stage)
      BY <1>2 DEF Todo
    <2>2. stage = 1 \/ stage = 2 \/ stage = 3 \/ stage = 4
      BY <2>1
    <2>3. Tail(todo) \in Todo(stage)
      BY <1>2, <2>1, <2>2, AllFacts
    <2> QED
      BY <1>2, <2>1, <2>2, <2>3, AllFacts DEF Fetched, Archived
  <1>3. ASSUME NEW todo \in Todo(3), todo # All(3), todo # << >>
        PROVE  Head(todo) = "tokenizer" /\ Tail(todo) = << >>
    <2>1. todo = Tail(All(3))
      BY <1>3 DEF Todo
    <2> QED
      BY <2>1, AllFacts
  <1> QED
    BY <1>1, <1>2, <1>3

\* A record of a pass with one field changed.
LEMMA SetPc ==
  ASSUME NEW d \in DoctorRecord, NEW pc \in DoctorPcs, NEW e, e = [d EXCEPT !.pc = pc]
  PROVE  e \in DoctorRecord /\ e.pc = pc /\ e.stage = d.stage /\ e.variant = d.variant /\ e.todo = d.todo /\ e.forced = d.forced
  BY DEF DoctorRecord

LEMMA SetStage ==
  ASSUME NEW d \in DoctorRecord, NEW stage \in 1 .. 5, NEW e, e = [d EXCEPT !.stage = stage]
  PROVE  e \in DoctorRecord /\ e.stage = stage /\ e.pc = d.pc /\ e.variant = d.variant
  BY DEF DoctorRecord

LEMMA SetTodo ==
  ASSUME NEW d \in DoctorRecord, NEW todo \in UNION {Todo(i) : i \in 1 .. 5}, NEW e, e = [d EXCEPT !.todo = todo]
  PROVE  e \in DoctorRecord /\ e.todo = todo /\ e.pc = d.pc /\ e.stage = d.stage /\ e.variant = d.variant /\ e.forced = d.forced
  BY DEF DoctorRecord

LEMMA SetForced ==
  ASSUME NEW d \in DoctorRecord, NEW forced \in BOOLEAN, NEW e, e = [d EXCEPT !.forced = forced]
  PROVE  e \in DoctorRecord /\ e.forced = forced /\ e.pc = d.pc /\ e.stage = d.stage /\ e.variant = d.variant /\ e.todo = d.todo
  BY DEF DoctorRecord

\* The states a pass goes to.
LEMMA NextStageTo ==
  ASSUME NEW d \in DoctorWork, d.stage # 5
  PROVE  [d EXCEPT !.pc = "check", !.stage = d.stage + 1, !.todo = << >>, !.forced = FALSE] \in DoctorWork
         /\ [d EXCEPT !.pc = "check", !.stage = d.stage + 1, !.todo = << >>, !.forced = FALSE].pc = "check"
  <1>1. d \in DoctorRecord /\ d.stage + 1 \in 1 .. 5 /\ << >> \in UNION {Todo(i) : i \in 1 .. 5}
    BY DEF DoctorWork, DoctorRecord, Todo
  <1> DEFINE d1 == [d EXCEPT !.pc = "check"]
             d2 == [d1 EXCEPT !.stage = d.stage + 1]
             d3 == [d2 EXCEPT !.todo = << >>]
             d4 == [d3 EXCEPT !.forced = FALSE]
  <1>2. d1 \in DoctorRecord /\ d1.pc = "check" /\ d1.stage = d.stage
    BY <1>1, SetPc DEF DoctorPcs
  <1> HIDE DEF d1
  <1>3. d2 \in DoctorRecord /\ d2.pc = "check" /\ d2.stage = d.stage + 1
    BY <1>1, <1>2, SetStage
  <1> HIDE DEF d2
  <1>4. d3 \in DoctorRecord /\ d3.pc = "check" /\ d3.stage = d.stage + 1 /\ d3.todo = << >>
    BY <1>1, <1>3, SetTodo
  <1> HIDE DEF d3
  <1>5. d4 \in DoctorRecord /\ d4.pc = "check" /\ d4.stage = d.stage + 1 /\ d4.todo = << >>
    <2>1. FALSE \in BOOLEAN /\ d4 = [d3 EXCEPT !.forced = FALSE]
      OBVIOUS
    <2> HIDE DEF d4
    <2>2. d4 \in DoctorRecord /\ d4.pc = d3.pc /\ d4.stage = d3.stage /\ d4.todo = d3.todo
      BY <1>4, <2>1, SetForced, Zenon
    <2> QED
      BY <1>4, <2>2
  <1> HIDE DEF d4
  <1>6. d4 \in DoctorWork
    <2>1. d4.stage \in 1 .. 5 /\ << >> \in Todo(d4.stage)
      BY <1>1, <1>5, TodoFacts
    <2> QED
      BY <1>5, <2>1 DEF DoctorWork
  <1>7. [d EXCEPT !.pc = "check", !.stage = d.stage + 1, !.todo = << >>, !.forced = FALSE] = d4
    BY DEF d1, d2, d3, d4
  <1> QED
    BY <1>5, <1>6, <1>7

LEMMA StartStageTo ==
  ASSUME NEW d \in DoctorWork, d.stage # 5,
         NEW e, e = [d EXCEPT !.pc = "file", !.todo = All(d.stage),
                       !.forced = Stages[d.stage] = "model" /\ marker \notin {None, d.variant}]
  PROVE  /\ e \in DoctorWork /\ e.pc = "file" /\ e.stage = d.stage /\ e.todo = All(d.stage) /\ e.variant = d.variant
         /\ e.forced <=> Stages[d.stage] = "model" /\ marker \notin {None, d.variant}
  <1>1. d \in DoctorRecord /\ d.stage \in 1 .. 4 /\ d.stage \in 1 .. 5
    BY DEF DoctorWork, DoctorRecord
  <1>2. All(d.stage) \in Todo(d.stage)
    BY <1>1, TodoFacts
  <1>3. All(d.stage) \in UNION {Todo(i) : i \in 1 .. 5}
    BY <1>1, <1>2
  <1> DEFINE d1 == [d EXCEPT !.pc = "file"]
             d2 == [d1 EXCEPT !.todo = All(d.stage)]
  <1>4. d1 \in DoctorRecord /\ d1.pc = "file" /\ d1.stage = d.stage /\ d1.variant = d.variant
    BY <1>1, SetPc DEF DoctorPcs
  <1>5. e = [d2 EXCEPT !.forced = Stages[d.stage] = "model" /\ marker \notin {None, d.variant}]
    OBVIOUS
  <1> HIDE DEF d1
  <1>6. d2 \in DoctorRecord /\ d2.pc = "file" /\ d2.stage = d.stage /\ d2.todo = All(d.stage) /\ d2.variant = d.variant
    BY <1>3, <1>4, SetTodo
  <1> HIDE DEF d2
  <1>7. CASE Stages[d.stage] = "model" /\ marker \notin {None, d.variant}
    <2>1. e = [d2 EXCEPT !.forced = TRUE]
      BY <1>5, <1>7
    <2>2. /\ e \in DoctorRecord /\ e.pc = d2.pc /\ e.stage = d2.stage /\ e.todo = d2.todo
          /\ e.forced = TRUE /\ e.variant = d2.variant
      BY <1>6, <2>1 DEF DoctorRecord
    <2> QED
      BY <1>1, <1>2, <1>6, <1>7, <2>2 DEF DoctorWork
  <1>8. CASE ~(Stages[d.stage] = "model" /\ marker \notin {None, d.variant})
    <2>1. e = [d2 EXCEPT !.forced = FALSE]
      BY <1>5, <1>8
    <2>2. /\ e \in DoctorRecord /\ e.pc = d2.pc /\ e.stage = d2.stage /\ e.todo = d2.todo
          /\ e.forced = FALSE /\ e.variant = d2.variant
      BY <1>6, <2>1 DEF DoctorRecord
    <2> QED
      BY <1>1, <1>2, <1>6, <1>8, <2>2 DEF DoctorWork
  <1> QED
    BY <1>7, <1>8

LEMMA SkipTo ==
  ASSUME NEW d \in DoctorWork, d.pc = "file", d.todo # << >>, NEW e, e = [d EXCEPT !.todo = Tail(d.todo)]
  PROVE  /\ e \in DoctorWork /\ e.pc = "file" /\ e.stage = d.stage /\ e.todo = Tail(d.todo)
         /\ e.forced = d.forced /\ e.variant = d.variant
  <1>1. d \in DoctorRecord /\ d.stage \in 1 .. 5 /\ d.todo \in Todo(d.stage) /\ d.stage # 5
    BY DEF DoctorWork, DoctorRecord
  <1>2. Tail(d.todo) \in Todo(d.stage)
    BY <1>1, TodoFacts
  <1>3. Tail(d.todo) \in UNION {Todo(i) : i \in 1 .. 5}
    BY <1>1, <1>2
  <1>4. /\ e \in DoctorRecord /\ e.pc = d.pc /\ e.stage = d.stage /\ e.todo = Tail(d.todo)
        /\ e.forced = d.forced /\ e.variant = d.variant
    BY <1>1, <1>3 DEF DoctorRecord
  <1> QED
    BY <1>1, <1>2, <1>4 DEF DoctorWork

LEMMA PcTo ==
  ASSUME NEW d \in DoctorWork, d.todo # << >>, d.stage # 5, NEW pc \in {"arrive", "copy"},
         pc = "copy" => Head(d.todo) \in Archived, NEW e, e = [d EXCEPT !.pc = pc]
  PROVE  /\ e \in DoctorWork /\ e.pc = pc /\ e.stage = d.stage /\ e.todo = d.todo
         /\ e.forced = d.forced /\ e.variant = d.variant
  <1>1. d \in DoctorRecord /\ d.todo \in Todo(d.stage) /\ pc \in DoctorPcs
    BY DEF DoctorWork, DoctorPcs
  <1>2. /\ e \in DoctorRecord /\ e.pc = pc /\ e.stage = d.stage /\ e.todo = d.todo
        /\ e.forced = d.forced /\ e.variant = d.variant
    BY <1>1, SetPc
  <1> QED
    BY <1>1, <1>2 DEF DoctorWork

LEMMA CreateTo ==
  ASSUME NEW d \in DoctorWork, d.todo # << >>, d.stage # 5, Head(d.todo) \in Archived,
         NEW got \in Content \ {"cut"}, NEW e, e = [d EXCEPT !.pc = "create", !.got = got]
  PROVE  e \in DoctorWork /\ e.pc = "create" /\ e.stage = d.stage /\ e.todo = d.todo
  <1>1. d \in DoctorRecord /\ d.todo \in Todo(d.stage)
    BY DEF DoctorWork
  <1> DEFINE d1 == [d EXCEPT !.pc = "create"]
  <1>2. d1 \in DoctorRecord /\ d1.pc = "create" /\ d1.stage = d.stage /\ d1.todo = d.todo
    BY <1>1, SetPc DEF DoctorPcs
  <1>3. e = [d1 EXCEPT !.got = got]
    OBVIOUS
  <1> HIDE DEF d1
  <1>4. e \in DoctorRecord /\ e.pc = d1.pc /\ e.stage = d1.stage /\ e.todo = d1.todo
    BY <1>2, <1>3 DEF DoctorRecord
  <1> QED
    BY <1>1, <1>2, <1>4 DEF DoctorWork

LEMMA NextFileTo ==
  ASSUME NEW d \in DoctorWork, d.todo # << >>, d.stage # 5,
         NEW e, e = [d EXCEPT !.pc = "file", !.todo = Tail(d.todo)]
  PROVE  e \in DoctorWork /\ e.pc = "file" /\ e.stage = d.stage /\ e.todo = Tail(d.todo) /\ e.variant = d.variant
  <1>1. d \in DoctorRecord /\ d.stage \in 1 .. 5 /\ d.todo \in Todo(d.stage)
    BY DEF DoctorWork, DoctorRecord
  <1>2. Tail(d.todo) \in Todo(d.stage)
    BY <1>1, TodoFacts
  <1>3. Tail(d.todo) \in UNION {Todo(i) : i \in 1 .. 5}
    BY <1>1, <1>2
  <1> DEFINE d1 == [d EXCEPT !.pc = "file"]
  <1>4. d1 \in DoctorRecord /\ d1.pc = "file" /\ d1.stage = d.stage /\ d1.variant = d.variant
    BY <1>1, SetPc DEF DoctorPcs
  <1>5. e = [d1 EXCEPT !.todo = Tail(d.todo)]
    OBVIOUS
  <1> HIDE DEF d1
  <1>6. e \in DoctorRecord /\ e.pc = d1.pc /\ e.stage = d1.stage /\ e.todo = Tail(d.todo) /\ e.variant = d1.variant
    BY <1>3, <1>4, <1>5 DEF DoctorRecord
  <1> QED
    BY <1>1, <1>2, <1>4, <1>6 DEF DoctorWork

\* What becomes of a pass with one step, and that there is no other.
LEMMA DoctorGoes ==
  ASSUME WorkOK, NEW u \in User, Doctoring(u), NEW c \in {Idle} \cup DoctorWork, Go(u, c)
  PROVE  /\ work'[u] = c /\ c \in Commands /\ DoctorTurn(u) /\ UNCHANGED <<calls, faults>>
         /\ \A v \in User : v # u => work'[v] = work[v] /\ ~Doctoring(v)
  <1>1. work \in [User -> Commands] /\ \A v \in User : Doctoring(v) => u = v
    BY DEF WorkOK
  <1>2. work'[u] = c /\ Turn(u) /\ UNCHANGED <<calls, faults>> /\ \A v \in User : v # u => work'[v] = work[v]
    BY <1>1 DEF Go, Turn
  <1>3. c \in Commands /\ (c = Idle \/ c.op = "doctor")
    BY DEF Commands, DoctorWork, DoctorRecord
  <1> QED
    BY <1>1, <1>2, <1>3 DEF DoctorTurn, Doctoring

LEMMA NextStageGoes ==
  ASSUME WorkOK, NEW u \in User, Doctoring(u), work[u].stage # 5, NextStage(u)
  PROVE  \E c \in DoctorWork : c.pc = "check" /\ Go(u, c)
  <1>1. work[u] \in DoctorWork
    BY Ops DEF WorkOK, Doctoring
  <1> QED
    BY <1>1, NextStageTo DEF NextStage

Moves(u) == \E c \in {Idle} \cup DoctorWork : Go(u, c)

LEMMA DoctorTurns ==
  ASSUME WorkOK, DownloadsTypeOK, NEW u \in User, DoctorStep(u)
  PROVE  work[u] \in DoctorWork /\ Doctoring(u) /\ Moves(u)
  <1>1. Doctoring(u)
    BY DEF DoctorStep, DoctorCheck, DoctorFile, DoctorArrive, DoctorCreate, DoctorCopy, At, Doctoring
  <1>2. work[u] \in DoctorWork
    BY <1>1, Ops DEF WorkOK, Doctoring
  <1> SUFFICES Moves(u)
    BY <1>1, <1>2
  <1>3. /\ work[u].stage \in 1 .. 5 /\ work[u].todo \in Todo(work[u].stage) /\ Len(Stages) = 4
        /\ work[u].variant \in Variant /\ work[u].got \in Content \ {"cut"}
    BY <1>2 DEF DoctorWork, DoctorRecord, Stages
  <1>4. work[u].stage # 5 /\ NextStage(u) => Moves(u)
    BY <1>1, NextStageGoes DEF Moves
  <1>10. ASSUME NEW c, c = Idle \/ c \in DoctorWork, Go(u, c)
         PROVE  Moves(u)
    BY <1>10 DEF Moves
  <1>5. CASE DoctorCheck(u)
    <2>1. CASE work[u].stage = 5
      BY <1>3, <1>5, <1>10, <2>1 DEF DoctorCheck, Answer
    <2>2. CASE work[u].stage # 5
      <3>1. PICK e : e = [work[u] EXCEPT !.pc = "file", !.todo = All(work[u].stage),
                            !.forced = Stages[work[u].stage] = "model" /\ marker \notin {None, work[u].variant}]
        OBVIOUS
      <3>2. NextStage(u) \/ Go(u, e)
        BY <1>3, <1>5, <2>2, <3>1 DEF DoctorCheck, All
      <3>3. e \in DoctorWork
        BY <1>2, <2>2, <3>1, StartStageTo
      <3> QED
        BY <1>4, <1>10, <2>2, <3>2, <3>3
    <2> QED
      BY <2>1, <2>2
  <1>6. CASE DoctorFile(u)
    <2>1. work[u].pc = "file" /\ work[u].stage # 5
      BY <1>2, <1>6 DEF DoctorFile, At, DoctorWork
    <2>2. CASE work[u].todo = << >>
      BY <1>4, <1>6, <2>1, <2>2 DEF DoctorFile, At
    <2>3. CASE work[u].todo # << >>
      <3>1. [work[u] EXCEPT !.todo = Tail(work[u].todo)] \in DoctorWork
        BY <1>2, <2>1, <2>3, SkipTo
      <3>2. [work[u] EXCEPT !.pc = "arrive"] \in DoctorWork
        BY <1>2, <2>1, <2>3, PcTo
      <3> QED
        BY <1>6, <1>10, <2>3, <3>1, <3>2 DEF DoctorFile, GoTo
    <2> QED
      BY <2>2, <2>3
  <1>7. CASE DoctorArrive(u)
    <2>1. work[u].pc = "arrive" /\ work[u].stage # 5 /\ work[u].todo # << >>
      BY <1>2, <1>7 DEF DoctorArrive, At, DoctorWork
    <2>2. [work[u] EXCEPT !.pc = "file", !.todo = Tail(work[u].todo)] \in DoctorWork
      BY <1>2, <2>1, NextFileTo
    <2>3. ASSUME NEW content \in {Meant(Head(work[u].todo), work[u].variant), "other"}, Head(work[u].todo) \in Archived
          PROVE  [work[u] EXCEPT !.pc = "create", !.got = content] \in DoctorWork
      <3>1. content \in Content \ {"cut"}
        BY <1>3 DEF Meant, Content, Variant
      <3> QED
        BY <1>2, <2>1, <2>3, <3>1, CreateTo
    <2> QED
      BY <1>4, <1>7, <1>10, <2>1, <2>2, <2>3 DEF DoctorArrive
  <1>8. CASE DoctorCreate(u)
    <2>1. work[u].stage # 5 /\ work[u].todo # << >> /\ Head(work[u].todo) \in Archived
      BY <1>2, <1>8 DEF DoctorCreate, At, DoctorWork
    <2>2. [work[u] EXCEPT !.pc = "copy"] \in DoctorWork
      BY <1>2, <2>1, PcTo
    <2> QED
      BY <1>4, <1>8, <1>10, <2>1, <2>2 DEF DoctorCreate, GoTo
  <1>9. CASE DoctorCopy(u)
    <2>1. work[u].stage # 5 /\ work[u].todo # << >>
      BY <1>2, <1>9 DEF DoctorCopy, At, DoctorWork
    <2>2. [work[u] EXCEPT !.pc = "file", !.todo = Tail(work[u].todo)] \in DoctorWork
      BY <1>2, <2>1, NextFileTo
    <2> QED
      BY <1>4, <1>9, <1>10, <2>1, <2>2 DEF DoctorCopy
  <1> QED
    BY <1>1, <1>2, <1>5, <1>6, <1>7, <1>8, <1>9 DEF DoctorStep

\* The invariant of the files, with u's the only pass.
FilesHeld(u) ==
  /\ \A file \in Fetched : have[file] = "cut" => At(u, "doctor", "copy") /\ Head(work[u].todo) = file
  /\ IF InModel(u) THEN ModelInHand(u) ELSE Agreed

LEMMA OnePass ==
  ASSUME NEW u \in User, \A v \in User : v # u => ~Doctoring(v)
  PROVE  CutOK /\ ModelOK <=> FilesHeld(u)
  BY DEF CutOK, ModelOK, FilesHeld, InModel, Doctoring, At

LEMMA OnePassNext ==
  ASSUME NEW u \in User, \A v \in User : v # u => ~Doctoring(v)'
  PROVE  FilesHeld(u)' => CutOK' /\ ModelOK'
  BY DEF CutOK, ModelOK, FilesHeld, InModel, Doctoring, At

LEMMA DoctorSteps ==
  ASSUME WorkOK, DownloadsInv, NEW u \in User, DoctorStep(u)
  PROVE  DownloadsInv' /\ DoctorTurn(u) /\ work'[u] \in Commands /\ UNCHANGED <<calls, faults>>
  <1>1. /\ pinned \subseteq Fetched /\ have \in [Fetched -> Content \cup {None}] /\ marker \in Variant \cup {None}
        /\ astray \in BOOLEAN /\ PinnedOK /\ (~astray => CutOK /\ ModelOK) /\ None \notin Content
    BY DownloadsAssumption DEF DownloadsInv, DownloadsTypeOK
  <1>2. work[u] \in DoctorWork /\ Doctoring(u) /\ Moves(u)
    BY DoctorTurns DEF DownloadsInv
  <1>3. PICK c \in {Idle} \cup DoctorWork : Go(u, c)
    BY <1>2 DEF Moves
  <1>4. /\ work'[u] = c /\ DoctorTurn(u) /\ work'[u] \in Commands /\ UNCHANGED <<calls, faults>>
        /\ \A v \in User : v # u => ~Doctoring(v) /\ ~Doctoring(v)'
    BY <1>2, <1>3, DoctorGoes DEF Doctoring
  <1>5. SUFFICES /\ UNCHANGED pinned /\ have' \in [Fetched -> Content \cup {None}] /\ marker' \in Variant \cup {None}
                 /\ PinnedOK' /\ (astray' = TRUE \/ (astray' = astray /\ (FilesHeld(u) => FilesHeld(u)')))
    <2>1. DownloadsTypeOK' /\ PinnedOK'
      BY <1>1, <1>5 DEF DownloadsTypeOK
    <2>2. ASSUME ~astray' PROVE CutOK' /\ ModelOK'
      <3>1. ~astray /\ (FilesHeld(u) => FilesHeld(u)')
        BY <1>5, <2>2
      <3>2. FilesHeld(u)
        BY <1>1, <1>4, <3>1, OnePass
      <3> QED
        BY <1>4, <3>1, <3>2, OnePassNext
    <2> QED
      BY <1>4, <2>1, <2>2 DEF DownloadsInv
  <1>6. /\ work[u].stage \in 1 .. 5 /\ work[u].todo \in Todo(work[u].stage) /\ Len(Stages) = 4
        /\ work[u].variant \in Variant /\ work[u].got \in Content \ {"cut"}
        /\ work[u].pc # "check" => work[u].stage # 5
        /\ work[u].pc \in {"arrive", "create", "copy"} => work[u].todo # << >>
        /\ work[u].pc \in {"create", "copy"} => Head(work[u].todo) \in Archived
    BY <1>2 DEF DoctorWork, DoctorRecord, Stages
  <1>7. work[u].stage \in 1 .. 4 => (Stages[work[u].stage] = "model" <=> work[u].stage = 3)
    BY <1>6 DEF Stages
  <1>8. work[u].todo # << >> =>
          /\ Head(work[u].todo) \in Fetched /\ (Head(work[u].todo) \in Archived <=> work[u].stage \in {1, 2})
          /\ Head(work[u].todo) \in {"model.onnx", "tokenizer"} <=> work[u].stage = 3
          /\ work[u].stage = 3 /\ work[u].todo # All(3) => Head(work[u].todo) = "tokenizer" /\ Tail(work[u].todo) = << >>
    BY <1>6, TodoFacts
  <1>9. All(3) # << >> /\ Head(All(3)) = "model.onnx" /\ Tail(All(3)) # All(3)
    BY AllFacts
  <1>10. work[u].stage # 5 /\ NextStage(u) => work'[u].pc = "check" /\ ~InModel(u)'
    <2>1. ASSUME work[u].stage # 5, NextStage(u) PROVE work'[u].pc = "check"
      <3>1. PICK e \in DoctorWork : e.pc = "check" /\ Go(u, e)
        BY <1>2, <2>1, NextStageGoes
      <3> QED
        BY <1>2, <3>1, DoctorGoes
    <2> QED
      BY <2>1 DEF InModel
  <1>11. UNCHANGED <<pinned, have, marker>> => PinnedOK' /\ (Agreed <=> Agreed')
    BY <1>1 DEF PinnedOK, Agreed, PinnedModel
  <1>12. CASE DoctorCheck(u)
    <2>1. UNCHANGED <<pinned, have, marker, astray>> /\ work[u].pc = "check" /\ ~InModel(u)
      BY <1>12 DEF DoctorCheck, downloadVars, At, InModel
    <2>2. SUFFICES ASSUME FilesHeld(u) PROVE FilesHeld(u)'
      BY <1>1, <1>11, <2>1
    <2>3. Agreed /\ \A file \in Fetched : have[file] # "cut"
      BY <2>1, <2>2 DEF FilesHeld, At
    <2>4. Agreed' /\ \A file \in Fetched : have'[file] # "cut"
      BY <1>11, <2>1, <2>3
    <2>5. SUFFICES ASSUME InModel(u)' PROVE ModelInHand(u)'
      BY <2>4 DEF FilesHeld
    <2>6. work[u].stage # 5 /\ ~NextStage(u)
      <3>1. ~Go(u, Idle)
        BY <1>2, <2>5, DoctorGoes DEF InModel, Doctoring, Idle
      <3>2. work[u].stage # 5
        BY <1>6, <1>12, <3>1 DEF DoctorCheck, Answer
      <3> QED
        BY <1>10, <2>5, <3>2
    <2>7. PICK e : e = [work[u] EXCEPT !.pc = "file", !.todo = All(work[u].stage),
                          !.forced = Stages[work[u].stage] = "model" /\ marker \notin {None, work[u].variant}]
      OBVIOUS
    <2>8. Go(u, e)
      BY <1>2, <1>6, <1>12, <2>5, <2>6, <2>7, DoctorGoes DEF DoctorCheck, All, Answer, InModel, Doctoring, Idle
    <2>9. /\ e \in DoctorWork /\ e.pc = "file" /\ e.stage = work[u].stage /\ e.todo = All(work[u].stage)
          /\ e.variant = work[u].variant
          /\ e.forced <=> Stages[work[u].stage] = "model" /\ marker \notin {None, work[u].variant}
      <3>1. PICK d \in DoctorWork : d = work[u]
        BY <1>2
      <3>2. d.stage # 5 /\ e = [d EXCEPT !.pc = "file", !.todo = All(d.stage),
                       !.forced = Stages[d.stage] = "model" /\ marker \notin {None, d.variant}]
        BY <2>6, <2>7, <3>1
      <3>3. /\ e \in DoctorWork /\ e.pc = "file" /\ e.stage = d.stage /\ e.todo = All(d.stage) /\ e.variant = d.variant
            /\ e.forced <=> Stages[d.stage] = "model" /\ marker \notin {None, d.variant}
        BY <3>2, StartStageTo
      <3> QED
        BY <3>1, <3>3
    <2>10. work'[u] = e
      BY <1>2, <2>8, <2>9, DoctorGoes
    <2>11. work[u].stage = 3
      BY <2>5, <2>9, <2>10 DEF InModel
    <2> QED
      BY <1>6, <1>7, <2>1, <2>4, <2>9, <2>10, <2>11 DEF ModelInHand
  <1>13. CASE DoctorFile(u)
    <2>1. work[u].pc = "file" /\ UNCHANGED <<pinned, astray>> /\ work[u].stage # 5
      BY <1>6, <1>13 DEF DoctorFile, At
    <2>2. FilesHeld(u) => (\A file \in Fetched : have[file] # "cut") /\ (IF InModel(u) THEN ModelInHand(u) ELSE Agreed)
      BY <2>1 DEF FilesHeld, At
    <2>3. InModel(u) <=> work[u].stage = 3
      BY <1>2, <2>1 DEF InModel
    <2>4. CASE work[u].todo = << >>
      <3>1. /\ marker' = IF Stages[work[u].stage] = "model" THEN work[u].variant ELSE marker
            /\ NextStage(u) /\ UNCHANGED have
        BY <1>13, <2>4 DEF DoctorFile
      <3>2. ~InModel(u)' /\ marker' \in Variant \cup {None} /\ PinnedOK'
        BY <1>1, <1>6, <1>10, <2>1, <3>1 DEF PinnedOK
      <3>3. ASSUME FilesHeld(u) PROVE Agreed'
        <4>1. CASE work[u].stage = 3
          <5>1. PinnedModel => have["model.onnx"] = work[u].variant
            BY <1>9, <2>2, <2>3, <2>4, <3>3, <4>1 DEF ModelInHand
          <5>2. marker' = work[u].variant /\ work[u].variant # None
            BY <1>1, <1>6, <1>7, <3>1, <4>1 DEF Content
          <5> QED
            BY <2>1, <3>1, <5>1, <5>2 DEF Agreed, PinnedModel
        <4>2. CASE work[u].stage # 3
          <5>1. Agreed /\ marker' = marker
            BY <1>6, <1>7, <2>1, <2>2, <2>3, <3>1, <3>3, <4>2
          <5> QED
            BY <1>11, <2>1, <3>1, <5>1
        <4> QED
          BY <4>1, <4>2
      <3> QED
        BY <1>1, <2>1, <2>2, <3>1, <3>2, <3>3 DEF FilesHeld
    <2>5. CASE work[u].todo # << >> /\ Go(u, [work[u] EXCEPT !.todo = Tail(work[u].todo)]) /\ UNCHANGED <<have, marker>>
               /\ have[Head(work[u].todo)] # None /\ ~(work[u].forced /\ Head(work[u].todo) = "model.onnx")
      <3>1. PICK e : e = [work[u] EXCEPT !.todo = Tail(work[u].todo)]
        OBVIOUS
      <3>2. /\ e \in DoctorWork /\ e.pc = "file" /\ e.stage = work[u].stage /\ e.todo = Tail(work[u].todo)
            /\ e.variant = work[u].variant
        BY <1>2, <2>1, <2>5, <3>1, SkipTo
      <3>3. work'[u] = e
        BY <1>2, <2>5, <3>1, <3>2, DoctorGoes
      <3>4. InModel(u)' <=> work[u].stage = 3
        BY <3>2, <3>3 DEF InModel, Doctoring, DoctorWork, DoctorRecord
      <3>5. ASSUME FilesHeld(u), work[u].stage = 3 PROVE ModelInHand(u)'
        <4>1. ModelInHand(u)
          BY <2>2, <2>3, <3>5
        <4>2. CASE work[u].todo = All(3)
          <5>1. Agreed /\ (work[u].forced <=> marker \notin {None, work[u].variant})
            BY <2>1, <4>1, <4>2 DEF ModelInHand
          <5>2. have["model.onnx"] # None /\ ~work[u].forced
            BY <1>9, <2>5, <4>2
          <5>3. marker = work[u].variant /\ (PinnedModel => have["model.onnx"] = marker)
            BY <5>1, <5>2 DEF Agreed
          <5> QED
            BY <1>9, <2>1, <2>5, <3>2, <3>3, <4>2, <5>3 DEF ModelInHand, PinnedModel
        <4>3. CASE work[u].todo # All(3)
          <5>1. work'[u].todo = << >> /\ (PinnedModel => have["model.onnx"] = work[u].variant)
            BY <1>8, <2>5, <3>2, <3>3, <3>5, <4>1, <4>3 DEF ModelInHand
          <5> QED
            BY <1>9, <2>1, <2>5, <3>2, <3>3, <5>1 DEF ModelInHand, PinnedModel
        <4> QED
          BY <4>2, <4>3
      <3>6. FilesHeld(u) => FilesHeld(u)'
        BY <1>11, <2>1, <2>2, <2>3, <2>5, <3>4, <3>5 DEF FilesHeld
      <3> QED
        BY <1>1, <1>11, <2>1, <2>5, <3>6
    <2>6. CASE work[u].todo # << >> /\ GoTo(u, "arrive") /\ have' = [have EXCEPT ![Head(work[u].todo)] = None]
               /\ UNCHANGED marker
      <3>1. PICK e : e = [work[u] EXCEPT !.pc = "arrive"]
        OBVIOUS
      <3>2. /\ e \in DoctorWork /\ e.pc = "arrive" /\ e.stage = work[u].stage /\ e.todo = work[u].todo
            /\ e.variant = work[u].variant
        BY <1>2, <2>1, <2>6, <3>1, PcTo
      <3>3. work'[u] = e
        BY <1>2, <2>6, <3>1, <3>2, DoctorGoes DEF GoTo
      <3>4. InModel(u)' <=> work[u].stage = 3
        BY <3>2, <3>3 DEF InModel, Doctoring, DoctorWork, DoctorRecord
      <3>5. have' \in [Fetched -> Content \cup {None}] /\ \A file \in Fetched : have'[file] \in {None, have[file]}
        BY <1>1, <2>6
      <3>6. PinnedOK'
        BY <1>1, <2>1, <3>5 DEF PinnedOK
      <3>7. Head(work[u].todo) # "model.onnx" => have'["model.onnx"] = have["model.onnx"]
        BY <1>1, <2>6 DEF Fetched
      <3>8. ASSUME FilesHeld(u), work[u].stage = 3 PROVE ModelInHand(u)'
        BY <1>8, <2>1, <2>2, <2>3, <2>6, <3>2, <3>3, <3>7, <3>8 DEF ModelInHand, PinnedModel
      <3>9. ASSUME FilesHeld(u), work[u].stage # 3 PROVE Agreed'
        BY <1>8, <2>1, <2>2, <2>3, <2>6, <3>7, <3>9 DEF Agreed, PinnedModel
      <3>10. FilesHeld(u) => FilesHeld(u)'
        <4>1. FilesHeld(u) => \A file \in Fetched : have'[file] # "cut"
          BY <1>1, <2>2, <3>5 DEF Content
        <4> QED
          BY <3>4, <3>8, <3>9, <4>1 DEF FilesHeld
      <3> QED
        BY <1>1, <2>1, <2>6, <3>5, <3>6, <3>10
    <2> QED
      BY <1>13, <2>4, <2>5, <2>6 DEF DoctorFile
  <1>14. CASE DoctorArrive(u)
    <2>1. work[u].pc = "arrive" /\ UNCHANGED <<pinned, marker>> /\ work[u].stage # 5 /\ work[u].todo # << >>
      BY <1>6, <1>14 DEF DoctorArrive, At
    <2>2. FilesHeld(u) => (\A file \in Fetched : have[file] # "cut") /\ (IF InModel(u) THEN ModelInHand(u) ELSE Agreed)
      BY <2>1 DEF FilesHeld, At
    <2>3. InModel(u) <=> work[u].stage = 3
      BY <1>2, <2>1 DEF InModel
    <2>4. CASE astray' = TRUE /\ UNCHANGED have
      BY <1>1, <1>11, <2>1, <2>4
    <2>5. ASSUME NEW content \in {Meant(Head(work[u].todo), work[u].variant), "other"}, Head(work[u].todo) \in Archived,
                 Go(u, [work[u] EXCEPT !.pc = "create", !.got = content]), UNCHANGED <<have, astray>>
          PROVE  (FilesHeld(u) => FilesHeld(u)') /\ PinnedOK'
      <3>1. content \in Content \ {"cut"}
        BY <1>6 DEF Meant, Content, Variant
      <3>2. PICK e : e = [work[u] EXCEPT !.pc = "create", !.got = content]
        OBVIOUS
      <3>3. e \in DoctorWork /\ e.stage = work[u].stage
        <4>1. PICK d \in DoctorWork : d = work[u]
          BY <1>2
        <4>2. d.todo # << >> /\ d.stage # 5 /\ Head(d.todo) \in Archived /\ e = [d EXCEPT !.pc = "create", !.got = content]
          BY <2>1, <2>5, <3>2, <4>1
        <4>3. e \in DoctorWork /\ e.stage = d.stage
          BY <3>1, <4>2, CreateTo
        <4> QED
          BY <4>1, <4>3
      <3>4. work'[u] = e
        BY <1>2, <2>5, <3>2, <3>3, DoctorGoes
      <3>5. ~InModel(u) /\ ~InModel(u)'
        BY <1>8, <2>1, <2>3, <2>5, <3>3, <3>4 DEF InModel
      <3> QED
        BY <1>11, <2>1, <2>2, <2>5, <3>5 DEF FilesHeld
    <2>6. ASSUME NEW content \in {Meant(Head(work[u].todo), work[u].variant), "other"}, Head(work[u].todo) \notin Archived,
                 Passes(Head(work[u].todo), content, work[u].variant),
                 have' = [have EXCEPT ![Head(work[u].todo)] = content], UNCHANGED astray,
                 Go(u, [work[u] EXCEPT !.pc = "file", !.todo = Tail(work[u].todo)])
          PROVE  (FilesHeld(u) => FilesHeld(u)') /\ PinnedOK' /\ have' \in [Fetched -> Content \cup {None}]
      <3>1. content \in Content /\ content # "cut" /\ Head(work[u].todo) \in Fetched
        BY <1>6, <1>8, <2>1 DEF Meant, Content, Variant
      <3>2. PICK e : e = [work[u] EXCEPT !.pc = "file", !.todo = Tail(work[u].todo)]
        OBVIOUS
      <3>3. /\ e \in DoctorWork /\ e.pc = "file" /\ e.stage = work[u].stage /\ e.todo = Tail(work[u].todo)
            /\ e.variant = work[u].variant
        BY <1>2, <2>1, <3>2, NextFileTo
      <3>4. work'[u] = e
        BY <1>2, <2>6, <3>2, <3>3, DoctorGoes
      <3>5. InModel(u)' <=> work[u].stage = 3
        BY <3>3, <3>4 DEF InModel, Doctoring, DoctorWork, DoctorRecord
      <3>6. /\ have' \in [Fetched -> Content \cup {None}] /\ have'[Head(work[u].todo)] = content
            /\ \A file \in Fetched : file # Head(work[u].todo) => have'[file] = have[file]
        BY <1>1, <2>6, <3>1
      <3>7. PinnedOK'
        <4>1. Head(work[u].todo) \in pinned => content \in {"meant"} \cup Variant
          BY <1>6, <2>6 DEF Passes, Meant
        <4> QED
          BY <1>1, <2>1, <3>6, <4>1 DEF PinnedOK
      <3>8. "model.onnx" \in Fetched
        BY DEF Fetched
      <3>9. ASSUME FilesHeld(u), work[u].stage = 3 PROVE ModelInHand(u)'
        <4>1. CASE work[u].todo = All(3)
          <5>1. work'[u].todo # All(3) /\ work'[u].variant = work[u].variant /\ Head(work[u].todo) = "model.onnx"
            BY <1>9, <3>3, <3>4, <4>1
          <5>2. PinnedModel => have'["model.onnx"] = work[u].variant
            BY <2>6, <3>6, <5>1 DEF Passes, Meant, PinnedModel
          <5> QED
            BY <2>1, <5>1, <5>2 DEF ModelInHand, PinnedModel
        <4>2. CASE work[u].todo # All(3)
          <5>1. PinnedModel => have["model.onnx"] = work[u].variant
            BY <2>2, <2>3, <3>9, <4>2 DEF ModelInHand
          <5>2. Head(work[u].todo) = "tokenizer" /\ work'[u].todo = << >>
            BY <1>8, <2>1, <3>3, <3>4, <3>9, <4>2
          <5>3. have'["model.onnx"] = have["model.onnx"] /\ work'[u].todo # All(3)
            BY <1>9, <3>6, <3>8, <5>2
          <5> QED
            BY <2>1, <3>3, <3>4, <5>1, <5>3 DEF ModelInHand, PinnedModel
        <4> QED
          BY <4>1, <4>2
      <3>10. ASSUME FilesHeld(u), work[u].stage # 3 PROVE Agreed'
        <4>1. have'["model.onnx"] = have["model.onnx"] /\ Agreed
          BY <1>8, <2>1, <2>2, <2>3, <3>6, <3>8, <3>10
        <4> QED
          BY <2>1, <4>1 DEF Agreed, PinnedModel
      <3>11. FilesHeld(u) => \A file \in Fetched : have'[file] # "cut"
        BY <2>2, <3>1, <3>6
      <3> QED
        BY <3>5, <3>6, <3>7, <3>9, <3>10, <3>11 DEF FilesHeld
    <2> QED
      BY <1>1, <1>14, <2>1, <2>4, <2>5, <2>6 DEF DoctorArrive
  <1>15. CASE DoctorCreate(u)
    <2>1. /\ work[u].pc = "create" /\ UNCHANGED <<pinned, marker>> /\ work[u].stage # 5 /\ work[u].todo # << >>
          /\ Head(work[u].todo) \in Archived
      BY <1>6, <1>15 DEF DoctorCreate, At
    <2>2. CASE astray' = TRUE /\ UNCHANGED have
      BY <1>1, <1>11, <2>1, <2>2
    <2>3. CASE have' = [have EXCEPT ![Head(work[u].todo)] = "cut"] /\ GoTo(u, "copy") /\ UNCHANGED astray
      <3>1. PICK e : e = [work[u] EXCEPT !.pc = "copy"]
        OBVIOUS
      <3>2. e \in DoctorWork /\ e.pc = "copy" /\ e.stage = work[u].stage /\ e.todo = work[u].todo
        BY <1>2, <2>1, <3>1, PcTo
      <3>3. work'[u] = e
        BY <1>2, <2>3, <3>1, <3>2, DoctorGoes DEF GoTo
      <3>4. ~InModel(u) /\ ~InModel(u)' /\ Head(work[u].todo) # "model.onnx" /\ Head(work[u].todo) \in Fetched
        BY <1>8, <2>1, <3>2, <3>3 DEF InModel
      <3>5. /\ have' \in [Fetched -> Content \cup {None}] /\ have'[Head(work[u].todo)] = "cut"
            /\ \A file \in Fetched : file # Head(work[u].todo) => have'[file] = have[file]
        BY <1>1, <2>3, <3>4 DEF Content
      <3>6. PinnedOK'
        BY <1>1, <2>1, <3>5 DEF PinnedOK
      <3>7. ASSUME FilesHeld(u) PROVE FilesHeld(u)'
        <4>1. Agreed /\ \A file \in Fetched : have[file] # "cut"
          BY <2>1, <3>4, <3>7 DEF FilesHeld, At
        <4>2. Agreed'
          BY <2>1, <3>4, <3>5, <4>1 DEF Agreed, PinnedModel, Fetched
        <4>3. At(u, "doctor", "copy")' /\ Head(work'[u].todo) = Head(work[u].todo)
          BY <3>2, <3>3 DEF At, DoctorWork, DoctorRecord
        <4> QED
          BY <3>4, <3>5, <4>1, <4>2, <4>3 DEF FilesHeld
      <3> QED
        BY <1>1, <2>1, <2>3, <3>5, <3>6, <3>7
    <2> QED
      BY <1>15, <2>2, <2>3 DEF DoctorCreate
  <1>16. CASE DoctorCopy(u)
    <2>1. /\ work[u].pc = "copy" /\ UNCHANGED <<pinned, marker>> /\ work[u].stage # 5 /\ work[u].todo # << >>
          /\ Head(work[u].todo) \in Archived
      BY <1>6, <1>16 DEF DoctorCopy, At
    <2>2. CASE astray' = TRUE /\ UNCHANGED have
      BY <1>1, <1>11, <2>1, <2>2
    <2>3. CASE /\ have' = [have EXCEPT ![Head(work[u].todo)] = work[u].got] /\ UNCHANGED astray
               /\ Go(u, [work[u] EXCEPT !.pc = "file", !.todo = Tail(work[u].todo)])
      <3>1. PICK e : e = [work[u] EXCEPT !.pc = "file", !.todo = Tail(work[u].todo)]
        OBVIOUS
      <3>2. e \in DoctorWork /\ e.pc = "file" /\ e.stage = work[u].stage /\ e.todo = Tail(work[u].todo)
        BY <1>2, <2>1, <3>1, NextFileTo
      <3>3. work'[u] = e
        BY <1>2, <2>3, <3>1, <3>2, DoctorGoes
      <3>4. ~InModel(u) /\ ~InModel(u)' /\ Head(work[u].todo) # "model.onnx" /\ Head(work[u].todo) \in Fetched
        BY <1>8, <2>1, <3>2, <3>3 DEF InModel
      <3>5. /\ have' \in [Fetched -> Content \cup {None}] /\ have'[Head(work[u].todo)] # "cut"
            /\ \A file \in Fetched : file # Head(work[u].todo) => have'[file] = have[file]
        BY <1>1, <1>6, <2>3, <3>4
      <3>6. PinnedOK'
        BY <1>1, <2>1, <3>5 DEF PinnedOK
      <3>7. ASSUME FilesHeld(u) PROVE FilesHeld(u)'
        <4>1. Agreed /\ \A file \in Fetched : have[file] = "cut" => file = Head(work[u].todo)
          BY <3>4, <3>7 DEF FilesHeld
        <4>2. Agreed'
          BY <2>1, <3>4, <3>5, <4>1 DEF Agreed, PinnedModel, Fetched
        <4>3. \A file \in Fetched : have'[file] # "cut"
          BY <3>5, <4>1
        <4> QED
          BY <3>4, <4>2, <4>3 DEF FilesHeld
      <3> QED
        BY <1>1, <2>1, <2>3, <3>5, <3>6, <3>7
    <2> QED
      BY <1>16, <2>2, <2>3 DEF DoctorCopy
  <1> QED
    BY <1>12, <1>13, <1>14, <1>15, <1>16 DEF DoctorStep

-----------------------------------------------------------------------------
(* The whole.                                                              *)

\* What u does elsewhere is nothing to a component.
LEMMA Frames ==
  ASSUME WorkOK, NEW u \in User, Turn(u)
  PROVE  /\ ~Daemonic(u) /\ ~Daemonic(u)' /\ UNCHANGED daemonVars => DaemonFrame
         /\ (work'[u].op = "install" => work'[u].pc = "look") /\ UNCHANGED diskVars => InstallFrame
         /\ ~Doctoring(u) /\ (Doctoring(u)' => work'[u].pc = "check") /\ UNCHANGED downloadVars => DoctorFrame
  <1>1. \A v \in User : v # u => work'[v] = work[v]
    BY DEF WorkOK, Turn
  <1>2. ASSUME ~Daemonic(u), ~Daemonic(u)', UNCHANGED daemonVars PROVE DaemonFrame
    BY <1>1, <1>2 DEF DaemonFrame, Daemonic
  <1>3. ASSUME work'[u].op = "install" => work'[u].pc = "look", UNCHANGED diskVars PROVE InstallFrame
    BY <1>1, <1>3 DEF InstallFrame
  <1>4. ASSUME ~Doctoring(u), Doctoring(u)' => work'[u].pc = "check", UNCHANGED downloadVars PROVE DoctorFrame
    BY <1>1, <1>4 DEF DoctorFrame, InModel, Doctoring, At
  <1> QED
    BY <1>2, <1>3, <1>4

LEMMA SameWork ==
  ASSUME UNCHANGED work
  PROVE  /\ UNCHANGED daemonVars => DaemonFrame
         /\ UNCHANGED diskVars => InstallFrame
         /\ UNCHANGED downloadVars => DoctorFrame
  BY DEF DaemonFrame, InstallFrame, DoctorFrame

LEMMA DoctorDiesOK ==
  ASSUME WorkOK, DownloadsInv, NEW u \in User, work' = [work EXCEPT ![u] = Idle], DoctorDies(u)
  PROVE  DownloadsInv'
  <1>0. work \in [User -> Commands] /\ work'[u] = Idle
    BY DEF WorkOK
  <1>1. CASE ~Doctoring(u)
    <2>1. Turn(u) /\ ~Doctoring(u)'
      BY <1>0 DEF Turn, Doctoring, Idle
    <2>2. UNCHANGED downloadVars
      BY <1>1 DEF DoctorDies, Doctoring, downloadVars, DownloadsInv, DownloadsTypeOK
    <2> QED
      BY <1>1, <2>1, <2>2, Frames, DoctorFrameHolds
  <1>2. CASE Doctoring(u)
    <2>1. astray' = TRUE /\ UNCHANGED <<pinned, have, marker>>
      BY <1>2 DEF DoctorDies, Doctoring
    <2> QED
      BY <2>1 DEF DownloadsInv, DownloadsTypeOK, PinnedOK
  <1> QED
    BY <1>1, <1>2

LEMMA Begins ==
  ASSUME IInv, NEW u \in User, Begin(u)
  PROVE  IInv'
  <1>0. /\ work \in [User -> Commands] /\ u \in Terminal /\ work[u] = Idle
        /\ UNCHANGED <<scene, faults, stores, pidFile, diskVars, extractorVars, downloadVars>>
    BY DEF IInv, WorkOK, Begin
  <1>1. PICK c \in DaemonCall \cup InstallCall \cup DoctorCall :
          /\ c.op \in {"install", "uninstall", "doctor"} => \A v \in User : ~Installing(v) /\ work[v].op # "doctor"
          /\ work' = [work EXCEPT ![u] = c]
          /\ orderly' = IF c.op \in {"start", "stop"} THEN Orderly(u) ELSE orderly
    BY DEF Begin
  <1>2. work'[u] = c /\ (\A v \in User : v # u => work'[v] = work[v]) /\ Turn(u)
    BY <1>0, <1>1 DEF Turn
  <1>3. c \in DoctorCall => c \in DoctorWork /\ c.op = "doctor" /\ c.pc = "check"
    <2>1. << >> \in Todo(1) /\ << >> \in UNION {Todo(i) : i \in 1 .. 5}
      BY DEF Todo
    <2>2. ASSUME NEW variant \in Variant
          PROVE  [op |-> "doctor", pc |-> "check", stage |-> 1, variant |-> variant, todo |-> << >>,
                  forced |-> FALSE, got |-> "meant"] \in DoctorWork
      BY <2>1 DEF DoctorWork, DoctorRecord, DoctorPcs, Content
    <2> QED
      BY <2>2 DEF DoctorCall
  <1>4. /\ c \in DaemonCall => c \in DaemonWork /\ c.op \in {"start", "stop"}
        /\ c \in InstallCall => c \in InstallWork /\ c.op \in {"install", "uninstall"} /\ (c.op = "install" => c.pc = "look")
    BY DEF DaemonCall, InstallCall, DaemonWork, InstallWork
  <1>5. c \in Commands
    BY <1>1, <1>3, <1>4 DEF Commands
  <1>6. WorkOK'
    <2>1. work' \in [User -> Commands] /\ faults' \in Nat
      BY <1>0, <1>1, <1>5 DEF IInv, WorkOK
    <2>2. \A v, w \in User : (Installing(v)' \/ Doctoring(v)') /\ (Installing(w)' \/ Doctoring(w)') => v = w
      <3>1. CASE c.op \in {"install", "uninstall", "doctor"}
        BY <1>1, <1>2, <3>1 DEF Installing, Doctoring
      <3>2. CASE c.op \notin {"install", "uninstall", "doctor"}
        BY <1>2, <3>2 DEF IInv, WorkOK, Installing, Doctoring
      <3> QED
        BY <3>1, <3>2
    <2>3. \A s \in Server : s \in User /\ s # u
      BY <1>0, DaemonAssumption DEF User
    <2>4. UNCHANGED life
      BY <1>0 DEF extractorVars
    <2>5. \A s \in Server : ~Installing(s)' /\ ~Doctoring(s)' /\ (life'[s] # "up" => work'[s] = Idle)
      BY <1>2, <2>3, <2>4 DEF IInv, WorkOK, Installing, Doctoring
    <2> QED
      BY <2>1, <2>2, <2>5 DEF WorkOK
  <1>7. DaemonInv'
    <2>1. CASE c \in DaemonCall
      BY <1>0, <1>1, <1>4, <2>1, DaemonBegins DEF IInv
    <2>2. CASE c \notin DaemonCall
      <3>1. ~Daemonic(u) /\ ~Daemonic(u)' /\ UNCHANGED daemonVars
        BY <1>0, <1>1, <1>2, <1>3, <1>4, <2>2 DEF Daemonic, Idle, daemonVars
      <3> QED
        BY <1>2, <3>1, Frames, DaemonFrameHolds DEF IInv
    <2> QED
      BY <2>1, <2>2
  <1>8. InstallInv'
    <2>1. work'[u].op = "install" => work'[u].pc = "look"
      BY <1>1, <1>2, <1>3, <1>4
    <2> QED
      BY <1>0, <1>2, <2>1, Frames, InstallFrameHolds DEF IInv
  <1>9. ExtractorInv'
    BY <1>0, ExtractorFrame DEF IInv
  <1>10. DownloadsInv'
    <2>1. ~Doctoring(u) /\ (Doctoring(u)' => work'[u].pc = "check")
      BY <1>0, <1>1, <1>2, <1>3, <1>4 DEF Doctoring, Idle
    <2> QED
      BY <1>0, <1>2, <2>1, Frames, DoctorFrameHolds DEF IInv
  <1>11. scene' \in Scenes /\ calls' \in Nat
    BY <1>0 DEF IInv, Begin
  <1> QED
    BY <1>6, <1>7, <1>8, <1>9, <1>10, <1>11 DEF IInv

LEMMA Works ==
  ASSUME IInv, NEW u \in User, UserWorks(u)
  PROVE  IInv'
  <1>0. UNCHANGED <<scene, extractorVars>> /\ ExtractorInv' /\ UNCHANGED life
    BY ExtractorFrame DEF UserWorks, IInv, extractorVars
  <1>1. CASE DaemonStep(u) /\ UNCHANGED <<diskVars, downloadVars>>
    <2>1. DaemonTurn(u) /\ work'[u] \in Commands /\ UNCHANGED <<calls, faults>> /\ DaemonInv'
      BY <1>1, DaemonTurns, DaemonSteps DEF IInv, DaemonInv
    <2>2. Turn(u) /\ work'[u].op # "install" /\ ~Doctoring(u) /\ ~Doctoring(u)'
      BY <2>1 DEF DaemonTurn, Daemonic, Doctoring, Idle
    <2>3. WorkOK' /\ InstallInv' /\ DownloadsInv'
      BY <1>0, <1>1, <2>1, <2>2, TurnKeepsWork, Frames, InstallFrameHolds, DoctorFrameHolds DEF IInv
    <2> QED
      BY <1>0, <2>1, <2>3 DEF IInv
  <1>2. CASE InstallStep(u) /\ UNCHANGED <<daemonVars, downloadVars>>
    <2>1. InstallTurn(u) /\ work'[u] \in Commands /\ UNCHANGED <<calls, faults>> /\ InstallInv'
      BY <1>2, InstallTurns, InstallSteps DEF IInv
    <2>2. Turn(u) /\ ~Daemonic(u) /\ ~Daemonic(u)' /\ ~Doctoring(u) /\ ~Doctoring(u)'
      BY <2>1 DEF InstallTurn, Installing, Daemonic, Doctoring, Idle
    <2>3. WorkOK' /\ DaemonInv' /\ DownloadsInv'
      BY <1>0, <1>2, <2>1, <2>2, TurnKeepsWork, Frames, DaemonFrameHolds, DoctorFrameHolds DEF IInv
    <2> QED
      BY <1>0, <2>1, <2>3 DEF IInv
  <1>3. CASE DoctorStep(u) /\ UNCHANGED <<daemonVars, diskVars>>
    <2>1. DoctorTurn(u) /\ work'[u] \in Commands /\ UNCHANGED <<calls, faults>> /\ DownloadsInv'
      BY <1>3, DoctorSteps DEF IInv
    <2>2. Turn(u) /\ ~Daemonic(u) /\ ~Daemonic(u)' /\ work'[u].op # "install"
      BY <2>1 DEF DoctorTurn, Daemonic, Doctoring, Idle
    <2>3. WorkOK' /\ DaemonInv' /\ InstallInv'
      BY <1>0, <1>3, <2>1, <2>2, TurnKeepsWork, Frames, DaemonFrameHolds, InstallFrameHolds DEF IInv
    <2> QED
      BY <1>0, <2>1, <2>3 DEF IInv
  <1> QED
    BY <1>1, <1>2, <1>3 DEF UserWorks

\* u is killed: what it had in hand is dropped.
LEMMA Killing ==
  ASSUME IInv, NEW u \in User, work' = [work EXCEPT ![u] = Idle], DaemonForgets(u), UNCHANGED diskVars
  PROVE  DaemonInv' /\ InstallInv'
  <1>1. work'[u] = Idle /\ Turn(u)
    BY DEF IInv, WorkOK, Turn
  <1>2. InstallFrame
    BY <1>1, Frames DEF IInv, Idle
  <1> QED
    BY <1>2, DaemonDies, InstallFrameHolds DEF IInv

LEMMA IdleKeepsWork ==
  ASSUME WorkOK, NEW u \in User, work' = [work EXCEPT ![u] = Idle], faults' \in Nat,
         \A s \in Server : s # u => life'[s] = life[s]
  PROVE  WorkOK'
  <1>1. work \in [User -> Commands] /\ work'[u] = Idle /\ \A v \in User : v # u => work'[v] = work[v]
    BY DEF WorkOK
  <1>2. \A s \in Server : life'[s] # "up" => work'[s] = Idle
    BY <1>1 DEF WorkOK, User
  <1>3. Idle \in Commands /\ Idle.op = "none"
    BY DEF Commands, Idle
  <1> QED
    BY <1>2, <1>3, WorkSet

LEMMA ServerActs ==
  ASSUME IInv, NEW s \in Server, ServerStarts(s) \/ Ingest(s) \/ ServerWorks(s) \/ ServerKilled(s)
  PROVE  IInv'
  <1>0. s \in User /\ work \in [User -> Commands]
    BY DEF IInv, WorkOK, User
  <1>1. CASE ServerStarts(s)
    <2>1. /\ life[s] = "off" /\ life' = [life EXCEPT ![s] = "up"] /\ orderly' = Orderly(s)
          /\ work' = [work EXCEPT ![s] = [op |-> "start", pc |-> "look"]] /\ calls' = calls + 1
          /\ UNCHANGED <<scene, faults, stores, pidFile, diskVars, queue, worker, slot, children, fate, downloadVars>>
      BY <1>1 DEF ServerStarts
    <2>2. work[s] = Idle
      BY <2>1 DEF IInv, WorkOK
    <2>3. [op |-> "start", pc |-> "look"] \in DaemonCall /\ [op |-> "start", pc |-> "look"] \in Commands
      BY DEF DaemonCall, Commands, DaemonWork
    <2>4. DaemonInv'
      BY <1>0, <2>1, <2>2, <2>3, DaemonBegins DEF IInv
    <2>5. Turn(s) /\ work'[s].op = "start" /\ ~Doctoring(s)
      BY <1>0, <2>1, <2>2 DEF Turn, Doctoring, Idle
    <2>6. InstallInv' /\ DownloadsInv'
      BY <1>0, <2>1, <2>5, Frames, InstallFrameHolds, DoctorFrameHolds DEF IInv, Doctoring
    <2>7. \A t \in Server : life'[t] # "up" => work'[t] = Idle
      BY <1>0, <2>1 DEF IInv, WorkOK, User, ExtractorInv, ExtractorOK, ExtractorTypeOK
    <2>8. WorkOK'
      BY <1>0, <2>1, <2>3, <2>7, WorkSet DEF IInv, WorkOK
    <2>9. ExtractorInv'
      <3>1. ExtractorOK'
        BY <2>1 DEF IInv, ExtractorInv, ExtractorOK, ExtractorTypeOK
      <3>2. SlotOK'
        BY <2>1 DEF IInv, ExtractorInv, SlotOK, SlotOf, Starting, Mine
      <3> QED
        BY <3>1, <3>2 DEF ExtractorInv
    <2> QED
      BY <2>1, <2>4, <2>6, <2>8, <2>9 DEF IInv
  <1>2. CASE Ingest(s) \/ ServerWorks(s)
    <2>1. UNCHANGED <<scene, useVars, daemonVars, diskVars, downloadVars>>
      BY <1>2 DEF Ingest, ServerWorks
    <2>2. DaemonInv' /\ InstallInv' /\ DownloadsInv'
      BY <2>1, SameWork, DaemonFrameHolds, InstallFrameHolds, DoctorFrameHolds DEF IInv, useVars
    <2>3. ExtractorInv' /\ \A t \in Server : life'[t] # "up" => life[t] # "up" \/ work[t] = Idle
      <3>1. CASE Ingest(s)
        <4>1. PICK chunk \in scene.chunks : Enqueue(s, chunk)
          BY <3>1 DEF Ingest
        <4>2. chunk \in Chunk
          BY <4>1, ScenesAssumption DEF IInv
        <4> QED
          BY <4>1, <4>2, Enqueues DEF IInv, Enqueue
      <3>2. CASE WorkerStep(s)
        <4>1. UNCHANGED life
          BY <3>2 DEF WorkerStep, Take, Peek, Preflight, Spawn, Hold, Poll, GiveUp, Ask, AddFacts
        <4> QED
          BY <3>2, <4>1, WorkerSteps DEF IInv
      <3>3. CASE Shutdown(s)
        <4>1. work[s] = Idle /\ life' = [life EXCEPT ![s] = "ending"] /\ life \in [Server -> {"off", "up", "ending"}]
          BY <3>3 DEF Shutdown, IInv, ExtractorInv, ExtractorOK, ExtractorTypeOK
        <4> QED
          BY <3>3, <4>1, ShutsDown DEF IInv
      <3>4. CASE Exit(s)
        <4>1. life[s] = "ending" /\ Forgotten(s) /\ life \in [Server -> {"off", "up", "ending"}]
          BY <3>4 DEF Exit, IInv, ExtractorInv, ExtractorOK, ExtractorTypeOK
        <4>2. ExtractorInv' /\ life' = [life EXCEPT ![s] = "off"]
          BY <4>1, Forgets DEF IInv
        <4> QED
          BY <4>1, <4>2
      <3> QED
        BY <1>2, <3>1, <3>2, <3>3, <3>4 DEF ServerWorks
    <2>4. WorkOK'
      BY <2>1, <2>3 DEF IInv, WorkOK, useVars, Installing, Doctoring
    <2> QED
      BY <2>1, <2>2, <2>3, <2>4 DEF IInv, useVars
  <1>3. CASE ServerKilled(s)
    <2>1. /\ faults' = faults + 1 /\ UNCHANGED <<scene, calls>> /\ Forgotten(s) /\ DaemonForgets(s)
          /\ work' = [work EXCEPT ![s] = Idle] /\ UNCHANGED <<diskVars, downloadVars>>
      BY <1>3 DEF ServerKilled, Fault
    <2>2. DaemonInv' /\ InstallInv'
      BY <1>0, <2>1, Killing
    <2>3. ExtractorInv' /\ life' = [life EXCEPT ![s] = "off"] /\ life \in [Server -> {"off", "up", "ending"}]
      BY <2>1, Forgets DEF IInv, ExtractorInv, ExtractorOK, ExtractorTypeOK
    <2>4. WorkOK'
      <3>1. WorkOK /\ faults' \in Nat
        BY <2>1 DEF IInv, WorkOK
      <3>2. \A t \in Server : t # s => life'[t] = life[t]
        BY <2>3
      <3> QED
        BY <1>0, <2>1, <3>1, <3>2, IdleKeepsWork
    <2>5. ~Doctoring(s) /\ ~Doctoring(s)' /\ Turn(s)
      BY <1>0, <2>1 DEF IInv, WorkOK, Doctoring, Idle, Turn
    <2>6. DownloadsInv'
      BY <1>0, <2>1, <2>5, Frames, DoctorFrameHolds DEF IInv
    <2> QED
      BY <2>1, <2>2, <2>3, <2>4, <2>6 DEF IInv
  <1> QED
    BY <1>1, <1>2, <1>3

LEMMA CommandDies ==
  ASSUME IInv, NEW u \in User, CommandKilled(u)
  PROVE  IInv'
  <1>1. /\ faults' = faults + 1 /\ UNCHANGED <<scene, calls>> /\ DaemonForgets(u) /\ DoctorDies(u)
        /\ work' = [work EXCEPT ![u] = Idle] /\ UNCHANGED <<diskVars, extractorVars>>
    BY DEF CommandKilled, Fault
  <1>2. DaemonInv' /\ InstallInv' /\ DownloadsInv' /\ ExtractorInv'
    BY <1>1, Killing, DoctorDiesOK, ExtractorFrame DEF IInv
  <1>3. WorkOK'
    <2>1. WorkOK /\ faults' \in Nat
      BY <1>1 DEF IInv, WorkOK
    <2>2. \A s \in Server : s # u => life'[s] = life[s]
      BY <1>1 DEF extractorVars
    <2> QED
      BY <1>1, <2>1, <2>2, IdleKeepsWork
  <1> QED
    BY <1>1, <1>2, <1>3 DEF IInv

LEMMA ProcessesMove ==
  ASSUME IInv, Children \/ Stores \/ ChildFails \/ StoreKilled
  PROVE  IInv'
  <1>1. /\ UNCHANGED <<scene, work, calls, life, diskVars, downloadVars>> /\ (faults' = faults \/ faults' = faults + 1)
        /\ \/ UNCHANGED daemonVars /\ \E i \in DOMAIN children : ChildLoads(i) \/ ChildHangs(i) \/ ChildDies(i)
           \/ UNCHANGED extractorVars /\ \E i \in DOMAIN stores : StoreLoads(i) \/ StoreEnds(i) \/ StoreDies(i)
    BY DEF Children, Stores, ChildFails, StoreKilled, Fault, ChildLoads, ChildHangs, ChildDies, useVars, extractorVars
  <1>2. WorkOK'
    BY <1>1 DEF IInv, WorkOK, Installing, Doctoring
  <1>3. InstallInv' /\ DownloadsInv'
    BY <1>1, SameWork, InstallFrameHolds, DoctorFrameHolds DEF IInv
  <1>4. CASE UNCHANGED daemonVars /\ \E i \in DOMAIN children : ChildLoads(i) \/ ChildHangs(i) \/ ChildDies(i)
    <2>1. DaemonInv' /\ ExtractorInv'
      BY <1>1, <1>4, SameWork, DaemonFrameHolds, ChildrenMove DEF IInv
    <2> QED
      BY <1>1, <1>2, <1>3, <2>1 DEF IInv
  <1>5. CASE UNCHANGED extractorVars /\ \E i \in DOMAIN stores : StoreLoads(i) \/ StoreEnds(i) \/ StoreDies(i)
    <2>1. DaemonInv' /\ ExtractorInv'
      BY <1>1, <1>5, StoresMove, ExtractorFrame DEF IInv
    <2> QED
      BY <1>1, <1>2, <1>3, <2>1 DEF IInv
  <1> QED
    BY <1>1, <1>4, <1>5

LEMMA InitHolds == Init => IInv
  <1> SUFFICES ASSUME Init PROVE IInv
    OBVIOUS
  <1>1. scene \in Scenes /\ work = [u \in User |-> Idle] /\ calls = 0 /\ faults = 0
    BY DEF Init
  <1>2. Idle \in Commands /\ Idle.op = "none" /\ \A u \in User : work[u] = Idle
    BY <1>1 DEF Commands, Idle
  <1>3. WorkOK
    BY <1>1, <1>2 DEF WorkOK, Installing, Doctoring, User
  <1>4. DaemonInv
    <2>1. stores = << >> /\ pidFile = None /\ orderly = TRUE /\ DOMAIN stores = {} /\ stores \in Seq(StoreStatus)
      BY EmptySeq DEF Init, DaemonInit
    <2> QED
      BY <1>2, <2>1 DEF DaemonInv, DaemonOK, OneDaemonic, NeededIsNamed, FoundHolds, At, Daemonic
  <1>5. InstallInv
    <2>1. disk = scene.disk /\ installed = (scene.disk = Files) /\ wrecked = FALSE
      BY DEF Init, InstallInit
    <2>2. InstallOK /\ InstalledIsWhole
      BY <1>1, <2>1, ScenesAssumption DEF InstallOK, InstalledIsWhole, There
    <2> QED
      BY <1>2, <2>2 DEF InstallInv, MakingOK
  <1>6. ExtractorInv
    <2>1. /\ life = [s \in Server |-> "off"] /\ queue = [s \in Server |-> << >>]
          /\ worker = [s \in Server |-> Resting] /\ slot = [s \in Server |-> None]
          /\ children = << >> /\ fate = [c \in Chunk |-> "new"]
      BY DEF Init, ExtractorInit
    <2>2. ExtractorTypeOK
      BY <2>1, EmptySeq DEF ExtractorTypeOK, Fates
    <2>3. worker \in [Server -> WorkerState] /\ \A s \in Server : worker[s].pc = "idle"
      BY <2>1 DEF WorkerState, Resting
    <2>4. DOMAIN children = {}
      BY <2>1
    <2> QED
      BY <2>2, <2>3, <2>4 DEF ExtractorInv, ExtractorOK, SlotOK, SlotOf, Starting, Mine
  <1>7. DownloadsInv
    <2>1. /\ pinned = scene.pinned /\ marker = None /\ astray = (scene.model # None)
          /\ have = [file \in Fetched |-> IF file \in {"model.onnx", "tokenizer"} /\ scene.model # None
                                          THEN Meant(file, scene.model) ELSE None]
      BY DEF Init, DownloadsInit
    <2>2. scene.pinned \subseteq Fetched /\ scene.model \in {None} \cup Variant
      BY <1>1, ScenesAssumption
    <2>3. \A file \in Fetched : have[file] \in {None, "meant"} \cup Variant
      BY <2>1, <2>2 DEF Meant
    <2>4. have \in [Fetched -> Content \cup {None}]
      BY <2>1, <2>2 DEF Meant, Content
    <2>5. DownloadsTypeOK /\ PinnedOK
      BY <2>1, <2>2, <2>3, <2>4 DEF DownloadsTypeOK, PinnedOK
    <2>6. ~astray => \A file \in Fetched : have[file] = None
      BY <2>1
    <2>7. None # "cut" /\ "model.onnx" \in Fetched
      BY DownloadsAssumption DEF Content, Fetched
    <2>8. ~astray => CutOK /\ ModelOK
      BY <1>2, <2>1, <2>6, <2>7 DEF CutOK, ModelOK, Agreed, InModel, Doctoring
    <2> QED
      BY <2>5, <2>8 DEF DownloadsInv
  <1> QED
    BY <1>1, <1>3, <1>4, <1>5, <1>6, <1>7 DEF IInv

LEMMA NextHolds == IInv /\ [Next]_vars => IInv'
  <1> SUFFICES ASSUME IInv, [Next]_vars PROVE IInv'
    OBVIOUS
  <1>1. CASE Next
    BY <1>1, Begins, Works, CommandDies, ServerActs, ProcessesMove DEF Next
  <1>2. CASE UNCHANGED vars
    <2>1. UNCHANGED <<scene, calls, faults, work, life>> /\ UNCHANGED daemonVars /\ UNCHANGED diskVars
          /\ UNCHANGED extractorVars /\ UNCHANGED downloadVars
      BY <1>2 DEF vars, useVars, extractorVars
    <2>2. DaemonInv' /\ InstallInv' /\ ExtractorInv' /\ DownloadsInv'
      BY <2>1, SameWork, DaemonFrameHolds, InstallFrameHolds, ExtractorFrame, DoctorFrameHolds DEF IInv
    <2>3. WorkOK'
      BY <2>1 DEF IInv, WorkOK, Installing, Doctoring
    <2> QED
      BY <2>1, <2>2, <2>3 DEF IInv
  <1> QED
    BY <1>1, <1>2

LEMMA IInvHolds == Spec => []IInv
  <1>1. Init => IInv
    BY InitHolds
  <1>2. IInv /\ [Next]_vars => IInv'
    BY NextHolds
  <1> QED
    BY <1>1, <1>2, PTL DEF Spec

\* `stop` finds the store, for any number of servers and commands: where starts
\* and stops come one after the other, what serves is what the pid file names.
THEOREM ServingIsNamedHolds == Spec => []ServingIsNamed
  <1>1. IInv => ServingIsNamed
    BY DEF IInv, DaemonInv, NeededIsNamed, ServingIsNamed, Needed, At, Daemonic
  <1> QED
    BY <1>1, IInvHolds, PTL

\* The sentinel is there only with all of the server, and what was installed
\* stays whole until it is removed, wherever installs failed or died.
THEOREM InstalledIsWholeHolds == Spec => []InstalledIsWhole
  <1>1. IInv => InstalledIsWhole
    BY DEF IInv, InstallInv
  <1> QED
    BY <1>1, IInvHolds, PTL

\* No process ever has two model servers.
THEOREM OneChildHolds == Spec => []OneChild
  <1>1. ASSUME IInv, NEW s \in Server, NEW i \in Mine(s)
        PROVE  slot[s] = i \/ (worker[s].pc = "hold" /\ worker[s].child = i /\ Mine(s) = {i})
    <2>1. SlotOf(s)
      BY <1>1 DEF IInv, ExtractorInv, SlotOK
    <2>2. CASE worker[s].pc = "hold"
      BY <1>1, <2>1, <2>2 DEF SlotOf
    <2>3. CASE worker[s].pc # "hold"
      BY <1>1, <2>1, <2>3 DEF SlotOf
    <2> QED
      BY <2>2, <2>3
  <1>2. IInv => OneChild
    BY <1>1 DEF OneChild
  <1> QED
    BY <1>2, IInvHolds, PTL

\* What `doctor` left, for any changes of the variant: a file whose checksum is
\* known is that file, wherever passes failed or died; and as long as none did,
\* what was unpacked is whole too, and the model is the one the marker names.
THEOREM DownloadsAreWholeHolds == Spec => []DownloadsAreWhole
  <1>1. ASSUME IInv, \A u \in User : work[u].op # "doctor" PROVE DownloadsAreWhole
    <2>1. \A u \in User : ~InModel(u) /\ ~At(u, "doctor", "copy")
      BY <1>1 DEF InModel, Doctoring, At
    <2>2. PinnedOK /\ pinned \subseteq Fetched /\ (~astray => CutOK /\ Agreed)
      BY <1>1, <2>1 DEF IInv, DownloadsInv, DownloadsTypeOK, ModelOK
    <2> QED
      BY <2>1, <2>2 DEF PinnedOK, CutOK, Agreed, PinnedModel, DownloadsAreWhole
  <1>2. IInv => DownloadsAreWhole
    BY <1>1 DEF DownloadsAreWhole
  <1> QED
    BY <1>2, IInvHolds, PTL

=============================================================================
