------------------------------ MODULE Helpers ------------------------------
(***************************************************************************)
(* The processes beside the servers: the vector store that the first of    *)
(* them starts, the model that extracts facts, installed and removed by    *)
(* commands while servers run, and what `doctor` fetches for them.         *)
(***************************************************************************)
EXTENDS Extractor, Downloads

CONSTANT
  Scenes \* bound: what a behaviour is about, and what is installed at first

\* What is installed at first is what an install, or nothing, left.
ASSUME ScenesAssumption ==
  \A sc \in Scenes :
    /\ sc.disk \subseteq Files /\ ("sentinel" \in sc.disk => Part \subseteq sc.disk)
    /\ sc.chunks \subseteq Chunk
    /\ sc.pinned \subseteq Fetched /\ sc.model \in {None} \cup Variant

VARIABLE scene

vars == <<scene, useVars, daemonVars, diskVars, extractorVars, downloadVars>>

\* One person installs or removes the extractor at a time, and so with doctor.
Begin(u) ==
  /\ u \in Terminal /\ work[u] = Idle /\ calls < MaxCalls /\ calls' = calls + 1
  /\ \E call \in DaemonCall \cup InstallCall \cup DoctorCall :
       /\ call.op \in scene.ops
       /\ call.op \in {"install", "uninstall", "doctor"} =>
            \A v \in User : ~Installing(v) /\ work[v].op # "doctor"
       /\ work' = [work EXCEPT ![u] = call]
       /\ orderly' = IF call.op \in {"start", "stop"} THEN Orderly(u) ELSE orderly
  /\ UNCHANGED <<scene, faults, stores, pidFile, diskVars, extractorVars, downloadVars>>

\* serve starts the store before it serves, and serves whatever came of it.
ServerStarts(s) ==
  /\ "serve" \in scene.ops /\ life[s] = "off" /\ calls < MaxCalls /\ calls' = calls + 1
  /\ life' = [life EXCEPT ![s] = "up"]
  /\ work' = [work EXCEPT ![s] = [op |-> "start", pc |-> "look"]]
  /\ orderly' = Orderly(s)
  /\ UNCHANGED <<scene, faults, stores, pidFile, diskVars, queue, worker, slot, children, fate, downloadVars>>

UserWorks(u) ==
  /\ \/ DaemonStep(u) /\ UNCHANGED <<diskVars, downloadVars>>
     \/ InstallStep(u) /\ UNCHANGED <<daemonVars, downloadVars>>
     \/ DoctorStep(u) /\ UNCHANGED <<daemonVars, diskVars>>
  /\ UNCHANGED <<scene, extractorVars>>

Ingest(s) ==
  /\ work[s] = Idle
  /\ \E chunk \in scene.chunks : Enqueue(s, chunk)
  /\ UNCHANGED <<scene, useVars, daemonVars, diskVars, downloadVars>>

ServerWorks(s) ==
  /\ WorkerStep(s) \/ Shutdown(s) \/ Exit(s)
  /\ UNCHANGED <<scene, useVars, daemonVars, diskVars, downloadVars>>

Children ==
  /\ \E i \in DOMAIN children : ChildLoads(i)
  /\ UNCHANGED <<scene, useVars, daemonVars, diskVars, downloadVars>>
Stores ==
  /\ \E i \in DOMAIN stores : StoreLoads(i) \/ StoreEnds(i)
  /\ UNCHANGED <<scene, useVars, diskVars, extractorVars, downloadVars>>

Fault == faults < MaxFaults /\ faults' = faults + 1 /\ UNCHANGED <<scene, calls>>

ServerKilled(s) ==
  /\ Fault /\ life[s] # "off"
  /\ Forgotten(s) /\ DaemonForgets(s)
  /\ work' = [work EXCEPT ![s] = Idle]
  /\ UNCHANGED <<diskVars, downloadVars>>
CommandKilled(u) ==
  /\ Fault /\ u \in Terminal /\ work[u] # Idle
  /\ DaemonForgets(u) /\ DoctorDies(u) /\ work' = [work EXCEPT ![u] = Idle]
  /\ UNCHANGED <<diskVars, extractorVars>>
ChildFails ==
  /\ Fault /\ (\E i \in DOMAIN children : ChildDies(i) \/ ChildHangs(i))
  /\ UNCHANGED <<work, daemonVars, diskVars, downloadVars>>
StoreKilled ==
  /\ Fault /\ (\E i \in DOMAIN stores : StoreDies(i))
  /\ UNCHANGED <<work, diskVars, extractorVars, downloadVars>>

Init ==
  /\ scene \in Scenes
  /\ work = [u \in User |-> Idle] /\ calls = 0 /\ faults = 0
  /\ DaemonInit /\ InstallInit(scene.disk) /\ ExtractorInit /\ DownloadsInit(scene.pinned, scene.model)

Next ==
  \/ \E u \in User : Begin(u) \/ UserWorks(u) \/ CommandKilled(u)
  \/ \E s \in Server : ServerStarts(s) \/ Ingest(s) \/ ServerWorks(s) \/ ServerKilled(s)
  \/ Children \/ Stores \/ ChildFails \/ StoreKilled

\* The worker's steps come to their end: the question to the model has a
\* timeout.  A health request has none, and waits as long as the child hangs.
\* No child need ever be ready.
Fairness == \A s \in Server : WF_vars(WorkerStep(s) /\ UNCHANGED <<scene, useVars, daemonVars, diskVars, downloadVars>>)
Spec == Init /\ [][Next]_vars /\ Fairness

\* The state is well typed, and each command in hand is one of its kind.
TypeOK ==
  /\ DaemonTypeOK /\ InstallTypeOK /\ ExtractorTypeOK /\ DownloadsTypeOK
  /\ calls \in 0 .. MaxCalls /\ faults \in 0 .. MaxFaults
  /\ \A u \in User : work[u] = Idle \/ Daemonic(u) \/ Installing(u) \/ work[u] \in Doctor
  /\ \A s \in Server :
       worker[s].pc \in {"idle", "peek", "binary", "model", "spawn", "hold", "poll", "ask", "add"}

=============================================================================
