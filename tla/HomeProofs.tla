----------------------------- MODULE HomeProofs -----------------------------
(***************************************************************************)
(* The files of the data directory for any number of processes, tasks,     *)
(* agents, ids, secrets and passwords, and any mix of the operations: one  *)
(* inductive invariant per component, and one frame for all of them.       *)
(***************************************************************************)
EXTENDS Home, SequenceTheorems, TLAPS

-----------------------------------------------------------------------------
(* The calls in hand.                                                      *)

StartCall ==
  [op : {"start"}, agent : Agent, path : {None} \cup Nat,
   pc : {"look", "age", "read", "write", "unpoint", "unbeat", "create", "point", "touch", "beat"}]
EndCall == [op : {"end"}, agent : Agent, path : {None} \cup Nat, pc : {"read", "write", "unpoint"}]
StampCall == [op : {"warm"}, pc : {"stamp"}, agents : SUBSET Agent, now : Nat]
RecordCall ==
  [op : {"change", "reanchor"}, pc : {"verify", "lock", "tip", "line", "newline"},
   event : Nat, prev : {None} \cup Hash, acks : SUBSET Nat]
SearchCall == [op : {"search"}, pc : {"record"}, ids : SUBSET Id]
RekeyCall == [op : {"rekey"}, pc : {"load", "write", "own"}, read : Counts]
ConsolidateCall == [op : {"consolidate"}, pc : {"flush", "flushing"}]
Map == [Name -> {None} \cup Value]
BlockCall ==
  [op : {"block"}, pc : {"load"}, name : Name, value : Value \cup {None}, read : {<< >>}]
    \cup [op : {"block"}, pc : {"save"}, name : Name, value : Value \cup {None}, read : Map]
KvCall ==
  [op : {"kv"}, pc : {"lock"}, name : Name, value : Value, read : {<< >>}]
    \cup [op : {"kv"}, pc : {"write"}, name : Name, value : Value, read : Map]
OpenCall ==
  [op : {"store", "retrieve", "list", "delete"}, secret : Secret, call : Salt,
   pc : {"prompt", "look", "salt", "make", "load", "save"}, password : {None} \cup Password,
   key : {None} \cup Key, secrets : SUBSET Secret]

SessionWork == StartCall \cup EndCall
FileWork == SearchCall \cup RekeyCall \cup ConsolidateCall \cup BlockCall \cup KvCall
Rest == {Idle, Warming} \cup StampCall

WorkOK ==
  /\ work \in [Caller -> Rest \cup SessionWork \cup RecordCall \cup FileWork \cup OpenCall]
  /\ calls \in Nat /\ faults \in Nat

\* What the proofs of one component need to know of a step of another.
SessionOps == {"start", "end"}
AuditOps == {"change", "reanchor"}
FileOps == {"search", "rekey", "consolidate", "block", "kv"}
VaultOps == {"store", "retrieve", "list", "delete"}

\* A call that changes is c's, and it is one of these or at rest.
Only(c, ops) ==
  \A d \in Caller : work'[d] = work[d] \/ (d = c /\ work'[d].op \in ops \cup {"none", "warm"})

LEMMA GoOnly ==
  ASSUME WorkOK, NEW c \in Caller, NEW ops, NEW r, Go(c, r), 
         r \in Rest \cup SessionWork \cup RecordCall \cup FileWork \cup OpenCall,
         r.op \in ops \cup {"none", "warm"}
  PROVE  WorkOK' /\ Only(c, ops) /\ work'[c] = r
  BY DEF Go, WorkOK, Only

LEMMA AnswerOnly ==
  ASSUME WorkOK, NEW c \in Caller, NEW ops, Answer(c)
  PROVE  WorkOK' /\ Only(c, ops) /\ work'[c] \in {Idle, Warming}
  <1>1. \A r \in {Idle, Warming} : r.op \in ops \cup {"none", "warm"}
    BY DEF Idle, Warming
  <1>2. PICK r \in {Idle, Warming} : Go(c, r)
    BY DEF Answer
  <1> QED
    BY <1>1, <1>2, GoOnly DEF Rest

\* What is in hand is told by its operation.
LEMMA Kinds ==
  ASSUME WorkOK, NEW c \in Caller
  PROVE  /\ work[c].op = "start" => work[c] \in StartCall
         /\ work[c].op = "end" => work[c] \in EndCall
         /\ At(c, "warm", "stamp") => work[c] \in StampCall
         /\ work[c].op \in AuditOps => work[c] \in RecordCall
         /\ work[c].op = "search" => work[c] \in SearchCall
         /\ work[c].op = "rekey" => work[c] \in RekeyCall
         /\ work[c].op = "consolidate" => work[c] \in ConsolidateCall
         /\ work[c].op = "block" => work[c] \in BlockCall
         /\ work[c].op = "kv" => work[c] \in KvCall
         /\ work[c].op \in VaultOps => work[c] \in OpenCall
  <1>1. work[c] \in Rest \cup SessionWork \cup RecordCall \cup FileWork \cup OpenCall
    BY DEF WorkOK
  <1> QED
    BY <1>1 DEF Rest, Idle, Warming, StampCall, SessionWork, StartCall, EndCall, RecordCall, FileWork,
         SearchCall, RekeyCall, ConsolidateCall, BlockCall, KvCall, OpenCall, AuditOps, VaultOps, At

-----------------------------------------------------------------------------
(* Sessions.                                                               *)

SessionFile == [agent : Agent, started : Nat, status : Statuses]

SessionOK ==
  /\ files \in Seq(SessionFile)
  /\ pointer \in [Agent -> {None} \cup Nat]
  /\ beat \in [Agent -> {None} \cup Nat]
  /\ warm \in [Agent -> {None} \cup Nat]
  /\ clock \in Nat
  /\ calm \in [Caller -> BOOLEAN]

StartPcs == {"look", "age", "read", "write", "unpoint", "unbeat", "create", "point", "touch", "beat"}

LEMMA StartGoes ==
  ASSUME NEW r \in StartCall, NEW pc \in StartPcs
  PROVE  /\ [r EXCEPT !.pc = pc] \in StartCall
         /\ [r EXCEPT !.pc = pc].pc = pc /\ [r EXCEPT !.pc = pc].agent = r.agent
         /\ [r EXCEPT !.pc = pc].path = r.path
  BY DEF StartCall, StartPcs

LEMMA StartGoesTo ==
  ASSUME NEW r \in StartCall, NEW pc \in StartPcs, NEW path \in {None} \cup Nat
  PROVE  /\ [r EXCEPT !.pc = pc, !.path = path] \in StartCall
         /\ [r EXCEPT !.pc = pc, !.path = path].pc = pc
         /\ [r EXCEPT !.pc = pc, !.path = path].agent = r.agent
  <1>1. [r EXCEPT !.pc = pc] \in StartCall
    BY StartGoes
  <1>2. \A s \in StartCall : [s EXCEPT !.path = path] \in StartCall
    BY DEF StartCall
  <1>3. [r EXCEPT !.pc = pc, !.path = path] \in StartCall
    BY <1>1, <1>2
  <1> QED
    BY <1>3 DEF StartCall

LEMMA EndGoes ==
  ASSUME NEW r \in EndCall, NEW pc \in {"read", "write", "unpoint"}
  PROVE  [r EXCEPT !.pc = pc] \in EndCall
  BY DEF EndCall

LEMMA EndGoesTo ==
  ASSUME NEW r \in EndCall, NEW pc \in {"read", "write", "unpoint"}, NEW path \in {None} \cup Nat
  PROVE  [r EXCEPT !.pc = pc, !.path = path] \in EndCall
  <1>1. [r EXCEPT !.pc = pc] \in EndCall
    BY EndGoes
  <1>2. \A s \in EndCall : [s EXCEPT !.path = path] \in EndCall
    BY DEF EndCall
  <1> QED
    BY <1>1, <1>2

\* What an undisturbed start has read, or done, still holds.
Knows(c) ==
  work[c].op = "start" /\ calm[c] =>
    /\ work[c].pc \in {"read", "write"} /\ beat[Mine(c)] # None => clock - beat[Mine(c)] >= IdleTicks
    /\ work[c].pc \in {"point", "touch", "beat"} =>
         Path(c) \in DOMAIN files /\ files[Path(c)].agent = Mine(c) /\ files[Path(c)].status = "active"
    /\ work[c].pc \in {"touch", "beat"} => pointer[Mine(c)] = Path(c)

WarmIsBeat == \A a \in Agent : warm[a] # None => beat[a] = warm[a]

SessionInv == SessionOK /\ WarmIsBeat /\ \A c \in Caller : Knows(c)

LEMMA CalmOK ==
  ASSUME NEW c, RememberCalm(c)
  PROVE  calm' \in [Caller -> BOOLEAN]
  BY DEF RememberCalm

\* Who is not disturbed goes on knowing.
LEMMA BystanderKnows ==
  ASSUME WorkOK, SessionOK, NEW c, RememberCalm(c), NEW d \in Caller, d # c, work'[d] = work[d], Knows(d),
         DOMAIN files \subseteq DOMAIN files', clock' = clock
  PROVE  Knows(d)'
  <1> SUFFICES ASSUME work'[d].op = "start", calm'[d]
               PROVE  /\ (work[d].pc \in {"read", "write"} /\ beat[Mine(d)] # None => clock - beat[Mine(d)] >= IdleTicks)'
                      /\ (work[d].pc \in {"point", "touch", "beat"} =>
                            Path(d) \in DOMAIN files /\ files[Path(d)].agent = Mine(d)
                              /\ files[Path(d)].status = "active")'
                      /\ (work[d].pc \in {"touch", "beat"} => pointer[Mine(d)] = Path(d))'
    BY DEF Knows
  <1>1. calm[d] /\ ~Disturbed(work[d].agent)
    BY DEF RememberCalm
  <1>2. Mine(d)' = Mine(d) /\ Path(d)' = Path(d)
    BY DEF Mine, Path
  <1>3. pointer'[Mine(d)] = pointer[Mine(d)] /\ beat'[Mine(d)] = beat[Mine(d)]
    BY <1>1 DEF Disturbed, Mine
  <1>4. \A f \in DOMAIN files : files[f].agent = Mine(d) => files'[f] = files[f]
    BY <1>1 DEF Disturbed, Mine
  <1> QED
    BY <1>1, <1>2, <1>3, <1>4 DEF Knows

\* A step of anything else.
SessionFrame ==
  \A d \in Caller : work'[d] # work[d] /\ work'[d].op = "start" => work'[d].pc = "look"

LEMMA SessionAside ==
  ASSUME SessionInv, UNCHANGED <<files, pointer, beat, warm, clock>>, NEW c, RememberCalm(c), SessionFrame
  PROVE  SessionInv'
  <1>1. SessionOK'
    BY CalmOK DEF SessionInv, SessionOK
  <1>2. WarmIsBeat'
    BY DEF SessionInv, WarmIsBeat
  <1>3. ASSUME NEW d \in Caller PROVE Knows(d)'
    <2>1. calm'[d] => calm[d] \/ work'[d].op # "start"
      BY DEF RememberCalm
    <2>2. Knows(d)
      BY DEF SessionInv
    <2> QED
      BY <2>1, <2>2 DEF Knows, Mine, Path, SessionFrame
  <1> QED
    BY <1>1, <1>2, <1>3 DEF SessionInv

LEMMA TimePasses ==
  ASSUME WorkOK, SessionInv, Tick, UNCHANGED work
  PROVE  SessionInv'
  <1>1. clock' = clock + 1 /\ clock \in Nat /\ beat \in [Agent -> {None} \cup Nat] /\ UNCHANGED <<files, pointer, beat, warm, calm>>
    BY DEF Tick, SessionInv, SessionOK
  <1>2. SessionOK' /\ WarmIsBeat'
    BY <1>1 DEF SessionInv, SessionOK, WarmIsBeat
  <1>3. ASSUME NEW d \in Caller PROVE Knows(d)'
    <2>1. Knows(d)
      BY DEF SessionInv
    <2>2. work[d].op = "start" => Mine(d) \in Agent
      BY Kinds DEF StartCall, Mine
    <2> QED
      BY <1>1, <2>1, <2>2, SessionsAssumption DEF Knows, Mine, Path
  <1> QED
    BY <1>2, <1>3 DEF SessionInv

\* What a step of a start, an end or a warming owes.
Settles(c) ==
  /\ WorkOK' /\ Only(c, SessionOps)
  /\ SessionOK' /\ WarmIsBeat' /\ Knows(c)' /\ DOMAIN files \subseteq DOMAIN files'

LEMMA SessionGo ==
  ASSUME WorkOK, NEW c \in Caller, NEW r \in StartCall \cup EndCall \cup Rest, Go(c, r)
  PROVE  WorkOK' /\ Only(c, SessionOps) /\ work'[c] = r
  <1>1. r.op \in SessionOps \cup {"none", "warm"}
    BY DEF StartCall, EndCall, Rest, Idle, Warming, StampCall, SessionOps
  <1> QED
    BY <1>1, GoOnly DEF SessionWork

LEMMA SessionSettles ==
  ASSUME WorkOK, SessionInv, NEW c \in Caller, SessionStep(c), RememberCalm(c)
  PROVE  Settles(c)
  <1>0. SessionOK /\ WarmIsBeat /\ Knows(c) /\ calm' \in [Caller -> BOOLEAN]
    BY CalmOK DEF SessionInv
  <1>c. work'[c].op = "start" => calm'[c] = calm[c] \/ work[c].op # "start"
    BY <1>0 DEF RememberCalm, SessionOK
  <1>1. CASE StartLook(c)
    <2>1. work[c] \in StartCall /\ Mine(c) \in Agent
      BY <1>1, Kinds DEF StartLook, At, StartCall, Mine
    <2>2. PICK f \in {None} \cup Nat : f = pointer[Mine(c)]
      BY <1>0, <2>1 DEF SessionOK
    <2>3. CASE GoWith(c, "age", f) /\ UNCHANGED pointer
      <3>1. [work[c] EXCEPT !.pc = "age", !.path = f] \in StartCall
        BY <2>1, <2>2, StartGoesTo DEF StartPcs
      <3>2. WorkOK' /\ Only(c, SessionOps) /\ work'[c].pc = "age"
        BY <2>1, <2>3, <3>1, SessionGo DEF GoWith, StartCall
      <3> QED
        BY <1>0, <1>1, <2>3, <3>2 DEF StartLook, Settles, SessionOK, WarmIsBeat, Knows
    <2>4. CASE GoTo(c, "create") /\ pointer' = [pointer EXCEPT ![Mine(c)] = None]
      <3>1. [work[c] EXCEPT !.pc = "create"] \in StartCall
        BY <2>1, StartGoes DEF StartPcs
      <3>2. WorkOK' /\ Only(c, SessionOps) /\ work'[c].pc = "create"
        BY <2>1, <2>4, <3>1, SessionGo DEF GoTo, StartCall
      <3> QED
        BY <1>0, <1>1, <2>4, <3>2 DEF StartLook, Settles, SessionOK, WarmIsBeat, Knows
    <2> QED
      BY <1>1, <2>2, <2>3, <2>4 DEF StartLook
  <1>2. CASE StartAge(c)
    <2>1. work[c] \in StartCall /\ Mine(c) \in Agent
      BY <1>2, Kinds DEF StartAge, At, StartCall, Mine
    <2>2. PICK pc \in {"read", "create"} :
            GoTo(c, pc) /\ (pc = "read" /\ beat[Mine(c)] # None => clock - beat[Mine(c)] >= IdleTicks)
      BY <1>2 DEF StartAge, LastActive
    <2>3. [work[c] EXCEPT !.pc = pc] \in StartCall
      BY <2>1, StartGoes DEF StartPcs
    <2>4. WorkOK' /\ Only(c, SessionOps) /\ work'[c] = [work[c] EXCEPT !.pc = pc]
      BY <2>2, <2>3, SessionGo DEF GoTo
    <2>5. work'[c].pc = pc /\ work'[c].agent = work[c].agent
      BY <2>1, <2>4 DEF StartCall
    <2>6. UNCHANGED <<files, pointer, beat, clock, warm>>
      BY <1>2 DEF StartAge
    <2> QED
      BY <1>0, <2>2, <2>4, <2>5, <2>6 DEF Settles, SessionOK, WarmIsBeat, Knows, Mine
  <1>3. CASE EndRead(c)
    <2>1. UNCHANGED <<files, pointer, beat, clock, warm>>
      BY <1>3 DEF EndRead
    <2>2. CASE work[c].op = "start"
      <3>1. work[c] \in StartCall /\ Mine(c) \in Agent /\ work[c].pc = "read"
        BY <1>3, <2>2, Kinds DEF EndRead, StartCall, Mine
      <3>2. PICK f \in {None} \cup Nat : f = pointer[Mine(c)]
        BY <1>0, <3>1 DEF SessionOK
      <3>3. PICK r \in {[work[c] EXCEPT !.pc = "write", !.path = f], [work[c] EXCEPT !.pc = "create"]} : Go(c, r)
        BY <1>3, <2>2, <3>2 DEF EndRead, GoWith, GoTo
      <3>4. r \in StartCall /\ r.pc \in {"write", "create"} /\ r.agent = work[c].agent
        <4>1. CASE r = [work[c] EXCEPT !.pc = "write", !.path = f]
          <5>1. [work[c] EXCEPT !.pc = "write", !.path = f] \in StartCall
                /\ [work[c] EXCEPT !.pc = "write", !.path = f].pc = "write"
                /\ [work[c] EXCEPT !.pc = "write", !.path = f].agent = work[c].agent
            <6>1. [work[c] EXCEPT !.pc = "write", !.path = f] \in StartCall
              BY <3>1, <3>2, StartGoesTo DEF StartPcs
            <6> QED
              BY <3>1, <6>1 DEF StartCall
          <5> QED
            BY <4>1, <5>1
        <4>2. CASE r = [work[c] EXCEPT !.pc = "create"]
          BY <3>1, <4>2, StartGoes DEF StartPcs
        <4> QED
          BY <3>3, <4>1, <4>2
      <3>5. WorkOK' /\ Only(c, SessionOps) /\ work'[c] = r
        BY <3>3, <3>4, SessionGo
      <3> QED
        BY <1>0, <1>c, <2>1, <2>2, <3>1, <3>4, <3>5 DEF Settles, SessionOK, WarmIsBeat, Knows, Mine
    <2>3. CASE work[c].op = "end"
      <3>1. work[c] \in EndCall /\ Mine(c) \in Agent
        BY <1>3, <2>3, Kinds DEF EndRead, EndCall, Mine
      <3>2. PICK f \in {None} \cup Nat : f = pointer[Mine(c)]
        BY <1>0, <3>1 DEF SessionOK
      <3>3. PICK r \in {[work[c] EXCEPT !.pc = "write", !.path = f], Idle, Warming} : Go(c, r)
        BY <1>3, <2>3, <3>2 DEF EndRead, GoWith, Answer
      <3>4. r \in EndCall \cup Rest
        <4>1. CASE r = [work[c] EXCEPT !.pc = "write", !.path = f]
          BY <3>1, <3>2, <4>1, EndGoesTo
        <4>2. CASE r \in {Idle, Warming}
          BY <4>2 DEF Rest
        <4> QED
          BY <3>3, <4>1, <4>2
      <3>5. WorkOK' /\ Only(c, SessionOps) /\ work'[c].op # "start"
        BY <3>3, <3>4, SessionGo DEF EndCall, Rest, StampCall, Idle, Warming
      <3> QED
        BY <1>0, <2>1, <3>5 DEF Settles, SessionOK, WarmIsBeat, Knows
    <2> QED
      BY <1>3, <2>2, <2>3 DEF EndRead
  <1>4. CASE EndWrite(c)
    <2>1. UNCHANGED <<pointer, beat, clock, warm>> /\ GoTo(c, "unpoint")
      BY <1>4 DEF EndWrite
    <2>2. work[c] \in StartCall \cup EndCall
      BY <1>4, Kinds DEF EndWrite
    <2>3. [work[c] EXCEPT !.pc = "unpoint"] \in StartCall \cup EndCall
      BY <2>2, StartGoes, EndGoes DEF StartPcs
    <2>4. WorkOK' /\ Only(c, SessionOps) /\ work'[c].pc = "unpoint"
      BY <2>1, <2>2, <2>3, SessionGo DEF GoTo, StartCall, EndCall
    <2>5. files' \in Seq(SessionFile) /\ DOMAIN files' = DOMAIN files
      <3>1. \A f \in SessionFile : [f EXCEPT !.status = "completed"] \in SessionFile
        BY DEF SessionFile, Statuses
      <3>2. files' = [files EXCEPT ![Path(c)] = [files[Path(c)] EXCEPT !.status = "completed"]]
        BY <1>4 DEF EndWrite
      <3>3. files \in Seq(SessionFile) /\ DOMAIN files = 1 .. Len(files)
        BY <1>0 DEF SessionOK
      <3>4. CASE Path(c) \in 1 .. Len(files)
        <4>1. [files[Path(c)] EXCEPT !.status = "completed"] \in SessionFile
          BY <3>1, <3>3, <3>4
        <4>2. files' \in Seq(SessionFile) /\ Len(files') = Len(files)
          BY <3>2, <3>3, <3>4, <4>1, ExceptSeq
        <4> QED
          BY <3>3, <4>2, LenProperties
      <3>5. CASE Path(c) \notin DOMAIN files
        <4>1. files = [f \in 1 .. Len(files) |-> files[f]]
          BY <3>3, LenProperties
        <4>2. files' = [f \in 1 .. Len(files) |-> files[f]]
          BY <3>2, <3>3, <3>5, <4>1
        <4> QED
          BY <3>3, <4>1, <4>2
      <3> QED
        BY <3>3, <3>4, <3>5
    <2> QED
      BY <1>0, <2>1, <2>4, <2>5 DEF Settles, SessionOK, WarmIsBeat, Knows
  <1>5. CASE EndUnpoint(c)
    <2>1. UNCHANGED <<files, beat, clock, warm>> /\ pointer' = [pointer EXCEPT ![Mine(c)] = None]
      BY <1>5 DEF EndUnpoint
    <2>2. PICK r \in {[work[c] EXCEPT !.pc = "unbeat"], Idle, Warming} :
            Go(c, r) /\ (work[c].op # "start" => r \in {Idle, Warming})
      BY <1>5 DEF EndUnpoint, GoTo, Answer
    <2>3. r \in StartCall \cup Rest /\ (r.op = "start" => r.pc = "unbeat")
      <3>1. CASE r \in {Idle, Warming}
        BY <3>1 DEF Rest, Idle, Warming
      <3>2. CASE r = [work[c] EXCEPT !.pc = "unbeat"] /\ work[c].op = "start"
        <4>1. work[c] \in StartCall
          BY <3>2, Kinds
        <4> QED
          BY <3>2, <4>1, StartGoes DEF StartPcs
      <3> QED
        BY <2>2, <3>1, <3>2
    <2>4. WorkOK' /\ Only(c, SessionOps) /\ work'[c] = r
      BY <2>2, <2>3, SessionGo
    <2> QED
      BY <1>0, <2>1, <2>3, <2>4 DEF Settles, SessionOK, WarmIsBeat, Knows
  <1>6. CASE StartUnbeat(c)
    <2>1. work[c] \in StartCall /\ Mine(c) \in Agent
      BY <1>6, Kinds DEF StartUnbeat, At, StartCall, Mine
    <2>2. [work[c] EXCEPT !.pc = "create"] \in StartCall
      BY <2>1, StartGoes DEF StartPcs
    <2>3. WorkOK' /\ Only(c, SessionOps) /\ work'[c].pc = "create"
      BY <1>6, <2>1, <2>2, SessionGo DEF StartUnbeat, GoTo, StartCall
    <2> QED
      BY <1>0, <1>6, <2>1, <2>3 DEF StartUnbeat, Settles, SessionOK, WarmIsBeat, Knows
  <1>7. CASE StartCreate(c)
    <2> DEFINE r == [work[c] EXCEPT !.pc = "point", !.path = Len(files) + 1]
    <2>1. work[c] \in StartCall /\ Mine(c) \in Agent
      BY <1>7, Kinds DEF StartCreate, At, StartCall, Mine
    <2>2. Len(files) + 1 \in Nat
      BY <1>0 DEF SessionOK
    <2>3. r \in StartCall
      BY <2>1, <2>2, StartGoesTo DEF StartPcs
    <2>4. WorkOK' /\ Only(c, SessionOps) /\ work'[c] = r
      BY <1>7, <2>3, SessionGo DEF StartCreate, GoWith
    <2>5. r.pc = "point" /\ r.path = Len(files) + 1 /\ r.agent = work[c].agent
      BY <2>1 DEF StartCall
    <2>6. files' = Append(files, [agent |-> Mine(c), started |-> clock, status |-> "active"])
          /\ UNCHANGED <<pointer, beat, clock, warm>>
      BY <1>7 DEF StartCreate
    <2>7. files' \in Seq(SessionFile) /\ DOMAIN files \subseteq DOMAIN files' /\ Len(files) + 1 \in DOMAIN files'
          /\ files'[Len(files) + 1] = [agent |-> Mine(c), started |-> clock, status |-> "active"]
      BY <1>0, <2>1, <2>6 DEF SessionOK, SessionFile, Statuses
    <2> HIDE DEF r
    <2> QED
      BY <1>0, <2>4, <2>5, <2>6, <2>7 DEF Settles, SessionOK, WarmIsBeat, Knows, Mine, Path
  <1>8. CASE StartPoint(c)
    <2>1. work[c] \in StartCall /\ Mine(c) \in Agent /\ Path(c) \in {None} \cup Nat /\ work[c].op = "start" /\ work[c].pc = "point"
      BY <1>8, Kinds DEF StartPoint, At, StartCall, Mine, Path
    <2>2. [work[c] EXCEPT !.pc = "touch"] \in StartCall
      BY <2>1, StartGoes DEF StartPcs
    <2>3. WorkOK' /\ Only(c, SessionOps) /\ work'[c] = [work[c] EXCEPT !.pc = "touch"]
      BY <1>8, <2>2, SessionGo DEF StartPoint, GoTo
    <2>4. work'[c].pc = "touch" /\ work'[c].agent = work[c].agent /\ work'[c].path = work[c].path
      BY <2>1, <2>3 DEF StartCall
    <2>5. pointer' = [pointer EXCEPT ![Mine(c)] = Path(c)] /\ warm' = [warm EXCEPT ![Mine(c)] = None]
          /\ UNCHANGED <<files, beat, clock>>
      BY <1>8 DEF StartPoint
    <2>6. SessionOK' /\ WarmIsBeat'
      BY <1>0, <2>1, <2>5 DEF SessionOK, WarmIsBeat
    <2>7. Knows(c)'
      BY <1>0, <1>c, <2>1, <2>4, <2>5 DEF SessionOK, Knows, Mine, Path
    <2> QED
      BY <2>3, <2>5, <2>6, <2>7 DEF Settles
  <1>9. CASE StartTouch(c)
    <2>1. UNCHANGED <<files, pointer, beat, clock, warm>>
      BY <1>9 DEF StartTouch
    <2>2. work[c] \in StartCall /\ work[c].op = "start" /\ work[c].pc = "touch"
      BY <1>9, Kinds DEF StartTouch, At, StartCall
    <2>3. PICK r \in {[work[c] EXCEPT !.pc = "beat"], Idle, Warming} : Go(c, r)
      BY <1>9 DEF StartTouch, GoTo, Answer
    <2>4. r \in StartCall \cup Rest
          /\ (r.op = "start" => r.pc = "beat" /\ r.agent = work[c].agent /\ r.path = work[c].path)
      <3>1. CASE r = [work[c] EXCEPT !.pc = "beat"]
        BY <2>2, <3>1, StartGoes DEF StartPcs
      <3>2. CASE r \in {Idle, Warming}
        BY <3>2 DEF Rest, Idle, Warming
      <3> QED
        BY <2>3, <3>1, <3>2
    <2>5. WorkOK' /\ Only(c, SessionOps) /\ work'[c] = r
      BY <2>3, <2>4, SessionGo
    <2> QED
      BY <1>0, <1>c, <2>1, <2>2, <2>4, <2>5 DEF Settles, SessionOK, WarmIsBeat, Knows, Mine, Path
  <1>10. CASE StartBeat(c)
    <2>1. work[c] \in StartCall /\ Mine(c) \in Agent
      BY <1>10, Kinds DEF StartBeat, At, StartCall, Mine
    <2>2. WorkOK' /\ Only(c, SessionOps) /\ work'[c] \in {Idle, Warming}
      BY <1>10, AnswerOnly DEF StartBeat
    <2>3. work'[c].op # "start"
      BY <2>2 DEF Idle, Warming
    <2> QED
      BY <1>0, <1>10, <2>1, <2>2, <2>3 DEF StartBeat, Stamp, Settles, SessionOK, WarmIsBeat, Knows
  <1>11. CASE WarmList(c)
    <2>1. PICK r \in {Idle, [op |-> "warm", pc |-> "stamp", agents |-> {a \in Agent : pointer[a] # None}, now |-> clock]} :
            Go(c, r)
      BY <1>11 DEF WarmList
    <2>2. r \in Rest
      BY <1>0, <2>1 DEF Rest, StampCall, SessionOK
    <2>3. WorkOK' /\ Only(c, SessionOps) /\ work'[c].op # "start"
      BY <2>1, <2>2, SessionGo DEF Rest, StampCall, Idle, Warming
    <2> QED
      BY <1>0, <1>11, <2>3 DEF WarmList, Settles, SessionOK, WarmIsBeat, Knows
  <1>12. CASE WarmStamp(c)
    <2>1. work[c] \in StampCall
      BY <1>12, Kinds DEF WarmStamp
    <2>2. PICK a \in work[c].agents :
            /\ Stamp(a, work[c].now)
            /\ Go(c, IF work[c].agents = {a} THEN Idle ELSE [work[c] EXCEPT !.agents = @ \ {a}])
      BY <1>12 DEF WarmStamp
    <2>3. a \in Agent /\ work[c].now \in Nat
      BY <2>1 DEF StampCall
    <2>4. [work[c] EXCEPT !.agents = @ \ {a}] \in StampCall
      BY <2>1 DEF StampCall
    <2>5. WorkOK' /\ Only(c, SessionOps) /\ work'[c].op # "start"
      <3>1. PICK r \in Rest : Go(c, r)
        BY <2>2, <2>4 DEF Rest
      <3> QED
        BY <3>1, SessionGo DEF Rest, StampCall, Idle, Warming
    <2> QED
      BY <1>0, <1>12, <2>2, <2>3, <2>5 DEF WarmStamp, Stamp, Settles, SessionOK, WarmIsBeat, Knows
  <1> QED
    BY <1>1, <1>2, <1>3, <1>4, <1>5, <1>6, <1>7, <1>8, <1>9, <1>10, <1>11, <1>12 DEF SessionStep

LEMMA SessionKeeps ==
  ASSUME WorkOK, SessionInv, NEW c \in Caller, SessionStep(c), RememberCalm(c)
  PROVE  WorkOK' /\ Only(c, SessionOps) /\ SessionInv'
  <1>1. Settles(c)
    BY SessionSettles
  <1>2. clock' = clock
    BY DEF SessionStep, StartLook, StartAge, EndRead, EndWrite, EndUnpoint, StartUnbeat, StartCreate,
         StartPoint, StartTouch, StartBeat, WarmList, WarmStamp
  <1>3. ASSUME NEW d \in Caller, d # c PROVE Knows(d)'
    BY <1>1, <1>2, <1>3, BystanderKnows DEF Settles, Only, SessionInv
  <1> QED
    BY <1>1, <1>3 DEF Settles, SessionInv

-----------------------------------------------------------------------------
(* The audit log.                                                          *)

LogPiece ==
  [event : Nat, prev : {None} \cup Hash, acks : SUBSET Nat, part : {"whole", "cut", "bytes"}]

AuditOK ==
  /\ log \in Seq(Seq(LogPiece)) /\ Len(log) >= Legacy + 1
  /\ \A i \in 1 .. Len(log) : Len(log[i]) >= 1
  /\ ended \in BOOLEAN /\ torn \in BOOLEAN /\ lock \in {None} \cup Caller

\* A readable line since the lock is linked to the whole of the line before.
Linked ==
  \A i \in 1 .. Len(log) :
    i > Legacy + 1 /\ Readable(log[i]) /\ log[i][1].prev # None
      => log[i][1].prev = <<i - 1, Len(log[i - 1])>>

\* Who appends holds the lock, and what it read of the tip still holds.
Appending(c) ==
  /\ work[c].op \in AuditOps /\ work[c].pc \in {"tip", "line", "newline"} => lock = c
  /\ Audits(c, "line") => work[c].prev = Tip

\* As long as no line was torn: lines are whole, and a reanchor knows all breaks.
Tidy ==
  ~torn =>
    /\ \A i \in 1 .. Len(log) : Readable(log[i])
    /\ ended \/ \E c \in Caller : lock = c /\ Audits(c, "newline")
    /\ (\E i \in Checked : log[i][1].acks # {}) => Breaks \subseteq Acknowledged
    /\ \A c \in Caller :
         work[c].op \in AuditOps /\ work[c].pc \in {"lock", "tip", "line"} /\ work[c].acks # {}
           => Breaks \subseteq work[c].acks \cup Acknowledged

AuditInv == AuditOK /\ Linked /\ Tidy /\ \A c \in Caller : Appending(c)

LEMMA NothingNewBroken == AuditOK /\ Linked => NoNewBreak
  <1> SUFFICES ASSUME AuditOK, Linked, NEW i \in Breaks
               PROVE  i \in 2 .. Legacy + 1
    BY DEF NoNewBreak
  <1>1. /\ i \in DOMAIN log /\ i # 1 /\ Readable(log[i]) /\ log[i][1].prev # None
        /\ log[i][1].prev # <<i - 1, Len(log[i - 1])>>
    BY DEF Breaks, Checked
  <1>2. DOMAIN log = 1 .. Len(log) /\ Len(log) \in Nat
    BY LenProperties DEF AuditOK
  <1> QED
    BY <1>1, <1>2, LegacyAssumption DEF Linked

LEMMA RecordGoes ==
  ASSUME NEW r \in RecordCall, NEW pc \in {"verify", "lock", "tip", "line", "newline"}
  PROVE  /\ [r EXCEPT !.pc = pc] \in RecordCall /\ [r EXCEPT !.pc = pc].pc = pc
         /\ [r EXCEPT !.pc = pc].acks = r.acks /\ [r EXCEPT !.pc = pc].prev = r.prev
  BY DEF RecordCall

LEMMA RecordGoesLinked ==
  ASSUME NEW r \in RecordCall, NEW prev \in {None} \cup Hash
  PROVE  /\ [r EXCEPT !.pc = "line", !.prev = prev] \in RecordCall
         /\ [r EXCEPT !.pc = "line", !.prev = prev].pc = "line"
         /\ [r EXCEPT !.pc = "line", !.prev = prev].prev = prev
         /\ [r EXCEPT !.pc = "line", !.prev = prev].acks = r.acks
  <1>1. [r EXCEPT !.pc = "line"] \in RecordCall
    BY DEF RecordCall
  <1>2. \A s \in RecordCall : [s EXCEPT !.prev = prev] \in RecordCall
    BY DEF RecordCall
  <1>3. [r EXCEPT !.pc = "line", !.prev = prev] \in RecordCall
    BY <1>1, <1>2
  <1> QED
    BY <1>3 DEF RecordCall

LEMMA RecordGoesAcking ==
  ASSUME NEW r \in RecordCall, NEW acks \in SUBSET Nat
  PROVE  /\ [r EXCEPT !.pc = "lock", !.acks = acks] \in RecordCall
         /\ [r EXCEPT !.pc = "lock", !.acks = acks].pc = "lock"
         /\ [r EXCEPT !.pc = "lock", !.acks = acks].acks = acks
  <1>1. [r EXCEPT !.pc = "lock"] \in RecordCall
    BY DEF RecordCall
  <1>2. \A s \in RecordCall : [s EXCEPT !.acks = acks] \in RecordCall
    BY DEF RecordCall
  <1>3. [r EXCEPT !.pc = "lock", !.acks = acks] \in RecordCall
    BY <1>1, <1>2
  <1> QED
    BY <1>3 DEF RecordCall

\* What a write to the end of the file makes of it.
LEMMA WrittenTo ==
  ASSUME AuditOK, NEW c, NEW part, PieceOf(c, part) \in LogPiece
  PROVE  /\ Written(c, part) \in Seq(Seq(LogPiece))
         /\ \A i \in 1 .. Len(log) - 1 : Written(c, part)[i] = log[i]
         /\ ended => /\ Len(Written(c, part)) = Len(log) + 1
                     /\ Written(c, part)[Len(log)] = log[Len(log)]
                     /\ Written(c, part)[Len(log) + 1] = <<PieceOf(c, part)>>
         /\ ~ended => /\ Len(Written(c, part)) = Len(log)
                      /\ Len(Written(c, part)[Len(log)]) = Len(log[Len(log)]) + 1
  <1> DEFINE n == Len(log)
             piece == PieceOf(c, part)
  <1>1. n \in Nat \ {0} /\ log # << >> /\ log[n] \in Seq(LogPiece) /\ log \in Seq(Seq(LogPiece))
    <2>1. log \in Seq(Seq(LogPiece)) /\ n \in Nat /\ n >= 1
      BY LegacyAssumption, LenProperties DEF AuditOK
    <2> QED
      BY <2>1, ElementOfSeq, EmptySeq
  <1>2. CASE ended
    <2>1. Written(c, part) = Append(log, <<piece>>)
      BY <1>2 DEF Written
    <2>2. <<piece>> \in Seq(LogPiece)
      OBVIOUS
    <2> HIDE DEF piece
    <2> QED
      BY <1>1, <1>2, <2>1, <2>2, AppendProperties DEF piece
  <1>3. CASE ~ended
    <2>1. Written(c, part) = [log EXCEPT ![n] = Append(log[n], piece)]
      BY <1>1, <1>3 DEF Written
    <2>2. Append(log[n], piece) \in Seq(LogPiece) /\ Len(Append(log[n], piece)) = Len(log[n]) + 1
      BY <1>1, AppendProperties
    <2> HIDE DEF piece
    <2> QED
      BY <1>1, <1>3, <2>1, <2>2, ExceptSeq
  <1> QED
    BY <1>2, <1>3, <1>1 DEF AuditOK

LEMMA TipType ==
  ASSUME AuditOK
  PROVE  /\ Tip \in {None} \cup Hash
         /\ Tip # None => Tip = <<Len(log), Len(log[Len(log)])>>
  <1>1. Len(log) \in Nat \ {0} /\ log[Len(log)] \in Seq(LogPiece)
    <2>1. log \in Seq(Seq(LogPiece)) /\ Len(log) \in Nat /\ Len(log) >= 1
      BY LegacyAssumption, LenProperties DEF AuditOK
    <2> QED
      BY <2>1, ElementOfSeq
  <1>2. Len(log[Len(log)]) \in Nat
    BY <1>1, LenProperties
  <1> QED
    BY <1>1, <1>2 DEF Tip, Hash

LEMMA PieceType ==
  ASSUME NEW c, work[c] \in RecordCall, NEW part \in {"whole", "cut", "bytes"}
  PROVE  PieceOf(c, part) \in LogPiece
  BY DEF RecordCall, PieceOf, LogPiece

\* A line linked to the tip, written by who read it, links well.
LEMMA WritingLinks ==
  ASSUME AuditOK, Linked, NEW c, NEW part, PieceOf(c, part) \in LogPiece, work[c].prev = Tip,
         log' = Written(c, part), ended' \in BOOLEAN, torn' \in BOOLEAN, lock' \in {None} \cup Caller
  PROVE  AuditOK' /\ Linked'
  <1> DEFINE n == Len(log)
  <1>1. n \in Nat /\ n >= Legacy + 1 /\ Legacy \in Nat
    BY LegacyAssumption, LenProperties DEF AuditOK
  <1>2. /\ log' \in Seq(Seq(LogPiece))
        /\ \A i \in 1 .. n - 1 : log'[i] = log[i]
        /\ ended => /\ Len(log') = n + 1 /\ log'[n] = log[n] /\ log'[n + 1] = <<PieceOf(c, part)>>
        /\ ~ended => Len(log') = n /\ Len(log'[n]) = Len(log[n]) + 1
    BY WrittenTo
  <1>3. PieceOf(c, part).prev = Tip
    BY DEF PieceOf
  <1>4. ended \in BOOLEAN /\ \A i \in 1 .. n : Len(log[i]) \in Nat /\ Len(log[i]) >= 1
    BY ElementOfSeq, LenProperties DEF AuditOK
  <1> HIDE DEF n
  <1>n. \A i \in 1 .. Len(log') : i \in 1 .. n - 1 \/ i = n \/ (i = n + 1 /\ ended)
    <2>1. Len(log') = n \/ (Len(log') = n + 1 /\ ended)
      BY <1>2, <1>4
    <2> QED
      BY <1>1, <2>1
  <1>5. AuditOK'
    <2>1. ASSUME NEW i \in 1 .. Len(log') PROVE Len(log'[i]) >= 1
      <3>1. CASE i \in 1 .. n - 1
        <4>1. i \in 1 .. n
          BY <1>1, <3>1
        <4> QED
          BY <1>2, <1>4, <3>1, <4>1
      <3>2. CASE i = n
        <4>1. Len(log[n]) \in Nat /\ Len(log[n]) >= 1
          BY <1>1, <1>4
        <4>2. Len(log'[n]) = Len(log[n]) \/ Len(log'[n]) = Len(log[n]) + 1
          BY <1>2, <1>4
        <4> QED
          BY <3>2, <4>1, <4>2
      <3>3. CASE i = n + 1 /\ ended
        <4>1. Len(log'[i]) = 1
          BY <1>2, <3>3
        <4> QED
          BY <4>1
      <3> QED
        BY <1>n, <3>1, <3>2, <3>3
    <2> QED
      BY <1>1, <1>2, <1>4, <2>1 DEF AuditOK
  <1>6. ASSUME NEW i \in 1 .. Len(log'), i > Legacy + 1, Readable(log'[i]), log'[i][1].prev # None
        PROVE  log'[i][1].prev = <<i - 1, Len(log'[i - 1])>>
    <2>1. CASE i \in 1 .. n - 1
      <3>1. i - 1 \in 1 .. n - 1 /\ i \in 1 .. n
        BY <1>1, <1>6, <2>1
      <3> QED
        BY <1>2, <1>6, <2>1, <3>1 DEF Linked, n
    <2>2. CASE i = n /\ ended
      <3>1. i - 1 \in 1 .. n - 1 /\ i \in 1 .. n
        BY <1>1, <1>6, <2>2
      <3> QED
        BY <1>2, <1>6, <2>2, <3>1 DEF Linked, n
    <2>3. CASE i = n /\ ~ended
      <3>1. Len(log[n]) >= 1 /\ Len(log[n]) \in Nat
        BY <1>1, <1>4
      <3>2. Len(log'[i]) = Len(log[n]) + 1
        BY <1>2, <2>3
      <3>3. Len(log'[i]) = 1
        BY <1>6 DEF Readable
      <3> HIDE DEF n
      <3>4. \A l \in Nat : l >= 1 => l + 1 # 1
        OBVIOUS
      <3> QED
        BY <3>1, <3>2, <3>3, <3>4
    <2>4. CASE i = n + 1 /\ ended
      <3>1. log'[i][1] = PieceOf(c, part)
        BY <1>2, <2>4
      <3>2. Tip = <<n, Len(log[n])>>
        BY <1>3, <1>6, <3>1, TipType DEF n
      <3> QED
        BY <1>1, <1>2, <1>3, <2>4, <3>1, <3>2
    <2> QED
      BY <1>n, <1>4, <2>1, <2>2, <2>3, <2>4
  <1> QED
    BY <1>5, <1>6 DEF Linked

LEMMA LogSame ==
  ASSUME UNCHANGED log
  PROVE  UNCHANGED <<Breaks, Checked, Acknowledged, Tip>>
  <1>1. IsText' = IsText
    BY DEF IsText
  <1>2. Checked' = Checked
    BY <1>1 DEF Checked
  <1> QED
    BY <1>1, <1>2 DEF Breaks, Acknowledged, Tip

LEMMA AllReadable ==
  ASSUME NEW lines \in Seq(Seq(LogPiece)), \A i \in 1 .. Len(lines) : Readable(lines[i])
  PROVE  /\ DOMAIN lines = 1 .. Len(lines)
         /\ \A i \in DOMAIN lines : \A j \in DOMAIN lines[i] : lines[i][j].part # "bytes"
  <1>1. DOMAIN lines = 1 .. Len(lines)
    BY LenProperties
  <1>2. ASSUME NEW i \in 1 .. Len(lines), NEW j \in DOMAIN lines[i] PROVE lines[i][j].part # "bytes"
    <2>1. lines[i] \in Seq(LogPiece) /\ Len(lines[i]) = 1 /\ lines[i][1].part = "whole"
      BY ElementOfSeq DEF Readable
    <2>2. DOMAIN lines[i] = 1 .. Len(lines[i])
      BY <2>1, LenProperties
    <2>3. j = 1
      BY <2>1, <2>2
    <2> QED
      BY <2>1, <2>3
  <1> QED
    BY <1>1, <1>2

\* A whole line is added to whole lines.
LEMMA WritingIsTidy ==
  ASSUME AuditOK, AuditOK', NEW c, PieceOf(c, "whole") \in LogPiece, work[c].prev = Tip,
         log' = Written(c, "whole"), ended, \A i \in 1 .. Len(log) : Readable(log[i])
  PROVE  /\ \A i \in 1 .. Len(log') : Readable(log'[i])
         /\ Breaks' \subseteq Breaks /\ Acknowledged' = Acknowledged \cup work[c].acks
         /\ \A i \in Checked' : log'[i][1].acks # {} => (\E j \in Checked : log[j][1].acks # {}) \/ work[c].acks # {}
  <1> DEFINE n == Len(log)
  <1>1. n \in Nat \ {0}
    BY LegacyAssumption, LenProperties DEF AuditOK
  <1>2. /\ \A i \in 1 .. n : log'[i] = log[i]
        /\ Len(log') = n + 1 /\ log'[n + 1] = <<PieceOf(c, "whole")>>
    <2>1. /\ \A i \in 1 .. n - 1 : log'[i] = log[i]
          /\ log'[n] = log[n] /\ Len(log') = n + 1 /\ log'[n + 1] = <<PieceOf(c, "whole")>>
      BY WrittenTo
    <2>2. \A i \in 1 .. n : i \in 1 .. n - 1 \/ i = n
      BY <1>1
    <2> HIDE DEF n
    <2> QED
      BY <2>1, <2>2
  <1>3. /\ PieceOf(c, "whole").prev = Tip /\ PieceOf(c, "whole").acks = work[c].acks
        /\ PieceOf(c, "whole").part = "whole"
    BY DEF PieceOf
  <1> HIDE DEF n
  <1>4. \A i \in 1 .. n + 1 : i \in 1 .. n \/ i = n + 1
    BY <1>1
  <1>5. \A i \in 1 .. Len(log') : Readable(log'[i])
    <2>1. Readable(log'[n + 1])
      <3> DEFINE piece == PieceOf(c, "whole")
      <3>1. Len(<<piece>>) = 1 /\ <<piece>>[1] = piece
        OBVIOUS
      <3> HIDE DEF piece
      <3> QED
        BY <1>2, <1>3, <3>1 DEF Readable, piece
    <2> QED
      BY <1>2, <1>4, <2>1 DEF n
  <1>6. Checked = 1 .. n /\ Checked' = 1 .. n + 1
    <2>1. IsText /\ DOMAIN log = 1 .. n
      BY AllReadable DEF AuditOK, IsText, n
    <2>2. IsText' /\ DOMAIN log' = 1 .. n + 1
      BY <1>2, <1>5, AllReadable DEF AuditOK, IsText
    <2> QED
      BY <1>2, <1>5, <2>1, <2>2 DEF Checked, n
  <1>7. Breaks' \subseteq Breaks
    <2> SUFFICES ASSUME NEW i \in Breaks' PROVE i \in Breaks
      OBVIOUS
    <2>1. /\ i \in 1 .. n + 1 /\ i # 1 /\ log'[i][1].prev # None
          /\ log'[i][1].prev # <<i - 1, Len(log'[i - 1])>>
      BY <1>6 DEF Breaks
    <2>2. i - 1 \in 1 .. n /\ log'[i - 1] = log[i - 1]
      BY <1>1, <1>2, <2>1
    <2>3. i # n + 1
      <3> SUFFICES ASSUME i = n + 1 PROVE FALSE
        OBVIOUS
      <3>1. log'[i][1].prev = Tip /\ i - 1 = n
        BY <1>1, <1>2, <1>3
      <3>2. Tip = <<n, Len(log[n])>>
        BY <2>1, <3>1, TipType DEF n
      <3> QED
        BY <2>1, <2>2, <3>1, <3>2
    <2>4. i \in 1 .. n /\ log'[i] = log[i]
      BY <1>2, <1>4, <2>1, <2>3
    <2> QED
      BY <1>6, <2>1, <2>2, <2>4 DEF Breaks
  <1>8. Acknowledged' = Acknowledged \cup work[c].acks
    <2>1. Acknowledged' = UNION {log'[i][1].acks : i \in 1 .. n + 1}
      BY <1>6 DEF Acknowledged
    <2>2. Acknowledged = UNION {log[i][1].acks : i \in 1 .. n}
      BY <1>6 DEF Acknowledged
    <2>3. log'[n + 1][1].acks = work[c].acks /\ n + 1 \in 1 .. n + 1 /\ 1 .. n \subseteq 1 .. n + 1
      BY <1>1, <1>2, <1>3
    <2> QED
      BY <1>2, <1>4, <2>1, <2>2, <2>3
  <1>9. ASSUME NEW i \in Checked', log'[i][1].acks # {}
        PROVE  (\E j \in Checked : log[j][1].acks # {}) \/ work[c].acks # {}
    BY <1>2, <1>3, <1>4, <1>6, <1>9
  <1> QED
    BY <1>5, <1>7, <1>8, <1>9

\* Whoever goes on, or begins, without touching the log.
AuditFrame ==
  \A d \in Caller :
    work'[d] # work[d] =>
      /\ work[d].op \notin AuditOps
      /\ work'[d].op \in AuditOps => work'[d].pc \in {"lock", "verify"} /\ work'[d].acks = {}

LEMMA AuditAside ==
  ASSUME AuditInv, UNCHANGED auditVars, AuditFrame
  PROVE  AuditInv'
  <1>1. UNCHANGED <<log, ended, lock, torn, Breaks, Checked, Acknowledged, Tip>>
    BY LogSame DEF auditVars
  <1>2. AuditOK' /\ Linked'
    BY <1>1 DEF AuditInv, AuditOK, Linked, Readable
  <1>3. \A d \in Caller : work[d].op \in AuditOps => work'[d] = work[d]
    BY DEF AuditFrame
  <1>4. ASSUME NEW d \in Caller, work'[d] # work[d], work'[d].op \in AuditOps
        PROVE  work'[d].pc \in {"lock", "verify"} /\ work'[d].acks = {}
    BY <1>4 DEF AuditFrame
  <1>5. ASSUME NEW d \in Caller PROVE Appending(d)'
    <2>1. Appending(d)
      BY DEF AuditInv
    <2> QED
      BY <1>1, <1>4, <2>1 DEF Appending, Audits, AuditOps
  <1>6. Tidy'
    <2> SUFFICES ASSUME ~torn PROVE Tidy'
      BY <1>1 DEF Tidy
    <2>1. Tidy
      BY DEF AuditInv
    <2>2. (\A i \in 1 .. Len(log) : Readable(log[i]))'
      BY <1>1, <2>1 DEF Tidy, Readable
    <2>3. (ended \/ \E d \in Caller : lock = d /\ Audits(d, "newline"))'
      BY <1>1, <1>3, <2>1 DEF Tidy, Audits, AuditOps
    <2>4. ((\E i \in Checked : log[i][1].acks # {}) => Breaks \subseteq Acknowledged)'
      BY <1>1, <2>1 DEF Tidy
    <2>5. (\A d \in Caller :
            work[d].op \in AuditOps /\ work[d].pc \in {"lock", "tip", "line"} /\ work[d].acks # {}
              => Breaks \subseteq work[d].acks \cup Acknowledged)'
      BY <1>1, <1>4, <2>1 DEF Tidy
    <2> QED
      BY <2>2, <2>3, <2>4, <2>5 DEF Tidy
  <1> QED
    BY <1>2, <1>5, <1>6 DEF AuditInv

LEMMA RecordGo ==
  ASSUME WorkOK, NEW c \in Caller, NEW r \in RecordCall, Go(c, r)
  PROVE  WorkOK' /\ Only(c, AuditOps) /\ work'[c] = r
  <1>1. r.op \in AuditOps
    BY DEF RecordCall, AuditOps
  <1> QED
    BY <1>1, GoOnly

LEMMA AuditKeeps ==
  ASSUME WorkOK, AuditInv, NEW c \in Caller, AuditStep(c)
  PROVE  WorkOK' /\ Only(c, AuditOps) /\ AuditInv'
  <1>0. AuditOK /\ Linked /\ Tidy /\ \A d \in Caller : Appending(d)
    BY DEF AuditInv
  <1>w. work[c] \in RecordCall /\ work[c].op \in AuditOps
    BY Kinds DEF AuditStep, Reanchor, AppendLock, AppendTip, AppendLine, AppendNewline, Audits, AuditOps
  <1>1. CASE Reanchor(c)
    <2>1. UNCHANGED <<log, ended, lock, torn, Breaks, Checked, Acknowledged, Tip>>
      BY <1>1, LogSame DEF Reanchor, auditVars
    <2>2. AuditOK' /\ Linked'
      BY <1>0, <2>1 DEF AuditOK, Linked, Readable
    <2>3. CASE Answer(c)
      <3>1. WorkOK' /\ Only(c, AuditOps) /\ work'[c].op \notin AuditOps
        BY <2>3, AnswerOnly DEF Idle, Warming, AuditOps
      <3>2. \A d \in Caller : work'[d] = work[d] \/ work'[d].op \notin AuditOps
        BY <3>1 DEF Only
      <3>3. \A d \in Caller : Audits(d, "newline") => work'[d] = work[d]
        BY <1>1, <3>1 DEF Only, Reanchor, Audits
      <3>4. Tidy'
        BY <1>0, <2>1, <3>2, <3>3 DEF Tidy, Audits, Readable
      <3>5. \A d \in Caller : Appending(d)'
        BY <1>0, <2>1, <3>2 DEF Appending, Audits, AuditOps
      <3> QED
        BY <2>2, <3>1, <3>4, <3>5 DEF AuditInv
    <2>4. CASE Go(c, [work[c] EXCEPT !.pc = "lock", !.acks = Breaks \ Acknowledged])
      <3>1. Breaks \ Acknowledged \subseteq Nat
        <4>1. DOMAIN log = 1 .. Len(log) /\ Len(log) \in Nat
          BY <1>0, LenProperties DEF AuditOK
        <4> QED
          BY <4>1 DEF Breaks, Checked
      <3>2. PICK r \in RecordCall : r = [work[c] EXCEPT !.pc = "lock", !.acks = Breaks \ Acknowledged]
        BY <1>w, <3>1, RecordGoesAcking
      <3>3. r.pc = "lock" /\ r.acks = Breaks \ Acknowledged
        BY <1>w, <3>1, <3>2, RecordGoesAcking
      <3>4. WorkOK' /\ Only(c, AuditOps) /\ work'[c] = r
        BY <2>4, <3>2, RecordGo
      <3>5. \A d \in Caller : work'[d] = work[d] \/ (d = c /\ ~Audits(d, "newline"))
        BY <1>1, <3>4 DEF Only, Reanchor, Audits
      <3>6. Tidy'
        BY <1>0, <2>1, <3>3, <3>4, <3>5 DEF Tidy, Audits, Readable
      <3>7. \A d \in Caller : Appending(d)'
        BY <1>0, <2>1, <3>3, <3>4, <3>5 DEF Appending, Audits
      <3> QED
        BY <2>2, <3>4, <3>6, <3>7 DEF AuditInv
    <2> QED
      BY <1>1, <2>3, <2>4 DEF Reanchor
  <1>2. CASE AppendLock(c)
    <2>1. UNCHANGED <<log, ended, torn, Breaks, Checked, Acknowledged, Tip>> /\ lock = None /\ lock' = c
      BY <1>2, LogSame DEF AppendLock
    <2>2. AuditOK' /\ Linked'
      BY <1>0, <2>1 DEF AuditOK, Linked, Readable
    <2>3. PICK r \in RecordCall : r = [work[c] EXCEPT !.pc = "tip"]
      BY <1>w, RecordGoes
    <2>4. r.pc = "tip" /\ r.acks = work[c].acks
      BY <1>w, <2>3 DEF RecordCall
    <2>5. WorkOK' /\ Only(c, AuditOps) /\ work'[c] = r
      BY <1>2, <2>3, RecordGo DEF AppendLock, GoTo
    <2>6. \A d \in Caller : lock # d /\ (work'[d] = work[d] \/ d = c)
      BY <2>1, <2>5, CallsAssumption DEF Only
    <2>7. Tidy'
      BY <1>0, <1>2, <1>w, <2>1, <2>4, <2>5, <2>6 DEF Tidy, Audits, Readable, AppendLock
    <2>8. \A d \in Caller : Appending(d)'
      BY <1>0, <2>1, <2>4, <2>5, <2>6 DEF Appending, Audits
    <2> QED
      BY <2>2, <2>5, <2>7, <2>8 DEF AuditInv
  <1>3. CASE AppendTip(c)
    <2>1. UNCHANGED <<log, ended, lock, torn, Breaks, Checked, Acknowledged, Tip>>
      BY <1>3, LogSame DEF AppendTip, auditVars
    <2>2. AuditOK' /\ Linked'
      BY <1>0, <2>1 DEF AuditOK, Linked, Readable
    <2>3. Tip \in {None} \cup Hash
      BY <1>0, TipType
    <2>4. PICK r \in RecordCall : r = [work[c] EXCEPT !.pc = "line", !.prev = Tip]
      BY <1>w, <2>3, RecordGoesLinked
    <2>5. r.pc = "line" /\ r.acks = work[c].acks /\ r.prev = Tip
      BY <1>w, <2>3, <2>4, RecordGoesLinked
    <2>6. WorkOK' /\ Only(c, AuditOps) /\ work'[c] = r
      BY <1>3, <2>4, RecordGo DEF AppendTip
    <2>7. \A d \in Caller : work'[d] = work[d] \/ (d = c /\ ~Audits(d, "newline"))
      BY <1>3, <2>6 DEF Only, AppendTip, Audits
    <2>8. Tidy'
      BY <1>0, <1>3, <1>w, <2>1, <2>5, <2>6, <2>7 DEF Tidy, Audits, Readable, AppendTip
    <2>9. \A d \in Caller : Appending(d)'
      BY <1>0, <1>3, <1>w, <2>1, <2>5, <2>6, <2>7 DEF Appending, Audits, AppendTip
    <2> QED
      BY <2>2, <2>6, <2>8, <2>9 DEF AuditInv
  <1>4. CASE AppendLine(c)
    <2>1. log' = Written(c, "whole") /\ ended' = FALSE /\ UNCHANGED <<lock, torn>> /\ Audits(c, "line")
      BY <1>4 DEF AppendLine
    <2>2. work[c].prev = Tip /\ lock = c
      BY <1>0, <1>w, <2>1 DEF Appending, Audits
    <2>3. PieceOf(c, "whole") \in LogPiece
      BY <1>w, PieceType
    <2>4. AuditOK' /\ Linked'
      BY <1>0, <2>1, <2>2, <2>3, WritingLinks DEF AuditOK
    <2>5. PICK r \in RecordCall : r = [work[c] EXCEPT !.pc = "newline"]
      BY <1>w, RecordGoes
    <2>6. r.pc = "newline" /\ r.op \in AuditOps
      BY <1>w, <2>5 DEF RecordCall, AuditOps
    <2>7. WorkOK' /\ Only(c, AuditOps) /\ work'[c] = r
      BY <1>4, <2>5, RecordGo DEF AppendLine, GoTo
    <2>8. \A d \in Caller : work'[d] = work[d] \/ d = c
      BY <2>7 DEF Only
    <2>9. ASSUME NEW d \in Caller PROVE Appending(d)'
      <3>1. CASE d = c
        BY <2>1, <2>2, <2>6, <2>7, <3>1 DEF Appending, Audits
      <3>2. CASE d # c
        <4>1. work'[d] = work[d] /\ lock' = c /\ lock = c
          BY <2>1, <2>2, <2>8, <3>2
        <4>2. ~(work[d].op \in AuditOps /\ work[d].pc \in {"tip", "line", "newline"})
          BY <1>0, <3>2, <4>1 DEF Appending
        <4> QED
          BY <4>1, <4>2 DEF Appending, Audits, AuditOps
      <3> QED
        BY <3>1, <3>2
    <2>10. Tidy'
      <3> SUFFICES ASSUME ~torn PROVE Tidy'
        BY <2>1 DEF Tidy
      <3>1. ended /\ \A i \in 1 .. Len(log) : Readable(log[i])
        BY <1>0, <2>1, <2>2 DEF Tidy, Audits
      <3>2. /\ \A i \in 1 .. Len(log') : Readable(log'[i])
            /\ Breaks' \subseteq Breaks /\ Acknowledged' = Acknowledged \cup work[c].acks
            /\ \A i \in Checked' : log'[i][1].acks # {} => (\E j \in Checked : log[j][1].acks # {}) \/ work[c].acks # {}
        BY <1>0, <2>1, <2>2, <2>3, <2>4, <3>1, WritingIsTidy
      <3>3. lock' = c /\ Audits(c, "newline")'
        BY <2>1, <2>2, <2>6, <2>7 DEF Audits, AuditOps
      <3>4. (\E i \in Checked' : log'[i][1].acks # {}) => Breaks' \subseteq Acknowledged'
        <4>1. CASE \E j \in Checked : log[j][1].acks # {}
          BY <1>0, <3>2, <4>1 DEF Tidy
        <4>2. CASE work[c].acks # {}
          BY <1>0, <1>w, <2>1, <3>2, <4>2 DEF Tidy, Audits
        <4> QED
          BY <3>2, <4>1, <4>2
      <3>5. ASSUME NEW d \in Caller, work'[d].op \in AuditOps, work'[d].pc \in {"lock", "tip", "line"},
                   work'[d].acks # {}
            PROVE  Breaks' \subseteq work'[d].acks \cup Acknowledged'
        <4>1. work'[d] = work[d]
          BY <2>6, <2>7, <2>8, <3>5
        <4> QED
          BY <1>0, <3>2, <3>5, <4>1 DEF Tidy
      <3> QED
        BY <3>2, <3>3, <3>4, <3>5 DEF Tidy
    <2> QED
      BY <2>4, <2>7, <2>9, <2>10 DEF AuditInv
  <1>5. CASE AppendNewline(c)
    <2>1. UNCHANGED <<log, torn, Breaks, Checked, Acknowledged, Tip>> /\ ended' = TRUE /\ lock = c /\ lock' = None
      <3>1. lock = c
        BY <1>0, <1>5, <1>w DEF AppendNewline, Appending, Audits
      <3> QED
        BY <1>5, <3>1, LogSame DEF AppendNewline
    <2>2. AuditOK' /\ Linked'
      BY <1>0, <2>1 DEF AuditOK, Linked, Readable
    <2>3. WorkOK' /\ Only(c, AuditOps) /\ work'[c].op \notin AuditOps
      BY <1>5, AnswerOnly DEF AppendNewline, Idle, Warming, AuditOps
    <2>4. \A d \in Caller : (work'[d] = work[d] /\ d # c) \/ work'[d].op \notin AuditOps
      BY <2>3 DEF Only
    <2>5. Tidy'
      BY <1>0, <2>1, <2>4 DEF Tidy, Readable
    <2>6. \A d \in Caller : Appending(d)'
      BY <1>0, <2>1, <2>4 DEF Appending, Audits, AuditOps
    <2> QED
      BY <2>2, <2>3, <2>5, <2>6 DEF AuditInv
  <1> QED
    BY <1>1, <1>2, <1>3, <1>4, <1>5 DEF AuditStep

\* The lock goes with who holds it, and so does what it was about to write.
LEMMA AuditDeath ==
  ASSUME WorkOK, AuditInv, NEW p, AuditDies(p),
         \A c \in Caller : work'[c] = IF ProcessOf(c) = p THEN Idle ELSE work[c]
  PROVE  AuditInv'
  <1> DEFINE holds == lock # None /\ ProcessOf(lock) = p
  <1>0. AuditOK /\ Linked /\ Tidy /\ \A c \in Caller : Appending(c)
    BY DEF AuditInv
  <1>1. /\ lock' = (IF holds THEN None ELSE lock)
        /\ torn' = (torn \/ (holds /\ work[lock].pc \in {"line", "newline"}))
    BY DEF AuditDies
  <1>2. UNCHANGED <<log, ended>>
        \/ /\ holds /\ work[lock].pc = "line" /\ ended' = FALSE
           /\ \E part \in {"cut", "bytes"} : log' = Written(lock, part)
    BY DEF AuditDies
  <1>3. lock \in {None} \cup Caller /\ lock' \in {None} \cup Caller /\ torn' \in BOOLEAN /\ ended' \in BOOLEAN
    BY <1>0, <1>1, <1>2 DEF AuditOK
  <1>4. \A c \in Caller : work'[c] = work[c] \/ (work'[c] = Idle /\ work'[c].op \notin AuditOps)
    BY DEF Idle, AuditOps
  <1> HIDE DEF holds
  <1>5. AuditOK' /\ Linked'
    <2>1. CASE UNCHANGED <<log, ended>>
      BY <1>0, <1>3, <2>1 DEF AuditOK, Linked, Readable
    <2>2. CASE /\ holds /\ work[lock].pc = "line"
               /\ \E part \in {"cut", "bytes"} : log' = Written(lock, part)
      <3>1. PICK part \in {"cut", "bytes"} : log' = Written(lock, part)
        BY <2>2
      <3>2. lock \in Caller
        BY <1>3, <2>2 DEF holds
      <3>3. work[lock] \in RecordCall
        BY <2>2, <3>2 DEF WorkOK, Rest, Idle, Warming, StampCall, SessionWork, StartCall, EndCall, RecordCall,
             FileWork, SearchCall, RekeyCall, ConsolidateCall, BlockCall, KvCall, OpenCall
      <3>4. work[lock].prev = Tip
        BY <1>0, <2>2, <3>2, <3>3 DEF Appending, Audits, RecordCall
      <3>5. PieceOf(lock, part) \in LogPiece
        BY <3>3, PieceType
      <3> QED
        BY <1>0, <1>3, <3>1, <3>4, <3>5, WritingLinks
    <2> QED
      BY <1>2, <2>1, <2>2
  <1>6. ASSUME NEW c \in Caller PROVE Appending(c)'
    <2> SUFFICES ASSUME work'[c].op \in AuditOps, work'[c].pc \in {"tip", "line", "newline"}
                 PROVE  lock' = c /\ (work'[c].pc = "line" => work'[c].prev = Tip')
      BY DEF Appending, Audits, AuditOps
    <2>1. work'[c] = work[c] /\ ProcessOf(c) # p /\ c # None
      BY <1>4, CallsAssumption DEF Idle, AuditOps
    <2>2. lock = c /\ (work[c].pc = "line" => work[c].prev = Tip)
      BY <1>0, <2>1 DEF Appending, Audits, AuditOps
    <2>3. ~holds
      BY <2>1, <2>2 DEF holds
    <2>4. UNCHANGED log
      BY <1>2, <2>3
    <2> QED
      BY <1>1, <2>1, <2>2, <2>3, <2>4, LogSame
  <1>7. Tidy'
    <2> SUFFICES ASSUME ~torn' PROVE Tidy'
      BY DEF Tidy
    <2>1. ~torn /\ ~(holds /\ work[lock].pc \in {"line", "newline"})
      BY <1>1
    <2>2. UNCHANGED <<log, ended, Breaks, Checked, Acknowledged>>
      BY <1>2, <2>1, LogSame
    <2>3. (\A i \in 1 .. Len(log) : Readable(log[i]))'
      BY <1>0, <2>1, <2>2 DEF Tidy, Readable
    <2>4. (ended \/ \E d \in Caller : lock = d /\ Audits(d, "newline"))'
      <3> SUFFICES ASSUME ~ended PROVE (\E d \in Caller : lock = d /\ Audits(d, "newline"))'
        BY <2>2
      <3>1. PICK d \in Caller : lock = d /\ Audits(d, "newline")
        BY <1>0, <2>1 DEF Tidy
      <3>2. ~holds /\ d # None
        BY <2>1, <3>1, CallsAssumption DEF Audits
      <3>3. ProcessOf(d) # p
        BY <3>1, <3>2 DEF holds
      <3>4. work'[d] = work[d] /\ lock' = d
        BY <1>1, <3>1, <3>2, <3>3
      <3> QED
        BY <3>1, <3>4 DEF Audits
    <2>5. ((\E i \in Checked : log[i][1].acks # {}) => Breaks \subseteq Acknowledged)'
      BY <1>0, <2>1, <2>2 DEF Tidy
    <2>6. (\A d \in Caller :
            work[d].op \in AuditOps /\ work[d].pc \in {"lock", "tip", "line"} /\ work[d].acks # {}
              => Breaks \subseteq work[d].acks \cup Acknowledged)'
      BY <1>0, <1>4, <2>1, <2>2 DEF Tidy
    <2> QED
      BY <2>3, <2>4, <2>5, <2>6 DEF Tidy
  <1> QED
    BY <1>5, <1>6, <1>7 DEF AuditInv

-----------------------------------------------------------------------------
(* The access counters, with the blocks and keys.                          *)

\* Counts that so many hits account for.
FairCounts(h) == {f \in Counts : f[Old] <= h[Old] /\ f[New] <= h[New] + h[Old]}
FairFlush(h) ==
  [by : Process, call : Nat, pc : {"clone", "load", "write"}, own : FairCounts(h), read : FairCounts(h)]

FilesInv ==
  /\ hits \in Counts /\ journal \in FairCounts(hits)
  /\ tally \in [Process -> {None} \cup FairCounts(hits)]
  /\ flushes \subseteq FairFlush(hits)
  /\ blocks \in Map /\ kv \in Map
  /\ \A c \in Caller : work[c].op = "rekey" => work[c].read \in FairCounts(hits)

LEMMA FairIsKept ==
  ASSUME NEW h \in Counts
  PROVE  /\ Zero \in FairCounts(h)
         /\ \A f \in FairCounts(h) : Renamed(f) \in FairCounts(h)
         /\ \A f, g \in FairCounts(h) : Merge(f, g) \in FairCounts(h)
  <1>1. Old \in Id /\ New \in Id /\ Old # New
    BY HomeFilesAssumption DEF Id
  <1>2. Zero \in FairCounts(h)
    BY <1>1 DEF Zero, FairCounts, Counts
  <1>3. \A m, n \in Nat : Higher(m, n) \in Nat /\ (Higher(m, n) = m \/ Higher(m, n) = n)
    BY DEF Higher
  <1>4. ASSUME NEW f \in FairCounts(h) PROVE Renamed(f) \in FairCounts(h)
    <2>1. /\ f[Old] \in Nat /\ f[New] \in Nat /\ h[Old] \in Nat /\ h[New] \in Nat
          /\ f[Old] <= h[Old] /\ f[New] <= h[New] + h[Old]
      BY <1>1 DEF FairCounts, Counts
    <2>2. /\ Renamed(f) \in Counts /\ Renamed(f)[Old] = 0
          /\ Renamed(f)[New] = Higher(f[Old], f[New])
      BY <1>1, <1>3, <2>1 DEF Renamed, Counts
    <2>3. Higher(f[Old], f[New]) <= h[New] + h[Old]
      <3>1. \A m, n, x, y \in Nat : m <= x /\ n <= y + x => Higher(m, n) <= y + x
        BY DEF Higher
      <3> QED
        BY <2>1, <3>1
    <2>4. 0 <= h[Old]
      BY <2>1
    <2> QED
      BY <2>2, <2>3, <2>4 DEF FairCounts
  <1>5. ASSUME NEW f \in FairCounts(h), NEW g \in FairCounts(h) PROVE Merge(f, g) \in FairCounts(h)
    <2>1. f \in Counts /\ g \in Counts
      BY DEF FairCounts
    <2>2. /\ Merge(f, g) \in Counts
          /\ Merge(f, g)[Old] = Higher(f[Old], g[Old]) /\ Merge(f, g)[New] = Higher(f[New], g[New])
      BY <1>1, <1>3, <2>1 DEF Merge, Counts
    <2>3. f[Old] \in Nat /\ g[Old] \in Nat /\ f[New] \in Nat /\ g[New] \in Nat
      BY <1>1, <2>1 DEF Counts
    <2> QED
      BY <1>3, <2>2, <2>3 DEF FairCounts
  <1> QED
    BY <1>2, <1>4, <1>5

Counted(f, ids) == [id \in Id |-> f[id] + (IF id \in ids THEN 1 ELSE 0)]

LEMMA FairIsCounted ==
  ASSUME NEW h \in Counts, NEW ids
  PROVE  /\ Counted(h, ids) \in Counts
         /\ FairCounts(h) \subseteq FairCounts(Counted(h, ids))
         /\ \A f \in FairCounts(h) : Counted(f, ids) \in FairCounts(Counted(h, ids))
  <1> DEFINE one(id) == IF id \in ids THEN 1 ELSE 0
  <1>1. Old \in Id /\ New \in Id
    BY DEF Id
  <1>2. one(Old) \in Nat /\ one(New) \in Nat
    OBVIOUS
  <1>3. \A f \in Counts : /\ Counted(f, ids) \in Counts
                         /\ Counted(f, ids)[Old] = f[Old] + one(Old)
                         /\ Counted(f, ids)[New] = f[New] + one(New)
    BY <1>1 DEF Counted, Counts
  <1> HIDE DEF one
  <1>4. ASSUME NEW f \in FairCounts(h)
        PROVE  f \in FairCounts(Counted(h, ids)) /\ Counted(f, ids) \in FairCounts(Counted(h, ids))
    <2>1. /\ f \in Counts /\ f[Old] \in Nat /\ f[New] \in Nat /\ h[Old] \in Nat /\ h[New] \in Nat
          /\ f[Old] <= h[Old] /\ f[New] <= h[New] + h[Old]
      BY <1>1 DEF FairCounts, Counts
    <2> QED
      BY <1>2, <1>3, <2>1 DEF FairCounts
  <1> QED
    BY <1>3, <1>4

\* A step of anything else.
FilesFrame ==
  \A d \in Caller : work'[d] # work[d] /\ work'[d].op = "rekey" => work'[d].read = Zero

LEMMA FilesAside ==
  ASSUME FilesInv, UNCHANGED fileVars, FilesFrame
  PROVE  FilesInv'
  <1>1. UNCHANGED <<journal, tally, pending, flushes, hits, blocks, kv, kvLock>>
    BY DEF fileVars, accessVars
  <1>2. Zero \in FairCounts(hits)
    BY FairIsKept DEF FilesInv
  <1>3. \A c \in Caller : work'[c].op = "rekey" => work'[c].read \in FairCounts(hits)
    BY <1>2 DEF FilesInv, FilesFrame
  <1> QED
    BY <1>1, <1>3 DEF FilesInv

LEMMA FilesGo ==
  ASSUME WorkOK, NEW c \in Caller, NEW r \in FileWork, Go(c, r)
  PROVE  WorkOK' /\ Only(c, FileOps) /\ work'[c] = r
  <1>1. r.op \in FileOps
    BY DEF FileWork, SearchCall, RekeyCall, ConsolidateCall, BlockCall, KvCall, FileOps
  <1> QED
    BY <1>1, GoOnly

LEMMA FilesAnswer ==
  ASSUME WorkOK, NEW c \in Caller, Answer(c)
  PROVE  /\ WorkOK' /\ Only(c, FileOps)
         /\ \A d \in Caller : work'[d] = work[d] \/ work'[d].op # "rekey"
  BY AnswerOnly DEF Only, Idle, Warming

LEMMA AccessKeeps ==
  ASSUME WorkOK, FilesInv, NEW c \in Caller, AccessStep(c) \/ BlockStep(c)
  PROVE  WorkOK' /\ Only(c, FileOps) /\ FilesInv'
  <1> DEFINE p == ProcessOf(c)
  <1>0. p \in Process
    BY DEF ProcessOf, Process, Caller
  <1>h. hits \in Counts
    BY DEF FilesInv
  <1>n. calls \in Nat
    BY DEF WorkOK
  <1>f. NewFlush(p) \in FairFlush(hits)
    BY <1>0, <1>h, <1>n, FairIsKept DEF NewFlush, FairFlush
  <1>o. Own(p) \in FairCounts(hits)
    BY <1>0 DEF Own, FilesInv
  <1> HIDE DEF p
  <1>1. CASE Record(c)
    <2> DEFINE ids == work[c].ids
    <2>1. /\ tally' = [tally EXCEPT ![p] = Counted(Own(p), ids)]
          /\ hits' = Counted(hits, ids)
          /\ flushes' \subseteq flushes \cup {NewFlush(p)}
          /\ Answer(c)
          /\ UNCHANGED <<journal, blocks, kv, kvLock>>
      BY <1>1 DEF Record, Counted, p
    <2>2. WorkOK' /\ Only(c, FileOps) /\ \A d \in Caller : work'[d] = work[d] \/ work'[d].op # "rekey"
      BY <2>1, FilesAnswer
    <2> HIDE DEF ids
    <2>3. /\ hits' \in Counts /\ FairCounts(hits) \subseteq FairCounts(hits')
          /\ Counted(Own(p), ids) \in FairCounts(hits')
      BY <1>h, <1>o, <2>1, FairIsCounted
    <2>4. FairFlush(hits) \subseteq FairFlush(hits')
      BY <2>3 DEF FairFlush
    <2>5. tally' \in [Process -> {None} \cup FairCounts(hits')]
      BY <2>1, <2>3 DEF FilesInv
    <2>6. flushes' \subseteq FairFlush(hits')
      BY <1>f, <2>1, <2>4 DEF FilesInv
    <2> QED
      BY <2>1, <2>2, <2>3, <2>5, <2>6 DEF FilesInv
  <1>2. CASE Consolidate(c)
    <2>1. [work[c] EXCEPT !.pc = "flushing"] \in ConsolidateCall /\ [work[c] EXCEPT !.pc = "flushing"].op # "rekey"
      BY <1>2, Kinds DEF Consolidate, At, ConsolidateCall
    <2>2. WorkOK' /\ Only(c, FileOps) /\ work'[c].op # "rekey"
      BY <1>2, <2>1, FilesGo DEF Consolidate, GoTo, FileWork
    <2>3. \A d \in Caller : work'[d] = work[d] \/ work'[d].op # "rekey"
      BY <2>2 DEF Only
    <2>4. flushes' \subseteq FairFlush(hits) /\ UNCHANGED <<journal, tally, hits, blocks, kv>>
      BY <1>2, <1>f DEF Consolidate, FilesInv, p
    <2> QED
      BY <2>2, <2>3, <2>4 DEF FilesInv
  <1>3. CASE ConsolidateEnds(c)
    BY <1>3, FilesAnswer, FilesAside DEF ConsolidateEnds, FilesFrame
  <1>4. CASE RekeyLoad(c)
    <2>1. work[c] \in RekeyCall
      BY <1>4, Kinds DEF RekeyLoad, At
    <2>2. journal \in FairCounts(hits) /\ journal \in Counts
      BY DEF FilesInv, FairCounts
    <2>3. [work[c] EXCEPT !.pc = "write"] \in RekeyCall
      BY <2>1 DEF RekeyCall
    <2>4. \A r \in RekeyCall : [r EXCEPT !.read = journal] \in RekeyCall
      BY <2>2 DEF RekeyCall
    <2>5. PICK r \in RekeyCall : r = [work[c] EXCEPT !.pc = "write", !.read = journal]
      BY <2>3, <2>4
    <2>6. r.read = journal
      BY <2>1, <2>5 DEF RekeyCall
    <2>7. WorkOK' /\ Only(c, FileOps) /\ work'[c] = r
      BY <1>4, <2>5, FilesGo DEF RekeyLoad, FileWork
    <2>8. \A d \in Caller : work'[d] = work[d] \/ work'[d].read = journal
      BY <2>6, <2>7 DEF Only
    <2> QED
      BY <1>4, <2>2, <2>7, <2>8 DEF RekeyLoad, FilesInv, fileVars, accessVars
  <1>5. CASE RekeyWrite(c)
    <2>1. work[c] \in RekeyCall /\ work[c].read \in FairCounts(hits)
      BY <1>5, Kinds DEF RekeyWrite, At, FilesInv
    <2>2. PICK r \in RekeyCall : r = [work[c] EXCEPT !.pc = "own"]
      BY <2>1 DEF RekeyCall
    <2>3. r.read = work[c].read
      BY <2>1, <2>2 DEF RekeyCall
    <2>4. WorkOK' /\ Only(c, FileOps) /\ work'[c] = r
      BY <1>5, <2>2, FilesGo DEF RekeyWrite, GoTo, FileWork
    <2>5. \A d \in Caller : work'[d] = work[d] \/ work'[d].read \in FairCounts(hits)
      BY <2>1, <2>3, <2>4 DEF Only
    <2>6. journal' \in FairCounts(hits)
      BY <1>5, <1>h, <2>1, FairIsKept DEF RekeyWrite, FilesInv
    <2> QED
      BY <1>5, <2>4, <2>5, <2>6 DEF RekeyWrite, FilesInv
  <1>6. CASE RekeyOwn(c)
    <2>1. Renamed(Own(p)) \in FairCounts(hits)
      BY <1>h, <1>o, FairIsKept
    <2>2. tally' = [tally EXCEPT ![p] = Renamed(Own(p))] /\ Answer(c)
          /\ UNCHANGED <<journal, flushes, hits, blocks, kv>>
      BY <1>6 DEF RekeyOwn, p
    <2>3. tally' \in [Process -> {None} \cup FairCounts(hits)]
      BY <2>1, <2>2 DEF FilesInv
    <2> QED
      BY <2>2, <2>3, FilesAnswer DEF FilesInv
  <1>7. CASE BlockLoad(c)
    <2>1. work[c] \in BlockCall /\ work[c].op = "block" /\ blocks \in Map
      BY <1>7, Kinds DEF BlockLoad, At, FilesInv
    <2>2. PICK r \in BlockCall : r = [work[c] EXCEPT !.pc = "save", !.read = blocks]
      <3>1. /\ work[c] \in [op : {"block"}, pc : {"load", "save"}, name : Name, value : Value \cup {None},
                             read : {<< >>} \cup Map]
        BY <2>1 DEF BlockCall
      <3>2. [work[c] EXCEPT !.pc = "save"] \in
              [op : {"block"}, pc : {"save"}, name : Name, value : Value \cup {None}, read : {<< >>} \cup Map]
        BY <3>1
      <3>3. \A r \in [op : {"block"}, pc : {"save"}, name : Name, value : Value \cup {None}, read : {<< >>} \cup Map] :
              [r EXCEPT !.read = blocks] \in BlockCall
        BY <2>1 DEF BlockCall
      <3> QED
        BY <3>2, <3>3
    <2>3. WorkOK' /\ Only(c, FileOps) /\ work'[c] = r
      BY <1>7, <2>2, FilesGo DEF BlockLoad, FileWork
    <2>4. \A d \in Caller : work'[d] = work[d] \/ work'[d].op # "rekey"
      BY <2>3 DEF Only, BlockCall
    <2> QED
      BY <1>7, <2>3, <2>4, FilesAside DEF BlockLoad, FilesFrame
  <1>8. CASE BlockSave(c)
    <2>1. work[c] \in BlockCall /\ work[c].pc = "save"
      BY <1>8, Kinds DEF BlockSave, At
    <2>2. work[c].read \in Map /\ work[c].name \in Name /\ work[c].value \in {None} \cup Value
      BY <2>1 DEF BlockCall
    <2>3. blocks' \in Map
      BY <1>8, <2>2 DEF BlockSave, Map, FilesInv
    <2> QED
      BY <1>8, <2>3, FilesAnswer DEF BlockSave, FilesInv, accessVars
  <1>9. CASE KvLock(c)
    <2>1. work[c] \in KvCall /\ work[c].op = "kv" /\ kv \in Map
      BY <1>9, Kinds DEF KvLock, At, FilesInv
    <2>2. PICK r \in KvCall : r = [work[c] EXCEPT !.pc = "write", !.read = kv]
      <3>1. /\ work[c] \in [op : {"kv"}, pc : {"lock", "write"}, name : Name, value : Value, read : {<< >>} \cup Map]
        BY <2>1 DEF KvCall
      <3>2. [work[c] EXCEPT !.pc = "write"] \in
              [op : {"kv"}, pc : {"write"}, name : Name, value : Value, read : {<< >>} \cup Map]
        BY <3>1
      <3>3. \A r \in [op : {"kv"}, pc : {"write"}, name : Name, value : Value, read : {<< >>} \cup Map] :
              [r EXCEPT !.read = kv] \in KvCall
        BY <2>1 DEF KvCall
      <3> QED
        BY <3>2, <3>3
    <2>3. WorkOK' /\ Only(c, FileOps) /\ work'[c] = r
      BY <1>9, <2>2, FilesGo DEF KvLock, FileWork
    <2>4. \A d \in Caller : work'[d] = work[d] \/ work'[d].op # "rekey"
      BY <2>3 DEF Only, KvCall
    <2> QED
      BY <1>9, <2>3, <2>4 DEF KvLock, FilesInv, accessVars
  <1>10. CASE KvWrite(c)
    <2>1. work[c] \in KvCall /\ work[c].pc = "write"
      BY <1>10, Kinds DEF KvWrite, At
    <2>2. work[c].read \in Map /\ work[c].name \in Name /\ work[c].value \in {None} \cup Value
      BY <2>1 DEF KvCall
    <2>3. kv' \in Map
      BY <1>10, <2>2 DEF KvWrite, Map
    <2> QED
      BY <1>10, <2>3, FilesAnswer DEF KvWrite, FilesInv, accessVars
  <1> QED
    BY <1>1, <1>2, <1>3, <1>4, <1>5, <1>6, <1>7, <1>8, <1>9, <1>10 DEF AccessStep, BlockStep

LEMMA FlushKeeps ==
  ASSUME FilesInv, FlushStep, UNCHANGED work
  PROVE  FilesInv'
  <1>1. PICK f \in flushes : FlushClone(f) \/ FlushLoad(f) \/ FlushWrite(f)
    BY DEF FlushStep
  <1>2. f \in FairFlush(hits) /\ f.by \in Process /\ f.own \in FairCounts(hits) /\ f.read \in FairCounts(hits)
    BY <1>1 DEF FilesInv, FairFlush
  <1>h. hits \in Counts
    BY DEF FilesInv
  <1>3. CASE FlushClone(f)
    <2>1. Own(f.by) \in FairCounts(hits)
      BY <1>2 DEF Own, FilesInv
    <2>2. [f EXCEPT !.pc = "load"] \in FairFlush(hits)
      BY <1>2 DEF FairFlush
    <2>3. \A g \in FairFlush(hits) : [g EXCEPT !.own = Own(f.by)] \in FairFlush(hits)
      BY <2>1 DEF FairFlush
    <2>4. [f EXCEPT !.pc = "load", !.own = Own(f.by)] \in FairFlush(hits)
      BY <2>2, <2>3
    <2>5. flushes' \subseteq FairFlush(hits)
      BY <1>3, <2>4 DEF FlushClone, Replace, FilesInv
    <2>6. tally' \in [Process -> {None} \cup FairCounts(hits)]
      BY <1>3, <2>1 DEF FlushClone, FilesInv
    <2> QED
      BY <1>3, <2>5, <2>6 DEF FlushClone, FilesInv
  <1>4. CASE FlushLoad(f)
    <2>1. journal \in FairCounts(hits)
      BY DEF FilesInv
    <2>2. [f EXCEPT !.pc = "write"] \in FairFlush(hits)
      BY <1>2 DEF FairFlush
    <2>3. \A g \in FairFlush(hits) : [g EXCEPT !.read = journal] \in FairFlush(hits)
      BY <2>1 DEF FairFlush
    <2>4. [f EXCEPT !.pc = "write", !.read = journal] \in FairFlush(hits)
      BY <2>2, <2>3
    <2>5. flushes' \subseteq FairFlush(hits)
      BY <1>4, <2>4 DEF FlushLoad, Replace, FilesInv
    <2> QED
      BY <1>4, <2>5 DEF FlushLoad, FilesInv
  <1>5. CASE FlushWrite(f)
    <2>1. journal' \in FairCounts(hits)
      BY <1>2, <1>5, <1>h, FairIsKept DEF FlushWrite
    <2> QED
      BY <1>5, <2>1 DEF FlushWrite, FilesInv
  <1> QED
    BY <1>1, <1>3, <1>4, <1>5

LEMMA ForgettingKeeps ==
  ASSUME FilesInv, NEW p \in Process, FilesForget(p), FilesFrame
  PROVE  FilesInv'
  <1>1. /\ tally' = [tally EXCEPT ![p] = None] /\ flushes' \subseteq flushes
        /\ UNCHANGED <<journal, hits, blocks, kv>>
    BY DEF FilesForget
  <1>2. Zero \in FairCounts(hits)
    BY FairIsKept DEF FilesInv
  <1>3. \A c \in Caller : work'[c].op = "rekey" => work'[c].read \in FairCounts(hits)
    BY <1>2 DEF FilesInv, FilesFrame
  <1> QED
    BY <1>1, <1>3 DEF FilesInv

-----------------------------------------------------------------------------
(* The vault.                                                              *)

VaultOK ==
  /\ salt \in {None} \cup Salt /\ vault \in {None} \cup Sealed /\ raced \in BOOLEAN
  /\ \A c \in Caller :
       /\ work[c].op \in VaultOps /\ work[c].pc # "prompt" => work[c].password \in Password
       /\ Opens(c, "load") \/ Opens(c, "save") => work[c].key \in Key

\* Who may yet change the salt, or write a vault where there is none.
Founding(c) == Opens(c, "make") \/ Opens(c, "load") \/ Opens(c, "save")

OneKey ==
  vault # None =>
    /\ salt = vault.key.salt
    /\ \A c \in Caller : ~Opens(c, "make") /\ (Opens(c, "save") => work[c].key = vault.key)
OneFounder ==
  vault = None =>
    \A c \in Caller :
      Founding(c) => /\ \A d \in Caller : Founding(d) => d = c
                     /\ ~Opens(c, "make") => work[c].key.salt = salt

VaultInv == VaultOK /\ (~raced => OneKey /\ OneFounder)

\* A step of anything else, or one that has not read the salt.
VaultFrame ==
  \A d \in Caller :
    work'[d] # work[d] /\ work'[d].op \in VaultOps /\ work'[d].pc # "prompt"
      => work'[d].pc \in {"look", "salt"} /\ work'[d].password \in Password

LEMMA VaultAside ==
  ASSUME VaultInv, UNCHANGED vaultVars, VaultFrame
  PROVE  VaultInv'
  <1>1. UNCHANGED <<salt, vault, raced>>
    BY DEF vaultVars
  <1>3. ASSUME NEW d \in Caller, NEW pc \in {"make", "load", "save"}, Opens(d, pc)'
        PROVE  work'[d] = work[d] /\ Opens(d, pc)
    <2>1. work'[d] = work[d]
      BY <1>3 DEF Opens, VaultOps, VaultFrame
    <2> QED
      BY <1>3, <2>1 DEF Opens
  <1>4. VaultOK'
    BY <1>1, <1>3 DEF VaultInv, VaultOK, VaultFrame
  <1>5. ASSUME ~raced PROVE OneKey'
    BY <1>1, <1>3, <1>5 DEF VaultInv, OneKey
  <1>6. ASSUME ~raced PROVE OneFounder'
    <2> SUFFICES ASSUME vault = None, NEW c \in Caller, Founding(c)'
                 PROVE  /\ \A d \in Caller : Founding(d)' => d = c
                        /\ ~Opens(c, "make")' => work'[c].key.salt = salt
      BY <1>1 DEF OneFounder
    <2>1. \A d \in Caller : Founding(d)' => Founding(d) /\ work'[d] = work[d]
      BY <1>3 DEF Founding
    <2>2. OneFounder
      BY <1>6 DEF VaultInv
    <2>3. Opens(c, "make")' = Opens(c, "make")
      BY <2>1 DEF Opens
    <2> QED
      BY <2>1, <2>2, <2>3 DEF OneFounder
  <1> QED
    BY <1>1, <1>4, <1>5, <1>6 DEF VaultInv

LEMMA OpenGoes ==
  ASSUME NEW r \in OpenCall, NEW pc \in {"prompt", "look", "salt", "make", "load", "save"}
  PROVE  /\ [r EXCEPT !.pc = pc] \in OpenCall /\ [r EXCEPT !.pc = pc].pc = pc
         /\ [r EXCEPT !.pc = pc].op = r.op /\ [r EXCEPT !.pc = pc].password = r.password
  BY DEF OpenCall

LEMMA DerivedType ==
  ASSUME NEW c, work[c] \in OpenCall, NEW drawn, [password |-> work[c].password, salt |-> drawn] \in Key
  PROVE  /\ Derived(c, drawn) \in OpenCall
         /\ Derived(c, drawn).op = work[c].op /\ Derived(c, drawn).password = work[c].password
         /\ Derived(c, drawn).pc = "load"
         /\ Derived(c, drawn).key = [password |-> work[c].password, salt |-> drawn]
  <1> DEFINE key == [password |-> work[c].password, salt |-> drawn]
  <1>1. [work[c] EXCEPT !.pc = "load"] \in OpenCall
    BY OpenGoes
  <1>2. Derived(c, drawn) = [work[c] EXCEPT !.pc = "load", !.key = key] /\ key \in Key
    BY DEF Derived
  <1> HIDE DEF key
  <1>3. \A r \in OpenCall : [r EXCEPT !.key = key] \in OpenCall
    BY <1>2 DEF OpenCall
  <1>4. Derived(c, drawn) \in OpenCall
    BY <1>1, <1>2, <1>3
  <1>5. /\ Derived(c, drawn).op = work[c].op /\ Derived(c, drawn).password = work[c].password
        /\ Derived(c, drawn).pc = "load" /\ Derived(c, drawn).key = key
    BY <1>2, <1>4 DEF OpenCall
  <1> QED
    BY <1>4, <1>5 DEF key

LEMMA VaultGo ==
  ASSUME WorkOK, NEW c \in Caller, NEW r \in OpenCall, Go(c, r)
  PROVE  WorkOK' /\ Only(c, VaultOps) /\ work'[c] = r
  <1>1. r.op \in VaultOps
    BY DEF OpenCall, VaultOps
  <1> QED
    BY <1>1, GoOnly

LEMMA VaultAnswer ==
  ASSUME WorkOK, NEW c \in Caller, Answer(c)
  PROVE  /\ WorkOK' /\ Only(c, VaultOps) /\ work'[c].op \notin VaultOps
         /\ \A d \in Caller : work'[d] = work[d] \/ work'[d].op \notin VaultOps
  BY AnswerOnly DEF Only, Idle, Warming, VaultOps

\* Of the others, who was founding and at what.
LEMMA OthersOpen ==
  ASSUME NEW c, NEW ops, Only(c, ops)
  PROVE  \A d \in Caller : d # c => work'[d] = work[d] /\ Founding(d)' = Founding(d)
                                    /\ \A pc : Opens(d, pc)' = Opens(d, pc)
  BY DEF Only, Founding, Opens

LEMMA ReadSaltKeeps ==
  ASSUME WorkOK, VaultInv, NEW c \in Caller, ReadSalt(c)
  PROVE  WorkOK' /\ Only(c, VaultOps) /\ VaultInv'
  <1>0. VaultOK /\ raced \in BOOLEAN
    BY DEF VaultInv, VaultOK
  <1>1. /\ work[c] \in OpenCall /\ Opens(c, "salt") /\ UNCHANGED <<salt, vault>> /\ work[c].password \in Password
        /\ work[c].op \in VaultOps
    <2>1. Opens(c, "salt") /\ UNCHANGED <<salt, vault>>
      BY DEF ReadSalt
    <2> QED
      BY <1>0, <2>1, Kinds DEF Opens, VaultOps, VaultOK
  <1>2. raced' = (raced \/ (vault = None /\ \E d \in Caller \ {c}, pc \in {"make", "load", "save"} : Opens(d, pc)))
    BY DEF ReadSalt
  <1>3. PICK r : Go(c, r) /\ r = IF salt = None THEN [work[c] EXCEPT !.pc = "make"] ELSE Derived(c, salt)
    BY DEF ReadSalt
  <1>4. /\ r \in OpenCall /\ r.op = work[c].op /\ r.password = work[c].password
        /\ salt = None => r.pc = "make"
        /\ salt # None => r.pc = "load" /\ r.key \in Key /\ r.key.salt = salt
    <2>1. CASE salt = None
      BY <1>1, <1>3, <2>1, OpenGoes
    <2>2. CASE salt # None
      <3>1. [password |-> work[c].password, salt |-> salt] \in Key
        BY <1>0, <1>1, <2>2 DEF VaultOK, Key
      <3> QED
        BY <1>1, <1>3, <2>2, <3>1, DerivedType
    <2> QED
      BY <2>1, <2>2
  <1>5. WorkOK' /\ Only(c, VaultOps) /\ work'[c] = r
    BY <1>3, <1>4, VaultGo
  <1>6. \A d \in Caller : d # c => work'[d] = work[d] /\ Founding(d)' = Founding(d)
                                   /\ \A pc : Opens(d, pc)' = Opens(d, pc)
    BY <1>5, OthersOpen
  <1>7. VaultOK'
    <2>1. ASSUME NEW d \in Caller
          PROVE  /\ work'[d].op \in VaultOps /\ work'[d].pc # "prompt" => work'[d].password \in Password
                 /\ Opens(d, "load")' \/ Opens(d, "save")' => work'[d].key \in Key
      <3>1. CASE d = c
        BY <1>1, <1>4, <1>5, <3>1 DEF Opens
      <3>2. CASE d # c
        BY <1>0, <1>6, <3>2 DEF VaultOK
      <3> QED
        BY <3>1, <3>2
    <2>2. raced' \in BOOLEAN
      BY <1>2
    <2> QED
      BY <1>0, <1>1, <2>1, <2>2 DEF VaultOK
  <1>8. ASSUME ~raced' PROVE OneKey'
    <2> SUFFICES ASSUME vault # None
                 PROVE  /\ salt = vault.key.salt
                        /\ \A d \in Caller : ~Opens(d, "make")' /\ (Opens(d, "save")' => work'[d].key = vault.key)
      BY <1>1 DEF OneKey
    <2>1. OneKey
      BY <1>2, <1>8 DEF VaultInv
    <2>2. salt # None
      <3>1. vault.key.salt \in Salt
        BY <1>0 DEF VaultOK, Sealed, Key
      <3> QED
        BY <2>1, <3>1, CallsAssumption DEF OneKey, Salt
    <2>3. ~Opens(c, "make")' /\ ~Opens(c, "save")'
      BY <1>4, <1>5, <2>2 DEF Opens
    <2> QED
      BY <1>6, <2>1, <2>3 DEF OneKey
  <1>9. ASSUME ~raced' PROVE OneFounder'
    <2> SUFFICES ASSUME vault = None PROVE OneFounder'
      BY <1>1 DEF OneFounder
    <2>1. \A d \in Caller : d # c => ~Founding(d)'
      BY <1>2, <1>6, <1>9 DEF Founding
    <2>2. ~Opens(c, "make")' => work'[c].key.salt = salt
      BY <1>1, <1>4, <1>5 DEF Opens, VaultOps
    <2> QED
      BY <1>1, <2>1, <2>2 DEF OneFounder
  <1> QED
    BY <1>5, <1>7, <1>8, <1>9 DEF VaultInv

LEMMA MakeSaltKeeps ==
  ASSUME WorkOK, VaultInv, NEW c \in Caller, MakeSalt(c)
  PROVE  WorkOK' /\ Only(c, VaultOps) /\ VaultInv' /\ (~raced => vault = None)
  <1>0. VaultOK
    BY DEF VaultInv
  <1>1. /\ work[c] \in OpenCall /\ Opens(c, "make") /\ UNCHANGED <<vault, raced>> /\ salt' = work[c].call
        /\ work[c].password \in Password
    <2>1. Opens(c, "make") /\ UNCHANGED <<vault, raced>> /\ salt' = work[c].call
      BY DEF MakeSalt
    <2> QED
      BY <1>0, <2>1, Kinds DEF Opens, VaultOps, VaultOK
  <1>2. salt' \in Salt
    BY <1>1 DEF OpenCall
  <1>3. PICK r : Go(c, r) /\ r = Derived(c, salt')
    BY <1>1 DEF MakeSalt
  <1>4. /\ r \in OpenCall /\ r.op = work[c].op /\ r.password = work[c].password
        /\ r.pc = "load" /\ r.key \in Key /\ r.key.salt = salt'
    <2>1. [password |-> work[c].password, salt |-> salt'] \in Key
      BY <1>1, <1>2 DEF Key
    <2> QED
      BY <1>1, <1>3, <2>1, DerivedType
  <1>5. WorkOK' /\ Only(c, VaultOps) /\ work'[c] = r
    BY <1>3, <1>4, VaultGo
  <1>6. \A d \in Caller : d # c => work'[d] = work[d] /\ Founding(d)' = Founding(d)
                                   /\ \A pc : Opens(d, pc)' = Opens(d, pc)
    BY <1>5, OthersOpen
  <1>7. VaultOK'
    <2>1. ASSUME NEW d \in Caller
          PROVE  /\ work'[d].op \in VaultOps /\ work'[d].pc # "prompt" => work'[d].password \in Password
                 /\ Opens(d, "load")' \/ Opens(d, "save")' => work'[d].key \in Key
      <3>1. CASE d = c
        BY <1>1, <1>4, <1>5, <3>1 DEF Opens
      <3>2. CASE d # c
        BY <1>0, <1>6, <3>2 DEF VaultOK
      <3> QED
        BY <3>1, <3>2
    <2> QED
      BY <1>0, <1>1, <1>2, <2>1 DEF VaultOK
  <1>8. ASSUME ~raced PROVE vault = None /\ OneFounder'
    <2>1. vault = None
      BY <1>1, <1>8 DEF VaultInv, OneKey
    <2>2. \A d \in Caller : d # c => ~Founding(d)'
      BY <1>1, <1>6, <1>8, <2>1 DEF VaultInv, OneFounder, Founding
    <2>3. work'[c].key.salt = salt'
      BY <1>4, <1>5
    <2> QED
      BY <2>1, <2>2, <2>3 DEF OneFounder
  <1>9. ~raced => OneKey'
    BY <1>1, <1>8 DEF OneKey
  <1> QED
    BY <1>1, <1>5, <1>7, <1>8, <1>9 DEF VaultInv

LEMMA LoadKeeps ==
  ASSUME WorkOK, VaultInv, NEW c \in Caller, Load(c)
  PROVE  WorkOK' /\ Only(c, VaultOps) /\ VaultInv'
  <1>0. VaultOK
    BY DEF VaultInv
  <1>1. /\ work[c] \in OpenCall /\ Opens(c, "load") /\ UNCHANGED <<salt, vault, raced>>
        /\ work[c].password \in Password /\ work[c].key \in Key /\ work[c].op \in VaultOps
    <2>1. Opens(c, "load") /\ UNCHANGED <<salt, vault, raced>>
      BY DEF Load, vaultVars
    <2> QED
      BY <1>0, <2>1, Kinds DEF Opens, VaultOps, VaultOK
  <1>2. CASE Answer(c)
    <2>1. UNCHANGED vaultVars
      BY <1>1 DEF vaultVars
    <2>2. /\ WorkOK' /\ Only(c, VaultOps)
          /\ \A d \in Caller : work'[d] = work[d] \/ work'[d].op \notin VaultOps
      BY <1>2, VaultAnswer
    <2>3. VaultInv'
      <3>1. VaultFrame
        BY <2>1, <2>2 DEF VaultFrame
      <3> QED
        BY <2>1, <2>2, <3>1, VaultAside
    <2> QED
      BY <2>2, <2>3
  <1>3. ASSUME NEW secrets, secrets \subseteq Secret, vault # None => vault.key = work[c].key,
               Go(c, [work[c] EXCEPT !.pc = "save", !.secrets = secrets])
        PROVE  WorkOK' /\ Only(c, VaultOps) /\ VaultInv'
    <2> DEFINE r == [work[c] EXCEPT !.pc = "save", !.secrets = secrets]
    <2>1. r \in OpenCall
      <3>1. [work[c] EXCEPT !.pc = "save"] \in OpenCall
        BY <1>1, OpenGoes
      <3>2. \A s \in OpenCall : [s EXCEPT !.secrets = secrets] \in OpenCall
        BY <1>3 DEF OpenCall
      <3> QED
        BY <3>1, <3>2
    <2>2. r.op = work[c].op /\ r.password = work[c].password /\ r.pc = "save" /\ r.key = work[c].key
      BY <1>1, <2>1 DEF OpenCall
    <2>3. Go(c, r)
      BY <1>3
    <2> HIDE DEF r
    <2>5. WorkOK' /\ Only(c, VaultOps) /\ work'[c] = r
      BY <2>1, <2>3, VaultGo
    <2>6. \A d \in Caller : d # c => work'[d] = work[d] /\ Founding(d)' = Founding(d)
                                     /\ \A pc : Opens(d, pc)' = Opens(d, pc)
      BY <2>5, OthersOpen
    <2>7. VaultOK'
      <3>1. ASSUME NEW d \in Caller
            PROVE  /\ work'[d].op \in VaultOps /\ work'[d].pc # "prompt" => work'[d].password \in Password
                   /\ Opens(d, "load")' \/ Opens(d, "save")' => work'[d].key \in Key
        <4>1. CASE d = c
          BY <1>1, <2>2, <2>5, <4>1
        <4>2. CASE d # c
          BY <1>0, <2>6, <4>2 DEF VaultOK
        <4> QED
          BY <4>1, <4>2
      <3> QED
        BY <1>0, <1>1, <3>1 DEF VaultOK
    <2>8. ASSUME ~raced PROVE OneKey'
      <3> SUFFICES ASSUME vault # None
                   PROVE  /\ salt = vault.key.salt
                          /\ \A d \in Caller : ~Opens(d, "make")' /\ (Opens(d, "save")' => work'[d].key = vault.key)
        BY <1>1 DEF OneKey
      <3>1. OneKey
        BY <2>8 DEF VaultInv
      <3>2. ~Opens(c, "make")' /\ work'[c].key = vault.key
        BY <1>3, <2>2, <2>5 DEF Opens
      <3> QED
        BY <2>6, <3>1, <3>2 DEF OneKey
    <2>9. ASSUME ~raced PROVE OneFounder'
      <3> SUFFICES ASSUME vault = None PROVE OneFounder'
        BY <1>1 DEF OneFounder
      <3>1. (\A d \in Caller : Founding(d) => d = c) /\ work[c].key.salt = salt
        BY <1>1, <2>9 DEF VaultInv, OneFounder, Founding, Opens
      <3>2. \A d \in Caller : d # c => ~Founding(d)'
        BY <2>6, <3>1
      <3>3. work'[c].key.salt = salt'
        BY <1>1, <2>2, <2>5, <3>1
      <3> QED
        BY <3>2, <3>3 DEF OneFounder
    <2> QED
      BY <1>1, <2>5, <2>7, <2>8, <2>9 DEF VaultInv
  <1>4. Answer(c)
        \/ \E secrets \in SUBSET Secret :
             (vault # None => vault.key = work[c].key) /\ Go(c, [work[c] EXCEPT !.pc = "save", !.secrets = secrets])
    <2>1. Decrypted(c) # None => Decrypted(c) \subseteq Secret /\ (vault # None => vault.key = work[c].key)
      BY <1>0 DEF Decrypted, VaultOK, Sealed
    <2>2. work[c].secret \in Secret
      BY <1>1 DEF OpenCall
    <2>3. CASE Decrypted(c) # None /\ Go(c, [work[c] EXCEPT !.pc = "save", !.secrets = Decrypted(c) \cup {work[c].secret}])
      <3>1. Decrypted(c) \cup {work[c].secret} \in SUBSET Secret
        BY <2>1, <2>2, <2>3
      <3> QED
        BY <2>1, <2>3, <3>1
    <2>4. CASE Decrypted(c) # None /\ Go(c, [work[c] EXCEPT !.pc = "save", !.secrets = Decrypted(c) \ {work[c].secret}])
      <3>1. Decrypted(c) \ {work[c].secret} \in SUBSET Secret
        BY <2>1, <2>4
      <3> QED
        BY <2>1, <2>4, <3>1
    <2> QED
      BY <2>3, <2>4 DEF Load
  <1> QED
    BY <1>2, <1>3, <1>4

LEMMA SaveKeeps ==
  ASSUME WorkOK, VaultInv, NEW c \in Caller, Save(c)
  PROVE  /\ WorkOK' /\ Only(c, VaultOps) /\ VaultInv'
         /\ ~raced /\ vault # None => vault'.key = vault.key
  <1>0. VaultOK
    BY DEF VaultInv
  <1>1. /\ work[c] \in OpenCall /\ Opens(c, "save") /\ UNCHANGED <<salt, raced>>
        /\ vault' = [key |-> work[c].key, secrets |-> work[c].secrets]
        /\ work[c].key \in Key /\ work[c].op \in VaultOps
    <2>1. /\ Opens(c, "save") /\ UNCHANGED <<salt, raced>>
          /\ vault' = [key |-> work[c].key, secrets |-> work[c].secrets]
      BY DEF Save
    <2> QED
      BY <1>0, <2>1, Kinds DEF Opens, VaultOps, VaultOK
  <1>2. vault' \in Sealed /\ vault'.key = work[c].key
    BY <1>1 DEF OpenCall, Sealed
  <1>3. /\ WorkOK' /\ Only(c, VaultOps) /\ work'[c].op \notin VaultOps
    BY VaultAnswer DEF Save
  <1>4. \A d \in Caller : d # c => work'[d] = work[d] /\ Founding(d)' = Founding(d)
                                   /\ \A pc : Opens(d, pc)' = Opens(d, pc)
    BY <1>3, OthersOpen
  <1>5. \A pc : ~Opens(c, pc)'
    BY <1>3 DEF Opens, VaultOps
  <1>6. VaultOK'
    <2>1. ASSUME NEW d \in Caller
          PROVE  /\ work'[d].op \in VaultOps /\ work'[d].pc # "prompt" => work'[d].password \in Password
                 /\ Opens(d, "load")' \/ Opens(d, "save")' => work'[d].key \in Key
      <3>1. CASE d = c
        BY <1>3, <1>5, <3>1
      <3>2. CASE d # c
        BY <1>0, <1>4, <3>2 DEF VaultOK
      <3> QED
        BY <3>1, <3>2
    <2> QED
      BY <1>0, <1>1, <1>2, <2>1 DEF VaultOK
  <1>7. vault' # None
    BY <1>2, VaultAssumption
  <1>8. ASSUME ~raced, vault # None PROVE vault'.key = vault.key
    BY <1>1, <1>2, <1>8 DEF VaultInv, OneKey
  <1>9. ASSUME ~raced PROVE OneKey'
    <2>1. CASE vault # None
      <3>1. OneKey
        BY <1>9 DEF VaultInv
      <3>2. vault'.key = vault.key
        BY <1>8, <1>9, <2>1
      <3> QED
        BY <1>1, <1>4, <1>5, <2>1, <3>1, <3>2 DEF OneKey
    <2>2. CASE vault = None
      <3>1. OneFounder /\ Founding(c) /\ ~Opens(c, "make")
        BY <1>1, <1>9 DEF VaultInv, Founding, Opens
      <3>2. salt = work[c].key.salt
        BY <2>2, <3>1 DEF OneFounder
      <3>3. \A d \in Caller : d # c => ~Founding(d)
        BY <2>2, <3>1 DEF OneFounder
      <3>4. \A d \in Caller : ~Opens(d, "make")' /\ ~Opens(d, "save")'
        BY <1>4, <1>5, <3>3 DEF Founding
      <3> QED
        BY <1>1, <1>2, <3>2, <3>4 DEF OneKey
    <2> QED
      BY <2>1, <2>2
  <1> QED
    BY <1>1, <1>3, <1>6, <1>7, <1>8, <1>9 DEF VaultInv, OneFounder

LEMMA PromptKeeps ==
  ASSUME WorkOK, VaultInv, NEW c \in Caller, Prompt(c) \/ Look(c)
  PROVE  WorkOK' /\ Only(c, VaultOps) /\ VaultInv'
  <1>0. VaultOK
    BY DEF VaultInv
  <1>1. work[c] \in OpenCall /\ work[c].op \in VaultOps /\ UNCHANGED vaultVars
    BY Kinds DEF Prompt, Look, Opens, VaultOps
  <1>2. CASE Answer(c)
    <2>1. /\ WorkOK' /\ Only(c, VaultOps)
          /\ \A d \in Caller : work'[d] = work[d] \/ work'[d].op \notin VaultOps
      BY <1>2, VaultAnswer
    <2>2. VaultInv'
      <3>1. VaultFrame
        BY <1>1, <2>1 DEF VaultFrame
      <3> QED
        BY <1>1, <2>1, <3>1, VaultAside
    <2> QED
      BY <2>1, <2>2
  <1>3. ASSUME NEW r \in OpenCall, Go(c, r), r.pc \in {"look", "salt"}, r.password \in Password
        PROVE  WorkOK' /\ Only(c, VaultOps) /\ VaultInv'
    <2>1. WorkOK' /\ Only(c, VaultOps) /\ work'[c] = r
      BY <1>3, VaultGo
    <2>2. \A d \in Caller : work'[d] = work[d] \/ work'[d] = r
      BY <2>1 DEF Only
    <2>3. VaultInv'
      <3>1. VaultFrame
        BY <1>1, <1>3, <2>2 DEF VaultFrame
      <3> QED
        BY <1>1, <1>3, <2>2, <3>1, VaultAside
    <2> QED
      BY <2>1, <2>3
  <1>4. CASE Prompt(c) /\ ~Answer(c)
    <2>1. PICK password \in Password :
            Go(c, [work[c] EXCEPT !.password = password,
                                  !.pc = IF work[c].op \in {"store", "delete"} THEN "salt" ELSE "look"])
      BY <1>4 DEF Prompt
    <2>2. PICK pc \in {"look", "salt"} : pc = IF work[c].op \in {"store", "delete"} THEN "salt" ELSE "look"
      OBVIOUS
    <2> DEFINE r == [work[c] EXCEPT !.password = password, !.pc = pc]
    <2>3. Go(c, r)
      BY <2>1, <2>2
    <2>4. r \in OpenCall
      <3>1. [work[c] EXCEPT !.password = password] \in OpenCall
        BY <1>1 DEF OpenCall
      <3>2. \A s \in OpenCall : [s EXCEPT !.pc = pc] \in OpenCall
        BY OpenGoes
      <3> QED
        BY <3>1, <3>2
    <2>5. r.pc = pc /\ r.password = password
      BY <1>1, <2>4 DEF OpenCall
    <2> HIDE DEF r
    <2> QED
      BY <1>3, <2>3, <2>4, <2>5
  <1>5. CASE Look(c) /\ ~Answer(c)
    <2>1. Go(c, [work[c] EXCEPT !.pc = "salt"]) /\ work[c].pc = "look"
      BY <1>5 DEF Look, GoTo, Opens
    <2>2. [work[c] EXCEPT !.pc = "salt"] \in OpenCall /\ [work[c] EXCEPT !.pc = "salt"].pc = "salt"
          /\ [work[c] EXCEPT !.pc = "salt"].password = work[c].password
      BY <1>1, OpenGoes
    <2>3. work[c].password \in Password
      BY <1>0, <1>1, <2>1 DEF VaultOK
    <2> QED
      BY <1>3, <2>1, <2>2, <2>3
  <1> QED
    BY <1>2, <1>4, <1>5

\* A key is for as long as the vault, unless two founded it at once.
KeyIsKept ==
  ~raced' /\ vault # None => vault' # None /\ vault'.key = vault.key /\ salt' = vault.key.salt

LEMMA VaultKeeps ==
  ASSUME WorkOK, VaultInv, NEW c \in Caller, VaultStep(c)
  PROVE  WorkOK' /\ Only(c, VaultOps) /\ VaultInv' /\ KeyIsKept
  <1>1. WorkOK' /\ Only(c, VaultOps) /\ VaultInv'
    BY PromptKeeps, ReadSaltKeeps, MakeSaltKeeps, LoadKeeps, SaveKeeps DEF VaultStep
  <1>2. SUFFICES ASSUME ~raced', vault # None
                 PROVE  vault' # None /\ vault'.key = vault.key /\ salt' = vault.key.salt
    BY <1>1 DEF KeyIsKept
  <1>3. ~raced
    BY <1>2 DEF VaultStep, Prompt, Look, ReadSalt, MakeSalt, Load, Save, vaultVars
  <1>4. salt = vault.key.salt
    BY <1>2, <1>3 DEF VaultInv, OneKey
  <1>5. CASE Save(c)
    <2>1. vault'.key = vault.key /\ salt' = salt
      BY <1>2, <1>3, <1>5, SaveKeeps DEF Save
    <2>2. vault' # None
      <3>1. vault' \in {None} \cup Sealed /\ OneFounder' /\ OneKey'
        BY <1>1, <1>2 DEF VaultInv, VaultOK
      <3>2. work[c] \in OpenCall /\ work[c].key \in Key
        BY <1>5, Kinds DEF Save, Opens, VaultOps, VaultInv, VaultOK
      <3>3. vault' \in Sealed
        BY <1>5, <3>2 DEF Save, OpenCall, Sealed
      <3> QED
        BY <3>3, VaultAssumption
    <2> QED
      BY <1>4, <2>1, <2>2
  <1>6. CASE MakeSalt(c)
    BY <1>2, <1>3, <1>6, MakeSaltKeeps
  <1>7. CASE Prompt(c) \/ Look(c) \/ ReadSalt(c) \/ Load(c)
    <2>1. UNCHANGED <<salt, vault>>
      BY <1>7 DEF Prompt, Look, ReadSalt, Load, vaultVars
    <2> QED
      BY <1>2, <1>4, <2>1
  <1> QED
    BY <1>5, <1>6, <1>7 DEF VaultStep

-----------------------------------------------------------------------------
(* All of it.                                                              *)

IInv == WorkOK /\ SessionInv /\ AuditInv /\ FilesInv /\ VaultInv

\* Nobody else's call goes on in a caller's step.
Alone(c) == \A d \in Caller : d # c => work'[d] = work[d]

\* A call that is taken has not read anything yet.
LEMMA CallsAreFresh ==
  ASSUME NEW call \in Call, calls \in Nat, calls < MaxCalls
  PROVE  /\ call \in SessionWork \cup RecordCall \cup FileWork \cup OpenCall
         /\ call.op = "start" => call.pc = "look"
         /\ call.op \in AuditOps => call.pc \in {"lock", "verify"} /\ call.acks = {}
         /\ call.op = "rekey" => call.read = Zero
         /\ call.op \in VaultOps => call.pc = "prompt"
  <1>1. CASE call \in UNION {SessionCall(agent) : agent \in Agent}
    <2>1. PICK agent \in Agent : call \in SessionCall(agent)
      BY <1>1
    <2>2. call \in SessionWork /\ call.op \in SessionOps /\ (call.op = "start" => call.pc = "look")
      BY <2>1 DEF SessionCall, SessionWork, StartCall, EndCall, SessionOps
    <2> QED
      BY <2>2 DEF SessionOps, AuditOps, VaultOps
  <1>2. CASE call \in {AuditCall("change"), AuditCall("reanchor")}
    <2>1. call \in RecordCall /\ call.op \in AuditOps /\ call.pc \in {"lock", "verify"} /\ call.acks = {}
      BY <1>2 DEF AuditCall, RecordCall, AuditOps
    <2> QED
      BY <2>1 DEF AuditOps, VaultOps
  <1>3. CASE call \in FileCall
    <2>1. \/ call \in [op : {"search"}, pc : {"record"}, ids : (SUBSET Id) \ {{}}]
          \/ call \in {[op |-> "rekey", pc |-> "load", read |-> Zero], [op |-> "consolidate", pc |-> "flush"]}
          \/ call \in [op : {"block"}, pc : {"load"}, name : Name, value : Value \cup {None}, read : {<< >>}]
          \/ call \in [op : {"kv"}, pc : {"lock"}, name : Name, value : Value, read : {<< >>}]
      BY <1>3 DEF FileCall
    <2>2. call \in FileWork /\ call.op \in FileOps /\ (call.op = "rekey" => call.read = Zero)
      BY <2>1 DEF FileWork, SearchCall, RekeyCall, ConsolidateCall, BlockCall, KvCall, FileOps, Zero, Counts
    <2> QED
      BY <2>2 DEF FileOps, AuditOps, VaultOps
  <1>4. CASE call \in VaultCall
    <2>1. calls + 1 \in Salt
      BY CallsAssumption DEF Salt
    <2>2. call \in OpenCall /\ call.op \in VaultOps /\ call.pc = "prompt"
      BY <1>4, <2>1 DEF VaultCall, OpenCall, VaultOps
    <2> QED
      BY <2>2 DEF AuditOps, VaultOps
  <1> QED
    <2>1. \/ call \in UNION {SessionCall(agent) : agent \in Agent}
          \/ call \in {AuditCall("change"), AuditCall("reanchor")}
          \/ call \in FileCall \/ call \in VaultCall
      BY DEF Call
    <2> QED
      BY <1>1, <1>2, <1>3, <1>4, <2>1

LEMMA BeginKeeps ==
  ASSUME IInv, NEW c \in Caller, Begin(c)
  PROVE  IInv' /\ Alone(c) /\ work[c] = Idle
  <1>0. WorkOK /\ SessionInv /\ AuditInv /\ FilesInv /\ VaultInv /\ calls \in Nat
    BY DEF IInv, WorkOK
  <1>1. PICK call \in Call : Takes(c, call)
    BY DEF Begin
  <1>2. /\ call \in SessionWork \cup RecordCall \cup FileWork \cup OpenCall
        /\ call.op = "start" => call.pc = "look"
        /\ call.op \in AuditOps => call.pc \in {"lock", "verify"} /\ call.acks = {}
        /\ call.op = "rekey" => call.read = Zero
        /\ call.op \in VaultOps => call.pc = "prompt"
    BY <1>0, <1>1, CallsAreFresh DEF Takes
  <1>3. WorkOK' /\ Alone(c) /\ work[c] = Idle /\ work'[c] = call
    BY <1>0, <1>1, <1>2 DEF Takes, WorkOK, Alone
  <1>4. SessionFrame /\ FilesFrame /\ VaultFrame
    BY <1>2, <1>3 DEF Alone, SessionFrame, FilesFrame, VaultFrame
  <1>5. AuditFrame
    BY <1>2, <1>3 DEF Alone, AuditFrame, Idle, AuditOps
  <1>6. SessionInv' /\ AuditInv' /\ VaultInv'
    BY <1>0, <1>4, <1>5, SessionAside, AuditAside, VaultAside DEF Begin
  <1>7. FilesInv'
    <2>1. CASE c \in Terminal
      BY <1>0, <1>4, <2>1, ForgettingKeeps DEF Begin, FreshFiles, Process
    <2>2. CASE c \notin Terminal
      BY <1>0, <1>4, <2>2, FilesAside DEF Begin, FreshFiles
    <2> QED
      BY <2>1, <2>2
  <1> QED
    BY <1>3, <1>6, <1>7 DEF IInv

\* What the calls of one component are to the others.
LEMMA OnlyFrames ==
  ASSUME NEW c \in Caller, NEW ops, Only(c, ops)
  PROVE  /\ Alone(c)
         /\ "start" \notin ops => SessionFrame
         /\ "rekey" \notin ops => FilesFrame
         /\ ops \cap AuditOps = {} /\ work[c].op \notin AuditOps => AuditFrame
         /\ ops \cap VaultOps = {} => VaultFrame
  <1>1. \A d \in Caller : work'[d] # work[d] => d = c /\ work'[d].op \in ops \cup {"none", "warm"}
    BY DEF Only
  <1>2. Alone(c)
    BY <1>1 DEF Alone
  <1>3. "start" \notin ops => SessionFrame
    BY <1>1 DEF SessionFrame
  <1>4. "rekey" \notin ops => FilesFrame
    BY <1>1 DEF FilesFrame
  <1>5. ops \cap AuditOps = {} /\ work[c].op \notin AuditOps => AuditFrame
    BY <1>1 DEF AuditFrame, AuditOps
  <1>6. ops \cap VaultOps = {} => VaultFrame
    BY <1>1 DEF VaultFrame, VaultOps
  <1> QED
    BY <1>2, <1>3, <1>4, <1>5, <1>6

LEMMA WorkKeeps ==
  ASSUME IInv, NEW c \in Caller, Work(c)
  PROVE  IInv' /\ Alone(c) /\ (KeyIsKept \/ UNCHANGED vaultVars)
  <1>0. WorkOK /\ SessionInv /\ AuditInv /\ FilesInv /\ VaultInv
    BY DEF IInv
  <1>r. RememberCalm(c)
    BY DEF Work
  <1>1. CASE SessionStep(c) /\ UNCHANGED <<auditVars, fileVars, vaultVars>>
    <2>1. WorkOK' /\ Only(c, SessionOps) /\ SessionInv'
      BY <1>0, <1>1, <1>r, SessionKeeps
    <2>2. work[c].op \notin AuditOps
      BY <1>1 DEF SessionStep, StartLook, StartAge, EndRead, EndWrite, EndUnpoint, StartUnbeat, StartCreate,
           StartPoint, StartTouch, StartBeat, WarmList, WarmStamp, At, AuditOps
    <2>3. Alone(c) /\ FilesFrame /\ AuditFrame /\ VaultFrame
      <3>1. "rekey" \notin SessionOps /\ SessionOps \cap AuditOps = {} /\ SessionOps \cap VaultOps = {}
        BY DEF SessionOps, AuditOps, VaultOps
      <3> QED
        BY <2>1, <2>2, <3>1, OnlyFrames
    <2> QED
      BY <1>0, <1>1, <2>1, <2>3, AuditAside, FilesAside, VaultAside DEF IInv
  <1>2. CASE AuditStep(c) /\ UNCHANGED <<files, pointer, beat, clock, warm, fileVars, vaultVars>>
    <2>1. WorkOK' /\ Only(c, AuditOps) /\ AuditInv'
      BY <1>0, <1>2, AuditKeeps
    <2>2. Alone(c) /\ SessionFrame /\ FilesFrame /\ VaultFrame
      <3>1. "start" \notin AuditOps /\ "rekey" \notin AuditOps /\ AuditOps \cap VaultOps = {}
        BY DEF AuditOps, VaultOps
      <3> QED
        BY <2>1, <3>1, OnlyFrames
    <2> QED
      BY <1>0, <1>2, <1>r, <2>1, <2>2, SessionAside, FilesAside, VaultAside DEF IInv
  <1>3. CASE /\ AccessStep(c) \/ BlockStep(c)
             /\ UNCHANGED <<files, pointer, beat, clock, warm, auditVars, vaultVars>>
    <2>1. WorkOK' /\ Only(c, FileOps) /\ FilesInv'
      BY <1>0, <1>3, AccessKeeps
    <2>2. work[c].op \notin AuditOps
      BY <1>3 DEF AccessStep, BlockStep, Record, Consolidate, ConsolidateEnds, RekeyLoad, RekeyWrite, RekeyOwn,
           BlockLoad, BlockSave, KvLock, KvWrite, At, AuditOps
    <2>3. Alone(c) /\ SessionFrame /\ AuditFrame /\ VaultFrame
      <3>1. "start" \notin FileOps /\ FileOps \cap AuditOps = {} /\ FileOps \cap VaultOps = {}
        BY DEF FileOps, AuditOps, VaultOps
      <3> QED
        BY <2>1, <2>2, <3>1, OnlyFrames
    <2> QED
      BY <1>0, <1>3, <1>r, <2>1, <2>3, SessionAside, AuditAside, VaultAside DEF IInv
  <1>4. CASE VaultStep(c) /\ UNCHANGED <<files, pointer, beat, clock, warm, auditVars, fileVars>>
    <2>1. WorkOK' /\ Only(c, VaultOps) /\ VaultInv' /\ KeyIsKept
      BY <1>0, <1>4, VaultKeeps
    <2>2. work[c].op \notin AuditOps
      BY <1>4 DEF VaultStep, Prompt, Look, ReadSalt, MakeSalt, Load, Save, Opens, AuditOps
    <2>3. Alone(c) /\ SessionFrame /\ FilesFrame /\ AuditFrame
      <3>1. "start" \notin VaultOps /\ "rekey" \notin VaultOps /\ VaultOps \cap AuditOps = {}
        BY DEF VaultOps, AuditOps
      <3> QED
        BY <2>1, <2>2, <3>1, OnlyFrames
    <2> QED
      BY <1>0, <1>4, <1>r, <2>1, <2>3, SessionAside, AuditAside, FilesAside DEF IInv
  <1> QED
    BY <1>1, <1>2, <1>3, <1>4 DEF Work

LEMMA DeathKeeps ==
  ASSUME IInv, NEW p \in Process, Death(p)
  PROVE  IInv' /\ UNCHANGED vaultVars /\ faults' # faults
  <1>0. WorkOK /\ SessionInv /\ AuditInv /\ FilesInv /\ VaultInv
    BY DEF IInv
  <1>1. /\ work' = [c \in Caller |-> IF ProcessOf(c) = p THEN Idle ELSE work[c]]
        /\ faults' = faults + 1 /\ calls' = calls
        /\ UNCHANGED <<files, pointer, beat, clock, warm>> /\ UNCHANGED vaultVars
        /\ AuditDies(p) /\ FilesForget(p) /\ RememberCalm(None)
    BY DEF Death, Dies
  <1>2. WorkOK' /\ faults' # faults
    BY <1>0, <1>1 DEF WorkOK, Rest
  <1>3. SessionFrame /\ FilesFrame /\ VaultFrame
    BY <1>1 DEF SessionFrame, FilesFrame, VaultFrame, VaultOps, Idle
  <1>4. AuditInv'
    BY <1>0, <1>1, AuditDeath
  <1> QED
    BY <1>0, <1>1, <1>2, <1>3, <1>4, SessionAside, ForgettingKeeps, VaultAside DEF IInv

LEMMA ErasingKeeps ==
  ASSUME WorkOK, SessionInv, EraseFile, RememberCalm(None), UNCHANGED work
  PROVE  SessionInv'
  <1>0. SessionOK /\ WarmIsBeat
    BY DEF SessionInv
  <1>1. PICK f \in DOMAIN files : files' = [files EXCEPT ![f].status = "gone"]
    BY DEF EraseFile
  <1>2. UNCHANGED <<pointer, beat, clock, warm>> /\ calm' \in [Caller -> BOOLEAN]
    BY CalmOK DEF EraseFile
  <1>3. files' \in Seq(SessionFile) /\ DOMAIN files' = DOMAIN files
    <2>1. files \in Seq(SessionFile) /\ DOMAIN files = 1 .. Len(files)
      BY <1>0 DEF SessionOK
    <2>2. files' = [files EXCEPT ![f] = [files[f] EXCEPT !.status = "gone"]]
      BY <1>1
    <2>3. files[f] \in SessionFile
      BY <2>1
    <2>4. [files[f] EXCEPT !.status = "gone"] \in SessionFile
      BY <2>3 DEF SessionFile, Statuses
    <2>5. files' \in Seq(SessionFile) /\ Len(files') = Len(files)
      BY <2>1, <2>2, <2>4, ExceptSeq
    <2> QED
      BY <2>1, <2>5, LenProperties
  <1>4. ASSUME NEW d \in Caller PROVE Knows(d)'
    <2>1. d # None /\ Knows(d) /\ DOMAIN files \subseteq DOMAIN files'
      BY <1>3, CallsAssumption DEF SessionInv
    <2> QED
      BY <1>0, <1>2, <2>1, BystanderKnows
  <1> QED
    BY <1>0, <1>2, <1>3, <1>4 DEF SessionInv, SessionOK, WarmIsBeat

LEMMA FrameOfRest ==
  ASSUME UNCHANGED work
  PROVE  SessionFrame /\ AuditFrame /\ FilesFrame /\ VaultFrame
  BY DEF SessionFrame, AuditFrame, FilesFrame, VaultFrame

LEMMA InitHolds == Init => IInv
  <1> SUFFICES ASSUME Init PROVE IInv
    OBVIOUS
  <1>1. WorkOK /\ \A c \in Caller : work[c] = Idle /\ work[c].op = "none"
    BY DEF Init, CallsInit, WorkOK, Rest, Idle
  <1>2. SessionInv
    BY <1>1 DEF Init, SessionInit, SessionInv, SessionOK, WarmIsBeat, Knows
  <1>3. AuditInv
    <2> DEFINE line(i) ==
          <<[event |-> 0, prev |-> IF i = 1 THEN None ELSE <<0, 0>>, acks |-> {}, part |-> "whole"]>>
    <2>1. log = [i \in 1 .. Legacy + 1 |-> line(i)] /\ ended = TRUE /\ lock = None /\ torn = FALSE
      BY DEF Init, AuditInit
    <2>2. \A i \in 1 .. Legacy + 1 : line(i) \in Seq(LogPiece) /\ Len(line(i)) = 1
                                    /\ line(i)[1].part = "whole" /\ line(i)[1].acks = {}
      BY DEF LogPiece, Hash
    <2> HIDE DEF line
    <2>3. log \in Seq(Seq(LogPiece)) /\ Len(log) = Legacy + 1
      BY <2>1, <2>2, LegacyAssumption
    <2>4. \A i \in 1 .. Legacy + 1 : log[i] = line(i)
      BY <2>1
    <2>5. AuditOK
      <3>1. Len(log) >= Legacy + 1 /\ \A i \in 1 .. Len(log) : Len(log[i]) >= 1
        BY <2>2, <2>3, <2>4, LegacyAssumption
      <3>2. ended \in BOOLEAN /\ torn \in BOOLEAN /\ lock \in {None} \cup Caller
        BY <2>1
      <3> QED
        BY <2>3, <3>1, <3>2 DEF AuditOK
    <2>6. Linked
      BY <2>3, LegacyAssumption DEF Linked
    <2>7. Tidy
      <3>1. \A i \in 1 .. Len(log) : Readable(log[i])
        BY <2>2, <2>3, <2>4 DEF Readable
      <3>2. \A i \in Checked : log[i][1].acks = {}
        BY <2>1, <2>2, <2>4 DEF Checked
      <3> QED
        BY <1>1, <2>1, <3>1, <3>2 DEF Tidy, AuditOps
    <2> QED
      BY <1>1, <2>5, <2>6, <2>7 DEF AuditInv, Appending, Audits, AuditOps
  <1>4. FilesInv
    <2>1. Zero \in Counts
      BY DEF Zero, Counts
    <2>2. Zero \in FairCounts(Zero)
      BY <2>1, FairIsKept
    <2> QED
      BY <1>1, <2>1, <2>2 DEF Init, FilesInit, FilesInv, Map
  <1>5. VaultInv
    BY <1>1 DEF Init, VaultInit, VaultInv, VaultOK, OneKey, OneFounder, Founding, Opens, VaultOps
  <1> QED
    BY <1>1, <1>2, <1>3, <1>4, <1>5 DEF IInv

LEMMA NextHolds == IInv /\ [Next]_vars => IInv' /\ (KeyIsKept \/ UNCHANGED vaultVars)
  <1> SUFFICES ASSUME IInv, [Next]_vars PROVE IInv' /\ (KeyIsKept \/ UNCHANGED vaultVars)
    OBVIOUS
  <1>0. WorkOK /\ SessionInv /\ AuditInv /\ FilesInv /\ VaultInv
    BY DEF IInv
  <1>1. ASSUME NEW c \in Caller, Begin(c) PROVE IInv' /\ UNCHANGED vaultVars
    BY <1>1, BeginKeeps DEF Begin
  <1>2. ASSUME NEW c \in Caller, Work(c) PROVE IInv' /\ (KeyIsKept \/ UNCHANGED vaultVars)
    BY <1>2, WorkKeeps
  <1>3. ASSUME NEW p \in Process, Death(p) PROVE IInv' /\ UNCHANGED vaultVars
    BY <1>3, DeathKeeps
  <1>4. CASE Background
    <2>1. UNCHANGED work /\ UNCHANGED <<calls, faults>> /\ UNCHANGED sessionVars /\ UNCHANGED auditVars
          /\ UNCHANGED vaultVars
      BY <1>4 DEF Background, callVars
    <2>2. FilesInv'
      BY <1>0, <1>4, <2>1, FlushKeeps DEF Background
    <2>3. SessionInv'
      BY <1>0, <2>1 DEF sessionVars, SessionInv, SessionOK, WarmIsBeat, Knows, Mine, Path
    <2>4. AuditInv' /\ VaultInv'
      BY <1>0, <2>1, FrameOfRest, AuditAside, VaultAside
    <2> QED
      BY <1>0, <2>1, <2>2, <2>3, <2>4 DEF IInv, WorkOK
  <1>5. CASE Erase
    <2>1. UNCHANGED work /\ UNCHANGED calls /\ faults' = faults + 1 /\ UNCHANGED auditVars
          /\ UNCHANGED fileVars /\ UNCHANGED vaultVars /\ EraseFile /\ RememberCalm(None)
      BY <1>5 DEF Erase
    <2>2. AuditInv' /\ FilesInv' /\ VaultInv' /\ SessionInv'
      BY <1>0, <2>1, FrameOfRest, AuditAside, FilesAside, VaultAside, ErasingKeeps
    <2> QED
      BY <1>0, <2>1, <2>2 DEF IInv, WorkOK
  <1>6. CASE Time
    <2>1. UNCHANGED work /\ UNCHANGED <<calls, faults>> /\ UNCHANGED auditVars
          /\ UNCHANGED fileVars /\ UNCHANGED vaultVars /\ Tick
      BY <1>6 DEF Time, callVars
    <2>2. AuditInv' /\ FilesInv' /\ VaultInv' /\ SessionInv'
      BY <1>0, <2>1, FrameOfRest, AuditAside, FilesAside, VaultAside, TimePasses
    <2> QED
      BY <1>0, <2>1, <2>2 DEF IInv, WorkOK
  <1>7. CASE UNCHANGED vars
    <2>1. UNCHANGED work /\ UNCHANGED <<calls, faults>> /\ UNCHANGED sessionVars /\ UNCHANGED auditVars
          /\ UNCHANGED fileVars /\ UNCHANGED vaultVars
      BY <1>7 DEF vars, callVars
    <2>2. SessionInv'
      BY <1>0, <2>1 DEF sessionVars, SessionInv, SessionOK, WarmIsBeat, Knows, Mine, Path
    <2>3. AuditInv' /\ FilesInv' /\ VaultInv'
      BY <1>0, <2>1, FrameOfRest, AuditAside, FilesAside, VaultAside
    <2> QED
      BY <1>0, <2>1, <2>2, <2>3 DEF IInv, WorkOK
  <1> QED
    BY <1>1, <1>2, <1>3, <1>4, <1>5, <1>6, <1>7 DEF Next

LEMMA IInvHolds == Spec => []IInv
  <1>1. Init => IInv
    BY InitHolds
  <1>2. IInv /\ [Next]_vars => IInv'
    BY NextHolds
  <1> QED
    BY <1>1, <1>2, PTL DEF Spec

\* A start answers from its last two steps only, of which the first finds no pointer.
LEMMA StartAnswers ==
  ASSUME IInv, NEW c \in Caller, Work(c), work[c].op = "start", work'[c].op # "start"
  PROVE  (StartTouch(c) /\ pointer[Mine(c)] = None) \/ StartBeat(c)
  <1>1. WorkOK /\ work[c] \in StartCall
    BY Kinds DEF IInv
  <1>2. \A r \in StartCall : ~Go(c, r)
    BY <1>1 DEF Go, WorkOK, StartCall
  <1>3. \A pc \in StartPcs : ~GoTo(c, pc)
    BY <1>1, <1>2, StartGoes DEF GoTo
  <1>4. \A pc \in StartPcs, path \in {None} \cup Nat : ~GoWith(c, pc, path)
    BY <1>1, <1>2, StartGoesTo DEF GoWith
  <1>5. Mine(c) \in Agent /\ pointer[Mine(c)] \in {None} \cup Nat /\ Len(files) + 1 \in Nat
    BY <1>1 DEF StartCall, Mine, IInv, SessionInv, SessionOK
  <1>6. SessionStep(c)
    BY DEF Work, AuditStep, Reanchor, AppendLock, AppendTip, AppendLine, AppendNewline, Audits, AccessStep,
         BlockStep, Record, Consolidate, ConsolidateEnds, RekeyLoad, RekeyWrite, RekeyOwn, BlockLoad,
         BlockSave, KvLock, KvWrite, At, VaultStep, Prompt, Look, ReadSalt, MakeSalt, Load, Save, Opens
  <1>7. ~StartLook(c) /\ ~StartAge(c) /\ ~EndRead(c)
    BY <1>3, <1>4, <1>5 DEF StartLook, StartAge, EndRead, StartPcs
  <1>8. ~EndWrite(c) /\ ~EndUnpoint(c) /\ ~StartUnbeat(c)
    BY <1>3 DEF EndWrite, EndUnpoint, StartUnbeat, StartPcs
  <1>9. ~StartCreate(c) /\ ~StartPoint(c)
    BY <1>3, <1>4, <1>5 DEF StartCreate, StartPoint, StartPcs
  <1>10. ~WarmList(c) /\ ~WarmStamp(c)
    BY DEF WarmList, WarmStamp, At
  <1>11. StartTouch(c) => pointer[Mine(c)] = None
    BY <1>3 DEF StartTouch, StartPcs
  <1> QED
    BY <1>6, <1>7, <1>8, <1>9, <1>10, <1>11 DEF SessionStep

LEMMA StartLeavesActive ==
  ASSUME IInv, Next, NEW c \in Caller, work[c].op = "start", work'[c].op # "start", faults' = faults, calm[c]
  PROVE  /\ Path(c) # None /\ pointer'[Mine(c)] = Path(c) /\ beat'[Mine(c)] = clock
         /\ files'[Path(c)].agent = Mine(c) /\ files'[Path(c)].status = "active"
  <1>1. WorkOK /\ work[c] \in StartCall /\ Mine(c) \in Agent
    BY Kinds DEF IInv, StartCall, Mine
  <1>2. Work(c)
    <2>1. ASSUME NEW d \in Caller, Begin(d) PROVE FALSE
      <3>1. Alone(d) /\ work[d].op = "none"
        BY <2>1, BeginKeeps DEF Idle
      <3> QED
        BY <3>1 DEF Alone
    <2>2. ASSUME NEW d \in Caller, Work(d) PROVE d = c
      BY <2>2, WorkKeeps DEF Alone
    <2>3. ASSUME NEW p \in Process, Death(p) PROVE FALSE
      BY <2>3, DeathKeeps
    <2>4. ~Background /\ ~Erase /\ ~Time
      BY DEF Background, Erase, Time, callVars
    <2> QED
      BY <2>1, <2>2, <2>3, <2>4 DEF Next
  <1>3. Knows(c) /\ beat \in [Agent -> {None} \cup Nat]
    BY DEF IInv, SessionInv, SessionOK
  <1>4. DOMAIN files = 1 .. Len(files)
    BY LenProperties DEF IInv, SessionInv, SessionOK
  <1>5. CASE StartTouch(c) /\ pointer[Mine(c)] = None
    <2>1. pointer[Mine(c)] = Path(c) /\ Path(c) \in DOMAIN files
      BY <1>3, <1>5 DEF Knows, StartTouch, At
    <2>2. Path(c) # None
      BY <1>4, <2>1, CallsAssumption
    <2> QED
      BY <1>5, <2>1, <2>2
  <1>6. CASE StartBeat(c)
    <2>1. /\ pointer[Mine(c)] = Path(c) /\ Path(c) \in DOMAIN files
          /\ files[Path(c)].agent = Mine(c) /\ files[Path(c)].status = "active"
      BY <1>3, <1>6 DEF Knows, StartBeat, At
    <2>2. Path(c) # None
      BY <1>4, <2>1, CallsAssumption
    <2>3. UNCHANGED <<files, pointer>> /\ beat' = [beat EXCEPT ![Mine(c)] = clock]
      BY <1>6 DEF StartBeat, Stamp
    <2> QED
      BY <1>1, <1>3, <2>1, <2>2, <2>3
  <1> QED
    BY <1>2, <1>5, <1>6, StartAnswers

-----------------------------------------------------------------------------
(* Theorems.                                                               *)

\* However many processes append at once and wherever one dies within a line:
\* the breaks of the log are those from before the lock.
THEOREM NoNewBreakHolds == Spec => []NoNewBreak
  <1>1. IInv => NoNewBreak
    BY NothingNewBroken DEF IInv, AuditInv
  <1> QED
    BY <1>1, IInvHolds, PTL

\* A reanchor leaves no break unexplained until a line is torn, whoever
\* appended between its verification and its line.
THEOREM ReanchorSettlesHolds == Spec => []ReanchorSettles
  <1>1. IInv => ReanchorSettles
    BY DEF IInv, AuditInv, Tidy, ReanchorSettles
  <1> QED
    BY <1>1, IInvHolds, PTL

\* However many processes tally, flush and move ids, and wherever they die, the
\* journal counts no access that was not made.
THEOREM NoAccessInventedHolds == Spec => []NoAccessInvented
  <1>1. IInv => NoAccessInvented
    BY DEF IInv, FilesInv, FairCounts, NoAccessInvented
  <1> QED
    BY <1>1, IInvHolds, PTL

\* A vault that two commands did not found at once keeps its key and its salt.
THEOREM VaultKeepsItsKeyHolds == Spec => VaultKeepsItsKey
  <1>1. IInv /\ [Next]_vars => [KeyIsKept]_<<vaultVars>>
    BY NextHolds
  <1>2. KeyIsKept <=> (~raced' /\ vault # None => vault' # None /\ vault'.key = vault.key /\ salt' = vault.key.salt)
    BY DEF KeyIsKept
  <1> QED
    BY <1>1, <1>2, IInvHolds, PTL DEF Spec, VaultKeepsItsKey, KeyIsKept

\* What an undisturbed recovery read of the heartbeat is what it closes by.
THEOREM LiveIsNotClosedHolds == Spec => LiveIsNotClosed
  <1> DEFINE Closing ==
        \A c \in Caller :
          At(c, "start", "write") /\ work'[c].pc = "unpoint" /\ calm[c] /\ warm[Mine(c)] # None
          => clock - warm[Mine(c)] >= IdleTicks
  <1>1. IInv => Closing
    <2> SUFFICES ASSUME IInv, NEW c \in Caller, At(c, "start", "write"), calm[c], warm[Mine(c)] # None
                 PROVE  clock - warm[Mine(c)] >= IdleTicks
      OBVIOUS
    <2>1. Mine(c) \in Agent
      BY Kinds DEF IInv, At, StartCall, Mine
    <2>2. beat[Mine(c)] = warm[Mine(c)] /\ Knows(c)
      BY <2>1 DEF IInv, SessionInv, WarmIsBeat
    <2> QED
      BY <2>2 DEF Knows, At
  <1> QED
    BY <1>1, IInvHolds, PTL DEF Spec, LiveIsNotClosed

\* An undisturbed start leaves its agent with the one session it made, touched.
THEOREM StartIsActiveHolds == Spec => StartIsActive
  <1> DEFINE Started ==
        \A c \in Caller :
          work[c].op = "start" /\ work'[c].op # "start" /\ faults' = faults /\ calm[c]
          => /\ Path(c) # None /\ pointer'[Mine(c)] = Path(c) /\ beat'[Mine(c)] = clock
             /\ files'[Path(c)].agent = Mine(c) /\ files'[Path(c)].status = "active"
  <1>1. IInv /\ [Next]_vars => [Started]_<<files, work>>
    <2>1. IInv /\ Next => Started
      BY StartLeavesActive
    <2>2. UNCHANGED vars => UNCHANGED <<files, work>>
      BY DEF vars, callVars, sessionVars
    <2> QED
      BY <2>1, <2>2
  <1> QED
    BY <1>1, IInvHolds, PTL DEF Spec, StartIsActive

=============================================================================
