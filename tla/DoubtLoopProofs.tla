-------------------------- MODULE DoubtLoopProofs --------------------------
(***************************************************************************)
(* Theorems about DoubtLoop, for any number of servers, tasks, memories    *)
(* and facts, any bound and every fault.                                   *)
(***************************************************************************)
EXTENDS DoubtLoop, FiniteSetTheorems, TLAPS

-----------------------------------------------------------------------------
(* The busy flag.                                                          *)

\* The flag of a server is up exactly while it is in a call.
BusyInCall ==
  /\ busy \in [Server -> BOOLEAN]
  /\ DOMAIN call = Caller
  /\ \A s \in Server : busy[s] <=> call[s] # Idle

\* A call that begins raises its server's flag and no other.
LEMMA BeginKeeps ==
  ASSUME BusyInCall, NEW c \in Caller, NEW record, record # Idle, Begin(c, record)
  PROVE  BusyInCall'
  BY DEF BusyInCall, Begin, Caller

\* A call goes on under the flag it raised.
LEMMA GotoKeeps ==
  ASSUME BusyInCall, NEW c \in Caller, NEW record, record # Idle, call[c] # Idle,
         Goto(c, record)
  PROVE  BusyInCall'
  BY DEF BusyInCall, Goto, Caller

\* A call that ends lowers it.
LEMMA ReturnKeeps ==
  ASSUME BusyInCall, NEW c \in Caller, Return(c)
  PROVE  BusyInCall'
  BY DEF BusyInCall, Return, Caller

LEMMA BusyInit == DoubtInit => BusyInCall
  BY DEF DoubtInit, Init, BusyInCall, Caller

\* Every step keeps the flag in line with the calls.
LEMMA BusyStep == BusyInCall /\ [Next]_vars => BusyInCall'
  <1> SUFFICES ASSUME BusyInCall, [Next]_vars PROVE BusyInCall'
    OBVIOUS
  <1>1. CASE UNCHANGED vars
    BY <1>1 DEF vars, outcomeVars, BusyInCall
  <1>2. CASE OutcomeNext /\ Beside
    <2>1. ASSUME NEW s \in Server, NEW m \in Memory, NEW k \in Key, NEW ok \in BOOLEAN,
                 PostBegin(s, m, k, ok)
          PROVE  BusyInCall'
      BY <2>1, BeginKeeps DEF PostBegin, Idle, Caller
    <2>2. ASSUME NEW s \in Server, NEW m \in Memory, NEW worked \in BOOLEAN,
                 OutcomeBegin(s, m, worked)
          PROVE  BusyInCall'
      BY <2>2, BeginKeeps DEF OutcomeBegin, Idle, Caller
    <2>3. ASSUME NEW s \in Server, PostRead(s) PROVE BusyInCall'
      BY <2>3, GotoKeeps DEF PostRead, Idle, Caller
    <2>4. ASSUME NEW s \in Server, PostWrite(s) PROVE BusyInCall'
      BY <2>4, GotoKeeps, ReturnKeeps DEF PostWrite, Idle, Caller
    <2>5. ASSUME NEW s \in Server, StatsRead(s) PROVE BusyInCall'
      BY <2>5, GotoKeeps DEF StatsRead, Idle, Caller
    <2>6. ASSUME NEW s \in Server, StatsWrite(s) PROVE BusyInCall'
      BY <2>6, ReturnKeeps DEF StatsWrite, Caller
    <2>7. ASSUME NEW s \in Server, PostMisread(s) PROVE BusyInCall'
      BY <2>7, GotoKeeps DEF PostMisread, Idle, Caller
    <2>8. ASSUME NEW s \in Server, StatsMisread(s) PROVE BusyInCall'
      BY <2>8, GotoKeeps DEF StatsMisread, Idle, Caller
    <2>9. ASSUME NEW s \in Server, ProcedureMisread(s) PROVE BusyInCall'
      BY <2>9, ReturnKeeps DEF ProcedureMisread, Caller
    <2>10. ASSUME NEW m \in Memory, NEW k \in Key, Lapse(m, k) PROVE BusyInCall'
      BY <2>10 DEF Lapse, BusyInCall
    <2>11. ASSUME NEW c \in Caller, Abort(c) PROVE BusyInCall'
      BY <2>11, ReturnKeeps DEF Abort
    <2> QED
      BY <1>2, <2>1, <2>2, <2>3, <2>4, <2>5, <2>6, <2>7, <2>8, <2>9, <2>10, <2>11
         DEF OutcomeNext, Answer
  <1>3. ASSUME NEW s \in Server, LoopStep(s) PROVE BusyInCall'
    BY <1>3 DEF LoopStep, Wake, TopUp, Take, TickEnds, CutShort, RetestScore, RetestJudge, Judge,
      RetestMove, RetestStore, RetestMemory, RetestMemoryFails, outcomeVars, BusyInCall
  <1>4. ASSUME NEW s \in Server, TopUpFails(s) \/ RetestMisread(s) \/ RetestMisjudge(s) \/ RetestFails(s)
        PROVE  BusyInCall'
    BY <1>4 DEF TopUpFails, RetestMisread, RetestMisjudge, Judge, RetestFails, BusyInCall
  <1>5. ASSUME NEW c \in Caller, NEW prior, NEW drifted \in BOOLEAN,
               QueryRead(c, prior, drifted)
        PROVE  BusyInCall'
    BY <1>5, GotoKeeps, ReturnKeeps DEF QueryRead, Idle
  <1>6. ASSUME NEW c \in Caller, QueryWrite(c) PROVE BusyInCall'
    BY <1>6, ReturnKeeps DEF QueryWrite
  <1>7. ASSUME NEW c \in Caller, NEW f \in Fact, QueryBegin(c, f) PROVE BusyInCall'
    BY <1>7, BeginKeeps DEF QueryBegin, Idle
  <1>8. ASSUME NEW c \in Caller, NEW f \in Fact, Reassert(c, f) PROVE BusyInCall'
    BY <1>8 DEF Reassert, BusyInCall
  <1>9. ASSUME NEW f \in Fact, NEW n \in Dependants, BackfillDependants(f, n)
        PROVE  BusyInCall'
    BY <1>9 DEF BackfillDependants, BusyInCall
  <1>10. ASSUME NEW s \in Server, NEW F \in SUBSET Fact, Briefing(s, F) PROVE BusyInCall'
    BY <1>10 DEF Briefing, BusyInCall
  <1>11. ASSUME NEW s \in Server, SessionEnd(s) PROVE BusyInCall'
    BY <1>11 DEF SessionEnd, outcomeVars, BusyInCall
  <1>12. ASSUME NEW s \in Server, Crash(s) PROVE BusyInCall'
    BY <1>12 DEF Crash, BusyInCall, Caller
  <1> QED
    BY <1>1, <1>2, <1>3, <1>4, <1>5, <1>6, <1>7, <1>8, <1>9, <1>10, <1>11, <1>12
       DEF Next, QueryStep, QueryMisread

\* A server's busy flag is up exactly while it answers a call: however calls
\* end, by an error, a panic or the death of the process, none leaves it
\* raised, and none lowers it under another call.  (doubt.rs, BusyGuard.)
THEOREM BusyMatches == Spec => []BusyInCall
  BY BusyInit, BusyStep, PTL DEF Spec

-----------------------------------------------------------------------------
(* The loop yields to calls.                                               *)

LoopShape == loop = [s \in Server |-> loop[s]]

LEMMA ShapeStep == LoopShape /\ [Next]_vars => LoopShape'
  BY DEF LoopShape, Next, LoopStep, QueryStep, Beside, GoLoop, Wake, TopUp, Take, TickEnds,
    CutShort, RetestScore, RetestJudge, Judge, RetestMove, RetestStore, RetestMemory,
    RetestMemoryFails, TopUpFails, RetestMisread, RetestMisjudge, RetestFails, QueryRead, QueryWrite,
    QueryBegin, QueryMisread, Reassert, BackfillDependants, Briefing, SessionEnd, Crash,
    vars, loopVars

\* A step of the loop that goes elsewhere begins no re-test.
LEMMA GoLoopElsewhere ==
  ASSUME LoopShape, NEW s \in Server, NEW t \in Server, NEW record,
         record.pc # "score", GoLoop(t, record), loop'[s].pc = "score"
  PROVE  loop'[s] = loop[s]
  BY DEF LoopShape, GoLoop

\* Only Take begins a re-test, and it looks at the flag.
LEMMA YieldStep ==
  ASSUME BusyInCall, LoopShape, [Next]_vars, NEW s \in Server,
         loop'[s].pc = "score", loop[s].pc # "score"
  PROVE  call[s] = Idle
  <1>1. loop'[s] # loop[s]
    OBVIOUS
  <1>2. PICK t \in Server : LoopStep(t) \/ TopUpFails(t) \/ RetestMisread(t) \/ RetestMisjudge(t)
                             \/ RetestFails(t) \/ Crash(t)
    BY <1>1 DEF Next, QueryStep, Beside, QueryRead, QueryWrite, QueryBegin, QueryMisread,
      Reassert, BackfillDependants, Briefing, SessionEnd, vars, loopVars
  <1>3. ~(TopUpFails(t) \/ RetestMisread(t) \/ RetestMisjudge(t) \/ RetestFails(t) \/ Crash(t))
    <2>1. ~(TopUpFails(t) \/ RetestFails(t))
      BY <1>1 DEF TopUpFails, RetestFails, GoLoop, LoopShape
    <2>2. ~RetestMisread(t)
      BY <1>1 DEF RetestMisread, GoLoop, LoopShape
    <2>4. ~RetestMisjudge(t)
      BY <1>1, GoLoopElsewhere DEF RetestMisjudge, Judge
    <2>3. ~Crash(t)
      BY <1>1 DEF Crash, GoLoop, LoopShape, Asleep
    <2> QED
      BY <2>1, <2>2, <2>3, <2>4
  <1>4. Take(t)
    <2>1. ~(Wake(t) \/ TopUp(t))
      BY <1>1, GoLoopElsewhere DEF Wake, TopUp
    <2>2. ~(TickEnds(t) \/ CutShort(t))
      BY <1>1, GoLoopElsewhere DEF TickEnds, CutShort, Asleep
    <2>3. ~(RetestScore(t) \/ RetestMove(t) \/ RetestStore(t))
      BY <1>1, GoLoopElsewhere DEF RetestScore, RetestMove, RetestStore
    <2>4. ~RetestJudge(t)
      BY <1>1, GoLoopElsewhere DEF RetestJudge, Judge
    <2>5. ~(RetestMemory(t) \/ RetestMemoryFails(t))
      BY <1>1, GoLoopElsewhere DEF RetestMemory, RetestMemoryFails
    <2> QED
      BY <1>2, <1>3, <2>1, <2>2, <2>3, <2>4, <2>5 DEF LoopStep
  <1>5. t = s
    BY <1>1, <1>4 DEF Take, GoLoop, LoopShape
  <1> QED
    BY <1>4, <1>5 DEF Take, BusyInCall

\* No re-test begins while a call of the loop's process is in flight, and a call
\* that ended, however it ended, does not hold the loop back.  (doubt.rs,
\* guarantee (a), between the ids of a tick.)
THEOREM Yields == Spec => YieldsToCalls
  <1>1. BusyInCall /\ LoopShape /\ [Next]_vars
          => [\A s \in Server :
                loop'[s].pc = "score" /\ loop[s].pc # "score" => call[s] = Idle]_vars
    BY YieldStep
  <1>2. DoubtInit => LoopShape
    BY DEF DoubtInit, LoopShape
  <1> QED
    BY <1>1, <1>2, BusyInit, BusyStep, ShapeStep, PTL DEF Spec, YieldsToCalls

-----------------------------------------------------------------------------
(* The interval.                                                           *)

CadenceOK == cadence \in [Server -> CadenceMin .. 2 * CadenceMax]

LEMMA NextCadenceBound ==
  ASSUME NEW p \in CadenceMin .. 2 * CadenceMax, NEW n, NEW load \in {1, 2}
  PROVE  load * NextCadence(p, n) \in CadenceMin .. 2 * CadenceMax
  <1>1. CadenceMin \in Nat /\ CadenceMax \in Nat /\ CadenceMin <= CadenceMax
    BY DoubtLoopAssumption
  <1>2. NextCadence(p, n) \in CadenceMin .. CadenceMax
    BY <1>1 DEF NextCadence
  <1> QED
    BY <1>1, <1>2

LEMMA CadenceStep == CadenceOK /\ [Next]_vars => CadenceOK'
  <1> SUFFICES ASSUME CadenceOK, [Next]_vars PROVE CadenceOK'
    OBVIOUS
  <1>1. ASSUME NEW s \in Server, Wake(s) PROVE CadenceOK'
    BY <1>1, NextCadenceBound DEF Wake, CadenceOK
  <1>2. ASSUME NEW s \in Server, Crash(s) PROVE CadenceOK'
    <2>1. CadenceDefault \in CadenceMin .. 2 * CadenceMax
      BY DoubtLoopAssumption
    <2> QED
      BY <1>2, <2>1 DEF Crash, CadenceOK
  <1>3. (\E s \in Server : Wake(s) \/ Crash(s)) \/ cadence' = cadence
    BY DEF Next, LoopStep, QueryStep, Beside, TopUp, Take, TickEnds,
      CutShort, RetestScore, RetestJudge, Judge, RetestMove, RetestStore, RetestMemory,
      RetestMemoryFails, TopUpFails, RetestMisread, RetestMisjudge, RetestFails, QueryRead, QueryWrite,
      QueryBegin, QueryMisread, Reassert, BackfillDependants, Briefing, SessionEnd,
      vars, loopVars
  <1> QED
    BY <1>1, <1>2, <1>3 DEF CadenceOK

\* Whatever the sequence of edits, loads and crashes, the interval stays
\* between the floor and twice the cap.  (doubt.rs, guarantee (c).)
THEOREM CadenceBounded == Spec => []CadenceInRange
  <1>1. DoubtInit => CadenceOK
    BY DoubtLoopAssumption DEF DoubtInit, CadenceOK
  <1>2. CadenceOK => CadenceInRange
    BY DEF CadenceOK, CadenceInRange
  <1> QED
    BY <1>1, <1>2, CadenceStep, PTL DEF Spec

-----------------------------------------------------------------------------
(* Counting once.  A signal is counted in two steps, and the log and the   *)
(* row are each read and then written back whole: one call at a time may   *)
(* be between a read and its write.                                        *)

Reporting == {"log", "stats", "bump"}
OneReports ==
  \A s \in Server, t \in Server : call[s].pc \in Reporting /\ call[t].pc \in Reporting => s = t

\* What the counters have, what was recorded by hand, what the log shows.
Counted(row) == row.success + row.fail
Shows(entries) == {k \in ProcedureKey : entries[k].verdict # "none"}

\* A signal in the log that the call has yet to count.
Owes(c, m) == c.pc \in {"stats", "bump"} /\ c.byHand = FALSE /\ c.id = m
Owed(m) == IF \E s \in Server : Owes(call[s], m) THEN 1 ELSE 0

CallOK(c) == c.pc \in Reporting \cup {"post"} => c \in OutcomeCall
CountTyped ==
  /\ log \in [Memory -> [Key -> Entry]]
  /\ stats \in [Memory -> Stats]
  /\ manual \in [Memory -> Nat]
  /\ clock \in Nat
  /\ call = [c \in Caller |-> call[c]]
  /\ \A c \in Caller : CallOK(call[c])
  /\ \A m \in Memory : IsFiniteSet(Shows(log[m]))

\* What a call has read still holds: the row counts no less than when it was
\* read, and the log shows the same signals, unless it was misread.
ReadHolds(c) ==
  /\ c.pc = "bump" => Counted(c.cur) <= Counted(stats[c.id])
  /\ c.pc = "log" => IsFiniteSet(Shows(c.seen))
  /\ c.pc = "log" /\ c.id \notin erased => Shows(c.seen) = Shows(log[c.id])
                                           /\ \A k \in Key : c.seen[k].verdict = "none" <=> log[c.id][k].verdict = "none"

Balanced(m) == Counted(stats[m]) + Owed(m) <= manual[m] + Cardinality(Shows(log[m]))

NInv ==
  /\ CountTyped
  /\ \A s \in Server : ReadHolds(call[s])
  /\ \A m \in Memory \ erased : Balanced(m)

LEMMA CallShape ==
  ASSUME NEW c, CallOK(c)
  PROVE  /\ c.pc = "post" => c \in Signal
         /\ c.pc = "log" => c \in Logging
         /\ c.pc = "stats" => c \in Bumping
         /\ c.pc = "bump" => c \in Counting
  <1>1. Idle.pc = "idle"
    BY DEF Idle
  <1>2. \A d \in Signal : d.pc = "post"
    BY DEF Signal
  <1>3. \A d \in Logging : d.pc = "log"
    BY DEF Logging
  <1>4. \A d \in Bumping : d.pc = "stats"
    BY DEF Bumping
  <1>5. \A d \in Counting : d.pc = "bump"
    BY DEF Counting
  <1> QED
    BY <1>1, <1>2, <1>3, <1>4, <1>5 DEF CallOK, OutcomeCall, Reporting

LEMMA CountInit == DoubtInit => NInv
  <1> SUFFICES ASSUME DoubtInit PROVE NInv
    OBVIOUS
  <1>1. \A m \in Memory : Shows(log[m]) = {}
    BY OutcomesAssumption DEF DoubtInit, Init, Shows, NoEntry
  <1>2. CountTyped
    BY <1>1, FS_EmptySet DEF DoubtInit, Init, CountTyped, CallOK, Idle, OutcomeCall, Reporting,
       Entry, NoEntry, Verdict, Stats, NoStats
  <1>3. \A s \in Server : call[s].pc = "idle"
    BY DEF DoubtInit, Init, Idle, Caller
  <1>4. \A m \in Memory : Balanced(m)
    <2> SUFFICES ASSUME NEW m \in Memory PROVE Balanced(m)
      OBVIOUS
    <2>1. Owed(m) = 0
      BY <1>3 DEF Owed, Owes
    <2>2. Counted(stats[m]) = 0 /\ manual[m] = 0
      BY DEF DoubtInit, Init, NoStats, Counted
    <2>3. Cardinality(Shows(log[m])) = 0
      BY <1>1, FS_EmptySet
    <2> QED
      BY <2>1, <2>2, <2>3 DEF Balanced
  <1> QED
    BY <1>2, <1>3, <1>4 DEF NInv, ReadHolds

\* A call begins, ends or goes on with nothing in hand that counts.
LEMMA TurnKeeps ==
  ASSUME NInv, NEW c \in Caller, NEW r, CallOK(r), r.pc \notin {"log", "bump"},
         r.pc = "stats" => r.byHand,
         call' = [call EXCEPT ![c] = r], clock' \in Nat,
         UNCHANGED <<log, stats, manual, erased>>
  PROVE  NInv'
  <1>1. \A d \in Caller : call'[d] = IF d = c THEN r ELSE call[d]
    BY DEF NInv, CountTyped
  <1>2. CountTyped'
    BY <1>1 DEF NInv, CountTyped, CallOK, Shows
  <1>3. \A s \in Server : ReadHolds(call[s])'
    BY <1>1 DEF NInv, ReadHolds, Shows, Counted, Caller
  <1>4. ASSUME NEW m \in Memory \ erased' PROVE Balanced(m)'
    <2>1. Owed(m)' <= Owed(m)
      BY <1>1 DEF Owed, Owes, Caller
    <2>2. Owed(m) \in Nat /\ Owed(m)' \in Nat
      BY DEF Owed
    <2>3. Balanced(m)
      BY DEF NInv
    <2>4. Counted(stats[m]) \in Nat /\ manual[m] \in Nat /\ Cardinality(Shows(log[m])) \in Nat
      BY FS_CardinalityType DEF NInv, CountTyped, Counted, Stats
    <2>5. Counted(stats[m])' = Counted(stats[m]) /\ Shows(log[m])' = Shows(log[m]) /\ manual'[m] = manual[m]
      BY DEF Counted, Shows
    <2> QED
      BY <2>1, <2>2, <2>3, <2>4, <2>5 DEF Balanced
  <1> QED
    BY <1>2, <1>3, <1>4 DEF NInv

\* A call that reads the log or the row: nobody else is at one.
LEMMA ReadKeeps ==
  ASSUME NInv, NEW s \in Server, NEW r, CallOK(r),
         r.pc \in {"log", "bump"},
         \A m : Owes(r, m) => Owes(call[s], m),
         r.pc = "bump" => Counted(r.cur) <= Counted(stats[r.id]),
         r.pc = "log" => IsFiniteSet(Shows(r.seen)),
         r.pc = "log" /\ r.id \notin erased' => r.seen = log[r.id],
         Goto(s, r), UNCHANGED <<log, stats, manual>>, erased \subseteq erased'
  PROVE  NInv'
  <1>1. \A d \in Caller : call'[d] = IF d = s THEN r ELSE call[d]
    BY DEF NInv, CountTyped, Goto, Caller
  <1>2. CountTyped'
    BY <1>1 DEF NInv, CountTyped, CallOK, Shows, Goto, Caller
  <1>3. \A t \in Server : ReadHolds(call[t])'
    <2> SUFFICES ASSUME NEW t \in Server PROVE ReadHolds(call[t])'
      OBVIOUS
    <2>1. CASE t = s
      BY <1>1, <2>1 DEF ReadHolds, Counted, Shows, Caller
    <2>2. CASE t # s
      <3>1. call'[t] = call[t] /\ ReadHolds(call[t])
        BY <1>1, <2>2 DEF NInv, Caller
      <3> QED
        BY <3>1 DEF ReadHolds, Counted, Shows
    <2> QED
      BY <2>1, <2>2
  <1>4. ASSUME NEW m \in Memory \ erased' PROVE Balanced(m)'
    <2>1. Owed(m)' <= Owed(m)
      BY <1>1 DEF Owed, Owes, Caller
    <2>2. Owed(m) \in Nat /\ Owed(m)' \in Nat
      BY DEF Owed
    <2>3. Balanced(m)
      BY DEF NInv
    <2>4. Counted(stats[m]) \in Nat /\ manual[m] \in Nat /\ Cardinality(Shows(log[m])) \in Nat
      BY FS_CardinalityType DEF NInv, CountTyped, Counted, Stats
    <2>5. Counted(stats[m])' = Counted(stats[m]) /\ Shows(log[m])' = Shows(log[m]) /\ manual'[m] = manual[m]
      BY DEF Counted, Shows
    <2> QED
      BY <2>1, <2>2, <2>3, <2>4, <2>5 DEF Balanced
  <1> QED
    BY <1>2, <1>3, <1>4 DEF NInv

\* A failure lapses: it still shows.
LEMMA LapseKeeps ==
  ASSUME NInv, NEW n \in Memory, NEW k \in Key, Lapse(n, k)
  PROVE  NInv'
  <1>1. /\ log' = [log EXCEPT ![n] = [log[n] EXCEPT ![k] = [log[n][k] EXCEPT !.verdict = "lapsed"]]]
        /\ log[n][k].verdict = "fail" /\ UNCHANGED <<stats, call, clock, manual, erased>>
    BY DEF Lapse, history
  <1>2. log[n] \in [Key -> Entry] /\ log[n][k] \in Entry
    BY DEF NInv, CountTyped
  <1>3. [log[n][k] EXCEPT !.verdict = "lapsed"] \in Entry
    BY <1>2 DEF Entry, Verdict
  <1>4. log' \in [Memory -> [Key -> Entry]]
    BY <1>1, <1>2, <1>3 DEF NInv, CountTyped
  <1>5. \A m \in Memory, j \in Key : log'[m][j].verdict = "none" <=> log[m][j].verdict = "none"
    <2> SUFFICES ASSUME NEW m \in Memory, NEW j \in Key
                 PROVE  log'[m][j].verdict = "none" <=> log[m][j].verdict = "none"
      OBVIOUS
    <2>1. CASE m = n /\ j = k
      <3>1. log'[n][k] = [log[n][k] EXCEPT !.verdict = "lapsed"]
        BY <1>1, <1>2 DEF NInv, CountTyped
      <3>2. log'[n][k].verdict = "lapsed"
        BY <1>2, <3>1 DEF Entry
      <3> QED
        BY <1>1, <2>1, <3>2
    <2>2. CASE ~(m = n /\ j = k)
      BY <1>1, <1>2, <2>2 DEF NInv, CountTyped
    <2> QED
      BY <2>1, <2>2
  <1>6. \A m \in Memory : Shows(log'[m]) = Shows(log[m])
    BY <1>5, OutcomesAssumption DEF Shows
  <1>7. CountTyped'
    BY <1>1, <1>4, <1>6 DEF NInv, CountTyped, CallOK
  <1>8. \A s \in Server : ReadHolds(call[s])'
    <2> SUFFICES ASSUME NEW s \in Server PROVE ReadHolds(call[s])'
      OBVIOUS
    <2>1. ReadHolds(call[s]) /\ call'[s] = call[s] /\ stats' = stats /\ erased' = erased
      BY <1>1 DEF NInv
    <2>2. call[s].pc = "log" => call[s].id \in Memory
      <3>1. CallOK(call[s])
        BY DEF NInv, CountTyped, Caller
      <3> QED
        BY <3>1, CallShape DEF Logging
    <2> QED
      BY <1>5, <1>6, <2>1, <2>2 DEF ReadHolds
  <1>9. ASSUME NEW m \in Memory \ erased' PROVE Balanced(m)'
    BY <1>1, <1>6, <1>9 DEF NInv, Balanced, Owed, Counted
  <1> QED
    BY <1>7, <1>8, <1>9 DEF NInv

\* The log is written back: a new signal shows, and is owed to the counters if
\* the call goes on to them.
LEMMA DedupedShows ==
  ASSUME NEW c \in Logging
  PROVE  /\ Deduped(c) \in [Key -> Entry]
         /\ \A k \in Key : Deduped(c)[k].verdict = "none" <=> c.seen[k].verdict = "none" /\ k # c.key
         /\ Shows(c.seen) \subseteq Shows(Deduped(c))
         /\ Shows(Deduped(c)) \subseteq Shows(c.seen) \cup {c.key}
         /\ c.key \in ProcedureKey => c.key \in Shows(Deduped(c))
  <1> DEFINE e == [verdict |-> IF c.ok THEN "pass" ELSE "fail", ts |-> c.ts]
  <1>1. c.seen \in [Key -> Entry] /\ c.key \in Key /\ c.ts \in Nat
    BY DEF Logging
  <1>2. e \in Entry /\ e.verdict # "none"
    BY <1>1 DEF Entry, Verdict
  <1> HIDE DEF e
  <1>3. CASE c.seen[c.key].verdict # "none" /\ c.seen[c.key].ts >= c.ts
    <2>1. Deduped(c) = c.seen
      BY <1>3 DEF Deduped
    <2> QED
      BY <1>1, <1>3, <2>1 DEF Shows
  <1>4. CASE ~(c.seen[c.key].verdict # "none" /\ c.seen[c.key].ts >= c.ts)
    <2>1. Deduped(c) = [c.seen EXCEPT ![c.key] = e]
      BY <1>4 DEF Deduped, e
    <2>2. \A k \in Key : Deduped(c)[k] = IF k = c.key THEN e ELSE c.seen[k]
      BY <1>1, <2>1
    <2>3. Deduped(c) \in [Key -> Entry]
      BY <1>1, <1>2, <2>1
    <2> QED
      BY <1>1, <1>2, <2>2, <2>3, OutcomesAssumption DEF Shows
  <1> QED
    BY <1>3, <1>4

LEMMA PostWriteKeeps ==
  ASSUME NInv, OneReports, NEW s \in Server, PostWrite(s)
  PROVE  NInv'
  <1> DEFINE c == call[s]
  <1>1. c \in Logging /\ c.pc = "log" /\ c.id \in Memory /\ c.key \in Key /\ s \in Caller
    <2>1. CallOK(c) /\ c.pc = "log"
      BY DEF PostWrite, NInv, CountTyped, Caller
    <2> QED
      BY <2>1, CallShape DEF Logging, Caller
  <1>2. PICK r : /\ call' = [call EXCEPT ![s] = r]
                 /\ r = IF Bridged(c)
                        THEN [pc |-> "stats", id |-> c.id, worked |-> c.ok, verify |-> c.ok, byHand |-> FALSE]
                        ELSE Idle
    BY DEF PostWrite, Goto, Return
  <1>3. log' = [log EXCEPT ![c.id] = Deduped(c)] /\ UNCHANGED <<stats, manual, erased, clock>>
    BY DEF PostWrite, Goto, Return, history
  <1>4. CallOK(r) /\ r.pc \in {"stats", "idle"}
    BY <1>1, <1>2 DEF CallOK, OutcomeCall, Logging, Bumping, Idle, Reporting
  <1>5. \A d \in Caller : call'[d] = IF d = s THEN r ELSE call[d]
    BY <1>1, <1>2 DEF NInv, CountTyped
  <1>6. \A t \in Server : t # s => call'[t] = call[t] /\ call[t].pc \notin Reporting
    BY <1>1, <1>5 DEF OneReports, Reporting, Caller
  <1>7. \A m \in Memory : log'[m] = IF m = c.id THEN Deduped(c) ELSE log[m]
    BY <1>3 DEF NInv, CountTyped
  <1> HIDE DEF c
  <1>8. /\ IsFiniteSet(Shows(Deduped(c)))
        /\ Cardinality(Shows(c.seen)) \in Nat /\ Cardinality(Shows(Deduped(c))) \in Nat
        /\ Cardinality(Shows(c.seen)) <= Cardinality(Shows(Deduped(c)))
        /\ Bridged(c) => Cardinality(Shows(Deduped(c))) = Cardinality(Shows(c.seen)) + 1
    <2>1. IsFiniteSet(Shows(c.seen))
      BY <1>1 DEF NInv, ReadHolds, c
    <2>2. IsFiniteSet(Shows(c.seen) \cup {c.key})
      BY <2>1, FS_AddElement
    <2>3. IsFiniteSet(Shows(Deduped(c)))
      BY <1>1, <2>2, DedupedShows, FS_Subset
    <2>4. Cardinality(Shows(c.seen)) <= Cardinality(Shows(Deduped(c)))
      BY <1>1, <2>3, DedupedShows, FS_Subset
    <2>5. ASSUME Bridged(c) PROVE Cardinality(Shows(Deduped(c))) = Cardinality(Shows(c.seen)) + 1
      <3>1. Shows(Deduped(c)) = Shows(c.seen) \cup {c.key}
        BY <1>1, <2>5, DedupedShows DEF Bridged
      <3>2. c.key \notin Shows(c.seen)
        BY <2>5 DEF Bridged, Shows
      <3> QED
        BY <2>1, <3>1, <3>2, FS_AddElement
    <2> QED
      BY <2>1, <2>3, <2>4, <2>5, FS_CardinalityType
  <1>9. CountTyped'
    <2>1. log' \in [Memory -> [Key -> Entry]]
      BY <1>1, <1>3, DedupedShows DEF NInv, CountTyped
    <2>2. \A m \in Memory : IsFiniteSet(Shows(log'[m]))
      BY <1>7, <1>8 DEF NInv, CountTyped
    <2>3. \A d \in Caller : CallOK(call'[d])
      BY <1>4, <1>5 DEF NInv, CountTyped
    <2>4. call' = [d \in Caller |-> call'[d]]
      BY <1>1, <1>2 DEF NInv, CountTyped
    <2> QED
      BY <1>3, <2>1, <2>2, <2>3, <2>4 DEF NInv, CountTyped, CallOK, Shows
  <1>10. \A t \in Server : ReadHolds(call[t])'
    BY <1>4, <1>5, <1>6 DEF ReadHolds, Reporting, Caller
  <1>11. ASSUME NEW m \in Memory \ erased' PROVE Balanced(m)'
    <2>1. Balanced(m) /\ stats' = stats /\ manual' = manual /\ m \notin erased
      BY <1>3 DEF NInv
    <2>2. Counted(stats[m]) \in Nat /\ manual[m] \in Nat /\ Cardinality(Shows(log[m])) \in Nat
      BY FS_CardinalityType DEF NInv, CountTyped, Counted, Stats
    <2>3. Owed(m) \in {0, 1} /\ Owed(m)' \in {0, 1}
      BY DEF Owed
    <2>4. \A t \in Server : Owes(call'[t], m) => t = s /\ Owes(r, m)
      BY <1>5, <1>6 DEF Owes, Reporting, Caller
    <2>5. Owed(m)' = 1 => Bridged(c) /\ m = c.id
      <3>1. Owes(r, m) => Bridged(c) /\ m = c.id
        BY <1>2 DEF Owes, Idle
      <3> QED
        BY <2>4, <3>1 DEF Owed
    <2>6. CASE m = c.id
      <3>1. Shows(c.seen) = Shows(log[m])
        BY <1>1, <2>1, <2>6 DEF NInv, ReadHolds, c
      <3>2. Shows(log'[m]) = Shows(Deduped(c))
        BY <1>7, <2>6
      <3> QED
        BY <1>8, <2>1, <2>2, <2>3, <2>5, <3>1, <3>2 DEF Balanced
    <2>7. CASE m # c.id
      BY <1>7, <2>1, <2>2, <2>3, <2>5, <2>7 DEF Balanced
    <2> QED
      BY <2>6, <2>7
  <1> QED
    BY <1>9, <1>10, <1>11 DEF NInv

\* The row is written back: what was owed is counted.
LEMMA StatsWriteKeeps ==
  ASSUME NInv, OneReports, NEW s \in Server, StatsWrite(s)
  PROVE  NInv'
  <1> DEFINE c == call[s]
             row == [success  |-> c.cur.success + (IF c.worked THEN 1 ELSE 0),
                     fail     |-> c.cur.fail + (IF c.worked THEN 0 ELSE 1),
                     verified |-> c.cur.verified \/ (c.worked /\ c.verify)]
  <1>1. c \in Counting /\ c.pc = "bump" /\ c.id \in Memory /\ s \in Caller
    <2>1. CallOK(c) /\ c.pc = "bump"
      BY DEF StatsWrite, NInv, CountTyped, Caller
    <2> QED
      BY <2>1, CallShape DEF Counting, Caller
  <1>2. /\ stats' = [stats EXCEPT ![c.id] = row]
        /\ manual' = IF c.byHand THEN [manual EXCEPT ![c.id] = @ + 1] ELSE manual
        /\ call' = [call EXCEPT ![s] = Idle]
        /\ UNCHANGED <<log, erased, clock>>
    BY DEF StatsWrite, Return
  <1>3. row \in Stats /\ Counted(row) = Counted(c.cur) + 1 /\ Counted(c.cur) \in Nat
    BY <1>1 DEF Counting, Stats, Counted
  <1>4. Counted(c.cur) <= Counted(stats[c.id])
    BY <1>1 DEF NInv, ReadHolds
  <1> HIDE DEF row, c
  <1>5. \A d \in Caller : call'[d] = IF d = s THEN Idle ELSE call[d]
    BY <1>1, <1>2 DEF NInv, CountTyped
  <1>6. \A t \in Server : t # s => call'[t] = call[t] /\ call[t].pc \notin Reporting
    BY <1>1, <1>5 DEF OneReports, Reporting, Caller, c
  <1>7. Idle.pc = "idle"
    BY DEF Idle
  <1>8. CountTyped'
    BY <1>1, <1>2, <1>3, <1>5, <1>7 DEF NInv, CountTyped, CallOK, Reporting, Shows
  <1>9. \A t \in Server : ReadHolds(call[t])'
    BY <1>5, <1>6, <1>7 DEF ReadHolds, Reporting, Caller
  <1>10. ASSUME NEW m \in Memory \ erased' PROVE Balanced(m)'
    <2>1. Balanced(m) /\ log' = log /\ m \notin erased
      BY <1>2 DEF NInv
    <2>2. Counted(stats[m]) \in Nat /\ manual[m] \in Nat /\ Cardinality(Shows(log[m])) \in Nat
      BY FS_CardinalityType DEF NInv, CountTyped, Counted, Stats
    <2>3. Owed(m) \in {0, 1} /\ Owed(m)' = 0
      BY <1>5, <1>6, <1>7 DEF Owed, Owes, Reporting, Caller
    <2>4. CASE m = c.id
      <3>1. Counted(stats'[m]) = Counted(c.cur) + 1
        BY <1>2, <1>3, <2>4 DEF NInv, CountTyped
      <3>2. CASE c.byHand
        <4>1. manual'[m] = manual[m] + 1
          BY <1>2, <2>4, <3>2 DEF NInv, CountTyped
        <4> QED
          BY <1>3, <1>4, <2>1, <2>2, <2>3, <2>4, <3>1, <4>1 DEF Balanced
      <3>3. CASE ~c.byHand
        <4>1. Owed(m) = 1
          BY <1>1, <2>4, <3>3 DEF Owed, Owes, c, Counting
        <4>2. manual' = manual
          BY <1>2, <3>3
        <4> QED
          BY <1>3, <1>4, <2>1, <2>2, <2>3, <2>4, <3>1, <4>1, <4>2 DEF Balanced
      <3> QED
        BY <3>2, <3>3
    <2>5. CASE m # c.id
      <3>1. stats'[m] = stats[m] /\ manual'[m] = manual[m]
        BY <1>2, <2>5 DEF NInv, CountTyped
      <3> QED
        BY <2>1, <2>2, <2>3, <3>1 DEF Balanced
    <2> QED
      BY <2>4, <2>5
  <1> QED
    BY <1>8, <1>9, <1>10 DEF NInv

\* Steps that leave log, counters and calls alone.
LEMMA CountAside ==
  ASSUME NInv, UNCHANGED <<log, stats, call, manual, erased>>, clock' \in Nat
  PROVE  NInv'
  BY DEF NInv, CountTyped, ReadHolds, Balanced, Owed, Counted

LEMMA OutcomeCounts ==
  ASSUME NInv, OneReports, OutcomeNext
  PROVE  NInv'
  <1> USE DEF history
  <1>0. clock \in Nat /\ clock + 1 \in Nat
    BY DEF NInv, CountTyped
  <1>1. ASSUME NEW s \in Server, NEW m \in Memory, NEW k \in Key, NEW ok \in BOOLEAN,
               PostBegin(s, m, k, ok)
        PROVE  NInv'
    <2> DEFINE r == [pc |-> "post", id |-> m, key |-> k, ok |-> ok, ts |-> clock + 1]
    <2>1. CallOK(r)
      BY <1>0 DEF CallOK, OutcomeCall, Signal
    <2> QED
      BY <1>0, <1>1, <2>1, TurnKeeps DEF PostBegin, Begin, Caller
  <1>2. ASSUME NEW s \in Server, NEW m \in Memory, NEW worked \in BOOLEAN, OutcomeBegin(s, m, worked)
        PROVE  NInv'
    <2> DEFINE r == [pc |-> "stats", id |-> m, worked |-> worked, verify |-> FALSE, byHand |-> TRUE]
    <2>1. CallOK(r)
      BY DEF CallOK, OutcomeCall, Bumping
    <2> QED
      BY <1>0, <1>2, <2>1, TurnKeeps DEF OutcomeBegin, Begin, Caller
  <1>3. ASSUME NEW s \in Server, PostRead(s) \/ PostMisread(s) PROVE NInv'
    <2> DEFINE c == call[s]
               Read(seen) == [pc |-> "log", id |-> c.id, key |-> c.key, ok |-> c.ok, ts |-> c.ts, seen |-> seen]
    <2>1. c \in Signal /\ c.id \in Memory
      <3>1. CallOK(c) /\ c.pc = "post"
        BY <1>3 DEF PostRead, PostMisread, NInv, CountTyped, Caller
      <3> QED
        BY <3>1, CallShape DEF Signal
    <2>2. \A seen \in [Key -> Entry] : CallOK(Read(seen))
      BY <2>1 DEF CallOK, OutcomeCall, Signal, Logging
    <2>3. CASE PostRead(s)
      <3>1. log[c.id] \in [Key -> Entry] /\ IsFiniteSet(Shows(log[c.id]))
        BY <2>1 DEF NInv, CountTyped
      <3>2. Goto(s, Read(log[c.id])) /\ UNCHANGED <<log, stats, manual, erased>>
        BY <2>3 DEF PostRead
      <3> DEFINE r == Read(log[c.id])
      <3>3. /\ CallOK(r) /\ r.pc = "log" /\ r.seen = log[r.id] /\ r.seen = log[c.id] /\ \A m : ~Owes(r, m)
        BY <2>2, <3>1 DEF Owes
      <3> HIDE DEF r
      <3> QED
        BY <3>1, <3>2, <3>3, ReadKeeps DEF r
    <2>4. CASE PostMisread(s)
      <3> DEFINE empty == [k \in Key |-> NoEntry]
                 r == Read(empty)
      <3>1. empty \in [Key -> Entry] /\ Shows(empty) = {}
        BY OutcomesAssumption DEF NoEntry, Entry, Verdict, Shows
      <3>2. Goto(s, r) /\ UNCHANGED <<log, stats, manual>> /\ erased' = erased \cup {c.id}
        BY <2>4 DEF PostMisread
      <3> HIDE DEF empty
      <3>3. /\ CallOK(r) /\ r.pc = "log" /\ r.seen = empty /\ r.id = c.id /\ \A m : ~Owes(r, m)
        BY <2>2, <3>1 DEF Owes
      <3> HIDE DEF r
      <3> QED
        BY <3>1, <3>2, <3>3, ReadKeeps, FS_EmptySet
    <2> QED
      BY <1>3, <2>3, <2>4
  <1>4. ASSUME NEW s \in Server, StatsRead(s) \/ StatsMisread(s) PROVE NInv'
    <2> DEFINE c == call[s]
               Read(cur) == [pc |-> "bump", id |-> c.id, worked |-> c.worked, verify |-> c.verify,
                             byHand |-> c.byHand, cur |-> cur]
    <2>1. c \in Bumping /\ c.id \in Memory /\ c.pc = "stats"
      <3>1. CallOK(c) /\ c.pc = "stats"
        BY <1>4 DEF StatsRead, StatsMisread, NInv, CountTyped, Caller
      <3> QED
        BY <3>1, CallShape DEF Bumping
    <2>2. \A cur \in Stats : CallOK(Read(cur))
      BY <2>1 DEF CallOK, OutcomeCall, Bumping, Counting
    <2>3. stats[c.id] \in Stats /\ NoStats \in Stats /\ Counted(NoStats) = 0
          /\ Counted(stats[c.id]) \in Nat
      BY <2>1 DEF NInv, CountTyped, Stats, NoStats, Counted
    <2>4. PICK cur \in Stats : /\ Counted(cur) <= Counted(stats[c.id])
                               /\ Goto(s, Read(cur)) /\ UNCHANGED <<log, stats, manual, erased>>
      BY <1>4, <2>3 DEF StatsRead, StatsMisread
    <2> DEFINE r == Read(cur)
    <2>5. /\ CallOK(r) /\ r.pc = "bump" /\ r.cur = cur /\ r.id = c.id
          /\ \A m : Owes(r, m) => Owes(c, m)
      BY <2>1, <2>2 DEF Owes
    <2> HIDE DEF r
    <2> QED
      BY <2>4, <2>5, ReadKeeps DEF r
  <1>5. ASSUME NEW c \in Caller, Return(c), UNCHANGED <<log, stats, manual, erased>> PROVE NInv'
    <2>1. CallOK(Idle) /\ Idle.pc = "idle"
      BY DEF CallOK, Idle, Reporting
    <2> QED
      BY <1>0, <1>5, <2>1, TurnKeeps DEF Return
  <1>6. ASSUME NEW s \in Server, ProcedureMisread(s) PROVE NInv'
    BY <1>5, <1>6 DEF ProcedureMisread, Caller
  <1>7. ASSUME NEW c \in Caller, Abort(c) PROVE NInv'
    BY <1>5, <1>7 DEF Abort
  <1> QED
    BY <1>1, <1>2, <1>3, <1>4, <1>6, <1>7, PostWriteKeeps, StatsWriteKeeps, LapseKeeps
       DEF OutcomeNext, Answer

LEMMA CountStep == NInv /\ OneReports /\ [Next]_vars => NInv'
  <1> SUFFICES ASSUME NInv, OneReports, [Next]_vars PROVE NInv'
    OBVIOUS
  <1> USE DEF history
  <1>0. clock \in Nat /\ clock + 1 \in Nat
    BY DEF NInv, CountTyped
  <1>1. CASE UNCHANGED vars
    BY <1>0, <1>1, CountAside DEF vars, outcomeVars
  <1>2. ASSUME NEW s \in Server,
               \/ LoopStep(s) \/ TopUpFails(s)
               \/ RetestMisread(s) \/ RetestMisjudge(s) \/ RetestFails(s)
        PROVE  NInv'
    <2>1. UNCHANGED <<log, stats, call, manual, erased, clock>>
      BY <1>2 DEF LoopStep, Wake, TopUp, Take, TickEnds, CutShort, RetestScore, RetestJudge, Judge, RetestMove,
         RetestStore, RetestMemory, RetestMemoryFails, TopUpFails, RetestMisread, RetestMisjudge,
         RetestFails, outcomeVars
    <2> QED
      BY <1>0, <2>1, CountAside
  <1>3. ASSUME NEW c \in Caller, NEW r, CallOK(r), r.pc \in {"idle", "query", "count"},
               call' = [call EXCEPT ![c] = r], clock' \in Nat, UNCHANGED <<log, stats, manual, erased>>
        PROVE  NInv'
    BY <1>3, TurnKeeps
  <1>4. CallOK(Idle) /\ Idle.pc = "idle"
    BY DEF CallOK, Idle, Reporting
  <1>5. ASSUME NEW c \in Caller, NEW prior, NEW drifted \in BOOLEAN, QueryRead(c, prior, drifted)
        PROVE  NInv'
    <2> DEFINE r == [pc |-> "count", id |-> call[c].id, to |-> Moved(prior, drifted)]
    <2>1. CallOK(r) /\ r.pc = "count"
      BY DEF CallOK, Reporting
    <2> HIDE DEF r
    <2>2. (call' = [call EXCEPT ![c] = r] \/ call' = [call EXCEPT ![c] = Idle])
          /\ UNCHANGED <<log, stats, manual, erased, clock>>
      BY <1>5 DEF QueryRead, Return, Goto, r
    <2> QED
      BY <1>0, <1>3, <1>4, <2>1, <2>2
  <1>6. ASSUME NEW c \in Caller, NEW f \in Fact, QueryBegin(c, f) PROVE NInv'
    <2> DEFINE r == [pc |-> "query", id |-> f]
    <2>1. CallOK(r) /\ r.pc = "query"
      BY DEF CallOK, Reporting
    <2> HIDE DEF r
    <2> QED
      BY <1>0, <1>3, <1>6, <2>1 DEF QueryBegin, Begin, r
  <1>7. ASSUME NEW c \in Caller, QueryWrite(c) PROVE NInv'
    BY <1>0, <1>3, <1>4, <1>7 DEF QueryWrite, Return
  <1>8. ASSUME NEW s \in Server, Crash(s) PROVE NInv'
    BY <1>0, <1>3, <1>4, <1>8 DEF Crash, Caller
  <1>9. ASSUME NEW c \in Caller, NEW f \in Fact, Reassert(c, f) PROVE NInv'
    BY <1>0, <1>9, CountAside DEF Reassert
  <1>10. ASSUME NEW f \in Fact, NEW n \in Dependants, BackfillDependants(f, n) PROVE NInv'
    BY <1>0, <1>10, CountAside DEF BackfillDependants
  <1>11. ASSUME NEW s \in Server, NEW F \in SUBSET Fact, Briefing(s, F) \/ SessionEnd(s) PROVE NInv'
    BY <1>0, <1>11, CountAside DEF Briefing, SessionEnd, outcomeVars
  <1> QED
    BY <1>1, <1>2, <1>5, <1>6, <1>7, <1>8, <1>9, <1>10, <1>11, OutcomeCounts
       DEF Next, QueryStep, QueryMisread

\* NoDoubleCount: for any number of servers and signals and every fault, as long
\* as one call at a time is between reading and writing the log or the
\* counters: a procedure's counters never outrun the distinct signals of its log and
\* the outcomes recorded by hand.  (mcp.rs: the counter must not inflate on
\* redelivery.)
THEOREM CountedOnce == Spec /\ []OneReports => []NoDoubleCount
  <1>1. NInv => NoDoubleCount
    <2> SUFFICES ASSUME NInv, NEW m \in Memory \ erased
                 PROVE  stats[m].success + stats[m].fail
                          <= manual[m] + Cardinality({k \in ProcedureKey : log[m][k].verdict # "none"})
      BY DEF NoDoubleCount
    <2>1. Balanced(m) /\ Owed(m) \in Nat
      BY DEF NInv, Owed
    <2>2. Counted(stats[m]) \in Nat /\ manual[m] \in Nat /\ Cardinality(Shows(log[m])) \in Nat
      BY FS_CardinalityType DEF NInv, CountTyped, Counted, Stats
    <2> QED
      BY <2>1, <2>2 DEF Balanced, Counted, Shows
  <1> QED
    BY <1>1, CountInit, CountStep, PTL DEF Spec

-----------------------------------------------------------------------------
(* Sorted lists.                                                           *)

\* R orders S.
Orders(R, S) ==
  /\ \A x \in S : <<x, x>> \notin R
  /\ \A x \in S, y \in S, z \in S : <<x, y>> \in R /\ <<y, z>> \in R => <<x, z>> \in R
  /\ \A x \in S, y \in S : x # y => <<x, y>> \in R \/ <<y, x>> \in R

\* A sorted list holds the elements of the set, no more and no less: the ranks
\* of n elements are n numbers below n.
LEMMA SortedHolds ==
  ASSUME NEW S, IsFiniteSet(S), NEW R, Orders(R, S)
  PROVE  Sorted(S, R) \in Seq(S) /\ ToSet(Sorted(S, R)) = S
  <1> DEFINE Below(x) == {y \in S : <<y, x>> \in R}
             n == Cardinality(S)
             rank == [x \in S |-> Cardinality(Below(x))]
  <1>0. n \in Nat
    BY FS_CardinalityType
  <1>1. \A x \in S : IsFiniteSet(Below(x)) /\ Cardinality(Below(x)) \in Nat
    BY FS_Subset, FS_CardinalityType
  <1>2. \A x \in S : Cardinality(Below(x)) < n
    <2> SUFFICES ASSUME NEW x \in S PROVE Cardinality(Below(x)) < n
      OBVIOUS
    <2>1. Below(x) # S
      BY DEF Orders
    <2>2. Cardinality(Below(x)) <= n /\ Cardinality(Below(x)) # n
      BY <2>1, FS_Subset
    <2> QED
      BY <1>0, <1>1, <2>2
  <1>3. \A x \in S, y \in S : <<x, y>> \in R => Cardinality(Below(x)) < Cardinality(Below(y))
    <2> SUFFICES ASSUME NEW x \in S, NEW y \in S, <<x, y>> \in R
                 PROVE  Cardinality(Below(x)) < Cardinality(Below(y))
      OBVIOUS
    <2>1. Below(x) \in SUBSET Below(y) /\ Below(x) # Below(y)
      BY DEF Orders
    <2>2. /\ Cardinality(Below(x)) <= Cardinality(Below(y))
          /\ Cardinality(Below(y)) = Cardinality(Below(x)) => Below(y) = Below(x)
      BY <1>1, <2>1, FS_Subset
    <2> QED
      BY <1>1, <2>1, <2>2
  <1>4. \A x \in S, y \in S : x # y => Cardinality(Below(x)) # Cardinality(Below(y))
    <2> SUFFICES ASSUME NEW x \in S, NEW y \in S, x # y
                 PROVE  Cardinality(Below(x)) # Cardinality(Below(y))
      OBVIOUS
    <2>1. <<x, y>> \in R \/ <<y, x>> \in R
      BY DEF Orders
    <2>2. Cardinality(Below(x)) < Cardinality(Below(y)) \/ Cardinality(Below(y)) < Cardinality(Below(x))
      BY <1>3, <2>1
    <2>3. Cardinality(Below(x)) \in Nat /\ Cardinality(Below(y)) \in Nat
      BY <1>1
    <2> HIDE DEF Below
    <2> QED
      BY <2>2, <2>3
  <1>5. \A i \in 1 .. n : \E x \in S : Cardinality(Below(x)) = i - 1
    <2>1. rank \in Injection(S, 0 .. n - 1)
      <3>1. \A x \in S : Cardinality(Below(x)) \in 0 .. n - 1
        <4> HIDE DEF Below, n
        <4> QED
          BY <1>0, <1>1, <1>2
      <3>2. rank \in [S -> 0 .. n - 1]
        BY <3>1
      <3>3. IsInjective(rank)
        BY <1>4 DEF IsInjective
      <3> QED
        BY <3>2, <3>3 DEF Injection
    <2>2. IsFiniteSet(0 .. n - 1) /\ Cardinality(0 .. n - 1) = n
      <3>1. 0 \in Int /\ n - 1 \in Int
        BY <1>0
      <3>2. IsFiniteSet(0 .. n - 1) /\ Cardinality(0 .. n - 1) = IF 0 > n - 1 THEN 0 ELSE n - 1 - 0 + 1
        BY <3>1, FS_Interval
      <3> QED
        BY <1>0, <3>2
    <2>3. rank \in Surjection(S, 0 .. n - 1)
      BY <2>1, <2>2, FS_Injection
    <2>4. \A j \in 0 .. n - 1 : \E x \in S : rank[x] = j
      BY <2>3 DEF Surjection
    <2>5. \A x \in S : rank[x] = Cardinality(Below(x))
      OBVIOUS
    <2>6. \A i \in 1 .. n : i - 1 \in 0 .. n - 1
      BY <1>0
    <2> HIDE DEF rank, Below
    <2> QED
      BY <2>4, <2>5, <2>6
  <1> DEFINE q == Sorted(S, R)
  <1>6. DOMAIN q = 1 .. n /\ \A i \in 1 .. n : q[i] = CHOOSE x \in S : Cardinality(Below(x)) = i - 1
    BY DEF Sorted
  <1>7. \A i \in 1 .. n : q[i] \in S /\ Cardinality(Below(q[i])) = i - 1
    BY <1>5, <1>6
  <1>8. q \in Seq(S)
    <2>1. q \in [1 .. n -> S]
      BY <1>7 DEF Sorted
    <2> HIDE DEF q, n
    <2> QED
      BY <1>0, <2>1
  <1>9. \A x \in S : \E i \in 1 .. n : q[i] = x
    <2> SUFFICES ASSUME NEW x \in S PROVE \E i \in 1 .. n : q[i] = x
      OBVIOUS
    <2> DEFINE i == Cardinality(Below(x)) + 1
    <2>0. Cardinality(Below(x)) \in Nat /\ Cardinality(Below(x)) < n
      BY <1>1, <1>2
    <2> HIDE DEF Below, n
    <2>1. i \in 1 .. n /\ Cardinality(Below(x)) = i - 1
      BY <1>0, <2>0
    <2>2. q[i] \in S /\ Cardinality(Below(q[i])) = Cardinality(Below(x))
      BY <1>7, <2>1
    <2> HIDE DEF q, i
    <2> QED
      BY <1>4, <2>1, <2>2
  <1> QED
    BY <1>6, <1>7, <1>8, <1>9 DEF ToSet

LEMMA FirstIsSeq ==
  ASSUME NEW S, NEW q \in Seq(S), NEW n \in Int
  PROVE  FirstN(q, n) \in Seq(S)
  BY DEF FirstN

LEMMA OrdersNumbers ==
  ASSUME NEW S \in SUBSET Id
  PROVE  Orders(Increasing, S)
  <1>1. \A x \in S : x \in Id /\ x \in Nat
    BY OutcomesAssumption, DoubtLoopAssumption DEF Id
  <1>2. \A x \in S, y \in S : <<x, y>> \in Increasing <=> x < y
    BY <1>1 DEF Increasing
  <1> QED
    BY <1>1, <1>2 DEF Orders

LEMMA OrdersFacts ==
  ASSUME deps \in [Fact -> Nat], NEW S \in SUBSET Fact
  PROVE  Orders(MostDependants, S)
  <1>1. \A x \in S : x \in Fact /\ x \in Nat /\ deps[x] \in Nat
    BY DoubtLoopAssumption
  <1>2. \A x \in S, y \in S : <<x, y>> \in MostDependants
                              <=> deps[x] > deps[y] \/ (deps[x] = deps[y] /\ x < y)
    BY <1>1 DEF MostDependants
  <1> QED
    BY <1>1, <1>2 DEF Orders

-----------------------------------------------------------------------------
(* What is flagged is re-tested.                                           *)

LInv ==
  /\ loop = [s \in Server |-> loop[s]]
  /\ \A s \in Server : loop[s].work \in Seq(Id)
  /\ flags \in [Server -> SUBSET Id]
  /\ \A s \in Server : IsFiniteSet(flags[s])
  /\ deps \in [Fact -> Nat]
  /\ call = [c \in Caller |-> call[c]]
  /\ \A c \in Caller : call[c].pc \in {"post", "log"} => call[c].id \in Memory

LEMMA ListInit == DoubtInit => LInv
  <1> SUFFICES ASSUME DoubtInit PROVE LInv
    OBVIOUS
  <1>1. <<>> \in Seq(Id)
    OBVIOUS
  <1> QED
    BY <1>1, FS_EmptySet DEF DoubtInit, Init, LInv, Asleep, Idle

\* What a tick takes from the registry, and with what it is topped up.
LEMMA DrainedIsList ==
  ASSUME NEW F \in SUBSET Id, IsFiniteSet(F)
  PROVE  Drained(F) \in Seq(Id)
  <1>1. Sorted(F, Increasing) \in Seq(F)
    BY OrdersNumbers, SortedHolds
  <1>2. Sorted(F, Increasing) \in Seq(Id)
    BY <1>1
  <1> QED
    BY <1>2, FirstIsSeq, DoubtLoopAssumption DEF Drained

LEMMA ToppedUpIsList ==
  ASSUME LInv, NEW new, new \in SUBSET Fact
  PROVE  Sorted(new, MostDependants) \in Seq(Id)
  <1>1. IsFiniteSet(new)
    BY FS_Subset, DoubtLoopAssumption
  <1>2. Sorted(new, MostDependants) \in Seq(new)
    BY <1>1, OrdersFacts, SortedHolds DEF LInv
  <1> QED
    BY <1>2 DEF Id

\* The loop of one server moves; the registries hold what they held, and may be.
LEMMA ListKeeps ==
  ASSUME LInv, NEW s \in Server, NEW r, GoLoop(s, r), r.work \in Seq(Id),
         NEW F \in SUBSET Id, IsFiniteSet(F), flags' = [flags EXCEPT ![s] = F],
         UNCHANGED <<deps, call>>
  PROVE  LInv'
  BY DEF LInv, GoLoop

\* What an id that leaves server s is excused by.
Excused(s, id) ==
  \/ id \in Target(s) /\ (RetestMemory(s) \/ RetestStore(s))
  \/ CutShort(s)
  \/ Crash(s)

\* The others hold what they held.
LEMMA OthersHold ==
  ASSUME LInv, NEW s \in Server, NEW r, GoLoop(s, r), NEW F, flags' = [flags EXCEPT ![s] = F],
         NEW t \in Server, t # s
  PROVE  InHand(t)' = InHand(t)
  BY DEF LInv, GoLoop, InHand, Target

\* The walk.
LEMMA WalkSurvives ==
  ASSUME LInv, NEW s \in Server,
         Wake(s) \/ TopUp(s) \/ TopUpFails(s) \/ Take(s) \/ TickEnds(s) \/ CutShort(s)
  PROVE  LInv' /\ \A t \in Server : \A id \in InHand(t) \ InHand(t)' : Excused(t, id)
  <1>1. CASE Wake(s)
    <2> DEFINE D == Drained(flags[s])
    <2>1. D \in Seq(Id)
      BY DrainedIsList DEF LInv
    <2>2. /\ flags' = [flags EXCEPT ![s] = flags[s] \ ToSet(D)] /\ GoLoop(s, [pc |-> "select", work |-> D])
          /\ UNCHANGED <<deps, call>> /\ loop[s] = Asleep
      BY <1>1 DEF Wake, factVars
    <2> HIDE DEF D
    <2>3. flags[s] \ ToSet(D) \in SUBSET Id /\ IsFiniteSet(flags[s] \ ToSet(D))
      BY FS_Subset DEF LInv
    <2>4. LInv'
      BY <2>1, <2>2, <2>3, ListKeeps
    <2>5. InHand(s) \subseteq InHand(s)'
      <3>1. loop'[s] = [pc |-> "select", work |-> D] /\ flags'[s] = flags[s] \ ToSet(D)
        BY <2>2 DEF LInv, GoLoop
      <3>2. InHand(s) = flags[s]
        BY <2>2 DEF InHand, Asleep, Target, Retesting, ToSet
      <3> QED
        BY <3>1, <3>2 DEF InHand
    <2> QED
      BY <2>2, <2>4, <2>5, OthersHold
  <1>2. ASSUME TopUp(s) \/ TopUpFails(s) \/ Take(s) \/ TickEnds(s) \/ CutShort(s)
        PROVE  UNCHANGED <<flags, deps, call>>
    BY <1>2 DEF TopUp, TopUpFails, Take, TickEnds, CutShort, outcomeVars, factVars
  <1>3. ASSUME NEW r, GoLoop(s, r), r.work \in Seq(Id), UNCHANGED <<flags, deps, call>>,
               InHand(s) \subseteq flags[s] \cup ToSet(r.work) \cup (IF r.pc \in Retesting THEN {r.id} ELSE {})
                 \/ CutShort(s)
        PROVE  LInv' /\ \A t \in Server : \A id \in InHand(t) \ InHand(t)' : Excused(t, id)
    <2>1. flags' = [flags EXCEPT ![s] = flags[s]] /\ flags[s] \in SUBSET Id /\ IsFiniteSet(flags[s])
      BY <1>3 DEF LInv
    <2>2. LInv'
      BY <1>3, <2>1, ListKeeps
    <2>3. loop'[s] = r
      BY <1>3 DEF GoLoop, LInv
    <2>4. InHand(s) \subseteq InHand(s)' \/ CutShort(s)
      BY <1>3, <2>3 DEF InHand, Target
    <2>5. \A t \in Server : t # s => InHand(t)' = InHand(t)
      BY <1>3, <2>1, OthersHold
    <2> QED
      BY <2>2, <2>4, <2>5 DEF Excused
  <1>4. CASE TopUp(s)
    <2> DEFINE W == loop[s].work
               new == ToSet(TopFacts(TickCap - Len(W))) \ ToSet(W)
    <2>1. W \in Seq(Id) /\ Len(W) \in Nat
      BY DEF LInv
    <2>2. new \in SUBSET Fact
      <3>1. Sorted(Fact, MostDependants) \in Seq(Fact)
        BY OrdersFacts, SortedHolds, DoubtLoopAssumption DEF LInv
      <3>2. TickCap - Len(W) \in Int
        BY <2>1, DoubtLoopAssumption
      <3>3. TopFacts(TickCap - Len(W)) \in Seq(Fact)
        BY <3>1, <3>2, FirstIsSeq DEF TopFacts
      <3> QED
        BY <3>3 DEF ToSet
    <2>3. loop[s].pc = "select" /\ GoLoop(s, [pc |-> "walk", work |-> W \o Sorted(new, MostDependants)])
      BY <1>4 DEF TopUp
    <2> DEFINE V == Sorted(new, MostDependants)
    <2>4. V \in Seq(Id)
      BY <2>2, ToppedUpIsList
    <2> HIDE DEF W, V
    <2>5. W \o V \in Seq(Id) /\ ToSet(W) \subseteq ToSet(W \o V)
      BY <2>1, <2>4 DEF ToSet
    <2>6. InHand(s) \subseteq flags[s] \cup ToSet(W \o V)
      BY <2>3, <2>5 DEF InHand, Target, Retesting, W
    <2> QED
      BY <1>2, <1>3, <1>4, <2>3, <2>5, <2>6 DEF V
  <1>5. CASE TopUpFails(s)
    <2>1. loop[s].pc = "select" /\ GoLoop(s, [pc |-> "walk", work |-> loop[s].work]) /\ loop[s].work \in Seq(Id)
      BY <1>5 DEF TopUpFails, LInv
    <2>2. InHand(s) \subseteq flags[s] \cup ToSet(loop[s].work)
      BY <2>1 DEF InHand, Target, Retesting
    <2> QED
      BY <1>2, <1>3, <1>5, <2>1, <2>2
  <1>6. CASE Take(s)
    <2> DEFINE W == loop[s].work
               r == [pc |-> "score", work |-> Tail(W), id |-> Head(W)]
    <2>1. W \in Seq(Id) /\ W # <<>> /\ loop[s].pc = "walk" /\ GoLoop(s, r)
      BY <1>6 DEF Take, LInv
    <2>2. InHand(s) \subseteq flags[s] \cup ToSet(W)
      BY <2>1 DEF InHand, Target, Retesting
    <2> HIDE DEF W
    <2>3. Tail(W) \in Seq(Id) /\ ToSet(W) \subseteq ToSet(Tail(W)) \cup {Head(W)}
      <3>1. Tail(W) \in Seq(Id) /\ Len(Tail(W)) = Len(W) - 1 /\ Len(W) \in Nat
        BY <2>1
      <3>2. \A i \in 1 .. Len(W) : W[i] = Head(W) \/ (i - 1 \in 1 .. Len(Tail(W)) /\ W[i] = Tail(W)[i - 1])
        BY <2>1, <3>1
      <3>3. DOMAIN W = 1 .. Len(W) /\ DOMAIN Tail(W) = 1 .. Len(Tail(W))
        BY <2>1, <3>1
      <3> QED
        BY <3>1, <3>2, <3>3 DEF ToSet
    <2>4. r.work = Tail(W) /\ r.id = Head(W) /\ r.pc \in Retesting
      BY DEF Retesting
    <2> HIDE DEF r
    <2> QED
      BY <1>2, <1>3, <1>6, <2>1, <2>2, <2>3, <2>4
  <1>7. CASE TickEnds(s) \/ CutShort(s)
    <2>1. loop[s].pc = "walk" /\ (loop[s].work = <<>> \/ CutShort(s)) /\ GoLoop(s, Asleep)
      BY <1>7 DEF TickEnds, CutShort
    <2>2. Asleep.work = <<>> /\ <<>> \in Seq(Id)
      BY DEF Asleep
    <2>3. InHand(s) \subseteq flags[s] \/ CutShort(s)
      BY <2>1 DEF InHand, Target, Retesting, ToSet
    <2> QED
      BY <1>2, <1>3, <1>7, <2>1, <2>2, <2>3
  <1> QED
    BY <1>1, <1>4, <1>5, <1>6, <1>7

\* A re-test.
LEMMA RetestSurvives ==
  ASSUME LInv, NEW s \in Server,
         RetestScore(s) \/ RetestMisread(s) \/ RetestMisjudge(s) \/ RetestJudge(s) \/ RetestMove(s) \/ RetestStore(s)
           \/ RetestMemory(s) \/ RetestMemoryFails(s) \/ RetestFails(s)
  PROVE  LInv' /\ \A t \in Server : \A id \in InHand(t) \ InHand(t)' : Excused(t, id)
  <1> DEFINE l == loop[s]
  <1>1. UNCHANGED <<deps, call>> /\ l.pc \in Retesting /\ l.work \in Seq(Id)
    BY DEF RetestScore, RetestMisread, RetestMisjudge, Judge, RetestJudge, RetestMove, RetestStore, RetestMemory,
       RetestMemoryFails, RetestFails, outcomeVars, factVars, Retesting, LInv
  <1>2. PICK r : /\ GoLoop(s, r) /\ r.work = l.work
                 /\ \/ r.pc \in Retesting /\ r.id = l.id /\ flags' = flags
                    \/ flags' = [flags EXCEPT ![s] = flags[s] \cup {l.id}] /\ l.id \in Id
                    \/ flags' = [flags EXCEPT ![s] = flags[s] \ {l.id}] /\ (RetestMemory(s) \/ RetestStore(s))
    <2>1. CASE RetestScore(s)
      BY <2>1 DEF RetestScore, outcomeVars, Retesting
    <2>2. CASE RetestMisread(s)
      BY <2>2 DEF RetestMisread, Retesting
    <2>3. CASE RetestJudge(s) \/ RetestMisjudge(s)
      BY <2>3 DEF RetestJudge, RetestMisjudge, Judge, outcomeVars, Retesting
    <2>4. CASE RetestMove(s)
      BY <2>4 DEF RetestMove, outcomeVars, Retesting
    <2>5. CASE RetestStore(s)
      BY <2>5 DEF RetestStore
    <2>6. CASE RetestMemory(s)
      BY <2>6 DEF RetestMemory
    <2>7. CASE RetestMemoryFails(s)
      BY <2>7 DEF RetestMemoryFails, Id
    <2>8. CASE RetestFails(s)
      BY <2>8 DEF RetestFails, Id
    <2> QED
      BY <2>1, <2>2, <2>3, <2>4, <2>5, <2>6, <2>7, <2>8
  <1>3. PICK F \in SUBSET Id : IsFiniteSet(F) /\ flags' = [flags EXCEPT ![s] = F]
    <2>1. /\ flags[s] \in SUBSET Id /\ IsFiniteSet(flags[s]) /\ flags = [flags EXCEPT ![s] = flags[s]]
      BY DEF LInv
    <2>2. IsFiniteSet(flags[s] \cup {l.id}) /\ IsFiniteSet(flags[s] \ {l.id})
      BY <2>1, FS_AddElement, FS_RemoveElement
    <2> QED
      BY <1>2, <2>1, <2>2
  <1>4. LInv'
    BY <1>1, <1>2, <1>3, ListKeeps
  <1>5. loop'[s] = r
    BY <1>2 DEF GoLoop, LInv
  <1>6. Target(s) = {l.id} /\ (r.pc \in Retesting => Target(s)' = {r.id})
    BY <1>1, <1>5 DEF Target
  <1>7. \A id \in InHand(s) \ InHand(s)' : Excused(s, id)
    <2> SUFFICES ASSUME NEW id \in InHand(s), id \notin InHand(s)' PROVE Excused(s, id)
      OBVIOUS
    <2>1. id \notin flags'[s] /\ id \notin ToSet(l.work) /\ id \notin Target(s)'
      BY <1>2, <1>5 DEF InHand
    <2>2. id \in flags[s] \cup {l.id}
      BY <1>6, <2>1 DEF InHand
    <2>3. flags \in [Server -> SUBSET Id]
      BY DEF LInv
    <2>4. id = l.id /\ (RetestMemory(s) \/ RetestStore(s))
      BY <1>2, <1>6, <2>1, <2>2, <2>3
    <2> QED
      BY <1>6, <2>4 DEF Excused
  <1>8. \A t \in Server : t # s => InHand(t)' = InHand(t)
    BY <1>2, <1>3, OthersHold
  <1> QED
    BY <1>4, <1>7, <1>8

\* Steps that leave the loops alone and take no flag.
LEMMA ListAside ==
  ASSUME LInv, UNCHANGED loop, flags' \in [Server -> SUBSET Id],
         \A s \in Server : flags[s] \subseteq flags'[s] /\ IsFiniteSet(flags'[s]),
         deps' \in [Fact -> Nat],
         call' = [c \in Caller |-> call'[c]],
         \A c \in Caller : call'[c].pc \in {"post", "log"} => call'[c].id \in Memory
  PROVE  LInv' /\ \A t \in Server : \A id \in InHand(t) \ InHand(t)' : Excused(t, id)
  BY DEF LInv, InHand, Target

LEMMA CallsSurvive ==
  ASSUME LInv, NEW c \in Caller, NEW r, call' = [call EXCEPT ![c] = r],
         r.pc \in {"post", "log"} => r.id \in Memory,
         UNCHANGED <<loop, flags, deps>>
  PROVE  LInv' /\ \A t \in Server : \A id \in InHand(t) \ InHand(t)' : Excused(t, id)
  <1>1. call' = [d \in Caller |-> call'[d]] /\ \A d \in Caller : call'[d] = IF d = c THEN r ELSE call[d]
    BY DEF LInv
  <1> QED
    BY <1>1, ListAside DEF LInv

LEMMA OutcomeSurvives ==
  ASSUME LInv, OutcomeNext, Beside
  PROVE  LInv' /\ \A t \in Server : \A id \in InHand(t) \ InHand(t)' : Excused(t, id)
  <1> DEFINE Goal == LInv' /\ \A t \in Server : \A id \in InHand(t) \ InHand(t)' : Excused(t, id)
  <1> SUFFICES Goal
    OBVIOUS
  <1>1. UNCHANGED <<loop, deps>> /\ Idle.pc = "idle"
    BY DEF Beside, loopVars, factVars, Idle
  <1>2. \A c \in Caller : call[c].pc \in {"post", "log"} => call[c].id \in Memory
    BY DEF LInv
  <1>3. ASSUME NEW c \in Caller, NEW r, call' = [call EXCEPT ![c] = r],
               r.pc \in {"post", "log"} => r.id \in Memory, UNCHANGED flags
        PROVE  Goal
    BY <1>1, <1>3, CallsSurvive
  <1> HIDE DEF Goal
  <1>4. ASSUME NEW s \in Server, NEW m \in Memory, NEW k \in Key, NEW ok \in BOOLEAN, PostBegin(s, m, k, ok)
        PROVE  Goal
    BY <1>3, <1>4 DEF PostBegin, Begin, Caller
  <1>5. ASSUME NEW s \in Server, NEW m \in Memory, NEW worked \in BOOLEAN, OutcomeBegin(s, m, worked)
        PROVE  Goal
    BY <1>3, <1>5 DEF OutcomeBegin, Begin, Caller
  <1>6. ASSUME NEW s \in Server, PostRead(s) \/ PostMisread(s) PROVE Goal
    <2>1. call[s].id \in Memory
      BY <1>2, <1>6 DEF PostRead, PostMisread, Caller
    <2> QED
      BY <1>3, <1>6, <2>1 DEF PostRead, PostMisread, Goto, Caller
  <1>7. ASSUME NEW s \in Server, StatsRead(s) \/ StatsMisread(s) PROVE Goal
    BY <1>3, <1>7 DEF StatsRead, StatsMisread, Goto, Caller
  <1>8. ASSUME NEW s \in Server, StatsWrite(s) \/ ProcedureMisread(s) PROVE Goal
    BY <1>1, <1>3, <1>8 DEF StatsWrite, ProcedureMisread, Return, Caller
  <1>9. ASSUME NEW c \in Caller, Abort(c) PROVE Goal
    BY <1>1, <1>3, <1>9 DEF Abort, Return
  <1>10. ASSUME NEW m \in Memory, NEW k \in Key, Lapse(m, k) PROVE Goal
    BY <1>1, <1>10, ListAside DEF Lapse, LInv, Goal
  <1>11. ASSUME NEW s \in Server, PostWrite(s) PROVE Goal
    <2> DEFINE m == call[s].id
    <2>1. m \in Memory /\ s \in Caller
      BY <1>2, <1>11 DEF PostWrite, Caller
    <2>2. PICK r : call' = [call EXCEPT ![s] = r] /\ r.pc \in {"stats", "idle"}
      BY <1>1, <1>11 DEF PostWrite, Goto, Return
    <2>3. flags' = [flags EXCEPT ![s] = flags[s] \cup {m}] \/ flags' = flags
      BY <1>11 DEF PostWrite
    <2> HIDE DEF m
    <2>4. IsFiniteSet(flags[s] \cup {m})
      BY FS_AddElement DEF LInv
    <2>5. flags' \in [Server -> SUBSET Id]
          /\ \A t \in Server : flags[t] \subseteq flags'[t] /\ IsFiniteSet(flags'[t])
      BY <2>1, <2>3, <2>4 DEF LInv, Id
    <2>6. call' = [d \in Caller |-> call'[d]] /\ \A d \in Caller : call'[d] = IF d = s THEN r ELSE call[d]
      BY <2>1, <2>2 DEF LInv
    <2>7. deps' \in [Fact -> Nat]
      BY <1>1 DEF LInv
    <2> QED
      BY <1>1, <1>2, <2>2, <2>5, <2>6, <2>7, ListAside DEF Goal
  <1> QED
    BY <1>4, <1>5, <1>6, <1>7, <1>8, <1>9, <1>10, <1>11 DEF OutcomeNext, Answer

LEMMA FlagStep ==
  LInv /\ [Next]_vars => LInv' /\ [\A t \in Server : \A id \in InHand(t) \ InHand(t)' : Excused(t, id)]_vars
  <1> DEFINE Goal == LInv' /\ \A t \in Server : \A id \in InHand(t) \ InHand(t)' : Excused(t, id)
  <1> SUFFICES ASSUME LInv, [Next]_vars PROVE Goal
    OBVIOUS
  <1>1. CASE UNCHANGED vars
    BY <1>1, ListAside DEF vars, outcomeVars, factVars, loopVars, LInv
  <1>2. ASSUME NEW c \in Caller, NEW r, call' = [call EXCEPT ![c] = r],
               r.pc \notin {"post", "log"}, UNCHANGED <<loop, flags, deps>>
        PROVE  Goal
    BY <1>2, CallsSurvive
  <1>3. Idle.pc = "idle"
    BY DEF Idle
  <1>4. CASE OutcomeNext /\ Beside
    BY <1>4, OutcomeSurvives
  <1>5. ASSUME NEW s \in Server,
               \/ LoopStep(s) \/ TopUpFails(s)
               \/ RetestMisread(s) \/ RetestMisjudge(s) \/ RetestFails(s)
        PROVE  Goal
    BY <1>5, WalkSurvives, RetestSurvives DEF LoopStep
  <1> HIDE DEF Goal
  <1>6. ASSUME NEW c \in Caller, NEW prior, NEW drifted \in BOOLEAN, QueryRead(c, prior, drifted)
        PROVE  Goal
    BY <1>2, <1>3, <1>6 DEF QueryRead, Return, Goto, factVars, loopVars
  <1>7. ASSUME NEW c \in Caller, NEW f \in Fact, QueryBegin(c, f) PROVE Goal
    BY <1>2, <1>7 DEF QueryBegin, Begin, factVars, loopVars
  <1>8. ASSUME NEW c \in Caller, QueryWrite(c) PROVE Goal
    BY <1>2, <1>3, <1>8 DEF QueryWrite, Return, loopVars
  <1>9. ASSUME NEW c \in Caller, NEW f \in Fact, Reassert(c, f) PROVE Goal
    <2>1. UNCHANGED <<loop, flags, call>> /\ deps' \in [Fact -> Nat]
      BY <1>9 DEF Reassert, loopVars, LInv
    <2> QED
      BY <2>1, ListAside DEF LInv, Goal
  <1>10. ASSUME NEW f \in Fact, NEW n \in Dependants, BackfillDependants(f, n) PROVE Goal
    <2>1. UNCHANGED <<loop, flags, call>> /\ deps' \in [Fact -> Nat]
      BY <1>10, DoubtLoopAssumption DEF BackfillDependants, loopVars, LInv
    <2> QED
      BY <2>1, ListAside DEF LInv, Goal
  <1>11. ASSUME NEW s \in Server, NEW F \in SUBSET Fact, Briefing(s, F) \/ SessionEnd(s) PROVE Goal
    <2>1. UNCHANGED <<loop, flags, call, deps>>
      BY <1>11 DEF Briefing, SessionEnd, loopVars, outcomeVars, factVars
    <2> QED
      BY <2>1, ListAside DEF LInv, Goal
  <1>12. ASSUME NEW s \in Server, Crash(s) PROVE Goal
    <2>1. /\ flags' = [flags EXCEPT ![s] = {}] /\ GoLoop(s, Asleep) /\ UNCHANGED deps
          /\ call' = [call EXCEPT ![s] = Idle]
      BY <1>12 DEF Crash, factVars
    <2>2. Asleep.work = <<>> /\ <<>> \in Seq(Id) /\ IsFiniteSet({}) /\ s \in Caller
      BY FS_EmptySet DEF Asleep, Caller
    <2>3. LInv'
      BY <1>3, <2>1, <2>2 DEF LInv, GoLoop
    <2>4. \A t \in Server : t # s => InHand(t)' = InHand(t)
      BY <2>1, OthersHold
    <2> QED
      BY <1>12, <2>3, <2>4 DEF Goal, Excused
  <1> QED
    BY <1>1, <1>4, <1>5, <1>6, <1>7, <1>8, <1>9, <1>10, <1>11, <1>12 DEF Next, QueryStep, QueryMisread

\* FlagsSurvive: for any number of servers, memories and facts, any cap and
\* every fault: an id leaves the registry and the tick's work only re-tested, cut
\* short by a call, or with its process.
THEOREM FlagsAreKept == Spec => FlagsSurvive
  <1> DEFINE Kept == \A s \in Server : \A id \in InHand(s) \ InHand(s)' :
                       \/ id \in Target(s) /\ (RetestMemory(s) \/ RetestStore(s))
                       \/ CutShort(s)
                       \/ Crash(s)
  <1>1. LInv /\ [Next]_vars => LInv' /\ [Kept]_vars
    BY FlagStep DEF Excused
  <1> HIDE DEF Kept
  <1>2. Spec => [][Kept]_vars
    BY <1>1, ListInit, PTL DEF Spec
  <1> QED
    BY <1>2 DEF Kept, FlagsSurvive

=============================================================================
