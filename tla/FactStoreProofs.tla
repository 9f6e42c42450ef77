-------------------------- MODULE FactStoreProofs --------------------------
(***************************************************************************)
(* Theorems about FactStore, for every set of values, agents and processes *)
(* and every bound.  The argument: the facts lock gives one agent at a     *)
(* time the right to touch status and validity, so what a call read under  *)
(* the lock is still true when it writes.                                  *)
(***************************************************************************)
EXTENDS FactViews, FiniteSetTheorems, TLAPS

-----------------------------------------------------------------------------
(* What the operators return.                                              *)

\* Ending calls keeps every lock and local in its type.
LEMMA ReleaseType ==
  ASSUME TypeOK, NEW A \in SUBSET Agent, Release(A)
  PROVE  /\ axisLock' \in [Process -> Agent \cup {None}]
         /\ flock' \in Agent \cup {None}
         /\ pc' \in [Agent -> Step]
         /\ obj' \in [Agent -> Object \cup {None}]
         /\ seen' \in [Agent -> Seen]
         /\ ruled' \in [Agent -> Cardinalities]
         /\ decided' \in [Agent -> Status]
         /\ losers' \in [Agent -> SUBSET Object]
         /\ loser' \in [Agent -> Object \cup {None}]
  BY DEF TypeOK, Release, Step, Critical, NothingSeen, Seen, Time, Cardinalities, Status

\* A sentence hides the challenger or names a loser, never both.
LEMMA SentenceShape ==
  ASSUME NEW e, NEW w, NEW p
  PROVE  LET d == Sentence(ResolveDuel(e, w), p) IN
           \/ d.status = "active" /\ d.losers = {p}
           \/ d.status \in {"contested", "quarantine_candidate"} /\ d.losers = {}
  BY DEF Sentence, ResolveDuel, StatusAfter

\* A decision gives the challenger a status it may be written with and names
\* only visible losers; if it leaves the challenger hidden or retires it,
\* another visible row stands beside it.
LEMMA DecisionShape ==
  ASSUME NEW a \in Agent, NEW score, NEW d \in Decision(a, score)
  PROVE  /\ d.status \in {"active", "contested", "quarantine_candidate"}
         /\ d.losers \in SUBSET VisibleObjects
         /\ d.losers # {} => d.status = "active"
         /\ d.status \notin DefaultVisible \/ obj[a] \in d.losers
              => \E p \in VisibleObjects : p # obj[a] /\ p \notin d.losers
  <1>1. CASE card # "multi" /\ Conflict(VisibleObjects, obj[a])
    <2>1. PICK p \in MostEntrenched(VisibleObjects, score) :
                 \E w : d = Sentence(ResolveDuel(score[p], w), p)
      BY <1>1 DEF Decision
    <2>2. p \in VisibleObjects
      BY DEF MostEntrenched
    <2>3. PICK q \in VisibleObjects : q # obj[a]
      BY <1>1 DEF Conflict
    <2>4. \/ d.status = "active" /\ d.losers = {p}
          \/ d.status \in {"contested", "quarantine_candidate"} /\ d.losers = {}
      BY <2>1, SentenceShape
    <2> QED
      BY <2>2, <2>3, <2>4 DEF DefaultVisible
  <1>2. CASE ~(card # "multi" /\ Conflict(VisibleObjects, obj[a]))
    BY <1>2 DEF Decision, Unopposed, DefaultVisible
  <1> QED
    BY <1>1, <1>2

-----------------------------------------------------------------------------
(* Type correctness.                                                       *)

LEMMA TypeInit == Init => TypeOK
  BY ConstantsAssumption
  DEF Init, TypeOK, Time, Seen, NothingSeen, Status, Cardinalities, Step

LEMMA SettleType ==
  ASSUME TypeOK, NEW a \in Agent, NEW d,
         d.status \in Status, d.losers \in SUBSET Object, Settle(a, d)
  PROVE  /\ ruled' \in [Agent -> Cardinalities]
         /\ decided' \in [Agent -> Status]
         /\ losers' \in [Agent -> SUBSET Object]
         /\ inherited' \in [Process -> SUBSET Object]
         /\ pc' \in [Agent -> Step]
         /\ UNCHANGED <<store, locks, obj, seen, loser, clock>>
  BY DEF Settle, TypeOK, Goto, Step, Critical, store, payload, locks

\* A call that works on a triple has one.
ObjectKnown ==
  \A a \in Agent :
    pc[a] \in {"axis", "read", "duel", "write", "reopen"} => obj[a] \in Object

LEMMA TypeStep == TypeOK /\ ObjectKnown /\ [Next]_vars => TypeOK'
  <1> SUFFICES ASSUME TypeOK, ObjectKnown, [Next]_vars PROVE TypeOK'
    OBVIOUS
  <1> USE DEF locks, store, payload, locals
  <1>1. ASSUME NEW a \in Agent, NEW o \in Object, AddBegin(a, o) PROVE TypeOK'
    BY <1>1, ConstantsAssumption DEF AddBegin, Goto, TypeOK, Step
  <1>2. ASSUME NEW a \in Agent, AddLock(a) PROVE TypeOK'
    BY <1>2 DEF AddLock, Goto, TypeOK, Step, Critical
  <1>3. ASSUME NEW a \in Agent, AddRead(a) \/ AddReadFails(a) PROVE TypeOK'
    <2>1. conf[obj[a]] \in Nat /\ created[obj[a]] \in Time
      BY <1>3 DEF AddRead, AddReadFails, TypeOK, ObjectKnown
    <2>2. seen' \in [Agent -> Seen]
      BY <1>3, <2>1 DEF AddRead, AddReadFails, TypeOK, Seen, NothingSeen, Time
    <2>3. pc' \in [Agent -> Step] /\ faults' \in Nat
      BY <1>3 DEF AddRead, AddReadFails, Goto, TypeOK, Step, Critical
    <2> QED
      BY <1>3, <2>2, <2>3 DEF AddRead, AddReadFails, TypeOK
  <1>4. ASSUME NEW a \in Agent, AddRefuse(a) PROVE TypeOK'
    BY <1>4, ReleaseType DEF AddRefuse, TypeOK
  <1>5. ASSUME NEW a \in Agent, AddDuel(a) PROVE TypeOK'
    <2>1. PICK d \in Decision(a, Scores) : Settle(a, d)
      BY <1>5 DEF AddDuel
    <2>2. d.status \in Status /\ d.losers \in SUBSET Object
      BY DecisionShape DEF Status, VisibleObjects
    <2> QED
      BY <1>5, <2>1, <2>2, SettleType DEF AddDuel, TypeOK
  <1>6. ASSUME NEW a \in Agent, AddDuelBlind(a) PROVE TypeOK'
    <2>1. PICK d : /\ Settle(a, d)
                   /\ d = Unopposed \/ \E score : d \in Decision(a, score)
      BY <1>6 DEF AddDuelBlind
    <2>2. d.status \in Status /\ d.losers \in SUBSET Object
      BY <2>1, DecisionShape DEF Unopposed, Status, VisibleObjects
    <2> QED
      BY <1>6, <2>1, <2>2, SettleType DEF AddDuelBlind, TypeOK
  <1>7. ASSUME NEW a \in Agent, AddWrite(a) PROVE TypeOK'
    <2>0. seen[a].conf \in Nat /\ seen[a].created \in Time
      BY DEF TypeOK, Seen
    <2>a. obj[a] \in Object
      BY <1>7 DEF AddWrite, ObjectKnown
    <2>b. status' \in [Object -> Status \cup {"none"}]
      BY <1>7, <2>a DEF AddWrite, TypeOK
    <2>c. valid' \in [Object -> BOOLEAN]
      BY <1>7, <2>a DEF AddWrite, TypeOK
    <2>d. created' \in [Object -> Time]
      BY <1>7, <2>a, <2>0 DEF AddWrite, TypeOK, Time
    <2>e. until' \in [Object -> Time]
      BY <1>7, <2>a DEF AddWrite, TypeOK, Time
    <2>f. conf' \in [Object -> Nat]
      BY <1>7, <2>a, <2>0 DEF AddWrite, TypeOK
    <2>g. deps' \in [Object -> Nat]
      BY <1>7, <2>a DEF AddWrite, TypeOK
    <2>2. CASE Release({a})
      BY <1>7, <2>b, <2>c, <2>d, <2>e, <2>f, <2>g, <2>2, ReleaseType
      DEF AddWrite, TypeOK
    <2>3. CASE Goto(a, "retire") /\ UNCHANGED <<locals, locks>>
      BY <1>7, <2>b, <2>c, <2>d, <2>e, <2>f, <2>g, <2>3 DEF AddWrite, TypeOK, Goto, Step, Critical
    <2> QED
      BY <1>7, <2>2, <2>3 DEF AddWrite
  <1>8. ASSUME NEW a \in Agent, RetireStatus(a) PROVE TypeOK'
    <2>1. PICK o \in losers[a] :
            /\ status' = [status EXCEPT ![o] = RetiredStatus(ruled[a])]
            /\ loser' = [loser EXCEPT ![a] = o]
      BY <1>8 DEF RetireStatus
    <2>2. RetiredStatus(ruled[a]) \in Status
      BY DEF RetiredStatus, Status
    <2>3. o \in Object
      BY DEF TypeOK
    <2> QED
      BY <1>8, <2>1, <2>2, <2>3 DEF RetireStatus, TypeOK, Goto, Step, Critical
  <1>9. ASSUME NEW a \in Agent, RetireUntil(a) PROVE TypeOK'
    <2>1. until' \in [Object -> Time]
      BY <1>9 DEF RetireUntil, TypeOK, Time
    <2>2. CASE Release({a})
      BY <1>9, <2>1, <2>2, ReleaseType DEF RetireUntil, TypeOK
    <2>3. CASE /\ losers' = [losers EXCEPT ![a] = losers[a] \ {loser[a]}]
               /\ Goto(a, "retire")
               /\ UNCHANGED <<locks, obj, seen, ruled, decided, loser>>
      BY <1>9, <2>1, <2>3 DEF RetireUntil, TypeOK, Goto, Step, Critical
    <2> QED
      BY <1>9, <2>2, <2>3 DEF RetireUntil
  <1>10. ASSUME NEW a \in Agent, NEW o \in Object, Invalidate(a, o) PROVE TypeOK'
    BY <1>10 DEF Invalidate, TypeOK, Time
  <1>11. ASSUME NEW a \in Agent, NEW o \in Object, RestoreValid(a, o) PROVE TypeOK'
    BY <1>11 DEF RestoreValid, TypeOK, Goto, Step, Critical
  <1>12. ASSUME NEW a \in Agent, RestoreUntil(a) PROVE TypeOK'
    <2>1. until' \in [Object -> Time]
      BY <1>12 DEF RestoreUntil, TypeOK, Time
    <2> QED
      BY <1>12, <2>1, ReleaseType DEF RestoreUntil, TypeOK
  <1>13. ASSUME NEW a \in Agent, RedoPlan(a) PROVE TypeOK'
    BY <1>13 DEF RedoPlan, TypeOK, Goto, Step
  <1>14. ASSUME NEW a \in Agent, RedoLock(a) PROVE TypeOK'
    BY <1>14 DEF RedoLock, TypeOK, Goto, Step, Critical
  <1>15. ASSUME NEW a \in Agent, RedoRead(a) PROVE TypeOK'
    <2>1. losers' \in [Agent -> SUBSET Object]
      BY <1>15 DEF RedoRead, TypeOK, VisibleObjects
    <2> QED
      BY <1>15, <2>1 DEF RedoRead, TypeOK, Goto, Step, Critical
  <1>16. ASSUME NEW a \in Agent, RedoNothing(a) PROVE TypeOK'
    BY <1>16, ReleaseType DEF RedoNothing, TypeOK
  <1>17. ASSUME NEW o \in Object, NEW n \in Backfill, BackfillDependants(o, n)
         PROVE TypeOK'
    BY <1>17, ConstantsAssumption DEF BackfillDependants, TypeOK
  <1>18. ASSUME NEW c \in Registrations, RegisterCardinality(c) PROVE TypeOK'
    BY <1>18, ConstantsAssumption DEF RegisterCardinality, TypeOK
  <1>19. ASSUME NEW p \in Process, Briefing(p) \/ SessionEnd(p) PROVE TypeOK'
    BY <1>19 DEF Briefing, SessionEnd, TypeOK, VisibleObjects
  <1>20. CASE Tick
    BY <1>20 DEF Tick, TypeOK
  <1>21. ASSUME NEW a \in Agent, Abort(a) PROVE TypeOK'
    BY <1>21, ReleaseType DEF Abort, TypeOK
  <1>22. ASSUME NEW p \in Process, Crash(p) PROVE TypeOK'
    <2>1. {a \in Agent : ProcessOf[a] = p} \in SUBSET Agent
      OBVIOUS
    <2> QED
      BY <1>22, <2>1, ReleaseType DEF Crash, TypeOK
  <1>23. CASE UNCHANGED vars
    BY <1>23 DEF vars, TypeOK
  <1> QED
    BY <1>1, <1>2, <1>3, <1>4, <1>5, <1>6, <1>7, <1>8, <1>9, <1>10, <1>11, <1>12,
       <1>13, <1>14, <1>15, <1>16, <1>17, <1>18, <1>19, <1>20, <1>21, <1>22, <1>23
    DEF Next, Start, Continue, Unlocked

LEMMA ObjectInit == Init => ObjectKnown
  BY DEF Init, ObjectKnown

LEMMA ObjectStep == TypeOK /\ ObjectKnown /\ [Next]_vars => ObjectKnown'
  <1> SUFFICES ASSUME TypeOK, ObjectKnown, [Next]_vars PROVE ObjectKnown'
    OBVIOUS
  <1> USE DEF locks, store, payload, locals, Goto, ObjectKnown, TypeOK
  <1>1. ASSUME NEW a \in Agent, NEW o \in Object, AddBegin(a, o) \/ RestoreValid(a, o)
        PROVE ObjectKnown'
    BY <1>1 DEF AddBegin, RestoreValid
  <1>2. ASSUME NEW a \in Agent,
               \/ AddLock(a) \/ AddRead(a) \/ AddReadFails(a)
               \/ RetireStatus(a) \/ RedoPlan(a) \/ RedoLock(a) \/ RedoRead(a)
        PROVE ObjectKnown'
    BY <1>2 DEF AddLock, AddRead, AddReadFails, RetireStatus, RedoPlan, RedoLock,
                RedoRead
  <1>3. ASSUME NEW A \in SUBSET Agent, Release(A) PROVE ObjectKnown'
    BY <1>3 DEF Release
  <1>4. ASSUME NEW a \in Agent, AddDuel(a) \/ AddDuelBlind(a) PROVE ObjectKnown'
    BY <1>4 DEF AddDuel, AddDuelBlind, Settle
  <1>5. ASSUME NEW a \in Agent, AddWrite(a) \/ RetireUntil(a) PROVE ObjectKnown'
    BY <1>3, <1>5 DEF AddWrite, RetireUntil
  <1>6. ASSUME NEW a \in Agent, AddRefuse(a) \/ RestoreUntil(a) \/ RedoNothing(a) \/ Abort(a)
        PROVE ObjectKnown'
    BY <1>3, <1>6 DEF AddRefuse, RestoreUntil, RedoNothing, Abort
  <1>7. ASSUME NEW p \in Process, Crash(p) PROVE ObjectKnown'
    BY <1>3, <1>7 DEF Crash
  <1>8. ASSUME NEW a \in Agent, NEW o \in Object, Invalidate(a, o) PROVE ObjectKnown'
    BY <1>8 DEF Invalidate
  <1>9. ASSUME Unlocked \/ Tick \/ UNCHANGED vars PROVE ObjectKnown'
    BY <1>9 DEF Unlocked, Tick, vars, BackfillDependants, RegisterCardinality,
                Briefing, SessionEnd
  <1> QED
    BY <1>1, <1>2, <1>4, <1>5, <1>6, <1>7, <1>8, <1>9 DEF Next, Start, Continue

\* Every payload key, registry entry, lock and local keeps its type.
THEOREM TypeCorrect == Spec => []TypeOK
  BY TypeInit, TypeStep, ObjectInit, ObjectStep, PTL DEF Spec

-----------------------------------------------------------------------------
(* The critical section.                                                   *)

LEMMA OneInsideStep == TypeOK /\ OneInside /\ [Next]_vars => OneInside'
  <1> SUFFICES ASSUME TypeOK, OneInside, [Next]_vars PROVE OneInside'
    OBVIOUS
  <1> USE ConstantsAssumption
      DEF locks, store, payload, locals, Goto, OneInside, TypeOK, Critical
  <1>1. ASSUME NEW a \in Agent, NEW o \in Object,
               AddBegin(a, o) \/ Invalidate(a, o) \/ RestoreValid(a, o)
        PROVE OneInside'
    BY <1>1 DEF AddBegin, Invalidate, RestoreValid
  <1>2. ASSUME NEW a \in Agent, AddLock(a) \/ RedoPlan(a) \/ RedoLock(a)
        PROVE OneInside'
    BY <1>2 DEF AddLock, RedoPlan, RedoLock
  <1>3. ASSUME NEW a \in Agent,
               \/ AddRead(a) \/ AddReadFails(a)
               \/ RetireStatus(a) \/ RedoRead(a)
        PROVE OneInside'
    BY <1>3 DEF AddRead, AddReadFails, RetireStatus, RedoRead
  <1>4. ASSUME NEW a \in Agent, AddDuel(a) \/ AddDuelBlind(a) PROVE OneInside'
    BY <1>4 DEF AddDuel, AddDuelBlind, Settle
  <1>5. ASSUME NEW A \in SUBSET Agent, Release(A) PROVE OneInside'
    BY <1>5 DEF Release
  <1>6. ASSUME NEW a \in Agent, AddWrite(a) \/ RetireUntil(a) PROVE OneInside'
    BY <1>5, <1>6 DEF AddWrite, RetireUntil
  <1>7. ASSUME NEW a \in Agent,
               AddRefuse(a) \/ RestoreUntil(a) \/ RedoNothing(a) \/ Abort(a)
        PROVE OneInside'
    BY <1>5, <1>7 DEF AddRefuse, RestoreUntil, RedoNothing, Abort
  <1>8. ASSUME NEW p \in Process, Crash(p) PROVE OneInside'
    BY <1>5, <1>8 DEF Crash
  <1>9. CASE Unlocked \/ Tick \/ UNCHANGED vars
    BY <1>9 DEF Unlocked, Tick, vars, BackfillDependants, RegisterCardinality,
                Briefing, SessionEnd
  <1> QED
    BY <1>1, <1>2, <1>3, <1>4, <1>6, <1>7, <1>8, <1>9 DEF Next, Start, Continue

\* The claims Grounded makes about one agent.
Holds(c) == ReadHolds(c) /\ DecisionHolds(c) /\ RetirementHolds(c)

\* Outside the critical section they claim nothing.
LEMMA Outside ==
  ASSUME NEW c \in Agent, pc'[c] \notin Critical \/ pc'[c] \in {"read", "reopen", "redo_read"}
  PROVE  Holds(c)'
  BY DEF Holds, ReadHolds, DecisionHolds, RetirementHolds, Critical

\* They speak of nothing but these keys and the agent's own locals.
LEMMA Undisturbed ==
  ASSUME NEW c \in Agent, Holds(c), UNCHANGED <<status, valid, created, conf>>,
         pc'[c] = pc[c], obj'[c] = obj[c], seen'[c] = seen[c],
         decided'[c] = decided[c], losers'[c] = losers[c], loser'[c] = loser[c]
  PROVE  Holds(c)'
  BY DEF Holds, ReadHolds, DecisionHolds, RetirementHolds, Invalidated, Stored,
         Visible, VisibleObjects

\* The end of calls disturbs no other agent.
LEMMA AfterRelease ==
  ASSUME TypeOK, NEW A \in SUBSET Agent, Release(A),
         UNCHANGED <<status, valid, created, conf>>, NEW c \in Agent, Holds(c)
  PROVE  Holds(c)'
  <1>1. CASE c \in A
    BY <1>1, Outside DEF Release, Critical
  <1>2. CASE c \notin A
    BY <1>2, Undisturbed DEF Release
  <1> QED
    BY <1>1, <1>2

LEMMA GroundedInit == Init => Grounded
  BY DEF Init, Grounded, OneInside, Critical, DatedRows, Stored, ReadHolds,
         DecisionHolds, RetirementHolds

\* Every row that exists has a created_at.
LEMMA DatedRowsStep ==
  TypeOK /\ ObjectKnown /\ Grounded /\ [Next]_vars => DatedRows'
  <1> SUFFICES ASSUME TypeOK, ObjectKnown, Grounded, [Next]_vars PROVE DatedRows'
    OBVIOUS
  <1> USE DEF store, payload, DatedRows, Stored, TypeOK
  <1>1. CASE UNCHANGED <<status, created>>
    BY <1>1 DEF Grounded
  <1>2. ASSUME NEW a \in Agent, AddWrite(a) PROVE DatedRows'
    <2>1. obj[a] \in Object
      BY <1>2 DEF AddWrite, ObjectKnown
    <2>2. seen[a].created # None => seen[a].created \in Nat
      BY DEF Seen, Time
    <2> QED
      BY <1>2, <2>1, <2>2, ConstantsAssumption DEF AddWrite, Grounded
  <1>3. ASSUME NEW a \in Agent, RetireStatus(a) PROVE DatedRows'
    <2>1. \A o \in losers[a] : Stored(o)
      BY <1>3 DEF RetireStatus, Grounded, RetirementHolds
    <2> QED
      BY <1>3, <2>1 DEF RetireStatus, Grounded
  <1>4. ASSUME NEW a \in Agent,
               Start(a) \/ Abort(a) \/ (Continue(a) /\ ~AddWrite(a) /\ ~RetireStatus(a))
        PROVE UNCHANGED <<status, created>>
    BY <1>4
    DEF Start, Continue, Abort, AddBegin, AddLock, AddRead, AddRefuse, AddReadFails,
        AddDuel, AddDuelBlind, Settle, RetireUntil, Invalidate, RestoreValid,
        RestoreUntil, RedoPlan, RedoLock, RedoRead, RedoNothing
  <1>5. ASSUME (\E p \in Process : Crash(p)) \/ Unlocked \/ Tick \/ UNCHANGED vars
        PROVE UNCHANGED <<status, created>>
    BY <1>5 DEF Crash, Unlocked, Tick, vars, BackfillDependants, RegisterCardinality,
                Briefing, SessionEnd
  <1> QED
    BY <1>1, <1>2, <1>3, <1>4, <1>5 DEF Next

\* The step of an agent that holds the facts lock, seen by another agent.
LEMMA OthersHold ==
  ASSUME OneInside, NEW a \in Agent, NEW c \in Agent, c # a, pc[a] \in Critical,
         pc'[c] = pc[c]
  PROVE  Holds(c)'
  BY Outside DEF OneInside

\* The duel's decision, taken from the visible rows, holds when it is taken.
LEMMA SettleHolds ==
  ASSUME TypeOK, OneInside, NEW a \in Agent, pc[a] = "duel", Holds(a),
         NEW d, Settle(a, d),
         d.status \in {"active", "contested", "quarantine_candidate"},
         d.losers \in SUBSET VisibleObjects,
         d.losers # {} => d.status = "active",
         d.status \notin DefaultVisible \/ obj[a] \in d.losers
           => \E p \in VisibleObjects : p # obj[a] /\ p \notin d.losers,
         NEW c \in Agent
  PROVE  Holds(c)'
  <1> USE DEF Settle, Goto, TypeOK, store, payload
  <1>1. CASE c # a
    BY <1>1, OthersHold DEF Critical
  <1>2. CASE c = a
    <2>1. pc'[a] = "write" /\ decided'[a] = d.status /\ losers'[a] = d.losers
      OBVIOUS
    <2>2. VisibleObjects' = VisibleObjects
      BY DEF VisibleObjects, Visible
    <2>3. ReadHolds(a)'
      BY <2>1 DEF Holds, ReadHolds, Invalidated, Stored
    <2>4. DecisionHolds(a)'
      BY <2>1, <2>2 DEF DecisionHolds, DefaultVisible
    <2>5. RetirementHolds(a)'
      BY <2>1 DEF RetirementHolds
    <2> QED
      BY <1>2, <2>3, <2>4, <2>5 DEF Holds
  <1> QED
    BY <1>1, <1>2

\* The upsert makes the row visible, or hides it beside a visible one; the
\* losers keep their keys.
LEMMA WriteHolds ==
  ASSUME TypeOK, ObjectKnown, Grounded, NEW a \in Agent, AddWrite(a), NEW c \in Agent
  PROVE  Holds(c)'
  <1> USE DEF TypeOK, store, payload, locks, locals
  <1>1. pc[a] = "write" /\ Holds(a) /\ OneInside
    BY DEF AddWrite, Grounded, Holds
  <1>2. obj[a] \in Object
    BY <1>1 DEF ObjectKnown
  <1>3. CASE Release({a})
    BY <1>1, <1>3, OthersHold, Outside DEF Release, Critical
  <1>4. CASE losers[a] # {} /\ Goto(a, "retire") /\ UNCHANGED <<locals, locks>>
    <2>1. CASE c # a
      BY <1>1, <1>4, <2>1, OthersHold DEF Goto, Critical
    <2>2. CASE c = a
      <3>1. pc'[a] = "retire" /\ losers'[a] = losers[a]
        BY <1>4 DEF Goto
      <3>2. decided[a] = "active" /\ losers[a] \subseteq VisibleObjects
        BY <1>1, <1>4 DEF Holds, DecisionHolds
      <3>3. /\ status'[obj[a]] = "active" /\ valid'[obj[a]]
            /\ \A o \in Object \ {obj[a]} : status'[o] = status[o] /\ valid'[o] = valid[o]
        BY <1>2, <3>2 DEF AddWrite
      <3>4. VisibleObjects \cup {obj[a]} \subseteq VisibleObjects'
        BY <1>2, <3>3 DEF VisibleObjects, Visible, DefaultVisible
      <3>5. \A o \in losers[a] : Stored(o)' /\ valid'[o]
        BY <3>2, <3>3 DEF VisibleObjects, Visible, DefaultVisible, Stored
      <3>6. VisibleObjects' \ losers[a] # {}
        BY <1>1, <3>4 DEF Holds, DecisionHolds
      <3>7. RetirementHolds(a)'
        BY <3>1, <3>5, <3>6 DEF RetirementHolds
      <3> QED
        BY <2>2, <3>1, <3>7 DEF Holds, ReadHolds, DecisionHolds
    <2> QED
      BY <2>1, <2>2
  <1> QED
    BY <1>3, <1>4 DEF AddWrite

\* Retiring a loser leaves the rows that are not losers visible.
LEMMA RetireHolds ==
  ASSUME TypeOK, Grounded, NEW a \in Agent, RetireStatus(a) \/ RetireUntil(a),
         NEW c \in Agent
  PROVE  Holds(c)'
  <1> USE DEF TypeOK, store, payload, locks, locals, Goto
  <1>1. pc[a] \in {"retire", "stamp"} /\ Holds(a) /\ Holds(c) /\ OneInside
    BY DEF RetireStatus, RetireUntil, Grounded, Holds
  <1>2. CASE c # a
    <2>1. pc'[c] = pc[c]
      BY <1>2 DEF RetireStatus, RetireUntil, Release
    <2> QED
      BY <1>1, <1>2, <2>1, OthersHold DEF Critical
  <1>3. CASE c = a /\ RetireStatus(a)
    <2>1. PICK o \in losers[a] :
            /\ status' = [status EXCEPT ![o] = RetiredStatus(ruled[a])]
            /\ loser' = [loser EXCEPT ![a] = o]
      BY <1>3 DEF RetireStatus
    <2>2. pc'[a] = "stamp" /\ losers' = losers /\ valid' = valid /\ loser'[a] = o
      BY <1>3, <2>1 DEF RetireStatus
    <2>3. VisibleObjects \ losers[a] \subseteq VisibleObjects'
      BY <2>1, <2>2 DEF VisibleObjects, Visible
    <2>4. \A q \in losers[a] : Stored(q)'
      BY <1>1, <2>1 DEF Holds, RetirementHolds, Stored, RetiredStatus
    <2>5. RetirementHolds(a)'
      BY <1>1, <2>2, <2>3, <2>4 DEF Holds, RetirementHolds
    <2> QED
      BY <1>3, <2>2, <2>5 DEF Holds, ReadHolds, DecisionHolds
  <1>4. CASE c = a /\ RetireUntil(a) /\ Release({a})
    BY <1>4, Outside DEF Release, Critical
  <1>5. CASE /\ c = a /\ RetireUntil(a)
             /\ losers' = [losers EXCEPT ![a] = losers[a] \ {loser[a]}]
             /\ Goto(a, "retire")
    <2>1. pc'[a] = "retire" /\ losers'[a] = losers[a] \ {loser[a]}
          /\ status' = status /\ valid' = valid
      BY <1>5 DEF RetireUntil
    <2>2. VisibleObjects' = VisibleObjects
      BY <2>1 DEF VisibleObjects, Visible
    <2>3. RetirementHolds(a)'
      BY <1>1, <2>1, <2>2 DEF Holds, RetirementHolds, Stored
    <2> QED
      BY <1>5, <2>1, <2>3 DEF Holds, ReadHolds, DecisionHolds
  <1> QED
    BY <1>2, <1>3, <1>4, <1>5 DEF RetireUntil

\* redo-duels keeps the newest of the rows it read.
LEMMA RedoReadHolds ==
  ASSUME TypeOK, Grounded, NEW a \in Agent, RedoRead(a), NEW c \in Agent
  PROVE  Holds(c)'
  <1> USE DEF TypeOK, store, payload, locks, locals, Goto
  <1>1. pc[a] = "redo_read" /\ OneInside
    BY DEF RedoRead, Grounded
  <1>2. CASE c # a
    BY <1>1, <1>2, OthersHold DEF RedoRead, Critical
  <1>3. CASE c = a
    <2>1. PICK keep \in Newest(VisibleObjects) :
            losers' = [losers EXCEPT ![a] = VisibleObjects \ {keep}]
      BY DEF RedoRead
    <2>2. pc'[a] = "retire" /\ losers'[a] = VisibleObjects \ {keep}
          /\ status' = status /\ valid' = valid
      BY <2>1 DEF RedoRead
    <2>3. VisibleObjects' = VisibleObjects /\ keep \in VisibleObjects
      BY <2>1, <2>2 DEF VisibleObjects, Visible, Newest
    <2>4. RetirementHolds(a)'
      BY <2>2, <2>3
      DEF RetirementHolds, VisibleObjects, Visible, DefaultVisible, Stored
    <2> QED
      BY <1>3, <2>2, <2>4 DEF Holds, ReadHolds, DecisionHolds
  <1> QED
    BY <1>2, <1>3

LEMMA HoldsStep ==
  ASSUME TypeOK, ObjectKnown, Grounded, [Next]_vars, NEW c \in Agent
  PROVE  Holds(c)'
  <1> USE DEF TypeOK, store, payload, locks, locals, Goto
  <1>1. Holds(c) /\ OneInside
    BY DEF Grounded, Holds
  <1>2. ASSUME NEW a \in Agent, NEW o \in Object, AddBegin(a, o) PROVE Holds(c)'
    BY <1>1, <1>2, Undisturbed, Outside DEF AddBegin, Critical
  <1>3. ASSUME NEW a \in Agent, AddLock(a) \/ RedoPlan(a) \/ RedoLock(a)
        PROVE Holds(c)'
    <2>1. CASE c = a
      BY <1>3, <2>1, Outside DEF AddLock, RedoPlan, RedoLock, Critical
    <2>2. CASE c # a
      BY <1>1, <1>3, <2>2, Undisturbed DEF AddLock, RedoPlan, RedoLock
    <2> QED
      BY <2>1, <2>2
  <1>4. ASSUME NEW a \in Agent, AddRead(a) \/ AddReadFails(a) PROVE Holds(c)'
    <2>1. CASE c # a
      BY <1>1, <1>4, <2>1, Undisturbed DEF AddRead, AddReadFails
    <2>2. CASE c = a
      BY <1>4, <2>2
      DEF AddRead, AddReadFails, Holds, ReadHolds, DecisionHolds, RetirementHolds,
          Invalidated, Stored
    <2> QED
      BY <2>1, <2>2
  <1>5. ASSUME NEW a \in Agent, AddDuel(a) PROVE Holds(c)'
    <2>1. PICK d \in Decision(a, Scores) : Settle(a, d)
      BY <1>5 DEF AddDuel
    <2>2. pc[a] = "duel" /\ Holds(a)
      BY <1>5 DEF AddDuel, Grounded, Holds
    <2> QED
      BY <1>1, <2>1, <2>2, DecisionShape, SettleHolds
  <1>6. ASSUME NEW a \in Agent, AddDuelBlind(a) PROVE Holds(c)'
    <2>1. pc[a] = "duel" /\ Holds(a)
      BY <1>6 DEF AddDuelBlind, Grounded, Holds
    <2>2. Unopposed.status = "active" /\ Unopposed.losers = {}
      BY DEF Unopposed
    <2>3. CASE Settle(a, Unopposed)
      BY <1>1, <2>1, <2>2, <2>3, SettleHolds DEF DefaultVisible
    <2>4. ASSUME NEW score, NEW d \in Decision(a, score), Settle(a, d)
          PROVE  Holds(c)'
      BY <1>1, <2>1, <2>4, DecisionShape, SettleHolds
    <2> QED
      BY <1>6, <2>3, <2>4 DEF AddDuelBlind
  <1>7. ASSUME NEW a \in Agent, AddRefuse(a) \/ RestoreUntil(a) \/ RedoNothing(a) \/ Abort(a)
        PROVE Holds(c)'
    BY <1>1, <1>7, AfterRelease DEF AddRefuse, RestoreUntil, RedoNothing, Abort
  <1>8. ASSUME NEW p \in Process, Crash(p) PROVE Holds(c)'
    BY <1>1, <1>8, AfterRelease DEF Crash
  <1>9. ASSUME NEW a \in Agent, NEW o \in Object, Invalidate(a, o) PROVE Holds(c)'
    <2>1. pc'[c] \notin Critical
      BY <1>1, <1>9, ConstantsAssumption DEF Invalidate, OneInside
    <2> QED
      BY <2>1, Outside
  <1>10. ASSUME NEW a \in Agent, NEW o \in Object, RestoreValid(a, o) PROVE Holds(c)'
    <2>1. pc'[c] \notin Critical \/ pc'[c] = "reopen"
      BY <1>1, <1>10, ConstantsAssumption DEF RestoreValid, OneInside
    <2> QED
      BY <2>1, Outside
  <1>11. CASE Unlocked \/ Tick \/ UNCHANGED vars
    BY <1>1, <1>11, Undisturbed
    DEF Unlocked, Tick, vars, BackfillDependants, RegisterCardinality, Briefing,
        SessionEnd
  <1> QED
    BY <1>2, <1>3, <1>4, <1>5, <1>6, <1>7, <1>8, <1>9, <1>10, <1>11, WriteHolds,
       RetireHolds, RedoReadHolds
    DEF Next, Start, Continue

\* What a call read and decided under the facts lock still holds when it
\* writes: Grounded is an invariant, faults included.
THEOREM CriticalSection == Spec => []Grounded
  <1>1. TypeOK /\ ObjectKnown /\ Grounded /\ [Next]_vars => Grounded'
    <2> SUFFICES ASSUME TypeOK, ObjectKnown, Grounded, [Next]_vars PROVE Grounded'
      OBVIOUS
    <2>1. OneInside'
      BY OneInsideStep DEF Grounded
    <2>2. DatedRows'
      BY DatedRowsStep
    <2>3. \A a \in Agent : Holds(a)'
      BY HoldsStep
    <2> QED
      BY <2>1, <2>2, <2>3 DEF Grounded, Holds
  <1> QED
    BY TypeInit, TypeStep, ObjectInit, ObjectStep, GroundedInit, <1>1, PTL DEF Spec

-----------------------------------------------------------------------------
(* What a reader of the axis may rely on.                                  *)

\* Explicit invalidate is final, as long as the read of the prior row does
\* not fail: only restore makes an invalidated fact valid again.
THEOREM InvalidateStays ==
  ASSUME "read" \notin Faults
  PROVE  Spec => InvalidateIsFinal
  <1> DEFINE Final == \A o \in Object :
                 Invalidated(o) /\ valid'[o] => \E a \in Agent : RestoreValid(a, o)
  <1>1. TypeOK /\ ObjectKnown /\ Grounded /\ [Next]_vars => [Final]_vars
    <2> SUFFICES ASSUME TypeOK, ObjectKnown, Grounded, Next,
                        NEW o \in Object, Invalidated(o), valid'[o]
                 PROVE  \E a \in Agent : RestoreValid(a, o)
      OBVIOUS
    <2> USE DEF Invalidated, store, payload
    <2>1. ASSUME NEW a \in Agent, Continue(a) PROVE FALSE
      <3>1. CASE AddWrite(a)
        <4>1. ~Invalidated(obj[a])
          BY <3>1 DEF AddWrite, Grounded, ReadHolds
        <4>2. valid'[o] = valid[o]
          BY <3>1, <4>1 DEF AddWrite, TypeOK
        <4> QED
          BY <4>2
      <3>2. CASE ~AddWrite(a)
        BY <2>1, <3>2
        DEF Continue, AddLock, AddRead, AddRefuse, AddReadFails, AddDuel,
            AddDuelBlind, Settle, RetireStatus, RetireUntil, RestoreUntil, RedoLock,
            RedoRead, RedoNothing
      <3> QED
        BY <3>1, <3>2
    <2>2. ASSUME NEW a \in Agent, Start(a) PROVE RestoreValid(a, o)
      BY <2>2 DEF Start, AddBegin, Invalidate, RestoreValid, RedoPlan, TypeOK
    <2>3. ~ \E a \in Agent : Abort(a)
      BY DEF Abort
    <2>4. ~ ((\E p \in Process : Crash(p)) \/ Unlocked \/ Tick)
      BY DEF Crash, Unlocked, Tick, BackfillDependants, RegisterCardinality,
             Briefing, SessionEnd
    <2> QED
      BY <2>1, <2>2, <2>3, <2>4 DEF Next
  <1>2. Spec => [][Final]_vars
    BY <1>1, TypeCorrect, CriticalSection, ObjectInit, ObjectStep, PTL DEF Spec
  <1> QED
    BY <1>2 DEF InvalidateIsFinal

\* An axis that shows a value goes on showing one, failed reads and crashes
\* included: only invalidate takes the last visible fact away.
THEOREM AxisKeeps == Spec => AxisKeepsAValue
  <1> DEFINE Keeps == VisibleObjects # {} /\ VisibleObjects' = {}
                        => \E a \in Agent, o \in Object : Invalidate(a, o)
  <1>1. TypeOK /\ ObjectKnown /\ Grounded /\ [Next]_vars => [Keeps]_vars
    <2> SUFFICES ASSUME TypeOK, ObjectKnown, Grounded, Next, VisibleObjects # {},
                        \A a \in Agent, o \in Object : ~Invalidate(a, o)
                 PROVE  VisibleObjects' # {}
      OBVIOUS
    <2> USE DEF store, payload, TypeOK
    <2>1. ASSUME UNCHANGED <<status, valid>> PROVE VisibleObjects' # {}
      BY <2>1 DEF VisibleObjects, Visible
    <2>2. ASSUME NEW a \in Agent, AddWrite(a) PROVE VisibleObjects' # {}
      <3>1. obj[a] \in Object /\ DecisionHolds(a)
        BY <2>2 DEF AddWrite, ObjectKnown, Grounded
      <3>2. CASE decided[a] \in DefaultVisible
        BY <2>2, <3>1, <3>2 DEF AddWrite, VisibleObjects, Visible, DefaultVisible
      <3>3. CASE decided[a] = "quarantine_candidate"
        <4>1. PICK o \in VisibleObjects : o # obj[a]
          BY <2>2, <3>1, <3>3 DEF AddWrite, DecisionHolds
        <4> QED
          BY <2>2, <4>1 DEF AddWrite, VisibleObjects, Visible
      <3> QED
        BY <2>2, <3>1, <3>2, <3>3 DEF AddWrite, DecisionHolds, DefaultVisible
    <2>3. ASSUME NEW a \in Agent, RetireStatus(a) PROVE VisibleObjects' # {}
      <3>1. PICK p \in VisibleObjects : p \notin losers[a]
        BY <2>3 DEF RetireStatus, Grounded, RetirementHolds
      <3> QED
        BY <2>3, <3>1 DEF RetireStatus, VisibleObjects, Visible
    <2>4. ASSUME NEW a \in Agent, NEW o \in Object, RestoreValid(a, o)
          PROVE  VisibleObjects' # {}
      BY <2>4 DEF RestoreValid, VisibleObjects, Visible
    <2>5. ASSUME NEW a \in Agent, Continue(a), ~AddWrite(a), ~RetireStatus(a)
          PROVE  UNCHANGED <<status, valid>>
      BY <2>5
      DEF Continue, AddLock, AddRead, AddRefuse, AddReadFails, AddDuel, AddDuelBlind,
          Settle, RetireUntil, RestoreUntil, RedoLock, RedoRead, RedoNothing
    <2>6. ASSUME NEW a \in Agent, Start(a) \/ Abort(a)
          PROVE  \/ UNCHANGED <<status, valid>>
                 \/ \E o \in Object : RestoreValid(a, o)
      BY <2>6 DEF Start, AddBegin, RedoPlan, Abort
    <2>7. ASSUME (\E p \in Process : Crash(p)) \/ Unlocked \/ Tick
          PROVE  UNCHANGED <<status, valid>>
      BY <2>7 DEF Crash, Unlocked, Tick, BackfillDependants, RegisterCardinality,
                  Briefing, SessionEnd
    <2> QED
      BY <2>1, <2>2, <2>3, <2>4, <2>5, <2>6, <2>7 DEF Next
  <1>2. Spec => [][Keeps]_vars
    BY <1>1, TypeCorrect, CriticalSection, ObjectInit, ObjectStep, PTL DEF Spec
  <1> QED
    BY <1>2 DEF AxisKeepsAValue

\* As long as the read of the prior row does not fail, each assertion of a
\* triple adds one confirmation and keeps its created_at.
THEOREM AssertionsCount ==
  ASSUME "read" \notin Faults
  PROVE  Spec => EveryAssertionCounts
  <1> DEFINE Counts == \A a \in Agent :
                 LET o == obj[a] IN
                   AddWrite(a) => /\ conf'[o] = conf[o] + 1
                                  /\ Stored(o) => created'[o] = created[o]
  <1>1. TypeOK /\ ObjectKnown /\ Grounded /\ [Next]_vars => [Counts]_vars
    <2> SUFFICES ASSUME TypeOK, ObjectKnown, Grounded, NEW a \in Agent, AddWrite(a)
                 PROVE  /\ conf'[obj[a]] = conf[obj[a]] + 1
                        /\ Stored(obj[a]) => created'[obj[a]] = created[obj[a]]
      OBVIOUS
    <2>1. obj[a] \in Object
      BY DEF AddWrite, ObjectKnown
    <2>2. seen[a].conf = conf[obj[a]] /\ seen[a].created = created[obj[a]]
      <3>1. pc[a] = "write" /\ ReadHolds(a)
        BY DEF AddWrite, Grounded
      <3> QED
        BY <3>1 DEF ReadHolds
    <2>3. Stored(obj[a]) => created[obj[a]] # None
      BY <2>1 DEF Grounded, DatedRows
    <2> QED
      BY <2>1, <2>2, <2>3 DEF AddWrite, TypeOK
  <1>2. Spec => [][Counts]_vars
    BY <1>1, TypeCorrect, CriticalSection, ObjectInit, ObjectStep, PTL DEF Spec
  <1> QED
    BY <1>2 DEF EveryAssertionCounts

-----------------------------------------------------------------------------
(* FactStore implements FactPromise.                                       *)

\* A payload write to one row changes the face of that value alone.
LEMMA OneFace ==
  ASSUME NEW o \in Object,
         \A p \in Object \ {o} : status'[p] = status[p] /\ valid'[p] = valid[p]
  PROVE  faces' = [faces EXCEPT ![o] = FaceOf(o)']
  BY DEF faces, FaceOf, Stored, Visible

\* Another row that is visible shows its value beside o.
LEMMA VisibleBeside ==
  ASSUME NEW o \in Object, NEW p \in VisibleObjects, p # o
  PROVE  Promise!ShownBeside(o)
  <1>1. p \in Object \ {o} /\ FaceOf(p) = "shown"
    BY DEF VisibleObjects, Visible, FaceOf, Stored, DefaultVisible
  <1> QED
    BY <1>1 DEF Promise!ShownBeside, faces

LEMMA PromiseInit == Init => Promise!Init
  BY DEF Init, Promise!Init, faces, FaceOf, Stored

LEMMA PromiseStep ==
  "read" \notin Faults /\ TypeOK /\ ObjectKnown /\ Grounded /\ [Next]_vars
    => [Promise!Next]_<<faces, conf>>
  <1> SUFFICES ASSUME "read" \notin Faults, TypeOK, ObjectKnown, Grounded, [Next]_vars
               PROVE  Promise!Next \/ UNCHANGED <<faces, conf>>
    OBVIOUS
  <1> USE DEF store, payload
  <1>1. ASSUME UNCHANGED <<status, valid, conf>> PROVE UNCHANGED <<faces, conf>>
    BY <1>1 DEF faces, FaceOf, Stored, Visible
  <1>2. ASSUME NEW a \in Agent, AddWrite(a) PROVE Promise!Next
    <2>1. pc[a] = "write" /\ obj[a] \in Object /\ ReadHolds(a) /\ DecisionHolds(a)
      BY <1>2 DEF AddWrite, ObjectKnown, Grounded
    <2>2. PICK o \in Object : o = obj[a]
      BY <2>1
    <2>3. ~Invalidated(o) /\ seen[a].conf = conf[o]
      BY <2>1, <2>2 DEF ReadHolds
    <2>4. /\ status' = [status EXCEPT ![o] = decided[a]]
          /\ valid' = [valid EXCEPT ![o] = TRUE]
          /\ conf' = [conf EXCEPT ![o] = conf[o] + 1]
      BY <1>2, <2>2, <2>3 DEF AddWrite
    <2>5. FaceOf(o) # "retracted"
      BY <2>3 DEF FaceOf, Invalidated
    <2>6. faces' = [faces EXCEPT ![o] = FaceOf(o)']
      BY <2>4, OneFace DEF TypeOK
    <2>7. status'[o] = decided[a] /\ valid'[o]
      BY <2>4 DEF TypeOK
    <2>8. CASE decided[a] \in DefaultVisible
      <3>1. FaceOf(o)' = "shown"
        BY <2>7, <2>8 DEF FaceOf, Stored, Visible, DefaultVisible
      <3>2. Promise!Assert(o)
        BY <2>4, <2>5, <2>6, <3>1 DEF Promise!Assert, faces
      <3> QED
        BY <3>2 DEF Promise!Next
    <2>9. CASE decided[a] = "quarantine_candidate"
      <3>1. FaceOf(o)' = "hidden"
        BY <2>7, <2>9 DEF FaceOf, Stored, Visible, DefaultVisible
      <3>2. Promise!ShownBeside(o)
        BY <2>1, <2>2, <2>9, VisibleBeside DEF DecisionHolds
      <3>3. Promise!Assert(o)
        BY <2>4, <2>5, <2>6, <3>1, <3>2 DEF Promise!Assert, faces
      <3> QED
        BY <3>3 DEF Promise!Next
    <2> QED
      BY <2>1, <2>8, <2>9 DEF DecisionHolds, DefaultVisible
  <1>3. ASSUME NEW a \in Agent, RetireStatus(a) PROVE Promise!Next
    <2>1. PICK o \in losers[a] : status' = [status EXCEPT ![o] = RetiredStatus(ruled[a])]
      BY <1>3 DEF RetireStatus
    <2>2. /\ o \in Object /\ Stored(o) /\ valid[o] /\ UNCHANGED <<valid, conf>>
          /\ \E p \in VisibleObjects : p \notin losers[a]
      BY <1>3, <2>1 DEF RetireStatus, Grounded, RetirementHolds, TypeOK
    <2>3. Promise!ShownBeside(o)
      BY <2>1, <2>2, VisibleBeside
    <2>4. status'[o] \in {"superseded", "stale"}
      BY <2>1, <2>2 DEF TypeOK, RetiredStatus
    <2>5. FaceOf(o) # "retracted" /\ FaceOf(o)' = "hidden"
      BY <2>2, <2>4 DEF FaceOf, Stored, Visible, DefaultVisible
    <2>6. faces' = [faces EXCEPT ![o] = FaceOf(o)']
      BY <2>1, <2>2, OneFace DEF TypeOK
    <2>7. Promise!Retire(o)
      BY <2>2, <2>3, <2>5, <2>6 DEF Promise!Retire, faces
    <2> QED
      BY <2>2, <2>7 DEF Promise!Next
  <1>4. ASSUME NEW a \in Agent, NEW o \in Object, Invalidate(a, o) PROVE Promise!Next
    <2>1. faces' = [faces EXCEPT ![o] = FaceOf(o)']
      BY <1>4, OneFace DEF Invalidate, TypeOK
    <2>2. FaceOf(o) # "absent" /\ FaceOf(o)' = "retracted" /\ conf' = conf
      BY <1>4 DEF Invalidate, FaceOf, Stored, TypeOK, Visible
    <2>3. Promise!Retract(o)
      BY <2>1, <2>2 DEF Promise!Retract, faces
    <2> QED
      BY <2>3 DEF Promise!Next
  <1>5. ASSUME NEW a \in Agent, NEW o \in Object, RestoreValid(a, o) PROVE Promise!Next
    <2>1. faces' = [faces EXCEPT ![o] = FaceOf(o)']
      BY <1>5, OneFace DEF RestoreValid, TypeOK
    <2>2. FaceOf(o) = "retracted" /\ FaceOf(o)' \in {"shown", "hidden"} /\ conf' = conf
      BY <1>5 DEF RestoreValid, FaceOf, Invalidated, Stored, TypeOK, Visible
    <2>3. Promise!Reinstate(o)
      BY <2>1, <2>2 DEF Promise!Reinstate, faces
    <2> QED
      BY <2>3 DEF Promise!Next
  <1>6. ASSUME NEW a \in Agent, Continue(a), ~AddWrite(a), ~RetireStatus(a)
        PROVE  UNCHANGED <<status, valid, conf>>
    BY <1>6
    DEF Continue, AddLock, AddRead, AddRefuse, AddReadFails, AddDuel, AddDuelBlind,
        Settle, RetireUntil, RestoreUntil, RedoLock, RedoRead, RedoNothing
  <1>7. ASSUME NEW a \in Agent, Start(a) \/ Abort(a)
        PROVE  \/ UNCHANGED <<status, valid, conf>>
               \/ \E o \in Object : Invalidate(a, o) \/ RestoreValid(a, o)
    BY <1>7 DEF Start, AddBegin, RedoPlan, Abort
  <1>8. ASSUME (\E p \in Process : Crash(p)) \/ Unlocked \/ Tick \/ UNCHANGED vars
        PROVE  UNCHANGED <<status, valid, conf>>
    BY <1>8 DEF Crash, Unlocked, Tick, vars, BackfillDependants, RegisterCardinality,
                Briefing, SessionEnd
  <1> QED
    BY <1>1, <1>2, <1>3, <1>4, <1>5, <1>6, <1>7, <1>8 DEF Next

\* The locks, duels and single payload writes of the store implement the
\* promise made to its readers, whatever aborts or crashes, as long as the
\* read of the prior row does not fail.
THEOREM PromiseKept ==
  ASSUME "read" \notin Faults
  PROVE  Spec => KeepsPromise
  <1>1. TypeOK /\ ObjectKnown /\ Grounded /\ [Next]_vars => [Promise!Next]_<<faces, conf>>
    BY PromiseStep
  <1>2. Spec => Promise!Init /\ [][Promise!Next]_<<faces, conf>>
    BY <1>1, PromiseInit, TypeCorrect, CriticalSection, ObjectInit, ObjectStep, PTL
    DEF Spec
  <1> QED
    BY <1>2, PTL DEF KeepsPromise, Promise!Spec

-----------------------------------------------------------------------------
(* One step, seen by a call inside the critical section.                   *)

\* A call that is about to write or to retire got there by a step of its
\* own, and while it is there no other agent touches the rows or its locals.
LEMMA InsideStep ==
  ASSUME TypeOK, OneInside, [Next]_vars, NEW c \in Agent,
         pc'[c] \in {"write", "retire", "stamp"}
  PROVE  \/ /\ pc'[c] = pc[c] /\ obj'[c] = obj[c] /\ decided'[c] = decided[c]
            /\ losers'[c] = losers[c] /\ loser'[c] = loser[c]
            /\ UNCHANGED <<status, valid, until>>
         \/ AddDuel(c) \/ AddDuelBlind(c)
         \/ AddWrite(c) /\ Goto(c, "retire") /\ UNCHANGED locals
         \/ RetireStatus(c)
         \/ /\ RetireUntil(c) /\ Goto(c, "retire") /\ UNCHANGED <<obj, loser>>
            /\ losers' = [losers EXCEPT ![c] = losers[c] \ {loser[c]}]
         \/ RedoRead(c)
  <1> DEFINE Same == /\ pc'[c] = pc[c] /\ obj'[c] = obj[c] /\ decided'[c] = decided[c]
                     /\ losers'[c] = losers[c] /\ loser'[c] = loser[c]
                     /\ UNCHANGED <<status, valid, until>>
  <1> USE DEF TypeOK, store, payload, locks, locals, Goto
  <1>1. CASE \E a \in Agent : a # c /\ (Start(a) \/ Continue(a) \/ Abort(a))
    <2>1. PICK a \in Agent : a # c /\ (Start(a) \/ Continue(a) \/ Abort(a))
      BY <1>1
    <2>2. pc'[c] = pc[c]
      BY <2>1
      DEF Start, Continue, Abort, AddBegin, AddLock, AddRead, AddRefuse, AddReadFails,
          AddDuel, AddDuelBlind, Settle, AddWrite, RetireStatus, RetireUntil, Invalidate,
          RestoreValid, RestoreUntil, RedoPlan, RedoLock, RedoRead, RedoNothing, Release
    <2>3. flock = c /\ pc[a] \notin Critical /\ c # None
      BY <2>1, <2>2, ConstantsAssumption DEF OneInside, Critical
    <2>4. CASE \E o \in Object : AddBegin(a, o)
      BY <2>1, <2>2, <2>4 DEF AddBegin
    <2>5. CASE RedoPlan(a)
      BY <2>1, <2>2, <2>5 DEF RedoPlan
    <2>6. CASE Abort(a)
      BY <2>1, <2>2, <2>6 DEF Abort, Release
    <2>7. ~ \E o \in Object : Invalidate(a, o) \/ RestoreValid(a, o)
      BY <2>3 DEF Invalidate, RestoreValid
    <2>8. ~Continue(a)
      BY <2>3
      DEF Continue, AddLock, AddRead, AddRefuse, AddReadFails, AddDuel, AddDuelBlind,
          AddWrite, RetireStatus, RetireUntil, RestoreUntil, RedoLock, RedoRead,
          RedoNothing, Critical
    <2> QED
      BY <2>1, <2>4, <2>5, <2>6, <2>7, <2>8 DEF Start
  <1>2. CASE Start(c) \/ Abort(c)
    <2>1. pc'[c] \in {"idle", "axis", "reopen", "redo_flock"} \/ Same
      BY <1>2 DEF Start, Abort, AddBegin, Invalidate, RestoreValid, RedoPlan, Release
    <2> QED
      BY <2>1
  <1>3. CASE Continue(c)
    <2>1. CASE AddWrite(c) \/ RetireUntil(c)
      <3>1. ~Release({c})
        BY DEF Release
      <3> QED
        BY <2>1, <3>1 DEF AddWrite, RetireUntil
    <2>2. CASE AddLock(c) \/ AddRead(c) \/ AddReadFails(c) \/ RedoLock(c)
      BY <2>2 DEF AddLock, AddRead, AddReadFails, RedoLock
    <2>3. CASE AddRefuse(c) \/ RestoreUntil(c) \/ RedoNothing(c)
      BY <2>3 DEF AddRefuse, RestoreUntil, RedoNothing, Release
    <2> QED
      BY <1>3, <2>1, <2>2, <2>3 DEF Continue
  <1>4. CASE \E p \in Process : Crash(p)
    <2>1. PICK p \in Process : Crash(p)
      BY <1>4
    <2>2. ProcessOf[c] # p
      BY <2>1 DEF Crash, Release
    <2> QED
      BY <2>1, <2>2 DEF Crash, Release
  <1>5. CASE Unlocked \/ Tick \/ UNCHANGED vars
    BY <1>5 DEF Unlocked, Tick, vars, BackfillDependants, RegisterCardinality, Briefing,
                SessionEnd
  <1> QED
    BY <1>1, <1>2, <1>3, <1>4, <1>5 DEF Next

\* Four operations write a status or the validity of a row.
LEMMA RowsStep ==
  ASSUME [Next]_vars
  PROVE  \/ UNCHANGED <<status, valid>>
         \/ \E a \in Agent : AddWrite(a) \/ RetireStatus(a)
         \/ \E a \in Agent, o \in Object : Invalidate(a, o) \/ RestoreValid(a, o)
  <1> USE DEF store, payload
  <1>1. ASSUME NEW a \in Agent, Continue(a), ~AddWrite(a), ~RetireStatus(a)
        PROVE  UNCHANGED <<status, valid>>
    BY <1>1
    DEF Continue, AddLock, AddRead, AddRefuse, AddReadFails, AddDuel, AddDuelBlind,
        Settle, RetireUntil, RestoreUntil, RedoLock, RedoRead, RedoNothing
  <1>2. ASSUME NEW a \in Agent, Start(a) \/ Abort(a)
        PROVE  \/ UNCHANGED <<status, valid>>
               \/ \E o \in Object : Invalidate(a, o) \/ RestoreValid(a, o)
    BY <1>2 DEF Start, AddBegin, RedoPlan, Abort
  <1>3. ASSUME (\E p \in Process : Crash(p)) \/ Unlocked \/ Tick \/ UNCHANGED vars
        PROVE  UNCHANGED <<status, valid>>
    BY <1>3 DEF Crash, Unlocked, Tick, vars, BackfillDependants, RegisterCardinality,
                Briefing, SessionEnd
  <1> QED
    BY <1>1, <1>2, <1>3 DEF Next

\* Where no call is cut short, one that retires losers ends with the last of them.
LEMMA RetiringEnds ==
  ASSUME Faults \cap {"abort", "crash"} = {}, TypeOK, OneInside, [Next]_vars, NEW c \in Agent,
         pc[c] \in {"retire", "stamp"}, pc'[c] \notin {"retire", "stamp"}
  PROVE  RetireUntil(c)
  <1> USE DEF TypeOK, store, payload, locks, locals, Goto
  <1>1. flock = c /\ c # None
    BY ConstantsAssumption DEF OneInside, Critical
  <1>2. ASSUME NEW a \in Agent, Start(a) PROVE FALSE
    BY <1>1, <1>2 DEF Start, AddBegin, Invalidate, RestoreValid, RedoPlan
  <1>3. ASSUME NEW a \in Agent, Continue(a), a # c PROVE FALSE
    <2>1. pc[a] \notin Critical
      BY <1>1, <1>3 DEF OneInside
    <2> QED
      BY <1>1, <1>3, <2>1
      DEF Continue, AddLock, AddRead, AddRefuse, AddReadFails, AddDuel, AddDuelBlind,
          AddWrite, RetireStatus, RetireUntil, RestoreUntil, RedoLock, RedoRead,
          RedoNothing, Critical
  <1>4. ASSUME Continue(c) PROVE RetireUntil(c)
    BY <1>4
    DEF Continue, AddLock, AddRead, AddRefuse, AddReadFails, AddDuel, AddDuelBlind,
        AddWrite, RetireStatus, RestoreUntil, RedoLock, RedoRead, RedoNothing
  <1>5. ~ ((\E a \in Agent : Abort(a)) \/ (\E p \in Process : Crash(p)))
    BY DEF Abort, Crash
  <1>6. ~ (Unlocked \/ Tick \/ UNCHANGED vars)
    BY DEF Unlocked, Tick, vars, BackfillDependants, RegisterCardinality, Briefing,
           SessionEnd
  <1> QED
    BY <1>2, <1>3, <1>4, <1>5, <1>6 DEF Next

-----------------------------------------------------------------------------
(* redo-duels.                                                             *)

AtMostOne(S) == \A o, p \in S : o = p

\* What redo-duels keeps to: one visible row at most is no loser, and the
\* loser whose window is about to be closed is hidden already.
RedoHolds(c) ==
  pc[c] \in {"retire", "stamp"} /\ obj[c] = None =>
    /\ AtMostOne(VisibleObjects \ losers[c])
    /\ pc[c] = "stamp" => loser[c] \notin VisibleObjects

LEMMA RedoStep ==
  ASSUME TypeOK, ObjectKnown, Grounded, [Next]_vars, NEW c \in Agent, RedoHolds(c)
  PROVE  RedoHolds(c)'
  <1> SUFFICES ASSUME pc'[c] \in {"retire", "stamp"}, obj'[c] = None
               PROVE  /\ AtMostOne(VisibleObjects' \ losers'[c])
                      /\ pc'[c] = "stamp" => loser'[c] \notin VisibleObjects'
    BY DEF RedoHolds, AtMostOne
  <1> USE DEF TypeOK, store, payload, locals, Goto
  <1>1. CASE /\ pc'[c] = pc[c] /\ obj'[c] = obj[c] /\ losers'[c] = losers[c]
             /\ loser'[c] = loser[c] /\ UNCHANGED <<status, valid>>
    <2>1. VisibleObjects' = VisibleObjects
      BY <1>1 DEF VisibleObjects, Visible
    <2> QED
      BY <1>1, <2>1 DEF RedoHolds
  <1>2. CASE AddDuel(c) \/ AddDuelBlind(c)
    BY <1>2 DEF AddDuel, AddDuelBlind, Settle
  <1>3. CASE AddWrite(c) /\ UNCHANGED locals
    BY <1>3, ConstantsAssumption DEF AddWrite, ObjectKnown
  <1>4. CASE RetireStatus(c)
    <2>1. PICK o \in losers[c] :
            /\ status' = [status EXCEPT ![o] = RetiredStatus(ruled[c])]
            /\ loser' = [loser EXCEPT ![c] = o]
      BY <1>4 DEF RetireStatus
    <2>2. valid' = valid /\ losers'[c] = losers[c] /\ loser'[c] = o
          /\ pc[c] = "retire" /\ obj[c] = None
      BY <1>4, <2>1 DEF RetireStatus
    <2>3. VisibleObjects' \subseteq VisibleObjects \ {o}
      BY <2>1, <2>2 DEF VisibleObjects, Visible, RetiredStatus, DefaultVisible
    <2> QED
      BY <2>2, <2>3 DEF RedoHolds, AtMostOne
  <1>5. CASE /\ RetireUntil(c) /\ Goto(c, "retire") /\ UNCHANGED <<obj, loser>>
             /\ losers' = [losers EXCEPT ![c] = losers[c] \ {loser[c]}]
    <2>1. /\ pc[c] = "stamp" /\ pc'[c] = "retire" /\ obj[c] = None
          /\ losers'[c] = losers[c] \ {loser[c]} /\ UNCHANGED <<status, valid>>
      BY <1>5 DEF RetireUntil
    <2>2. VisibleObjects' = VisibleObjects
      BY <2>1 DEF VisibleObjects, Visible
    <2> QED
      BY <2>1, <2>2 DEF RedoHolds, AtMostOne
  <1>6. CASE RedoRead(c)
    <2>1. PICK keep : losers' = [losers EXCEPT ![c] = VisibleObjects \ {keep}]
      BY <1>6 DEF RedoRead
    <2>2. pc'[c] = "retire" /\ VisibleObjects' = VisibleObjects
      BY <1>6 DEF RedoRead, VisibleObjects, Visible
    <2> QED
      BY <2>1, <2>2 DEF AtMostOne
  <1> QED
    BY <1>1, <1>2, <1>3, <1>4, <1>5, <1>6, InsideStep DEF Grounded

\* When redo-duels has retired its last loser, one fact of the axis is
\* visible, whatever was written since its unlocked survey, and whatever
\* fails or crashes.
THEOREM RedoLeavesOne == Spec => RedoLeavesOneValue
  <1> DEFINE AllHold == \A a \in Agent : RedoHolds(a)
             Leaves == \A a \in Agent :
                         pc[a] = "stamp" /\ obj[a] = None /\ RetireUntil(a) /\ pc'[a] = "idle"
                           => Cardinality(VisibleObjects') = 1
  <1>1. Init => AllHold
    BY DEF Init, RedoHolds
  <1>2. TypeOK /\ ObjectKnown /\ Grounded /\ AllHold /\ [Next]_vars => AllHold'
    BY RedoStep
  <1>3. TypeOK /\ ObjectKnown /\ Grounded /\ AllHold /\ [Next]_vars => [Leaves]_vars
    <2> SUFFICES ASSUME TypeOK, Grounded, AllHold, NEW a \in Agent, pc[a] = "stamp",
                        obj[a] = None, RetireUntil(a), pc'[a] = "idle"
                 PROVE  Cardinality(VisibleObjects') = 1
      OBVIOUS
    <2>1. /\ AtMostOne(VisibleObjects \ losers[a])
          /\ loser[a] \notin VisibleObjects
          /\ VisibleObjects \ losers[a] # {}
      BY DEF RedoHolds, Grounded, RetirementHolds
    <2>2. losers[a] \subseteq {loser[a]}
      BY DEF RetireUntil, Goto, TypeOK
    <2>3. VisibleObjects' = VisibleObjects
      BY DEF RetireUntil, VisibleObjects, Visible
    <2>4. PICK keep : VisibleObjects' = {keep}
      BY <2>1, <2>2, <2>3 DEF AtMostOne
    <2> QED
      BY <2>4, FS_Singleton
  <1>4. Spec => [][Leaves]_vars
    <2> HIDE DEF AllHold, Leaves
    <2> QED
      BY <1>1, <1>2, <1>3, TypeCorrect, CriticalSection, ObjectInit, ObjectStep, PTL DEF Spec
  <1> QED
    BY <1>4 DEF RedoLeavesOneValue

-----------------------------------------------------------------------------
(* One active fact.                                                        *)

\* Of the rows that will not be retired one at most is active, or will be
\* once the call has written.
ActiveHolds(c) ==
  /\ pc[c] = "write" /\ decided[c] = "active" =>
       AtMostOne((ActiveObjects \cup {obj[c]}) \ losers[c])
  /\ pc[c] \in {"retire", "stamp"} => AtMostOne(ActiveObjects \ losers[c])
  /\ pc[c] = "stamp" => loser[c] \notin ActiveObjects

Retiring == {c \in Agent : pc[c] \in {"retire", "stamp"}}

ActiveInv ==
  /\ card # "multi"
  /\ Retiring = {} => AtMostOne(ActiveObjects)
  /\ \A c \in Agent : ActiveHolds(c)

\* The duel of a single-valued predicate with two values: either nothing
\* else is visible, or a flip retires one of the two.
LEMMA DuelLeavesOne ==
  ASSUME NEW u, NEW v, Object = {u, v}, card # "multi", NEW a \in Agent, obj[a] \in Object,
         NEW score, NEW d \in Decision(a, score), d.status = "active"
  PROVE  AtMostOne((ActiveObjects \cup {obj[a]}) \ d.losers)
  <1>1. CASE Conflict(VisibleObjects, obj[a])
    <2>1. PICK p \in MostEntrenched(VisibleObjects, score) :
                 \E w : d = Sentence(ResolveDuel(score[p], w), p)
      BY <1>1 DEF Decision
    <2>2. d.losers = {p} /\ p \in Object
      BY <2>1, SentenceShape DEF MostEntrenched, VisibleObjects
    <2> QED
      BY <2>2 DEF AtMostOne, ActiveObjects
  <1>2. CASE ~Conflict(VisibleObjects, obj[a])
    BY <1>2 DEF Conflict, VisibleObjects, Visible, DefaultVisible, ActiveObjects, AtMostOne
  <1> QED
    BY <1>1, <1>2

LEMMA ActiveHoldsStep ==
  ASSUME Faults = {}, NEW u, NEW v, Object = {u, v},
         TypeOK, ObjectKnown, Grounded, ActiveInv, [Next]_vars, NEW c \in Agent
  PROVE  ActiveHolds(c)'
  <1> SUFFICES ASSUME pc'[c] \in {"write", "retire", "stamp"}
               PROVE  ActiveHolds(c)'
    BY DEF ActiveHolds
  <1> USE DEF TypeOK, store, payload, locals, Goto
  <1>0. ActiveHolds(c)
    BY DEF ActiveInv
  <1>1. CASE /\ pc'[c] = pc[c] /\ obj'[c] = obj[c] /\ decided'[c] = decided[c]
             /\ losers'[c] = losers[c] /\ loser'[c] = loser[c]
             /\ UNCHANGED <<status, valid>>
    <2>1. ActiveObjects' = ActiveObjects
      BY <1>1 DEF ActiveObjects
    <2> QED
      BY <1>0, <1>1, <2>1 DEF ActiveHolds, AtMostOne
  <1>2. CASE AddDuel(c)
    <2>1. PICK d \in Decision(c, Scores) : Settle(c, d)
      BY <1>2 DEF AddDuel
    <2>2. /\ pc'[c] = "write" /\ decided'[c] = d.status /\ losers'[c] = d.losers
          /\ obj' = obj /\ ActiveObjects' = ActiveObjects
      BY <2>1 DEF Settle, ActiveObjects
    <2>3. obj[c] \in Object /\ card # "multi"
      BY <1>2 DEF AddDuel, ObjectKnown, ActiveInv
    <2>4. d.status = "active" => AtMostOne((ActiveObjects \cup {obj[c]}) \ d.losers)
      BY <2>1, <2>3, DuelLeavesOne
    <2> QED
      BY <2>2, <2>4 DEF ActiveHolds
  <1>3. CASE AddWrite(c) /\ Goto(c, "retire") /\ UNCHANGED locals
    <2>1. pc[c] = "write" /\ pc'[c] = "retire" /\ losers' = losers /\ obj[c] \in Object
          /\ losers[c] # {}
      BY <1>3 DEF AddWrite, ObjectKnown, Release
    <2>2. decided[c] = "active"
      BY <2>1 DEF Grounded, DecisionHolds
    <2>3. ActiveObjects' \subseteq ActiveObjects \cup {obj[c]}
      BY <1>3, <2>1 DEF AddWrite, ActiveObjects
    <2> QED
      BY <1>0, <2>1, <2>2, <2>3 DEF ActiveHolds, AtMostOne
  <1>4. CASE RetireStatus(c)
    <2>1. PICK o \in losers[c] :
            /\ status' = [status EXCEPT ![o] = RetiredStatus(ruled[c])]
            /\ loser' = [loser EXCEPT ![c] = o]
      BY <1>4 DEF RetireStatus
    <2>2. /\ valid' = valid /\ losers'[c] = losers[c] /\ loser'[c] = o
          /\ pc[c] = "retire" /\ pc'[c] = "stamp"
      BY <1>4, <2>1 DEF RetireStatus
    <2>3. ActiveObjects' \subseteq ActiveObjects \ {o}
      BY <2>1, <2>2 DEF ActiveObjects, RetiredStatus
    <2> QED
      BY <1>0, <2>2, <2>3 DEF ActiveHolds, AtMostOne
  <1>5. CASE /\ RetireUntil(c) /\ Goto(c, "retire") /\ UNCHANGED <<obj, loser>>
             /\ losers' = [losers EXCEPT ![c] = losers[c] \ {loser[c]}]
    <2>1. /\ pc[c] = "stamp" /\ pc'[c] = "retire"
          /\ losers'[c] = losers[c] \ {loser[c]} /\ ActiveObjects' = ActiveObjects
      BY <1>5 DEF RetireUntil, ActiveObjects
    <2> QED
      BY <1>0, <2>1 DEF ActiveHolds, AtMostOne
  <1>6. CASE RedoRead(c)
    <2>1. PICK keep : losers' = [losers EXCEPT ![c] = VisibleObjects \ {keep}]
      BY <1>6 DEF RedoRead
    <2>2. pc'[c] = "retire" /\ ActiveObjects' \subseteq VisibleObjects
      BY <1>6 DEF RedoRead, VisibleObjects, Visible, ActiveObjects, DefaultVisible
    <2> QED
      BY <2>1, <2>2 DEF ActiveHolds, AtMostOne
  <1> QED
    BY <1>1, <1>2, <1>3, <1>4, <1>5, <1>6, InsideStep DEF Grounded, AddDuelBlind

\* Between calls: what a call leaves behind.
LEMMA ActiveBetween ==
  ASSUME Faults = {}, TypeOK, ObjectKnown, Grounded, ActiveInv, [Next]_vars,
         \A a \in Agent, o \in Object : ~RestoreValid(a, o), Retiring' = {}
  PROVE  AtMostOne(ActiveObjects')
  <1> USE DEF TypeOK, store, payload, locals, Goto
  <1>1. ASSUME NEW a \in Agent, AddWrite(a) PROVE AtMostOne(ActiveObjects')
    <2>1. pc[a] = "write" /\ obj[a] \in Object /\ losers[a] = {}
      BY <1>1 DEF AddWrite, ObjectKnown, Retiring
    <2>2. Retiring = {}
      BY <2>1 DEF Retiring, Grounded, OneInside, Critical
    <2>3. CASE decided[a] = "active"
      <3>1. ActiveObjects' \subseteq ActiveObjects \cup {obj[a]}
        BY <1>1, <2>1 DEF AddWrite, ActiveObjects
      <3> QED
        BY <2>1, <2>3, <3>1 DEF ActiveInv, ActiveHolds, AtMostOne
    <2>4. CASE decided[a] # "active"
      <3>1. ActiveObjects' \subseteq ActiveObjects
        BY <1>1, <2>1, <2>4 DEF AddWrite, ActiveObjects
      <3> QED
        BY <2>2, <3>1 DEF ActiveInv, AtMostOne
    <2> QED
      BY <2>3, <2>4
  <1>2. ~ \E a \in Agent : RetireStatus(a)
    BY DEF RetireStatus, Retiring
  <1>3. ASSUME NEW a \in Agent, NEW o \in Object, Invalidate(a, o)
        PROVE  AtMostOne(ActiveObjects')
    <2>1. Retiring = {}
      BY <1>3, ConstantsAssumption DEF Invalidate, Retiring, Grounded, OneInside, Critical
    <2>2. ActiveObjects' \subseteq ActiveObjects
      BY <1>3 DEF Invalidate, ActiveObjects
    <2> QED
      BY <2>1, <2>2 DEF ActiveInv, AtMostOne
  <1>4. CASE UNCHANGED <<status, valid>>
    <2>1. ActiveObjects' = ActiveObjects
      BY <1>4 DEF ActiveObjects
    <2>2. CASE Retiring = {}
      BY <2>1, <2>2 DEF ActiveInv
    <2>3. ASSUME NEW a \in Retiring PROVE AtMostOne(ActiveObjects)
      <3>1. a \in Agent /\ pc[a] \in {"retire", "stamp"} /\ pc'[a] \notin {"retire", "stamp"}
        BY DEF Retiring
      <3>2. RetireUntil(a)
        BY <3>1, RetiringEnds DEF Grounded
      <3>3. pc[a] = "stamp" /\ losers[a] \subseteq {loser[a]}
        BY <3>1, <3>2 DEF RetireUntil
      <3> QED
        BY <3>1, <3>3 DEF ActiveInv, ActiveHolds, AtMostOne
    <2> QED
      BY <2>1, <2>2, <2>3
  <1> QED
    BY <1>1, <1>2, <1>3, <1>4, RowsStep

LEMMA CardStep ==
  ASSUME "multi" \notin Registrations, card # "multi", [Next]_vars
  PROVE  card' # "multi"
  <1> USE DEF store, payload
  <1>1. ASSUME NEW a \in Agent, Start(a) \/ Continue(a) \/ Abort(a) PROVE card' = card
    BY <1>1
    DEF Start, Continue, Abort, AddBegin, AddLock, AddRead, AddRefuse, AddReadFails,
        AddDuel, AddDuelBlind, Settle, AddWrite, RetireStatus, RetireUntil, Invalidate,
        RestoreValid, RestoreUntil, RedoPlan, RedoLock, RedoRead, RedoNothing
  <1>2. ASSUME NEW c \in Registrations, RegisterCardinality(c) PROVE card' = c
    BY <1>2 DEF RegisterCardinality
  <1>3. CASE (\E p \in Process : Crash(p)) \/ Tick \/ UNCHANGED vars
             \/ (\E o \in Object, n \in Backfill : BackfillDependants(o, n))
             \/ (\E p \in Process : Briefing(p) \/ SessionEnd(p))
    BY <1>3 DEF Crash, Tick, vars, BackfillDependants, Briefing, SessionEnd
  <1> QED
    BY <1>1, <1>2, <1>3 DEF Next, Unlocked

\* The torn-Active race is closed: where a predicate is registered as
\* single-valued before its first fact, no call fails and nothing is
\* restored, one fact at most of two values is active outside the calls,
\* whatever the number of agents and processes.
THEOREM OneActiveFact ==
  ASSUME Faults = {}, "multi" \notin Registrations, NEW u, NEW v, Object = {u, v}
  PROVE  Spec /\ NothingRestored => []OneActive
  <1> DEFINE Restored == \E a \in Agent, o \in Object : RestoreValid(a, o)
  <1>1. Init => ActiveInv
    BY DEF Init, ActiveInv, ActiveHolds, ActiveObjects, AtMostOne
  <1>2. TypeOK /\ ObjectKnown /\ Grounded /\ ActiveInv /\ [Next]_vars /\ [~Restored]_vars
          => ActiveInv'
    <2> SUFFICES ASSUME TypeOK, ObjectKnown, Grounded, ActiveInv, [Next]_vars,
                        [~Restored]_vars
                 PROVE  ActiveInv'
      OBVIOUS
    <2>1. card' # "multi"
      BY CardStep DEF ActiveInv
    <2>2. \A c \in Agent : ActiveHolds(c)'
      BY ActiveHoldsStep
    <2>3. Retiring' = {} => AtMostOne(ActiveObjects')
      <3>1. CASE UNCHANGED vars
        BY <3>1 DEF vars, store, payload, Retiring, ActiveObjects, ActiveInv, AtMostOne
      <3>2. CASE ~Restored
        BY <3>2, ActiveBetween
      <3> QED
        BY <3>1, <3>2
    <2> QED
      BY <2>1, <2>2, <2>3 DEF ActiveInv, AtMostOne
  <1>3. ActiveInv => OneActive
    <2> SUFFICES ASSUME ActiveInv, Idle PROVE Cardinality(ActiveObjects) <= 1
      BY DEF OneActive
    <2>1. Retiring = {}
      BY DEF Idle, Retiring
    <2>2. ActiveObjects = {} \/ \E o : ActiveObjects = {o}
      BY <2>1 DEF ActiveInv, AtMostOne
    <2>3. CASE ActiveObjects = {}
      BY <2>3, FS_EmptySet
    <2>4. ASSUME NEW o, ActiveObjects = {o} PROVE Cardinality(ActiveObjects) <= 1
      <3>1. Cardinality(ActiveObjects) = 1
        BY <2>4, FS_Singleton
      <3> QED
        BY <3>1
    <2> QED
      BY <2>2, <2>3, <2>4
  <1> QED
    <2> HIDE DEF Restored
    <2>1. NothingRestored => [][~Restored]_vars
      BY DEF NothingRestored, Restored
    <2> QED
      BY <1>1, <1>2, <1>3, <2>1, TypeCorrect, CriticalSection, ObjectInit, ObjectStep, PTL
      DEF Spec

-----------------------------------------------------------------------------
(* The readers agree.                                                      *)

\* The window of a row is open while the row is current, and closed once it
\* is retired, or about to be closed by the call that retired it.
Closed(o) == until[o] # None /\ until[o] <= clock
Stamping(o) == \E c \in Agent : pc[c] = "stamp" /\ loser[c] = o

WindowHolds(o) ==
  valid[o] =>
    /\ status[o] \in {"active", "contested", "quarantine_candidate"} => until[o] = None
    /\ status[o] \in {"stale", "superseded"} => Closed(o) \/ Stamping(o)

DatesPast ==
  /\ \A o \in Object : created[o] # None => created[o] <= clock
  /\ \A a \in Agent : seen[a].created # None => seen[a].created <= clock

NoReopening == \A a \in Agent : pc[a] # "reopen"

StampingRetired ==
  \A a \in Agent : pc[a] = "stamp" => status[loser[a]] \in {"stale", "superseded"}

WindowInv ==
  /\ NoReopening
  /\ StampingRetired
  /\ DatesPast
  /\ \A o \in Object : WindowHolds(o)

LEMMA ClockStep == [Next]_vars => clock' = clock \/ clock' = clock + 1
  <1> USE DEF store, payload, locks
  <1>1. ASSUME NEW a \in Agent, Start(a) \/ Continue(a) \/ Abort(a) PROVE clock' = clock
    BY <1>1
    DEF Start, Continue, Abort, AddBegin, AddLock, AddRead, AddRefuse, AddReadFails,
        AddDuel, AddDuelBlind, Settle, AddWrite, RetireStatus, RetireUntil, Invalidate,
        RestoreValid, RestoreUntil, RedoPlan, RedoLock, RedoRead, RedoNothing
  <1>2. CASE (\E p \in Process : Crash(p)) \/ Unlocked \/ Tick \/ UNCHANGED vars
    BY <1>2 DEF Crash, Unlocked, Tick, vars, BackfillDependants, RegisterCardinality,
                Briefing, SessionEnd
  <1> QED
    BY <1>1, <1>2 DEF Next

\* No date lies in the future.
LEMMA DatesStep == TypeOK /\ ObjectKnown /\ DatesPast /\ [Next]_vars => DatesPast'
  <1> SUFFICES ASSUME TypeOK, ObjectKnown, DatesPast, [Next]_vars PROVE DatesPast'
    OBVIOUS
  <1> USE DEF TypeOK, store, payload, locks, locals, Goto
  <1>0. clock \in Nat /\ (clock' = clock \/ clock' = clock + 1)
    BY ClockStep
  <1>t. \A t : t \in Nat /\ t <= clock => t <= clock'
    BY <1>0
  <1>d. /\ \A o \in Object : created[o] # None => created[o] \in Nat /\ created[o] <= clock
        /\ \A a \in Agent : seen[a].created # None
                              => seen[a].created \in Nat /\ seen[a].created <= clock
    BY DEF DatesPast, Time, Seen
  <1>1. CASE /\ UNCHANGED created
             /\ \A a \in Agent : seen'[a].created # None => seen'[a].created = seen[a].created
    BY <1>1, <1>t, <1>d DEF DatesPast
  <1>2. ASSUME NEW a \in Agent, AddRead(a) PROVE DatesPast'
    <2>1. obj[a] \in Object /\ UNCHANGED <<created, clock>>
      BY <1>2 DEF AddRead, ObjectKnown
    <2>2. /\ seen'[a].created = created[obj[a]]
          /\ \A b \in Agent \ {a} : seen'[b] = seen[b]
      BY <1>2 DEF AddRead
    <2> QED
      BY <2>1, <2>2 DEF DatesPast
  <1>3. ASSUME NEW a \in Agent, AddWrite(a) PROVE DatesPast'
    <2>1. obj[a] \in Object /\ UNCHANGED clock
      BY <1>3 DEF AddWrite, ObjectKnown
    <2>2. created'[obj[a]] <= clock
      BY <1>0, <1>3, <1>d, <2>1 DEF AddWrite
    <2>3. \A o \in Object \ {obj[a]} : created'[o] = created[o]
      BY <1>3, <2>1 DEF AddWrite
    <2>4. \A b \in Agent : seen'[b].created # None => seen'[b].created = seen[b].created
      BY <1>3 DEF AddWrite, Release, NothingSeen
    <2> QED
      BY <2>1, <2>2, <2>3, <2>4 DEF DatesPast
  <1>4. ASSUME NEW a \in Agent, Start(a) \/ Continue(a) \/ Abort(a), ~AddRead(a), ~AddWrite(a)
        PROVE  /\ UNCHANGED created
               /\ \A b \in Agent : seen'[b].created # None => seen'[b].created = seen[b].created
    <2>1. CASE AddReadFails(a)
      BY <2>1 DEF AddReadFails, NothingSeen
    <2>2. CASE RetireUntil(a) \/ AddRefuse(a) \/ RestoreUntil(a) \/ RedoNothing(a) \/ Abort(a)
      BY <2>2 DEF RetireUntil, AddRefuse, RestoreUntil, RedoNothing, Abort, Release,
                  NothingSeen
    <2> QED
      BY <1>4, <2>1, <2>2
      DEF Start, Continue, AddBegin, AddLock, AddDuel, AddDuelBlind, Settle, RetireStatus,
          Invalidate, RestoreValid, RedoPlan, RedoLock, RedoRead
  <1>5. CASE (\E p \in Process : Crash(p)) \/ Unlocked \/ Tick \/ UNCHANGED vars
    <2>1. /\ UNCHANGED created
          /\ \A b \in Agent : seen'[b].created # None => seen'[b].created = seen[b].created
      BY <1>5 DEF Crash, Unlocked, Tick, vars, BackfillDependants, RegisterCardinality,
                  Briefing, SessionEnd, Release, NothingSeen
    <2> QED
      BY <1>1, <2>1
  <1> QED
    BY <1>1, <1>2, <1>3, <1>4, <1>5 DEF Next

\* A call about to close a window closes it, or is about to still.
LEMMA StampingStep ==
  ASSUME Faults \cap {"abort", "crash"} = {}, TypeOK, OneInside, [Next]_vars,
         NEW c \in Agent, pc[c] = "stamp"
  PROVE  RetireUntil(c) \/ (pc'[c] = "stamp" /\ loser'[c] = loser[c])
  <1>1. CASE pc'[c] \notin {"retire", "stamp"}
    BY <1>1, RetiringEnds
  <1>2. CASE pc'[c] \in {"retire", "stamp"}
    BY <1>2, InsideStep
    DEF AddDuel, AddDuelBlind, AddWrite, RetireStatus, RedoRead
  <1> QED
    BY <1>1, <1>2

LEMMA StampingRetiredStep ==
  ASSUME TypeOK, OneInside, StampingRetired, [Next]_vars PROVE StampingRetired'
  <1> SUFFICES ASSUME NEW c \in Agent, pc'[c] = "stamp"
               PROVE  status'[loser'[c]] \in {"stale", "superseded"}
    BY DEF StampingRetired
  <1> USE DEF TypeOK, Goto
  <1>1. CASE RetireStatus(c)
    <2>1. PICK o \in losers[c] :
            /\ status' = [status EXCEPT ![o] = RetiredStatus(ruled[c])]
            /\ loser' = [loser EXCEPT ![c] = o]
      BY <1>1 DEF RetireStatus
    <2> QED
      BY <2>1 DEF RetiredStatus
  <1>2. CASE pc'[c] = pc[c] /\ loser'[c] = loser[c] /\ UNCHANGED status
    BY <1>2 DEF StampingRetired
  <1> QED
    BY <1>1, <1>2, InsideStep
    DEF AddDuel, AddDuelBlind, Settle, AddWrite, RetireUntil, RedoRead

\* Four operations write a window, a status or the validity of a row, where
\* nothing is restored.
LEMMA WindowsStep ==
  ASSUME NoReopening, [Next]_vars, \A a \in Agent, o \in Object : ~RestoreValid(a, o)
  PROVE  \/ UNCHANGED <<status, valid, until>>
         \/ \E a \in Agent : AddWrite(a) \/ RetireStatus(a) \/ RetireUntil(a)
         \/ \E a \in Agent, o \in Object : Invalidate(a, o)
  <1> USE DEF store, payload
  <1>1. ASSUME NEW a \in Agent, Continue(a),
               ~AddWrite(a), ~RetireStatus(a), ~RetireUntil(a)
        PROVE  UNCHANGED <<status, valid, until>>
    BY <1>1
    DEF NoReopening, Continue, AddLock, AddRead, AddRefuse, AddReadFails, AddDuel,
        AddDuelBlind, Settle, RestoreUntil, RedoLock, RedoRead, RedoNothing
  <1>2. ASSUME NEW a \in Agent, Start(a) \/ Abort(a)
        PROVE  \/ UNCHANGED <<status, valid, until>>
               \/ \E o \in Object : Invalidate(a, o)
    BY <1>2 DEF Start, AddBegin, RedoPlan, Abort
  <1>3. ASSUME (\E p \in Process : Crash(p)) \/ Unlocked \/ Tick \/ UNCHANGED vars
        PROVE  UNCHANGED <<status, valid, until>>
    BY <1>3 DEF Crash, Unlocked, Tick, vars, BackfillDependants, RegisterCardinality,
                Briefing, SessionEnd
  <1> QED
    BY <1>1, <1>2, <1>3 DEF Next

LEMMA WindowHoldsStep ==
  ASSUME Faults \cap {"abort", "crash"} = {}, TypeOK, ObjectKnown, Grounded, WindowInv,
         [Next]_vars, \A a \in Agent, o \in Object : ~RestoreValid(a, o), NEW o \in Object
  PROVE  WindowHolds(o)'
  <1> USE DEF TypeOK, store, payload
  <1>0. /\ WindowHolds(o) /\ OneInside
        /\ clock \in Nat /\ clock' \in Nat /\ (clock' = clock \/ clock' = clock + 1)
        /\ until[o] # None => until[o] \in Nat
    BY ClockStep DEF WindowInv, Grounded, Time
  <1>1. ASSUME Stamping(o) PROVE Stamping(o)' \/ Closed(o)'
    <2>1. PICK c \in Agent : pc[c] = "stamp" /\ loser[c] = o
      BY <1>1 DEF Stamping
    <2>2. CASE RetireUntil(c)
      <3>1. until'[o] = clock /\ clock' = clock
        BY <2>1, <2>2 DEF RetireUntil
      <3> QED
        BY <1>0, <3>1, ConstantsAssumption DEF Closed
    <2> QED
      BY <1>0, <2>1, <2>2, StampingStep DEF Stamping
  <1>2. CASE status'[o] = status[o] /\ valid'[o] = valid[o] /\ until'[o] = until[o]
    BY <1>0, <1>1, <1>2 DEF WindowHolds, Closed
  <1>3. ASSUME NEW a \in Agent, AddWrite(a) PROVE WindowHolds(o)'
    <2>1. pc[a] = "write" /\ obj[a] \in Object
      BY <1>3 DEF AddWrite, ObjectKnown
    <2>2. decided[a] \in {"active", "contested", "quarantine_candidate"}
      BY <2>1 DEF Grounded, DecisionHolds
    <2>3. CASE o = obj[a]
      BY <1>3, <2>1, <2>2, <2>3 DEF AddWrite, WindowHolds
    <2>4. CASE o # obj[a]
      BY <1>2, <1>3, <2>1, <2>4 DEF AddWrite
    <2> QED
      BY <2>3, <2>4
  <1>4. ASSUME NEW a \in Agent, RetireStatus(a) PROVE WindowHolds(o)'
    <2>1. PICK p \in losers[a] :
            /\ status' = [status EXCEPT ![p] = RetiredStatus(ruled[a])]
            /\ loser' = [loser EXCEPT ![a] = p]
      BY <1>4 DEF RetireStatus
    <2>2. UNCHANGED <<valid, until>> /\ pc'[a] = "stamp" /\ loser'[a] = p
      BY <1>4, <2>1 DEF RetireStatus, Goto
    <2>3. CASE o = p
      <3>1. Stamping(o)'
        BY <2>2, <2>3 DEF Stamping
      <3>2. status'[o] \in {"stale", "superseded"}
        BY <2>1, <2>3 DEF RetiredStatus
      <3> QED
        BY <3>1, <3>2 DEF WindowHolds
    <2>4. CASE o # p
      BY <1>2, <2>1, <2>2, <2>4
    <2> QED
      BY <2>3, <2>4
  <1>5. ASSUME NEW a \in Agent, RetireUntil(a) PROVE WindowHolds(o)'
    <2>1. UNCHANGED <<status, valid, clock>> /\ until' = [until EXCEPT ![loser[a]] = clock]
      BY <1>5 DEF RetireUntil
    <2>2. status[loser[a]] \in {"stale", "superseded"}
      BY <1>5 DEF RetireUntil, WindowInv, StampingRetired
    <2>3. CASE o = loser[a]
      <3>1. Closed(o)'
        BY <1>0, <2>1, <2>3, ConstantsAssumption DEF Closed
      <3> QED
        BY <2>1, <2>2, <2>3, <3>1 DEF WindowHolds
    <2>4. CASE o # loser[a]
      BY <1>2, <2>1, <2>4
    <2> QED
      BY <2>3, <2>4
  <1>6. ASSUME NEW a \in Agent, NEW p \in Object, Invalidate(a, p) PROVE WindowHolds(o)'
    BY <1>2, <1>6 DEF Invalidate, WindowHolds
  <1>7. CASE UNCHANGED <<status, valid, until>>
    BY <1>2, <1>7
  <1> QED
    BY <1>3, <1>4, <1>5, <1>6, <1>7, WindowsStep DEF WindowInv

LEMMA NoReopeningStep ==
  ASSUME TypeOK, NoReopening, [Next]_vars, \A a \in Agent, o \in Object : ~RestoreValid(a, o)
  PROVE  NoReopening'
  <1> USE DEF TypeOK, NoReopening, Goto, locals
  <1>1. ASSUME NEW a \in Agent, Start(a) \/ Continue(a) \/ Abort(a) PROVE NoReopening'
    BY <1>1
    DEF Start, Continue, Abort, AddBegin, AddLock, AddRead, AddRefuse, AddReadFails,
        AddDuel, AddDuelBlind, Settle, AddWrite, RetireStatus, RetireUntil, Invalidate,
        RestoreUntil, RedoPlan, RedoLock, RedoRead, RedoNothing, Release
  <1>2. CASE (\E p \in Process : Crash(p)) \/ Unlocked \/ Tick \/ UNCHANGED vars
    BY <1>2 DEF Crash, Unlocked, Tick, vars, BackfillDependants, RegisterCardinality,
                Briefing, SessionEnd, Release
  <1> QED
    BY <1>1, <1>2 DEF Next

\* Where no call is cut short and nothing is restored, the readers agree
\* about now outside the calls: what the default query shows has an open
\* window, and the point-in-time query finds the active facts and no other.
THEOREM ReadersAgree ==
  ASSUME Faults \cap {"abort", "crash"} = {}, IsFiniteSet(Object)
  PROVE  Spec /\ NothingRestored => []ViewsAgree
  <1> DEFINE Restored == \E a \in Agent, o \in Object : RestoreValid(a, o)
  <1>1. Init => WindowInv
    BY DEF Init, WindowInv, NoReopening, StampingRetired, DatesPast, WindowHolds,
           NothingSeen
  <1>2. TypeOK /\ ObjectKnown /\ Grounded /\ WindowInv /\ [Next]_vars /\ [~Restored]_vars
          => WindowInv'
    <2>1. CASE UNCHANGED vars
      BY <2>1
      DEF vars, store, payload, locals, WindowInv, NoReopening, StampingRetired, DatesPast,
          WindowHolds, Closed, Stamping
    <2>2. CASE ~Restored
      BY <2>2, NoReopeningStep, StampingRetiredStep, DatesStep, WindowHoldsStep
      DEF WindowInv, Grounded
    <2> QED
      BY <2>1, <2>2
  <1>3. TypeOK /\ Grounded /\ WindowInv => ViewsAgree
    <2> SUFFICES ASSUME TypeOK, Grounded, WindowInv, Idle
                 PROVE  /\ \A o \in QueryFacts : until[o] = None
                        /\ AsOf(clock) = ActiveObjects
                        /\ PendingConflicts <= Cardinality(ListContested)
      BY DEF ViewsAgree
    <2>1. \A o \in QueryFacts : until[o] = None
      BY DEF QueryFacts, Visible, DefaultVisible, WindowInv, WindowHolds
    <2>2. AsOf(clock) \subseteq ActiveObjects
      <3> SUFFICES ASSUME NEW o \in AsOf(clock) PROVE status[o] = "active"
        BY DEF AsOf, ActiveObjects
      <3>1. ~Stamping(o)
        BY DEF Idle, Stamping
      <3>2. ~Closed(o)
        BY DEF AsOf, ValidAt, Closed, TypeOK, Time
      <3> QED
        BY <3>1, <3>2 DEF AsOf, WindowInv, WindowHolds
    <2>3. ActiveObjects \subseteq AsOf(clock)
      BY DEF AsOf, ActiveObjects, ValidAt, WindowInv, WindowHolds, DatesPast
    <2>4. PendingConflicts <= Cardinality(ListContested)
      <3>1. /\ {o \in Object : valid[o] /\ status[o] = "contested"} \subseteq ListContested
            /\ ListContested \subseteq Object
        BY DEF ListContested
      <3>2. IsFiniteSet(ListContested)
        BY <3>1, FS_Subset
      <3> QED
        BY <3>1, <3>2, FS_Subset DEF PendingConflicts
    <2> QED
      BY <2>1, <2>2, <2>3, <2>4
  <1> QED
    <2> HIDE DEF Restored
    <2>1. NothingRestored => [][~Restored]_vars
      BY DEF NothingRestored, Restored
    <2> QED
      BY <1>1, <1>2, <1>3, <2>1, TypeCorrect, CriticalSection, ObjectInit, ObjectStep, PTL
      DEF Spec

-----------------------------------------------------------------------------
(* The cardinality inference.                                              *)

\* Nothing on the axis was ever retired as the past of a sequence.
NoSequence ==
  /\ card # "temporal_single"
  /\ \A a \in Agent : ruled[a] # "temporal_single" /\ decided[a] # "superseded"
  /\ \A o \in Object : status[o] # "superseded"

LEMMA ProposalIsCardinality == Proposal.card \in Cardinalities
  BY DEF Proposal, Propose, Proposed, Cardinalities

\* Without a superseded row the inference sees values that coexist.
LEMMA NothingSuperseded ==
  ASSUME IsFiniteSet(Object), NoSequence
  PROVE  Proposal.card # "temporal_single"
  <1> DEFINE observations == IF ListWithHistory = {} THEN << >> ELSE <<Observation>>
             several == {s \in DOMAIN observations : Cardinality(observations[s].distinct) >= 2}
             held == {r \in several \X Object : r[2] \in observations[r[1]].distinct}
             past == {r \in several \X Object : r[2] \in observations[r[1]].superseded}
             sequence == Cardinality(held) - Cardinality(several)
  <1>1. \A s \in DOMAIN observations : s \in {1} /\ observations[s].superseded = {}
    BY DEF NoSequence, Observation, ListWithHistory
  <1>2. Cardinality(past) = 0
    <2>1. past = {}
      BY <1>1
    <2> QED
      BY <2>1, FS_EmptySet
  <1>3. IsFiniteSet(several)
    <2>1. several \subseteq {1} /\ IsFiniteSet({1})
      BY <1>1, FS_Singleton
    <2> QED
      BY <2>1, FS_Subset
  <1>4. IsFiniteSet(held)
    <2>1. IsFiniteSet(several \X Object)
      BY <1>3, FS_Product
    <2>2. held \subseteq several \X Object
      OBVIOUS
    <2> QED
      BY <2>1, <2>2, FS_Subset
  <1>5. sequence \in Int
    BY <1>3, <1>4, FS_CardinalityType
  <1>6. /\ ~(sequence > 0 /\ Cardinality(past) > sequence)
        /\ ~(sequence > 0 /\ 10 * Cardinality(past) >= 6 * sequence)
    <2> HIDE DEF sequence, past
    <2> QED
      BY <1>2, <1>5
  <1>7. Proposal = Propose(observations)
    BY DEF Proposal
  <1> HIDE DEF observations
  <1>8. Propose(observations).card \in {"multi", "single"}
    BY <1>6 DEF Propose, Proposed
  <1> QED
    BY <1>7, <1>8

LEMMA NoSequenceStep ==
  ASSUME "temporal_single" \notin Registrations, TypeOK, NoSequence, [Next]_vars
  PROVE  NoSequence'
  <1> USE DEF TypeOK, store, payload, locals, NoSequence, Goto
  <1>1. ASSUME NEW A \in SUBSET Agent, Release(A) PROVE
          \A a \in Agent : ruled'[a] # "temporal_single" /\ decided'[a] # "superseded"
    BY <1>1 DEF Release
  <1>2. ASSUME NEW a \in Agent, NEW d, Settle(a, d), d.status # "superseded"
        PROVE  NoSequence'
    BY <1>2 DEF Settle
  <1>3. ASSUME NEW a \in Agent, AddDuel(a) \/ AddDuelBlind(a) PROVE NoSequence'
    <2>1. PICK d : /\ Settle(a, d)
                   /\ d = Unopposed \/ \E score : d \in Decision(a, score)
      BY <1>3 DEF AddDuel, AddDuelBlind
    <2>2. d.status # "superseded"
      BY <2>1, DecisionShape DEF Unopposed
    <2> QED
      BY <1>2, <2>1, <2>2
  <1>4. ASSUME NEW a \in Agent, AddWrite(a) PROVE NoSequence'
    <2>1. card' = card /\ status' = [status EXCEPT ![obj[a]] = decided[a]]
      BY <1>4 DEF AddWrite
    <2>2. \A b \in Agent : ruled'[b] # "temporal_single" /\ decided'[b] # "superseded"
      BY <1>1, <1>4 DEF AddWrite
    <2> QED
      BY <2>1, <2>2
  <1>5. ASSUME NEW a \in Agent, RetireStatus(a) PROVE NoSequence'
    BY <1>5 DEF RetireStatus, RetiredStatus
  <1>6. ASSUME NEW a \in Agent,
               \/ RetireUntil(a) \/ AddRefuse(a) \/ RestoreUntil(a) \/ RedoNothing(a)
               \/ Abort(a)
        PROVE  NoSequence'
    BY <1>1, <1>6 DEF RetireUntil, AddRefuse, RestoreUntil, RedoNothing, Abort
  <1>7. ASSUME NEW a \in Agent,
               AddLock(a) \/ AddRead(a) \/ AddReadFails(a) \/ RedoLock(a) \/ RedoRead(a)
        PROVE  NoSequence'
    BY <1>7 DEF AddLock, AddRead, AddReadFails, RedoLock, RedoRead
  <1>8. ASSUME NEW a \in Agent, Start(a) PROVE NoSequence'
    BY <1>8 DEF Start, AddBegin, Invalidate, RestoreValid, RedoPlan
  <1>9. ASSUME NEW c \in Registrations, RegisterCardinality(c) PROVE NoSequence'
    BY <1>9 DEF RegisterCardinality
  <1>10. ASSUME NEW p \in Process, Crash(p) PROVE NoSequence'
    <2>1. {a \in Agent : ProcessOf[a] = p} \in SUBSET Agent
      OBVIOUS
    <2> QED
      BY <1>1, <1>10, <2>1 DEF Crash
  <1>11. CASE Tick \/ UNCHANGED vars
              \/ (\E o \in Object, n \in Backfill : BackfillDependants(o, n))
              \/ (\E p \in Process : Briefing(p) \/ SessionEnd(p))
    BY <1>11 DEF Tick, vars, BackfillDependants, Briefing, SessionEnd
  <1> QED
    BY <1>3, <1>4, <1>5, <1>6, <1>7, <1>8, <1>9, <1>10, <1>11
    DEF Next, Start, Continue, Unlocked

\* A predicate that was never registered as a sequence is not taken for one,
\* however often its value was corrected, and even where what the inference
\* is sure of is registered at once.
THEOREM CorrectedStays ==
  ASSUME IsFiniteSet(Object)
  PROVE  InferringSpec => []CorrectedIsNoSequence
  <1>1. CASE "temporal_single" \in Registrations
    <2>1. CorrectedIsNoSequence
      BY <1>1 DEF CorrectedIsNoSequence
    <2> QED
      BY <2>1, PTL
  <1>2. CASE "temporal_single" \notin Registrations
    <2> DEFINE Inv == TypeOK /\ ObjectKnown /\ NoSequence
    <2>1. Init => Inv
      <3> SUFFICES ASSUME Init PROVE NoSequence
        BY TypeInit, ObjectInit
      <3> QED
        BY <1>2 DEF Init, NoSequence
    <2>2. Inv /\ [Next]_vars => Inv'
      BY <1>2, TypeStep, ObjectStep, NoSequenceStep
    <2>3. Inv /\ ApplyProposal => Inv'
      <3> SUFFICES ASSUME Inv, ApplyProposal PROVE Inv'
        OBVIOUS
      <3>1. RegisterCardinality(Proposal.card)
        BY DEF ApplyProposal
      <3>2. PICK c \in Cardinalities : c # "temporal_single" /\ RegisterCardinality(c)
        BY <3>1, ProposalIsCardinality, NothingSuperseded
      <3> QED
        BY <3>2 DEF RegisterCardinality, TypeOK, ObjectKnown, NoSequence, payload, locks,
                    locals
    <2>4. Inv => CorrectedIsNoSequence
      BY NothingSuperseded DEF CorrectedIsNoSequence
    <2>5. Inv /\ [Next \/ ApplyProposal]_vars => Inv'
      BY <2>2, <2>3
    <2> QED
      <3> HIDE DEF Inv
      <3> QED
        BY <2>1, <2>4, <2>5, PTL DEF InferringSpec
  <1> QED
    BY <1>1, <1>2

\* The same of the store whose cardinalities the user registers.
COROLLARY CorrectedStaysByHand ==
  ASSUME IsFiniteSet(Object)
  PROVE  Spec => []CorrectedIsNoSequence
  <1>1. [Next]_vars => [Next \/ ApplyProposal]_vars
    OBVIOUS
  <1>2. Spec => InferringSpec
    BY <1>1, PTL DEF Spec, InferringSpec
  <1> QED
    BY <1>2, CorrectedStays, PTL

-----------------------------------------------------------------------------
(* Locks and the length of calls.                                          *)

\* The facts lock is held by a call inside its critical section, and the
\* mutex of the axis by an add of its process, from its first step to its last.
Adding(a) ==
  pc[a] \in {"axis", "read", "duel", "write"} \/ (pc[a] \in {"retire", "stamp"} /\ obj[a] # None)

LocksFollowCalls ==
  /\ \A a \in Agent : flock = a <=> pc[a] \in Critical
  /\ \A p \in Process, a \in Agent : axisLock[p] = a <=> ProcessOf[a] = p /\ Adding(a)

\* Only an add or a restore has a triple.
CallsClean ==
  \A a \in Agent : pc[a] \in {"idle", "redo_flock", "redo_read"} => obj[a] = None

\* An upper bound on the steps a call has left, by its stage and the rows it
\* has still to retire.
StepsFrom(stage, S) ==
  LET most == 2 * Cardinality(Object) + 1
      left == [idle |-> 0, reopen |-> 1,
               stamp |-> 2 * Cardinality(S), retire |-> 2 * Cardinality(S) + 1,
               write |-> most + 1, duel |-> most + 2, read |-> most + 3, axis |-> most + 4,
               redo_read |-> most + 1, redo_flock |-> most + 2]
  IN  left[stage]

StepsLeft(a) == StepsFrom(pc[a], losers[a])

\* A step of its own leaves a call fewer steps, and nothing leaves it more.
CallsRunOut ==
  [][\A a \in Agent : /\ Continue(a) => StepsLeft(a)' < StepsLeft(a)
                      /\ pc[a] # "idle" => StepsLeft(a)' <= StepsLeft(a)]_vars

LEMMA ReleaseLocks ==
  ASSUME TypeOK, CallsClean, LocksFollowCalls, NEW A \in SUBSET Agent, Release(A)
  PROVE  CallsClean' /\ LocksFollowCalls'
  <1> USE DEF TypeOK, Release
  <1>1. \A a \in Agent : /\ a \in A => pc'[a] = "idle" /\ obj'[a] = None
                         /\ a \notin A => pc'[a] = pc[a] /\ obj'[a] = obj[a]
    OBVIOUS
  <1>2. CallsClean'
    BY <1>1 DEF CallsClean
  <1>3. ASSUME NEW a \in Agent PROVE flock' = a <=> pc'[a] \in Critical
    BY <1>1, ConstantsAssumption DEF LocksFollowCalls, Critical
  <1>4. ASSUME NEW p \in Process, NEW a \in Agent
        PROVE  axisLock'[p] = a <=> ProcessOf[a] = p /\ Adding(a)'
    <2>1. axisLock'[p] = IF axisLock[p] \in A THEN None ELSE axisLock[p]
      OBVIOUS
    <2>2. CASE a \in A
      BY <1>1, <2>1, <2>2, ConstantsAssumption DEF Adding
    <2>3. CASE a \notin A
      <3>1. Adding(a)' <=> Adding(a)
        BY <1>1, <2>3 DEF Adding
      <3> QED
        BY <2>1, <2>3, <3>1, ConstantsAssumption DEF LocksFollowCalls
    <2> QED
      BY <2>2, <2>3
  <1> QED
    BY <1>2, <1>3, <1>4 DEF LocksFollowCalls

\* A step that moves one call within the critical section, or outside it.
LEMMA MoveLocks ==
  ASSUME TypeOK, CallsClean, LocksFollowCalls, NEW a \in Agent, UNCHANGED <<axisLock, flock>>,
         \A b \in Agent : b # a => pc'[b] = pc[b] /\ obj'[b] = obj[b],
         pc'[a] \in Critical <=> pc[a] \in Critical, Adding(a)' <=> Adding(a),
         pc'[a] \in {"idle", "redo_flock", "redo_read"} => obj'[a] = None
  PROVE  CallsClean' /\ LocksFollowCalls'
  <1>1. \A b \in Agent : /\ pc'[b] \in Critical <=> pc[b] \in Critical
                         /\ Adding(b)' <=> Adding(b)
    BY DEF Adding
  <1>2. LocksFollowCalls'
    BY <1>1 DEF LocksFollowCalls
  <1>3. CallsClean'
    BY DEF CallsClean
  <1> QED
    BY <1>2, <1>3

LEMMA LocksStep ==
  ASSUME TypeOK, ObjectKnown, CallsClean, LocksFollowCalls, [Next]_vars
  PROVE  CallsClean' /\ LocksFollowCalls'
  <1> USE DEF TypeOK, locks, locals, Goto
  <1>1. ASSUME NEW a \in Agent, NEW o \in Object, AddBegin(a, o)
        PROVE  CallsClean' /\ LocksFollowCalls'
    <2>1. /\ pc[a] = "idle" /\ pc'[a] = "axis" /\ obj'[a] = o /\ flock' = flock
          /\ axisLock[ProcessOf[a]] = None
          /\ axisLock' = [axisLock EXCEPT ![ProcessOf[a]] = a]
          /\ \A b \in Agent : b # a => pc'[b] = pc[b] /\ obj'[b] = obj[b]
      BY <1>1 DEF AddBegin
    <2>2. \A b \in Agent : b # a => (Adding(b)' <=> Adding(b))
      BY <2>1 DEF Adding
    <2>3. Adding(a)' /\ ~Adding(a)
      BY <2>1 DEF Adding
    <2>4. ProcessOf[a] \in Process /\ None \notin Agent
      BY ConstantsAssumption
    <2>5. ASSUME NEW p \in Process, NEW b \in Agent
          PROVE  axisLock'[p] = b <=> ProcessOf[b] = p /\ Adding(b)'
      BY <2>1, <2>2, <2>3, <2>4 DEF LocksFollowCalls
    <2>6. \A b \in Agent : flock' = b <=> pc'[b] \in Critical
      BY <2>1 DEF LocksFollowCalls, Critical
    <2>7. CallsClean'
      BY <2>1 DEF CallsClean
    <2> QED
      BY <2>5, <2>6, <2>7 DEF LocksFollowCalls
  <1>2. ASSUME NEW a \in Agent,
               AddLock(a) \/ RedoLock(a) \/ \E o \in Object : RestoreValid(a, o)
        PROVE  CallsClean' /\ LocksFollowCalls'
    <2>1. /\ flock = None /\ flock' = a /\ axisLock' = axisLock
          /\ pc[a] \notin Critical /\ pc'[a] \in Critical
          /\ pc'[a] = "redo_read" => obj'[a] = None
          /\ \A b \in Agent : b # a => pc'[b] = pc[b] /\ obj'[b] = obj[b]
      BY <1>2 DEF AddLock, RedoLock, RestoreValid, Critical, CallsClean
    <2>2. Adding(a)' <=> Adding(a)
      BY <1>2 DEF AddLock, RedoLock, RestoreValid, Adding
    <2>3. \A b \in Agent : Adding(b)' <=> Adding(b)
      BY <2>1, <2>2 DEF Adding
    <2>4. \A b \in Agent : pc[b] \notin Critical
      BY <2>1, ConstantsAssumption DEF LocksFollowCalls
    <2>5. LocksFollowCalls'
      BY <2>1, <2>3, <2>4 DEF LocksFollowCalls
    <2>6. CallsClean'
      BY <2>1 DEF CallsClean, Critical
    <2> QED
      BY <2>5, <2>6
  <1>3. ASSUME NEW a \in Agent,
               \/ AddRead(a) \/ AddReadFails(a) \/ AddDuel(a) \/ AddDuelBlind(a)
               \/ RetireStatus(a) \/ RedoPlan(a) \/ RedoRead(a)
        PROVE  CallsClean' /\ LocksFollowCalls'
    <2>1. /\ UNCHANGED <<axisLock, flock, obj>>
          /\ \A b \in Agent : b # a => pc'[b] = pc[b]
          /\ pc'[a] \in Critical <=> pc[a] \in Critical
      BY <1>3
      DEF AddRead, AddReadFails, AddDuel, AddDuelBlind, Settle, RetireStatus, RedoPlan,
          RedoRead, Critical
    <2>2. Adding(a)' <=> Adding(a)
      BY <1>3
      DEF AddRead, AddReadFails, AddDuel, AddDuelBlind, Settle, RetireStatus, RedoPlan,
          RedoRead, Adding, CallsClean
    <2>3. pc'[a] \in {"idle", "redo_flock", "redo_read"} => obj'[a] = None
      BY <1>3
      DEF AddRead, AddReadFails, AddDuel, AddDuelBlind, Settle, RetireStatus, RedoPlan,
          RedoRead, CallsClean
    <2> QED
      BY <2>1, <2>2, <2>3, MoveLocks
  <1>4. ASSUME NEW a \in Agent, AddWrite(a) \/ RetireUntil(a)
        PROVE  CallsClean' /\ LocksFollowCalls'
    <2>1. CASE Release({a})
      BY <2>1, ReleaseLocks
    <2>2. CASE Goto(a, "retire") /\ UNCHANGED <<locks, obj>>
      <3>1. /\ pc[a] \in {"write", "stamp"} /\ pc'[a] = "retire"
            /\ pc[a] = "write" => obj[a] \in Object
            /\ \A b \in Agent : b # a => pc'[b] = pc[b]
        BY <1>4, <2>2 DEF AddWrite, RetireUntil, ObjectKnown
      <3>2. Adding(a)' <=> Adding(a)
        BY <2>2, <3>1, ConstantsAssumption DEF Adding
      <3> QED
        BY <2>2, <3>1, <3>2, MoveLocks DEF Critical
    <2> QED
      BY <1>4, <2>1, <2>2 DEF AddWrite, RetireUntil
  <1>5. ASSUME NEW a \in Agent,
               AddRefuse(a) \/ RestoreUntil(a) \/ RedoNothing(a) \/ Abort(a)
        PROVE  CallsClean' /\ LocksFollowCalls'
    BY <1>5, ReleaseLocks DEF AddRefuse, RestoreUntil, RedoNothing, Abort
  <1>6. ASSUME NEW p \in Process, Crash(p) PROVE CallsClean' /\ LocksFollowCalls'
    <2>1. {a \in Agent : ProcessOf[a] = p} \in SUBSET Agent
      OBVIOUS
    <2> QED
      BY <1>6, <2>1, ReleaseLocks DEF Crash
  <1>7. ASSUME \/ \E a \in Agent, o \in Object : Invalidate(a, o)
               \/ Unlocked \/ Tick \/ UNCHANGED vars
        PROVE  CallsClean' /\ LocksFollowCalls'
    <2>1. UNCHANGED <<axisLock, flock, pc, obj>>
      BY <1>7 DEF Invalidate, Unlocked, Tick, vars, BackfillDependants, RegisterCardinality,
                  Briefing, SessionEnd
    <2> QED
      BY <2>1 DEF CallsClean, LocksFollowCalls, Adding
  <1> QED
    BY <1>1, <1>2, <1>3, <1>4, <1>5, <1>6, <1>7 DEF Next, Start, Continue

\* No error path, dropped call or crash leaves a lock behind, and none takes
\* a lock away from a call that relies on it.
THEOREM NoLockIsLeaked == Spec => []LocksFollowCalls
  <1>1. Init => CallsClean /\ LocksFollowCalls
    BY ConstantsAssumption DEF Init, CallsClean, LocksFollowCalls, Critical, Adding
  <1> QED
    BY <1>1, LocksStep, TypeInit, TypeStep, ObjectInit, ObjectStep, PTL DEF Spec

\* A finite set of rows bounds the steps at every stage.
LEMMA StepsOfStage ==
  ASSUME IsFiniteSet(Object), NEW S \in SUBSET Object
  PROVE  LET n == Cardinality(Object) IN
         /\ n \in Nat /\ Cardinality(S) \in 0 .. n
         /\ StepsFrom("idle", S) = 0
         /\ StepsFrom("reopen", S) = 1
         /\ StepsFrom("stamp", S) = 2 * Cardinality(S)
         /\ StepsFrom("retire", S) = 2 * Cardinality(S) + 1
         /\ StepsFrom("write", S) = 2 * n + 2
         /\ StepsFrom("duel", S) = 2 * n + 3
         /\ StepsFrom("read", S) = 2 * n + 4
         /\ StepsFrom("axis", S) = 2 * n + 5
         /\ StepsFrom("redo_read", S) = 2 * n + 2
         /\ StepsFrom("redo_flock", S) = 2 * n + 3
  <1>1. Cardinality(Object) \in Nat
    BY FS_CardinalityType
  <1>2. Cardinality(S) \in 0 .. Cardinality(Object)
    BY <1>1, FS_Subset, FS_CardinalityType
  <1> QED
    BY <1>1, <1>2 DEF StepsFrom

LEMMA RemainingSteps ==
  ASSUME IsFiniteSet(Object), NEW S \in SUBSET Object, NEW stage \in Step
  PROVE  StepsFrom(stage, S) \in Nat
  <1>1. Cardinality(Object) \in Nat /\ Cardinality(S) \in Nat
    BY StepsOfStage
  <1> QED
    BY <1>1, StepsOfStage DEF Step, Critical

LEMMA EachStepCounts ==
  ASSUME IsFiniteSet(Object), TypeOK, TypeOK', Grounded, NEW a \in Agent, Continue(a)
  PROVE  StepsLeft(a)' < StepsLeft(a)
  <1> DEFINE n == Cardinality(Object)
             S == losers[a]
             T == losers'[a]
  <1>1. S \in SUBSET Object /\ T \in SUBSET Object
    BY DEF TypeOK
  <1>2. n \in Nat /\ Cardinality(S) \in 0 .. n /\ Cardinality(T) \in 0 .. n
    BY <1>1, StepsOfStage
  <1>3. StepsLeft(a) = StepsFrom(pc[a], S) /\ StepsLeft(a)' = StepsFrom(pc'[a], T)
    BY DEF StepsLeft
  <1> USE DEF Goto, locals, locks
  <1>4. CASE pc'[a] = "idle"
    <2>1. StepsLeft(a)' = 0
      BY <1>1, <1>3, <1>4, StepsOfStage
    <2>2. pc[a] \in Step \ {"idle"}
      BY DEF TypeOK, Continue, AddLock, AddRead, AddRefuse, AddReadFails, AddDuel,
             AddDuelBlind, AddWrite, RetireStatus, RetireUntil, RestoreUntil, RedoLock,
             RedoRead, RedoNothing
    <2>3. pc[a] = "stamp" => Cardinality(S) # 0
      <3> SUFFICES ASSUME pc[a] = "stamp" PROVE Cardinality(S) # 0
        OBVIOUS
      <3>1. loser[a] \in S
        BY DEF Grounded, RetirementHolds
      <3>2. IsFiniteSet(S)
        BY <1>1, FS_Subset
      <3> QED
        BY <3>1, <3>2, FS_EmptySet
    <2>4. StepsFrom(pc[a], S) > 0
      <3> HIDE DEF n, S, T
      <3> QED
        BY <1>1, <1>2, <2>2, <2>3, StepsOfStage DEF Step, Critical, n
    <2> QED
      BY <1>3, <2>1, <2>4
  <1>5. CASE AddLock(a)
    BY <1>1, <1>2, <1>3, <1>5, StepsOfStage DEF AddLock, TypeOK
  <1>6. CASE AddRead(a) \/ AddReadFails(a)
    BY <1>1, <1>2, <1>3, <1>6, StepsOfStage DEF AddRead, AddReadFails, TypeOK
  <1>7. CASE AddDuel(a) \/ AddDuelBlind(a)
    <2>1. pc[a] = "duel" /\ pc'[a] = "write"
      BY <1>7 DEF AddDuel, AddDuelBlind, Settle, TypeOK
    <2> QED
      BY <1>1, <1>2, <1>3, <2>1, StepsOfStage
  <1>8. CASE (AddWrite(a) \/ RedoRead(a)) /\ pc'[a] # "idle"
    <2>1. pc[a] \in {"write", "redo_read"} /\ pc'[a] = "retire"
      BY <1>8 DEF AddWrite, RedoRead, Release, TypeOK
    <2> QED
      BY <1>1, <1>2, <1>3, <2>1, StepsOfStage
  <1>9. CASE RetireStatus(a)
    BY <1>1, <1>2, <1>3, <1>9, StepsOfStage DEF RetireStatus, TypeOK
  <1>10. CASE RetireUntil(a) /\ pc'[a] # "idle"
    <2>1. pc[a] = "stamp" /\ pc'[a] = "retire" /\ T = S \ {loser[a]}
      BY <1>10 DEF RetireUntil, Release, TypeOK
    <2>2. loser[a] \in S
      BY <2>1 DEF Grounded, RetirementHolds
    <2>3. IsFiniteSet(S)
      BY <1>1, FS_Subset
    <2>4. Cardinality(T) = Cardinality(S) - 1
      BY <2>1, <2>2, <2>3, FS_RemoveElement
    <2> QED
      BY <1>1, <1>2, <1>3, <2>1, <2>4, StepsOfStage
  <1>11. CASE RedoLock(a)
    BY <1>1, <1>2, <1>3, <1>11, StepsOfStage DEF RedoLock, TypeOK
  <1>12. CASE AddRefuse(a) \/ RestoreUntil(a) \/ RedoNothing(a)
    BY <1>4, <1>12 DEF AddRefuse, RestoreUntil, RedoNothing, Release
  <1> QED
    BY <1>4, <1>5, <1>6, <1>7, <1>8, <1>9, <1>10, <1>11, <1>12 DEF Continue

\* What the others do leaves a call where it is, or ends it.
LEMMA Apart ==
  ASSUME TypeOK, Next, NEW a \in Agent, ~Continue(a), pc[a] # "idle"
  PROVE  (pc'[a] = pc[a] /\ losers'[a] = losers[a]) \/ pc'[a] = "idle"
  <1> USE DEF TypeOK, locals, Goto
  <1>1. ASSUME NEW b \in Agent, b # a, Start(b)
        PROVE  pc'[a] = pc[a] /\ losers'[a] = losers[a]
    BY <1>1 DEF Start, AddBegin, Invalidate, RestoreValid, RedoPlan
  <1>2. ASSUME NEW b \in Agent, b # a, Continue(b)
        PROVE  pc'[a] = pc[a] /\ losers'[a] = losers[a]
    <2>1. CASE Release({b})
      BY <1>2, <2>1 DEF Release
    <2>2. CASE AddLock(b) \/ AddRead(b) \/ AddReadFails(b) \/ RetireStatus(b) \/ RedoLock(b)
               \/ RedoRead(b)
      BY <1>2, <2>2 DEF AddLock, AddRead, AddReadFails, RetireStatus, RedoLock, RedoRead
    <2>3. CASE AddDuel(b) \/ AddDuelBlind(b)
      <3>1. PICK d : Settle(b, d)
        BY <2>3 DEF AddDuel, AddDuelBlind
      <3> QED
        BY <1>2, <3>1 DEF Settle
    <2>4. CASE AddWrite(b) /\ ~Release({b})
      BY <1>2, <2>4 DEF AddWrite
    <2>5. CASE RetireUntil(b) /\ ~Release({b})
      BY <1>2, <2>5 DEF RetireUntil
    <2> QED
      BY <1>2, <2>1, <2>2, <2>3, <2>4, <2>5
      DEF Continue, AddRefuse, RestoreUntil, RedoNothing
  <1>3. ASSUME NEW b \in Agent, Abort(b)
        PROVE  (pc'[a] = pc[a] /\ losers'[a] = losers[a]) \/ pc'[a] = "idle"
    BY <1>3 DEF Abort, Release
  <1>4. ASSUME NEW p \in Process, Crash(p)
        PROVE  (pc'[a] = pc[a] /\ losers'[a] = losers[a]) \/ pc'[a] = "idle"
    BY <1>4 DEF Crash, Release
  <1>5. CASE Start(a)
    BY <1>5 DEF Start, AddBegin, Invalidate, RestoreValid, RedoPlan
  <1>6. CASE Unlocked \/ Tick
    BY <1>6 DEF Unlocked, Tick, BackfillDependants, RegisterCardinality, Briefing, SessionEnd
  <1> QED
    BY <1>1, <1>2, <1>3, <1>4, <1>5, <1>6 DEF Next

\* Every call runs out of steps: each step of its own leaves it fewer, and no
\* step of another agent, no fault and no unlocked writer gives it more.  With
\* the answer to every wait, which is what the fairness of the runs says, the
\* facts lock is given back.
THEOREM CallsEnd ==
  ASSUME IsFiniteSet(Object)
  PROVE  Spec => CallsRunOut
  <1> DEFINE Fewer == \A a \in Agent :
                        /\ Continue(a) => StepsLeft(a)' < StepsLeft(a)
                        /\ pc[a] # "idle" => StepsLeft(a)' <= StepsLeft(a)
  <1>1. TypeOK /\ TypeOK' /\ Grounded /\ [Next]_vars => [Fewer]_vars
    <2> SUFFICES ASSUME TypeOK, TypeOK', Grounded, Next, NEW a \in Agent
                 PROVE  /\ Continue(a) => StepsLeft(a)' < StepsLeft(a)
                        /\ pc[a] # "idle" => StepsLeft(a)' <= StepsLeft(a)
      OBVIOUS
    <2>1. StepsLeft(a) \in Nat /\ StepsLeft(a)' \in Nat
      BY RemainingSteps DEF StepsLeft, TypeOK
    <2>2. CASE Continue(a)
      BY <2>1, <2>2, EachStepCounts
    <2>3. CASE ~Continue(a) /\ pc[a] # "idle"
      <3>1. (pc'[a] = pc[a] /\ losers'[a] = losers[a]) \/ pc'[a] = "idle"
        BY <2>3, Apart
      <3>2. CASE pc'[a] = "idle"
        <4>1. StepsLeft(a)' = 0
          BY <3>2, StepsOfStage DEF StepsLeft, TypeOK
        <4> QED
          BY <2>1, <2>3, <4>1
      <3>3. CASE pc'[a] = pc[a] /\ losers'[a] = losers[a]
        <4>1. StepsLeft(a)' = StepsLeft(a)
          BY <3>3 DEF StepsLeft
        <4> QED
          BY <2>1, <2>3, <4>1
      <3> QED
        BY <3>1, <3>2, <3>3
    <2> QED
      BY <2>2, <2>3
  <1>2. Spec => [][Fewer]_vars
    <2> HIDE DEF Fewer
    <2> QED
      BY <1>1, TypeCorrect, CriticalSection, PTL DEF Spec
  <1> QED
    BY <1>2 DEF CallsRunOut

=============================================================================
