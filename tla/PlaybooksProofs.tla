-------------------------- MODULE PlaybooksProofs --------------------------
(***************************************************************************)
(* For any number of playbooks and callers, whichever reads and writes     *)
(* fail: trust is earned; writing a playbook again keeps it; a report      *)
(* moves it the right way.                                                 *)
(***************************************************************************)
EXTENDS Playbooks, TLAPS

-----------------------------------------------------------------------------
(* Counts.                                                                 *)

LEMMA UnprovenStats == Unproven \in ProcStats
  BY DEF Unproven, ProcStats

LEMMA NothingIsWithin ==
  ASSUME NEW s \in ProcStats
  PROVE  Within(Unproven, s)
  BY DEF Within, Unproven, ProcStats

LEMMA WithinTrans ==
  ASSUME NEW r \in ProcStats, NEW s \in ProcStats, NEW t \in ProcStats, Within(r, s), Within(s, t)
  PROVE  Within(r, t)
  BY DEF Within, ProcStats

LEMMA BumpedStats ==
  ASSUME NEW s \in ProcStats, NEW t \in ProcStats, Within(s, t),
         NEW worked \in BOOLEAN, NEW verify \in BOOLEAN
  PROVE  /\ Bumped(s, worked, verify) \in ProcStats
         /\ Within(Bumped(s, worked, verify), Bumped(t, worked, verify))
         /\ Within(s, Bumped(s, worked, verify))
  BY DEF Within, ProcStats, Bumped

\* A report that verifies what is seen, in the row and in what was earned.
LEMMA Latched ==
  ASSUME NEW s \in ProcStats, NEW t \in ProcStats, Within(s, t), NEW verify \in BOOLEAN
  PROVE  LET Latch(x) == [x EXCEPT !.verified = @ \/ verify]
         IN  /\ Latch(s) \in ProcStats
             /\ Within(Latch(s), Latch(t))
             /\ Within(s, Latch(s))
  BY DEF Within, ProcStats

-----------------------------------------------------------------------------
(* Types.                                                                  *)

LEMMA ShownStats ==
  ASSUME TypeOK, NEW p \in Playbook
  PROVE  /\ Seed(p) \in ProcStats /\ Row(p) \in ProcStats
         /\ Recalled(p) \in ProcStats /\ Listed(p) \in ProcStats /\ Shown(p) \in ProcStats
  <1>1. core[p] # None => core[p].legacy \in ProcStats
    BY DEF TypeOK
  <1>2. stats[p] # None => stats[p] \in ProcStats
    BY DEF TypeOK
  <1> QED
    BY <1>1, <1>2, UnprovenStats DEF Seed, Row, Recalled, Listed, Shown, Decorated

LEMMA InHand ==
  ASSUME TypeOK, NEW c \in Client, work[c].pc # "idle"
  PROVE  work[c] \in Handling /\ Id(c) \in Playbook /\ work[c] # Idle
  BY DEF TypeOK, Handling, Id, Idle

LEMMA RequestsHandling ==
  ASSUME TypeOK, NEW p \in Playbook, NEW worked \in BOOLEAN, NEW verify \in BOOLEAN,
         NEW call \in Requests(p, worked, verify)
  PROVE  /\ call \in Handling /\ call # Idle
         /\ call.saw = Unproven /\ call.left = {}
  <1>1. ASSUME NEW op \in {"learn", "outcome", "set", "delete", "backfill"},
               NEW pc \in {"core", "row", "find", "survey"},
               NEW w \in BOOLEAN, NEW v \in BOOLEAN, call = Call(op, pc, p, w, v)
        PROVE  /\ call \in Handling /\ call # Idle
               /\ call.saw = Unproven /\ call.left = {}
    BY <1>1, ShownStats, UnprovenStats DEF Call, Handling, Idle
  <1> QED
    BY <1>1 DEF Requests

-----------------------------------------------------------------------------
(* The inductive invariant.                                                *)

\* A call in hand has read, and is about to write, no more than was earned.
Held(w, gain) ==
  w # Idle =>
    /\ Within(w.saw, gain[w.id])
    /\ \A e \in w.left : e.count <= gain[e.id].success

\* A point's counts and confirmations, and a row, are no more than was earned.
Backed(point, row, gain) ==
  /\ point # None => Within(point.legacy, gain) /\ point.confirmations <= gain.success
  /\ row # None => Within(row, gain)

IInv ==
  /\ TypeOK
  /\ \A c \in Client : Held(work[c], earned)
  /\ \A p \in Playbook : Backed(core[p], stats[p], earned[p])

LEMMA InitHolds == Init => IInv
  <1> SUFFICES ASSUME Init PROVE IInv
    OBVIOUS
  <1>1. Legacy \cup {Unproven} \subseteq ProcStats
    BY PlaybooksAssumption, UnprovenStats
  <1>2. core \in [Playbook -> {None} \cup [legacy : ProcStats, confirmations : Nat]]
    <2>1. \A p \in Playbook : core[p] \in {None} \cup [legacy : ProcStats, confirmations : Nat]
      BY <1>1 DEF Init
    <2> QED
      BY <2>1 DEF Init
  <1>3. \A p \in Playbook : Seed(p) \in ProcStats
    BY <1>2, UnprovenStats DEF Seed
  <1>4. TypeOK
    BY <1>2, <1>3 DEF Init, TypeOK
  <1>5. ASSUME NEW c \in Client PROVE Held(work[c], earned)
    BY DEF Init, Held
  <1>6. ASSUME NEW p \in Playbook PROVE Backed(core[p], stats[p], earned[p])
    <2>1. stats[p] = None /\ earned[p] = Seed(p)
      BY DEF Init
    <2>2. core[p] # None => core[p].legacy \in ProcStats /\ core[p].confirmations = 0
      BY <1>1 DEF Init
    <2> QED
      BY <2>1, <2>2 DEF Backed, Seed, Within, ProcStats
  <1> QED
    BY <1>4, <1>5, <1>6 DEF IInv

\* What was earned only grows, and what was no more stays no more.
LEMMA Grows ==
  ASSUME TypeOK, NEW gain \in [Playbook -> ProcStats], \A p \in Playbook : Within(earned[p], gain[p])
  PROVE  /\ \A w \in {Idle} \cup Handling : Held(w, earned) => Held(w, gain)
         /\ \A p \in Playbook : Backed(core[p], stats[p], earned[p]) => Backed(core[p], stats[p], gain[p])
  <1>0. earned \in [Playbook -> ProcStats]
    BY DEF TypeOK
  <1>1. ASSUME NEW w \in {Idle} \cup Handling, Held(w, earned), w # Idle
        PROVE  Within(w.saw, gain[w.id]) /\ \A e \in w.left : e.count <= gain[e.id].success
    <2>1. w.saw \in ProcStats /\ w.id \in Playbook /\ w.left \subseteq [id : Playbook, count : Nat]
      BY <1>1 DEF Handling
    <2>2. Within(w.saw, gain[w.id])
      <3>1. earned[w.id] \in ProcStats /\ gain[w.id] \in ProcStats
        BY <1>0, <2>1
      <3> QED
        BY <1>1, <2>1, <3>1, WithinTrans DEF Held
    <2>3. ASSUME NEW e \in w.left PROVE e.count <= gain[e.id].success
      <3>1. e.id \in Playbook /\ e.count \in Nat /\ e.count <= earned[e.id].success
        BY <1>1, <2>1 DEF Held
      <3> QED
        BY <1>0, <3>1 DEF Within, ProcStats
    <2> QED
      BY <2>2, <2>3
  <1>2. ASSUME NEW p \in Playbook, Backed(core[p], stats[p], earned[p])
        PROVE  Backed(core[p], stats[p], gain[p])
    <2>1. earned[p] \in ProcStats /\ gain[p] \in ProcStats
      BY <1>0
    <2>2. core[p] # None => core[p].legacy \in ProcStats /\ core[p].confirmations \in Nat
      BY DEF TypeOK
    <2>3. stats[p] # None => stats[p] \in ProcStats
      BY DEF TypeOK
    <2>4. core[p] # None => Within(core[p].legacy, gain[p])
      BY <1>2, <2>1, <2>2, WithinTrans DEF Backed
    <2>5. stats[p] # None => Within(stats[p], gain[p])
      BY <1>2, <2>1, <2>3, WithinTrans DEF Backed
    <2>6. core[p] # None => core[p].confirmations <= gain[p].success
      BY <1>2, <2>1, <2>2 DEF Backed, Within, ProcStats
    <2> QED
      BY <2>4, <2>5, <2>6 DEF Backed
  <1> QED
    BY <1>1, <1>2 DEF Held

\* A caller goes on with a call that holds no more than was earned.
LEMMA Going ==
  ASSUME IInv, NEW c \in Client, NEW w \in {Idle} \cup Handling, Works(c, w), Held(w, earned'),
         earned' \in [Playbook -> ProcStats], \A p \in Playbook : Within(earned[p], earned'[p])
  PROVE  /\ work' \in [Client -> {Idle} \cup Handling]
         /\ \A d \in Client : Held(work'[d], earned')
  <1>1. work \in [Client -> {Idle} \cup Handling]
    BY DEF IInv, TypeOK
  <1>2. work' = [work EXCEPT ![c] = w]
    BY DEF Works
  <1>3. ASSUME NEW d \in Client PROVE Held(work'[d], earned')
    <2>1. CASE d = c
      BY <1>1, <1>2, <2>1
    <2>2. CASE d # c
      <3>1. work'[d] = work[d] /\ work[d] \in {Idle} \cup Handling /\ Held(work[d], earned)
        BY <1>1, <1>2, <2>2 DEF IInv
      <3> QED
        BY <3>1, Grows DEF IInv
    <2> QED
      BY <2>1, <2>2
  <1> QED
    BY <1>1, <1>2, <1>3

\* As Going, when nothing is earned by it.
LEMMA GoingQuietly ==
  ASSUME IInv, NEW c \in Client, NEW w \in {Idle} \cup Handling, Works(c, w),
         UNCHANGED earned, Held(w, earned)
  PROVE  /\ work' \in [Client -> {Idle} \cup Handling]
         /\ \A d \in Client : Held(work'[d], earned')
         /\ earned' \in [Playbook -> ProcStats]
         /\ \A p \in Playbook : Backed(core[p], stats[p], earned'[p])
  <1>1. earned' \in [Playbook -> ProcStats] /\ \A p \in Playbook : Within(earned[p], earned'[p])
    BY DEF IInv, TypeOK, Within, ProcStats
  <1> QED
    BY <1>1, Going DEF IInv

\* Reads and refusals.
LEMMA ReadsHold ==
  ASSUME IInv, NEW c \in Client, UNCHANGED <<core, stats, earned>>,
         \/ LearnCore(c) \/ LearnRow(c) \/ Find(c) \/ OutcomeRow(c)
         \/ Survey(c) \/ Rows(c) \/ Confirmed(c) \/ Stops(c)
  PROVE  IInv'
  <1>1. \E w \in {Idle} \cup Handling : Works(c, w) /\ Held(w, earned)
    <2> DEFINE Reader(w) == w \in {Idle} \cup Handling /\ Works(c, w) /\ Held(w, earned)
    <2>a. TypeOK /\ Held(work[c], earned)
      BY DEF IInv
    <2>b. \A p \in Playbook : /\ earned[p] \in ProcStats
                             /\ Seed(p) \in ProcStats /\ Within(Seed(p), earned[p])
                             /\ Row(p) \in ProcStats /\ Within(Row(p), earned[p])
      <3> SUFFICES ASSUME NEW p \in Playbook
                   PROVE  /\ earned[p] \in ProcStats
                          /\ Seed(p) \in ProcStats /\ Within(Seed(p), earned[p])
                          /\ Row(p) \in ProcStats /\ Within(Row(p), earned[p])
        OBVIOUS
      <3>1. earned[p] \in ProcStats
        BY DEF IInv, TypeOK
      <3>2. Seed(p) \in ProcStats /\ Row(p) \in ProcStats
        BY <2>a, ShownStats
      <3>3. Within(Unproven, earned[p])
        BY <3>1, NothingIsWithin
      <3>4. Within(Seed(p), earned[p]) /\ Within(Row(p), earned[p])
        BY <3>3 DEF IInv, Backed, Seed, Row
      <3> QED
        BY <3>1, <3>2, <3>4
    <2>c. work[c].pc # "idle" =>
            /\ work[c] \in Handling /\ Id(c) \in Playbook
            /\ Id(c) = work[c].id
            /\ Within(work[c].saw, earned[Id(c)]) /\ work[c].saw \in ProcStats
            /\ \A e \in work[c].left : e.count <= earned[e.id].success
      BY <2>a, InHand DEF Held, Id, Handling
    <2>d. Reader(Idle) <=> Works(c, Idle)
      BY DEF Held
    <2>e. ASSUME NEW w \in Handling, Works(c, w), w.id = Id(c), Id(c) \in Playbook,
                 w.saw \in {Seed(Id(c)), Row(Id(c)), work[c].saw, Unproven},
                 work[c].pc # "idle", w.left = work[c].left
          PROVE  Reader(w)
      <3>1. Within(w.saw, earned[Id(c)])
        BY <2>b, <2>c, <2>e, NothingIsWithin
      <3> QED
        BY <3>1, <2>c, <2>e DEF Held
    <2>1. CASE LearnCore(c)
      <3>1. work[c].pc # "idle"
        BY <2>1 DEF LearnCore, At
      <3>2. /\ [work[c] EXCEPT !.pc = "row", !.was = core[Id(c)] # None, !.saw = Seed(Id(c))] \in Handling
            /\ [work[c] EXCEPT !.pc = "row", !.alone = FALSE] \in Handling
        BY <2>b, <2>c, <3>1 DEF Handling
      <3> DEFINE seen == [work[c] EXCEPT !.pc = "row", !.was = core[Id(c)] # None, !.saw = Seed(Id(c))]
                 unseen == [work[c] EXCEPT !.pc = "row", !.alone = FALSE]
      <3>3. /\ seen.id = Id(c) /\ seen.saw = Seed(Id(c)) /\ seen.left = work[c].left
            /\ unseen.id = Id(c) /\ unseen.saw = work[c].saw /\ unseen.left = work[c].left
        BY <2>c, <3>1 DEF Handling
      <3>4. Works(c, seen) \/ Works(c, unseen)
        BY <2>1 DEF LearnCore
      <3> QED
        BY <2>c, <2>e, <3>1, <3>2, <3>3, <3>4
    <2>2. CASE LearnRow(c)
      <3>1. work[c].pc # "idle"
        BY <2>2 DEF LearnRow, At
      <3>2. PICK read \in BOOLEAN :
              LET saw == IF read /\ Proven(Row(Id(c))) THEN Row(Id(c)) ELSE work[c].saw
              IN  Works(c, [work[c] EXCEPT !.pc = IF work[c].was THEN "put" ELSE "clear",
                                           !.saw = IF work[c].was THEN saw ELSE Unproven,
                                           !.alone = work[c].alone /\ read])
        BY <2>2 DEF LearnRow
      <3> DEFINE saw == IF read /\ Proven(Row(Id(c))) THEN Row(Id(c)) ELSE work[c].saw
                 seen == IF work[c].was THEN saw ELSE Unproven
                 w == [work[c] EXCEPT !.pc = IF work[c].was THEN "put" ELSE "clear",
                                      !.saw = seen, !.alone = work[c].alone /\ read]
      <3>3. seen \in ProcStats /\ seen \in {Row(Id(c)), work[c].saw, Unproven}
        BY <2>b, <2>c, <3>1, UnprovenStats
      <3>4. w \in Handling /\ w.id = Id(c) /\ w.saw = seen /\ w.left = work[c].left
        BY <2>c, <3>1, <3>3 DEF Handling
      <3> QED
        BY <2>c, <2>e, <3>1, <3>2, <3>3, <3>4
    <2>3. CASE Find(c)
      <3>1. work[c].pc # "idle"
        BY <2>3 DEF Find
      <3>2. \A pc \in {"put", "row", "core"} :
              [work[c] EXCEPT !.pc = pc] \in Handling /\ Reader([work[c] EXCEPT !.pc = pc]) <=> Works(c, [work[c] EXCEPT !.pc = pc])
        BY <2>c, <2>e, <3>1 DEF Handling
      <3>3. \/ Works(c, Idle)
            \/ \E pc \in {"put", "row", "core"} : Works(c, [work[c] EXCEPT !.pc = pc])
        BY <2>3 DEF Find
      <3> QED
        BY <2>d, <3>2, <3>3
    <2>4. CASE OutcomeRow(c)
      <3>1. work[c].pc # "idle"
        BY <2>4 DEF OutcomeRow, At
      <3>2. /\ [work[c] EXCEPT !.pc = "bump", !.saw = Row(Id(c))] \in Handling
            /\ [work[c] EXCEPT !.pc = "bump", !.alone = FALSE] \in Handling
        BY <2>b, <2>c, <3>1 DEF Handling
      <3> QED
        BY <2>4, <2>c, <2>e, <3>1, <3>2 DEF OutcomeRow, Handling
    <2>5. CASE Survey(c)
      <3>1. work[c].pc # "idle"
        BY <2>5 DEF Survey, At
      <3> DEFINE found == {[id |-> p, count |-> Seed(p).success] : p \in {q \in Procedure : core[q] # None}}
                 w == [work[c] EXCEPT !.pc = "rows", !.left = found]
      <3>2. \A e \in found : e.id \in Playbook /\ e.count \in Nat /\ e.count <= earned[e.id].success
        BY <2>b DEF Within, ProcStats, Playbook
      <3>3. found \subseteq [id : Playbook, count : Nat]
        BY <2>b DEF ProcStats, Playbook
      <3>4. w \in Handling /\ w.id = Id(c) /\ w.saw = work[c].saw /\ w.left = found
        BY <2>c, <3>1, <3>3 DEF Handling
      <3>5. Held(w, earned)
        BY <2>c, <3>1, <3>2, <3>4 DEF Held
      <3> QED
        BY <2>5, <3>4, <3>5 DEF Survey
    <2>6. CASE Rows(c)
      <3>1. work[c].pc # "idle"
        BY <2>6 DEF Rows, At
      <3>2. PICK read \in BOOLEAN :
              LET Count(e) == IF read /\ stats[e.id] # None THEN stats[e.id].success ELSE e.count
                  found == {[e EXCEPT !.count = Count(e)] : e \in work[c].left}
              IN  Works(c, [work[c] EXCEPT !.pc = "confirm", !.left = {e \in found : e.count > 0}])
        BY <2>6 DEF Rows
      <3> DEFINE Count(e) == IF read /\ stats[e.id] # None THEN stats[e.id].success ELSE e.count
                 found == {[e EXCEPT !.count = Count(e)] : e \in work[c].left}
                 left == {e \in found : e.count > 0}
                 w == [work[c] EXCEPT !.pc = "confirm", !.left = left]
      <3>3. ASSUME NEW e \in work[c].left
            PROVE  /\ [e EXCEPT !.count = Count(e)] \in [id : Playbook, count : Nat]
                   /\ Count(e) <= earned[e.id].success
        <4>1. e \in [id : Playbook, count : Nat] /\ e.count <= earned[e.id].success
          BY <2>c, <3>1 DEF Handling
        <4>2. stats[e.id] # None => Row(e.id) = stats[e.id]
          BY DEF Row
        <4>3. Count(e) \in Nat /\ Count(e) <= earned[e.id].success
          BY <2>b, <4>1, <4>2 DEF Within, ProcStats
        <4> QED
          BY <4>1, <4>3
      <3>4. left \subseteq [id : Playbook, count : Nat] /\ \A e \in left : e.count <= earned[e.id].success
        <4>1. ASSUME NEW f \in found
              PROVE  f \in [id : Playbook, count : Nat] /\ f.count <= earned[f.id].success
          <5>1. PICK e \in work[c].left : f = [e EXCEPT !.count = Count(e)]
            OBVIOUS
          <5>2. e \in [id : Playbook, count : Nat]
            BY <2>c, <3>1 DEF Handling
          <5>3. f.id = e.id /\ f.count = Count(e)
            BY <5>1, <5>2
          <5> QED
            BY <3>3, <5>1, <5>3
        <4> QED
          BY <4>1
      <3>5. w \in Handling /\ w.id = Id(c) /\ w.saw = work[c].saw /\ w.left = left
        BY <2>c, <3>1, <3>4 DEF Handling
      <3>6. Held(w, earned)
        BY <2>c, <3>1, <3>4, <3>5 DEF Held
      <3> QED
        BY <3>2, <3>5, <3>6
    <2>7. CASE Confirmed(c) \/ Stops(c)
      BY <2>7, <2>d DEF Confirmed, Stops
    <2> QED
      BY <2>1, <2>2, <2>3, <2>4, <2>5, <2>6, <2>7
  <1>2. calls' \in Nat /\ faults' \in Nat
    <2>1. calls' = calls
      BY <1>1 DEF Works
    <2>2. LearnCore(c) \/ OutcomeRow(c) \/ Stops(c) => Fine \/ Fails
      BY DEF LearnCore, OutcomeRow, Stops
    <2>3. LearnRow(c) \/ Rows(c) => Fine \/ Fails
      BY Zenon DEF LearnRow, Rows
    <2>4. Find(c) \/ Survey(c) \/ Confirmed(c) => Fine
      BY DEF Find, Survey, Confirmed
    <2> QED
      BY <2>1, <2>2, <2>3, <2>4 DEF IInv, TypeOK, Fine, Fails
  <1> QED
    BY <1>1, <1>2, GoingQuietly DEF IInv, TypeOK

\* What a call in hand stands on.
LEMMA HandHolds ==
  ASSUME IInv, NEW c \in Client, work[c].pc # "idle"
  PROVE  /\ work[c] \in Handling /\ Id(c) = work[c].id /\ Id(c) \in Playbook
         /\ work[c].saw \in ProcStats /\ Within(work[c].saw, earned[Id(c)])
         /\ \A e \in work[c].left : e.id \in Playbook /\ e.count \in Nat /\ e.count <= earned[e.id].success
         /\ earned[Id(c)] \in ProcStats
  <1>1. work[c] \in Handling /\ work[c] # Idle
    BY InHand DEF IInv
  <1>2. Held(work[c], earned)
    BY DEF IInv
  <1> QED
    BY <1>1, <1>2 DEF Held, Handling, Id, IInv, TypeOK

\* A step that writes a point or a row: each as typed and as earned as before.
LEMMA Writing ==
  ASSUME IInv,
         core' \in [Playbook -> {None} \cup [legacy : ProcStats, confirmations : Nat]],
         stats' \in [Playbook -> {None} \cup ProcStats],
         earned' \in [Playbook -> ProcStats], work' \in [Client -> {Idle} \cup Handling],
         UNCHANGED calls, Fine \/ Fails,
         \A d \in Client : Held(work'[d], earned'),
         \A p \in Playbook : Backed(core'[p], stats'[p], earned'[p])
  PROVE  IInv'
  <1>1. TypeOK'
    BY DEF IInv, TypeOK, Fine, Fails
  <1> QED
    BY <1>1 DEF IInv

\* The steps of a call that erase, or put a new text, and earn nothing.
LEMMA TextsHold ==
  ASSUME IInv, NEW c \in Client,
         ClearRow(c) \/ LearnPut(c) \/ SetPut(c) \/ DeleteCore(c) \/ DeleteStats(c)
  PROVE  IInv'
  <1>a. work[c].pc # "idle" /\ UNCHANGED <<calls, earned>> /\ (Fine \/ Fails)
    BY DEF ClearRow, LearnPut, SetPut, DeleteCore, DeleteStats, At, Works
  <1>b. work[c] \in Handling /\ Held(work[c], earned)
    BY <1>a, HandHolds DEF IInv
  <1>1. \E w \in {Idle} \cup Handling : Works(c, w) /\ Held(w, earned)
    <2>1. Held(Idle, earned)
      BY DEF Held
    <2>2. \A pc \in {"put", "keep", "stats"} :
            [work[c] EXCEPT !.pc = pc] \in Handling /\ Held([work[c] EXCEPT !.pc = pc], earned)
      BY <1>a, HandHolds DEF Held, Handling
    <2>3. LET w == [work[c] EXCEPT !.pc = "put", !.alone = FALSE] IN w \in Handling /\ Held(w, earned)
      BY <1>a, HandHolds DEF Held, Handling
    <2>4. \/ Works(c, Idle)
          \/ \E pc \in {"put", "keep", "stats"} : Works(c, [work[c] EXCEPT !.pc = pc])
          \/ Works(c, [work[c] EXCEPT !.pc = "put", !.alone = FALSE])
      BY DEF ClearRow, LearnPut, SetPut, DeleteCore, DeleteStats
    <2> QED
      BY <2>1, <2>2, <2>3, <2>4
  <1>2. /\ work' \in [Client -> {Idle} \cup Handling]
        /\ \A d \in Client : Held(work'[d], earned')
        /\ earned' \in [Playbook -> ProcStats]
    BY <1>a, <1>1, GoingQuietly
  <1>3. /\ core' \in [Playbook -> {None} \cup [legacy : ProcStats, confirmations : Nat]]
        /\ \A p \in Playbook : core'[p] \in {core[p], None, NoPoint}
    <2>1. NoPoint \in [legacy : ProcStats, confirmations : Nat]
      BY UnprovenStats DEF NoPoint
    <2>2. UNCHANGED core \/ (\E x \in {None, NoPoint} : Put(Id(c), x))
      BY DEF ClearRow, LearnPut, SetPut, DeleteCore, DeleteStats
    <2> QED
      BY <2>1, <2>2 DEF Put, IInv, TypeOK
  <1>4. /\ stats' \in [Playbook -> {None} \cup ProcStats]
        /\ \A p \in Playbook : stats'[p] \in {stats[p], None}
    <2>1. UNCHANGED stats \/ SetRow(Id(c), None)
      BY DEF ClearRow, LearnPut, SetPut, DeleteCore, DeleteStats
    <2> QED
      BY <2>1 DEF SetRow, IInv, TypeOK
  <1>5. ASSUME NEW p \in Playbook PROVE Backed(core'[p], stats'[p], earned'[p])
    <2>1. Backed(core[p], stats[p], earned[p]) /\ earned'[p] = earned[p] /\ earned[p] \in ProcStats
      BY <1>a DEF IInv, TypeOK
    <2>2. Within(NoPoint.legacy, earned[p]) /\ NoPoint.confirmations <= earned[p].success
      BY <2>1, NothingIsWithin DEF NoPoint, ProcStats
    <2> QED
      BY <1>3, <1>4, <2>1, <2>2 DEF Backed
  <1> QED
    BY <1>a, <1>2, <1>3, <1>4, <1>5, Writing

\* A point's confirmations are what a success count was, once.
LEMMA ConfirmHolds ==
  ASSUME IInv, NEW c \in Client, Confirm(c)
  PROVE  IInv'
  <1>a. work[c].pc # "idle" /\ UNCHANGED <<calls, stats, earned>> /\ Fine
    BY DEF Confirm, At, Works
  <1>1. PICK e \in work[c].left :
          /\ Works(c, [work[c] EXCEPT !.left = @ \ {e}])
          /\ core' = IF core[e.id] = None THEN core
                     ELSE [core EXCEPT ![e.id].confirmations = e.count]
    BY DEF Confirm
  <1>2. e.id \in Playbook /\ e.count \in Nat /\ e.count <= earned[e.id].success
    BY <1>a, HandHolds
  <1> DEFINE w == [work[c] EXCEPT !.left = @ \ {e}]
  <1>3. w \in Handling /\ w.left \subseteq work[c].left /\ w.saw = work[c].saw /\ w.id = work[c].id
    BY <1>a, HandHolds DEF Handling
  <1>4. Held(w, earned)
    BY <1>a, <1>3, HandHolds DEF Held
  <1>5. /\ work' \in [Client -> {Idle} \cup Handling]
        /\ \A d \in Client : Held(work'[d], earned')
        /\ earned' \in [Playbook -> ProcStats]
    BY <1>a, <1>1, <1>3, <1>4, GoingQuietly
  <1>6. core \in [Playbook -> {None} \cup [legacy : ProcStats, confirmations : Nat]]
    BY DEF IInv, TypeOK
  <1>7. \A p \in Playbook :
          \/ core'[p] = core[p]
          \/ /\ p = e.id /\ core[p] # None /\ core'[p].legacy = core[p].legacy
             /\ core'[p] \in [legacy : ProcStats, confirmations : Nat]
             /\ core'[p].confirmations = e.count
    BY <1>1, <1>2, <1>6
  <1>8. core' \in [Playbook -> {None} \cup [legacy : ProcStats, confirmations : Nat]]
    <2>1. core' = [p \in Playbook |-> core'[p]]
      BY <1>1, <1>6
    <2> QED
      BY <1>6, <1>7, <2>1
  <1>9. ASSUME NEW p \in Playbook PROVE Backed(core'[p], stats'[p], earned'[p])
    BY <1>a, <1>2, <1>7 DEF IInv, Backed
  <1>10. stats' \in [Playbook -> {None} \cup ProcStats]
    BY <1>a DEF IInv, TypeOK
  <1> QED
    BY <1>a, <1>5, <1>8, <1>9, <1>10, Writing

\* A row written with what was earned at the same moment.
LEMMA RowHolds ==
  ASSUME IInv, NEW c \in Client, work[c].pc # "idle", UNCHANGED <<calls, core>>, Fine, Works(c, Idle),
         NEW row \in ProcStats, NEW gain \in ProcStats, Within(row, gain), Within(earned[Id(c)], gain),
         SetRow(Id(c), row), earned' = [earned EXCEPT ![Id(c)] = gain]
  PROVE  IInv'
  <1>1. Id(c) \in Playbook
    BY HandHolds
  <1>2. earned' \in [Playbook -> ProcStats] /\ \A p \in Playbook : Within(earned[p], earned'[p])
    BY <1>1 DEF IInv, TypeOK, Within, ProcStats
  <1>3. /\ work' \in [Client -> {Idle} \cup Handling]
        /\ \A d \in Client : Held(work'[d], earned')
    BY <1>2, Going DEF Held
  <1>4. \A p \in Playbook : Backed(core[p], stats[p], earned'[p])
    BY <1>2, Grows DEF IInv
  <1>5. stats' \in [Playbook -> {None} \cup ProcStats]
    BY <1>1 DEF SetRow, IInv, TypeOK
  <1>6. ASSUME NEW p \in Playbook PROVE Backed(core'[p], stats'[p], earned'[p])
    <2>1. CASE p = Id(c)
      <3>1. stats'[p] = row /\ earned'[p] = gain
        BY <1>1, <2>1 DEF SetRow, IInv, TypeOK
      <3> QED
        BY <1>4, <3>1 DEF Backed
    <2>2. CASE p # Id(c)
      <3>1. stats'[p] = stats[p]
        BY <1>1, <2>2 DEF SetRow, IInv, TypeOK
      <3> QED
        BY <1>4, <3>1 DEF Backed
    <2> QED
      BY <2>1, <2>2
  <1>7. core' \in [Playbook -> {None} \cup [legacy : ProcStats, confirmations : Nat]]
    BY DEF IInv, TypeOK
  <1> QED
    BY <1>2, <1>3, <1>5, <1>6, <1>7, Writing

LEMMA KeepHolds ==
  ASSUME IInv, NEW c \in Client, LearnKeep(c)
  PROVE  IInv'
  <1> DEFINE Latch(x) == [x EXCEPT !.verified = @ \/ work[c].verify]
  <1>1. work[c].pc # "idle" /\ UNCHANGED <<calls, core>> /\ Fine /\ Works(c, Idle)
    BY DEF LearnKeep, At, Works
  <1>2. /\ work[c].saw \in ProcStats /\ earned[Id(c)] \in ProcStats /\ work[c].verify \in BOOLEAN
        /\ Within(work[c].saw, earned[Id(c)])
    BY <1>1, HandHolds DEF Handling
  <1>3. earned[Id(c)] \in ProcStats /\ Within(earned[Id(c)], earned[Id(c)])
    BY <1>2 DEF Within, ProcStats
  <1>4. /\ Latch(work[c].saw) \in ProcStats /\ Latch(earned[Id(c)]) \in ProcStats
        /\ Within(Latch(work[c].saw), Latch(earned[Id(c)]))
        /\ Within(earned[Id(c)], Latch(earned[Id(c)]))
    BY <1>2, <1>3, Latched
  <1>5. /\ SetRow(Id(c), Latch(work[c].saw))
        /\ earned' = [earned EXCEPT ![Id(c)] = Latch(earned[Id(c)])]
    <2>1. /\ Id(c) \in Playbook /\ earned \in [Playbook -> ProcStats]
      BY <1>1, HandHolds DEF IInv, TypeOK
    <2>2. earned' = [earned EXCEPT ![Id(c)].verified = @ \/ work[c].verify]
      BY DEF LearnKeep
    <2>3. SetRow(Id(c), Latch(work[c].saw))
      BY Zenon DEF LearnKeep
    <2> QED
      BY <2>1, <2>2, <2>3
  <1> QED
    BY <1>1, <1>4, <1>5, RowHolds

LEMMA BumpHolds ==
  ASSUME IInv, NEW c \in Client, OutcomeBump(c)
  PROVE  IInv'
  <1> DEFINE row == Bumped(work[c].saw, work[c].worked, work[c].verify)
             gain == Bumped(earned[Id(c)], work[c].worked, work[c].verify)
  <1>1. work[c].pc # "idle" /\ UNCHANGED <<calls, core>> /\ Fine /\ Works(c, Idle)
    BY DEF OutcomeBump, At, Works
  <1>2. /\ work[c].saw \in ProcStats /\ earned[Id(c)] \in ProcStats
        /\ Within(work[c].saw, earned[Id(c)])
        /\ work[c].worked \in BOOLEAN /\ work[c].verify \in BOOLEAN
    BY <1>1, HandHolds DEF Handling
  <1>3. Within(earned[Id(c)], earned[Id(c)])
    BY <1>2 DEF Within, ProcStats
  <1>4. row \in ProcStats /\ gain \in ProcStats /\ Within(row, gain) /\ Within(earned[Id(c)], gain)
    BY <1>2, <1>3, BumpedStats
  <1>5. SetRow(Id(c), row) /\ earned' = [earned EXCEPT ![Id(c)] = gain]
    BY DEF OutcomeBump
  <1> QED
    BY <1>1, <1>4, <1>5, RowHolds

\* A call begins with nothing read.
LEMMA BeginHolds ==
  ASSUME IInv, NEW c \in Client, Begin(c)
  PROVE  IInv'
  <1>0. PICK p \in Playbook, worked \in BOOLEAN, verify \in BOOLEAN :
          \E call \in Requests(p, worked, verify) :
            work' = [d \in Client |-> IF d = c THEN call ELSE Disturbed(work[d])]
    BY DEF Begin
  <1>1. PICK call \in Requests(p, worked, verify) :
          work' = [d \in Client |-> IF d = c THEN call ELSE Disturbed(work[d])]
    BY <1>0
  <1>2. call \in Handling /\ call.saw = Unproven /\ call.left = {}
    BY RequestsHandling DEF IInv
  <1>3. Held(call, earned)
    BY <1>2, NothingIsWithin DEF Held, Handling, IInv, TypeOK
  <1>4. ASSUME NEW w \in {Idle} \cup Handling, Held(w, earned)
        PROVE  Disturbed(w) \in {Idle} \cup Handling /\ Held(Disturbed(w), earned)
    BY <1>4 DEF Disturbed, Handling, Held
  <1>5. \A d \in Client : work[d] \in {Idle} \cup Handling /\ Held(work[d], earned)
    BY DEF IInv, TypeOK
  <1>6. \A d \in Client : work'[d] \in {Idle} \cup Handling /\ Held(work'[d], earned)
    BY <1>1, <1>2, <1>3, <1>4, <1>5
  <1>7. work' \in [Client -> {Idle} \cup Handling]
    BY <1>1, <1>6
  <1>8. UNCHANGED <<core, stats, faults, earned>> /\ calls' = calls + 1
    BY DEF Begin
  <1>9. TypeOK'
    BY <1>7, <1>8 DEF IInv, TypeOK
  <1> QED
    BY <1>6, <1>8, <1>9 DEF IInv

LEMMA NextHolds == IInv /\ [Next]_vars => IInv'
  <1> SUFFICES ASSUME IInv, [Next]_vars PROVE IInv'
    OBVIOUS
  <1>1. ASSUME NEW c \in Client, Begin(c) PROVE IInv'
    BY <1>1, BeginHolds
  <1>2. ASSUME NEW c \in Client, Learn(c) PROVE IInv'
    <2>1. LearnCore(c) \/ LearnRow(c) => UNCHANGED <<core, stats, earned>>
      BY Zenon DEF LearnCore, LearnRow
    <2> QED
      BY <1>2, <2>1, ReadsHold, TextsHold, KeepHolds DEF Learn
  <1>3. ASSUME NEW c \in Client, Report(c) PROVE IInv'
    <2>1. Find(c) \/ OutcomeRow(c) => UNCHANGED <<core, stats, earned>>
      BY Zenon DEF Find, OutcomeRow
    <2> QED
      BY <1>3, <2>1, ReadsHold, BumpHolds DEF Report
  <1>4. ASSUME NEW c \in Client, Write(c) PROVE IInv'
    BY <1>4, TextsHold DEF Write
  <1>5. ASSUME NEW c \in Client, Backfill(c) PROVE IInv'
    <2>1. Survey(c) \/ Rows(c) \/ Confirmed(c) => UNCHANGED <<core, stats, earned>>
      BY Zenon DEF Survey, Rows, Confirmed
    <2> QED
      BY <1>5, <2>1, ReadsHold, ConfirmHolds DEF Backfill
  <1>6. ASSUME NEW c \in Client, Stops(c) PROVE IInv'
    <2>1. UNCHANGED <<core, stats, earned>>
      BY <1>6 DEF Stops
    <2> QED
      BY <1>6, <2>1, ReadsHold
  <1>7. CASE UNCHANGED vars
    BY <1>7 DEF vars, IInv, TypeOK
  <1> QED
    BY <1>1, <1>2, <1>3, <1>4, <1>5, <1>6, <1>7 DEF Next

-----------------------------------------------------------------------------
(* The theorems.                                                           *)

LEMMA Invariance == Spec => []IInv
  BY InitHolds, NextHolds, PTL DEF Spec

\* The counts, the rows and the calls in hand keep their types.  (storage.rs:
\* procedure_outcome, add_procedure.)
THEOREM TypeCorrect == Spec => []TypeOK
  <1>1. IInv => TypeOK
    BY DEF IInv
  <1> QED
    BY <1>1, Invariance, PTL

\* Whatever is shown of a playbook was reported of it, and it is verified only
\* by a signal that verifies; confirmations are no more than its successes.
\* (storage.rs: recall_procedures, list_verified_procedures.)
THEOREM TrustOnlyEarned == Spec => []TrustIsEarned
  <1>1. IInv => TrustIsEarned
    <2> SUFFICES ASSUME IInv, NEW p \in Playbook
                 PROVE  /\ Within(Recalled(p), earned[p]) /\ Within(Listed(p), earned[p])
                        /\ core[p] # None => core[p].confirmations <= earned[p].success
      BY DEF TrustIsEarned
    <2>1. Within(Unproven, earned[p])
      BY NothingIsWithin DEF IInv, TypeOK
    <2>2. Backed(core[p], stats[p], earned[p])
      BY DEF IInv
    <2> QED
      BY <2>1, <2>2 DEF Backed, Recalled, Listed, Seed, Row
  <1> QED
    BY <1>1, Invariance, PTL

-----------------------------------------------------------------------------
(* Rewriting and reports.  A call nobody disturbs is alone in the store:   *)
(* what it has read, and what was shown when it began, still stands.       *)

\* What is shown of a point and its row.
RowOf(row) == IF row # None THEN row ELSE Unproven
SeedOf(point) == IF point # None THEN point.legacy ELSE Unproven
Seen(p, point, row) == IF p \in Skill \/ row # None THEN RowOf(row) ELSE SeedOf(point)

LEMMA ShownIsSeen ==
  ASSUME NEW p
  PROVE  /\ Shown(p) = Seen(p, core[p], stats[p]) /\ Row(p) = RowOf(stats[p]) /\ Seed(p) = SeedOf(core[p])
         /\ Shown(p)' = Seen(p, core'[p], stats'[p])
  BY DEF Shown, Decorated, Recalled, Row, Seed, Seen, RowOf, SeedOf

Settled(w, point, row) == w.before = Seen(w.id, point, row) /\ (w.there <=> point # None)
Past(w) == IF w.there THEN w.before ELSE Unproven

Knows(w, point, row) ==
  w # Idle /\ w.alone =>
    /\ w.op = "learn" =>
         /\ w.id \in Procedure /\ w.pc \in {"core", "row", "clear", "put", "keep"}
         /\ w.pc \in {"core", "row", "clear"} => Settled(w, point, row)
         /\ w.pc = "row" => (w.was <=> w.there) /\ w.saw = SeedOf(point)
         /\ w.pc = "clear" => ~w.there /\ w.saw = Unproven
         /\ w.pc = "put" => w.saw = Past(w) /\ row \in {None, w.saw}
         /\ w.pc = "keep" => w.saw = Past(w)
    /\ w.op = "set" =>
         w.id \in Skill /\ w.pc \in {"find", "put"} /\ Settled(w, point, row) /\ ~w.verify
    /\ w.op = "outcome" =>
         /\ w.pc \in {"find", "row", "bump"} /\ Settled(w, point, row)
         /\ w.pc = "bump" => w.saw = RowOf(row)

\* A row is there for what it says.
Says(row) == row # None => Proven(row)
Keeping(w) == w.pc = "keep" => w.verify \/ Proven(w.saw)

AInv ==
  /\ IInv
  /\ \A p \in Playbook : Says(stats[p])
  /\ \A c \in Client :
       /\ Keeping(work[c])
       /\ work[c] # Idle => Knows(work[c], core[work[c].id], stats[work[c].id])
       /\ work[c] # Idle /\ work[c].alone => \A d \in Client : d # c => work[d] = Idle

LEMMA BumpedSays ==
  ASSUME NEW s \in ProcStats, NEW worked \in BOOLEAN, NEW verify \in BOOLEAN
  PROVE  Says(Bumped(s, worked, verify))
  BY DEF ProcStats, Says, Proven, Unproven, Bumped

LEMMA KeptSays ==
  ASSUME NEW s \in ProcStats, NEW verify \in BOOLEAN, verify \/ Proven(s)
  PROVE  Says([s EXCEPT !.verified = @ \/ verify])
  BY DEF ProcStats, Says, Proven, Unproven

\* A call's own steps.
Goes(c) == Learn(c) \/ Report(c) \/ Write(c) \/ Backfill(c) \/ Stops(c)
\* The call goes on, and knows what stands, or ends.
Fits(c, v) == v # Idle => v.id = Id(c) /\ Knows(v, core'[Id(c)], stats'[Id(c)]) /\ (v.alone => work[c].alone)
Advances(c) == \E v : Works(c, v) /\ Keeping(v) /\ Fits(c, v)

LEMMA GoesOn ==
  ASSUME AInv, NEW c \in Client, NEW v, Works(c, v)
  PROVE  work'[c] = v /\ \A d \in Client : d # c => work'[d] = work[d]
  BY DEF AInv, IInv, TypeOK, Works

LEMMA LearnKnows ==
  ASSUME AInv, NEW c \in Client, Learn(c)
  PROVE  /\ \A p \in Playbook : Says(stats'[p])
         /\ Advances(c)
  <1> DEFINE w == work[c]
             p == Id(c)
             Fit(v) == v # Idle => v.id = p /\ Knows(v, core'[p], stats'[p]) /\ (v.alone => w.alone)
             Goal == /\ \A q \in Playbook : Says(stats'[q])
                     /\ \E v : Works(c, v) /\ Keeping(v) /\ Fit(v)
  <1> SUFFICES Goal
    BY DEF Advances, Fits
  <1>0. w \in Handling /\ p \in Playbook /\ p = w.id /\ TypeOK
        /\ Knows(w, core[p], stats[p]) /\ Keeping(w) /\ w.op = "learn"
        /\ Row(p) = RowOf(stats[p]) /\ Seed(p) = SeedOf(core[p])
    <2>1. w.pc # "idle" /\ w.op = "learn"
      BY DEF Learn, LearnCore, LearnRow, ClearRow, LearnPut, LearnKeep, At
    <2>2. TypeOK
      BY DEF AInv, IInv
    <2>3. w \in Handling /\ p \in Playbook /\ w # Idle
      BY <2>1, <2>2, InHand
    <2> QED
      BY <2>1, <2>2, <2>3, ShownIsSeen DEF AInv, Id
  <1>a. Fit(Idle) /\ Keeping(Idle)
    BY DEF Idle, Keeping
  <1>b. \A q \in Playbook : Says(stats[q])
    BY DEF AInv
  <1>c. p \notin Skill \/ ~w.alone
    BY <1>0, PlaybooksAssumption DEF Knows, Idle, Handling
  <1>1. CASE LearnCore(c)
    <2>0. w.pc = "core" /\ UNCHANGED <<core, stats>>
      BY <1>1 DEF LearnCore, At
    <2> HIDE DEF w, p
    <2>1. CASE Works(c, [w EXCEPT !.pc = "row", !.was = core[p] # None, !.saw = Seed(p)])
      <3> DEFINE v == [w EXCEPT !.pc = "row", !.was = core[p] # None, !.saw = Seed(p)]
      <3>1. /\ v.pc = "row" /\ (v.was <=> core[p] # None) /\ v.saw = Seed(p) /\ v.id = p /\ v.op = "learn"
            /\ v.before = w.before /\ (v.there <=> w.there) /\ (v.alone <=> w.alone)
        BY <1>0 DEF Handling
      <3> HIDE DEF v
      <3>2. Keeping(v) /\ Fit(v)
        BY <1>0, <2>0, <3>1 DEF Keeping, Knows, Settled, Idle, Handling
      <3> QED
        BY <1>b, <2>0, <2>1, <3>2 DEF v
    <2>2. CASE Works(c, [w EXCEPT !.pc = "row", !.alone = FALSE])
      <3> DEFINE v == [w EXCEPT !.pc = "row", !.alone = FALSE]
      <3>1. v.pc = "row" /\ ~v.alone /\ v.id = p
        BY <1>0 DEF Handling
      <3> HIDE DEF v
      <3>2. Keeping(v) /\ Fit(v)
        BY <3>1 DEF Keeping, Knows
      <3> QED
        BY <1>b, <2>0, <2>2, <3>2 DEF v
    <2> QED
      BY <1>1, <2>1, <2>2 DEF LearnCore, w, p
  <1>2. CASE LearnRow(c)
    <2>0. w.pc = "row" /\ UNCHANGED <<core, stats>>
      BY <1>2 DEF LearnRow, At
    <2>1. PICK read \in BOOLEAN :
            LET saw == IF read /\ Proven(Row(p)) THEN Row(p) ELSE w.saw
            IN  Works(c, [w EXCEPT !.pc = IF w.was THEN "put" ELSE "clear",
                                   !.saw = IF w.was THEN saw ELSE Unproven,
                                   !.alone = w.alone /\ read])
      BY <1>2 DEF LearnRow
    <2> DEFINE saw == IF read /\ Proven(Row(p)) THEN Row(p) ELSE w.saw
               v == [w EXCEPT !.pc = IF w.was THEN "put" ELSE "clear",
                              !.saw = IF w.was THEN saw ELSE Unproven,
                              !.alone = w.alone /\ read]
    <2> HIDE DEF w, p
    <2>2. /\ v.pc = (IF w.was THEN "put" ELSE "clear") /\ v.saw = (IF w.was THEN saw ELSE Unproven)
          /\ v.id = p /\ v.op = "learn" /\ v.before = w.before /\ (v.there <=> w.there)
          /\ (v.alone => w.alone /\ read)
      BY <1>0 DEF Handling
    <2> HIDE DEF v
    <2>3. Keeping(v)
      BY <2>2 DEF Keeping
    <2>4. ASSUME v.alone PROVE Knows(v, core[p], stats[p])
      <3>1. /\ w.alone /\ read /\ p \in Procedure /\ p \notin Skill /\ (w.was <=> w.there)
            /\ w.before = Seen(p, core[p], stats[p]) /\ (w.there <=> core[p] # None) /\ w.saw = SeedOf(core[p])
        BY <1>0, <1>c, <2>0, <2>2, <2>4 DEF Knows, Settled, Idle, Handling
      <3>2. CASE w.was
        <4>1. stats[p] # None => Proven(stats[p])
          BY <1>0, <1>b DEF Says
        <4>2. saw = Seen(p, core[p], stats[p])
          BY <1>0, <3>1, <4>1 DEF Seen, RowOf, Proven
        <4>3. stats[p] \in {None, saw}
          BY <4>2, <3>1 DEF Seen, RowOf
        <4> QED
          BY <2>2, <3>1, <3>2, <4>2, <4>3 DEF Knows, Past
      <3>3. CASE ~w.was
        BY <2>2, <3>1, <3>3 DEF Knows, Settled
      <3> QED
        BY <3>2, <3>3
    <2>5. Fit(v)
      BY <2>0, <2>2, <2>4 DEF Knows
    <2> QED
      BY <1>b, <2>0, <2>1, <2>3, <2>5 DEF v
  <1>3. CASE ClearRow(c)
    <2>0. w.pc = "clear" /\ UNCHANGED core /\ (stats' = [stats EXCEPT ![p] = None] \/ UNCHANGED stats)
      BY <1>3 DEF ClearRow, At, SetRow
    <2>1. \A q \in Playbook : Says(stats'[q])
      BY <1>0, <1>b, <2>0 DEF Says, TypeOK
    <2> HIDE DEF w, p
    <2>2. CASE Works(c, [w EXCEPT !.pc = "put"]) /\ SetRow(p, None)
      <3> DEFINE v == [w EXCEPT !.pc = "put"]
      <3>1. /\ v.pc = "put" /\ v.saw = w.saw /\ v.id = p /\ v.op = "learn"
            /\ v.before = w.before /\ (v.there <=> w.there) /\ (v.alone <=> w.alone)
        BY <1>0 DEF Handling
      <3> HIDE DEF v
      <3>2. stats'[p] = None
        BY <1>0, <2>2 DEF SetRow, TypeOK
      <3>3. Keeping(v) /\ Fit(v)
        BY <1>0, <2>0, <3>1, <3>2 DEF Keeping, Knows, Past, Idle, Handling
      <3> QED
        BY <2>1, <2>2, <3>3 DEF v
    <2>3. CASE Works(c, [w EXCEPT !.pc = "put", !.alone = FALSE])
      <3> DEFINE v == [w EXCEPT !.pc = "put", !.alone = FALSE]
      <3>1. v.pc = "put" /\ ~v.alone /\ v.id = p
        BY <1>0 DEF Handling
      <3> HIDE DEF v
      <3>2. Keeping(v) /\ Fit(v)
        BY <3>1 DEF Keeping, Knows
      <3> QED
        BY <2>1, <2>3, <3>2 DEF v
    <2> QED
      BY <1>3, <2>2, <2>3 DEF ClearRow, w, p
  <1>4. CASE LearnPut(c)
    <2>0. w.pc = "put" /\ UNCHANGED stats
      BY <1>4 DEF LearnPut, At
    <2>1. CASE Works(c, Idle)
      BY <1>a, <1>b, <2>0, <2>1
    <2>2. CASE Works(c, [w EXCEPT !.pc = "keep"]) /\ (w.verify \/ Proven(w.saw))
      <3> DEFINE v == [w EXCEPT !.pc = "keep"]
      <3> HIDE DEF w, p
      <3>1. /\ v.pc = "keep" /\ v.saw = w.saw /\ v.id = p /\ v.op = "learn" /\ (v.verify <=> w.verify)
            /\ v.before = w.before /\ (v.there <=> w.there) /\ (v.alone <=> w.alone)
        BY <1>0 DEF Handling
      <3> HIDE DEF v
      <3>2. Keeping(v) /\ Fit(v)
        BY <1>0, <2>0, <2>2, <3>1 DEF Keeping, Knows, Past, Idle, Handling
      <3> QED
        BY <1>b, <2>0, <2>2, <3>2 DEF v
    <2> QED
      BY <1>4, <2>1, <2>2 DEF LearnPut
  <1>5. CASE LearnKeep(c)
    <2>1. /\ w.pc = "keep" /\ Works(c, Idle)
          /\ stats' = [stats EXCEPT ![p] = [w.saw EXCEPT !.verified = @ \/ w.verify]]
      BY <1>5 DEF LearnKeep, At, SetRow
    <2>2. w.saw \in ProcStats /\ w.verify \in BOOLEAN
      BY <1>0 DEF Handling
    <2> HIDE DEF w, p
    <2>3. Says([w.saw EXCEPT !.verified = @ \/ w.verify])
      BY <1>0, <2>1, <2>2, KeptSays DEF Keeping
    <2>4. \A q \in Playbook : Says(stats'[q])
      BY <1>0, <1>b, <2>1, <2>3 DEF TypeOK
    <2> QED
      BY <1>a, <2>1, <2>4
  <1> QED
    BY <1>1, <1>2, <1>3, <1>4, <1>5 DEF Learn

\* The other calls' steps.
LEMMA OthersKnow ==
  ASSUME AInv, NEW c \in Client, Report(c) \/ Write(c) \/ Backfill(c) \/ Stops(c)
  PROVE  /\ \A p \in Playbook : Says(stats'[p])
         /\ Advances(c)
  <1> DEFINE w == work[c]
             p == Id(c)
             Fit(v) == v # Idle => v.id = p /\ Knows(v, core'[p], stats'[p]) /\ (v.alone => w.alone)
             Goal == /\ \A q \in Playbook : Says(stats'[q])
                     /\ \E v : Works(c, v) /\ Keeping(v) /\ Fit(v)
  <1> SUFFICES Goal
    BY DEF Advances, Fits
  <1>0. w # Idle => /\ w \in Handling /\ p \in Playbook /\ p = w.id
                    /\ Knows(w, core[p], stats[p])
                    /\ Row(p) = RowOf(stats[p])
    <2> SUFFICES ASSUME w # Idle PROVE /\ w \in Handling /\ p \in Playbook /\ p = w.id
                                       /\ Knows(w, core[p], stats[p])
                                       /\ Row(p) = RowOf(stats[p])
      OBVIOUS
    <2>1. w \in Handling
      BY DEF AInv, IInv, TypeOK
    <2> QED
      BY <2>1, ShownIsSeen DEF AInv, Id, Handling
  <1>a. Fit(Idle) /\ Keeping(Idle)
    BY DEF Idle, Keeping
  <1>b. (\A q \in Playbook : Says(stats[q])) /\ TypeOK
    BY DEF AInv, IInv
  <1>c. w.pc # "idle" => w # Idle
    BY DEF Idle
  <1>d. ASSUME UNCHANGED stats, Works(c, Idle) PROVE Goal
    BY <1>a, <1>b, <1>d
  <1>e. ASSUME SetRow(p, None), Works(c, Idle) PROVE Goal
    <2>1. \A q \in Playbook : Says(stats'[q])
      BY <1>b, <1>e DEF Says, TypeOK, SetRow
    <2> QED
      BY <1>a, <1>e, <2>1
  <1>1. CASE Find(c)
    <2>0. w.pc = "find" /\ UNCHANGED <<core, stats>> /\ w # Idle
      BY <1>1, <1>c DEF Find
    <2>1. PICK pc \in {"put", "row", "core"} :
            \/ Works(c, Idle)
            \/ /\ Works(c, [w EXCEPT !.pc = pc])
               /\ w.op = "set" <=> pc = "put"
               /\ w.op = "outcome" <=> pc = "row"
      BY <1>1 DEF Find
    <2>2. CASE Works(c, Idle)
      BY <1>d, <2>0, <2>2
    <2>3. CASE /\ Works(c, [w EXCEPT !.pc = pc])
               /\ w.op = "set" <=> pc = "put"
               /\ w.op = "outcome" <=> pc = "row"
      <3> DEFINE v == [w EXCEPT !.pc = pc]
      <3> HIDE DEF w, p
      <3>1. /\ v.pc = pc /\ v.id = p /\ v.op = w.op /\ (v.verify <=> w.verify)
            /\ v.before = w.before /\ (v.there <=> w.there) /\ (v.alone <=> w.alone)
        BY <1>0, <2>0 DEF Handling
      <3> HIDE DEF v
      <3>2. Keeping(v) /\ Fit(v)
        BY <1>0, <2>0, <2>3, <3>1 DEF Keeping, Knows, Settled
      <3> QED
        BY <1>b, <2>0, <2>3, <3>2 DEF v
    <2> QED
      BY <2>1, <2>2, <2>3
  <1>2. CASE OutcomeRow(c)
    <2>0. w.pc = "row" /\ w.op = "outcome" /\ UNCHANGED <<core, stats>> /\ w # Idle
      BY <1>2, <1>c DEF OutcomeRow, At
    <2> HIDE DEF w, p
    <2>1. CASE Works(c, [w EXCEPT !.pc = "bump", !.saw = Row(p)])
      <3> DEFINE v == [w EXCEPT !.pc = "bump", !.saw = Row(p)]
      <3>1. /\ v.pc = "bump" /\ v.saw = Row(p) /\ v.id = p /\ v.op = "outcome"
            /\ v.before = w.before /\ (v.there <=> w.there) /\ (v.alone <=> w.alone)
        BY <1>0, <2>0 DEF Handling
      <3> HIDE DEF v
      <3>2. Keeping(v) /\ Fit(v)
        BY <1>0, <2>0, <3>1 DEF Keeping, Knows, Settled
      <3> QED
        BY <1>b, <2>0, <2>1, <3>2 DEF v
    <2>2. CASE Works(c, [w EXCEPT !.pc = "bump", !.alone = FALSE])
      <3> DEFINE v == [w EXCEPT !.pc = "bump", !.alone = FALSE]
      <3>1. v.pc = "bump" /\ ~v.alone /\ v.id = p
        BY <1>0, <2>0 DEF Handling
      <3> HIDE DEF v
      <3>2. Keeping(v) /\ Fit(v)
        BY <3>1 DEF Keeping, Knows
      <3> QED
        BY <1>b, <2>0, <2>2, <3>2 DEF v
    <2> QED
      BY <1>2, <2>1, <2>2 DEF OutcomeRow, w, p
  <1>3. CASE OutcomeBump(c)
    <2>1. /\ w # Idle /\ Works(c, Idle)
          /\ stats' = [stats EXCEPT ![p] = Bumped(w.saw, w.worked, w.verify)]
      BY <1>3, <1>c DEF OutcomeBump, At, SetRow
    <2>2. w.saw \in ProcStats /\ w.verify \in BOOLEAN /\ w.worked \in BOOLEAN
      BY <1>0, <2>1 DEF Handling
    <2> HIDE DEF w, p
    <2>3. Says(Bumped(w.saw, w.worked, w.verify))
      BY <2>2, BumpedSays
    <2>4. \A q \in Playbook : Says(stats'[q])
      BY <1>b, <2>1, <2>3 DEF TypeOK
    <2> QED
      BY <1>a, <2>1, <2>4
  <1>4. CASE SetPut(c) \/ Confirmed(c) \/ Stops(c)
    BY <1>d, <1>4 DEF SetPut, Confirmed, Stops
  <1>5. CASE DeleteStats(c)
    BY <1>d, <1>e, <1>5 DEF DeleteStats
  <1>6. CASE DeleteCore(c) \/ Survey(c) \/ Rows(c) \/ Confirm(c)
    <2>0. w # Idle /\ w.op \in {"delete", "backfill"} /\ UNCHANGED stats
      BY <1>6, <1>c DEF DeleteCore, Survey, Rows, Confirm, At, Idle
    <2> HIDE DEF w, p
    <2>1. PICK v : /\ Works(c, v) /\ v.id = p /\ v.op = w.op /\ (v.alone => w.alone)
                   /\ v.pc # "keep"
      <3>1. w \in Handling
        BY <1>0, <2>0
      <3>2. \A pc : [w EXCEPT !.pc = pc].id = p /\ [w EXCEPT !.pc = pc].op = w.op
                    /\ ([w EXCEPT !.pc = pc].alone => w.alone) /\ [w EXCEPT !.pc = pc].pc = pc
        BY <1>0, <2>0 DEF Handling
      <3>3. \A pc, left : /\ [w EXCEPT !.pc = pc, !.left = left].id = p
                          /\ [w EXCEPT !.pc = pc, !.left = left].op = w.op
                          /\ ([w EXCEPT !.pc = pc, !.left = left].alone => w.alone)
                          /\ [w EXCEPT !.pc = pc, !.left = left].pc = pc
        BY <1>0, <2>0 DEF Handling
      <3>4. \A left : /\ [w EXCEPT !.left = left].id = p /\ [w EXCEPT !.left = left].op = w.op
                      /\ ([w EXCEPT !.left = left].alone => w.alone)
                      /\ [w EXCEPT !.left = left].pc = w.pc
        BY <1>0, <2>0 DEF Handling
      <3>5. CASE DeleteCore(c)
        BY <3>2, <3>5 DEF DeleteCore, w
      <3>6. CASE Survey(c)
        <4> DEFINE found == {[id |-> q, count |-> Seed(q).success] : q \in {r \in Procedure : core[r] # None}}
                   v == [w EXCEPT !.pc = "rows", !.left = found]
        <4> HIDE DEF found
        <4>1. Works(c, v)
          BY <3>6 DEF Survey, w, found
        <4>2. v.id = p /\ v.op = w.op /\ (v.alone => w.alone) /\ v.pc = "rows"
          BY <3>3
        <4> HIDE DEF v
        <4> QED
          BY <4>1, <4>2
      <3>7. CASE Rows(c)
        <4>1. PICK left : Works(c, [w EXCEPT !.pc = "confirm", !.left = left])
          BY <3>7 DEF Rows, w
        <4> DEFINE v == [w EXCEPT !.pc = "confirm", !.left = left]
        <4>2. v.id = p /\ v.op = w.op /\ (v.alone => w.alone) /\ v.pc = "confirm"
          BY <3>3
        <4> HIDE DEF v
        <4> QED
          BY <4>1, <4>2 DEF v
      <3>8. CASE Confirm(c)
        <4>1. w.pc = "confirm" /\ \E left : Works(c, [w EXCEPT !.left = left])
          BY <3>8 DEF Confirm, At, w
        <4> QED
          BY <3>4, <4>1
      <3> QED
        BY <1>6, <3>5, <3>6, <3>7, <3>8
    <2>2. Keeping(v) /\ Fit(v)
      BY <2>0, <2>1 DEF Keeping, Knows
    <2> QED
      BY <1>b, <2>0, <2>1, <2>2
  <1> QED
    BY <1>1, <1>2, <1>3, <1>4, <1>5, <1>6 DEF Report, Write, Backfill

LEMMA BeginKnows ==
  ASSUME AInv, NEW c \in Client, Begin(c)
  PROVE  \A d \in Client :
           /\ Keeping(work'[d])
           /\ work'[d] # Idle => Knows(work'[d], core'[work'[d].id], stats'[work'[d].id])
           /\ work'[d] # Idle /\ work'[d].alone => \A e \in Client : e # d => work'[e] = Idle
  <1>0. UNCHANGED <<core, stats>> /\ TypeOK /\ work[c] = Idle
    BY DEF Begin, AInv, IInv
  <1>1. PICK p \in Playbook, worked \in BOOLEAN, verify \in BOOLEAN :
          \E call \in Requests(p, worked, verify) :
            work' = [d \in Client |-> IF d = c THEN call ELSE Disturbed(work[d])]
    BY DEF Begin
  <1>2. PICK call \in Requests(p, worked, verify) :
          work' = [d \in Client |-> IF d = c THEN call ELSE Disturbed(work[d])]
    BY <1>1
  <1>3. call \in Handling /\ call # Idle
    BY <1>0, RequestsHandling
  <1>4. /\ call.id = p /\ call.before = Seen(p, core[p], stats[p]) /\ (call.there <=> core[p] # None)
        /\ call.alone => \A d \in Client : work[d] = Idle
        /\ call.op = "learn" => p \in Procedure /\ call.pc = "core"
        /\ call.op = "set" => p \in Skill /\ call.pc = "find" /\ ~call.verify
        /\ call.op = "outcome" => call.pc \in {"find", "row"}
        /\ call.pc # "keep"
    <2>1. ASSUME NEW op, NEW pc, NEW w, NEW v, call = Call(op, pc, p, w, v)
          PROVE  /\ call.id = p /\ call.before = Seen(p, core[p], stats[p]) /\ (call.there <=> core[p] # None)
                 /\ call.alone => \A d \in Client : work[d] = Idle
                 /\ call.op = op /\ call.pc = pc /\ call.verify = v
      <3>1. Shown(p) = Seen(p, core[p], stats[p])
        BY ShownIsSeen
      <3> QED
        BY <2>1, <3>1 DEF Call
    <2>2. PICK op, pc, w, v :
            /\ call = Call(op, pc, p, w, v)
            /\ op = "learn" => p \in Procedure /\ pc = "core"
            /\ op = "set" => p \in Skill /\ pc = "find" /\ ~v
            /\ op = "outcome" => pc \in {"find", "row"}
            /\ pc # "keep"
      <3>1. CASE p \in Procedure
        <4>1. \/ call = Call("learn", "core", p, FALSE, verify)
              \/ call = Call("outcome", "row", p, worked, FALSE) \/ call = Call("outcome", "row", p, worked, worked)
              \/ call = Call("delete", "core", p, FALSE, FALSE) \/ call = Call("backfill", "survey", p, FALSE, FALSE)
          BY <3>1 DEF Requests
        <4> QED
          BY <3>1, <4>1
      <3>2. CASE p \notin Procedure
        <4>1. /\ p \in Skill
              /\ \/ call = Call("outcome", "find", p, worked, verify)
                 \/ call = Call("set", "find", p, FALSE, FALSE) \/ call = Call("delete", "find", p, FALSE, FALSE)
          BY <3>2 DEF Requests, Playbook
        <4> QED
          BY <4>1
      <3> QED
        BY <3>1, <3>2
    <2> QED
      BY <2>1, <2>2
  <1>5. Keeping(call) /\ Knows(call, core[p], stats[p])
    BY <1>4 DEF Keeping, Knows, Settled
  <1>6. ASSUME NEW d \in Client, d # c
        PROVE  /\ work'[d] = Disturbed(work[d]) /\ (work'[d] # Idle => ~work'[d].alone)
               /\ Keeping(work'[d]) /\ (work'[d] # Idle => work[d] # Idle)
    <2>1. work'[d] = Disturbed(work[d]) /\ work[d] \in {Idle} \cup Handling /\ Keeping(work[d])
      BY <1>0, <1>2, <1>6 DEF AInv, TypeOK
    <2> QED
      BY <2>1 DEF Disturbed, Handling, Keeping, Idle
  <1>7. \A d \in Client : work[d] = Idle => Disturbed(work[d]) = Idle
    BY DEF Disturbed
  <1> QED
    BY <1>0, <1>2, <1>3, <1>4, <1>5, <1>6, <1>7 DEF Knows

LEMMA AloneHolds == AInv /\ [Next]_vars => AInv'
  <1> SUFFICES ASSUME AInv, [Next]_vars PROVE AInv'
    OBVIOUS
  <1>0. IInv'
    BY NextHolds DEF AInv
  <1>1. ASSUME NEW c \in Client, Begin(c) PROVE AInv'
    <2>1. UNCHANGED stats
      BY <1>1 DEF Begin
    <2> QED
      BY <1>0, <1>1, <2>1, BeginKnows DEF AInv
  <1>2. ASSUME NEW c \in Client, Goes(c) PROVE AInv'
    <2>0. Advances(c)
      BY <1>2, LearnKnows, OthersKnow DEF Goes
    <2>1. PICK v : Works(c, v) /\ Keeping(v) /\ Fits(c, v)
      BY <2>0 DEF Advances
    <2>2. \A p \in Playbook : Says(stats'[p])
      BY <1>2, LearnKnows, OthersKnow DEF Goes
    <2>3. work'[c] = v /\ \A d \in Client : d # c => work'[d] = work[d]
      BY <2>1, GoesOn
    <2>4. work[c] # Idle
      <3>1. CASE Stops(c)
        BY <3>1 DEF Stops
      <3>2. CASE ~Stops(c)
        <4>1. work[c].pc # "idle"
          BY <1>2, <3>2 DEF Goes, Learn, LearnCore, LearnRow, ClearRow, LearnPut, LearnKeep, Report, Find,
             OutcomeRow, OutcomeBump, Write, SetPut, DeleteCore, DeleteStats, Backfill, Survey, Rows,
             Confirm, Confirmed, At
        <4> QED
          BY <4>1 DEF Idle
      <3> QED
        BY <3>1, <3>2
    <2>5. \A d \in Client : d # c /\ work[d] # Idle => ~work[d].alone
      BY <2>4 DEF AInv
    <2>6. work[c].alone => \A d \in Client : d # c => work[d] = Idle
      BY <2>4 DEF AInv
    <2>7. ASSUME NEW d \in Client
          PROVE  /\ Keeping(work'[d])
                 /\ work'[d] # Idle => Knows(work'[d], core'[work'[d].id], stats'[work'[d].id])
                 /\ work'[d] # Idle /\ work'[d].alone => \A e \in Client : e # d => work'[e] = Idle
      <3>1. CASE d = c
        BY <2>1, <2>3, <2>6, <3>1 DEF Fits
      <3>2. CASE d # c
        <4>1. work'[d] = work[d] /\ Keeping(work[d]) /\ (work[d] # Idle => ~work[d].alone)
          BY <2>3, <2>5, <3>2 DEF AInv
        <4> QED
          BY <4>1 DEF Knows
      <3> QED
        BY <3>1, <3>2
    <2> QED
      BY <1>0, <2>2, <2>7 DEF AInv
  <1>3. CASE UNCHANGED vars
    BY <1>0, <1>3 DEF vars, AInv
  <1> QED
    BY <1>1, <1>2, <1>3 DEF Next, Goes

LEMMA AloneInit == Init => AInv
  <1> SUFFICES ASSUME Init PROVE AInv
    OBVIOUS
  <1>1. IInv
    BY InitHolds
  <1>2. (\A p \in Playbook : stats[p] = None) /\ (\A c \in Client : work[c] = Idle)
    BY DEF Init
  <1>3. Keeping(Idle)
    BY DEF Keeping, Idle
  <1> QED
    BY <1>1, <1>2, <1>3 DEF AInv, Says

LEMMA AloneInvariance == Spec => []AInv
  BY AloneInit, AloneHolds, PTL DEF Spec

\* A call that ends in a step of its own is the one that moves.
LEMMA EndsByOwn ==
  ASSUME AInv, NEW c \in Client, Next, Ends(c)
  PROVE  Learn(c) \/ Report(c) \/ Write(c) \/ Backfill(c)
  <1>1. PICK d \in Client : Begin(d) \/ Goes(d)
    BY DEF Next, Goes
  <1>2. work[c] # Idle /\ work'[c] = Idle /\ faults' = faults /\ work[c] \in {Idle} \cup Handling
    BY DEF Ends, AInv, IInv, TypeOK
  <1>3. ~Begin(d)
    <2> SUFFICES ASSUME Begin(d) PROVE FALSE
      OBVIOUS
    <2>1. PICK call : /\ work' = [e \in Client |-> IF e = d THEN call ELSE Disturbed(work[e])]
                      /\ work[d] = Idle
      BY DEF Begin
    <2>2. work'[c] = Disturbed(work[c])
      BY <1>2, <2>1
    <2> QED
      BY <1>2, <2>2 DEF Disturbed, Idle, Handling
  <1>4. \E v : Works(d, v)
    <2>1. CASE Stops(d)
      BY <2>1 DEF Stops
    <2>2. Stops(d) \/ Advances(d)
      BY <1>1, <1>3, LearnKnows, OthersKnow DEF Goes
    <2> QED
      BY <2>1, <2>2 DEF Advances
  <1>5. d = c
    BY <1>2, <1>4, GoesOn
  <1>6. ~Stops(c)
    BY <1>2 DEF Stops, Fails, AInv, IInv, TypeOK
  <1> QED
    BY <1>1, <1>3, <1>5, <1>6 DEF Goes

\* RewritingKeepsTrust: for any number of callers, playbooks and counts from
\* before: a playbook written again, undisturbed, is shown as it was, but for
\* a verification that came with it.
THEOREM RewritingKeeps == Spec => RewritingKeepsTrust
  <1> DEFINE Kept == \A c \in Client, b \in Playbook :
               Ends(c) /\ b = Id(c) /\ work[c].op \in {"learn", "set"} /\ (work[c].there \/ b \in Procedure)
                 => Shown(b)' = [(IF work[c].there THEN work[c].before ELSE Unproven)
                                       EXCEPT !.verified = @ \/ work[c].verify]
  <1>1. AInv /\ [Next]_vars => Kept
    <2> SUFFICES ASSUME AInv, [Next]_vars, NEW c \in Client, NEW b \in Playbook,
                        Ends(c), b = Id(c), work[c].op \in {"learn", "set"},
                        work[c].there \/ b \in Procedure
                 PROVE  Shown(b)' = [(IF work[c].there THEN work[c].before ELSE Unproven)
                                           EXCEPT !.verified = @ \/ work[c].verify]
      OBVIOUS
    <2> DEFINE w == work[c]
    <2>1. w # Idle /\ w.alone /\ work'[c] = Idle /\ faults' = faults
      BY DEF Ends
    <2>2. w \in Handling /\ w.id = b /\ Knows(w, core[b], stats[b]) /\ Keeping(w) /\ TypeOK
      BY <2>1 DEF AInv, IInv, TypeOK, Id
    <2>3. Learn(c) \/ Report(c) \/ Write(c) \/ Backfill(c)
      <3>1. Next
        BY <2>1 DEF vars
      <3> QED
        BY <3>1, EndsByOwn
    <2>4. Shown(b)' = Seen(b, core'[b], stats'[b])
      BY ShownIsSeen
    <2>5. w.before \in ProcStats /\ Unproven \in ProcStats /\ Past(w) \in ProcStats /\ w.verify \in BOOLEAN
      BY <2>2, UnprovenStats DEF Handling, Past
    <2>6. \A v : Works(c, v) => v = Idle
      BY <2>1, GoesOn
    <2>7. CASE w.op = "learn"
      <3>1. Learn(c) /\ b \in Procedure /\ b \notin Skill
        BY <2>1, <2>2, <2>3, <2>7, PlaybooksAssumption DEF Knows, Report, Find, OutcomeRow, OutcomeBump, Write,
           SetPut, DeleteCore, DeleteStats, Backfill, Survey, Rows, Confirm, Confirmed, At
      <3>2. CASE LearnPut(c)
        <4>1. w.pc = "put" /\ w.saw = Past(w) /\ stats[b] \in {None, w.saw}
          BY <2>1, <2>2, <2>7, <3>2 DEF LearnPut, At, Knows
        <4>2. ~w.verify /\ w.saw = Unproven
          <5>1. ~(w.verify \/ Proven(w.saw))
            <6> SUFFICES ASSUME w.verify \/ Proven(w.saw) PROVE FALSE
              OBVIOUS
            <6>1. Works(c, [w EXCEPT !.pc = "keep"])
              BY <3>2 DEF LearnPut
            <6>2. [w EXCEPT !.pc = "keep"] = Idle
              BY <2>6, <6>1
            <6>3. [w EXCEPT !.pc = "keep"].pc = "keep"
              BY <2>2 DEF Handling
            <6> HIDE DEF w
            <6> QED
              BY <6>2, <6>3 DEF Idle
          <5> QED
            BY <5>1 DEF Proven
        <4>3. SeedOf(core'[b]) = Unproven
          BY <2>2, <3>2 DEF LearnPut, Put, Id, TypeOK, SeedOf, NoPoint
        <4>4. RowOf(stats'[b]) = Unproven
          BY <3>2, <4>1, <4>2 DEF LearnPut, RowOf
        <4>5. Shown(b)' = Unproven
          BY <2>4, <4>3, <4>4 DEF Seen
        <4>6. (IF w.there THEN w.before ELSE Unproven) = Unproven
          BY <4>1, <4>2 DEF Past
        <4>7. [Unproven EXCEPT !.verified = @ \/ FALSE] = Unproven
          <5>1. Unproven.verified = FALSE
            BY DEF Unproven
          <5> QED
            BY <5>1, UnprovenStats DEF ProcStats
        <4> HIDE DEF w
        <4> QED
          BY <4>2, <4>5, <4>6, <4>7 DEF w
      <3>3. CASE LearnKeep(c)
        <4>1. w.saw = Past(w)
          BY <2>1, <2>2, <2>7, <3>3 DEF LearnKeep, At, Knows
        <4>2. stats'[b] = [w.saw EXCEPT !.verified = @ \/ w.verify]
          BY <2>2, <3>3 DEF LearnKeep, SetRow, TypeOK, Id
        <4>3. stats'[b] # None
          BY <2>5, <4>1, <4>2, PlaybooksAssumption DEF ProcStats
        <4> QED
          BY <2>4, <4>1, <4>2, <4>3 DEF Seen, RowOf, Past
      <3>4. ~LearnCore(c) /\ ~LearnRow(c) /\ ~ClearRow(c)
        <4>1. \A pc : Works(c, [w EXCEPT !.pc = pc]) => pc = "idle"
          BY <2>2, <2>6 DEF Handling, Idle
        <4>2. \A pc, was, saw : Works(c, [w EXCEPT !.pc = pc, !.was = was, !.saw = saw]) => pc = "idle"
          BY <2>2, <2>6 DEF Handling, Idle
        <4>3. \A pc, saw, alone : Works(c, [w EXCEPT !.pc = pc, !.saw = saw, !.alone = alone]) => pc = "idle"
          BY <2>2, <2>6 DEF Handling, Idle
        <4>4. \A pc, alone : Works(c, [w EXCEPT !.pc = pc, !.alone = alone]) => pc = "idle"
          BY <2>2, <2>6 DEF Handling, Idle
        <4>5. ~LearnCore(c)
          BY <4>2, <4>4 DEF LearnCore
        <4>6. ~LearnRow(c)
          BY <4>3 DEF LearnRow
        <4>7. ~ClearRow(c)
          BY <4>1, <4>4 DEF ClearRow
        <4> QED
          BY <4>5, <4>6, <4>7
      <3> QED
        BY <3>1, <3>2, <3>3, <3>4 DEF Learn
    <2>8. CASE w.op = "set"
      <3>1. b \in Skill /\ b \notin Procedure /\ w.pc \in {"find", "put"} /\ Settled(w, core[b], stats[b])
            /\ ~w.verify
        BY <2>1, <2>2, <2>8, PlaybooksAssumption DEF Knows
      <3>2. ~Find(c)
        <4> SUFFICES ASSUME Find(c) PROVE FALSE
          OBVIOUS
        <4>1. Works(c, [w EXCEPT !.pc = "put"])
          BY <2>8 DEF Find
        <4>2. [w EXCEPT !.pc = "put"].pc = "put"
          BY <2>2 DEF Handling
        <4> QED
          BY <2>6, <4>1, <4>2 DEF Idle
      <3>3. SetPut(c)
        BY <2>3, <2>8, <3>1, <3>2 DEF Learn, LearnCore, LearnRow, ClearRow, LearnPut, LearnKeep, Report,
           OutcomeRow, OutcomeBump, Write, DeleteCore, DeleteStats, Backfill, Survey, Rows, Confirm,
           Confirmed, At
      <3>4. stats' = stats
        BY <3>3 DEF SetPut
      <3>5. Shown(b)' = w.before
        BY <2>2, <2>4, <3>1, <3>4 DEF Settled, Seen
      <3>6. [w.before EXCEPT !.verified = @ \/ FALSE] = w.before
        BY <2>5 DEF ProcStats
      <3> QED
        BY <3>1, <3>5, <3>6
    <2> QED
      BY <2>7, <2>8
  <1>2. AInv /\ [Next]_vars => [Kept]_vars
    BY <1>1
  <1> HIDE DEF Kept
  <1>3. Spec => [][Kept]_vars
    BY <1>2, AloneInvariance, PTL DEF Spec
  <1> QED
    BY <1>3 DEF Kept, RewritingKeepsTrust

-----------------------------------------------------------------------------
(* The ranking.  A report adds one to the total, and one to or from the    *)
(* difference: integer division rounds both quotients the same way.        *)

LEMMA Quotient ==
  ASSUME NEW a \in Int, NEW b \in Nat \ {0}
  PROVE  /\ a \div b \in Int /\ b * (a \div b) <= a
         /\ a < b * (a \div b) + b
  OBVIOUS

LEMMA TimesKeepsStrictOrder ==
  ASSUME NEW a \in Int, NEW b \in Int, a < b, NEW n \in Nat \ {0}
  PROVE a * n < b * n
  OBVIOUS

LEMMA TimesKeepsOrder ==
  ASSUME NEW a \in Int, NEW b \in Int, a <= b, NEW n \in Nat
  PROVE a * n <= b * n
  OBVIOUS

LEMMA QuotientMonotone ==
  ASSUME NEW a \in Int, NEW b \in Nat \ {0}, NEW c \in Int, NEW d \in Nat \ {0}, a * d <= c * b
  PROVE  a \div b <= c \div d
  <1> DEFINE q == a \div b
             r == c \div d
  <1>1. /\ q \in Int /\ r \in Int /\ b * q <= a /\ c < d * r + d
    BY Quotient
  <1> HIDE DEF q, r
  <1> SUFFICES ASSUME r + 1 <= q PROVE FALSE
    BY <1>1 DEF q, r
  <1>2. d * (r + 1) <= d * q
    BY <1>1, TimesKeepsOrder
  <1>3. c < d * q
    BY <1>1, <1>2
  <1>4. c * b < (d * q) * b
    BY <1>1, <1>3, TimesKeepsStrictOrder
  <1>5. (b * q) * d <= a * d
    BY <1>1, TimesKeepsOrder
  <1>6. (d * q) * b = (b * q) * d
    BY <1>1
  <1> QED
    BY <1>1, <1>4, <1>5, <1>6

LEMMA QuotientOfProduct == ASSUME NEW a \in Int, NEW n \in Nat \ {0} PROVE (a * n) \div n = a
  OBVIOUS

\* The counts' part of a rank: d more successes than failures, of n reports.
Least(n) == IF n < 5 THEN n ELSE 5
Rank(d, n) == IF n = 0 THEN 0 ELSE (4 * d * Least(n)) \div n

LEMMA RankRises ==
  ASSUME NEW n \in Nat, NEW d \in Int, -n <= d, d <= n
  PROVE  Rank(d, n) <= Rank(d + 1, n + 1)
  <1>1. CASE n = 0
    <2>1. Rank(d, n) = 0 /\ Rank(d + 1, n + 1) = (4 * (d + 1) * 1) \div 1
      BY <1>1 DEF Rank, Least
    <2>2. (4 * (d + 1) * 1) \div 1 = 4 * (d + 1)
      BY QuotientOfProduct
    <2> QED
      BY <1>1, <2>1, <2>2
  <1>2. CASE n \in 1 .. 4
    <2>1. Rank(d, n) = 4 * d
      BY <1>2, QuotientOfProduct DEF Rank, Least
    <2>2. Rank(d + 1, n + 1) = 4 * (d + 1)
      BY <1>2, QuotientOfProduct DEF Rank, Least
    <2> QED
     BY <2>1, <2>2
  <1>3. CASE n >= 5
    <2>1. Rank(d, n) = (20 * d) \div n /\ Rank(d + 1, n + 1) = (20 * (d + 1)) \div (n + 1)
      BY <1>3 DEF Rank, Least
    <2>2. (20 * d) * (n + 1) <= (20 * (d + 1)) * n
      <3>1. (20 * d) * (n + 1) = 20 * (d * n) + 20 * d
        OBVIOUS
      <3>2. (20 * (d + 1)) * n = 20 * (d * n) + 20 * n
        OBVIOUS
      <3> QED
        BY <3>1, <3>2
    <2>3. /\ 20 * d \in Int /\ 20 * (d + 1) \in Int
          /\ n \in Nat \ {0} /\ n + 1 \in Nat \ {0}
      BY <1>3
    <2> DEFINE x == 20 * d
               y == 20 * (d + 1)
               m == n + 1
    <2> HIDE DEF x, y, m
    <2>4. x \div n <= y \div m
      BY <2>2, <2>3, QuotientMonotone DEF x, y, m
    <2> QED
      BY <2>1, <2>4 DEF x, y, m
  <1> QED
    BY <1>1, <1>2, <1>3

LEMMA RankFalls ==
  ASSUME NEW n \in Nat, NEW d \in Int, -n <= d, d <= n
  PROVE  Rank(d - 1, n + 1) <= Rank(d, n)
  <1>1. CASE n = 0
    <2>1. Rank(d, n) = 0 /\ Rank(d - 1, n + 1) = (4 * (d - 1) * 1) \div 1
      BY <1>1 DEF Rank, Least
    <2>2. (4 * (d - 1) * 1) \div 1 = 4 * (d - 1)
      BY QuotientOfProduct
    <2> QED
      BY <1>1, <2>1, <2>2
  <1>2. CASE n \in 1 .. 4
    <2>1. Rank(d, n) = 4 * d
      BY <1>2, QuotientOfProduct DEF Rank, Least
    <2>2. Rank(d - 1, n + 1) = 4 * (d - 1)
      BY <1>2, QuotientOfProduct DEF Rank, Least
    <2> QED
     BY <2>1, <2>2
  <1>3. CASE n >= 5
    <2>1. Rank(d, n) = (20 * d) \div n /\ Rank(d - 1, n + 1) = (20 * (d - 1)) \div (n + 1)
      BY <1>3 DEF Rank, Least
    <2>2. (20 * (d - 1)) * n <= (20 * d) * (n + 1)
      <3>1. (20 * d) * (n + 1) = 20 * (d * n) + 20 * d
        OBVIOUS
      <3>2. (20 * (d - 1)) * n = 20 * (d * n) - 20 * n
        OBVIOUS
      <3> QED
        BY <3>1, <3>2
    <2>3. /\ 20 * d \in Int /\ 20 * (d - 1) \in Int
          /\ n \in Nat \ {0} /\ n + 1 \in Nat \ {0}
      BY <1>3
    <2> DEFINE x == 20 * d
               y == 20 * (d - 1)
               m == n + 1
    <2> HIDE DEF x, y, m
    <2>4. y \div m <= x \div n
      BY <2>2, <2>3, QuotientMonotone DEF x, y, m
    <2> QED
      BY <2>1, <2>4 DEF x, y, m
  <1> QED
    BY <1>1, <1>2, <1>3

LEMMA TrustIsRank ==
  ASSUME NEW s \in ProcStats
  PROVE  Trust(s) = (IF s.verified THEN 25 ELSE 0) + Rank(s.success - s.fail, s.success + s.fail)
  BY DEF Trust, Rank, Least, ProcStats

LEMMA RankInt ==
  ASSUME NEW d \in Int, NEW n \in Nat
  PROVE  Rank(d, n) \in Int
  <1>1. CASE n = 0
    BY <1>1 DEF Rank
  <1>2. CASE n # 0
    <2>1. 4 * d * Least(n) \in Int /\ n \in Nat \ {0}
      BY <1>2 DEF Least
    <2> QED
      BY <1>2, <2>1, Quotient DEF Rank
  <1> QED
    BY <1>1, <1>2

\* A success never sinks a playbook, a failure never lifts it.
LEMMA ReportMoves ==
  ASSUME NEW s \in ProcStats, NEW verify \in BOOLEAN
  PROVE  /\ Trust(s) <= Trust(Bumped(s, TRUE, verify))
         /\ Trust(Bumped(s, FALSE, verify)) <= Trust(s)
  <1> DEFINE d == s.success - s.fail
             n == s.success + s.fail
             up == Bumped(s, TRUE, verify)
             down == Bumped(s, FALSE, verify)
  <1>1. d \in Int /\ n \in Nat /\ -n <= d /\ d <= n
    BY DEF ProcStats
  <1>2. /\ up \in ProcStats /\ (s.verified => up.verified)
        /\ up.success - up.fail = d + 1 /\ up.success + up.fail = n + 1
    BY DEF ProcStats, Bumped
  <1>3. /\ down \in ProcStats /\ (down.verified <=> s.verified)
        /\ down.success - down.fail = d - 1 /\ down.success + down.fail = n + 1
    BY DEF ProcStats, Bumped
  <1> HIDE DEF d, n, up, down
  <1>4. /\ Trust(s) = (IF s.verified THEN 25 ELSE 0) + Rank(d, n)
        /\ Trust(up) = (IF up.verified THEN 25 ELSE 0) + Rank(d + 1, n + 1)
        /\ Trust(down) = (IF down.verified THEN 25 ELSE 0) + Rank(d - 1, n + 1)
    BY <1>2, <1>3, TrustIsRank DEF d, n
  <1>5. Rank(d, n) <= Rank(d + 1, n + 1) /\ Rank(d - 1, n + 1) <= Rank(d, n)
    BY <1>1, RankRises, RankFalls
  <1>6. Rank(d, n) \in Int /\ Rank(d + 1, n + 1) \in Int /\ Rank(d - 1, n + 1) \in Int
    BY <1>1, RankInt
  <1>7. Trust(s) <= Trust(up)
    BY <1>2, <1>4, <1>5, <1>6
  <1>8. Trust(down) <= Trust(s)
    BY <1>3, <1>4, <1>5, <1>6
  <1> QED
    BY <1>7, <1>8 DEF up, down

\* ReportMovesTrust: for any number of callers and any counts: an undisturbed
\* report of a playbook whose point carries no counts never moves it the wrong
\* way in the ranking.
THEOREM ReportsMove == Spec => ReportMovesTrust
  <1> DEFINE Moves == \A c \in Client, b \in Playbook :
               Ends(c) /\ b = Id(c) /\ At(c, "outcome", "bump") /\ ~Proven(Seed(b))
                 => IF work[c].worked
                    THEN Trust(work[c].before) <= Trust(Shown(b)')
                    ELSE Trust(Shown(b)') <= Trust(work[c].before)
  <1>1. AInv /\ [Next]_vars => Moves
    <2> SUFFICES ASSUME AInv, [Next]_vars, NEW c \in Client, NEW b \in Playbook,
                        Ends(c), b = Id(c), At(c, "outcome", "bump"), ~Proven(Seed(b))
                 PROVE  IF work[c].worked
                        THEN Trust(work[c].before) <= Trust(Shown(b)')
                        ELSE Trust(Shown(b)') <= Trust(work[c].before)
      OBVIOUS
    <2> DEFINE w == work[c]
    <2>1. w # Idle /\ w.alone /\ work'[c] = Idle /\ w.op = "outcome" /\ w.pc = "bump"
      BY DEF Ends, At
    <2>2. w \in Handling /\ w.id = b /\ Knows(w, core[b], stats[b]) /\ TypeOK
      BY <2>1 DEF AInv, IInv, TypeOK, Id
    <2>3. w.saw \in ProcStats /\ w.worked \in BOOLEAN /\ w.verify \in BOOLEAN
      BY <2>2 DEF Handling
    <2>4. OutcomeBump(c)
      <3>1. Next
        BY <2>1 DEF vars
      <3>2. Learn(c) \/ Report(c) \/ Write(c) \/ Backfill(c)
        BY <3>1, EndsByOwn
      <3> QED
        BY <2>1, <3>2 DEF Learn, LearnCore, LearnRow, ClearRow, LearnPut, LearnKeep, Report, Find,
           OutcomeRow, Write, SetPut, DeleteCore, DeleteStats, Backfill, Survey, Rows, Confirm,
           Confirmed, At
    <2>5. w.before = w.saw
      <3>1. w.before = Seen(b, core[b], stats[b]) /\ w.saw = RowOf(stats[b])
        BY <2>1, <2>2 DEF Knows, Settled
      <3>2. SeedOf(core[b]) = Unproven
        BY ShownIsSeen DEF Proven
      <3> QED
        BY <3>1, <3>2 DEF Seen, RowOf
    <2>6. Shown(b)' = Bumped(w.saw, w.worked, w.verify)
      <3>1. stats'[b] = Bumped(w.saw, w.worked, w.verify)
        BY <2>2, <2>4 DEF OutcomeBump, SetRow, TypeOK, Id
      <3>2. stats'[b] # None
        BY <2>3, <3>1, PlaybooksAssumption DEF ProcStats, Bumped
      <3> QED
        BY <3>1, <3>2, ShownIsSeen DEF Seen, RowOf
    <2> HIDE DEF w
    <2>7. IF w.worked THEN Trust(w.before) <= Trust(Shown(b)') ELSE Trust(Shown(b)') <= Trust(w.before)
      BY <2>3, <2>5, <2>6, ReportMoves
    <2> QED
      BY <2>7 DEF w
  <1>2. AInv /\ [Next]_vars => [Moves]_vars
    BY <1>1
  <1> HIDE DEF Moves
  <1>3. Spec => [][Moves]_vars
    BY <1>2, AloneInvariance, PTL DEF Spec
  <1> QED
    BY <1>3 DEF Moves, ReportMovesTrust

=============================================================================
