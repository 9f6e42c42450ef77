---------------------------- MODULE UpkeepProofs ----------------------------
(***************************************************************************)
(* Theorems about MemoryStore and Upkeep, for any number of callers,       *)
(* libraries and texts, any similarity and length, and every fault.        *)
(***************************************************************************)
EXTENDS Upkeep, TLAPS

-----------------------------------------------------------------------------
(* The inductive invariant.                                                *)

Stored == store \in [Id -> Point \cup {None}]
Working == work \in [Caller -> {Idle} \cup Handling \cup Merging \cup Relocating]
Counted == calls \in 0 .. MaxCalls /\ faults \in 0 .. MaxFaults
Remembered ==
  /\ calm \in [Caller -> BOOLEAN]
  /\ torn \subseteq [source : Id, target : Id]

\* An expiry only ever looks and deletes.
ExpiringAt(record) == record.op = "expire" => record.pc \in {"expire_read", "expire"}
Expiring == \A c \in Caller : ExpiringAt(work[c])

\* A move goes elsewhere, and holds the payload of every text it has yet to write.
CarryingAt(record) ==
  record.op = "relibrary" =>
    /\ record.from # record.to
    /\ \A t \in record.todo : record.copy[t] # None
    /\ record.pc = "move_write" => record.copy[record.text] # None
Carrying == \A c \in Caller : CarryingAt(work[c])

Marked(target, from) == Exists(target) /\ store[target].from = from

\* An undisturbed move that is about to delete has its copy, and the copy its mark.
Arrived ==
  \A c \in Caller :
    work[c].pc = "move_delete" /\ calm[c] => Marked(Target(c), work[c].from)

\* So has a torn one.
Resumable == \A move \in torn : Marked(move.target, move.source[1])

Inv == TypeOK /\ Expiring /\ Carrying /\ Arrived /\ Resumable

-----------------------------------------------------------------------------
(* What a write leaves.                                                    *)

LEMMA PutStored ==
  ASSUME Stored, NEW id \in Id, NEW point \in Point, Put(id, point)
  PROVE  Stored'
  BY DEF Stored, Put

LEMMA DropStored ==
  ASSUME Stored, NEW ids, Drop(ids)
  PROVE  Stored'
  BY DEF Stored, Drop

LEMMA FlagStored ==
  ASSUME Stored, NEW ids, NEW field \in {"quarantined", "archived"}, NEW value \in BOOLEAN,
         Flag(ids, field, value)
  PROVE  Stored'
  <1>1. ASSUME NEW i \in Id, Exists(i)
        PROVE  [store[i] EXCEPT ![field] = value] \in Point
    BY <1>1 DEF Stored, Exists, Point
  <1> QED
    BY <1>1 DEF Stored, Flag

LEMMA FreshPoint ==
  /\ \A author \in Named \cup {None}, ingested \in BOOLEAN : Fresh(author, ingested) \in Point
  /\ Diverted \in Point
  BY DEF Fresh, Diverted, Point

-----------------------------------------------------------------------------
(* What a step of a call leaves of it.                                     *)

LEMMA AnswerWorking ==
  ASSUME Working, NEW c \in Caller, Answer(c)
  PROVE  Working'
  BY DEF Working, Answer, Go

LEMMA GoWorking ==
  ASSUME Working, NEW c \in Caller, NEW record \in Handling \cup Merging \cup Relocating,
         Go(c, record)
  PROVE  Working'
  BY DEF Working, Go

HandlingAt ==
  {"write", "judge", "nearest", "check", "divert", "promote_read", "promote", "expire_read",
   "expire", "archive", "restore_read", "restore", "edit_read", "remove"}

\* The step a caller is at tells what call it is in.
LEMMA KindOfCall ==
  ASSUME Working, NEW c \in Caller
  PROVE  /\ work[c].pc \in HandlingAt => work[c] \in Handling
         /\ work[c].pc \in {"merge", "drop", "cold"} => work[c] \in Merging
         /\ work[c].pc \in {"pick", "move_write", "move_delete"} => work[c] \in Relocating
         /\ work[c].op = "relibrary" => work[c] \in Relocating
         /\ work[c].op \in DOMAIN FirstStep => work[c] \in Handling
  BY DEF Working, Idle, Handling, Merging, Relocating, HandlingAt, FirstStep

LEMMA GoToWorking ==
  ASSUME Working, NEW c \in Caller, work[c].pc \in HandlingAt,
         NEW pc \in HandlingAt, GoTo(c, pc)
  PROVE  Working'
  <1>1. work[c] \in Handling
    BY KindOfCall
  <1>2. [work[c] EXCEPT !.pc = pc] \in Handling
    BY <1>1 DEF Handling, HandlingAt
  <1> QED
    BY <1>2 DEF Working, GoTo

\* What a new memory is written as.
LEMMA WriteFresh ==
  ASSUME TypeOK, NEW c \in Caller, Write(c)
  PROVE  work[c].pc = "write" /\ Fresh(work[c].author, work[c].op = "ingest") \in Point
  <1>1. work[c].pc = "write"
    BY DEF Write, At
  <1>2. work[c] \in Handling
    BY <1>1, KindOfCall DEF HandlingAt, TypeOK, Working
  <1>3. work[c].author \in Named \cup {None} /\ (work[c].op = "ingest") \in BOOLEAN
    BY <1>2 DEF Handling
  <1> QED
    BY <1>1, <1>3, FreshPoint

\* A call begins with its first step.
LEMMA BeginningHandling ==
  ASSUME NEW c \in Caller, NEW op \in DOMAIN FirstStep, NEW id \in Id, NEW old \in Id
  PROVE  /\ Beginning(c, op, id, old) \in Handling
         /\ Beginning(c, op, id, old).op = op /\ Beginning(c, op, id, old).id = id
         /\ Beginning(c, op, id, old).pc = FirstStep[op]
         /\ Beginning(c, op, id, old).was = State(id)
  <1>1. FirstStep[op] \in HandlingAt
    BY DEF FirstStep, HandlingAt
  <1>2. Author(c, op) \in Named \cup {None} /\ State(id) \in {"absent", "quarantined", "kept"}
    BY DEF Author, State
  <1> QED
    BY <1>1, <1>2 DEF Beginning, Handling, HandlingAt

\* An edit that found its memory goes on to write under its author.
LEMMA EditReadHandling ==
  ASSUME TypeOK, NEW c \in Caller, EditRead(c)
  PROVE  \/ Answer(c)
         \/ \E record \in Handling :
              /\ Go(c, record)
              /\ record.op = work[c].op /\ record.id = work[c].id /\ record.was = work[c].was
  <1>1. work[c].pc = "edit_read" /\ work[c] \in Handling
    BY KindOfCall DEF EditRead, At, HandlingAt, TypeOK, Working
  <1> DEFINE author == store[work[c].old].author
             record == [work[c] EXCEPT !.pc = "write", !.author = author]
  <1>2. ASSUME Exists(work[c].old)
        PROVE  author \in Named \cup {None}
    BY <1>1, <1>2 DEF TypeOK, Exists, Handling, Point
  <1>3. Answer(c) \/ (Exists(work[c].old) /\ Go(c, record))
    BY DEF EditRead
  <1> HIDE DEF author
  <1>4. ASSUME author \in Named \cup {None}
        PROVE  /\ record \in Handling
               /\ record.op = work[c].op /\ record.id = work[c].id /\ record.was = work[c].was
    BY <1>1, <1>4 DEF Handling
  <1> HIDE DEF record
  <1> QED
    BY <1>2, <1>3, <1>4

-----------------------------------------------------------------------------
(* Types.                                                                  *)

StepTyped == Stored' /\ Working' /\ Counted'

LEMMA BeginTyped ==
  ASSUME TypeOK, NEW c \in Caller, Begin(c)
  PROVE  StepTyped
  <1> USE DEF Stored, Counted, TypeOK
  <1>1. PICK op \in DOMAIN FirstStep, id \in Id, old \in Id : Go(c, Beginning(c, op, id, old))
    BY DEF Begin
  <1>2. Working'
    BY <1>1, BeginningHandling, GoWorking DEF Working
  <1> QED
    BY <1>2, MemoryAssumption DEF StepTyped, Begin

\* A request taken for an answer is counted.
LEMMA SwallowTyped ==
  ASSUME TypeOK, NEW c \in Caller, NEW pc, Swallow(c, pc)
  PROVE  Stored' /\ Counted' /\ work[c].pc = pc
  BY MemoryAssumption DEF TypeOK, Stored, Counted, Swallow

LEMMA StepsTyped ==
  ASSUME TypeOK, NEW c \in Caller, Step(c)
  PROVE  StepTyped
  <1> USE DEF StepTyped
  <1>a. Stored /\ Working /\ Counted
    BY DEF TypeOK, Stored, Working, Counted
  <1>b. work[c].pc \in HandlingAt => work[c].id \in Id /\ work[c].old \in Id
    BY <1>a, KindOfCall DEF Handling
  <1>c. ASSUME NEW pc, At(c, pc) PROVE Counted' /\ work[c].pc = pc
    BY <1>a, <1>c DEF At, Counted
  <1>d. UNCHANGED store => Stored'
    BY <1>a DEF Stored
  <1>1. CASE Begin(c)
    BY <1>1, BeginTyped
  <1>2. CASE Stop(c)
    BY <1>2, <1>a, <1>d, AnswerWorking, MemoryAssumption DEF Stop, Counted
  <1>3. CASE Judge(c)
    BY <1>3, <1>a, <1>c, <1>d, GoToWorking DEF Judge, HandlingAt
  <1>4. CASE Nearest(c)
    BY <1>4, <1>a, <1>c, <1>d, GoToWorking DEF Nearest, HandlingAt
  <1>5. CASE PromoteRead(c)
    BY <1>5, <1>a, <1>c, <1>d, GoToWorking, AnswerWorking DEF PromoteRead, HandlingAt
  <1>6. CASE Promote(c)
    BY <1>6, <1>a, <1>c, FlagStored, AnswerWorking DEF Promote
  <1>7. CASE Check(c)
    BY <1>7, <1>a, <1>c, <1>d, GoToWorking, AnswerWorking DEF Check, HandlingAt
  <1>8. CASE JudgeFails(c) \/ NearestFails(c) \/ PromoteFails(c) \/ CheckFails(c)
    <2>1. PICK pc \in HandlingAt, next \in HandlingAt : Swallow(c, pc) /\ GoTo(c, next)
      BY <1>8 DEF JudgeFails, NearestFails, PromoteFails, CheckFails, HandlingAt
    <2> QED
      BY <2>1, <1>a, SwallowTyped, GoToWorking
  <1>9. CASE Divert(c)
    BY <1>9, <1>a, <1>b, <1>c, PutStored, FreshPoint, AnswerWorking DEF Divert, HandlingAt
  <1>10. CASE Write(c)
    <2>1. work[c].pc = "write" /\ Fresh(work[c].author, work[c].op = "ingest") \in Point
      BY <1>10, WriteFresh
    <2>2. Stored'
      BY <2>1, <1>10, <1>a, <1>b, PutStored DEF Write, HandlingAt
    <2> QED
      BY <2>1, <2>2, <1>10, <1>a, <1>c, GoToWorking, AnswerWorking DEF Write, HandlingAt
  <1>11. CASE ExpireRead(c)
    BY <1>11, <1>a, <1>c, <1>d, GoToWorking, AnswerWorking DEF ExpireRead, HandlingAt
  <1>12. CASE Expire(c)
    BY <1>12, <1>a, <1>c, DropStored, AnswerWorking DEF Expire
  <1>13. CASE Archive(c)
    BY <1>13, <1>a, <1>c, FlagStored, AnswerWorking DEF Archive
  <1>14. CASE RestoreRead(c)
    BY <1>14, <1>a, <1>c, <1>d, GoToWorking, AnswerWorking DEF RestoreRead, HandlingAt
  <1>15. CASE Restore(c)
    BY <1>15, <1>a, <1>c, FlagStored, AnswerWorking DEF Restore
  <1>16. CASE EditRead(c)
    <2>1. work[c].pc = "edit_read"
      BY <1>16 DEF EditRead, At
    <2> QED
      BY <2>1, <1>16, <1>a, <1>c, <1>d, EditReadHandling, GoWorking, AnswerWorking DEF EditRead
  <1>17. CASE Remove(c)
    BY <1>17, <1>a, <1>c, DropStored, AnswerWorking DEF Remove
  <1> QED
    BY <1>1, <1>2, <1>3, <1>4, <1>5, <1>6, <1>7, <1>8, <1>9, <1>10, <1>11, <1>12, <1>13,
       <1>14, <1>15, <1>16, <1>17 DEF Step

\* A merge drops nothing but the point in hand and its rivals.
LEMMA OutcomesBounded ==
  ASSUME NEW i, NEW rivals, NEW dropped \in Outcomes(i, rivals)
  PROVE  dropped \subseteq rivals \cup {i}
  BY DEF Outcomes

\* One point of the walk, with its neighbours in hand.
MergeOf(c, i, neighbours) ==
  \E dropped \in IF i \in work[c].removed THEN {{}} ELSE Outcomes(i, Rivals(c, neighbours)) :
    Go(c, [work[c] EXCEPT !.todo = @ \ {i}, !.removed = @ \cup dropped])

LEMMA NeighboursClose ==
  ASSUME NEW i, NEW neighbours \in Neighbours(i)
  PROVE  neighbours \subseteq Close(i)
  BY DEF Neighbours

LEMMA ConsolidationTyped ==
  ASSUME TypeOK, NEW c \in Caller,
         ConsolidateBegin(c) \/ Merge(c) \/ MergeApply(c) \/ Cold(c)
  PROVE  StepTyped
  <1> USE DEF StepTyped
  <1>a. Stored /\ Working /\ Counted
    BY DEF TypeOK, Stored, Working, Counted
  <1>b. work[c].pc \in {"merge", "cold"} => work[c] \in Merging
    BY <1>a, KindOfCall
  <1>c. ASSUME NEW pc, At(c, pc) PROVE Counted' /\ work[c].pc = pc
    BY <1>a, <1>c DEF At, Counted
  <1>1. CASE ConsolidateBegin(c)
    <2> DEFINE known == {i \in Id : Exists(i)}
               begun(scope, cold) ==
                 [op |-> "consolidate", pc |-> "merge", cold |-> cold, known |-> known,
                  scope |-> scope, todo |-> scope, removed |-> {}]
    <2>1. PICK scope \in SUBSET Id, cold \in {"no", "archive", "prune"} :
            Go(c, begun(scope, cold))
      BY <1>1 DEF ConsolidateBegin
    <2>2. begun(scope, cold) \in Merging
      BY <2>1 DEF Merging
    <2>3. Working'
      BY <1>a, <2>1, <2>2, GoWorking
    <2> QED
      BY <1>1, <1>a, <2>3, MemoryAssumption DEF ConsolidateBegin, Stored, Counted
  <1>2. CASE Merge(c)
    <2>1. work[c] \in Merging
      BY <1>2, <1>b DEF Merge, At
    <2>2. PICK i \in work[c].todo :
            \E neighbours \in Neighbours(i) : MergeOf(c, i, neighbours)
      BY <1>2 DEF Merge, MergeOf
    <2>n. PICK neighbours \in Neighbours(i) : MergeOf(c, i, neighbours)
      BY <2>2
    <2>3. PICK dropped \in IF i \in work[c].removed THEN {{}} ELSE Outcomes(i, Rivals(c, neighbours)) :
            Go(c, [work[c] EXCEPT !.todo = @ \ {i}, !.removed = @ \cup dropped])
      BY <2>n DEF MergeOf
    <2>4. i \in Id /\ Rivals(c, neighbours) \subseteq Id
      BY <2>1, NeighboursClose DEF Merging, Rivals, Close
    <2>5. dropped \in SUBSET Id
      BY <2>3, <2>4, OutcomesBounded
    <2>6. [work[c] EXCEPT !.todo = @ \ {i}, !.removed = @ \cup dropped] \in Merging
      BY <2>1, <2>5 DEF Merging
    <2>7. Working'
      BY <1>a, <2>3, <2>6, GoWorking
    <2> QED
      BY <1>2, <1>a, <1>c, <2>7 DEF Merge, Stored
  <1>3. CASE MergeApply(c)
    <2>1. work[c] \in Merging
      BY <1>3, <1>b DEF MergeApply, At
    <2>2. [work[c] EXCEPT !.pc = "cold"] \in Merging
      BY <2>1 DEF Merging
    <2>3. GoTo(c, "cold") => Working'
      BY <1>a, <2>2 DEF Working, GoTo
    <2> QED
      BY <1>3, <1>a, <1>c, <2>3, DropStored, AnswerWorking DEF MergeApply
  <1>4. CASE Cold(c)
    BY <1>4, <1>a, <1>c, DropStored, FlagStored, AnswerWorking DEF Cold
  <1> QED
    BY <1>1, <1>2, <1>3, <1>4

\* The payload a move writes is a point.
LEMMA CarriedPoint ==
  ASSUME TypeOK, Carrying, NEW c \in Caller, work[c].pc = "move_write"
  PROVE  /\ work[c] \in Relocating
         /\ work[c].copy[work[c].text] \in Point
         /\ [work[c].copy[work[c].text] EXCEPT !.from = work[c].from] \in Point
         /\ Target(c) \in Id
  <1>1. work[c] \in Relocating
    BY KindOfCall DEF TypeOK, Working
  <1>2. work[c].copy[work[c].text] \in Point
    BY <1>1 DEF Carrying, CarryingAt, Relocating
  <1>3. work[c].from \in Library
    BY <1>1 DEF Relocating
  <1>4. [work[c].copy[work[c].text] EXCEPT !.from = work[c].from] \in Point
    BY <1>2, <1>3 DEF Point
  <1> QED
    BY <1>1, <1>2, <1>4 DEF Target, Id, Relocating

LEMMA MoveTyped ==
  ASSUME TypeOK, Carrying, NEW c \in Caller,
         \/ MoveBegin(c) \/ MoveEnd(c) \/ MoveRead(c) \/ MoveReadFails(c)
         \/ MoveWrite(c) \/ MoveDelete(c)
  PROVE  StepTyped
  <1> USE DEF StepTyped
  <1>a. Stored /\ Working /\ Counted
    BY DEF TypeOK, Stored, Working, Counted
  <1>b. work[c].pc \in {"pick", "move_write", "move_delete"} => work[c] \in Relocating
    BY <1>a, KindOfCall
  <1>c. ASSUME NEW pc, At(c, pc) PROVE Counted' /\ work[c].pc = pc
    BY <1>a, <1>c DEF At, Counted
  <1>d. UNCHANGED store => Stored'
    BY <1>a DEF Stored
  <1>e. ASSUME NEW pc \in {"pick", "move_delete"}, work[c] \in Relocating, GoTo(c, pc)
        PROVE  Working'
    <2>1. [work[c] EXCEPT !.pc = pc] \in Relocating
      BY <1>e DEF Relocating
    <2> QED
      BY <1>a, <1>e, <2>1 DEF Working, GoTo
  <1>f. ASSUME NEW pc \in {"pick", "move_write", "move_delete"}, work[c] \in Relocating,
               NEW t \in work[c].todo,
               Go(c, [work[c] EXCEPT !.pc = pc, !.text = t, !.todo = @ \ {t}])
        PROVE  Working'
    <2>1. [work[c] EXCEPT !.pc = pc, !.text = t, !.todo = @ \ {t}] \in Relocating
      BY <1>f DEF Relocating
    <2> QED
      BY <1>a, <1>f, <2>1, GoWorking
  <1>1. CASE MoveBegin(c)
    <2> DEFINE copied(from, matched) ==
          [t \in Text |-> IF t \in matched THEN store[<<from, t>>] ELSE None]
    <2>1. PICK from, to \in Library, chosen \in (SUBSET Text) \ {{}} :
            LET matched == {t \in chosen : Exists(<<from, t>>)} IN
            Go(c, [op |-> "relibrary", pc |-> "pick", from |-> from, to |-> to,
                   copy |-> copied(from, matched),
                   todo |-> matched, text |-> CHOOSE t \in Text : TRUE])
      BY <1>1 DEF MoveBegin
    <2> DEFINE matched == {t \in chosen : Exists(<<from, t>>)}
    <2>2. copied(from, matched) \in [Text -> Point \cup {None}]
      BY <1>a DEF Stored, Id
    <2>3. matched \in SUBSET Text /\ (CHOOSE t \in Text : TRUE) \in Text
      BY <2>1
    <2> HIDE DEF copied, matched
    <2>4. [op |-> "relibrary", pc |-> "pick", from |-> from, to |-> to,
           copy |-> copied(from, matched),
           todo |-> matched, text |-> CHOOSE t \in Text : TRUE] \in Relocating
      BY <2>1, <2>2, <2>3 DEF Relocating
    <2>5. Working'
      BY <1>a, <2>1, <2>4, GoWorking DEF matched
    <2> QED
      BY <1>1, <1>a, <1>d, <2>5, MemoryAssumption DEF MoveBegin, Counted
  <1>2. CASE MoveEnd(c)
    BY <1>2, <1>a, <1>c, <1>d, AnswerWorking DEF MoveEnd
  <1>3. CASE MoveRead(c)
    BY <1>3, <1>b, <1>c, <1>d, <1>f DEF MoveRead
  <1>4. CASE MoveReadFails(c)
    <2>1. faults < MaxFaults /\ faults' = faults + 1 /\ UNCHANGED calls
      BY <1>4, Zenon DEF MoveReadFails, Swallow
    <2>2. Counted'
      BY <1>a, <2>1, MemoryAssumption DEF Counted
    <2> QED
      BY <1>4, <1>b, <1>d, <1>f, <2>2 DEF MoveReadFails, Swallow
  <1>5. CASE MoveWrite(c)
    BY <1>5, <1>a, <1>c, <1>e, PutStored, CarriedPoint DEF MoveWrite
  <1>6. CASE MoveDelete(c)
    BY <1>6, <1>a, <1>b, <1>c, <1>e, DropStored DEF MoveDelete
  <1> QED
    BY <1>1, <1>2, <1>3, <1>4, <1>5, <1>6

\* What the history remembers has its types too.
LEMMA WatchTyped ==
  ASSUME TypeOK, Watch
  PROVE  Remembered'
  <1>1. calm' \in [Caller -> BOOLEAN]
    BY Zenon DEF TypeOK, Watch
  <1>2. ASSUME NEW c \in Caller, work[c].pc = "move_delete"
        PROVE  Source(c) \in Id /\ Target(c) \in Id
    <2>1. work[c] \in Relocating
      BY <1>2, KindOfCall DEF TypeOK, Working
    <2> QED
      BY <2>1 DEF Relocating, Source, Target, Id
  <1>3. torn' \subseteq [source : Id, target : Id]
    BY <1>2 DEF TypeOK, Watch
  <1> QED
    BY <1>1, <1>3 DEF Remembered

LEMMA ActTyped ==
  ASSUME TypeOK, Carrying, Next
  PROVE  TypeOK'
  <1>1. StepTyped
    BY StepsTyped, ConsolidationTyped, MoveTyped DEF Next, Act
  <1> QED
    BY <1>1, WatchTyped DEF Next, StepTyped, Stored, Working, Counted, Remembered, TypeOK

-----------------------------------------------------------------------------
(* The rest of the invariant.                                              *)

Frame(c) == \A d \in Caller \ {c} : work'[d] = work[d]

\* A step of an ordinary call leaves it one, or ends it; the only step of
\* them all open to a move is the stop.
Ordinary(c) ==
  /\ Frame(c)
  /\ work'[c] = Idle \/ work'[c] \in Handling
  /\ ExpiringAt(work'[c])
  /\ work[c].pc = "move_delete" => UNCHANGED store

LEMMA AnswerOrdinary ==
  ASSUME Working, NEW c \in Caller, Answer(c), work[c].pc # "move_delete" \/ UNCHANGED store
  PROVE  Ordinary(c)
  BY DEF Ordinary, Frame, ExpiringAt, Answer, Go, Idle, Working

LEMMA GoToOrdinary ==
  ASSUME Working, NEW c \in Caller, work[c].pc \in HandlingAt,
         NEW pc \in HandlingAt, GoTo(c, pc),
         work[c].op = "expire" => pc = "expire"
  PROVE  Ordinary(c)
  <1>1. work[c] \in Handling
    BY KindOfCall
  <1>2. /\ [work[c] EXCEPT !.pc = pc] \in Handling
        /\ ExpiringAt([work[c] EXCEPT !.pc = pc])
    BY <1>1 DEF Handling, HandlingAt, ExpiringAt
  <1>3. work[c].pc # "move_delete"
    BY DEF HandlingAt
  <1>4. work'[c] = [work[c] EXCEPT !.pc = pc] /\ Frame(c)
    BY DEF GoTo, Frame, Working
  <1> QED
    BY <1>2, <1>3, <1>4 DEF Ordinary

LEMMA BeginOrdinary ==
  ASSUME Working, NEW c \in Caller, Begin(c)
  PROVE  Ordinary(c)
  <1>1. PICK op \in DOMAIN FirstStep, id \in Id, old \in Id : Go(c, Beginning(c, op, id, old))
    BY DEF Begin
  <1>2. op = "expire" => FirstStep[op] = "expire_read"
    BY DEF FirstStep
  <1>3. Beginning(c, op, id, old) \in Handling /\ ExpiringAt(Beginning(c, op, id, old))
    BY <1>2, BeginningHandling DEF ExpiringAt
  <1>4. work'[c] = Beginning(c, op, id, old) /\ Frame(c)
    BY <1>1 DEF Go, Frame, Working
  <1>5. work[c].pc # "move_delete"
    BY DEF Begin, Idle
  <1> QED
    BY <1>3, <1>4, <1>5 DEF Ordinary

LEMMA StepsOrdinary ==
  ASSUME TypeOK, Expiring, NEW c \in Caller, Step(c)
  PROVE  Ordinary(c)
  <1>a. Working
    BY DEF TypeOK, Working
  <1>b. work[c].op = "expire" => work[c].pc \in {"expire_read", "expire"}
    BY DEF Expiring, ExpiringAt
  <1>c. ASSUME NEW pc, At(c, pc) PROVE work[c].pc = pc
    BY <1>c DEF At
  <1>1. CASE Begin(c)
    BY <1>1, <1>a, BeginOrdinary
  <1>2. CASE Stop(c)
    BY <1>2, <1>a, AnswerOrdinary DEF Stop
  <1>3. CASE Promote(c) \/ Expire(c) \/ Archive(c) \/ Restore(c) \/ Remove(c) \/ Divert(c)
    BY <1>3, <1>a, <1>c, AnswerOrdinary DEF Promote, Expire, Archive, Restore, Remove, Divert
  <1>4. CASE Judge(c) \/ Nearest(c)
    BY <1>4, <1>a, <1>b, <1>c, GoToOrdinary DEF Judge, Nearest, HandlingAt
  <1>5. CASE PromoteRead(c)
    BY <1>5, <1>a, <1>b, <1>c, GoToOrdinary, AnswerOrdinary DEF PromoteRead, HandlingAt
  <1>6. CASE Check(c)
    BY <1>6, <1>a, <1>b, <1>c, GoToOrdinary, AnswerOrdinary DEF Check, HandlingAt
  <1>7. CASE JudgeFails(c) \/ NearestFails(c) \/ PromoteFails(c) \/ CheckFails(c)
    <2>1. PICK pc \in {"judge", "nearest", "promote_read", "promote", "check"},
              next \in {"nearest", "write", "check", "divert"} :
            work[c].pc = pc /\ GoTo(c, next)
      BY <1>7 DEF JudgeFails, NearestFails, PromoteFails, CheckFails, Swallow
    <2> QED
      BY <2>1, <1>a, <1>b, GoToOrdinary DEF HandlingAt
  <1>8. CASE Write(c)
    BY <1>8, <1>a, <1>b, <1>c, GoToOrdinary, AnswerOrdinary DEF Write, HandlingAt
  <1>9. CASE ExpireRead(c)
    BY <1>9, <1>a, <1>c, GoToOrdinary, AnswerOrdinary DEF ExpireRead, HandlingAt
  <1>10. CASE RestoreRead(c)
    BY <1>10, <1>a, <1>b, <1>c, GoToOrdinary, AnswerOrdinary DEF RestoreRead, HandlingAt
  <1>11. CASE EditRead(c)
    <2>1. work[c].pc = "edit_read" /\ work[c].op # "expire"
      BY <1>11, <1>b DEF EditRead, At
    <2>2. CASE Answer(c)
      BY <2>1, <2>2, <1>a, AnswerOrdinary
    <2>3. ASSUME NEW record \in Handling, Go(c, record), record.op = work[c].op
          PROVE  Ordinary(c)
      <3>1. work'[c] = record /\ Frame(c)
        BY <1>a, <2>3 DEF Go, Frame, Working
      <3> QED
        BY <2>1, <2>3, <3>1 DEF Ordinary, ExpiringAt
    <2> QED
      BY <1>11, <2>2, <2>3, EditReadHandling
  <1> QED
    BY <1>1, <1>2, <1>3, <1>4, <1>5, <1>6, <1>7, <1>8, <1>9, <1>10, <1>11 DEF Step

\* A step of a consolidation leaves it one, or ends it.
LEMMA ConsolidationOwn ==
  ASSUME TypeOK, NEW c \in Caller,
         ConsolidateBegin(c) \/ Merge(c) \/ MergeApply(c) \/ Cold(c)
  PROVE  /\ Frame(c)
         /\ work[c].pc # "move_delete"
         /\ work'[c].pc \notin {"pick", "move_write", "move_delete"}
         /\ work'[c].op \in {"none", "consolidate"}
  <1>a. Working /\ (work[c].pc = "merge" => work[c].op = "consolidate")
    BY KindOfCall DEF TypeOK, Working, Merging
  <1>1. CASE ConsolidateBegin(c)
    BY <1>1, <1>a DEF ConsolidateBegin, Go, Frame, Working, Idle
  <1>2. CASE Merge(c)
    <2>1. PICK i, dropped : Go(c, [work[c] EXCEPT !.todo = @ \ {i}, !.removed = @ \cup dropped])
      BY <1>2 DEF Merge
    <2>2. work[c].pc = "merge" /\ work[c] \in Merging
      BY <1>2, <1>a, KindOfCall DEF Merge, At
    <2>3. /\ [work[c] EXCEPT !.todo = @ \ {i}, !.removed = @ \cup dropped].pc = work[c].pc
          /\ [work[c] EXCEPT !.todo = @ \ {i}, !.removed = @ \cup dropped].op = work[c].op
      BY <2>2 DEF Merging
    <2> QED
      BY <1>a, <2>1, <2>2, <2>3 DEF Go, Frame, Working
  <1>3. CASE MergeApply(c)
    <2>1. work[c].pc = "merge" /\ work[c] \in Merging
      BY <1>3, <1>a, KindOfCall DEF MergeApply, At
    <2>2. Answer(c) \/ GoTo(c, "cold")
      BY <1>3 DEF MergeApply
    <2> QED
      BY <1>a, <2>1, <2>2 DEF Merging, Answer, Go, GoTo, Frame, Working, Idle
  <1>4. CASE Cold(c)
    <2>1. work[c].pc = "cold" /\ Answer(c)
      BY <1>4 DEF Cold, At
    <2> QED
      BY <1>a, <2>1 DEF Answer, Go, Frame, Working, Idle
  <1> QED
    BY <1>1, <1>2, <1>3, <1>4

\* A step of a move leaves it one, or ends it; the delete comes after the
\* copy is seen or written.
Moving(c) ==
  /\ Frame(c)
  /\ work'[c].op \in {"none", "relibrary"}
  /\ CarryingAt(work'[c])
  /\ work'[c].pc = "move_delete" =>
       Exists(Target(c))' /\ store'[Target(c)'].from = work'[c].from
  /\ work[c].pc = "move_delete" => work'[c] # Idle

\* The text in hand changes, and where the move stands; nothing else.
LEMMA PickMoving ==
  ASSUME Working, Carrying, NEW c \in Caller, work[c].pc = "pick",
         NEW pc \in {"pick", "move_write", "move_delete"}, NEW t \in work[c].todo,
         UNCHANGED store,
         Go(c, [work[c] EXCEPT !.pc = pc, !.text = t, !.todo = @ \ {t}]),
         pc = "move_delete" =>
           Exists(<<work[c].to, t>>) /\ store[<<work[c].to, t>>].from = work[c].from
  PROVE  Moving(c)
  <1> DEFINE record == [work[c] EXCEPT !.pc = pc, !.text = t, !.todo = @ \ {t}]
  <1>1. work[c] \in Relocating
    BY KindOfCall
  <1>2. /\ record.op = "relibrary" /\ record.pc = pc /\ record.text = t
        /\ record.from = work[c].from /\ record.to = work[c].to
        /\ record.copy = work[c].copy /\ record.todo = work[c].todo \ {t}
    BY <1>1 DEF Relocating
  <1>3. work'[c] = record /\ Frame(c)
    BY DEF Go, Frame, Working
  <1> HIDE DEF record
  <1>4. CarryingAt(record)
    BY <1>1, <1>2 DEF Carrying, CarryingAt, Relocating
  <1> QED
    BY <1>2, <1>3, <1>4 DEF Moving, Exists, Target

LEMMA MoveMoving ==
  ASSUME TypeOK, Carrying, NEW c \in Caller,
         \/ MoveBegin(c) \/ MoveEnd(c) \/ MoveRead(c) \/ MoveReadFails(c)
         \/ MoveWrite(c) \/ MoveDelete(c)
  PROVE  Moving(c)
  <1>a. Working /\ Stored
    BY DEF TypeOK, Working, Stored
  <1>1. CASE MoveBegin(c)
    <2> DEFINE matched(from, chosen) == {t \in chosen : Exists(<<from, t>>)}
               begun(from, to, chosen) ==
                 [op |-> "relibrary", pc |-> "pick", from |-> from, to |-> to,
                  copy |-> [t \in Text |-> IF t \in matched(from, chosen)
                                           THEN store[<<from, t>>] ELSE None],
                  todo |-> matched(from, chosen), text |-> CHOOSE t \in Text : TRUE]
    <2>1. PICK from, to \in Library, chosen \in (SUBSET Text) \ {{}} :
            from # to /\ Go(c, begun(from, to, chosen))
      BY <1>1 DEF MoveBegin
    <2>2. CarryingAt(begun(from, to, chosen))
      BY <2>1 DEF CarryingAt, Exists
    <2>3. begun(from, to, chosen).op = "relibrary" /\ begun(from, to, chosen).pc = "pick"
      OBVIOUS
    <2>4. work[c].pc # "move_delete"
      BY <1>1 DEF MoveBegin, Idle
    <2> HIDE DEF begun
    <2>5. work'[c] = begun(from, to, chosen) /\ Frame(c)
      BY <1>a, <2>1 DEF Go, Frame, Working
    <2> QED
      BY <2>2, <2>3, <2>4, <2>5 DEF Moving
  <1>2. CASE MoveEnd(c)
    BY <1>2, <1>a DEF MoveEnd, At, Answer, Go, Moving, Frame, CarryingAt, Working, Idle
  <1>3. CASE MoveRead(c)
    BY <1>3, <1>a, PickMoving DEF MoveRead, At, Exists
  <1>4. CASE MoveReadFails(c)
    BY <1>4, <1>a, PickMoving DEF MoveReadFails, Swallow
  <1>5. CASE MoveWrite(c)
    <2> DEFINE written == [work[c].copy[work[c].text] EXCEPT !.from = work[c].from]
    <2>1. work[c].pc = "move_write" /\ GoTo(c, "move_delete") /\ Put(Target(c), written)
      BY <1>5 DEF MoveWrite, At
    <2>2. /\ work[c] \in Relocating /\ Target(c) \in Id
          /\ work[c].copy[work[c].text] \in Point /\ written \in Point
      BY <2>1, CarriedPoint
    <2>3. written # None /\ written.from = work[c].from
      BY <2>2, MemoryAssumption DEF Point
    <2>4. store'[Target(c)] = written
      BY <1>a, <2>1, <2>2 DEF Put, Stored
    <2>5. /\ work'[c].pc = "move_delete" /\ work'[c].op = "relibrary" /\ Frame(c)
          /\ work'[c].from = work[c].from /\ work'[c].to = work[c].to
          /\ work'[c].text = work[c].text /\ work'[c].copy = work[c].copy
          /\ work'[c].todo = work[c].todo
      BY <1>a, <2>1, <2>2 DEF GoTo, Frame, Working, Relocating
    <2>6. CarryingAt(work'[c])
      BY <2>2, <2>5 DEF Carrying, CarryingAt, Relocating
    <2> QED
      BY <2>1, <2>3, <2>4, <2>5, <2>6 DEF Moving, Exists, Target
  <1>6. CASE MoveDelete(c)
    <2>1. work[c].pc = "move_delete" /\ GoTo(c, "pick")
      BY <1>6 DEF MoveDelete, At
    <2>2. work[c] \in Relocating
      BY <1>a, <2>1, KindOfCall
    <2>3. /\ work'[c].pc = "pick" /\ work'[c].op = "relibrary" /\ Frame(c)
          /\ work'[c].from = work[c].from /\ work'[c].to = work[c].to
          /\ work'[c].text = work[c].text /\ work'[c].copy = work[c].copy
          /\ work'[c].todo = work[c].todo
      BY <1>a, <2>1, <2>2 DEF GoTo, Frame, Working, Relocating
    <2>4. CarryingAt(work'[c])
      BY <2>2, <2>3 DEF Carrying, CarryingAt, Relocating
    <2> QED
      BY <2>3, <2>4 DEF Moving, Idle
  <1> QED
    BY <1>1, <1>2, <1>3, <1>4, <1>5, <1>6

-----------------------------------------------------------------------------
(* Together.                                                               *)

LEMMA InvInit == Init => Inv
  <1> SUFFICES ASSUME Init PROVE Inv
    OBVIOUS
  <1>1. TypeOK
    BY MemoryAssumption DEF Init, TypeOK
  <1>2. Expiring /\ Carrying /\ Arrived
    BY DEF Init, Expiring, ExpiringAt, Carrying, CarryingAt, Arrived, Idle
  <1>3. Resumable
    BY DEF Init, Resumable
  <1> QED
    BY <1>1, <1>2, <1>3 DEF Inv

\* What one caller's step gives, whichever it is.
LEMMA ActGives ==
  ASSUME Inv, Act
  PROVE  \E c \in Caller :
           /\ Frame(c)
           /\ ExpiringAt(work'[c])
           /\ CarryingAt(work'[c])
           /\ work'[c].pc = "move_delete" =>
                Exists(Target(c))' /\ store'[Target(c)'].from = work'[c].from
           /\ work[c].pc = "move_delete" /\ work'[c] = Idle => UNCHANGED store
  <1>a. TypeOK /\ Expiring /\ Carrying
    BY DEF Inv
  <1>1. PICK c \in Caller :
          \/ Step(c)
          \/ ConsolidateBegin(c) \/ Merge(c) \/ MergeApply(c) \/ Cold(c)
          \/ MoveBegin(c) \/ MoveEnd(c) \/ MoveRead(c) \/ MoveReadFails(c)
          \/ MoveWrite(c) \/ MoveDelete(c)
    BY DEF Act
  <1>2. CASE Step(c)
    <2>1. Ordinary(c)
      BY <1>a, <1>2, StepsOrdinary
    <2>2. work'[c].pc # "move_delete" /\ work'[c].op # "relibrary"
      BY <2>1 DEF Ordinary, Handling, FirstStep, Idle
    <2> QED
      BY <2>1, <2>2 DEF Ordinary, CarryingAt
  <1>3. CASE ConsolidateBegin(c) \/ Merge(c) \/ MergeApply(c) \/ Cold(c)
    BY <1>a, <1>3, ConsolidationOwn DEF ExpiringAt, CarryingAt
  <1>4. CASE \/ MoveBegin(c) \/ MoveEnd(c) \/ MoveRead(c) \/ MoveReadFails(c)
             \/ MoveWrite(c) \/ MoveDelete(c)
    BY <1>a, <1>4, MoveMoving DEF Moving, ExpiringAt
  <1> QED
    BY <1>1, <1>2, <1>3, <1>4

\* The history of a call that has not moved on, and of one that has.
LEMMA CalmOf ==
  ASSUME Watch, NEW c \in Caller, calm'[c], work[c].pc \notin {"idle", "pick"}
  PROVE  /\ calm[c]
         /\ work'[c] # work[c] => faults' = faults
         /\ work'[c] = work[c] => \A i \in Watched(c) : store'[i] = store[i]
  <1>1. calm'[c] = (\/ work[c] = Idle \/ work[c].pc = "pick"
                    \/ /\ calm[c]
                       /\ IF work'[c] # work[c] THEN faults' = faults
                          ELSE \A i \in Watched(c) : store'[i] = store[i])
    BY Zenon DEF Watch
  <1>2. work[c] # Idle /\ work[c].pc # "pick"
    BY DEF Idle
  <1> QED
    BY <1>1, <1>2

LEMMA InvStep == Inv /\ [Next]_vars => Inv'
  <1> SUFFICES ASSUME Inv, [Next]_vars PROVE Inv'
    OBVIOUS
  <1>1. CASE UNCHANGED vars
    BY <1>1 DEF vars, memoryVars, Inv, TypeOK, Expiring, Carrying, Arrived, Resumable, Marked,
      Exists, Target
  <1>2. CASE Next
    <2>1. TypeOK /\ Working /\ Carrying /\ Arrived /\ Resumable /\ Act /\ Watch
      BY <1>2 DEF Inv, TypeOK, Working, Next
    <2>2. TypeOK'
      BY <1>2, <2>1, ActTyped
    <2>3. PICK c \in Caller :
            /\ Frame(c)
            /\ ExpiringAt(work'[c])
            /\ CarryingAt(work'[c])
            /\ work'[c].pc = "move_delete" =>
                 Exists(Target(c))' /\ store'[Target(c)'].from = work'[c].from
            /\ work[c].pc = "move_delete" /\ work'[c] = Idle => UNCHANGED store
      BY <2>1, ActGives
    <2>4. Expiring' /\ Carrying'
      BY <2>3 DEF Inv, Frame, Expiring, Carrying, ExpiringAt, CarryingAt
    <2>5. Arrived'
      <3> SUFFICES ASSUME NEW d \in Caller, work'[d].pc = "move_delete", calm'[d]
                   PROVE  Marked(Target(d), work[d].from)'
        BY DEF Arrived
      <3>1. CASE d = c
        BY <2>3, <3>1 DEF Marked
      <3>2. CASE d # c
        <4>1. work'[d] = work[d] /\ work[d].pc = "move_delete"
          BY <2>3, <3>2 DEF Frame
        <4>2. work[d] \in Relocating
          BY <2>1, <4>1, KindOfCall
        <4>3. Watched(d) = {Source(d), Target(d)}
          BY <4>2 DEF Watched, Relocating
        <4>5. calm[d] /\ store'[Target(d)] = store[Target(d)]
          BY <2>1, <4>1, <4>3, CalmOf
        <4>6. Marked(Target(d), work[d].from)
          BY <2>1, <4>1, <4>5 DEF Arrived
        <4> QED
          BY <4>1, <4>5, <4>6 DEF Marked, Exists, Target
      <3> QED
        BY <3>1, <3>2
    <2>6. Resumable'
      <3> SUFFICES ASSUME NEW move \in torn' PROVE Marked(move.target, move.source[1])'
        BY DEF Resumable
      <3>1. CASE move \in torn /\ \A i \in {move.source, move.target} : store'[i] = store[i]
        BY <2>1, <3>1 DEF Resumable, Marked, Exists
      <3>2. CASE \E d \in Caller :
                   /\ work[d].pc = "move_delete" /\ work'[d] = Idle /\ calm[d]
                   /\ move = [source |-> Source(d), target |-> Target(d)]
        <4>1. PICK d \in Caller :
                /\ work[d].pc = "move_delete" /\ work'[d] = Idle /\ calm[d]
                /\ move = [source |-> Source(d), target |-> Target(d)]
          BY <3>2
        <4>2. d = c
          BY <2>3, <4>1 DEF Frame, Idle
        <4>3. UNCHANGED store
          BY <2>3, <4>1, <4>2
        <4>4. Marked(Target(d), work[d].from)
          BY <2>1, <4>1 DEF Arrived
        <4>5. move.target = Target(d) /\ move.source[1] = work[d].from
          BY <4>1 DEF Source
        <4> QED
          BY <4>3, <4>4, <4>5 DEF Marked, Exists
      <3> QED
        BY <2>1, <3>1, <3>2 DEF Watch
    <2> QED
      BY <2>2, <2>4, <2>5, <2>6 DEF Inv
  <1> QED
    BY <1>1, <1>2

\* However callers interleave, moves and merges included, the state keeps its
\* types: what a move writes is always a point it has scanned.
THEOREM TypeCorrect == Spec => []TypeOK
  <1>1. Inv => TypeOK
    BY DEF Inv
  <1> QED
    BY <1>1, InvInit, InvStep, PTL DEF Spec

\* The steps open to an expiry and to a move's delete.
LEMMA WhoseStep ==
  ASSUME NEW c \in Caller,
         \/ Step(c)
         \/ ConsolidateBegin(c) \/ Merge(c) \/ MergeApply(c) \/ Cold(c)
         \/ MoveBegin(c) \/ MoveEnd(c) \/ MoveRead(c) \/ MoveReadFails(c)
         \/ MoveWrite(c) \/ MoveDelete(c),
         work[c].pc \in {"expire_read", "expire", "move_delete"}
  PROVE  \/ Stop(c)
         \/ work[c].pc # "move_delete" /\ (ExpireRead(c) \/ Expire(c))
         \/ work[c].pc = "move_delete" /\ MoveDelete(c)
  <1>1. CASE Step(c)
    <2>1. ~ (Begin(c) \/ JudgeFails(c) \/ NearestFails(c) \/ PromoteFails(c) \/ CheckFails(c))
      BY DEF Begin, JudgeFails, NearestFails, PromoteFails, CheckFails, Swallow, Idle
    <2>2. ~ (Judge(c) \/ Nearest(c) \/ PromoteRead(c) \/ Promote(c) \/ Check(c) \/ Divert(c))
      BY DEF Judge, Nearest, PromoteRead, Promote, Check, Divert, At
    <2>3. ~ (Write(c) \/ Archive(c) \/ RestoreRead(c) \/ Restore(c) \/ EditRead(c) \/ Remove(c))
      BY DEF Write, Archive, RestoreRead, Restore, EditRead, Remove, At
    <2>4. ExpireRead(c) \/ Expire(c) => work[c].pc # "move_delete"
      BY DEF ExpireRead, Expire, At
    <2> QED
      BY <1>1, <2>1, <2>2, <2>3, <2>4 DEF Step
  <1>2. ~ (ConsolidateBegin(c) \/ MoveBegin(c))
    BY DEF ConsolidateBegin, MoveBegin, Idle
  <1>3. Merge(c) => work[c].pc = "merge"
    BY Zenon DEF Merge, At
  <1>4. MergeApply(c) => work[c].pc = "merge"
    BY Zenon DEF MergeApply, At
  <1>5. Cold(c) => work[c].pc = "cold"
    BY Zenon DEF Cold, At
  <1>6. MoveEnd(c) \/ MoveRead(c) \/ MoveReadFails(c) => work[c].pc = "pick"
    BY Zenon DEF MoveEnd, MoveRead, MoveReadFails, Swallow, At
  <1>7. MoveWrite(c) => work[c].pc = "move_write"
    BY Zenon DEF MoveWrite, At
  <1>8. MoveDelete(c) => work[c].pc = "move_delete"
    BY Zenon DEF MoveDelete, At
  <1> QED
    BY <1>1, <1>2, <1>3, <1>4, <1>5, <1>6, <1>7, <1>8

\* An expiry never takes a kept text, whenever it was promoted.  (storage.rs,
\* expire_from_quarantine.)
THEOREM ExpirySpares == Spec => ExpireSparesKept
  <1>1. ASSUME Inv, Next, NEW c \in Caller, NEW i \in Id,
               work[c].op = "expire", work'[c] # work[c], Live(i)
        PROVE  store'[i] = store[i]
    <2>a. Working /\ ExpiringAt(work[c])
      BY <1>1 DEF Inv, TypeOK, Working, Expiring
    <2>b. work[c].pc \in {"expire_read", "expire"}
      BY <1>1, <2>a DEF ExpiringAt
    <2>1. PICK a \in Caller :
            \/ Step(a)
            \/ ConsolidateBegin(a) \/ Merge(a) \/ MergeApply(a) \/ Cold(a)
            \/ MoveBegin(a) \/ MoveEnd(a) \/ MoveRead(a) \/ MoveReadFails(a)
            \/ MoveWrite(a) \/ MoveDelete(a)
      BY <1>1 DEF Next, Act
    <2>2. Frame(a)
      BY <1>1, <2>1, StepsOrdinary, ConsolidationOwn, MoveMoving DEF Inv, Ordinary, Moving
    <2>3. a = c
      BY <1>1, <2>2 DEF Frame
    <2>4. Stop(c) \/ ExpireRead(c) \/ Expire(c)
      BY <2>1, <2>3, <2>b, WhoseStep
    <2>5. ~Quarantined(i)
      BY <1>1 DEF Live, Quarantined
    <2> QED
      BY <2>4, <2>5 DEF Stop, ExpireRead, Expire, Drop
  <1>2. ASSUME Inv, [Next]_vars
        PROVE  [\A c \in Caller, i \in Id :
                  work[c].op = "expire" /\ work'[c] # work[c] /\ Live(i) =>
                    store'[i] = store[i]]_vars
    BY <1>1, <1>2
  <1> QED
    BY <1>2, InvInit, InvStep, PTL DEF Spec, ExpireSparesKept

\* A move deletes a text from where it was only once it is where it goes,
\* unless somebody else wrote there meanwhile.  (relibrary.rs, run.)
THEOREM MoveKeeps == Spec => MoveLosesNothing
  <1>1. ASSUME Inv, Next, NEW c \in Caller, work[c].pc = "move_delete", calm[c],
               work'[c].pc = "pick"
        PROVE  \A i \in Id : i = Target(c) => Exists(i)'
    <2>a. Working /\ work[c] \in Relocating /\ CarryingAt(work[c])
      BY <1>1, KindOfCall DEF Inv, TypeOK, Working, Carrying
    <2>1. PICK a \in Caller :
            \/ Step(a)
            \/ ConsolidateBegin(a) \/ Merge(a) \/ MergeApply(a) \/ Cold(a)
            \/ MoveBegin(a) \/ MoveEnd(a) \/ MoveRead(a) \/ MoveReadFails(a)
            \/ MoveWrite(a) \/ MoveDelete(a)
      BY <1>1 DEF Next, Act
    <2>2. Frame(a)
      BY <1>1, <2>1, StepsOrdinary, ConsolidationOwn, MoveMoving DEF Inv, Ordinary, Moving
    <2>3. a = c
      BY <1>1, <2>2 DEF Frame
    <2>4. Stop(c) \/ MoveDelete(c)
      BY <1>1, <2>1, <2>3, WhoseStep
    <2>5. Source(c) # Target(c)
      BY <2>a DEF Relocating, CarryingAt, Source, Target
    <2>6. Exists(Target(c))
      BY <1>1 DEF Inv, Arrived, Marked
    <2> QED
      BY <2>4, <2>5, <2>6 DEF Stop, MoveDelete, Drop, Exists, Target
  <1>2. ASSUME Inv, [Next]_vars
        PROVE  [\A c \in Caller :
                  work[c].pc = "move_delete" /\ calm[c] /\ work'[c].pc = "pick" =>
                    \A i \in Id : i = Target(c) => Exists(i)']_vars
    BY <1>1, <1>2
  <1> QED
    BY <1>2, InvInit, InvStep, PTL DEF Spec, MoveLosesNothing

\* At its pick a move stops, ends, or reads a destination.
LEMMA PickStep ==
  ASSUME Working, NEW c \in Caller, work[c].pc = "pick", work'[c].pc = "pick",
         \/ Step(c)
         \/ ConsolidateBegin(c) \/ Merge(c) \/ MergeApply(c) \/ Cold(c)
         \/ MoveBegin(c) \/ MoveEnd(c) \/ MoveRead(c) \/ MoveReadFails(c)
         \/ MoveWrite(c) \/ MoveDelete(c)
  PROVE  MoveRead(c)
  <1>1. CASE Step(c)
    <2>1. ~ (Begin(c) \/ JudgeFails(c) \/ NearestFails(c) \/ PromoteFails(c) \/ CheckFails(c))
      BY DEF Begin, JudgeFails, NearestFails, PromoteFails, CheckFails, Swallow, Idle
    <2>2. ~ (Judge(c) \/ Nearest(c) \/ PromoteRead(c) \/ Promote(c) \/ Check(c) \/ Divert(c))
      BY DEF Judge, Nearest, PromoteRead, Promote, Check, Divert, At
    <2>3. ~ (Write(c) \/ Archive(c) \/ RestoreRead(c) \/ Restore(c) \/ EditRead(c) \/ Remove(c))
      BY DEF Write, Archive, RestoreRead, Restore, EditRead, Remove, At
    <2>4. ~ (ExpireRead(c) \/ Expire(c))
      BY DEF ExpireRead, Expire, At
    <2>5. ~ Stop(c)
      BY DEF Stop, Answer, Go, Idle, Working
    <2> QED
      BY <1>1, <2>1, <2>2, <2>3, <2>4, <2>5 DEF Step
  <1>2. ~ (ConsolidateBegin(c) \/ MoveBegin(c))
    BY DEF ConsolidateBegin, MoveBegin, Idle
  <1>3. Merge(c) => work[c].pc = "merge"
    BY Zenon DEF Merge, At
  <1>4. MergeApply(c) => work[c].pc = "merge"
    BY Zenon DEF MergeApply, At
  <1>5. Cold(c) => work[c].pc = "cold"
    BY Zenon DEF Cold, At
  <1>6. ~ MoveEnd(c)
    BY DEF MoveEnd, Answer, Go, Idle, Working
  <1>7. ~ MoveReadFails(c)
    <2> SUFFICES ASSUME MoveReadFails(c) PROVE FALSE
      OBVIOUS
    <2>1. PICK t : Go(c, [work[c] EXCEPT !.pc = "move_write", !.text = t, !.todo = @ \ {t}])
      BY Zenon DEF MoveReadFails
    <2>2. work[c] \in Relocating
      BY KindOfCall
    <2>3. [work[c] EXCEPT !.pc = "move_write", !.text = t, !.todo = @ \ {t}].pc = "move_write"
      BY <2>2 DEF Relocating
    <2> QED
      BY <2>1, <2>3 DEF Go, Working
  <1>8. MoveWrite(c) => work[c].pc = "move_write"
    BY Zenon DEF MoveWrite, At
  <1>9. MoveDelete(c) => work[c].pc = "move_delete"
    BY Zenon DEF MoveDelete, At
  <1> QED
    BY <1>1, <1>2, <1>3, <1>4, <1>5, <1>6, <1>7, <1>8, <1>9

\* A torn move that nobody has touched is finished by the next move of its
\* text.  (relibrary.rs, run.)
THEOREM TornMovesResume == Spec => ResumeFinishes
  <1>1. ASSUME Inv, Next, NEW c \in Caller, work[c].pc = "pick", work'[c].pc = "pick",
               work'[c] # work[c]
        PROVE  [source |-> Source(c)', target |-> Target(c)'] \notin torn
    <2>a. Working /\ work[c] \in Relocating
      BY <1>1, KindOfCall DEF Inv, TypeOK, Working
    <2>1. PICK a \in Caller :
            \/ Step(a)
            \/ ConsolidateBegin(a) \/ Merge(a) \/ MergeApply(a) \/ Cold(a)
            \/ MoveBegin(a) \/ MoveEnd(a) \/ MoveRead(a) \/ MoveReadFails(a)
            \/ MoveWrite(a) \/ MoveDelete(a)
      BY <1>1 DEF Next, Act
    <2>2. Frame(a)
      BY <1>1, <2>1, StepsOrdinary, ConsolidationOwn, MoveMoving DEF Inv, Ordinary, Moving
    <2>3. a = c
      BY <1>1, <2>2 DEF Frame
    <2>4. MoveRead(c)
      BY <1>1, <2>a, <2>1, <2>3, PickStep
    <2> DEFINE next(t) ==
          IF store[<<work[c].to, t>>] = None THEN "move_write"
          ELSE IF store[<<work[c].to, t>>].from = work[c].from THEN "move_delete" ELSE "pick"
    <2>5. PICK t : Go(c, [work[c] EXCEPT !.pc = next(t), !.text = t, !.todo = @ \ {t}])
      BY <2>4, Zenon DEF MoveRead
    <2>6. /\ work'[c].pc = next(t) /\ work'[c].text = t
          /\ work'[c].from = work[c].from /\ work'[c].to = work[c].to
      <3> HIDE DEF next
      <3>1. /\ [work[c] EXCEPT !.pc = next(t), !.text = t, !.todo = @ \ {t}].pc = next(t)
            /\ [work[c] EXCEPT !.pc = next(t), !.text = t, !.todo = @ \ {t}].text = t
            /\ [work[c] EXCEPT !.pc = next(t), !.text = t, !.todo = @ \ {t}].from = work[c].from
            /\ [work[c] EXCEPT !.pc = next(t), !.text = t, !.todo = @ \ {t}].to = work[c].to
        BY <2>a DEF Relocating
      <3> QED
        BY <2>a, <2>5, <3>1 DEF Go, Working
    <2>7. ~ Marked(<<work[c].to, t>>, work[c].from)
      BY <1>1, <2>6 DEF Marked, Exists
    <2>8. Source(c)' = <<work[c].from, t>> /\ Target(c)' = <<work[c].to, t>>
      BY <2>6 DEF Source, Target
    <2> QED
      BY <1>1, <2>7, <2>8 DEF Inv, Resumable
  <1>2. ASSUME Inv, [Next]_vars
        PROVE  [\A c \in Caller :
                  work[c].pc = "pick" /\ work'[c].pc = "pick" /\ work'[c] # work[c] =>
                    [source |-> Source(c)', target |-> Target(c)'] \notin torn]_vars
    BY <1>1, <1>2
  <1> QED
    BY <1>2, InvInit, InvStep, PTL DEF Spec, ResumeFinishes

-----------------------------------------------------------------------------
(* Consolidation keeps one of each group.                                  *)

\* What is scanned is there, and of every group that has lost a point one is
\* left that is there and not dropped.
SparingAt(c) ==
  work[c].pc = "merge" /\ calm[c] =>
    /\ work[c].todo \subseteq work[c].known
    /\ \A i \in work[c].known : Exists(i)
    /\ \A i \in work[c].removed, G \in SUBSET Text :
         i[2] \in G /\ Group(G) =>
           \E t \in G : <<i[1], t>> \notin work[c].removed /\ Exists(<<i[1], t>>)
Sparing == \A c \in Caller : SparingAt(c)

LEMMA SparingInit == Init => Sparing
  BY DEF Init, Sparing, SparingAt, Idle

\* A merge of i spares i, or a rival that beats it.
LEMMA OutcomesSpare ==
  ASSUME NEW i, NEW rivals, i \notin rivals, NEW dropped \in Outcomes(i, rivals)
  PROVE  i \notin dropped \/ \E winner \in rivals : winner \notin dropped
  BY DEF Outcomes

LEMMA MergeSpares ==
  ASSUME Working, NEW c \in Caller, SparingAt(c), Merge(c), calm[c]
  PROVE  SparingAt(c)'
  <1>1. work[c].pc = "merge" /\ work[c] \in Merging /\ UNCHANGED store
    BY KindOfCall DEF Merge, At
  <1>2. PICK i \in work[c].todo :
          \E neighbours \in Neighbours(i) : MergeOf(c, i, neighbours)
    BY DEF Merge, MergeOf
  <1>n. PICK neighbours \in Neighbours(i) : MergeOf(c, i, neighbours)
    BY <1>2
  <1>3. PICK dropped \in IF i \in work[c].removed THEN {{}} ELSE Outcomes(i, Rivals(c, neighbours)) :
          Go(c, [work[c] EXCEPT !.todo = @ \ {i}, !.removed = @ \cup dropped])
    BY <1>n DEF MergeOf
  <1>4. /\ work'[c].known = work[c].known /\ work'[c].todo = work[c].todo \ {i}
        /\ work'[c].removed = work[c].removed \cup dropped
    BY <1>1, <1>3 DEF Go, Working, Merging
  <1> SUFFICES ASSUME NEW j \in work'[c].removed, NEW G \in SUBSET Text, j[2] \in G, Group(G)
               PROVE  \E t \in G : <<j[1], t>> \notin work'[c].removed /\ Exists(<<j[1], t>>)
    BY <1>1, <1>4 DEF SparingAt, Exists, Group
  <1> DEFINE hit == \E n \in dropped : n[1] = j[1] /\ n[2] \in G
  <1>5. i \in Id /\ Exists(i)
    BY <1>1 DEF SparingAt, Merging
  <1>6. CASE ~ hit
    <2>1. j \in work[c].removed
      BY <1>4, <1>6
    <2>2. PICK t \in G : <<j[1], t>> \notin work[c].removed /\ Exists(<<j[1], t>>)
      BY <1>1, <2>1 DEF SparingAt
    <2>3. <<j[1], t>> \notin dropped
      BY <1>6
    <2> QED
      BY <1>4, <2>2, <2>3
  <1>7. CASE hit
    <2>1. i \notin work[c].removed /\ dropped \in Outcomes(i, Rivals(c, neighbours))
      BY <1>3, <1>7
    <2>2. PICK n \in dropped : n[1] = j[1] /\ n[2] \in G
      BY <1>7
    <2>3. n = i \/ n \in Close(i)
      BY <2>1, <2>2, <1>n, NeighboursClose, OutcomesBounded DEF Rivals
    <2>4. i[1] = j[1] /\ i[2] \in G
      <3>1. CASE n \in Close(i)
        <4>1. n[1] = i[1] /\ Cosine[i[2]][n[2]] >= MergeThreshold /\ n[2] \in Text /\ i[2] \in Text
          BY <1>5, <3>1 DEF Close, Id
        <4>2. Cosine[n[2]][i[2]] >= MergeThreshold
          BY <4>1, MemoryAssumption
        <4> QED
          BY <2>2, <4>1, <4>2 DEF Group
      <3> QED
        BY <2>2, <2>3, <3>1
    <2>5. i = <<i[1], i[2]>>
      BY <1>5 DEF Id
    <2>6. CASE i \notin dropped
      BY <1>4, <1>5, <2>1, <2>4, <2>5, <2>6
    <2>7. CASE \E winner \in Rivals(c, neighbours) : winner \notin dropped
      <3>1. PICK winner \in Rivals(c, neighbours) : winner \notin dropped
        BY <2>7
      <3>2. /\ winner \in Id /\ winner[1] = i[1] /\ Exists(winner)
            /\ Cosine[i[2]][winner[2]] >= MergeThreshold /\ winner \notin work[c].removed
        BY <3>1, <1>n, NeighboursClose DEF Rivals, Close, Visible, Live
      <3>3. winner = <<winner[1], winner[2]>> /\ winner[2] \in Text
        BY <3>2 DEF Id
      <3>4. winner[2] \in G
        BY <2>4, <3>2, <3>3 DEF Group
      <3> QED
        BY <1>4, <2>4, <3>1, <3>2, <3>3, <3>4
    <2>8. i \notin Rivals(c, neighbours)
      BY <1>n, NeighboursClose DEF Rivals, Close
    <2> QED
      BY <2>1, <2>6, <2>7, <2>8, OutcomesSpare
  <1> QED
    BY <1>6, <1>7

LEMMA SparingStep == Inv /\ Sparing /\ [Next]_vars => Sparing'
  <1> SUFFICES ASSUME Inv, Sparing, [Next]_vars PROVE Sparing'
    OBVIOUS
  <1>1. CASE UNCHANGED vars
    BY <1>1 DEF vars, memoryVars, Sparing, SparingAt, Exists
  <1>2. CASE Next
    <2>1. TypeOK /\ Working /\ Expiring /\ Carrying /\ Watch /\ Act
      BY <1>2 DEF Inv, TypeOK, Working, Next
    <2>2. PICK a \in Caller :
            \/ Step(a)
            \/ ConsolidateBegin(a) \/ Merge(a) \/ MergeApply(a) \/ Cold(a)
            \/ MoveBegin(a) \/ MoveEnd(a) \/ MoveRead(a) \/ MoveReadFails(a)
            \/ MoveWrite(a) \/ MoveDelete(a)
      BY <2>1 DEF Act
    <2> SUFFICES ASSUME NEW c \in Caller, work'[c].pc = "merge", calm'[c]
                 PROVE  SparingAt(c)'
      BY DEF Sparing, SparingAt
    <2>3. SparingAt(c)
      BY DEF Sparing
    <2>4. CASE work'[c] = work[c]
      <3>1. work[c] \in Merging /\ Watched(c) = Id
        BY <2>1, <2>4, KindOfCall DEF Watched, Merging
      <3>2. calm[c] /\ \A i \in Id : store'[i] = store[i]
        BY <2>1, <2>4, <3>1, CalmOf
      <3>3. work[c].known \subseteq Id /\ work[c].removed \subseteq Id
        BY <3>1 DEF Merging
      <3>4. \A i \in work[c].removed, t \in Text : <<i[1], t>> \in Id
        BY <3>3 DEF Id
      <3> QED
        BY <2>3, <2>4, <3>2, <3>3, <3>4 DEF SparingAt, Exists
    <2>5. CASE work'[c] # work[c]
      <3>1. Frame(a)
        BY <2>1, <2>2, StepsOrdinary, ConsolidationOwn, MoveMoving DEF Ordinary, Moving
      <3>2. a = c
        BY <2>5, <3>1 DEF Frame
      <3>3. work'[c] \in Merging
        <4>1. Working'
          BY <1>2, <2>1, ActTyped DEF TypeOK, Working
        <4> QED
          BY <4>1 DEF Working, Idle, Handling, Merging, Relocating
      <3>4. ConsolidateBegin(c) \/ Merge(c) \/ MergeApply(c) \/ Cold(c)
        BY <2>1, <2>2, <3>2, <3>3, StepsOrdinary, MoveMoving
           DEF Ordinary, Moving, Merging, Handling, FirstStep, Idle
      <3>5. CASE ConsolidateBegin(c)
        <4>1. PICK scope, cold :
                /\ scope \subseteq {i \in Id : Exists(i)}
                /\ Go(c, [op |-> "consolidate", pc |-> "merge", cold |-> cold,
                          known |-> {i \in Id : Exists(i)},
                          scope |-> scope, todo |-> scope, removed |-> {}])
          BY <3>5 DEF ConsolidateBegin
        <4>2. /\ work'[c].known = {i \in Id : Exists(i)} /\ work'[c].todo = scope
              /\ work'[c].removed = {}
          BY <2>1, <4>1 DEF Go, Working
        <4>3. UNCHANGED store
          BY <3>5 DEF ConsolidateBegin
        <4> QED
          BY <4>1, <4>2, <4>3 DEF SparingAt, Exists
      <3>6. CASE Merge(c)
        <4>1. work[c].pc = "merge"
          BY <3>6, Zenon DEF Merge, At
        <4>2. calm[c]
          BY <2>1, <4>1, CalmOf
        <4> QED
          BY <2>1, <2>3, <3>6, <4>2, MergeSpares
      <3>7. CASE MergeApply(c)
        <4>1. work[c] \in Merging
          BY <2>1, <3>7, KindOfCall DEF MergeApply, At
        <4> QED
          BY <2>1, <3>7, <4>1 DEF MergeApply, Answer, Go, GoTo, Idle, Working, Merging
      <3>8. CASE Cold(c)
        <4>1. Answer(c)
          BY <3>8, Zenon DEF Cold
        <4> QED
          BY <2>1, <4>1 DEF Answer, Go, Idle, Working
      <3> QED
        BY <3>4, <3>5, <3>6, <3>7, <3>8
    <2> QED
      BY <2>4, <2>5
  <1> QED
    BY <1>1, <1>2

\* A consolidation that nobody disturbs leaves in its library, of any group
\* closed under near-duplication, at least one point of those it deletes from.
\* (consolidate.rs, run.)
THEOREM MergesSpare == Spec => MergeKeepsOne
  <1>1. ASSUME Inv, Sparing, Next, NEW c \in Caller, work[c].pc = "merge",
               work'[c] # work[c], store' # store, calm[c],
               NEW i \in work[c].removed, NEW G \in SUBSET Text, i[2] \in G, Group(G)
        PROVE  \E t \in G : Exists(<<i[1], t>>)'
    <2>a. TypeOK /\ Working /\ Stored /\ Expiring /\ Carrying /\ work[c] \in Merging
      BY <1>1, KindOfCall DEF Inv, TypeOK, Working, Stored
    <2>1. PICK a \in Caller :
            \/ Step(a)
            \/ ConsolidateBegin(a) \/ Merge(a) \/ MergeApply(a) \/ Cold(a)
            \/ MoveBegin(a) \/ MoveEnd(a) \/ MoveRead(a) \/ MoveReadFails(a)
            \/ MoveWrite(a) \/ MoveDelete(a)
      BY <1>1 DEF Next, Act
    <2>2. Frame(a)
      BY <2>a, <2>1, StepsOrdinary, ConsolidationOwn, MoveMoving DEF Ordinary, Moving
    <2>3. a = c
      BY <1>1, <2>2 DEF Frame
    <2>4. Drop(work[c].removed)
      <3>1. CASE Step(c)
        <4>1. ~ (Begin(c) \/ Stop(c))
          BY <1>1 DEF Begin, Stop, Idle
        <4>0. ~ (JudgeFails(c) \/ NearestFails(c) \/ PromoteFails(c) \/ CheckFails(c))
          BY <1>1 DEF JudgeFails, NearestFails, PromoteFails, CheckFails, Swallow
        <4>2. ~ (Judge(c) \/ Nearest(c) \/ PromoteRead(c) \/ Promote(c) \/ Check(c) \/ Divert(c))
          BY <1>1 DEF Judge, Nearest, PromoteRead, Promote, Check, Divert, At
        <4>3. ~ (Write(c) \/ Archive(c) \/ RestoreRead(c) \/ Restore(c) \/ EditRead(c)
                 \/ Remove(c) \/ ExpireRead(c) \/ Expire(c))
          BY <1>1 DEF Write, Archive, RestoreRead, Restore, EditRead, Remove, ExpireRead,
            Expire, At
        <4> QED
          BY <3>1, <4>0, <4>1, <4>2, <4>3 DEF Step
      <3>2. ~ (ConsolidateBegin(c) \/ MoveBegin(c))
        BY <1>1 DEF ConsolidateBegin, MoveBegin
      <3>3. ~ (Merge(c) \/ MoveEnd(c) \/ MoveRead(c) \/ MoveReadFails(c))
        <4>1. Merge(c) \/ MoveEnd(c) \/ MoveRead(c) \/ MoveReadFails(c) => UNCHANGED store
          BY Zenon DEF Merge, MoveEnd, MoveRead, MoveReadFails, Swallow
        <4> QED
          BY <1>1, <4>1
      <3>4. ~ (Cold(c) \/ MoveWrite(c) \/ MoveDelete(c))
        <4>1. /\ Cold(c) => work[c].pc = "cold"
              /\ MoveWrite(c) => work[c].pc = "move_write"
              /\ MoveDelete(c) => work[c].pc = "move_delete"
          BY Zenon DEF Cold, MoveWrite, MoveDelete, At
        <4> QED
          BY <1>1, <4>1
      <3>5. MergeApply(c) => Drop(work[c].removed)
        BY Zenon DEF MergeApply
      <3> QED
        BY <2>1, <2>3, <3>1, <3>2, <3>3, <3>4, <3>5
    <2>5. PICK t \in G : <<i[1], t>> \notin work[c].removed /\ Exists(<<i[1], t>>)
      BY <1>1 DEF Sparing, SparingAt
    <2>6. <<i[1], t>> \in Id
      BY <1>1, <2>a DEF Merging, Id
    <2>7. store'[<<i[1], t>>] = store[<<i[1], t>>]
      BY <2>4, <2>5, <2>6 DEF Drop
    <2> QED
      BY <2>5, <2>7 DEF Exists
  <1>2. ASSUME Inv, Sparing, [Next]_vars
        PROVE  [\A c \in Caller :
                  work[c].pc = "merge" /\ work'[c] # work[c] /\ store' # store /\ calm[c] =>
                    \A i \in work[c].removed, G \in SUBSET Text :
                      i[2] \in G /\ Group(G) => \E t \in G : Exists(<<i[1], t>>)']_vars
    BY <1>1, <1>2
  <1> QED
    BY <1>2, InvInit, InvStep, SparingInit, SparingStep, PTL DEF Spec, MergeKeepsOne

-----------------------------------------------------------------------------
(* What an ingest leaves of the text it was offered, beside any number of  *)
(* other callers, moves and merges.                                        *)

\* What an ingest must leave kept.
Held(record) ==
  \/ record.was = "kept"
  \/ record.was = "quarantined" /\ record.id[2] \notin Wordless \ Weak

\* An undisturbed ingest leaves the point as it found it until it writes; of a
\* text that must stay kept it never reaches a write but the promotion, and past
\* the look at the quarantine such a text is kept.
OfferedAt(c) ==
  LET at(pcs) == work[c].pc \in pcs IN
  work[c].op = "ingest" =>
    /\ at({"judge", "promote_read", "promote", "nearest", "check", "divert", "write"})
    /\ calm[c] => work[c].was = State(work[c].id)
    /\ calm[c] /\ at({"promote"}) => Exists(work[c].id)
    /\ calm[c] /\ Held(work[c]) =>
         /\ at({"nearest"}) => work[c].was = "kept"
         /\ at({"check"}) => Live(work[c].id)
         /\ ~ at({"divert", "write"})
Offered == \A c \in Caller : OfferedAt(c)

LEMMA OfferedInit == Init => Offered
  BY DEF Init, Offered, OfferedAt, Idle

\* Going on changes nothing of a call but where it stands.
LEMMA GoToSame ==
  ASSUME Working, NEW c \in Caller, work[c].pc \in HandlingAt, NEW pc, GoTo(c, pc)
  PROVE  /\ work'[c].pc = pc
         /\ work'[c].op = work[c].op /\ work'[c].id = work[c].id /\ work'[c].was = work[c].was
         /\ Held(work'[c]) = Held(work[c])
  BY KindOfCall DEF GoTo, Working, Handling, Held

\* A step of an ordinary call keeps what is said of the ingests.
LEMMA OfferedOwn ==
  ASSUME TypeOK, Watch, NEW c \in Caller, OfferedAt(c), Step(c), work'[c] # work[c]
  PROVE  OfferedAt(c)'
  <1>a. Working
    BY DEF TypeOK, Working
  <1>b. work[c].pc \in HandlingAt => work[c] \in Handling
    BY <1>a, KindOfCall
  <1>1. CASE Begin(c)
    <2>1. PICK op \in DOMAIN FirstStep, id \in Id, old \in Id : Go(c, Beginning(c, op, id, old))
      BY <1>1 DEF Begin
    <2>2. /\ work'[c].op = op /\ work'[c].pc = FirstStep[op] /\ work'[c].id = id
          /\ work'[c].was = State(id)
      BY <1>a, <2>1, BeginningHandling DEF Go, Working
    <2>3. State(id)' = State(id)
      BY <1>1 DEF Begin, State, Exists, Quarantined
    <2>4. op = "ingest" => FirstStep[op] = "judge"
      BY DEF FirstStep
    <2> QED
      BY <2>2, <2>3, <2>4 DEF OfferedAt
  <1>2. ASSUME Answer(c) PROVE OfferedAt(c)'
    BY <1>a, <1>2 DEF Answer, Go, Working, OfferedAt, Idle
  <1>3. CASE Judge(c)
    <2>1. work[c].pc = "judge" /\ UNCHANGED store /\ work[c] \in Handling
      BY <1>3, <1>b DEF Judge, At, HandlingAt
    <2>2. PICK verdict \in Verdicts(work[c].id) :
            GoTo(c, IF verdict = "quarantine" THEN "promote_read" ELSE "nearest")
      BY <1>3 DEF Judge
    <2>3. work[c].was = State(work[c].id) /\ Held(work[c]) /\ verdict # "quarantine" =>
            work[c].was = "kept"
      <3>1. work[c].id = <<work[c].id[1], work[c].id[2]>> /\ work[c].id[2] \in Text
        BY <2>1 DEF Handling, Id
      <3>2. ~ Exists(work[c].id) => State(work[c].id) = "absent"
        BY DEF State
      <3>3. Exists(work[c].id) => verdict = "quarantine" \/ work[c].id[2] \in Wordless \ Weak
        BY <2>2, <3>1 DEF Verdicts
      <3> QED
        BY <2>2, <3>2, <3>3 DEF Held
    <2>4. /\ work'[c].pc = IF verdict = "quarantine" THEN "promote_read" ELSE "nearest"
          /\ work'[c].op = work[c].op /\ work'[c].id = work[c].id /\ work'[c].was = work[c].was
          /\ Held(work'[c]) = Held(work[c])
      BY <1>a, <2>1, <2>2, GoToSame DEF HandlingAt
    <2>5. calm'[c] => calm[c]
      BY <2>1, CalmOf DEF HandlingAt
    <2>6. State(work[c].id)' = State(work[c].id)
      BY <2>1, <2>4 DEF State, Exists, Quarantined
    <2> QED
      BY <2>1, <2>3, <2>4, <2>5, <2>6 DEF OfferedAt
  <1>4. CASE Nearest(c)
    <2>1. work[c].pc = "nearest" /\ UNCHANGED store /\ work[c] \in Handling
      BY <1>4, <1>b DEF Nearest, At, HandlingAt
    <2>2. PICK pc \in {"check", "write"} : GoTo(c, pc) /\ (Exists(work[c].id) => pc = "check")
      <3>1. work[c].id = <<work[c].id[1], work[c].id[2]>> /\ work[c].id[2] \in Text
        BY <2>1 DEF Handling, Id
      <3>2. Cosine[work[c].id[2]][work[c].id[2]] >= DedupThreshold
        BY <3>1, MemoryAssumption DEF DedupThreshold
      <3> QED
        BY <1>4, <3>1, <3>2 DEF Nearest
    <2>3. calm'[c] => calm[c]
      BY <2>1, CalmOf DEF HandlingAt
    <2>4. /\ work'[c].pc = pc
          /\ work'[c].op = work[c].op /\ work'[c].id = work[c].id /\ work'[c].was = work[c].was
          /\ Held(work'[c]) = Held(work[c])
      BY <1>a, <2>1, <2>2, GoToSame DEF HandlingAt
    <2>5. /\ State(work[c].id)' = State(work[c].id)
          /\ State(work[c].id) = "kept" => Exists(work[c].id) /\ Live(work[c].id)'
      BY <2>1, <2>4 DEF State, Exists, Quarantined, Live
    <2> QED
      BY <2>1, <2>2, <2>3, <2>4, <2>5 DEF OfferedAt
  <1>5. CASE PromoteRead(c)
    <2>1. work[c].pc = "promote_read" /\ UNCHANGED store
      BY <1>5 DEF PromoteRead, At
    <2>2. CASE Answer(c)
      BY <1>2, <2>2
    <2>3. ASSUME NEW pc \in {"promote", "check"}, GoTo(c, pc), pc = "promote" <=> Quarantined(work[c].id)
          PROVE  OfferedAt(c)'
      <3>1. /\ work'[c].pc = pc
            /\ work'[c].op = work[c].op /\ work'[c].id = work[c].id /\ work'[c].was = work[c].was
            /\ Held(work'[c]) = Held(work[c])
        BY <1>a, <2>1, <2>3, GoToSame DEF HandlingAt
      <3>2. calm'[c] => calm[c]
        BY <2>1, CalmOf DEF HandlingAt
      <3>3. /\ State(work[c].id)' = State(work[c].id)
            /\ State(work[c].id) = "kept" => Live(work[c].id)'
            /\ State(work[c].id) = "quarantined" => Quarantined(work[c].id)
            /\ Quarantined(work[c].id) => Exists(work[c].id)'
        BY <2>1, <3>1 DEF State, Exists, Quarantined, Live
      <3> QED
        BY <2>1, <2>3, <3>1, <3>2, <3>3 DEF OfferedAt, Held
    <2> QED
      BY <1>5, <2>2, <2>3 DEF PromoteRead
  <1>6. CASE Check(c)
    <2>1. work[c].pc = "check" /\ UNCHANGED store
      BY <1>6 DEF Check, At
    <2>2. CASE Answer(c)
      BY <1>2, <2>2
    <2>3. CASE GoTo(c, "divert") /\ ~ Live(work[c].id)
      <3>1. /\ work'[c].pc = "divert"
            /\ work'[c].op = work[c].op /\ work'[c].id = work[c].id /\ work'[c].was = work[c].was
            /\ Held(work'[c]) = Held(work[c])
        BY <1>a, <2>1, <2>3, GoToSame DEF HandlingAt
      <3>2. calm'[c] => calm[c]
        BY <2>1, CalmOf DEF HandlingAt
      <3>3. State(work[c].id)' = State(work[c].id)
        BY <2>1, <3>1 DEF State, Exists, Quarantined
      <3> QED
        BY <2>1, <2>3, <3>1, <3>2, <3>3 DEF OfferedAt
    <2> QED
      BY <1>6, <2>2, <2>3 DEF Check
  <1>7. CASE JudgeFails(c) \/ NearestFails(c) \/ PromoteFails(c) \/ CheckFails(c)
    <2>1. PICK pc \in {"judge", "nearest", "promote_read", "promote", "check"},
              next \in {"nearest", "write", "check", "divert"} :
            work[c].pc = pc /\ GoTo(c, next) /\ faults' = faults + 1
      BY <1>7 DEF JudgeFails, NearestFails, PromoteFails, CheckFails, Swallow
    <2>2. ~ calm'[c]
      BY <2>1, CalmOf DEF HandlingAt, TypeOK
    <2> QED
      BY <1>a, <2>1, <2>2, GoToSame DEF OfferedAt, HandlingAt
  <1>8. CASE Write(c)
    <2>1. work[c].pc = "write" /\ (Answer(c) \/ (work[c].op = "edit" /\ GoTo(c, "remove")))
      BY <1>8 DEF Write, At
    <2> QED
      BY <1>a, <1>2, <2>1, GoToSame DEF OfferedAt, HandlingAt
  <1>9. CASE ExpireRead(c) \/ RestoreRead(c)
    <2>1. /\ work[c].pc \in {"expire_read", "restore_read"}
          /\ Answer(c) \/ \E pc : GoTo(c, pc)
      BY <1>9 DEF ExpireRead, RestoreRead, At
    <2>2. work[c].op # "ingest"
      BY <2>1 DEF OfferedAt
    <2> QED
      BY <1>a, <1>2, <2>1, <2>2, GoToSame DEF OfferedAt, HandlingAt
  <1>10. CASE EditRead(c)
    <2>1. work[c].op # "ingest"
      BY <1>10 DEF EditRead, At, OfferedAt
    <2>2. ASSUME NEW record \in Handling, Go(c, record), record.op = work[c].op
          PROVE  OfferedAt(c)'
      BY <1>a, <2>1, <2>2 DEF Go, Working, OfferedAt
    <2> QED
      BY <1>2, <1>10, <2>2, EditReadHandling
  <1>11. CASE \/ Stop(c) \/ Promote(c) \/ Divert(c) \/ Expire(c)
              \/ Archive(c) \/ Restore(c) \/ Remove(c)
    BY <1>2, <1>11 DEF Stop, Promote, Divert, Expire, Archive, Restore, Remove
  <1> QED
    BY <1>1, <1>3, <1>4, <1>5, <1>6, <1>7, <1>8, <1>9, <1>10, <1>11 DEF Step

LEMMA OfferedStep == Inv /\ Offered /\ [Next]_vars => Offered'
  <1> SUFFICES ASSUME Inv, Offered, [Next]_vars PROVE Offered'
    OBVIOUS
  <1>1. CASE UNCHANGED vars
    BY <1>1 DEF vars, memoryVars, Offered, OfferedAt, Held, State, Exists, Live, Quarantined
  <1>2. CASE Next
    <2>1. TypeOK /\ Working /\ Expiring /\ Carrying /\ Watch /\ Act
      BY <1>2 DEF Inv, TypeOK, Working, Next
    <2>2. PICK a \in Caller :
            \/ Step(a)
            \/ ConsolidateBegin(a) \/ Merge(a) \/ MergeApply(a) \/ Cold(a)
            \/ MoveBegin(a) \/ MoveEnd(a) \/ MoveRead(a) \/ MoveReadFails(a)
            \/ MoveWrite(a) \/ MoveDelete(a)
      BY <2>1 DEF Act
    <2> SUFFICES ASSUME NEW c \in Caller PROVE OfferedAt(c)'
      BY DEF Offered
    <2>3. Frame(a) /\ (Step(a) \/ work'[a].op # "ingest")
      BY <2>1, <2>2, StepsOrdinary, ConsolidationOwn, MoveMoving DEF Ordinary, Moving
    <2>4. CASE work'[c] # work[c]
      <3>1. c = a
        BY <2>3, <2>4 DEF Frame
      <3> QED
        BY <2>1, <2>3, <2>4, <3>1, OfferedOwn DEF Offered, OfferedAt
    <2>5. CASE work'[c] = work[c] /\ work[c].op = "ingest"
      <3>1. OfferedAt(c)
        BY DEF Offered
      <3>2. work[c].pc \in HandlingAt /\ work[c].id \in Watched(c)
        BY <2>5, <3>1 DEF OfferedAt, HandlingAt, Watched
      <3>3. calm'[c] => calm[c] /\ store'[work[c].id] = store[work[c].id]
        BY <2>1, <2>5, <3>2, CalmOf DEF HandlingAt
      <3> QED
        BY <2>5, <3>1, <3>3 DEF OfferedAt, Held, State, Exists, Live, Quarantined
    <2> QED
      BY <2>4, <2>5 DEF OfferedAt
  <1> QED
    BY <1>1, <1>2

-----------------------------------------------------------------------------
(* How an ingest ends.                                                     *)

LEMMA IngestEnds ==
  ASSUME Inv, Offered, Next, NEW c \in Caller, Ends(c), work[c].op = "ingest"
  PROVE  \/ Promote(c) /\ work[c].pc = "promote"
         \/ Live(work[c].id) /\ UNCHANGED store
         \/ Divert(c) /\ work[c].pc = "divert"
         \/ Write(c) /\ work[c].pc = "write"
  <1>a. TypeOK /\ Working /\ Expiring /\ Carrying /\ OfferedAt(c)
    BY DEF Inv, TypeOK, Working, Offered
  <1>b. work[c].pc \in {"judge", "promote_read", "promote", "nearest", "check", "divert", "write"}
    BY <1>a DEF OfferedAt
  <1>c. work[c].pc \in HandlingAt /\ work[c] \in Handling
    BY <1>a, <1>b, KindOfCall DEF HandlingAt
  <1>1. PICK a \in Caller :
          \/ Step(a)
          \/ ConsolidateBegin(a) \/ Merge(a) \/ MergeApply(a) \/ Cold(a)
          \/ MoveBegin(a) \/ MoveEnd(a) \/ MoveRead(a) \/ MoveReadFails(a)
          \/ MoveWrite(a) \/ MoveDelete(a)
    BY DEF Next, Act
  <1>2. Frame(a)
    BY <1>a, <1>1, StepsOrdinary, ConsolidationOwn, MoveMoving DEF Ordinary, Moving
  <1>3. a = c
    BY <1>2 DEF Frame, Ends
  <1>4. ASSUME NEW pc \in HandlingAt, GoTo(c, pc) PROVE FALSE
    BY <1>a, <1>c, <1>4, GoToSame DEF Ends, Idle, HandlingAt
  <1>5. Step(c)
    <2>1. ~ (ConsolidateBegin(c) \/ MoveBegin(c))
      BY DEF ConsolidateBegin, MoveBegin, Ends
    <2>2. ~ (Merge(c) \/ MergeApply(c) \/ Cold(c))
      <3>1. Merge(c) => work[c].pc = "merge"
        BY Zenon DEF Merge, At
      <3>2. MergeApply(c) => work[c].pc = "merge"
        BY Zenon DEF MergeApply, At
      <3>3. Cold(c) => work[c].pc = "cold"
        BY Zenon DEF Cold, At
      <3> QED
        BY <1>b, <3>1, <3>2, <3>3
    <2>3. ~ (MoveEnd(c) \/ MoveRead(c) \/ MoveReadFails(c))
      <3>1. MoveEnd(c) \/ MoveRead(c) \/ MoveReadFails(c) => work[c].pc = "pick"
        BY Zenon DEF MoveEnd, MoveRead, MoveReadFails, Swallow, At
      <3> QED
        BY <1>b, <3>1
    <2>4. ~ (MoveWrite(c) \/ MoveDelete(c))
      <3>1. MoveWrite(c) => work[c].pc = "move_write"
        BY Zenon DEF MoveWrite, At
      <3>2. MoveDelete(c) => work[c].pc = "move_delete"
        BY Zenon DEF MoveDelete, At
      <3> QED
        BY <1>b, <3>1, <3>2
    <2> QED
      BY <1>1, <1>3, <2>1, <2>2, <2>3, <2>4
  <1>6. ~ (Begin(c) \/ Stop(c) \/ JudgeFails(c) \/ NearestFails(c) \/ PromoteFails(c) \/ CheckFails(c))
    BY <1>a DEF Begin, Stop, JudgeFails, NearestFails, PromoteFails, CheckFails, Swallow, Ends, TypeOK
  <1>7. ~ (ExpireRead(c) \/ Expire(c) \/ Archive(c) \/ RestoreRead(c) \/ Restore(c)
           \/ EditRead(c) \/ Remove(c))
    BY <1>b DEF ExpireRead, Expire, Archive, RestoreRead, Restore, EditRead, Remove, At
  <1>8. ~ (Judge(c) \/ Nearest(c) \/ PromoteRead(c))
    BY <1>4 DEF Judge, Nearest, PromoteRead, HandlingAt
  <1>9. Check(c) => Live(work[c].id) /\ UNCHANGED store
    BY <1>4 DEF Check, HandlingAt
  <1>10. /\ Promote(c) => work[c].pc = "promote"
         /\ Divert(c) => work[c].pc = "divert"
         /\ Write(c) => work[c].pc = "write"
    BY DEF Promote, Divert, Write, At
  <1> QED
    BY <1>5, <1>6, <1>7, <1>8, <1>9, <1>10 DEF Step

\* A promotion of a point that is there leaves it kept.
LEMMA PromoteKeeps ==
  ASSUME Stored, NEW c \in Caller, NEW id \in Id, id = work[c].id, Exists(id), Promote(c)
  PROVE  Live(id)'
  <1> DEFINE promoted == [store[id] EXCEPT !["quarantined"] = FALSE]
  <1>1. promoted \in Point /\ ~ promoted.quarantined
    BY DEF Stored, Exists, Point
  <1>2. store'[id] = promoted
    BY DEF Promote, Flag
  <1> HIDE DEF promoted
  <1>3. store'[id] # None /\ ~ store'[id].quarantined
    BY <1>1, <1>2, MemoryAssumption
  <1> QED
    BY <1>3 DEF Live, Exists, Quarantined

LEMMA UpsertLeaves ==
  ASSUME Stored, NEW id \in Id, NEW point \in Point, Put(id, point)
  PROVE  Exists(id)'
  BY MemoryAssumption DEF Stored, Put, Exists

LEMMA InvOffered == Spec => [](Inv /\ Offered)
  BY InvInit, InvStep, OfferedInit, OfferedStep, PTL DEF Spec

-----------------------------------------------------------------------------
(* The theorems.                                                           *)

\* Offering a text again never demotes it, and promotes one from the quarantine,
\* unless the gate finds nothing in it to compare.  (ingest.rs,
\* run_ingest_authored.)
THEOREM RepetitionPromotes == Spec => ReassertionEndsKept
  <1>1. ASSUME Inv, Offered, Next, NEW c \in Caller, Ends(c), calm[c],
               work[c].op = "ingest", NEW i \in Id, i = work[c].id,
               \/ work[c].was = "kept"
               \/ work[c].was = "quarantined" /\ i[2] \notin Wordless \ Weak
        PROVE  Live(i)'
    <2>1. OfferedAt(c) /\ Stored /\ Held(work[c])
      BY <1>1 DEF Inv, TypeOK, Offered, Stored, Held
    <2>2. \/ Promote(c)
          \/ Live(i) /\ UNCHANGED store
      BY <1>1, <2>1, IngestEnds DEF OfferedAt
    <2>3. Exists(i)
      BY <1>1, <2>1 DEF OfferedAt, State
    <2> QED
      BY <1>1, <2>1, <2>2, <2>3, PromoteKeeps DEF Live, Exists, Quarantined
  <1>2. ASSUME Inv, Offered, [Next]_vars
        PROVE  [\A c \in Caller :
                  Ends(c) /\ calm[c] /\ work[c].op = "ingest" =>
                    \A i \in Id :
                      /\ i = work[c].id
                      /\ \/ work[c].was = "kept"
                         \/ work[c].was = "quarantined" /\ i[2] \notin Wordless \ Weak
                      => Live(i)']_vars
    BY <1>1, <1>2
  <1> QED
    BY <1>2, InvOffered, PTL DEF Spec, ReassertionEndsKept

\* A point that is there is in sight of all readers or of none, and in a list.
LEMMA PointsAreFindable ==
  ASSUME NEW id \in Id, Exists(id)'
  PROVE  Findable(id)'
  <1> DEFINE held == store'[id].quarantined
             gone == store'[id].archived
  <1>1. id[1] \in Library
    BY DEF Id
  <1>2. CASE ~held /\ ~gone
    <2>1. \A libraries : libraries = {} \/ id[1] \in libraries => id \in Matching("exclude", libraries)'
      BY <1>2 DEF Matching, Live, Quarantined, Exists
    <2> QED
      BY <2>1 DEF Findable, Shown, Searched, Browsed, OfLibrary, Recent, ByAuthor
  <1>3. ASSUME held \/ gone PROVE Hidden(id)'
    <2>1. \A libraries : id \notin Matching("exclude", libraries)'
      BY <1>3 DEF Matching, Live, Quarantined, Exists
    <2> QED
      BY <2>1 DEF Hidden, Searched, Browsed, OfLibrary, Recent, ByAuthor
  <1>4. CASE held
    <2>1. id \in InQuarantine(id[1])'
      BY <1>4 DEF InQuarantine, Quarantined, Exists
    <2> QED
      BY <1>3, <1>4, <2>1 DEF Findable
  <1>5. CASE ~held /\ gone
    <2>1. id \in Browsed("only", {id[1]})'
      BY <1>5 DEF Browsed, Matching, Live, Quarantined, Exists
    <2> QED
      BY <1>3, <1>5, <2>1 DEF Findable
  <1> QED
    BY <1>2, <1>4, <1>5

\* What is offered ends in sight, or in a list to be brought back from.
\* (ingest.rs, run_ingest_authored.)
THEOREM OffersAreKept == Spec => OfferedIsFindable
  <1>1. ASSUME Inv, Offered, Next, NEW c \in Caller, Ends(c), calm[c],
               work[c].op = "ingest", NEW i \in Id, i = work[c].id
        PROVE  Exists(i)'
    <2>1. OfferedAt(c) /\ Stored
      BY <1>1 DEF Inv, TypeOK, Offered, Stored
    <2>2. CASE Promote(c) /\ work[c].pc = "promote"
      <3>1. Exists(i)
        BY <1>1, <2>1, <2>2 DEF OfferedAt
      <3> QED
        BY <1>1, <2>1, <2>2, <3>1, PromoteKeeps DEF Live
    <2>3. CASE Live(i) /\ UNCHANGED store
      BY <2>3 DEF Live, Exists
    <2>4. CASE Divert(c) \/ Write(c)
      <3>1. Divert(c) => Exists(i)'
        BY <1>1, <2>1, UpsertLeaves, FreshPoint DEF Divert
      <3>2. ASSUME Write(c) PROVE Exists(i)'
        <4>1. Fresh(work[c].author, work[c].op = "ingest") \in Point
          BY <1>1, <3>2, WriteFresh DEF Inv
        <4> QED
          BY <1>1, <2>1, <3>2, <4>1, UpsertLeaves DEF Write
      <3> QED
        BY <2>4, <3>1, <3>2
    <2> QED
      BY <1>1, <2>2, <2>3, <2>4, IngestEnds
  <1>2. ASSUME Inv, Offered, [Next]_vars
        PROVE  [\A c \in Caller :
                  Ends(c) /\ calm[c] /\ work[c].op = "ingest" =>
                    \A i \in Id : i = work[c].id => Findable(i)']_vars
    BY <1>1, <1>2, PointsAreFindable
  <1> QED
    BY <1>2, InvOffered, PTL DEF Spec, OfferedIsFindable

=============================================================================
