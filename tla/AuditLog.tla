------------------------------ MODULE AuditLog ------------------------------
(***************************************************************************)
(* The audit log (src/src/audit.rs): one line per change, each carrying    *)
(* the hash of the line before it.  All processes append to the one file,  *)
(* under a lock of the operating system.                                   *)
(*                                                                         *)
(* A line is the pieces written to it, in order; more than one when a      *)
(* process died within a line and the next wrote on after it.  The hash of *)
(* a line is its place and how many pieces it has: lines differ, and only  *)
(* grow.                                                                   *)
(***************************************************************************)
EXTENDS Calls

CONSTANT
  Legacy \* how many breaks the log has from before the lock was there

ASSUME LegacyAssumption == Legacy \in Nat

VARIABLES
  log,   \* the lines
  ended, \* whether the last line has its newline
  lock,  \* who holds audit.log.lock, or None
  torn   \* history: a process died within a line

auditVars == <<log, ended, lock, torn>>

\* event: which call recorded it; acks: the breaks a reanchor acknowledges.
Hash == Nat \X Nat
Piece == [event : Nat, prev : {None} \cup Hash, acks : SUBSET Nat,
          part : {"whole", "cut", "bytes"}]

Readable(line) == Len(line) = 1 /\ line[1].part = "whole"
\* A character cut in two makes the file no text any more.
IsText == \A i \in DOMAIN log : \A j \in DOMAIN log[i] : log[i][j].part # "bytes"

\* seed_last_hash: of a file that is no text, None.
Tip == IF log = << >> \/ ~IsText THEN None ELSE <<Len(log), Len(log[Len(log)])>>

\* verify_path: a file that is no text has no lines.
Checked == IF IsText THEN {i \in DOMAIN log : Readable(log[i])} ELSE {}
Breaks ==
  {i \in Checked \ {1} : log[i][1].prev # None /\ log[i][1].prev # <<i - 1, Len(log[i - 1])>>}
Acknowledged == UNION {log[i][1].acks : i \in Checked}

-----------------------------------------------------------------------------
(* Appending.                                                              *)

Recording ==
  [op : {"change", "reanchor"}, pc : {"verify", "lock", "tip", "line", "newline"},
   event : 1 .. MaxCalls, prev : {None} \cup Hash, acks : SUBSET Nat]

AuditCall(op) ==
  [op |-> op, pc |-> IF op = "change" THEN "lock" ELSE "verify", event |-> calls + 1,
   prev |-> None, acks |-> {}]

Audits(c, pc) == work[c].op \in {"change", "reanchor"} /\ work[c].pc = pc

\* Mutant of Reanchor: the first break is acknowledged, as it was reported.
ReanchorFirst(c) ==
  /\ Audits(c, "verify")
  /\ LET open == Breaks \ Acknowledged
     IN  IF open = {} THEN Answer(c)
         ELSE Go(c, [work[c] EXCEPT !.pc = "lock", !.acks = {CHOOSE i \in open : \A j \in open : i <= j}])
  /\ UNCHANGED auditVars

\* Refused when there is nothing to explain.
Reanchor(c) ==
  /\ Audits(c, "verify")
  /\ LET open == Breaks \ Acknowledged
     IN  IF open = {} THEN Answer(c) ELSE Go(c, [work[c] EXCEPT !.pc = "lock", !.acks = open])
  /\ UNCHANGED auditVars

\* Mutant of AppendLock: the tip is the one the process last knew.
AppendLockKnown(c) ==
  /\ Audits(c, "lock")
  /\ Go(c, [work[c] EXCEPT !.pc = "line", !.prev = Tip])
  /\ lock' = lock
  /\ UNCHANGED <<log, ended, torn>>

\* AUDIT_LOCK and the lock file together: one writer of all.
AppendLock(c) ==
  /\ Audits(c, "lock") /\ lock = None
  /\ lock' = c /\ GoTo(c, "tip")
  /\ UNCHANGED <<log, ended, torn>>

\* The last line there is, read afresh.
AppendTip(c) ==
  /\ Audits(c, "tip")
  /\ Go(c, [work[c] EXCEPT !.pc = "line", !.prev = Tip])
  /\ UNCHANGED auditVars

PieceOf(c, part) ==
  [event |-> work[c].event, prev |-> work[c].prev, acks |-> work[c].acks, part |-> part]
\* The file is open for append: after a line without an end, the same line goes on.
Written(c, part) ==
  IF ended \/ log = << >> THEN Append(log, <<PieceOf(c, part)>>)
  ELSE [log EXCEPT ![Len(log)] = Append(@, PieceOf(c, part))]

\* writeln! writes the line and its newline apart.
AppendLine(c) ==
  /\ Audits(c, "line")
  /\ log' = Written(c, "whole") /\ ended' = FALSE
  /\ GoTo(c, "newline")
  /\ UNCHANGED <<lock, torn>>

AppendNewline(c) ==
  /\ Audits(c, "newline")
  /\ ended' = TRUE /\ lock' = IF lock = c THEN None ELSE lock
  /\ Answer(c)
  /\ UNCHANGED <<log, torn>>

AuditStep(c) ==
  Reanchor(c) \/ AppendLock(c) \/ AppendTip(c) \/ AppendLine(c) \/ AppendNewline(c)

\* The lock goes with the process that holds it; part of its line may be there.
AuditDies(p) ==
  LET holds == lock # None /\ ProcessOf(lock) = p
  IN  /\ lock' = IF holds THEN None ELSE lock
      /\ torn' = (torn \/ (holds /\ work[lock].pc \in {"line", "newline"}))
      /\ \/ UNCHANGED <<log, ended>>
         \/ /\ holds /\ work[lock].pc = "line" /\ ended' = FALSE
            /\ \E part \in {"cut", "bytes"} : log' = Written(lock, part)

\* Each legacy break is a line whose link is to one long superseded.
AuditInit ==
  /\ log = [i \in 1 .. Legacy + 1 |->
       <<[event |-> 0, prev |-> IF i = 1 THEN None ELSE <<0, 0>>, acks |-> {}, part |-> "whole"]>>]
  /\ ended = TRUE /\ lock = None /\ torn = FALSE

-----------------------------------------------------------------------------
(* Properties.                                                             *)

AuditTypeOK ==
  /\ log \in Seq(Seq(Piece)) /\ ended \in BOOLEAN
  /\ lock \in {None} \cup Caller /\ torn \in BOOLEAN

\* However many processes append at once, and wherever one dies: the only
\* breaks verify ever reports are the ones from before the lock.
NoNewBreak == Breaks \subseteq 2 .. Legacy + 1

\* After a reanchor, and until a line is torn, no break is unexplained.
ReanchorSettles ==
  (\E i \in Checked : log[i][1].acks # {}) /\ ~torn => Breaks \subseteq Acknowledged

=============================================================================
