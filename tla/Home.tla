-------------------------------- MODULE Home --------------------------------
(***************************************************************************)
(* The data directory with everyone who uses it: sessions, audit log,      *)
(* access journal, blocks, keys, vault, in one specification of the calls.  *)
(***************************************************************************)
EXTENDS Sessions, AuditLog, HomeFiles, Vault

CONSTANT
  Mixes \* bound: which operations a behaviour is made of, and whose calls

VARIABLE mix

vars == <<mix, callVars, sessionVars, auditVars, fileVars, vaultVars>>

\* A terminal is a process that has not read anything yet.
FreshFiles(c) == IF c \in Terminal THEN FilesForget(c) ELSE UNCHANGED fileVars

Call ==
  (UNION {SessionCall(agent) : agent \in Agent})
    \cup {AuditCall("change"), AuditCall("reanchor")} \cup FileCall \cup VaultCall

\* Which tools there are: acknowledging breaks, moving memories to another
\* library, consolidating and the vault are commands, keys are the HTTP server's.
Begin(c) ==
  /\ \E call \in Call :
       /\ call.op \in mix.ops /\ c \in mix.by
       /\ call \in VaultCall \/ call.op \in {"reanchor", "rekey", "consolidate"} => c \in Terminal
       /\ call.op = "kv" => c \in Task
       /\ Takes(c, call)
  /\ FreshFiles(c)
  /\ UNCHANGED <<mix, files, pointer, beat, clock, warm>> /\ UNCHANGED <<auditVars, vaultVars>>
  /\ RememberCalm(c)

Work(c) ==
  /\ \/ SessionStep(c) /\ UNCHANGED <<auditVars, fileVars, vaultVars>>
     \/ AuditStep(c) /\ UNCHANGED <<files, pointer, beat, clock, warm, fileVars, vaultVars>>
     \/ /\ AccessStep(c) \/ BlockStep(c)
        /\ UNCHANGED <<files, pointer, beat, clock, warm, auditVars, vaultVars>>
     \/ VaultStep(c) /\ UNCHANGED <<files, pointer, beat, clock, warm, auditVars, fileVars>>
  /\ UNCHANGED mix /\ RememberCalm(c)

Background ==
  /\ FlushStep
  /\ UNCHANGED <<mix, callVars, sessionVars, auditVars, vaultVars>>

\* Killed, or at the end of its client.
Death(p) ==
  /\ \E c \in mix.by : ProcessOf(c) = p
  /\ Dies(p) /\ AuditDies(p) /\ FilesForget(p)
  /\ UNCHANGED <<mix, files, pointer, beat, clock, warm, vaultVars>>
  /\ RememberCalm(None)

Erase ==
  /\ faults < MaxFaults /\ faults' = faults + 1
  /\ EraseFile
  /\ UNCHANGED <<mix, work, calls, auditVars, fileVars, vaultVars>> /\ RememberCalm(None)

\* Only sessions tell the time.
Time == "start" \in mix.ops /\ Tick /\ UNCHANGED <<mix, callVars, auditVars, fileVars, vaultVars>>

Init == mix \in Mixes /\ CallsInit /\ SessionInit /\ AuditInit /\ FilesInit /\ VaultInit

Next ==
  \/ \E c \in Caller : Begin(c) \/ Work(c)
  \/ \E p \in Process : Death(p)
  \/ Background \/ Erase \/ Time

Spec == Init /\ [][Next]_vars

\* The state is well typed, and each call in hand is one of its kind.
TypeOK ==
  /\ SessionTypeOK /\ AuditTypeOK /\ FilesTypeOK /\ VaultTypeOK
  /\ calls \in 0 .. MaxCalls /\ faults \in 0 .. MaxFaults
  /\ \A c \in Caller :
       work[c] \in {Idle, Warming} \cup Starting \cup Ending \cup Stamping \cup Opening
         \/ work[c].op \in {"change", "reanchor", "search", "rekey", "consolidate", "block", "kv"}

=============================================================================
