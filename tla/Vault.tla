------------------------------- MODULE Vault -------------------------------
(***************************************************************************)
(* The vault of secrets (src/src/vault.rs): one file, encrypted with a key *)
(* derived from a password and a salt that is a file of its own.  Commands *)
(* at terminals read and write both, and nothing is locked.                *)
(***************************************************************************)
EXTENDS Calls

CONSTANTS
  Secret,  \* names of secrets
  Password \* what is typed


VARIABLES
  salt,  \* vault.salt, by the call that drew it, or None
  vault, \* vault.enc: the key it is encrypted with and the secrets in it, or None
  raced  \* history: two commands were founding the vault at once

vaultVars == <<salt, vault, raced>>

Salt == 1 .. MaxCalls
Key == [password : Password, salt : Salt]
Sealed == [key : Key, secrets : SUBSET Secret]

ASSUME VaultAssumption == None \notin Password \cup Sealed

Opening ==
  [op : {"store", "retrieve", "list", "delete"}, secret : Secret, call : 1 .. MaxCalls,
   pc : {"prompt", "look", "salt", "make", "load", "save"},
   password : {None} \cup Password, key : {None} \cup Key, secrets : SUBSET Secret]

VaultCall ==
  {[op |-> op, secret |-> secret, call |-> calls + 1, pc |-> "prompt",
    password |-> None, key |-> None, secrets |-> {}] :
     op \in {"store", "retrieve", "list", "delete"}, secret \in Secret}

Opens(c, pc) == work[c].op \in {"store", "retrieve", "list", "delete"} /\ work[c].pc = pc

-----------------------------------------------------------------------------

\* Without a vault there is nothing to list.  A first password is asked for
\* twice, and may be mistyped.  Only reading makes sure that there is a vault
\* before it asks for its salt.
Prompt(c) ==
  /\ Opens(c, "prompt")
  /\ \/ work[c].op = "list" /\ vault = None /\ Answer(c)
     \/ work[c].op = "store" /\ salt = None /\ Answer(c)
     \/ \E password \in Password :
          /\ work[c].op = "list" => vault # None
          /\ Go(c, [work[c] EXCEPT !.password = password,
                                   !.pc = IF work[c].op \in {"store", "delete"} THEN "salt" ELSE "look"])
  /\ UNCHANGED vaultVars

Look(c) ==
  /\ Opens(c, "look")
  /\ IF vault = None THEN Answer(c) ELSE GoTo(c, "salt")
  /\ UNCHANGED vaultVars

Derived(c, drawn) == [work[c] EXCEPT !.pc = "load", !.key = [password |-> work[c].password, salt |-> drawn]]

\* get_or_create_salt: the one there is, or one drawn and written.
ReadSalt(c) ==
  /\ Opens(c, "salt")
  /\ Go(c, IF salt = None THEN [work[c] EXCEPT !.pc = "make"] ELSE Derived(c, salt))
  /\ raced' = (raced \/ (vault = None /\ \E d \in Caller \ {c}, pc \in {"make", "load", "save"} : Opens(d, pc)))
  /\ UNCHANGED <<salt, vault>>

MakeSalt(c) ==
  /\ Opens(c, "make")
  /\ salt' = work[c].call
  /\ Go(c, Derived(c, work[c].call))
  /\ UNCHANGED <<vault, raced>>

\* Mutant of Decrypted: a vault that does not open is an empty one.
DecryptedOrDefault(c) ==
  IF vault # None /\ vault.key = work[c].key THEN vault.secrets ELSE {}

\* load_vault_with_key: nothing yet, or what the key opens, or None.
Decrypted(c) ==
  IF vault = None THEN {} ELSE IF vault.key = work[c].key THEN vault.secrets ELSE None

\* Deleting a secret that is not there writes nothing.
Load(c) ==
  /\ Opens(c, "load")
  /\ LET secrets == Decrypted(c)
     IN  IF secrets # None /\ work[c].op = "store"
         THEN Go(c, [work[c] EXCEPT !.pc = "save", !.secrets = secrets \cup {work[c].secret}])
         ELSE IF secrets # None /\ work[c].op = "delete" /\ work[c].secret \in secrets
         THEN Go(c, [work[c] EXCEPT !.pc = "save", !.secrets = secrets \ {work[c].secret}])
         ELSE Answer(c)
  /\ UNCHANGED vaultVars

\* save_vault_with_key: all of it, in the place of what is there by now.
Save(c) ==
  /\ Opens(c, "save")
  /\ vault' = [key |-> work[c].key, secrets |-> work[c].secrets]
  /\ Answer(c)
  /\ UNCHANGED <<salt, raced>>

VaultStep(c) ==
  Prompt(c) \/ Look(c) \/ ReadSalt(c) \/ MakeSalt(c) \/ Load(c) \/ Save(c)

VaultInit == salt = None /\ vault = None /\ raced = FALSE

-----------------------------------------------------------------------------
(* Properties.                                                             *)

VaultTypeOK ==
  salt \in {None} \cup Salt /\ vault \in {None} \cup Sealed /\ raced \in BOOLEAN

\* However often it is opened, with whichever passwords, and wherever a
\* command is killed: unless two of them were founding it at once, the salt stays
\* that of the vault, and a vault that is there goes on opening with the
\* password it was made with, and with no other.
VaultKeepsItsKey ==
  [][~raced' /\ vault # None => vault' # None /\ vault'.key = vault.key /\ salt' = vault.key.salt]_<<vaultVars>>

=============================================================================
