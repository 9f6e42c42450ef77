-------------------------- MODULE ExtractorInstall --------------------------
(***************************************************************************)
(* Installing and removing the extractor (src/src/extractor.rs): the       *)
(* server's binary with its libraries, the model, and the sentinel written *)
(* last, whose presence means that all of the first is there.              *)
(***************************************************************************)
EXTENDS Daemon, FiniteSets

VARIABLES
  disk,      \* which files are there
  installed, \* history: since the last uninstall began, an install reported success
  wrecked    \* history: an uninstall began and did not end

diskVars == <<disk, installed, wrecked>>

Part == {"binary", "libs"}
Files == Part \cup {"sentinel", "model"}
There(file) == file \in disk

InstallCall == {[op |-> "install", pc |-> "look"], [op |-> "uninstall", pc |-> "remove"]}
Installing(u) == work[u].op \in {"install", "uninstall"}

-----------------------------------------------------------------------------
(* install: the server, then the model.                                    *)

\* Mutant of InstallLook: the binary is taken for the whole, as it once was.
InstallLookBinary(u) ==
  /\ At(u, "install", "look")
  /\ GoTo(u, IF There("binary") THEN "model" ELSE "unpack")
  /\ UNCHANGED diskVars

\* A binary without the sentinel is what an install left that died.
InstallLook(u) ==
  /\ At(u, "install", "look")
  /\ GoTo(u, IF There("sentinel") THEN "model" ELSE IF There("binary") THEN "clean" ELSE "unpack")
  /\ UNCHANGED diskVars

\* The directory is emptied, file by file.
InstallClean(u) ==
  /\ At(u, "install", "clean")
  /\ LET left == disk \ {"model"}
     IN  \/ left = {} /\ GoTo(u, "unpack") /\ UNCHANGED disk
         \/ \E file \in left : disk' = disk \ {file} /\ UNCHANGED useVars
  /\ UNCHANGED <<installed, wrecked>>

\* Downloaded whole or not at all, and unpacked beside the place it is for.
InstallUnpack(u) ==
  /\ At(u, "install", "unpack")
  /\ \/ Go(u, [op |-> "install", pc |-> "move", left |-> Part])
     \/ Answer(u)
  /\ UNCHANGED diskVars

\* The files are moved one by one, in whatever order the directory has them.
InstallMove(u) ==
  /\ At(u, "install", "move")
  /\ \E part \in work[u].left :
       /\ disk' = disk \cup {part}
       /\ Go(u, IF work[u].left = {part} THEN [op |-> "install", pc |-> "mark"]
                ELSE [work[u] EXCEPT !.left = @ \ {part}])
  /\ UNCHANGED <<installed, wrecked>>

InstallMark(u) ==
  /\ At(u, "install", "mark")
  /\ disk' = disk \cup {"sentinel"}
  /\ GoTo(u, "model")
  /\ UNCHANGED <<installed, wrecked>>

InstallModel(u) ==
  /\ At(u, "install", "model")
  /\ \/ disk' = disk \cup {"model"} /\ installed' = TRUE
     \/ ~There("model") /\ UNCHANGED <<disk, installed>>
  /\ Answer(u)
  /\ UNCHANGED wrecked

-----------------------------------------------------------------------------

\* uninstall_all: the server's directory, in no order of its own, then the models.
Uninstall(u) ==
  /\ At(u, "uninstall", "remove")
  /\ installed' = FALSE
  /\ \/ \E file \in disk :
          /\ file = "model" => disk = {"model"}
          /\ disk' = disk \ {file}
          /\ wrecked' = TRUE /\ UNCHANGED useVars
     \/ disk = {} /\ wrecked' = FALSE /\ Answer(u) /\ UNCHANGED disk

InstallStep(u) ==
  InstallLook(u) \/ InstallClean(u) \/ InstallUnpack(u) \/ InstallMove(u) \/ InstallMark(u)
    \/ InstallModel(u) \/ Uninstall(u)

InstallInit(files) == disk = files /\ installed = (files = Files) /\ wrecked = FALSE

-----------------------------------------------------------------------------
(* Properties.                                                             *)

InstallTypeOK == disk \subseteq Files /\ installed \in BOOLEAN /\ wrecked \in BOOLEAN

\* "a tarball killed mid-extract or a chmod failure leaves no sentinel": where
\* an install died or failed, the sentinel is there only with the whole of the
\* server; and one that reports success, on whatever an earlier one left, has
\* everything in place until it is uninstalled.  Only an uninstall that died
\* may leave less.
InstalledIsWhole ==
  ~wrecked => /\ There("sentinel") => Part \subseteq disk
              /\ installed => disk = Files

=============================================================================
