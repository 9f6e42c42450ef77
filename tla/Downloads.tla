----------------------------- MODULE Downloads -----------------------------
(***************************************************************************)
(* What `doctor --fix` fetches (src/src/cli.rs): the vector store's binary *)
(* and the inference library out of an archive, the embedding model in the *)
(* variant the environment asks for, the reranker where it is switched on. *)
(*                                                                         *)
(* A file's contents are abstracted to what they are to us: the CPU or the *)
(* GPU variant of the model, what else a file is meant to be, something    *)
(* other than that, or the beginning of it.                                *)
(***************************************************************************)
EXTENDS Daemon, Sequences

VARIABLES
  pinned, \* the files whose checksum is known, on this platform and for this model
  have,   \* per file: its contents, or None
  marker, \* the .variant file, or None
  astray  \* history: a pass failed or died, or a model was there without a marker

downloadVars == <<pinned, have, marker, astray>>

Variant == {"cpu", "gpu"}
Content == Variant \cup {"meant", "other", "cut"}

ASSUME DownloadsAssumption == None \notin Content

\* The stages of a pass, in their order, with what each fetches.
Stages == <<"store", "runtime", "model", "reranker">>
Fetches ==
  [store |-> <<"qdrant">>, runtime |-> <<"ort">>, model |-> <<"model.onnx", "tokenizer">>,
   reranker |-> <<"reranker.onnx", "reranker tokenizer">>]
Archived == {"qdrant", "ort"}
Fetched == Archived \cup {"model.onnx", "tokenizer", "reranker.onnx", "reranker tokenizer"}

Doctor ==
  [op : {"doctor"}, pc : {"check", "file", "arrive", "create", "copy"}, stage : 1 .. 5,
   variant : Variant, todo : Seq(Fetched), forced : BOOLEAN, got : Content]
DoctorCall ==
  {[op |-> "doctor", pc |-> "check", stage |-> 1, variant |-> variant, todo |-> << >>,
    forced |-> FALSE, got |-> "meant"] : variant \in Variant}

-----------------------------------------------------------------------------

\* model_source: what a file is meant to be.
Meant(file, variant) == IF file = "model.onnx" THEN variant ELSE "meant"

\* is_model_downloaded and its like: by the names there are, and by the marker,
\* which an old installation of the CPU variant does not have.
Complete(u) ==
  LET stage == Stages[work[u].stage]
      there == \A i \in DOMAIN Fetches[stage] : have[Fetches[stage][i]] # None
  IN  \/ there /\ stage # "model"
      \/ there /\ work[u].variant = (IF marker = None THEN "cpu" ELSE marker)
      \/ stage = "store" /\ Up

\* Whatever came of a stage, the next one follows.
NextStage(u) == Go(u, [work[u] EXCEPT !.pc = "check", !.stage = @ + 1, !.todo = << >>, !.forced = FALSE])

\* A model of another variant than the marker names is fetched all the same.
DoctorCheck(u) ==
  /\ At(u, "doctor", "check")
  /\ IF work[u].stage > Len(Stages) THEN Answer(u)
     ELSE IF Complete(u) THEN NextStage(u)
     ELSE Go(u, [work[u] EXCEPT !.pc = "file", !.todo = Fetches[Stages[work[u].stage]],
                   !.forced = Stages[work[u].stage] = "model" /\ marker \notin {None, work[u].variant}])
  /\ UNCHANGED downloadVars

\* The next file: there already, or to be fetched.  With all of the model's
\* there, the marker is written.
DoctorFile(u) ==
  LET todo == work[u].todo
      forced == work[u].forced /\ Head(todo) = "model.onnx"
  IN  /\ At(u, "doctor", "file")
      /\ IF todo = << >>
         THEN /\ marker' = IF Stages[work[u].stage] = "model" THEN work[u].variant ELSE marker
              /\ NextStage(u) /\ UNCHANGED have
         ELSE /\ IF have[Head(todo)] # None /\ ~forced
                 THEN Go(u, [work[u] EXCEPT !.todo = Tail(todo)]) /\ UNCHANGED have
                 ELSE GoTo(u, "arrive") /\ have' = [have EXCEPT ![Head(todo)] = None]
              /\ UNCHANGED marker
      /\ UNCHANGED <<pinned, astray>>

\* Mutant of Passes: the checksum is looked at, and no more.
PassesAny(file, content, variant) == TRUE

\* verify_sha256: without a checksum, anything passes.
Passes(file, content, variant) == file \in pinned => content = Meant(file, variant)

\* download_file: into a temporary file, checked, and moved into its place;
\* archives are then unpacked.
DoctorArrive(u) ==
  LET file == Head(work[u].todo) IN
  /\ At(u, "doctor", "arrive")
  /\ \/ \E content \in {Meant(file, work[u].variant), "other"} :
          /\ Passes(file, content, work[u].variant)
          /\ IF file \in Archived
             THEN Go(u, [work[u] EXCEPT !.pc = "create", !.got = content]) /\ UNCHANGED have
             ELSE /\ have' = [have EXCEPT ![file] = content]
                  /\ Go(u, [work[u] EXCEPT !.pc = "file", !.todo = Tail(@)])
          /\ UNCHANGED astray
     \/ NextStage(u) /\ astray' = TRUE /\ UNCHANGED have
  /\ UNCHANGED <<pinned, marker>>

\* extract_member_tar_gz: straight into the place, unless it is not in there.
DoctorCreate(u) ==
  LET file == Head(work[u].todo) IN
  /\ At(u, "doctor", "create")
  /\ \/ have' = [have EXCEPT ![file] = "cut"] /\ GoTo(u, "copy") /\ UNCHANGED astray
     \/ work[u].got = "other" /\ NextStage(u) /\ astray' = TRUE /\ UNCHANGED have
  /\ UNCHANGED <<pinned, marker>>

DoctorCopy(u) ==
  LET file == Head(work[u].todo) IN
  /\ At(u, "doctor", "copy")
  /\ \/ /\ have' = [have EXCEPT ![file] = work[u].got]
        /\ Go(u, [work[u] EXCEPT !.pc = "file", !.todo = Tail(@)])
        /\ UNCHANGED astray
     \/ NextStage(u) /\ astray' = TRUE /\ UNCHANGED have
  /\ UNCHANGED <<pinned, marker>>

DoctorStep(u) ==
  DoctorCheck(u) \/ DoctorFile(u) \/ DoctorArrive(u) \/ DoctorCreate(u) \/ DoctorCopy(u)

\* A command killed in a pass leaves what it has done.
DoctorDies(u) ==
  astray' = (astray \/ work[u].op = "doctor") /\ UNCHANGED <<pinned, have, marker>>

\* A model may be there from before there was a marker.
DownloadsInit(known, model) ==
  /\ pinned = known /\ marker = None
  /\ have = [file \in Fetched |-> IF file \in {"model.onnx", "tokenizer"} /\ model # None
                                  THEN Meant(file, model) ELSE None]
  /\ astray = (model # None)

-----------------------------------------------------------------------------
(* Properties.                                                             *)

DownloadsTypeOK ==
  /\ pinned \subseteq Fetched
  /\ have \in [Fetched -> Content \cup {None}]
  /\ marker \in Variant \cup {None} /\ astray \in BOOLEAN

\* Between passes, however often the variant was changed: a file by the name of
\* one whose checksum is known is that file, wherever passes died, save what is
\* unpacked; and as long as none failed or died, what was unpacked is whole
\* too, and the model is the one the marker names.
DownloadsAreWhole ==
  (\A u \in User : work[u].op # "doctor") =>
    /\ \A file \in pinned \ Archived : have[file] \in {None, "meant"} \cup Variant
    /\ ~astray =>
         /\ \A file \in pinned : have[file] # "cut"
         /\ marker # None /\ "model.onnx" \in pinned => have["model.onnx"] = marker

=============================================================================
