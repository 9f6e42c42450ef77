----------------------------- MODULE MCHelpers -----------------------------
(***************************************************************************)
(* Helpers on small instances.                                             *)
(***************************************************************************)
EXTENDS Helpers

CONSTANTS s1, k1, c1, c2

Scene(ops, chunks, files, known, model) ==
  [ops |-> ops, chunks |-> chunks, disk |-> files, pinned |-> known, model |-> model]

\* Of the archives only the Linux ones have known checksums, and a model of
\* one's own has none.
MCScenes ==
  {Scene({"serve", "start", "stop"}, {}, {}, Fetched, None),
   Scene({"serve", "install", "uninstall"}, {c1}, {}, Fetched, None),
   Scene({"serve", "uninstall"}, {c1}, Files, Fetched, None),
   Scene({"serve"}, {c1, c2}, Files, Fetched, None),
   Scene({"doctor"}, {}, {}, Fetched, "cpu"),
   Scene({"doctor", "start"}, {}, {}, Fetched, None),
   Scene({"doctor"}, {}, {}, Fetched \ {"qdrant", "ort", "model.onnx", "tokenizer"}, None)}
=============================================================================
