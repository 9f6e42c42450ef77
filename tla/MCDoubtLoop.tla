---------------------------- MODULE MCDoubtLoop ----------------------------
(***************************************************************************)
(* DoubtLoop on small instances: one MCP server, and an HTTP task that     *)
(* raises no busy flag.  Either two memories and no fact, the first of     *)
(* them a procedure, or one memory and one or two facts.  Two signals can  *)
(* fail a memory; a third kind is kept but counts for nothing.             *)
(***************************************************************************)
EXTENDS DoubtLoop

MCMode == "chat_only"
MCTestKeys == {"test_a", "test_b"}
MCKeys == MCTestKeys \cup {"user"}

=============================================================================
