---------------------------- MODULE MemoryViews ----------------------------
(***************************************************************************)
(* What the readers of memories show (src/src/storage.rs): search, the     *)
(* lists beside it, the quarantine's list, and the count by library.       *)
(*                                                                         *)
(* A list is taken without its limit: what a limit cuts off, a longer list *)
(* shows.  No library at all, and no author, stand for every one.          *)
(***************************************************************************)
EXTENDS MemoryStore

\* memory_query_filter_ex; scope is an ArchivedScope.
Matching(scope, libraries) ==
  {id \in Id : /\ Live(id)
               /\ scope = "exclude" => ~store[id].archived
               /\ scope = "only" => store[id].archived
               /\ libraries = {} \/ id[1] \in libraries}

\* search_filtered: what is ranked is what matches.
Searched(libraries) == Matching("exclude", libraries)

\* list_filtered: the forgotten can be asked for.
Browsed(scope, libraries) == Matching(scope, libraries)

\* Mutant of OfLibrary: a bare match of the library.
OfLibraryBare(library) == {id \in Id : Exists(id) /\ id[1] = library}

\* list_memories.
OfLibrary(library) == Matching("exclude", {library})

\* history.
Recent == Matching("exclude", {})

\* by_author: what bears the name, which a promoted text never does.
ByAuthor(agent, libraries) == {id \in Matching("exclude", libraries) : store[id].author = agent}

\* recent_by_source_since, of the ingests: of all readers the one that hides nothing.
Ingested == {id \in Id : Exists(id) /\ store[id].ingested}

\* quarantine_list, of a library or of all.
InQuarantine(library) == {id \in Id : Quarantined(id) /\ library \in {None, id[1]}}

-----------------------------------------------------------------------------

\* By every reader that hides what is quarantined or forgotten; by author only
\* under the name it bears, if any.
Shown(id) ==
  /\ id \in Searched({}) /\ id \in Searched({id[1]})
  /\ id \in Browsed("exclude", {})
  /\ id \in OfLibrary(id[1]) /\ id \in Recent
  /\ \A libraries \in {{}, {id[1]}}, agent \in Named :
       id \in ByAuthor(agent, libraries) <=> store[id].author = agent

\* By none of those.
Hidden(id) ==
  /\ \A libraries \in SUBSET Library :
       /\ id \notin Searched(libraries) \cup Browsed("exclude", libraries)
       /\ \A agent \in Named : id \notin ByAuthor(agent, libraries)
  /\ \A library \in Library : id \notin OfLibrary(library)
  /\ id \notin Recent

\* Where whoever wrote it finds it: in sight, or in the list of the quarantine
\* or in that of the forgotten, to be brought back.
Findable(id) ==
  \/ Shown(id)
  \/ Hidden(id) /\ (id \in InQuarantine(id[1]) \/ id \in Browsed("only", {id[1]}))

=============================================================================
