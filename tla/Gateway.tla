------------------------------ MODULE Gateway ------------------------------
(***************************************************************************)
(* The HTTP tool surface (src/src/http_api.rs): what a bearer token may    *)
(* read and write, under whose name, and how often.                        *)
(*                                                                         *)
(* A token stands for an agent, and may be confined to some libraries.     *)
(* Between the request and its dispatch (src/src/mcp.rs) a handler does    *)
(* not wait: the gate, the allowlist, the name and the write quota are one *)
(* step, the tool itself another.  Contents are abstracted to the place    *)
(* they are in: a library, or a store all libraries share.                 *)
(***************************************************************************)
EXTENDS Integers, Sequences, FiniteSets

CONSTANTS
  Library,   \* libraries
  Default,   \* the library an ingest goes to when it names none ("projects")
  Startup,   \* the --agent-token lists the server may be started with
  Claim,     \* the agents a caller may claim to be in a header or a body
  Earlier,   \* the agents whose names the stored memories bear at startup
  Anonymous, \* the one token, and the one bucket, of a server without agents
  None,      \* Rust's Option::None; a field that is absent
  Quota,     \* write_quota_per_min; 0 disables the gate
  Window,    \* ticks in a minute
  Extractor, \* whether an extraction model is installed
  MaxCalls,  \* bound: requests made
  MaxClock   \* bound: ticks

ASSUME GatewayAssumption ==
  /\ Default \in Library
  /\ Earlier \subseteq Claim /\ None \notin Library /\ None \notin Claim /\ \A S \in SUBSET Library : S # None
  /\ Quota \in Nat /\ Window \in Nat \ {0}
  /\ Extractor \in BOOLEAN
  /\ MaxCalls \in Nat /\ MaxClock \in Nat

\* An entry of a list confines its token to some libraries, or to nothing.
ASSUME StartupAssumption ==
  \A list \in Startup :
    /\ Len(list) \in Nat /\ DOMAIN list = 1 .. Len(list)
    /\ \A i \in DOMAIN list :
         list[i].scope \in (SUBSET Library) \cup {None} /\ list[i].name # None

VARIABLES
  entries, \* the --agent-token list, fixed at startup
  hits,    \* per agent: when it was let write, the minute past forgotten
  clock,   \* ticks
  work,    \* per token: the request handed to the tools
  signed,  \* the agents whose names memories were stored under
  jobs,    \* stored texts waiting for the extraction worker, by token
  calls,   \* requests made
  seen,    \* history, per token: the places it was shown
  written, \* history: who wrote where under which name
  granted  \* history, per agent: every time it was let write

gatewayVars == <<entries, hits, clock, work, signed, jobs, calls, seen, written, granted>>

-----------------------------------------------------------------------------
(* Tokens.                                                                 *)

\* parse_agent_tokens lets no name appear twice and no scope be empty.  Two
\* entries may share a token: it is then the later one's.
Accepted(list) ==
  \A i \in DOMAIN list :
    /\ list[i].scope # {}
    /\ \A j \in DOMAIN list : list[i].name = list[j].name => i = j

Token == {Anonymous} \cup UNION {{list[i].token : i \in DOMAIN list} : list \in Startup}
Agent == {Anonymous} \cup UNION {{list[i].name : i \in DOMAIN list} : list \in Startup}

EntriesOf(t) == {i \in DOMAIN entries : entries[i].token = t}
EntryOf(t) == CHOOSE i \in EntriesOf(t) : \A j \in EntriesOf(t) : j <= i

\* check_auth, and whom it finds.
Known(t) == IF entries = << >> THEN t = Anonymous ELSE EntriesOf(t) # {}
NameOf(t) == IF EntriesOf(t) = {} THEN None ELSE entries[EntryOf(t)].name
\* The allowlist, or None.
ScopeOf(t) == IF EntriesOf(t) = {} THEN None ELSE entries[EntryOf(t)].scope
Scoped(t) == ScopeOf(t) # None

Bucket(t) == IF NameOf(t) = None THEN Anonymous ELSE NameOf(t)

\* Mutant of Author: the header speaks first.
AuthorByHeader(t, header, body) ==
  IF header # None THEN header ELSE IF NameOf(t) # None THEN NameOf(t) ELSE body

\* with_agent: the token's name, else the X-Agent header, else what the body says.
Author(t, header, body) ==
  IF NameOf(t) # None THEN NameOf(t) ELSE IF header # None THEN header ELSE body

-----------------------------------------------------------------------------
(* Requests.                                                               *)

Optional(S) == S \cup {None}

\* A body that is no object names nothing, and so does a list without strings.
Naming == [library : Optional(Library), libraries : Optional(SUBSET Library)]

\* Confining a read: what it asks for, or all it may have.
Requested(r) ==
  ({r.library} \ {None}) \cup (IF r.libraries = None THEN {} ELSE r.libraries)

\* Mutant of Confined: an empty list is left in place.
ConfinedIfAbsent(t, r) ==
  IF Requested(r) # {} THEN [library |-> None, libraries |-> Requested(r)]
  ELSE IF r.libraries = None THEN [library |-> None, libraries |-> ScopeOf(t)]
  ELSE r

Confined(t, r) ==
  [library |-> None, libraries |-> IF Requested(r) = {} THEN ScopeOf(t) ELSE Requested(r)]

\* memory_filter_from_args: a list, even an empty one, hides the single name.
Filter(r) ==
  IF r.libraries # None THEN r.libraries
  ELSE IF r.library # None THEN {r.library} ELSE {}

\* No library in the filter is every library.
Found(filter) == IF filter = {} THEN Library ELSE filter

MayRead(t, r) == Scoped(t) => Requested(r) \subseteq ScopeOf(t)
MayWrite(t, library) == Scoped(t) => library \in ScopeOf(t)
Asked(t, r) == Found(Filter(IF Scoped(t) THEN Confined(t, r) ELSE r))

-----------------------------------------------------------------------------
(* The write quota.                                                        *)

\* One write a tool was let make: the tick, and the call, which tells it apart.
Hit == [at : 0 .. MaxClock, call : 1 .. MaxCalls]

\* Mutant of Recent: a write is forgotten a tick early.
RecentByTick(marks) == {hit \in marks : clock - hit.at < Window - 1}

Recent(marks) == {hit \in marks : clock - hit.at < Window}

Spent(agent) == Quota # 0 /\ Cardinality(Recent(hits[agent])) >= Quota

\* check_write_quota: forget the old ones, and count this write if it may pass.
SpendOne(agent) ==
  LET hit == [at |-> clock, call |-> calls + 1]
  IN  /\ hits' = IF Quota = 0 THEN hits ELSE [hits EXCEPT ![agent] = Recent(hits[agent]) \cup {hit}]
      /\ granted' = [granted EXCEPT ![agent] = @ \cup {hit}]
Forget(agent) == hits' = [hits EXCEPT ![agent] = Recent(hits[agent])] /\ UNCHANGED granted
KeepBudget == UNCHANGED <<hits, granted>>

-----------------------------------------------------------------------------
(* Handlers: from the request to the tool.                                 *)

Shared ==
  {"facts", "procedures", "quarantine", "audit", "sessions", "names", "activity", "kv"}
Place == Library \cup Shared

ASSUME PlaceAssumption == Library \cap Shared = {}

\* What a text is signed with: an agent, no agent (the name of the surface, or
\* nothing at all), or, for an edit, whatever its memory was signed with.
Name == Optional(Claim \cup Agent)
Kept == "kept"
Signature == Name \cup {Kept}

\* No agent is called so.
ASSUME KeptAssumption == Kept \notin Name

\* A write: a place, and the signature there.
Signing(author, places) == {[place |-> p, author |-> author] : p \in places}

Idle == [pc |-> "idle"]
Forwarded ==
  [pc : {"serve"}, reads : SUBSET Place, writes : SUBSET [place : Place, author : Signature],
   job : BOOLEAN]

Hand(t, reads, writes, job) ==
  work' = [work EXCEPT ![t] = [pc |-> "serve", reads |-> reads, writes |-> writes, job |-> job]]
Refuse == UNCHANGED work

\* A request arrives and is authenticated.
Arrives(t) ==
  /\ Known(t) /\ work[t] = Idle
  /\ calls < MaxCalls /\ calls' = calls + 1
  /\ UNCHANGED <<entries, clock, signed, jobs, seen, written>>

\* search, browse: the same filter either way it is rendered.
Search(t) ==
  /\ Arrives(t)
  /\ \E r \in Naming :
       IF MayRead(t, r) THEN Hand(t, Asked(t, r), {}, FALSE) ELSE Refuse
  /\ KeepBudget

\* The rendered block fuses every library: a confined token may not have it.
RecallText(t) == IF Scoped(t) THEN {} ELSE Library \cup {"facts", "procedures"}

\* The structured answer, without the stores that know no library.
RecallJson(t, r) == Asked(t, r) \cup (IF Scoped(t) THEN {} ELSE {"facts", "procedures"})

Recall(t) ==
  /\ Arrives(t)
  /\ \E r \in Naming, text \in BOOLEAN :
       IF MayRead(t, r)
       THEN Hand(t, IF text THEN RecallText(t) ELSE RecallJson(t, r), {}, FALSE)
       ELSE Refuse
  /\ KeepBudget

ByAgent(t) ==
  /\ Arrives(t)
  /\ Hand(t, IF Scoped(t) THEN ScopeOf(t) ELSE Library, {}, FALSE)
  /\ KeepBudget

\* A write whose library is allowed, if the budget has room for it.
Offer(t, allowed, writes, job) ==
  IF ~allowed THEN Refuse /\ KeepBudget
  ELSE IF Spent(Bucket(t)) THEN Refuse /\ Forget(Bucket(t))
  ELSE Hand(t, {}, writes, job) /\ SpendOne(Bucket(t))

\* add; the structured form knows only the token's own name, and one without
\* a library is turned down after it was paid for.
Add(t) ==
  /\ Arrives(t)
  /\ \E library \in Optional(Library), json \in BOOLEAN, header, body \in Optional(Claim) :
       Offer(t, MayWrite(t, library),
             Signing(IF json THEN NameOf(t) ELSE Author(t, header, body), {library} \ {None}), FALSE)

\* A memory the gate diverts bears no name, and neither does a procedure ("ingest").
\* A confined token's facts and procedures are counted, not stored.
Stored(t, kinds, library, kept, author) ==
  (IF "memory" \in kinds
   THEN Signing(IF kept THEN author ELSE None, {IF library = None THEN Default ELSE library}) ELSE {})
    \cup (IF Scoped(t) THEN {}
          ELSE Signing(author, kinds \cap {"facts"}) \cup Signing(None, kinds \cap {"procedures"}))

\* A text that was kept is queued for extraction, when there is a model.
Ingest(t) ==
  /\ Arrives(t)
  /\ \E library \in Optional(Library), header, body \in Optional(Claim),
        kinds \in SUBSET {"memory", "facts", "procedures"}, kept \in BOOLEAN :
       Offer(t, MayWrite(t, library),
             Stored(t, kinds, library, kept, Author(t, header, body)),
             kept /\ "memory" \in kinds /\ Extractor)

-----------------------------------------------------------------------------
(* The routes a confined token may not take.                               *)

Reads(name, places) == [route |-> name, reads |-> places, writes |-> {}, signs |-> "nobody", paid |-> FALSE]
Writes(name, places, signs) ==
  [route |-> name, reads |-> {}, writes |-> places, signs |-> signs, paid |-> FALSE]
Paid(route) == [route EXCEPT !.paid = TRUE]

FactRoutes ==
  {Paid(Writes("fact/add", {"facts"}, "caller")), Reads("fact/query", {"facts"}),
   Writes("fact/invalidate", {"facts"}, "caller"), Reads("fact/contested", {"facts"})}

ProcedureRoutes ==
  {Paid(Writes("procedure/learn", {"procedures"}, "caller")),
   Reads("procedure/recall", {"procedures"}), Reads("consolidate", Library)}

MemoryRoutes ==
  {Reads("quarantine/list", {"quarantine"}), Writes("quarantine/promote", {"quarantine"}, "caller"),
   Writes("memory/restore", Library, "nobody"), Reads("library/list", {"names"})}

\* An edit stores the caller's text under the name its memory had.
ByIdRoutes ==
  {Writes("memory/archive", Library, "nobody"), Writes("memory/delete", Library, "caller"),
   Writes("memory/edit", Library, "memory")}

\* Whose session it is the body says first: a coordinator resumes another's.
SessionRoutes ==
  {Reads("session/context", Library \cup {"facts"}), Writes("session/start", {"sessions"}, "body"),
   Writes("session/end", {"sessions"}, "body"), Reads("session/last", {"sessions"}),
   Writes("library/create", {"names"}, "nobody")}

WatchRoutes == {Reads("stats/activity", {"activity"}), Reads("audit", {"audit"})}

KvRoutes == {Writes("kv/set", {"kv"}, "nobody"), Reads("kv/get", {"kv"})}

OtherRoutes ==
  FactRoutes \cup ProcedureRoutes \cup MemoryRoutes \cup ByIdRoutes \cup SessionRoutes
    \cup WatchRoutes \cup KvRoutes

\* scope_gate: none of them honours an allowlist.
Gate(t) == ~Scoped(t)

Signer(t, signs, header, body) ==
  IF signs = "nobody" THEN None
  ELSE IF signs = "memory" THEN Kept
  ELSE IF signs = "body" /\ body # None THEN body
  ELSE Author(t, header, body)

Other(t) ==
  /\ Arrives(t)
  /\ \E r \in OtherRoutes, header, body \in Optional(Claim) :
       LET writes == Signing(Signer(t, r.signs, header, body), r.writes)
       IN  IF ~Gate(t) THEN Refuse /\ KeepBudget
           ELSE IF r.paid THEN Offer(t, TRUE, writes, FALSE)
           ELSE Hand(t, r.reads, writes, FALSE) /\ KeepBudget

\* Open to all: its advice may name any library the query mentions.
ShouldSearch(t) ==
  /\ Arrives(t)
  /\ Hand(t, {"names"}, {}, FALSE)
  /\ KeepBudget

-----------------------------------------------------------------------------
(* Tools.                                                                  *)

\* What a write leaves in the store, when the memory it may edit bears a name.
Mark(t, write, name) ==
  [by |-> t, via |-> IF write.author = Kept THEN "edit" ELSE "tool",
   author |-> IF write.author = Kept THEN name ELSE write.author, place |-> write.place]

\* The tool runs and answers.
Serve(t) ==
  /\ work[t] # Idle
  /\ seen' = [seen EXCEPT ![t] = @ \cup work[t].reads]
  /\ \E name \in Optional(signed) :
       LET marks == {Mark(t, write, name) : write \in work[t].writes}
       IN  /\ written' = written \cup marks
           /\ signed' = signed \cup ({mark.author : mark \in {m \in marks : m.place \in Library}} \ {None})
  /\ jobs' = IF work[t].job THEN jobs \cup {t} ELSE jobs
  /\ work' = [work EXCEPT ![t] = Idle]
  /\ UNCHANGED <<entries, hits, clock, calls, granted>>

\* It fails, panics, or the client hangs up: the budget stays spent.
Fail(t) ==
  /\ work[t] # Idle
  /\ work' = [work EXCEPT ![t] = Idle]
  /\ UNCHANGED <<entries, hits, clock, signed, jobs, calls, seen, written, granted>>

\* The extraction worker, which knows nothing of tokens, puts what it finds in
\* a stored text into the facts.
Extract(t) ==
  /\ t \in jobs /\ jobs' = jobs \ {t}
  /\ written' = written \cup {[by |-> t, via |-> "worker", author |-> None, place |-> "facts"]}
  /\ UNCHANGED <<entries, hits, clock, work, signed, calls, seen, granted>>

Tick ==
  /\ clock < MaxClock /\ clock' = clock + 1
  /\ UNCHANGED <<entries, hits, work, signed, jobs, calls, seen, written, granted>>

Init ==
  /\ entries \in {list \in Startup : Accepted(list)}
  /\ hits = [agent \in Agent |-> {}] /\ granted = [agent \in Agent |-> {}]
  /\ clock = 0 /\ calls = 0
  /\ work = [t \in Token |-> Idle]
  /\ jobs = {} /\ signed = Earlier
  /\ seen = [t \in Token |-> {}] /\ written = {}

Next ==
  \/ \E t \in Token :
       Search(t) \/ Recall(t) \/ ByAgent(t) \/ Add(t) \/ Ingest(t) \/ Other(t) \/ ShouldSearch(t)
         \/ Serve(t) \/ Fail(t) \/ Extract(t)
  \/ Tick

Spec == Init /\ [][Next]_gatewayVars

-----------------------------------------------------------------------------
(* Properties.                                                             *)

\* The state is well typed: every request has a place to go to.
GatewayTypeOK ==
  /\ entries \in Startup
  /\ clock \in 0 .. MaxClock /\ calls \in 0 .. MaxCalls
  /\ work \in [Token -> {Idle} \cup Forwarded]
  /\ jobs \subseteq Token /\ signed \subseteq Claim \cup Agent
  /\ seen \in [Token -> SUBSET Place]
  /\ written \subseteq [by : Token, via : {"tool", "edit", "worker"}, author : Name, place : Place]
  /\ hits \in [Agent -> SUBSET Hit] /\ granted \in [Agent -> SUBSET Hit]

\* Whatever a confined token asks for, in whatever shape, it is shown and its
\* tools change only the libraries it is confined to; names it may learn.  Not
\* so for what the extraction worker later finds in the texts it stored.
ScopeConfines ==
  \A t \in Token :
    Scoped(t) =>
      /\ seen[t] \subseteq ScopeOf(t) \cup {"names"}
      /\ \A w \in written : w.by = t /\ w.via # "worker" => w.place \in ScopeOf(t)

\* An agent signed this itself, in a request of its own.
OwnHand(w) == w.via = "tool" /\ NameOf(w.by) = w.author

\* A memory bore the name since before, or its holder signed one.
Held(name) ==
  \/ name \in Earlier
  \/ \E w \in written : w.author = name /\ w.place \in Library /\ OwnHand(w)

\* On a server with agents nobody puts a name into the store but its holder:
\* whatever the header and the body claim, what is signed is signed with the
\* caller's name, and an edit, which leaves the name the memory had, finds only
\* names that their holders, or an earlier server, signed a memory with.
\* Sessions are shared on purpose.
SignedByItsHolder ==
  entries # << >> =>
    \A w \in written :
      w.author # None /\ w.place # "sessions" =>
        \/ OwnHand(w)
        \/ w.via = "edit" /\ Held(w.author)

\* In no minute is an agent let write more often than the quota says.
QuotaHolds ==
  Quota # 0 =>
    \A agent \in Agent, end \in 0 .. MaxClock :
      Cardinality({hit \in granted[agent] : hit.at <= end /\ end - hit.at < Window}) <= Quota

=============================================================================
