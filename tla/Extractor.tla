----------------------------- MODULE Extractor -----------------------------
(***************************************************************************)
(* Facts extracted from new memories in the background                     *)
(* (src/src/extractor.rs): a bounded queue and one worker per process, and *)
(* a model server that the worker starts when it first needs it.           *)
(***************************************************************************)
EXTENDS ExtractorInstall

CONSTANTS
  Chunk,   \* texts accepted by the ingest gate
  QueueCap \* AUTO_EXTRACT_QUEUE_CAPACITY

ASSUME ExtractorAssumption == QueueCap \in Nat \ {0}

VARIABLES
  life,     \* per server: "off", "up", or "ending" after the end of its input
  queue,    \* per server: the chunks that wait
  worker,   \* per server: the chunk in hand, and the child it needs
  slot,     \* LLAMA_SERVER, per server: a child, or None
  children, \* the model servers, in the order they were started
  fate      \* history: what became of each chunk

extractorVars == <<life, queue, worker, slot, children, fate>>

Resting == [pc |-> "idle"]
\* A child that hangs takes a connection and does not answer.
ChildStatus == {"loading", "hung", "ready", "gone"}
Child == [of : Server, status : ChildStatus]
Fates == {"new", "queued", "done", "lost"}

With(s, record) == worker' = [worker EXCEPT ![s] = record]
WithPc(s, pc) == With(s, [worker[s] EXCEPT !.pc = pc])
Rests(s, end) == With(s, Resting) /\ fate' = [fate EXCEPT ![worker[s].chunk] = end]
Killed(c) == IF c = None THEN children ELSE [children EXCEPT ![c].status = "gone"]

\* enqueue_auto_extract: of a chunk the gate accepted; full, it is dropped.
Enqueue(s, chunk) ==
  /\ life[s] = "up" /\ fate[chunk] = "new" /\ There("sentinel")
  /\ IF Len(queue[s]) < QueueCap
     THEN queue' = [queue EXCEPT ![s] = Append(@, chunk)] /\ fate' = [fate EXCEPT ![chunk] = "queued"]
     ELSE queue' = queue /\ fate' = [fate EXCEPT ![chunk] = "lost"]
  /\ UNCHANGED <<life, worker, slot, children>>

-----------------------------------------------------------------------------
(* The worker.                                                             *)

Take(s) ==
  /\ worker[s].pc = "idle" /\ queue[s] # << >>
  /\ With(s, [pc |-> "peek", chunk |-> Head(queue[s])])
  /\ queue' = [queue EXCEPT ![s] = Tail(@)]
  /\ UNCHANGED <<life, slot, children, fate>>

\* ensure_server: a handle that is there will do, whether its child lives or not.
Peek(s) ==
  /\ worker[s].pc = "peek"
  /\ IF slot[s] # None THEN With(s, [pc |-> "ask", chunk |-> worker[s].chunk, child |-> slot[s], asked |-> 1])
     ELSE WithPc(s, "binary")
  /\ UNCHANGED <<life, queue, slot, children, fate>>

Preflight(s) ==
  /\ worker[s].pc \in {"binary", "model"}
  /\ IF ~There(worker[s].pc) THEN Rests(s, "lost")
     ELSE WithPc(s, IF worker[s].pc = "binary" THEN "model" ELSE "spawn") /\ UNCHANGED fate
  /\ UNCHANGED <<life, queue, slot, children>>

\* Without its files the child does not start, or dies at once.
Spawn(s) ==
  /\ worker[s].pc = "spawn"
  /\ IF There("binary")
     THEN /\ children' = Append(children,
               [of |-> s, status |-> IF {"libs", "model"} \subseteq disk THEN "loading" ELSE "gone"])
          /\ With(s, [pc |-> "hold", chunk |-> worker[s].chunk, child |-> Len(children) + 1])
          /\ UNCHANGED fate
     ELSE Rests(s, "lost") /\ UNCHANGED children
  /\ UNCHANGED <<life, queue, slot>>

\* A handle that is replaced kills its child.
Hold(s) ==
  /\ worker[s].pc = "hold"
  /\ children' = Killed(slot[s])
  /\ slot' = [slot EXCEPT ![s] = worker[s].child]
  /\ With(s, [pc |-> "poll", chunk |-> worker[s].chunk, child |-> worker[s].child, polls |-> 0])
  /\ UNCHANGED <<life, queue, fate>>

\* Mutant of Poll: until the model is loaded, however long it takes.
PollOn(s) ==
  /\ worker[s].pc = "poll" /\ children[worker[s].child].status = "ready"
  /\ With(s, [pc |-> "ask", chunk |-> worker[s].chunk, child |-> worker[s].child, asked |-> 1])
  /\ UNCHANGED <<life, queue, slot, children, fate>>

\* The request for /health has no timeout: it ends with an answer, or with the
\* connection.
Poll(s) ==
  /\ worker[s].pc = "poll" /\ worker[s].polls < MaxPolls /\ children[worker[s].child].status # "hung"
  /\ IF children[worker[s].child].status = "ready"
     THEN With(s, [pc |-> "ask", chunk |-> worker[s].chunk, child |-> worker[s].child, asked |-> 1])
     ELSE With(s, [worker[s] EXCEPT !.polls = @ + 1])
  /\ UNCHANGED <<life, queue, slot, children, fate>>

\* Mutant of GiveUp: the slot is emptied and the child left to load.
GiveUpLeaving(s) ==
  /\ worker[s].pc = "poll" /\ worker[s].polls = MaxPolls
  /\ children' = children
  /\ slot' = [slot EXCEPT ![s] = None]
  /\ Rests(s, "lost")
  /\ UNCHANGED <<life, queue>>

GiveUp(s) ==
  /\ worker[s].pc = "poll" /\ worker[s].polls = MaxPolls
  /\ children' = Killed(slot[s])
  /\ slot' = [slot EXCEPT ![s] = None]
  /\ Rests(s, "lost")
  /\ UNCHANGED <<life, queue>>

\* run_extract_pipeline: prose instead of triples is asked for once more; an
\* error, or a second time, loses the chunk.
Ask(s) ==
  /\ worker[s].pc = "ask"
  /\ \/ /\ children[worker[s].child].status = "ready"
        /\ \/ With(s, [pc |-> "add", chunk |-> worker[s].chunk]) /\ UNCHANGED fate
           \/ /\ worker[s].asked = 1
              /\ With(s, [worker[s] EXCEPT !.asked = 2]) /\ UNCHANGED fate
     \/ Rests(s, "lost")
  /\ UNCHANGED <<life, queue, slot, children>>

\* add_fact of each triple; one that fails is passed over.
AddFacts(s) ==
  /\ worker[s].pc = "add"
  /\ Rests(s, IF Up THEN "done" ELSE "lost")
  /\ UNCHANGED <<life, queue, slot, children>>

WorkerStep(s) ==
  Take(s) \/ Peek(s) \/ Preflight(s) \/ Spawn(s) \/ Hold(s) \/ Poll(s) \/ GiveUp(s) \/ Ask(s) \/ AddFacts(s)

-----------------------------------------------------------------------------
(* The child, and the end of the server.                                   *)

ChildLoads(i) ==
  /\ children[i].status \in {"loading", "hung"}
  /\ children' = [children EXCEPT ![i].status = "ready"]
  /\ UNCHANGED <<life, queue, worker, slot, fate>>

ChildHangs(i) ==
  /\ children[i].status = "loading"
  /\ children' = [children EXCEPT ![i].status = "hung"]
  /\ UNCHANGED <<life, queue, worker, slot, fate>>

ChildDies(i) ==
  /\ children[i].status # "gone"
  /\ children' = [children EXCEPT ![i].status = "gone"]
  /\ UNCHANGED <<life, queue, worker, slot, fate>>

\* shutdown_server, at the end of the server's input: the worker works on.
Shutdown(s) ==
  /\ life[s] = "up" /\ work[s] = Idle
  /\ life' = [life EXCEPT ![s] = "ending"]
  /\ children' = Killed(slot[s])
  /\ slot' = [slot EXCEPT ![s] = None]
  /\ UNCHANGED <<queue, worker, fate>>

\* What the process held is gone, its children with it (PR_SET_PDEATHSIG), and
\* the chunks it had.
Forgotten(s) ==
  /\ life' = [life EXCEPT ![s] = "off"]
  /\ queue' = [queue EXCEPT ![s] = << >>]
  /\ worker' = [worker EXCEPT ![s] = Resting]
  /\ slot' = [slot EXCEPT ![s] = None]
  /\ children' = [i \in DOMAIN children |->
       IF children[i].of = s THEN [children[i] EXCEPT !.status = "gone"] ELSE children[i]]
  /\ LET held == {queue[s][i] : i \in DOMAIN queue[s]}
           \cup (IF worker[s] = Resting THEN {} ELSE {worker[s].chunk})
     IN  fate' = [c \in Chunk |-> IF c \in held THEN "lost" ELSE fate[c]]

Exit(s) == life[s] = "ending" /\ Forgotten(s)

ExtractorInit ==
  /\ life = [s \in Server |-> "off"] /\ queue = [s \in Server |-> << >>]
  /\ worker = [s \in Server |-> Resting] /\ slot = [s \in Server |-> None]
  /\ children = << >> /\ fate = [c \in Chunk |-> "new"]

-----------------------------------------------------------------------------
(* Properties.                                                             *)

ExtractorTypeOK ==
  /\ life \in [Server -> {"off", "up", "ending"}]
  /\ queue \in [Server -> Seq(Chunk)]
  /\ slot \in [Server -> {None} \cup DOMAIN children]
  /\ children \in Seq(Child)
  /\ fate \in [Chunk -> Fates]

Mine(s) == {i \in DOMAIN children : children[i].of = s /\ children[i].status # "gone"}

\* A process never has two model servers (~2 GB each), through failed loads,
\* lost children and the shutdown that may come while one is being started:
\* the one that lives is in the slot, or in the worker's hand.
OneChild ==
  \A s \in Server : \A i \in Mine(s) :
    slot[s] = i \/ (worker[s].pc = "hold" /\ worker[s].child = i /\ Mine(s) = {i})

\* The worker waits for a model server that does not answer.
Stuck(s) ==
  worker[s].pc = "poll" /\ worker[s].polls < MaxPolls /\ children[worker[s].child].status = "hung"

\* A chunk that was queued does not wait for ever, nor block the ones behind
\* it: it yields its facts or is given up, or its server ends, unless a model
\* server hangs for ever before it is ready.  That is the only wait of the
\* worker without an end: one that never loads, dies, or answers prose is none.
QueuedIsSettled ==
  \A c \in Chunk : fate[c] = "queued" ~> (fate[c] # "queued" \/ \E s \in Server : []Stuck(s))

=============================================================================
