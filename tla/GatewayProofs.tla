--------------------------- MODULE GatewayProofs ---------------------------
(***************************************************************************)
(* What a token may see, change, sign and spend, for any list of tokens,   *)
(* any number of libraries and requests, and any quota.                    *)
(***************************************************************************)
EXTENDS Gateway, FiniteSetTheorems, WellFoundedInduction, TLAPS

-----------------------------------------------------------------------------
(* Tokens.                                                                 *)

\* A set of positions that is not empty has a last one.
LEMMA LastPosition ==
  ASSUME NEW n \in Nat, NEW S \in SUBSET (1 .. n), S # {}
  PROVE  \E i \in S : \A j \in S : j <= i
  <1> DEFINE Above(i) == {j \in S : i <= j}
  <1> DEFINE T == {Above(i) : i \in S}
  <1>1. IsFiniteSet(S)
    <2>1. IsFiniteSet(1 .. n)
      BY FS_Interval
    <2> QED
      BY <2>1, FS_Subset
  <1>2. T \subseteq FiniteSubsetsOf(S) /\ T # {}
    <2>1. T \subseteq SUBSET S /\ T # {}
      OBVIOUS
    <2>2. FiniteSubsetsOf(S) = SUBSET S
      BY <1>1, FS_FiniteSubsetsOfFinite
    <2> QED
      BY <2>1, <2>2
  <1>3. PICK x \in T : \A y \in T : ~ (<<y, x>> \in StrictSubsetOrdering(S))
    <2> HIDE DEF T
    <2> QED
      BY <1>2, FS_StrictSubsetOrderingWellFounded, WFMin
  <1>4. PICK i \in S : x = Above(i)
    BY <1>3
  <1>5. ASSUME NEW j \in S PROVE j <= i
    <2> SUFFICES ASSUME i < j PROVE FALSE
      BY <1>5
    <2>1. Above(j) \subseteq Above(i) /\ i \in Above(i) /\ i \notin Above(j)
      <3>1. i \in Int /\ j \in Int /\ S \subseteq Int
        OBVIOUS
      <3>2. \A k \in Above(j) : k \in S /\ i <= k
        BY <3>1
      <3>3. i <= i /\ ~ (j <= i)
        BY <3>1
      <3> QED
        BY <3>2, <3>3
    <2>2. <<Above(j), Above(i)>> \in StrictSubsetOrdering(S)
      BY <2>1 DEF StrictSubsetOrdering
    <2> QED
      BY <1>3, <1>4, <2>2
  <1> QED
    BY <1>5

LEMMA EntryIsOne ==
  ASSUME entries \in Startup, NEW t, EntriesOf(t) # {}
  PROVE  EntryOf(t) \in DOMAIN entries
  <1>1. EntriesOf(t) \in SUBSET (1 .. Len(entries)) /\ Len(entries) \in Nat
    BY StartupAssumption DEF EntriesOf
  <1>2. \E i \in EntriesOf(t) : \A j \in EntriesOf(t) : j <= i
    BY <1>1, LastPosition
  <1>3. EntryOf(t) \in EntriesOf(t)
    BY <1>2 DEF EntryOf
  <1> QED
    BY <1>3 DEF EntriesOf

LEMMA TokenTypes ==
  ASSUME entries \in Startup, NEW t
  PROVE  /\ NameOf(t) \in Optional(Agent) /\ Bucket(t) \in Agent
         /\ ScopeOf(t) \in Optional(SUBSET Library)
  <1>1. CASE EntriesOf(t) = {}
    BY <1>1 DEF NameOf, ScopeOf, Bucket, Optional, Agent
  <1>2. CASE EntriesOf(t) # {}
    <2>1. EntryOf(t) \in DOMAIN entries
      BY <1>2, EntryIsOne
    <2>2. entries[EntryOf(t)].name \in Agent
      <3>1. entries[EntryOf(t)].name \in {entries[i].name : i \in DOMAIN entries}
        BY <2>1
      <3> QED
        BY <3>1 DEF Agent
    <2>3. entries[EntryOf(t)].scope \in Optional(SUBSET Library)
      BY <2>1, StartupAssumption DEF Optional
    <2> QED
      BY <1>2, <2>2, <2>3 DEF NameOf, ScopeOf, Bucket, Optional, Agent
  <1> QED
    BY <1>1, <1>2

LEMMA ScopeIsLibraries ==
  ASSUME entries \in Startup, NEW t, Scoped(t)
  PROVE  ScopeOf(t) \subseteq Library
  BY TokenTypes DEF Scoped, Optional

\* The list is fixed at startup.
LEMMA TokensStay ==
  ASSUME entries' = entries
  PROVE  \A t : ScopeOf(t)' = ScopeOf(t) /\ NameOf(t)' = NameOf(t) /\ Scoped(t)' = Scoped(t)
  <1> TAKE t
  <1>1. EntriesOf(t)' = EntriesOf(t)
    BY DEF EntriesOf
  <1>2. EntryOf(t)' = EntryOf(t)
    BY <1>1 DEF EntryOf
  <1> QED
    BY <1>1, <1>2 DEF ScopeOf, NameOf, Scoped

-----------------------------------------------------------------------------
(* The inductive invariant.                                                *)

\* A write is in a place its token may change.
Within(t, write) == Scoped(t) => write.place \in ScopeOf(t)

\* A write bears no name, its token's, or its memory's, unless it is a session.
Bears(t, write) ==
  entries # << >> => write.author \in {None, Kept, NameOf(t)} \/ write.place = "sessions"

\* The request in hand reads and writes where its token may, and is signed as
\* its token says.
Fits(t, w) ==
  /\ Scoped(t) => w.reads \subseteq ScopeOf(t) \cup {"names"}
  /\ \A write \in w.writes : Within(t, write) /\ Bears(t, write)

\* What a memory is signed with, an earlier server or the holder put there.
SignedAreHeld == entries # << >> => \A name \in signed : Held(name)

HandsFit == \A t \in Token : work[t] # Idle => Fits(t, work[t])

\* What an agent was let write within the minute is still counted.
Counted(agent) ==
  /\ IsFiniteSet(hits[agent]) /\ IsFiniteSet(granted[agent])
  /\ \A hit \in granted[agent] :
       hit.at <= clock /\ (Quota # 0 /\ clock - hit.at < Window => hit \in hits[agent])

IInv ==
  /\ GatewayTypeOK
  /\ Accepted(entries)
  /\ HandsFit
  /\ ScopeConfines
  /\ SignedAreHeld
  /\ SignedByItsHolder
  /\ \A agent \in Agent : Counted(agent)
  /\ QuotaHolds

LEMMA InitHolds == Init => IInv
  <1> SUFFICES ASSUME Init PROVE IInv
    OBVIOUS
  <1> USE GatewayAssumption, FS_EmptySet
  <1>1. GatewayTypeOK /\ Accepted(entries)
    BY DEF Init, GatewayTypeOK
  <1>2. HandsFit
    BY DEF Init, HandsFit
  <1>3. ScopeConfines
    BY DEF Init, ScopeConfines
  <1>4. SignedAreHeld /\ SignedByItsHolder
    BY DEF Init, SignedAreHeld, Held, SignedByItsHolder
  <1>5. \A agent \in Agent : Counted(agent)
    BY DEF Init, Counted
  <1>6. QuotaHolds
    <2> SUFFICES ASSUME Quota # 0, NEW agent \in Agent, NEW end \in 0 .. MaxClock
                 PROVE  Cardinality({hit \in granted[agent] : hit.at <= end /\ end - hit.at < Window}) <= Quota
      BY DEF QuotaHolds
    <2> DEFINE minute == {hit \in granted[agent] : hit.at <= end /\ end - hit.at < Window}
    <2>1. minute = {}
      BY DEF Init
    <2>2. Cardinality(minute) = 0
      BY <2>1, FS_EmptySet
    <2> HIDE DEF minute
    <2>3. Cardinality(minute) <= Quota
      BY <2>2, GatewayAssumption
    <2> QED
      BY <2>3 DEF minute
  <1> QED
    BY <1>1, <1>2, <1>3, <1>4, <1>5, <1>6 DEF IInv

-----------------------------------------------------------------------------
(* What a handler does to the state, whichever it is.                      *)

Forwards(t) ==
  \/ UNCHANGED work
  \/ \E w \in Forwarded : work' = [work EXCEPT ![t] = w] /\ Fits(t, w)

Pays ==
  \/ KeepBudget
  \/ \E agent \in Agent : Forget(agent)
  \/ \E agent \in Agent : ~Spent(agent) /\ SpendOne(agent)

\* Writes, with what they are signed with.
Signings == SUBSET [place : Place, author : Signature]

LEMMA Handing ==
  ASSUME NEW t \in Token, NEW reads \in SUBSET Place, NEW writes \in Signings,
         NEW job \in BOOLEAN,
         Hand(t, reads, writes, job),
         Scoped(t) => reads \subseteq ScopeOf(t) \cup {"names"},
         \A write \in writes : Within(t, write) /\ Bears(t, write)
  PROVE  Forwards(t)
  <1> DEFINE w == [pc |-> "serve", reads |-> reads, writes |-> writes, job |-> job]
  <1>1. w \in Forwarded
    BY DEF Forwarded, Signings
  <1>2. work' = [work EXCEPT ![t] = w]
    BY DEF Hand
  <1>3. Fits(t, w)
    BY DEF Fits
  <1> QED
    BY <1>1, <1>2, <1>3 DEF Forwards

\* On a server with agents every token it knows has a name.
LEMMA KnownIsNamed ==
  ASSUME entries \in Startup, NEW t, Known(t), entries # << >>
  PROVE  NameOf(t) # None
  <1>1. EntriesOf(t) # {}
    BY DEF Known
  <1>2. EntryOf(t) \in DOMAIN entries
    BY <1>1, EntryIsOne
  <1> QED
    BY <1>1, <1>2, StartupAssumption DEF NameOf

LEMMA AuthorIsOne ==
  ASSUME entries \in Startup, NEW t \in Token, Known(t),
         NEW header \in Optional(Claim), NEW body \in Optional(Claim)
  PROVE  /\ Author(t, header, body) \in Name
         /\ entries # << >> => Author(t, header, body) = NameOf(t)
  BY TokenTypes, KnownIsNamed DEF Author, Name, Optional

\* Writing under one name, in places the token may change.
LEMMA SigningFits ==
  ASSUME NEW t \in Token, NEW author \in Signature, NEW places \in SUBSET Place,
         Scoped(t) => places \subseteq ScopeOf(t),
         entries # << >> => author \in {None, Kept, NameOf(t)} \/ places \subseteq {"sessions"}
  PROVE  /\ Signing(author, places) \in Signings
         /\ \A write \in Signing(author, places) : Within(t, write) /\ Bears(t, write)
  BY DEF Signing, Signings, Within, Bears

LEMMA Offering ==
  ASSUME entries \in Startup, NEW t \in Token, NEW allowed \in BOOLEAN,
         NEW writes \in Signings, NEW job \in BOOLEAN,
         Offer(t, allowed, writes, job),
         allowed => \A write \in writes : Within(t, write) /\ Bears(t, write)
  PROVE  Forwards(t) /\ Pays
  <1>1. Bucket(t) \in Agent
    BY TokenTypes
  <1>2. CASE ~allowed
    BY <1>2 DEF Offer, Refuse, Forwards, Pays
  <1>3. CASE allowed /\ Spent(Bucket(t))
    BY <1>1, <1>3 DEF Offer, Refuse, Forwards, Pays
  <1>4. CASE allowed /\ ~Spent(Bucket(t))
    <2>1. Hand(t, {}, writes, job) /\ SpendOne(Bucket(t))
      BY <1>4 DEF Offer
    <2>2. Forwards(t)
      BY <1>4, <2>1, Handing
    <2> QED
      BY <1>1, <1>4, <2>1, <2>2 DEF Pays
  <1> QED
    BY <1>2, <1>3, <1>4

LEMMA ScopeIsSome ==
  ASSUME entries \in Startup, Accepted(entries), NEW t, Scoped(t)
  PROVE  ScopeOf(t) # {}
  <1>1. EntriesOf(t) # {} /\ ScopeOf(t) = entries[EntryOf(t)].scope
    BY DEF Scoped, ScopeOf
  <1> QED
    BY <1>1, EntryIsOne DEF Accepted

\* The tools are never given an empty list that means every library.
LEMMA AskedIsAllowed ==
  ASSUME entries \in Startup, Accepted(entries), NEW t \in Token, NEW r \in Naming, MayRead(t, r)
  PROVE  /\ Asked(t, r) \in SUBSET Library
         /\ Scoped(t) => Asked(t, r) \subseteq ScopeOf(t)
  <1>1. r.library \in Optional(Library) /\ r.libraries \in Optional(SUBSET Library)
    BY DEF Naming
  <1>2. Requested(r) \subseteq Library
    BY <1>1, GatewayAssumption DEF Requested, Optional
  <1>3. CASE Scoped(t)
    <2> DEFINE given == IF Requested(r) = {} THEN ScopeOf(t) ELSE Requested(r)
    <2>1. given \subseteq ScopeOf(t) /\ given # {} /\ ScopeOf(t) \subseteq Library
      BY <1>3, ScopeIsSome, ScopeIsLibraries DEF MayRead
    <2>2. given # None
      BY <2>1, GatewayAssumption
    <2>3. Asked(t, r) = given
      BY <1>3, <2>1, <2>2 DEF Asked, Confined, Filter, Found
    <2> QED
      BY <2>1, <2>3
  <1>4. CASE ~Scoped(t)
    <2>1. Filter(r) \subseteq Library
      BY <1>1, GatewayAssumption DEF Filter, Optional
    <2> QED
      BY <1>4, <2>1 DEF Asked, Found
  <1> QED
    BY <1>3, <1>4

-----------------------------------------------------------------------------
(* Each handler only forwards what fits, and only pays from its budget.    *)

Handled(t) == Arrives(t) /\ Forwards(t) /\ Pays

LEMMA NothingIsWritten == {} \in Signings
  BY DEF Signings

LEMMA SearchHandled ==
  ASSUME GatewayTypeOK, Accepted(entries), NEW t \in Token, Search(t)
  PROVE  Handled(t)
  <1>1. PICK r \in Naming :
          IF MayRead(t, r) THEN Hand(t, Asked(t, r), {}, FALSE) ELSE Refuse
    BY DEF Search
  <1>2. CASE MayRead(t, r)
    <2>1. Asked(t, r) \in SUBSET Place
      BY <1>2, AskedIsAllowed DEF GatewayTypeOK, Place
    <2>2. Forwards(t)
      BY <1>1, <1>2, <2>1, AskedIsAllowed, NothingIsWritten, Handing DEF GatewayTypeOK
    <2> QED
      BY <2>2 DEF Search, Handled, Pays
  <1>3. CASE ~MayRead(t, r)
    BY <1>1, <1>3 DEF Search, Handled, Refuse, Forwards, Pays
  <1> QED
    BY <1>2, <1>3

LEMMA RecallHandled ==
  ASSUME GatewayTypeOK, Accepted(entries), NEW t \in Token, Recall(t)
  PROVE  Handled(t)
  <1> DEFINE reads(r, text) == IF text THEN RecallText(t) ELSE RecallJson(t, r)
  <1>1. PICK r \in Naming, text \in BOOLEAN :
          IF MayRead(t, r) THEN Hand(t, reads(r, text), {}, FALSE) ELSE Refuse
    BY DEF Recall
  <1>2. CASE MayRead(t, r)
    <2>1. /\ Asked(t, r) \in SUBSET Library
          /\ Scoped(t) => Asked(t, r) \subseteq ScopeOf(t)
      BY <1>2, AskedIsAllowed DEF GatewayTypeOK
    <2>2. reads(r, text) \in SUBSET Place
      BY <2>1 DEF RecallText, RecallJson, Place, Shared
    <2>3. Scoped(t) => reads(r, text) \subseteq ScopeOf(t)
      BY <2>1 DEF RecallText, RecallJson
    <2>4. Forwards(t)
      BY <1>1, <1>2, <2>2, <2>3, NothingIsWritten, Handing
    <2> QED
      BY <2>4 DEF Recall, Handled, Pays
  <1>3. CASE ~MayRead(t, r)
    BY <1>1, <1>3 DEF Recall, Handled, Refuse, Forwards, Pays
  <1> QED
    BY <1>2, <1>3

LEMMA ByAgentHandled ==
  ASSUME GatewayTypeOK, NEW t \in Token, ByAgent(t)
  PROVE  Handled(t)
  <1> DEFINE reads == IF Scoped(t) THEN ScopeOf(t) ELSE Library
  <1>1. reads \in SUBSET Place /\ (Scoped(t) => reads \subseteq ScopeOf(t))
    BY ScopeIsLibraries DEF GatewayTypeOK, Place
  <1>2. Hand(t, reads, {}, FALSE)
    BY DEF ByAgent
  <1>3. Forwards(t)
    <2> HIDE DEF reads
    <2> QED
      BY <1>1, <1>2, NothingIsWritten, Handing
  <1> QED
    BY <1>3 DEF ByAgent, Handled, Pays

LEMMA ShouldSearchHandled ==
  ASSUME GatewayTypeOK, NEW t \in Token, ShouldSearch(t)
  PROVE  Handled(t)
  <1>1. {"names"} \in SUBSET Place
    BY DEF Place, Shared
  <1>2. Forwards(t)
    BY <1>1, NothingIsWritten, Handing DEF ShouldSearch
  <1> QED
    BY <1>2 DEF ShouldSearch, Handled, Pays

LEMMA AddHandled ==
  ASSUME GatewayTypeOK, NEW t \in Token, Add(t)
  PROVE  Handled(t)
  <1> DEFINE signs(json, header, body) == IF json THEN NameOf(t) ELSE Author(t, header, body)
  <1> DEFINE places(library) == {library} \ {None}
  <1>1. PICK library \in Optional(Library), json \in BOOLEAN,
             header \in Optional(Claim), body \in Optional(Claim) :
          Offer(t, MayWrite(t, library), Signing(signs(json, header, body), places(library)), FALSE)
    BY DEF Add
  <1>2. Known(t)
    BY DEF Add, Arrives
  <1>3. /\ signs(json, header, body) \in Signature
        /\ entries # << >> => signs(json, header, body) = NameOf(t)
    BY <1>2, AuthorIsOne, TokenTypes DEF GatewayTypeOK, Name, Signature, Optional
  <1>4. places(library) \in SUBSET Place
    BY DEF Optional, Place
  <1>5. MayWrite(t, library) /\ Scoped(t) => places(library) \subseteq ScopeOf(t)
    BY DEF MayWrite
  <1>6. MayWrite(t, library) \in BOOLEAN
    BY DEF MayWrite
  <1>7. Signing(signs(json, header, body), places(library)) \in Signings
    <2> HIDE DEF signs, places
    <2> QED
      BY <1>3, <1>4 DEF Signing, Signings
  <1>8. MayWrite(t, library) =>
          \A write \in Signing(signs(json, header, body), places(library)) :
             Within(t, write) /\ Bears(t, write)
    <2> HIDE DEF signs, places
    <2> QED
      BY <1>3, <1>4, <1>5, SigningFits
  <1>9. Forwards(t) /\ Pays
    <2> HIDE DEF signs, places
    <2> QED
      BY <1>1, <1>6, <1>7, <1>8, Offering DEF GatewayTypeOK
  <1> QED
    BY <1>9 DEF Add, Handled

LEMMA IngestHandled ==
  ASSUME GatewayTypeOK, NEW t \in Token, Ingest(t)
  PROVE  Handled(t)
  <1>1. PICK library \in Optional(Library), header \in Optional(Claim), body \in Optional(Claim),
             kinds \in SUBSET {"memory", "facts", "procedures"}, kept \in BOOLEAN :
          Offer(t, MayWrite(t, library), Stored(t, kinds, library, kept, Author(t, header, body)),
                kept /\ "memory" \in kinds /\ Extractor)
    BY DEF Ingest
  <1> DEFINE author == Author(t, header, body)
  <1> DEFINE writes == Stored(t, kinds, library, kept, author)
  <1>2. Known(t)
    BY DEF Ingest, Arrives
  <1>3. author \in Name /\ (entries # << >> => author = NameOf(t))
    BY <1>2, AuthorIsOne DEF GatewayTypeOK
  <1> HIDE DEF author
  <1>4. \A write \in writes :
          /\ write.author \in {None, author}
          /\ \/ write.place = (IF library = None THEN Default ELSE library)
             \/ ~Scoped(t) /\ write.place \in {"facts", "procedures"}
    BY DEF Stored, Signing
  <1>5. writes \in Signings
    <2>1. None \in Signature /\ author \in Signature
      BY <1>3 DEF Signature, Name, Optional
    <2>2. (IF library = None THEN Default ELSE library) \in Place
      BY GatewayAssumption DEF Optional, Place
    <2>3. {"facts", "procedures"} \subseteq Place
      BY DEF Place, Shared
    <2> QED
      BY <2>1, <2>2, <2>3 DEF Stored, Signing, Signings
  <1>6. MayWrite(t, library) => \A write \in writes : Within(t, write) /\ Bears(t, write)
    <2> SUFFICES ASSUME MayWrite(t, library), NEW write \in writes
                 PROVE  Within(t, write) /\ Bears(t, write)
      OBVIOUS
    <2>1. Within(t, write)
      <3> SUFFICES ASSUME Scoped(t) PROVE write.place \in ScopeOf(t)
        BY DEF Within
      <3>1. library \in ScopeOf(t) /\ library # None
        BY ScopeIsLibraries, GatewayAssumption DEF MayWrite, GatewayTypeOK
      <3> QED
        BY <1>4, <3>1
    <2>2. Bears(t, write)
      BY <1>3, <1>4 DEF Bears
    <2> QED
      BY <2>1, <2>2
  <1>7. MayWrite(t, library) \in BOOLEAN /\ (kept /\ "memory" \in kinds /\ Extractor) \in BOOLEAN
    BY DEF MayWrite
  <1>8. Forwards(t) /\ Pays
    <2>1. Offer(t, MayWrite(t, library), writes, kept /\ "memory" \in kinds /\ Extractor)
      BY <1>1 DEF author
    <2> HIDE DEF writes
    <2> QED
      BY <1>5, <1>6, <1>7, <2>1, Offering DEF GatewayTypeOK
  <1> QED
    BY <1>8 DEF Ingest, Handled

\* Every route stays in the known places; only a session is signed by a body,
\* and what is paid for is signed by its caller.
RouteFits(r) ==
  /\ r.reads \in SUBSET Place /\ r.writes \in SUBSET Place
  /\ r.signs \in {"nobody", "caller", "body", "memory"}
  /\ r.signs = "body" => r.writes \subseteq {"sessions"}
  /\ r.paid => r.signs = "caller"

LEMMA RoutesFit == \A r \in OtherRoutes : RouteFits(r)
  <1> USE DEF Reads, Writes, Paid, RouteFits, Place, Shared
  <1>1. \A r \in FactRoutes : RouteFits(r)
    BY DEF FactRoutes
  <1>2. \A r \in ProcedureRoutes : RouteFits(r)
    BY DEF ProcedureRoutes
  <1>3. \A r \in MemoryRoutes : RouteFits(r)
    BY DEF MemoryRoutes
  <1>4. \A r \in ByIdRoutes : RouteFits(r)
    BY DEF ByIdRoutes
  <1>5. \A r \in SessionRoutes : RouteFits(r)
    BY DEF SessionRoutes
  <1>6. \A r \in WatchRoutes : RouteFits(r)
    BY DEF WatchRoutes
  <1>7. \A r \in KvRoutes : RouteFits(r)
    BY DEF KvRoutes
  <1> HIDE DEF Reads, Writes, Paid, RouteFits, Place, Shared
  <1> QED
    BY <1>1, <1>2, <1>3, <1>4, <1>5, <1>6, <1>7 DEF OtherRoutes

LEMMA SignerFits ==
  ASSUME entries \in Startup, NEW t \in Token, Known(t),
         NEW signs \in {"nobody", "caller", "body", "memory"},
         NEW header \in Optional(Claim), NEW body \in Optional(Claim)
  PROVE  /\ Signer(t, signs, header, body) \in Signature
         /\ entries # << >> /\ signs # "body" => Signer(t, signs, header, body) \in {None, Kept, NameOf(t)}
  <1>1. /\ Author(t, header, body) \in Name
        /\ entries # << >> => Author(t, header, body) = NameOf(t)
    BY AuthorIsOne
  <1> QED
    BY <1>1 DEF Signer, Signature, Name, Optional

LEMMA OtherHandled ==
  ASSUME GatewayTypeOK, NEW t \in Token, Other(t)
  PROVE  Handled(t)
  <1>1. PICK r \in OtherRoutes, header \in Optional(Claim), body \in Optional(Claim) :
          LET writes == Signing(Signer(t, r.signs, header, body), r.writes)
          IN  IF ~Gate(t) THEN Refuse /\ KeepBudget
              ELSE IF r.paid THEN Offer(t, TRUE, writes, FALSE)
              ELSE Hand(t, r.reads, writes, FALSE) /\ KeepBudget
    BY DEF Other
  <1> DEFINE author == Signer(t, r.signs, header, body)
  <1> DEFINE writes == Signing(author, r.writes)
  <1>2. RouteFits(r) /\ Known(t)
    BY RoutesFit DEF Other, Arrives
  <1>3. /\ author \in Signature
        /\ entries # << >> => author \in {None, Kept, NameOf(t)} \/ r.writes \subseteq {"sessions"}
    BY <1>2, SignerFits DEF RouteFits, GatewayTypeOK
  <1>4. Gate(t) => writes \in Signings /\ \A write \in writes : Within(t, write) /\ Bears(t, write)
    <2> HIDE DEF author
    <2> QED
      BY <1>2, <1>3, SigningFits DEF Gate, RouteFits
  <1>5. Forwards(t) /\ Pays
    <2>1. CASE ~Gate(t)
      BY <1>1, <2>1 DEF Refuse, Forwards, Pays
    <2>2. CASE Gate(t) /\ r.paid
      <3>1. Offer(t, TRUE, writes, FALSE)
        BY <1>1, <2>2
      <3> HIDE DEF writes
      <3> QED
        BY <1>4, <2>2, <3>1, Offering DEF GatewayTypeOK
    <2>3. CASE Gate(t) /\ ~r.paid
      <3>1. Hand(t, r.reads, writes, FALSE) /\ KeepBudget
        BY <1>1, <2>3
      <3>2. ~Scoped(t) /\ r.reads \in SUBSET Place
        BY <1>2, <2>3 DEF Gate, RouteFits
      <3> HIDE DEF writes
      <3>3. Forwards(t)
        BY <1>4, <2>3, <3>1, <3>2, Handing
      <3> QED
        BY <3>1, <3>3 DEF Pays
    <2> QED
      BY <2>1, <2>2, <2>3
  <1> QED
    BY <1>5 DEF Other, Handled

-----------------------------------------------------------------------------
(* The budget.                                                             *)

\* What an agent was let write in the minute that ends at a tick.
Minute(marks, end) == {hit \in marks : hit.at <= end /\ end - hit.at < Window}

LEMMA MinuteHolds == QuotaHolds <=>
    (Quota # 0 =>
       \A agent \in Agent, end \in 0 .. MaxClock : Cardinality(Minute(granted[agent], end)) <= Quota)
  BY DEF QuotaHolds, Minute

\* A write is let pass when the minute, this write with it, is within the quota.
LEMMA GrantHolds ==
  ASSUME GatewayTypeOK, NEW agent \in Agent, Counted(agent), Quota # 0, ~Spent(agent),
         NEW hit \in Hit, hit.at = clock,
         NEW end \in 0 .. MaxClock, clock <= end
  PROVE  Cardinality(Minute(granted[agent] \cup {hit}, end)) <= Quota
  <1> DEFINE Pruned == Recent(hits[agent])
  <1>1. hits[agent] \in SUBSET Hit /\ granted[agent] \in SUBSET Hit /\ IsFiniteSet(hits[agent])
    BY DEF GatewayTypeOK, Counted
  <1>2. Pruned \in SUBSET hits[agent]
    BY DEF Recent
  <1>3. IsFiniteSet(Pruned)
    BY <1>1, <1>2, FS_Subset
  <1>4. Cardinality(Pruned) \in Nat /\ Cardinality(Pruned) < Quota
    <2>1. Cardinality(Pruned) \in Nat
      BY <1>3, FS_CardinalityType
    <2>2. ~ (Cardinality(Pruned) >= Quota)
      BY DEF Spent
    <2> QED
      BY <2>1, <2>2, GatewayAssumption
  <1>5. Minute(granted[agent] \cup {hit}, end) \subseteq Pruned \cup {hit}
    <2> SUFFICES ASSUME NEW h \in granted[agent], h.at <= end, end - h.at < Window
                 PROVE  h \in Pruned
      BY DEF Minute
    <2>1. h.at \in Nat /\ clock \in Nat /\ end \in Nat /\ Window \in Nat
      BY <1>1, GatewayAssumption DEF Hit, GatewayTypeOK
    <2>2. clock - h.at < Window
      BY <2>1
    <2>3. h \in hits[agent]
      BY <2>2 DEF Counted
    <2> QED
      BY <2>2, <2>3 DEF Recent
  <1>6. IsFiniteSet(Pruned \cup {hit}) /\ Cardinality(Pruned \cup {hit}) <= Cardinality(Pruned) + 1
    <2> HIDE DEF Pruned
    <2>1. Cardinality(Pruned \cup {hit}) = IF hit \in Pruned THEN Cardinality(Pruned) ELSE Cardinality(Pruned) + 1
      BY <1>3, FS_AddElement
    <2> QED
      BY <1>3, <1>4, <2>1, FS_AddElement
  <1>7. Cardinality(Minute(granted[agent] \cup {hit}, end)) <= Cardinality(Pruned \cup {hit})
    BY <1>5, <1>6, FS_Subset
  <1>8. /\ Cardinality(Minute(granted[agent] \cup {hit}, end)) \in Nat
        /\ Cardinality(Pruned \cup {hit}) \in Nat
    BY <1>5, <1>6, FS_Subset, FS_CardinalityType
  <1> QED
    BY <1>4, <1>6, <1>7, <1>8, GatewayAssumption

\* A tick that is over before a write is let pass does not see it.
LEMMA EarlierMinute ==
  ASSUME NEW marks \in SUBSET Hit, NEW hit \in Hit, NEW end \in 0 .. MaxClock, end < hit.at
  PROVE  Minute(marks \cup {hit}, end) = Minute(marks, end)
  <1>1. hit.at \in Nat /\ end \in Nat
    BY GatewayAssumption DEF Hit
  <1> QED
    BY <1>1 DEF Minute

Budgeted == /\ hits \in [Agent -> SUBSET Hit] /\ granted \in [Agent -> SUBSET Hit]
            /\ \A agent \in Agent : Counted(agent)
            /\ QuotaHolds

LEMMA ForgetKeeps ==
  ASSUME GatewayTypeOK, \A agent \in Agent : Counted(agent), QuotaHolds, UNCHANGED clock,
         NEW agent \in Agent, Forget(agent)
  PROVE  Budgeted'
  <1>1. hits' = [hits EXCEPT ![agent] = Recent(hits[agent])] /\ granted' = granted
    BY DEF Forget
  <1>2. hits' \in [Agent -> SUBSET Hit] /\ granted' \in [Agent -> SUBSET Hit]
    BY <1>1 DEF GatewayTypeOK, Recent
  <1>3. ASSUME NEW other \in Agent PROVE Counted(other)'
    <2>1. Counted(other)
      OBVIOUS
    <2>2. CASE other = agent
      <3>1. hits'[other] = Recent(hits[other]) /\ Recent(hits[other]) \in SUBSET hits[other]
        BY <1>1, <2>2 DEF GatewayTypeOK, Recent
      <3>2. IsFiniteSet(hits'[other])
        BY <2>1, <3>1, FS_Subset DEF Counted
      <3>3. \A hit \in hits[other] : clock - hit.at < Window => hit \in hits'[other]
        BY <3>1 DEF Recent
      <3> QED
        BY <1>1, <2>1, <3>2, <3>3 DEF Counted
    <2>3. CASE other # agent
      BY <1>1, <2>1, <2>3 DEF Counted, GatewayTypeOK
    <2> QED
      BY <2>2, <2>3
  <1>4. QuotaHolds'
    BY <1>1 DEF QuotaHolds
  <1> QED
    BY <1>2, <1>3, <1>4 DEF Budgeted

LEMMA SpendKeeps ==
  ASSUME GatewayTypeOK, \A agent \in Agent : Counted(agent), QuotaHolds, UNCHANGED clock,
         calls < MaxCalls, NEW agent \in Agent, ~Spent(agent), SpendOne(agent)
  PROVE  Budgeted'
  <1> DEFINE hit == [at |-> clock, call |-> calls + 1]
  <1>1. hit \in Hit /\ hit.at = clock /\ clock \in Nat
    BY GatewayAssumption DEF Hit, GatewayTypeOK
  <1>2. /\ hits' = IF Quota = 0 THEN hits ELSE [hits EXCEPT ![agent] = Recent(hits[agent]) \cup {hit}]
        /\ granted' = [granted EXCEPT ![agent] = granted[agent] \cup {hit}]
    BY DEF SpendOne
  <1> HIDE DEF hit
  <1>3. hits' \in [Agent -> SUBSET Hit] /\ granted' \in [Agent -> SUBSET Hit]
    BY <1>1, <1>2 DEF GatewayTypeOK, Recent
  <1>4. ASSUME NEW other \in Agent PROVE Counted(other)'
    <2>1. Counted(other) /\ IsFiniteSet(hits[other]) /\ IsFiniteSet(granted[other])
      BY DEF Counted
    <2>2. CASE other = agent
      <3>1. granted'[other] = granted[other] \cup {hit}
        BY <1>2, <2>2 DEF GatewayTypeOK
      <3>2. IsFiniteSet(granted'[other])
        BY <2>1, <3>1, FS_AddElement
      <3>3. /\ IsFiniteSet(hits'[other])
            /\ Quota # 0 => \A h \in hits[other] : clock - h.at < Window => h \in hits'[other]
            /\ Quota # 0 => hit \in hits'[other]
        <4>1. CASE Quota = 0
          BY <1>2, <2>1, <4>1
        <4>2. CASE Quota # 0
          <5>1. hits'[other] = Recent(hits[other]) \cup {hit}
            BY <1>2, <2>2, <4>2 DEF GatewayTypeOK
          <5>2. Recent(hits[other]) \in SUBSET hits[other]
            BY DEF Recent
          <5>3. IsFiniteSet(Recent(hits[other]))
            BY <2>1, <5>2, FS_Subset
          <5>4. IsFiniteSet(hits'[other])
            BY <5>1, <5>3, FS_AddElement
          <5> QED
            BY <5>1, <5>4 DEF Recent
        <4> QED
          BY <4>1, <4>2
      <3>4. ASSUME NEW h \in granted'[other]
            PROVE  h.at <= clock /\ (Quota # 0 /\ clock - h.at < Window => h \in hits'[other])
        <4>1. CASE h = hit
          BY <1>1, <3>3, <4>1
        <4>2. CASE h \in granted[other]
          BY <2>1, <3>3, <4>2 DEF Counted
        <4> QED
          BY <3>1, <4>1, <4>2
      <3> QED
        BY <3>2, <3>3, <3>4 DEF Counted
    <2>3. CASE other # agent
      <3>1. hits'[other] = hits[other] /\ granted'[other] = granted[other]
        BY <1>2, <2>3 DEF GatewayTypeOK
      <3> QED
        BY <2>1, <3>1 DEF Counted
    <2> QED
      BY <2>2, <2>3
  <1>5. QuotaHolds'
    <2> SUFFICES ASSUME Quota # 0, NEW other \in Agent, NEW end \in 0 .. MaxClock
                 PROVE  Cardinality(Minute(granted'[other], end)) <= Quota
      BY DEF QuotaHolds, Minute
    <2>1. Cardinality(Minute(granted[other], end)) <= Quota
      BY MinuteHolds
    <2>2. CASE other # agent
      <3>1. granted'[other] = granted[other]
        BY <1>2, <2>2 DEF GatewayTypeOK
      <3> QED
        BY <2>1, <3>1
    <2>3. CASE other = agent
      <3>1. granted'[other] = granted[other] \cup {hit} /\ granted[other] \in SUBSET Hit
        BY <1>2, <2>3 DEF GatewayTypeOK
      <3>2. CASE clock <= end
        BY <1>1, <2>3, <3>1, <3>2, GrantHolds
      <3>3. CASE end < clock
        BY <1>1, <2>1, <3>1, <3>3, EarlierMinute
      <3> QED
        BY <1>1, <3>2, <3>3
    <2> QED
      BY <2>2, <2>3
  <1> QED
    BY <1>3, <1>4, <1>5 DEF Budgeted

LEMMA TickKeeps ==
  ASSUME IInv, Tick
  PROVE  Budgeted'
  <1>1. clock \in Nat /\ clock' = clock + 1 /\ hits' = hits /\ granted' = granted
    BY DEF IInv, GatewayTypeOK, Tick
  <1>2. ASSUME NEW agent \in Agent PROVE Counted(agent)'
    <2>1. Counted(agent)
      BY DEF IInv
    <2>2. \A hit \in granted[agent] : hit.at \in Nat
      BY DEF IInv, GatewayTypeOK, Hit
    <2>3. ASSUME NEW hit \in granted[agent]
          PROVE  hit.at <= clock' /\ (Quota # 0 /\ clock' - hit.at < Window => hit \in hits[agent])
      <3>1. hit.at <= clock /\ (Quota # 0 /\ clock - hit.at < Window => hit \in hits[agent])
        BY <2>1 DEF Counted
      <3> QED
        BY <1>1, <2>2, <3>1, GatewayAssumption
    <2> QED
      BY <1>1, <2>1, <2>3 DEF Counted
  <1> QED
    BY <1>1, <1>2 DEF IInv, GatewayTypeOK, QuotaHolds, Budgeted

-----------------------------------------------------------------------------
(* Every step keeps the invariant.                                         *)

\* Who held a name, holds it.
LEMMA HeldStays ==
  ASSUME entries' = entries, written \subseteq written'
  PROVE  /\ \A w : OwnHand(w)' <=> OwnHand(w)
         /\ \A name : Held(name) => Held(name)'
  <1>1. \A u : NameOf(u)' = NameOf(u)
    BY TokensStay
  <1> QED
    BY <1>1 DEF OwnHand, Held

LEMMA NamesStay ==
  ASSUME IInv, entries' = entries, written' = written, signed' = signed
  PROVE  SignedAreHeld' /\ SignedByItsHolder'
  BY HeldStays DEF IInv, SignedAreHeld, SignedByItsHolder

LEMMA RequestKeeps ==
  ASSUME IInv, NEW t \in Token, Handled(t)
  PROVE  IInv'
  <1>1. /\ entries' = entries /\ clock' = clock /\ jobs' = jobs /\ seen' = seen /\ written' = written /\ signed' = signed
        /\ calls \in Nat /\ calls < MaxCalls /\ calls' = calls + 1 /\ Forwards(t) /\ Pays
    BY DEF Handled, Arrives, IInv, GatewayTypeOK
  <1>2. Budgeted'
    <2>1. CASE KeepBudget
      BY <1>1, <2>1 DEF KeepBudget, IInv, GatewayTypeOK, Budgeted, Counted, QuotaHolds
    <2>2. CASE \E agent \in Agent : Forget(agent)
      BY <1>1, <2>2, ForgetKeeps DEF IInv
    <2>3. CASE \E agent \in Agent : ~Spent(agent) /\ SpendOne(agent)
      BY <1>1, <2>3, SpendKeeps DEF IInv
    <2> QED
      BY <1>1, <2>1, <2>2, <2>3 DEF Pays
  <1>3. /\ work' \in [Token -> {Idle} \cup Forwarded]
        /\ \A u \in Token : work'[u] = work[u] \/ (u = t /\ Fits(t, work'[u]))
    BY <1>1 DEF Forwards, IInv, GatewayTypeOK
  <1>4. GatewayTypeOK' /\ Accepted(entries)'
    <2>1. hits' \in [Agent -> SUBSET Hit] /\ granted' \in [Agent -> SUBSET Hit]
      BY <1>2 DEF Budgeted
    <2>2. calls' \in 0 .. MaxCalls
      BY <1>1, GatewayAssumption
    <2>3. GatewayTypeOK /\ Accepted(entries)
      BY DEF IInv
    <2> QED
      BY <1>1, <1>3, <2>1, <2>2, <2>3 DEF GatewayTypeOK, Accepted
  <1>5. \A u \in Token : ScopeOf(u)' = ScopeOf(u) /\ NameOf(u)' = NameOf(u) /\ Scoped(u)' = Scoped(u)
    BY <1>1, TokensStay
  <1>6. HandsFit'
    BY <1>1, <1>3, <1>5 DEF IInv, HandsFit, Fits, Within, Bears
  <1>7. ScopeConfines'
    BY <1>1, <1>5 DEF IInv, ScopeConfines
  <1>8. SignedAreHeld' /\ SignedByItsHolder'
    BY <1>1, NamesStay
  <1> QED
    BY <1>2, <1>4, <1>6, <1>7, <1>8 DEF IInv, Budgeted

LEMMA BudgetStays ==
  ASSUME IInv, UNCHANGED <<hits, granted, clock>>
  PROVE  Budgeted'
  BY DEF IInv, GatewayTypeOK, Budgeted, Counted, QuotaHolds

LEMMA ServeKeeps ==
  ASSUME IInv, NEW t \in Token, Serve(t)
  PROVE  IInv'
  <1>1. work[t] \in Forwarded /\ Fits(t, work[t])
    BY DEF Serve, IInv, GatewayTypeOK, HandsFit
  <1>2. PICK name \in Optional(signed) :
          /\ written' = written \cup {Mark(t, write, name) : write \in work[t].writes}
          /\ signed' = signed \cup
               ({mark.author : mark \in {m \in {Mark(t, write, name) : write \in work[t].writes} :
                                          m.place \in Library}} \ {None})
    BY DEF Serve
  <1> DEFINE marks == {Mark(t, write, name) : write \in work[t].writes}
  <1>3. /\ entries' = entries /\ clock' = clock /\ calls' = calls /\ UNCHANGED <<hits, granted>>
        /\ work' = [work EXCEPT ![t] = Idle]
        /\ seen' = [seen EXCEPT ![t] = seen[t] \cup work[t].reads] /\ written' = written \cup marks
        /\ jobs' \subseteq Token
    BY <1>2 DEF Serve, IInv, GatewayTypeOK
  <1>4. \A new \in signed' \ signed : new # None /\ \E m \in marks : m.author = new /\ m.place \in Library
    BY <1>2
  <1>5. Budgeted'
    BY <1>3, BudgetStays
  <1>6. ASSUME NEW m \in marks
        PROVE  /\ m \in [by : Token, via : {"tool", "edit", "worker"}, author : Name, place : Place]
               /\ m.by = t /\ Within(t, m)
               /\ entries # << >> /\ m.author # None /\ m.place # "sessions" =>
                    OwnHand(m) \/ (m.via = "edit" /\ m.author \in signed)
    <2>1. PICK write \in work[t].writes : m = Mark(t, write, name)
      OBVIOUS
    <2>2. /\ write \in [place : Place, author : Signature] /\ Within(t, write) /\ Bears(t, write)
          /\ name \in signed \cup {None} /\ signed \subseteq Claim \cup Agent
      BY <1>1 DEF Forwarded, Fits, Optional, IInv, GatewayTypeOK
    <2>3. CASE write.author = Kept
      <3>1. m = [by |-> t, via |-> "edit", author |-> name, place |-> write.place]
        BY <2>1, <2>3 DEF Mark
      <3> QED
        BY <2>2, <3>1 DEF Name, Optional, Within
    <2>4. CASE write.author # Kept
      <3>1. m = [by |-> t, via |-> "tool", author |-> write.author, place |-> write.place]
        BY <2>1, <2>4 DEF Mark
      <3>2. write.author \in Name
        BY <2>2, <2>4 DEF Signature
      <3> QED
        BY <2>2, <2>4, <3>1, <3>2 DEF Within, Bears, OwnHand
    <2> QED
      BY <2>3, <2>4
  <1> HIDE DEF marks
  <1>7. \A u : ScopeOf(u)' = ScopeOf(u) /\ NameOf(u)' = NameOf(u) /\ Scoped(u)' = Scoped(u)
    BY <1>3, TokensStay
  <1>8. GatewayTypeOK' /\ Accepted(entries)'
    <2>1. signed' \subseteq Claim \cup Agent
      BY <1>4, <1>6 DEF IInv, GatewayTypeOK, Name, Optional
    <2>2. work[t].reads \subseteq Place
      BY <1>1 DEF Forwarded
    <2>3. /\ work' \in [Token -> {Idle} \cup Forwarded] /\ seen' \in [Token -> SUBSET Place]
      BY <1>3, <2>2 DEF IInv, GatewayTypeOK
    <2> QED
      BY <1>3, <1>5, <1>6, <2>1, <2>3 DEF IInv, GatewayTypeOK, Accepted, Budgeted
  <1>9. HandsFit'
    <2>1. \A u \in Token : work'[u] = work[u] \/ work'[u] = Idle
      BY <1>3 DEF IInv, GatewayTypeOK
    <2> QED
      BY <1>3, <1>7, <2>1 DEF IInv, HandsFit, Fits, Within, Bears
  <1>10. ScopeConfines'
    <2> SUFFICES ASSUME NEW u \in Token, Scoped(u)
                 PROVE  /\ seen'[u] \subseteq ScopeOf(u) \cup {"names"}
                        /\ \A w \in written' : w.by = u /\ w.via # "worker" => w.place \in ScopeOf(u)
      BY <1>7 DEF ScopeConfines
    <2>1. /\ seen[u] \subseteq ScopeOf(u) \cup {"names"}
          /\ \A w \in written : w.by = u /\ w.via # "worker" => w.place \in ScopeOf(u)
      BY DEF IInv, ScopeConfines
    <2>2. seen'[u] = seen[u] \/ (u = t /\ seen'[u] = seen[u] \cup work[t].reads)
      BY <1>3 DEF IInv, GatewayTypeOK
    <2>3. u = t => work[t].reads \subseteq ScopeOf(u) \cup {"names"}
      BY <1>1 DEF Fits
    <2>4. \A w \in marks : w.by = t /\ Within(t, w)
      BY <1>6
    <2> QED
      BY <1>3, <2>1, <2>2, <2>3, <2>4 DEF Within
  <1>11. /\ \A w : OwnHand(w)' <=> OwnHand(w)
         /\ \A n : Held(n) => Held(n)'
    BY <1>3, HeldStays
  <1>12. SignedByItsHolder'
    <2> SUFFICES ASSUME entries # << >>, NEW w \in written', w.author # None, w.place # "sessions"
                 PROVE  OwnHand(w)' \/ (w.via = "edit" /\ Held(w.author)')
      BY <1>3 DEF SignedByItsHolder
    <2>1. OwnHand(w) \/ (w.via = "edit" /\ Held(w.author))
      <3>1. CASE w \in written
        BY <3>1 DEF IInv, SignedByItsHolder
      <3>2. CASE w \in marks
        BY <1>6, <3>2 DEF IInv, SignedAreHeld
      <3> QED
        BY <1>3, <3>1, <3>2
    <2> QED
      BY <1>11, <2>1
  <1>13. SignedAreHeld'
    <2> SUFFICES ASSUME entries # << >>, NEW new \in signed' PROVE Held(new)'
      BY <1>3 DEF SignedAreHeld
    <2>1. CASE new \in signed
      BY <1>11, <2>1 DEF IInv, SignedAreHeld
    <2>2. CASE new \notin signed
      <3>1. PICK m \in marks : m.author = new /\ m.place \in Library
        BY <1>4, <2>2
      <3>2. new # None
        BY <1>4, <2>2
      <3>3. m.place # "sessions"
        BY <3>1, PlaceAssumption DEF Shared
      <3>4. OwnHand(m)
        BY <1>6, <2>2, <3>1, <3>2, <3>3
      <3> QED
        BY <1>3, <1>11, <3>1, <3>4 DEF Held
    <2> QED
      BY <2>1, <2>2
  <1> QED
    BY <1>5, <1>8, <1>9, <1>10, <1>12, <1>13 DEF IInv, Budgeted

LEMMA FailKeeps ==
  ASSUME IInv, NEW t \in Token, Fail(t)
  PROVE  IInv'
  <1>1. /\ entries' = entries /\ UNCHANGED <<hits, clock, signed, jobs, calls, seen, written, granted>>
        /\ work' = [work EXCEPT ![t] = Idle]
    BY DEF Fail
  <1>2. Budgeted'
    BY <1>1, BudgetStays
  <1>3. \A u \in Token : ScopeOf(u)' = ScopeOf(u) /\ NameOf(u)' = NameOf(u) /\ Scoped(u)' = Scoped(u)
    BY <1>1, TokensStay
  <1>4. GatewayTypeOK' /\ Accepted(entries)'
    BY <1>1, <1>2 DEF IInv, GatewayTypeOK, Accepted, Budgeted
  <1>5. HandsFit'
    <2>1. \A u \in Token : work'[u] = work[u] \/ work'[u] = Idle
      BY <1>1 DEF IInv, GatewayTypeOK
    <2> QED
      BY <1>1, <1>3, <2>1 DEF IInv, HandsFit, Fits, Within, Bears
  <1>6. ScopeConfines'
    BY <1>1, <1>3 DEF IInv, ScopeConfines
  <1>7. SignedAreHeld' /\ SignedByItsHolder'
    BY <1>1, NamesStay
  <1> QED
    BY <1>2, <1>4, <1>5, <1>6, <1>7 DEF IInv, Budgeted

LEMMA ExtractKeeps ==
  ASSUME IInv, NEW t \in Token, Extract(t)
  PROVE  IInv'
  <1> DEFINE mark == [by |-> t, via |-> "worker", author |-> None, place |-> "facts"]
  <1>1. /\ entries' = entries /\ UNCHANGED <<hits, clock, work, signed, calls, seen, granted>>
        /\ jobs' \subseteq jobs /\ written' = written \cup {mark}
    BY DEF Extract
  <1>2. Budgeted'
    BY <1>1, BudgetStays
  <1>3. \A u \in Token : ScopeOf(u)' = ScopeOf(u) /\ NameOf(u)' = NameOf(u) /\ Scoped(u)' = Scoped(u)
    BY <1>1, TokensStay
  <1>4. mark \in [by : Token, via : {"tool", "edit", "worker"}, author : Name, place : Place]
    BY DEF Name, Optional, Place, Shared
  <1>5. GatewayTypeOK' /\ Accepted(entries)'
    BY <1>1, <1>2, <1>4 DEF IInv, GatewayTypeOK, Accepted, Budgeted
  <1>6. HandsFit'
    BY <1>1, <1>3 DEF IInv, HandsFit, Fits, Within, Bears
  <1>7. ScopeConfines'
    <2>1. mark.via = "worker"
      OBVIOUS
    <2> HIDE DEF mark
    <2> QED
      BY <1>1, <1>3, <2>1 DEF IInv, ScopeConfines
  <1>8. SignedAreHeld' /\ SignedByItsHolder'
    <2>1. mark.author = None /\ written \subseteq written'
      BY <1>1
    <2>2. /\ \A w : OwnHand(w)' <=> OwnHand(w)
          /\ \A n : Held(n) => Held(n)'
      BY <1>1, <2>1, HeldStays
    <2> HIDE DEF mark
    <2> QED
      BY <1>1, <2>1, <2>2 DEF IInv, SignedAreHeld, SignedByItsHolder
  <1> QED
    BY <1>2, <1>5, <1>6, <1>7, <1>8 DEF IInv, Budgeted

LEMMA StepKeeps == IInv /\ [Next]_gatewayVars => IInv'
  <1> SUFFICES ASSUME IInv, [Next]_gatewayVars PROVE IInv'
    OBVIOUS
  <1>1. GatewayTypeOK /\ Accepted(entries)
    BY DEF IInv
  <1>2. ASSUME NEW t \in Token,
               \/ Search(t) \/ Recall(t) \/ ByAgent(t) \/ Add(t) \/ Ingest(t) \/ Other(t) \/ ShouldSearch(t)
        PROVE  IInv'
    <2>1. Handled(t)
      BY <1>1, <1>2, SearchHandled, RecallHandled, ByAgentHandled, AddHandled, IngestHandled,
         OtherHandled, ShouldSearchHandled
    <2> QED
      BY <2>1, RequestKeeps
  <1>3. ASSUME NEW t \in Token, Serve(t) \/ Fail(t) \/ Extract(t) PROVE IInv'
    BY <1>3, ServeKeeps, FailKeeps, ExtractKeeps
  <1>4. CASE Tick
    <2>1. /\ UNCHANGED <<entries, work, signed, jobs, calls, seen, written>>
          /\ clock \in Nat /\ clock < MaxClock /\ clock' = clock + 1
      BY <1>4 DEF Tick, IInv, GatewayTypeOK
    <2>2. Budgeted'
      BY <1>4, TickKeeps
    <2>3. \A u \in Token : ScopeOf(u)' = ScopeOf(u) /\ NameOf(u)' = NameOf(u) /\ Scoped(u)' = Scoped(u)
      BY <2>1, TokensStay
    <2>4. GatewayTypeOK' /\ Accepted(entries)'
      <3>1. hits' \in [Agent -> SUBSET Hit] /\ granted' \in [Agent -> SUBSET Hit]
        BY <2>2 DEF Budgeted
      <3>2. clock' \in 0 .. MaxClock
        BY <2>1, GatewayAssumption
      <3> QED
        BY <1>1, <2>1, <3>1, <3>2 DEF GatewayTypeOK, Accepted
    <2>5. HandsFit' /\ ScopeConfines'
      BY <2>1, <2>3 DEF IInv, HandsFit, Fits, Within, Bears, ScopeConfines
    <2>6. SignedAreHeld' /\ SignedByItsHolder'
      BY <2>1, NamesStay
    <2> QED
      BY <2>2, <2>4, <2>5, <2>6 DEF IInv, Budgeted
  <1>5. CASE UNCHANGED gatewayVars
    <2>1. /\ UNCHANGED <<entries, hits, clock, work, signed, jobs, calls, seen, written, granted>>
      BY <1>5 DEF gatewayVars
    <2>2. Budgeted'
      BY <2>1, BudgetStays
    <2>3. \A u \in Token : ScopeOf(u)' = ScopeOf(u) /\ NameOf(u)' = NameOf(u) /\ Scoped(u)' = Scoped(u)
      BY <2>1, TokensStay
    <2>4. GatewayTypeOK' /\ Accepted(entries)'
      BY <2>1 DEF IInv, GatewayTypeOK, Accepted
    <2>5. HandsFit' /\ ScopeConfines'
      BY <2>1, <2>3 DEF IInv, HandsFit, Fits, Within, Bears, ScopeConfines
    <2>6. SignedAreHeld' /\ SignedByItsHolder'
      BY <2>1, NamesStay
    <2> QED
      BY <2>2, <2>4, <2>5, <2>6 DEF IInv, Budgeted
  <1> QED
    BY <1>2, <1>3, <1>4, <1>5 DEF Next

-----------------------------------------------------------------------------
(* Theorems.                                                               *)

\* The invariant holds in every state the server reaches.
THEOREM Invariance == Spec => []IInv
  BY InitHolds, StepKeeps, PTL DEF Spec

\* Whatever the requests, the state is well typed.
THEOREM TypeCorrect == Spec => []GatewayTypeOK
  <1>1. IInv => GatewayTypeOK
    BY DEF IInv
  <1> QED
    BY <1>1, Invariance, PTL

\* Whatever a confined token asks for, its answers and its tools stay within
\* the libraries it is confined to, for every list the server accepts.
THEOREM Confinement == Spec => []ScopeConfines
  <1>1. IInv => ScopeConfines
    BY DEF IInv
  <1> QED
    BY <1>1, Invariance, PTL

\* Nobody but its holder puts a name into the store of a server with agents,
\* whatever the header and the body claim and whatever is edited.
THEOREM Attribution == Spec => []SignedByItsHolder
  <1>1. IInv => SignedByItsHolder
    BY DEF IInv
  <1> QED
    BY <1>1, Invariance, PTL

\* No agent is let write more often in any minute than the quota says, with
\* any number of tokens and requests in flight.
THEOREM Frugality == Spec => []QuotaHolds
  <1>1. IInv => QuotaHolds
    BY DEF IInv
  <1> QED
    BY <1>1, Invariance, PTL

=============================================================================
