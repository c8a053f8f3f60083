------------------------------ MODULE IngestProofs ------------------------------
(***************************************************************************)
(* The write path of one history keeps its promises for any sessions,      *)
(* statements, batches, replies and verdicts, and any number of calls that *)
(* fail, are killed or follow each other.                                  *)
(*                                                                         *)
(* The argument has three parts.  A call prepares claims that some reading *)
(* of the batches yields (PlanRead), whether the replies were kept or not. *)
(* The comparison goes through each attribute in order of time: a revision *)
(* runs from a later claim to an earlier one, there is one from each claim *)
(* at most, and whoever was compared is revised or judged (InOrder,        *)
(* EdgesPlanned, AllSurface, LatestStand); so whatever supersedes in the   *)
(* store runs against time, and a circle has no least claim to start from  *)
(* (EdgesRead).  The batches of the load find what the earlier ones        *)
(* brought (Loads), and nothing that was brought is taken away, but for    *)
(* the lexicon when a write of it is cut short (ReportsStand).             *)
(***************************************************************************)
EXTENDS Ingest, BeliefFoldProofs

----------------------------------------------------------------------------
(* Types *)

Readers == {"rule", "llm"}
Claims == {Claim(s, x) : s \in Statement, x \in Readers}
Revision == [rel : Relation, newer : Nat, older : Nat, ingest : Nat, conf : Nat]
Phases == {"idle", "extract", "resolve", "load", "lexicon", "done"}

Fields(r, S) == DOMAIN r = S

Commands == [phase : Phases, extractor : Readers, judged : BOOLEAN, try : 1..2, attempt : Nat]

CommandInv ==
  /\ command \in Commands
  /\ used \subseteq Readers \X BOOLEAN
  /\ command.phase # "idle" => <<command.extractor, command.judged>> \in used

CacheInv ==
  /\ Fields(cache, {"replies", "verdicts"})
  /\ DOMAIN cache.replies \subseteq 1..Batches
  /\ \A b \in DOMAIN cache.replies : cache.replies[b] \in Found(b)
  /\ \A p \in DOMAIN cache.verdicts : cache.verdicts[p] \in Verdicts

PlanInv ==
  /\ plan \in [claims : SUBSET Claims, edges : SUBSET Revision, todo : SUBSET Claims,
               head : SUBSET Claims, apart : SUBSET Claims, loaded : 0..6]
  /\ IsFiniteSet(plan.edges)
  /\ command.phase \in {"idle", "extract"} => plan = EmptyPlan
  /\ command.phase = "resolve" => plan.loaded = 0
  /\ command.phase \in {"lexicon", "done"} => plan.loaded = 6
  /\ command.phase = "load" => plan.loaded # 6

StoreInv ==
  /\ Fields(store, {"turns", "entities", "claims", "about", "cited", "rev"})
  /\ DOMAIN store.claims \subseteq Nat
  /\ \A i \in DOMAIN store.claims :
        store.claims[i].event \in Int /\ store.claims[i].ingest \in Int /\ store.claims[i].conf \in Int
  /\ store.about \subseteq DOMAIN store.claims
  /\ store.rev \subseteq Revision /\ IsFiniteSet(store.rev)
  /\ \A e, f \in store.rev : e.rel = f.rel /\ e.newer = f.newer /\ e.older = f.older => e = f


----------------------------------------------------------------------------
(* Claims *)

LEMMA Statements == Statement = 1..Len(Said) /\ Statement \subseteq Nat /\ IsFiniteSet(Statement)
  <1>1. Said \in Seq(Range(Said))
    BY IngestAssumption
  <1>2. Len(Said) \in Nat /\ DOMAIN Said = 1..Len(Said)
    BY <1>1
  <1> QED BY <1>2, FS_Interval DEF Statement

\* The place that prepareClaims gives to a claim is a session.
LEMMA OrdinalIs ==
  ASSUME NEW s \in Statement, NEW x \in Readers
  PROVE  Ordinal(s, x) \in DOMAIN Session
  <1> DEFINE id == Session[Said[s].session].id
             T == {o \in DOMAIN Session : Session[o].id = id}
  <1>1. Session \in Seq(Range(Session)) /\ Said[s].session \in DOMAIN Session
    BY IngestAssumption
  <1>2. Len(Session) \in Nat /\ DOMAIN Session = 1..Len(Session)
    BY <1>1
  <1>3. T \subseteq Nat /\ T # {}
    BY <1>1, <1>2
  <1>4. PICK m \in T : \A n \in T : m <= n
    BY <1>3, NatLeast
  <1>5. \A p \in 1..m - 1 : p \in DOMAIN Session /\ p \notin T
    BY <1>2, <1>4
  <1>6. m \in DOMAIN Session /\ Session[m].id = id /\ \A p \in 1..m - 1 : Session[p].id # id
    BY <1>4, <1>5
  <1>7. FirstOrdinal(id) \in DOMAIN Session
    BY <1>6 DEF FirstOrdinal
  <1> QED BY <1>1, <1>7 DEF Ordinal

LEMMA ClaimIs ==
  ASSUME NEW s \in Statement, NEW x \in Readers
  PROVE  /\ Claim(s, x).id \in Nat /\ Claim(s, x).event \in Int /\ Claim(s, x).conf \in Nat
         /\ Claim(s, x).ordinal = Ordinal(s, x) /\ Claim(s, x).turn = Said[s].turn
  <1>1. Vid(ClaimKey(s, x)) \in Nat
    BY IdsAssumption DEF Readers
  <1>2. EventTime(s, x) \in Int
    <2>1. Session[Ordinal(s, x)].date \in Int /\ Said[s].date \in Int
      BY OrdinalIs, IngestAssumption
    <2> QED BY <2>1 DEF EventTime
  <1> QED BY <1>1, <1>2 DEF Claim, Confidence

LEMMA ClaimsAre ==
  \A c \in Claims : c.id \in Nat /\ c.event \in Int /\ c.conf \in Nat
  BY ClaimIs DEF Claims

\* prepareClaims keeps one claim of each id, the first.
LEMMA PreparedIs ==
  ASSUME NEW F, F \subseteq Statement, NEW x \in Readers
  PROVE  /\ Prepared(F, x) \subseteq Claims /\ IsFiniteSet(Prepared(F, x))
         /\ \A c, d \in Prepared(F, x) : c.id = d.id => c = d
         /\ \A s \in F : \E c \in Prepared(F, x) : c.id = Claim(s, x).id
  <1> DEFINE K == {s \in F : \A r \in F : r < s => Claim(r, x).id # Claim(s, x).id}
  <1>1. Prepared(F, x) = {Claim(s, x) : s \in K}
    BY DEF Prepared
  <1>2. IsFiniteSet(K) /\ K \subseteq Statement /\ F \subseteq Nat
    BY Statements, FS_Subset
  <1>3. IsFiniteSet(Prepared(F, x))
    <2> DEFINE f == [s \in K |-> Claim(s, x)]
    <2>1. f \in Surjection(K, Prepared(F, x))
      BY <1>1 DEF Surjection
    <2> HIDE DEF f
    <2> QED BY <1>2, <2>1, FS_Surjection
  <1>4. Prepared(F, x) \subseteq Claims
    BY <1>1, <1>2 DEF Claims
  <1>5. ASSUME NEW c \in Prepared(F, x), NEW d \in Prepared(F, x), c.id = d.id PROVE c = d
    <2>1. PICK s \in K : c = Claim(s, x)
      BY <1>1
    <2>2. PICK r \in K : d = Claim(r, x)
      BY <1>1
    <2>3. ~(r < s) /\ ~(s < r) /\ r \in Nat /\ s \in Nat
      BY <1>2, <1>5, <2>1, <2>2
    <2> QED BY <2>1, <2>2, <2>3
  <1>6. ASSUME NEW s \in F PROVE \E c \in Prepared(F, x) : c.id = Claim(s, x).id
    <2> DEFINE T == {r \in F : Claim(r, x).id = Claim(s, x).id}
    <2>1. T \subseteq Nat /\ T # {}
      BY <1>2
    <2>2. PICK m \in T : \A n \in T : m <= n
      BY <2>1, NatLeast
    <2>3. m \in K
      BY <1>2, <2>2
    <2> QED BY <1>1, <2>2, <2>3
  <1> QED BY <1>3, <1>4, <1>5, <1>6

\* A claim that is the first of its id among some statements is so among fewer.
LEMMA PreparedOfPart ==
  ASSUME NEW F, NEW x, NEW c \in Prepared(F, x)
  PROVE  \E s \in F : \A G \in SUBSET F : s \in G => c \in Prepared(G, x)
  <1>1. PICK s \in F : c = Claim(s, x) /\ \A r \in F : r < s => Claim(r, x).id # Claim(s, x).id
    BY DEF Prepared
  <1> QED BY <1>1 DEF Prepared

----------------------------------------------------------------------------
(* What has been read *)

\* The claims that a call by the extractor x may prepare.
Known(x) ==
  IF x = "llm" THEN UNION {Prepared(F, x) : F \in UNION {Found(b) : b \in 1..Batches}}
  ELSE Prepared(RuleSees, x)

\* A batch that has settled was read, or it failed.
SlotsInv ==
  /\ command.phase = "extract" =>
        /\ DOMAIN slots = IF command.extractor = "llm" THEN 1..Batches ELSE {}
        /\ \A b \in DOMAIN slots :
              Fields(slots[b], {"is", "found"}) /\ slots[b].found \in {{}} \union Found(b)
  /\ command.phase # "extract" => DOMAIN slots = {}

Planned == command.phase \in {"resolve", "load", "lexicon", "done"}

PlanRead ==
  Planned => /\ \E F \in SUBSET Statement : plan.claims = Prepared(F, command.extractor)
             /\ plan.claims \subseteq Known(command.extractor)

LEMMA FoundIsSaid ==
  ASSUME NEW b \in 1..Batches, NEW F \in Found(b)
  PROVE  F \subseteq Statement
  BY IngestAssumption

LEMMA KnownIs ==
  ASSUME NEW x \in Readers
  PROVE  Known(x) \subseteq Claims
  <1>1. CASE x # "llm"
    BY <1>1, PreparedIs, IngestAssumption DEF Known
  <1>2. CASE x = "llm"
    <2>1. ASSUME NEW b \in 1..Batches, NEW F \in Found(b) PROVE Prepared(F, x) \subseteq Claims
      BY <2>1, FoundIsSaid, PreparedIs
    <2> QED BY <1>2, <2>1 DEF Known
  <1> QED BY <1>1, <1>2

\* What is prepared of several readings together is what one of them yields.
LEMMA PreparedIsKnown ==
  ASSUME NEW f, \A b \in DOMAIN f : b \in 1..Batches /\ f[b] \in {{}} \union Found(b)
  PROVE  /\ UNION {f[b] : b \in DOMAIN f} \subseteq Statement
         /\ Prepared(UNION {f[b] : b \in DOMAIN f}, "llm") \subseteq Known("llm")
  <1> DEFINE F == UNION {f[b] : b \in DOMAIN f}
  <1>1. \A b \in DOMAIN f : f[b] \subseteq F
    OBVIOUS
  <1>2. F \subseteq Statement
    BY FoundIsSaid
  <1>3. ASSUME NEW s \in F PROVE \E b \in DOMAIN f : s \in f[b]
    OBVIOUS
  <1> HIDE DEF F
  <1>4. ASSUME NEW c \in Prepared(F, "llm") PROVE c \in Known("llm")
    <2>1. PICK s \in F : \A G \in SUBSET F : s \in G => c \in Prepared(G, "llm")
      BY PreparedOfPart
    <2>2. PICK b \in DOMAIN f : s \in f[b]
      BY <1>3
    <2>3. f[b] \in Found(b) /\ b \in 1..Batches /\ c \in Prepared(f[b], "llm")
      BY <1>1, <2>1, <2>2
    <2> QED BY <2>3 DEF Known
  <1> QED BY <1>2, <1>4 DEF F

----------------------------------------------------------------------------
(* What revises what *)

\* A claim displaces an earlier one of its attribute, or takes a member back.
Overrules(c, d) ==
  /\ c.attr = d.attr
  /\ IF Arity(c.attr) = "FUNCTIONAL" THEN Before(d, c)
     ELSE c.polarity = "NEGATE" /\ d.polarity = "AFFIRM"

\* The two claims of a supersession, and by which kind of call it was written.
Displaces(e, c, d, judged) ==
  /\ e.newer = c.id /\ e.older = d.id /\ Overrules(c, d)
  /\ ~judged /\ Arity(c.attr) = "FUNCTIONAL" => d.event < c.event

EdgesRead ==
  \A e \in EdgesOf(store.rev \union plan.edges, "SUPERSEDES") :
    \E u \in used : \E c \in Known(u[1]), d \in Known(u[1]) : Displaces(e, c, d, u[2])

----------------------------------------------------------------------------
(* The comparison of claims *)

\* Each attribute is gone through in order: who was compared comes before who
\* was not, and when only a part of an attribute was, the head is of that
\* attribute.
InOrder ==
  /\ plan.todo \subseteq Queue(plan.claims) /\ plan.head \subseteq Queue(plan.claims) \ plan.todo
  /\ \A g, h \in plan.head : g = h
  /\ \A d \in Queue(plan.claims) \ plan.todo, c \in plan.todo :
        d.attr = c.attr => Before(d, c) /\ \E h \in plan.head : h.attr = c.attr

\* An edge starts at a claim that was compared, one at each, and ends in another.
EdgesPlanned ==
  /\ \A e \in plan.edges : \E c, d \in plan.claims :
        c \notin plan.todo /\ c # d /\ e.newer = c.id /\ e.older = d.id
  /\ \A e, f \in plan.edges : e.newer = f.newer => e = f

\* A claim that was compared with an earlier one is revised against one, or was
\* judged to be about something else.
Surfaced(c) == c \in plan.apart \/ \E e \in plan.edges : e.newer = c.id
EarlierOf(c) == {d \in plan.claims : d.attr = c.attr /\ Before(d, c)}
AllSurface == \A c \in Queue(plan.claims) \ plan.todo : EarlierOf(c) # {} => Surfaced(c)

\* Compared by the rule alone, what an attribute has said before its latest value
\* is displaced, or supports what was.
Timed(a) ==
  \A c, d \in plan.claims : c.attr = a /\ d.attr = a => c.event > Unknown /\ (c.event = d.event => c = d)
Fell(c) ==
  \E e \in plan.edges : \/ e.rel = "SUPERSEDES" /\ e.older = c.id
                        \/ e.rel = "SUPPORTS" /\ e.newer = c.id
Told(a) == {c \in Queue(plan.claims) \ plan.todo : c.attr = a}
LatestOf(l, D) == l \in D /\ \A d \in D : d.event <= l.event
LatestStand ==
  ~command.judged =>
    \A a \in {c.attr : c \in Queue(plan.claims)} : Timed(a) =>
      /\ \A c, l \in Told(a) : LatestOf(l, Told(a)) => Fell(c) \/ c.value = l.value
      /\ \A h \in plan.head : h.attr = a =>
            /\ \A c \in Told(a) : Fell(c) \/ c = h
            /\ \A l \in Told(a) : LatestOf(l, Told(a)) => l.value = h.value

Compares == InOrder /\ EdgesPlanned /\ AllSurface /\ LatestStand

----------------------------------------------------------------------------
(* The load *)

Landed(k) == command.phase \in {"load", "lexicon", "done"} /\ plan.loaded >= k

Loads ==
  /\ command.phase \in {"load", "lexicon", "done"} => plan.todo = {}
  /\ Landed(1) => /\ store.turns = Turns
                  /\ \A c \in plan.claims : c.id \in DOMAIN store.claims /\ store.claims[c.id] = Row(c)
  /\ Landed(2) => \A c \in plan.claims : c.id \in store.about
  /\ Landed(3) => \A c \in plan.claims :
                     <<c.ordinal, c.turn>> \in Turns => <<c.id, <<c.ordinal, c.turn>>>> \in store.cited
  /\ \A k \in 4..6 : Landed(k) => EdgesOf(plan.edges, LoadOrder[k]) \subseteq store.rev

\* What a call reported stays findable.
LexiconInv == Fields(lexicon, {"entities", "attributes"}) /\ Fields(reported, {"claims", "named"})
Findable(c) ==
  /\ c.id \in store.about
  /\ <<c.ordinal, c.turn>> \in Turns => <<c.id, <<c.ordinal, c.turn>>>> \in store.cited
ReportsStand ==
  /\ reported.claims \subseteq Claims /\ \A c \in reported.claims : Findable(c)
  /\ \A c \in reported.named : Named(c)
TypesInv == CommandInv /\ CacheInv /\ PlanInv /\ StoreInv /\ SlotsInv /\ LexiconInv

----------------------------------------------------------------------------
(* The comparison, step by step *)

LEMMA PlanIs ==
  ASSUME CommandInv, CacheInv, PlanInv, PlanRead
  PROVE  /\ plan.claims \subseteq Claims /\ IsFiniteSet(plan.claims)
         /\ \A c, d \in plan.claims : c.id = d.id => c = d
         /\ \A c \in plan.claims : c.id \in Nat /\ c.event \in Int /\ c.conf \in Nat
  <1>1. CASE command.phase \in {"idle", "extract"}
    <2>1. plan.claims = {}
      BY <1>1 DEF PlanInv, EmptyPlan
    <2> QED BY <2>1, FS_EmptySet
  <1>2. CASE command.phase \notin {"idle", "extract"}
    <2>1. Planned /\ command.extractor \in Readers
      BY <1>2 DEF CommandInv, Commands, Phases, Planned
    <2>2. PICK F \in SUBSET Statement : plan.claims = Prepared(F, command.extractor)
      BY <2>1 DEF PlanRead
    <2> QED BY <2>1, <2>2, PreparedIs, ClaimsAre
  <1> QED BY <1>1, <1>2

\* The sort of a group is total: times, then ids.
LEMMA BeforeIsTotal ==
  ASSUME NEW T, \A c \in T : c.id \in Nat /\ c.event \in Int, \A c, d \in T : c.id = d.id => c = d
  PROVE  /\ \A a, b \in T : a = b \/ Before(a, b) \/ Before(b, a)
         /\ \A a, b, c \in T : Before(a, b) /\ Before(b, c) => Before(a, c)
         /\ \A a, b \in T : Before(a, b) => ~Before(b, a)
  BY DEF Before

LEMMA CurIs ==
  ASSUME CommandInv, CacheInv, PlanInv, PlanRead, InOrder, plan.todo # {}
  PROVE  /\ Cur \in plan.todo /\ Cur \in plan.claims
         /\ InHand # {} => Cur \in InHand
         /\ \A d \in plan.todo \ {Cur} : d.attr = Cur.attr => Before(Cur, d)
  <1> DEFINE S == IF InHand = {} THEN plan.todo ELSE InHand
  <1>1. S # {} /\ S \subseteq plan.todo
    BY DEF InHand
  <1>2. PICK a \in S : TRUE
    BY <1>1
  <1> DEFINE G == {c \in S : c.attr = a.attr}
             L == {p \in G \X G : Before(p[1], p[2])}
  <1>3. plan.todo \subseteq plan.claims /\ G \subseteq plan.claims /\ G # {}
    BY <1>1, <1>2 DEF InOrder, Queue
  <1>4. \A d \in plan.todo : d.attr = a.attr => d \in G
    BY <1>1, <1>2 DEF InHand
  <1>5. \A c, d \in G : <<c, d>> \in L <=> Before(c, d)
    OBVIOUS
  <1> HIDE DEF G, L
  <1>6. /\ \A c \in G : c.id \in Nat /\ c.event \in Int
        /\ \A c, d \in G : c.id = d.id => c = d
        /\ IsFiniteSet(G)
    BY <1>3, PlanIs, FS_Subset
  <1>7. \E m \in G : \A d \in G \ {m} : <<m, d>> \in L
    <2>1. \A c, d \in G : c = d \/ <<c, d>> \in L \/ <<d, c>> \in L
      BY <1>5, <1>6, BeforeIsTotal
    <2>2. \A c, d, e \in G : <<c, d>> \in L /\ <<d, e>> \in L => <<c, e>> \in L
      BY <1>5, <1>6, BeforeIsTotal
    <2> QED BY ONLY <1>3, <1>6, <2>1, <2>2, FirstExists
  <1>8. PICK m \in G : \A d \in G \ {m} : <<m, d>> \in L
    BY <1>7
  <1>9. m \in S /\ m.attr = a.attr
    BY DEF G
  <1>10. \A d \in plan.todo \ {m} : d.attr = m.attr => Before(m, d)
    BY <1>4, <1>5, <1>8, <1>9
  <1>11. Cur \in S /\ \A d \in plan.todo \ {Cur} : d.attr = Cur.attr => Before(Cur, d)
    BY <1>9, <1>10 DEF Cur
  <1> QED BY <1>1, <1>3, <1>11

\* What the first claim of a group, and every other, is compared with.
LEMMA CompareIs ==
  ASSUME CommandInv, CacheInv, PlanInv, PlanRead, InOrder, plan.todo # {}
  PROVE  /\ (\A h \in plan.head : h.attr # Cur.attr) =>
               /\ \A d \in Queue(plan.claims) \ plan.todo : d.attr # Cur.attr
               /\ EarlierOf(Cur) = {}
         /\ (\E h \in plan.head : h.attr = Cur.attr) =>
               /\ Incumbent \in plan.head /\ Incumbent.attr = Cur.attr /\ Incumbent # Cur
               /\ plan.head = {Incumbent} /\ Incumbent \in plan.claims
               /\ Before(Incumbent, Cur)
  <1>1. /\ Cur \in plan.todo /\ Cur \in plan.claims /\ (InHand # {} => Cur \in InHand)
        /\ \A d \in plan.todo \ {Cur} : d.attr = Cur.attr => Before(Cur, d)
    BY CurIs
  <1>2. ASSUME \A h \in plan.head : h.attr # Cur.attr
        PROVE  /\ \A d \in Queue(plan.claims) \ plan.todo : d.attr # Cur.attr
               /\ EarlierOf(Cur) = {}
    <2>1. \A d \in Queue(plan.claims) \ plan.todo : d.attr # Cur.attr
      BY <1>1, <1>2 DEF InOrder
    <2>2. ASSUME NEW d \in plan.claims, d.attr = Cur.attr, Before(d, Cur) PROVE FALSE
      <3>1. d \in Queue(plan.claims)
        BY <1>1, <2>2 DEF InOrder, Queue
      <3>2. d \in plan.todo
        BY <2>1, <2>2, <3>1
      <3>3. d # Cur
        BY <2>2, PlanIs DEF Before
      <3>4. Before(Cur, d)
        BY <1>1, <2>2, <3>2, <3>3
      <3> QED BY <1>1, <2>2, <3>4, PlanIs DEF Before
    <2> QED BY <2>1, <2>2 DEF EarlierOf
  <1>3. ASSUME NEW h \in plan.head, h.attr = Cur.attr
        PROVE  /\ Incumbent \in plan.head /\ Incumbent.attr = Cur.attr /\ Incumbent # Cur
               /\ plan.head = {Incumbent} /\ Incumbent \in plan.claims
               /\ Before(Incumbent, Cur)
    <2>1. Incumbent \in plan.head
      BY <1>3 DEF Incumbent
    <2>2. Incumbent = h /\ plan.head = {h}
      BY <2>1 DEF InOrder
    <2>3. h \in Queue(plan.claims) \ plan.todo
      BY DEF InOrder
    <2> QED BY <1>1, <1>3, <2>2, <2>3 DEF InOrder, Queue
  <1> QED BY <1>2, <1>3

\* What a comparison writes, and who is the head then.
Writes(E, hd) ==
  /\ E \subseteq Revision /\ IsFiniteSet(E)
  /\ \A e, f \in E : e = f
  /\ \A e \in E : e.newer = Cur.id /\ plan.head # {} /\ e.older = Incumbent.id
                  /\ Incumbent.attr = Cur.attr
  /\ hd \in {{Cur}, plan.head}
  /\ \E h \in hd : h.attr = Cur.attr

LEMMA ComparedKeeps ==
  ASSUME CommandInv, CacheInv, PlanInv, PlanRead, InOrder, EdgesPlanned, AllSurface,
         command.phase = "resolve", plan.todo # {}, command' = command,
         NEW E, NEW hd, NEW ap \in SUBSET {Cur}, Compared(E, hd, ap), Writes(E, hd),
         \A c \in {Cur} : EarlierOf(c) # {} => Surfaced(c)'
  PROVE  /\ PlanInv' /\ InOrder' /\ EdgesPlanned' /\ AllSurface'
         /\ plan'.claims = plan.claims /\ plan'.edges = plan.edges \union E
         /\ plan'.todo = plan.todo \ {Cur} /\ plan'.head = hd
  <1> DEFINE cl == plan.claims
             td == plan.todo
  <1>1. /\ plan'.claims = cl /\ plan'.edges = plan.edges \union E
        /\ plan'.todo = td \ {Cur} /\ plan'.head = hd /\ plan'.loaded = plan.loaded
        /\ plan'.apart = plan.apart \union ap
        /\ plan' \in [claims : SUBSET Claims, edges : SUBSET Revision, todo : SUBSET Claims,
                      head : SUBSET Claims, apart : SUBSET Claims, loaded : 0..6]
    <2>1. hd \subseteq Claims /\ ap \subseteq Claims
      BY CurIs, PlanIs DEF Writes, PlanInv
    <2> QED BY <2>1 DEF PlanInv, Compared, Writes
  <1>2. /\ Cur \in td /\ Cur \in cl
        /\ \A d \in td \ {Cur} : d.attr = Cur.attr => Before(Cur, d)
    BY CurIs
  <1>3. PlanInv'
    <2>1. IsFiniteSet(plan.edges \union E)
      BY FS_Union DEF PlanInv, Writes
    <2> QED BY <1>1, <2>1 DEF PlanInv
  <1>4. td \subseteq Queue(cl) /\ Cur \in Queue(cl) /\ plan.head \subseteq Queue(cl) \ td
    BY <1>2 DEF InOrder
  <1>5. hd \subseteq Queue(cl) \ (td \ {Cur}) /\ \A g, h \in hd : g = h
    BY <1>4 DEF Writes, InOrder
  <1>6. ASSUME NEW d \in Queue(cl) \ (td \ {Cur}), NEW c \in td \ {Cur}, d.attr = c.attr
        PROVE  Before(d, c) /\ \E h \in hd : h.attr = c.attr
    <2>1. CASE d = Cur
      BY <1>2, <1>6, <2>1 DEF Writes
    <2>2. CASE d # Cur
      <3>1. Before(d, c) /\ \E h \in plan.head : h.attr = c.attr
        BY <1>6, <2>2 DEF InOrder
      <3>2. Cur \in InHand
        BY <3>1, CurIs DEF InHand
      <3>3. c.attr = Cur.attr
        BY <3>1, <3>2 DEF InHand, InOrder
      <3> QED BY <3>1, <3>3 DEF Writes
    <2> QED BY <2>1, <2>2
  <1>7. InOrder'
    <2>1. Queue(cl)' = Queue(cl)
      BY <1>1 DEF Queue
    <2> QED BY <1>1, <1>4, <1>5, <1>6, <2>1 DEF InOrder
  <1>8. ASSUME NEW e \in E
        PROVE  e.newer = Cur.id /\ e.older = Incumbent.id /\ Incumbent # Cur /\ Incumbent \in cl
    <2>1. Incumbent \in plan.head
      BY <1>8 DEF Writes, Incumbent
    <2> QED BY <1>2, <1>4, <1>8, <2>1 DEF Writes, Queue
  <1>9. ASSUME NEW e \in plan.edges \union E
        PROVE  \E c, d \in cl : c \notin td \ {Cur} /\ c # d /\ e.newer = c.id /\ e.older = d.id
    <2>1. CASE e \in E
      BY <1>2, <1>8, <2>1
    <2>2. CASE e \in plan.edges
      BY <2>2 DEF EdgesPlanned
    <2> QED BY <2>1, <2>2
  <1>10. ASSUME NEW e \in plan.edges PROVE e.newer # Cur.id
    <2>1. PICK c \in cl : c \notin td /\ e.newer = c.id
      BY DEF EdgesPlanned
    <2> QED BY <1>2, <2>1, PlanIs
  <1>11. \A e, f \in plan.edges \union E : e.newer = f.newer => e = f
    BY <1>8, <1>10 DEF EdgesPlanned, Writes
  <1>12. EdgesPlanned'
    BY <1>1, <1>9, <1>11 DEF EdgesPlanned
  <1>13. AllSurface'
    <2> SUFFICES ASSUME NEW c \in Queue(cl) \ (td \ {Cur}), EarlierOf(c) # {} PROVE Surfaced(c)'
      BY <1>1 DEF AllSurface, Queue, EarlierOf
    <2>1. CASE c = Cur
      BY <2>1
    <2>2. CASE c # Cur
      <3>1. Surfaced(c)
        BY <2>2 DEF AllSurface
      <3> QED BY <1>1, <3>1 DEF Surfaced
    <2> QED BY <2>1, <2>2
  <1> QED BY <1>1, <1>3, <1>7, <1>12, <1>13

LEMMA EdgeIs ==
  ASSUME CommandInv, CacheInv, PlanInv, PlanRead, NEW rel \in Relation, NEW conf \in Nat,
         NEW c \in plan.claims, NEW d \in plan.claims
  PROVE  /\ Edge(rel, c, d, conf) \in Revision
         /\ Edge(rel, c, d, conf).rel = rel
         /\ Edge(rel, c, d, conf).newer = c.id /\ Edge(rel, c, d, conf).older = d.id
  BY PlanIs DEF Edge, Revision, CommandInv, Commands

LEMMA WritesOne ==
  ASSUME CommandInv, CacheInv, PlanInv, PlanRead, InOrder, plan.todo # {},
         \E h \in plan.head : h.attr = Cur.attr,
         NEW rel \in Relation, NEW conf \in Nat,
         NEW E \in {{}, {Edge(rel, Cur, Incumbent, conf)}}, NEW hd \in {{Cur}, plan.head}
  PROVE  Writes(E, hd)
  <1>1. /\ Cur \in plan.claims /\ Incumbent \in plan.claims /\ Incumbent \in plan.head
        /\ Incumbent.attr = Cur.attr
    BY CurIs, CompareIs
  <1>2. /\ Edge(rel, Cur, Incumbent, conf) \in Revision
        /\ Edge(rel, Cur, Incumbent, conf).newer = Cur.id
        /\ Edge(rel, Cur, Incumbent, conf).older = Incumbent.id
    BY <1>1, EdgeIs
  <1>3. E \subseteq Revision /\ IsFiniteSet(E)
    <2> DEFINE f == Edge(rel, Cur, Incumbent, conf)
    <2>1. IsFiniteSet({f})
      BY FS_Singleton
    <2>2. f \in Revision /\ E \in {{}, {f}}
      BY <1>2
    <2> HIDE DEF f
    <2> QED BY <2>1, <2>2, FS_EmptySet
  <1> QED BY <1>1, <1>2, <1>3 DEF Writes

\* What a comparison may write and what it tells, whoever compares.
Comparison(E, hd) ==
  /\ \E ap \in SUBSET {Cur} : Compared(E, hd, ap)
  /\ Writes(E, hd) /\ CacheInv'
  /\ \A c \in {Cur} : EarlierOf(c) # {} => Surfaced(c)'
  /\ \A e \in EdgesOf(E, "SUPERSEDES") :
        /\ \E h \in plan.head : h.attr = Cur.attr
        /\ ~command.judged => Incumbent.event < Cur.event

\* What the rule and the comparison of equal values write, when times are known.
Tells(E, hd) ==
  \/ /\ \A h \in plan.head : h.attr # Cur.attr
     /\ hd = {Cur}
  \/ /\ \E h \in plan.head : h.attr = Cur.attr
     /\ Cur.value = Incumbent.value /\ hd = plan.head
     /\ \E e \in E : e.rel = "SUPPORTS" /\ e.newer = Cur.id
  \/ /\ \E h \in plan.head : h.attr = Cur.attr
     /\ Cur.value # Incumbent.value
     /\ Timed(Cur.attr) => /\ hd = {Cur}
                           /\ \E e \in E : e.rel = "SUPERSEDES" /\ e.older = Incumbent.id

CompareStep == FirstOfGroup \/ SameValue \/ Ruled \/ Judged \/ JudgeFails

LEMMA StepCompares ==
  ASSUME CommandInv, CacheInv, PlanInv, PlanRead, InOrder, CompareStep
  PROVE  /\ command.phase = "resolve" /\ plan.todo # {} /\ command' = command
         /\ \E E, hd : Comparison(E, hd) /\ (~command.judged => Tells(E, hd))
  <1>1. command.phase = "resolve" /\ plan.todo # {} /\ command' = command
    BY DEF CompareStep, FirstOfGroup, SameValue, Ruled, Judged, JudgeFails, Comparing
  <1>2. Cur \in plan.claims
    BY <1>1, CurIs
  <1>3. ASSUME FirstOfGroup PROVE \E E, hd : Comparison(E, hd) /\ Tells(E, hd)
    <2>1. /\ Compared({}, {Cur}, {}) /\ CacheInv'
          /\ \A h \in plan.head : h.attr # Cur.attr
      BY <1>3 DEF FirstOfGroup, CacheInv
    <2>2. EarlierOf(Cur) = {}
      BY <1>1, <2>1, CompareIs
    <2>3. Writes({}, {Cur})
      BY FS_EmptySet DEF Writes
    <2>4. EdgesOf({}, "SUPERSEDES") = {}
      BY DEF EdgesOf
    <2>5. Comparison({}, {Cur}) /\ Tells({}, {Cur})
      BY <2>1, <2>2, <2>3, <2>4 DEF Comparison, Tells
    <2> QED BY <2>5
  <1>4. ASSUME Comparing
        PROVE  /\ \E h \in plan.head : h.attr = Cur.attr
               /\ Incumbent \in plan.claims /\ Before(Incumbent, Cur) /\ Incumbent # Cur
               /\ Incumbent.attr = Cur.attr
    BY <1>1, <1>4, CompareIs DEF Comparing
  <1>5. ASSUME SameValue PROVE \E E, hd : Comparison(E, hd) /\ Tells(E, hd)
    <2> DEFINE f == Edge("SUPPORTS", Cur, Incumbent, Cur.conf)
    <2>1. /\ Comparing /\ Compared({f}, plan.head, {}) /\ CacheInv'
          /\ Cur.value = Incumbent.value
      BY <1>5 DEF SameValue, CacheInv
    <2>2. "SUPPORTS" \in Relation /\ Cur.conf \in Nat
      BY <1>2, PlanIs DEF Relation
    <2>3. f.rel = "SUPPORTS" /\ f.newer = Cur.id
      BY <1>2, <1>4, <2>1, <2>2, EdgeIs
    <2>4. Writes({f}, plan.head)
      BY <1>1, <1>4, <2>1, <2>2, WritesOne
    <2> HIDE DEF f
    <2>5. EdgesOf({f}, "SUPERSEDES") = {}
      BY <2>3 DEF EdgesOf
    <2>6. \A c \in {Cur} : Surfaced(c)'
      <3>1. f \in plan'.edges
        BY <2>1 DEF Compared, PlanInv
      <3> QED BY <2>3, <3>1 DEF Surfaced
    <2>7. Comparison({f}, plan.head) /\ Tells({f}, plan.head)
      BY <1>4, <2>1, <2>3, <2>4, <2>5, <2>6 DEF Comparison, Tells
    <2> QED BY <2>7
  <1>6. ASSUME Ruled PROVE \E E, hd : Comparison(E, hd) /\ Tells(E, hd)
    <2> DEFINE E == RuleEdge(Cur, Incumbent)
               late == Cur.event > Incumbent.event /\ Cur.event > Unknown /\ Incumbent.event > Unknown
               f == IF late THEN Edge("SUPERSEDES", Cur, Incumbent, 70)
                    ELSE Edge("CONTRADICTS", Cur, Incumbent, 10)
    <2>1. /\ Comparing /\ Compared(E, Advanced(E), {}) /\ CacheInv'
          /\ Cur.value # Incumbent.value
      BY <1>6 DEF Ruled, CacheInv
    <2>2. E = {f}
      BY DEF RuleEdge
    <2>3. f.newer = Cur.id /\ f.older = Incumbent.id /\ f.rel = IF late THEN "SUPERSEDES" ELSE "CONTRADICTS"
      <3>1. "SUPERSEDES" \in Relation /\ "CONTRADICTS" \in Relation /\ 70 \in Nat /\ 10 \in Nat
        BY DEF Relation
      <3>2. Cur \in plan.claims /\ Incumbent \in plan.claims
        BY <1>2, <1>4, <2>1
      <3>3. ASSUME NEW rel \in Relation, NEW conf \in Nat
            PROVE  /\ Edge(rel, Cur, Incumbent, conf).rel = rel
                   /\ Edge(rel, Cur, Incumbent, conf).newer = Cur.id
                   /\ Edge(rel, Cur, Incumbent, conf).older = Incumbent.id
        BY <3>2, EdgeIs
      <3> HIDE DEF late
      <3> QED BY <3>1, <3>3 DEF f
    <2>4. Advanced(E) = IF late THEN {Cur} ELSE plan.head
      BY <2>2, <2>3 DEF Advanced, Superseding
    <2>5. Writes(E, Advanced(E))
      BY <1>1, <1>4, <2>1, <2>2, <2>4, WritesOne DEF Relation
    <2>6. \A c \in {Cur} : Surfaced(c)'
      <3>1. f \in plan'.edges
        BY <2>1, <2>2 DEF Compared, PlanInv
      <3> QED BY <2>3, <3>1 DEF Surfaced
    <2>7. Timed(Cur.attr) => late
      <3>1. Incumbent.event <= Cur.event
        BY <1>2, <1>4, <2>1, PlanIs DEF Before
      <3> QED BY <1>2, <1>4, <2>1, <3>1, PlanIs DEF Timed, Unknown
    <2>8. \A e \in EdgesOf(E, "SUPERSEDES") : late
      BY <2>2, <2>3 DEF EdgesOf
    <2>9. late => Incumbent.event < Cur.event
      BY <1>2, <1>4, <2>1, PlanIs
    <2> HIDE DEF E, f, late
    <2>10. Comparison(E, Advanced(E))
      BY <1>4, <2>1, <2>5, <2>6, <2>8, <2>9 DEF Comparison
    <2>11. Tells(E, Advanced(E))
      BY <1>4, <2>1, <2>2, <2>3, <2>4, <2>7 DEF Tells
    <2> QED BY <2>10, <2>11
  <1>7. ASSUME Judged PROVE \E E, hd : Comparison(E, hd)
    <2> DEFINE pair == <<Incumbent, Cur>>
    <2>1. Comparing /\ command.judged
      BY <1>7 DEF Judged
    <2>2. PICK v \in IF pair \in DOMAIN cache.verdicts THEN {cache.verdicts[pair]} ELSE Verdicts :
             /\ Compared(VerdictEdge(v, Cur, Incumbent), Advanced(VerdictEdge(v, Cur, Incumbent)),
                         IF v.same THEN {} ELSE {Cur})
             /\ \E verdicts \in Kept(cache.verdicts, pair, v) : cache' = [cache EXCEPT !.verdicts = verdicts]
      BY <1>7 DEF Judged
    <2> DEFINE E == VerdictEdge(v, Cur, Incumbent)
               ap == IF v.same THEN {} ELSE {Cur}
    <2>3. v \in Verdict /\ v \in Verdicts
      BY <2>2, IngestAssumption DEF CacheInv
    <2>4. CacheInv'
      <3>1. PICK verdicts \in Kept(cache.verdicts, pair, v) : cache' = [cache EXCEPT !.verdicts = verdicts]
        BY <2>2
      <3>2. cache'.verdicts = verdicts /\ cache'.replies = cache.replies /\ DOMAIN cache' = DOMAIN cache
        BY <3>1 DEF CacheInv, Fields
      <3> HIDE DEF pair
      <3>3. \A p \in DOMAIN verdicts : verdicts[p] \in Verdicts
        BY <2>3, <3>1 DEF Kept, WrittenOver, CacheInv
      <3> QED BY <3>2, <3>3 DEF CacheInv, Fields
    <2>5. v.conf \in Nat /\ v.relation \in Relation
      BY <2>3 DEF Verdict, Relation
    <2>6. \/ E = {} /\ ~v.same
          \/ \E rel \in Relation, conf \in Nat : E = {Edge(rel, Cur, Incumbent, conf)}
      BY <2>5 DEF VerdictEdge, Relation
    <2>7. Advanced(E) \in {{Cur}, plan.head}
      BY DEF Advanced
    <2>8. Writes(E, Advanced(E))
      <3>1. CASE E = {}
        <4>1. "SUPPORTS" \in Relation /\ 1 \in Nat
          BY DEF Relation
        <4>2. E \in {{}, {Edge("SUPPORTS", Cur, Incumbent, 1)}}
          BY <3>1
        <4> HIDE DEF E
        <4> QED BY <1>1, <1>4, <2>1, <2>7, <4>1, <4>2, WritesOne
      <3>2. CASE \E rel \in Relation, conf \in Nat : E = {Edge(rel, Cur, Incumbent, conf)}
        <4>1. PICK rel \in Relation, conf \in Nat : E = {Edge(rel, Cur, Incumbent, conf)}
          BY <3>2
        <4> HIDE DEF E
        <4> QED BY <1>1, <1>4, <2>1, <2>7, <4>1, WritesOne
      <3> QED BY <2>6, <3>1, <3>2
    <2>9. \A c \in {Cur} : Surfaced(c)'
      <3>1. CASE E = {} /\ ~v.same
        <4>1. Cur \in plan'.apart
          BY <2>2, <3>1 DEF Compared, PlanInv
        <4> QED BY <4>1 DEF Surfaced
      <3>2. CASE \E rel \in Relation, conf \in Nat : E = {Edge(rel, Cur, Incumbent, conf)}
        <4>1. PICK rel \in Relation, conf \in Nat : E = {Edge(rel, Cur, Incumbent, conf)}
          BY <3>2
        <4>2. Edge(rel, Cur, Incumbent, conf).newer = Cur.id
          BY <1>2, <1>4, <2>1, EdgeIs
        <4>3. Edge(rel, Cur, Incumbent, conf) \in plan'.edges
          BY <2>2, <4>1 DEF Compared, PlanInv
        <4> QED BY <4>2, <4>3 DEF Surfaced
      <3> QED BY <2>6, <3>1, <3>2
    <2>10. ap \in SUBSET {Cur} /\ Compared(E, Advanced(E), ap)
      BY <2>2
    <2> HIDE DEF E, ap
    <2>11. Comparison(E, Advanced(E))
      BY <1>4, <2>1, <2>4, <2>8, <2>9, <2>10 DEF Comparison
    <2> QED BY <2>11
  <1>8. ASSUME JudgeFails PROVE \E E, hd : Comparison(E, hd)
    <2>1. PICK conf \in {10, 15} : Compared({Edge("CONTRADICTS", Cur, Incumbent, conf)}, plan.head, {})
      BY <1>8 DEF JudgeFails, UnjudgedEdges
    <2> DEFINE f == Edge("CONTRADICTS", Cur, Incumbent, conf)
    <2>2. Comparing /\ command.judged /\ CacheInv'
      BY <1>8 DEF JudgeFails, CacheInv
    <2>3. f.rel = "CONTRADICTS" /\ f.newer = Cur.id
      BY <1>2, <1>4, <2>2, EdgeIs DEF Relation
    <2>4. Writes({f}, plan.head)
      BY <1>1, <1>4, <2>2, WritesOne DEF Relation
    <2> HIDE DEF f
    <2>5. EdgesOf({f}, "SUPERSEDES") = {}
      BY <2>3 DEF EdgesOf
    <2>6. \A c \in {Cur} : Surfaced(c)'
      <3>1. f \in plan'.edges
        BY <2>1 DEF Compared, PlanInv, f
      <3> QED BY <2>3, <3>1 DEF Surfaced
    <2>7. Comparison({f}, plan.head)
      BY <1>4, <2>1, <2>2, <2>4, <2>5, <2>6 DEF Comparison, f
    <2> QED BY <2>7
  <1>9. Judged \/ JudgeFails => command.judged
    BY DEF Judged, JudgeFails
  <1> QED BY <1>1, <1>3, <1>5, <1>6, <1>7, <1>8, <1>9 DEF CompareStep

LEMMA StandKept ==
  ASSUME CommandInv, CacheInv, PlanInv, PlanRead, InOrder, LatestStand,
         command.phase = "resolve", plan.todo # {}, command' = command,
         NEW E, NEW hd, Writes(E, hd), ~command.judged => Tells(E, hd),
         plan'.claims = plan.claims, plan'.edges = plan.edges \union E,
         plan'.todo = plan.todo \ {Cur}, plan'.head = hd
  PROVE  LatestStand'
  <1> SUFFICES ASSUME ~command.judged, NEW a \in {c.attr : c \in Queue(plan.claims)}, Timed(a)
               PROVE  /\ \A c, l \in Told(a)' : LatestOf(l, Told(a)') => Fell(c)' \/ c.value = l.value
                      /\ \A h \in hd : h.attr = a =>
                            /\ \A c \in Told(a)' : Fell(c)' \/ c = h
                            /\ \A l \in Told(a)' : LatestOf(l, Told(a)') => l.value = h.value
    BY DEF LatestStand, Timed, Queue, LatestOf
  <1>1. /\ \A c, l \in Told(a) : LatestOf(l, Told(a)) => Fell(c) \/ c.value = l.value
        /\ \A h \in plan.head : h.attr = a =>
              /\ \A c \in Told(a) : Fell(c) \/ c = h
              /\ \A l \in Told(a) : LatestOf(l, Told(a)) => l.value = h.value
    BY DEF LatestStand
  <1>2. Cur \in plan.todo /\ Cur \in plan.claims /\ Cur \in Queue(plan.claims)
    BY CurIs DEF InOrder
  <1>3. Told(a)' = IF Cur.attr = a THEN Told(a) \union {Cur} ELSE Told(a)
    BY <1>2 DEF Told, Queue
  <1>4. \A c : Fell(c) => Fell(c)'
    BY DEF Fell
  <1>5. CASE Cur.attr # a
    <2>1. \A h \in hd : h.attr = a => h \in plan.head
      BY <1>5 DEF Writes
    <2> QED BY <1>1, <1>3, <1>4, <1>5, <2>1
  <1>6. CASE Cur.attr = a
    <2>1. Told(a) \subseteq plan.claims /\ Cur \notin Told(a)
      BY <1>2 DEF Told, Queue
    <2>2. \A d \in Told(a) : d.event < Cur.event
      <3>1. \A d \in Told(a) : Before(d, Cur)
        BY <1>2, <1>6 DEF InOrder, Told
      <3> QED BY <1>2, <1>6, <2>1, <3>1, PlanIs DEF Before, Timed, Told
    <2>3. \A l \in Told(a)' : LatestOf(l, Told(a)') => l = Cur
      BY <1>2, <1>3, <1>6, <2>1, <2>2, PlanIs DEF LatestOf
    <2>4. CASE /\ \A h \in plan.head : h.attr # Cur.attr
               /\ hd = {Cur}
      <3>1. Told(a) = {}
        BY <1>6, <2>4, CompareIs DEF Told
      <3> QED BY <1>3, <2>3, <2>4, <3>1
    <2>5. ASSUME \E h \in plan.head : h.attr = Cur.attr
          PROVE  \A c \in Told(a) : Fell(c) \/ c = Incumbent
      BY <1>1, <1>6, <2>5, CompareIs
    <2>6. CASE /\ \E h \in plan.head : h.attr = Cur.attr
               /\ Cur.value = Incumbent.value /\ hd = plan.head
               /\ \E e \in E : e.rel = "SUPPORTS" /\ e.newer = Cur.id
      <3>1. \A c \in {Cur} : Fell(c)'
        BY <2>6 DEF Fell
      <3>2. plan.head = {Incumbent}
        BY <2>6, CompareIs
      <3> QED BY <1>3, <1>4, <1>6, <2>3, <2>5, <2>6, <3>1, <3>2
    <2>7. CASE /\ \E h \in plan.head : h.attr = Cur.attr
               /\ hd = {Cur}
               /\ \E e \in E : e.rel = "SUPERSEDES" /\ e.older = Incumbent.id
      <3>1. \A c \in {Incumbent} : Fell(c)'
        BY <2>7 DEF Fell
      <3> QED BY <1>3, <1>4, <1>6, <2>3, <2>5, <2>7, <3>1
    <2> QED BY <1>6, <2>4, <2>6, <2>7 DEF Tells
  <1> QED BY <1>5, <1>6

----------------------------------------------------------------------------
(* The invariant, action by action *)

Inv ==
  /\ TypesInv /\ PlanRead /\ Compares /\ Loads
  /\ EdgesRead /\ ReportsStand

\* What was written stays accounted for.
LEMMA ReadStays ==
  ASSUME EdgesRead, used \subseteq used',
         store'.rev \union plan'.edges \subseteq store.rev \union plan.edges
  PROVE  EdgesRead'
  <1> SUFFICES ASSUME NEW e \in EdgesOf(store'.rev \union plan'.edges, "SUPERSEDES")
               PROVE  \E u \in used' : \E c \in Known(u[1]), d \in Known(u[1]) : Displaces(e, c, d, u[2])
    BY DEF EdgesRead
  <1>1. e \in EdgesOf(store.rev \union plan.edges, "SUPERSEDES")
    BY DEF EdgesOf
  <1>2. PICK u \in used : \E c \in Known(u[1]), d \in Known(u[1]) : Displaces(e, c, d, u[2])
    BY <1>1 DEF EdgesRead
  <1> QED BY <1>2

LEMMA PlanKnown ==
  ASSUME CommandInv, PlanRead, Planned
  PROVE  /\ <<command.extractor, command.judged>> \in used
         /\ plan.claims \subseteq Known(command.extractor)
  BY DEF CommandInv, Commands, Planned, PlanRead

\* Between calls, and before what they read is prepared, nothing is planned.
LEMMA NothingPlanned ==
  ASSUME plan' = EmptyPlan, command'.phase \in {"idle", "extract"}
  PROVE  PlanInv' /\ PlanRead' /\ Compares' /\ Loads'
  <1>1. PlanInv'
    BY FS_EmptySet DEF PlanInv, EmptyPlan
  <1>2. Queue({}) = {}
    BY DEF Queue
  <1>3. Compares'
    BY <1>2 DEF Compares, InOrder, EdgesPlanned, AllSurface, LatestStand, EmptyPlan, Queue
  <1>4. PlanRead' /\ Loads'
    BY DEF PlanRead, Planned, Loads, Landed
  <1> QED BY <1>1, <1>3, <1>4

LEMMA CompareKeeps ==
  ASSUME Inv, CompareStep
  PROVE  Inv'
  <1>1. /\ command.phase = "resolve" /\ plan.todo # {} /\ command' = command
        /\ \E E, hd : Comparison(E, hd) /\ (~command.judged => Tells(E, hd))
    BY StepCompares DEF Inv, TypesInv, Compares
  <1>2. PICK E, hd : Comparison(E, hd) /\ (~command.judged => Tells(E, hd))
    BY <1>1
  <1>3. UNCHANGED <<command, slots, store, lexicon, reported, used>>
    BY DEF CompareStep, FirstOfGroup, SameValue, Ruled, Judged, JudgeFails
  <1>4. /\ PlanInv' /\ InOrder' /\ EdgesPlanned' /\ AllSurface'
        /\ plan'.claims = plan.claims /\ plan'.edges = plan.edges \union E
        /\ plan'.todo = plan.todo \ {Cur} /\ plan'.head = hd
    BY <1>1, <1>2, ComparedKeeps DEF Inv, TypesInv, Compares, Comparison
  <1>5. LatestStand'
    BY <1>1, <1>2, <1>4, StandKept DEF Inv, TypesInv, Compares, Comparison
  <1>6. CacheInv'
    BY <1>2 DEF Comparison
  <1>7. TypesInv'
    BY <1>3, <1>4, <1>6, <1>1 DEF Inv, TypesInv, CommandInv, Commands, StoreInv, SlotsInv, LexiconInv
  <1>8. PlanRead'
    BY <1>3, <1>4 DEF Inv, PlanRead, Planned
  <1>9. EdgesRead'
    <2> SUFFICES ASSUME NEW e \in EdgesOf(store.rev \union plan.edges \union E, "SUPERSEDES")
                 PROVE  \E u \in used : \E c \in Known(u[1]), d \in Known(u[1]) : Displaces(e, c, d, u[2])
      BY <1>3, <1>4 DEF EdgesRead
    <2>2. CASE e \notin E
      BY <2>2 DEF Inv, EdgesRead, EdgesOf
    <2>3. CASE e \in E
      <3>1. /\ \E h \in plan.head : h.attr = Cur.attr
            /\ ~command.judged => Incumbent.event < Cur.event
            /\ e.newer = Cur.id /\ e.older = Incumbent.id
        BY <1>2, <2>3 DEF Comparison, Writes, EdgesOf
      <3>2. /\ Cur \in plan.claims /\ Cur \in Queue(plan.claims)
            /\ Incumbent \in plan.claims /\ Incumbent.attr = Cur.attr /\ Before(Incumbent, Cur)
        BY <1>1, <3>1, CurIs, CompareIs DEF Inv, TypesInv, Compares, InOrder
      <3>3. Overrules(Cur, Incumbent)
        BY <3>2 DEF Overrules, Queue
      <3> DEFINE u == <<command.extractor, command.judged>>
      <3>4. u \in used /\ plan.claims \subseteq Known(u[1])
        BY <1>1, PlanKnown DEF Inv, TypesInv, Planned
      <3>5. Displaces(e, Cur, Incumbent, u[2])
        BY <3>1, <3>3 DEF Displaces
      <3> QED BY <3>2, <3>4, <3>5
    <2> QED BY <2>2, <2>3
  <1>10. Loads' /\ ReportsStand'
    BY <1>1, <1>3 DEF Inv, Loads, Landed, ReportsStand, Findable, Named
  <1> QED BY <1>4, <1>5, <1>7, <1>8, <1>9, <1>10 DEF Inv, Compares

\* What a batch of the load leaves in the store.
LEMMA MergedIs ==
  ASSUME Inv, command.phase = "load", store' = Merged(LoadOrder[plan.loaded + 1])
  PROVE  /\ plan.loaded \in 0..5 /\ StoreInv'
         /\ plan.loaded = 0 => /\ store'.turns = Turns
                               /\ \A c \in plan.claims :
                                     c.id \in DOMAIN store'.claims /\ store'.claims[c.id] = Row(c)
         /\ plan.loaded # 0 => store'.turns = store.turns /\ store'.claims = store.claims
         /\ plan.loaded = 1 => \A c \in plan.claims : c.id \in store'.about
         /\ plan.loaded = 2 => \A c \in plan.claims :
               <<c.ordinal, c.turn>> \in Turns => <<c.id, <<c.ordinal, c.turn>>>> \in store'.cited
         /\ store.about \subseteq store'.about /\ store.cited \subseteq store'.cited
         /\ DOMAIN store'.claims \subseteq DOMAIN store.claims \union {c.id : c \in plan.claims}
         /\ store'.rev \subseteq store.rev \union plan.edges
         /\ \A k \in 4..6 :
               (k = plan.loaded + 1 \/ EdgesOf(plan.edges, LoadOrder[k]) \subseteq store.rev)
               => EdgesOf(plan.edges, LoadOrder[k]) \subseteq store'.rev
  <1> USE DEF Inv, TypesInv
  <1>1. plan.loaded \in 0..5
    BY DEF PlanInv
  <1>2. \A c, d \in plan.claims : c.id = d.id => c = d
    BY PlanIs
  <1>3. \A c \in plan.claims : c.id \in Nat /\ c.event \in Int /\ c.conf \in Nat
    BY PlanIs
  <1>4. CASE plan.loaded = 0
    <2>1. store' = WithNodes
      BY <1>4 DEF Merged, LoadOrder
    <2> DEFINE ids == {c.id : c \in plan.claims}
               rows == [i \in ids |-> Row(CHOOSE c \in plan.claims : c.id = i)]
    <2>2. /\ DOMAIN store' = DOMAIN store
          /\ store'.turns = Turns /\ store'.claims = WrittenOver(store.claims, rows)
          /\ store'.about = store.about /\ store'.cited = store.cited /\ store'.rev = store.rev
      BY <2>1 DEF WithNodes, StoreInv, Fields
    <2>3. ASSUME NEW c \in plan.claims PROVE c.id \in ids /\ rows[c.id] = Row(c)
      <3>1. (CHOOSE d \in plan.claims : d.id = c.id) = c
        BY <1>2
      <3> QED BY <3>1
    <2>4. \A i \in ids : rows[i].event \in Int /\ rows[i].ingest \in Int /\ rows[i].conf \in Int
      <3>1. \A c \in plan.claims : Row(c).event \in Int /\ Row(c).ingest \in Int /\ Row(c).conf \in Int
        BY <1>3 DEF Row, CommandInv, Commands
      <3> QED BY <2>3, <3>1
    <2>5. ids \subseteq Nat /\ DOMAIN rows = ids
      BY <1>3
    <2> HIDE DEF ids, rows
    <2>6. /\ DOMAIN store'.claims = ids \union DOMAIN store.claims
          /\ \A i \in ids : store'.claims[i] = rows[i]
          /\ \A i \in DOMAIN store.claims \ ids : store'.claims[i] = store.claims[i]
      BY <2>2, <2>5 DEF WrittenOver
    <2>7. StoreInv'
      BY <2>2, <2>4, <2>5, <2>6 DEF StoreInv, Fields
    <2>8. \A c \in plan.claims : c.id \in DOMAIN store'.claims /\ store'.claims[c.id] = Row(c)
      BY <2>3, <2>6
    <2>9. DOMAIN store'.claims \subseteq DOMAIN store.claims \union {c.id : c \in plan.claims}
      BY <2>6 DEF ids
    <2> QED BY <1>4, <2>2, <2>7, <2>8, <2>9
  <1>5. CASE plan.loaded = 1
    <2>1. store' = [store EXCEPT !.about = @ \cup ({c.id : c \in plan.claims} \cap DOMAIN store.claims)]
      BY <1>5 DEF Merged, LoadOrder
    <2>2. /\ DOMAIN store' = DOMAIN store
          /\ store'.turns = store.turns /\ store'.claims = store.claims
          /\ store'.about = store.about \cup ({c.id : c \in plan.claims} \cap DOMAIN store.claims)
          /\ store'.cited = store.cited /\ store'.rev = store.rev
      BY <2>1 DEF StoreInv, Fields
    <2>3. \A c \in plan.claims : c.id \in store'.about
      BY <1>5, <2>2 DEF Loads, Landed
    <2>4. StoreInv'
      BY <2>2 DEF StoreInv, Fields
    <2> QED BY <1>5, <2>2, <2>3, <2>4
  <1>6. CASE plan.loaded = 2
    <2> DEFINE new == {<<c.id, <<c.ordinal, c.turn>>>> :
                         c \in {c \in plan.claims : c.id \in DOMAIN store.claims
                                                    /\ <<c.ordinal, c.turn>> \in store.turns}}
    <2>1. store' = [store EXCEPT !.cited = @ \cup new]
      BY <1>6 DEF Merged, LoadOrder
    <2>2. /\ DOMAIN store' = DOMAIN store
          /\ store'.turns = store.turns /\ store'.claims = store.claims
          /\ store'.cited = store.cited \cup new
          /\ store'.about = store.about /\ store'.rev = store.rev
      BY <2>1 DEF StoreInv, Fields
    <2>3. \A c \in plan.claims :
             <<c.ordinal, c.turn>> \in Turns => <<c.id, <<c.ordinal, c.turn>>>> \in store'.cited
      <3>1. store.turns = Turns /\ \A c \in plan.claims : c.id \in DOMAIN store.claims
        BY <1>6 DEF Loads, Landed
      <3>2. \A c \in plan.claims : <<c.ordinal, c.turn>> \in Turns => <<c.id, <<c.ordinal, c.turn>>>> \in new
        BY <3>1
      <3> HIDE DEF new
      <3> QED BY <2>2, <3>2
    <2>4. StoreInv'
      BY <2>2 DEF StoreInv, Fields
    <2> QED BY <1>6, <2>2, <2>3, <2>4
  <1>7. CASE plan.loaded \in 3..5
    <2> DEFINE rel == LoadOrder[plan.loaded + 1]
               new == {e \in plan.edges : e.rel = rel /\ {e.newer, e.older} \subseteq DOMAIN store.claims}
               old == {e \in store.rev :
                         \A f \in new : <<e.rel, e.newer, e.older>> # <<f.rel, f.newer, f.older>>}
    <2>1. /\ rel \notin {"nodes", "about", "cited"}
          /\ \A k \in 4..6 : LoadOrder[k] = rel => k = plan.loaded + 1
      BY <1>7 DEF LoadOrder
    <2>2. store' = WithRevisions(rel)
      BY <2>1 DEF Merged
    <2>3. /\ DOMAIN store' = DOMAIN store
          /\ store'.turns = store.turns /\ store'.claims = store.claims
          /\ store'.about = store.about /\ store'.cited = store.cited
          /\ store'.rev = old \cup new
      BY <2>2 DEF WithRevisions, StoreInv, Fields
    <2>4. \A e \in new : e \in plan.edges /\ e.rel = rel
      OBVIOUS
    <2>5. \A e, f \in new : e.newer = f.newer => e = f
      BY <2>4 DEF Compares, EdgesPlanned
    <2>6. \A e \in old, f \in new : ~(e.rel = f.rel /\ e.newer = f.newer /\ e.older = f.older)
      OBVIOUS
    <2>7. EdgesOf(plan.edges, rel) \subseteq new
      <3>1. \A e \in plan.edges : {e.newer, e.older} \subseteq DOMAIN store.claims
        BY <1>7 DEF Compares, EdgesPlanned, Loads, Landed
      <3> QED BY <3>1 DEF EdgesOf
    <2>8. \A k \in 4..6 : LoadOrder[k] # rel =>
             EdgesOf(plan.edges, LoadOrder[k]) \intersect store.rev \subseteq old
      BY <2>4 DEF EdgesOf
    <2>9. old \subseteq store.rev /\ new \subseteq plan.edges
      OBVIOUS
    <2> HIDE DEF rel, new, old
    <2>10. IsFiniteSet(old \cup new)
      BY <2>9, FS_Subset, FS_Union DEF StoreInv, PlanInv
    <2>11. old \cup new \subseteq Revision
      BY <2>9 DEF StoreInv, PlanInv
    <2>12. \A e, f \in old \cup new : e.rel = f.rel /\ e.newer = f.newer /\ e.older = f.older => e = f
      BY <2>5, <2>6, <2>9 DEF StoreInv
    <2>13. StoreInv'
      BY <2>3, <2>10, <2>11, <2>12 DEF StoreInv, Fields
    <2>14. \A k \in 4..6 :
             (k = plan.loaded + 1 \/ EdgesOf(plan.edges, LoadOrder[k]) \subseteq store.rev)
             => EdgesOf(plan.edges, LoadOrder[k]) \subseteq store'.rev
      <3> SUFFICES ASSUME NEW k \in 4..6,
                          k = plan.loaded + 1 \/ EdgesOf(plan.edges, LoadOrder[k]) \subseteq store.rev
                   PROVE  EdgesOf(plan.edges, LoadOrder[k]) \subseteq old \cup new
        BY <2>3
      <3>1. CASE LoadOrder[k] = rel
        BY <2>7, <3>1
      <3>2. CASE LoadOrder[k] # rel
        BY <2>8, <3>2 DEF rel
      <3> QED BY <3>1, <3>2
    <2> QED BY <1>7, <2>3, <2>9, <2>13, <2>14
  <1> QED BY <1>1, <1>4, <1>5, <1>6, <1>7

LEMMA LoadKeeps ==
  ASSUME Inv, LoadBatch
  PROVE  Inv'
  <1>1. /\ command.phase = "load" /\ store' = Merged(LoadOrder[plan.loaded + 1])
        /\ plan' = [plan EXCEPT !.loaded = @ + 1]
        /\ UNCHANGED <<slots, cache, lexicon, reported, used>>
    BY DEF LoadBatch
  <1> DEFINE n == plan.loaded
  <1>2. /\ n \in 0..5 /\ StoreInv'
        /\ n = 0 => /\ store'.turns = Turns
                    /\ \A c \in plan.claims : c.id \in DOMAIN store'.claims /\ store'.claims[c.id] = Row(c)
        /\ n # 0 => store'.turns = store.turns /\ store'.claims = store.claims
        /\ n = 1 => \A c \in plan.claims : c.id \in store'.about
        /\ n = 2 => \A c \in plan.claims :
              <<c.ordinal, c.turn>> \in Turns => <<c.id, <<c.ordinal, c.turn>>>> \in store'.cited
        /\ store.about \subseteq store'.about /\ store.cited \subseteq store'.cited
        /\ DOMAIN store'.claims \subseteq DOMAIN store.claims \union {c.id : c \in plan.claims}
        /\ store'.rev \subseteq store.rev \union plan.edges
        /\ \A k \in 4..6 :
              (k = n + 1 \/ EdgesOf(plan.edges, LoadOrder[k]) \subseteq store.rev)
              => EdgesOf(plan.edges, LoadOrder[k]) \subseteq store'.rev
    BY <1>1, MergedIs
  <1>3. /\ plan'.claims = plan.claims /\ plan'.edges = plan.edges /\ plan'.todo = plan.todo
        /\ plan'.head = plan.head /\ plan'.loaded = n + 1
        /\ plan' \in [claims : SUBSET Claims, edges : SUBSET Revision, todo : SUBSET Claims,
                      head : SUBSET Claims, apart : SUBSET Claims, loaded : 0..6]
        /\ plan'.apart = plan.apart
    BY <1>1, <1>2 DEF Inv, TypesInv, PlanInv
  <1>4. /\ command'.phase = IF n + 1 = 6 THEN "lexicon" ELSE "load"
        /\ command' = [command EXCEPT !.phase = command'.phase]
    <2>1. Len(LoadOrder) = 6
      BY DEF LoadOrder
    <2> QED BY <1>1, <2>1 DEF LoadBatch, Phase, Inv, TypesInv, CommandInv, Commands
  <1>5. /\ command'.extractor = command.extractor /\ command'.judged = command.judged
        /\ command'.attempt = command.attempt
        /\ CommandInv'
    BY <1>1, <1>4 DEF Inv, TypesInv, CommandInv, Commands, Phases
  <1> HIDE DEF n
  <1>6. TypesInv'
    <2>1. PlanInv'
      BY <1>2, <1>3, <1>4 DEF Inv, TypesInv, PlanInv, n
    <2>2. CacheInv' /\ LexiconInv' /\ SlotsInv'
      BY <1>1, <1>4 DEF Inv, TypesInv, CacheInv, LexiconInv, SlotsInv
    <2> QED BY <1>2, <1>5, <2>1, <2>2 DEF TypesInv
  <1>7. PlanRead'
    BY <1>1, <1>3, <1>5 DEF Inv, PlanRead, Planned
  <1>8. Compares'
    <2>1. InOrder' /\ EdgesPlanned' /\ AllSurface'
      BY <1>1, <1>3 DEF Inv, Compares, InOrder, EdgesPlanned, AllSurface, EarlierOf, Surfaced, Queue
    <2>2. LatestStand'
      BY <1>3, <1>5 DEF Inv, Compares, LatestStand, Timed, Told, Fell, LatestOf, Queue
    <2> QED BY <2>1, <2>2 DEF Compares
  <1>9. Loads'
    <2> DEFINE RowNow(c) == Row(c)'
    <2>1. \A c : RowNow(c) = Row(c)
      BY <1>5 DEF Row
    <2>2. plan'.todo = {}
      BY <1>1, <1>3 DEF Inv, Loads
    <2>3. \A k \in 1..6 : Landed(k)' <=> k <= n + 1
      BY <1>2, <1>3, <1>4 DEF Landed
    <2>4. \A k \in 1..6 : Landed(k) <=> k <= n
      BY <1>1 DEF Landed, n
    <2>5. /\ store'.turns = Turns
          /\ \A c \in plan.claims : c.id \in DOMAIN store'.claims /\ store'.claims[c.id] = Row(c)
      <3>1. CASE n = 0
        BY <1>2, <3>1
      <3>2. CASE n # 0
        <4>1. Landed(1)
          BY <1>2, <2>4, <3>2
        <4> QED BY <1>2, <3>2, <4>1 DEF Inv, Loads
      <3> QED BY <3>1, <3>2
    <2>6. n >= 1 => \A c \in plan.claims : c.id \in store'.about
      <3>1. CASE n = 1
        BY <1>2, <3>1
      <3>2. CASE n > 1
        <4>1. Landed(2)
          BY <1>2, <2>4, <3>2
        <4> QED BY <1>2, <4>1 DEF Inv, Loads
      <3> QED BY <1>2, <3>1, <3>2
    <2>7. n >= 2 => \A c \in plan.claims :
             <<c.ordinal, c.turn>> \in Turns => <<c.id, <<c.ordinal, c.turn>>>> \in store'.cited
      <3>1. CASE n = 2
        BY <1>2, <3>1
      <3>2. CASE n > 2
        <4>1. Landed(3)
          BY <1>2, <2>4, <3>2
        <4>2. \A c \in plan.claims :
                 <<c.ordinal, c.turn>> \in Turns => <<c.id, <<c.ordinal, c.turn>>>> \in store.cited
          BY <4>1 DEF Inv, Loads
        <4> QED BY <1>2, <4>2
      <3> QED BY <1>2, <3>1, <3>2
    <2>8. \A k \in 4..6 : k <= n + 1 => EdgesOf(plan.edges, LoadOrder[k]) \subseteq store'.rev
      <3> SUFFICES ASSUME NEW k \in 4..6, k <= n + 1
                   PROVE  EdgesOf(plan.edges, LoadOrder[k]) \subseteq store'.rev
        OBVIOUS
      <3>1. k = n + 1 \/ Landed(k)
        BY <1>2, <2>4
      <3>2. k = n + 1 \/ EdgesOf(plan.edges, LoadOrder[k]) \subseteq store.rev
        BY <3>1 DEF Inv, Loads
      <3> QED BY <1>2, <3>2
    <2>9. Landed(1)' => /\ store'.turns = Turns
                        /\ \A c \in plan'.claims : c.id \in DOMAIN store'.claims /\ store'.claims[c.id] = RowNow(c)
      BY <1>3, <2>1, <2>5
    <2>10. Landed(2)' => \A c \in plan'.claims : c.id \in store'.about
      BY <1>2, <1>3, <2>3, <2>6
    <2>11. Landed(3)' => \A c \in plan'.claims :
             <<c.ordinal, c.turn>> \in Turns => <<c.id, <<c.ordinal, c.turn>>>> \in store'.cited
      BY <1>2, <1>3, <2>3, <2>7
    <2>12. \A k \in 4..6 : Landed(k)' => EdgesOf(plan'.edges, LoadOrder[k]) \subseteq store'.rev
      BY <1>3, <2>3, <2>8
    <2> QED BY <2>2, <2>9, <2>10, <2>11, <2>12 DEF Loads
  <1>10. EdgesRead'
    BY <1>1, <1>2, <1>3, ReadStays DEF Inv
  <1>11. ReportsStand'
    BY <1>1, <1>2 DEF Inv, ReportsStand, Findable, Named
  <1> QED BY <1>6, <1>7, <1>8, <1>9, <1>10, <1>11 DEF Inv

\* A call that starts, or starts again.
LEMMA CallStarts ==
  ASSUME NEW c \in Commands, NewCall(c)
  PROVE  /\ SlotsInv' /\ plan' = EmptyPlan /\ command' \in Commands /\ command'.phase = "extract"
         /\ command'.extractor = c.extractor /\ command'.judged = c.judged
  <1>1. /\ command' \in Commands /\ command'.phase = "extract"
        /\ command'.extractor = c.extractor /\ command'.judged = c.judged /\ plan' = EmptyPlan
    <2>1. command' = [c EXCEPT !.phase = "extract", !.attempt = @ + 1] /\ plan' = EmptyPlan
      BY DEF NewCall
    <2>2. command' = [phase |-> "extract", extractor |-> c.extractor, judged |-> c.judged,
                      try |-> c.try, attempt |-> c.attempt + 1]
      BY <2>1 DEF Commands
    <2> QED BY <2>1, <2>2 DEF Commands, Phases
  <1>2. CASE c.extractor = "llm"
    <2>1. slots' = [b \in 1 .. Batches |-> [is |-> "waiting", found |-> {}]]
      BY <1>2 DEF NewCall
    <2> QED BY <1>1, <1>2, <2>1 DEF SlotsInv, Fields
  <1>3. CASE c.extractor # "llm"
    <2>1. DOMAIN slots' = {}
      BY <1>3 DEF NewCall
    <2> QED BY <1>1, <1>3, <2>1 DEF SlotsInv, Fields
  <1> QED BY <1>1, <1>2, <1>3

LEMMA StartKeeps ==
  ASSUME Inv, Start
  PROVE  Inv'
  <1>1. PICK x \in Extractors, j \in Judging :
           /\ NewCall([command EXCEPT !.extractor = x, !.judged = j, !.try = 1])
           /\ used' = used \cup {<<x, j>>}
    BY DEF Start
  <1> DEFINE c == [command EXCEPT !.extractor = x, !.judged = j, !.try = 1]
  <1>2. x \in Readers /\ j \in BOOLEAN
    BY IngestAssumption DEF Readers
  <1>3. c \in Commands /\ c.extractor = x /\ c.judged = j
    <2>1. command \in Commands
      BY DEF Inv, TypesInv, CommandInv
    <2>2. c \in Commands
      <3>1. \A r \in Readers, b \in BOOLEAN, n \in 1..2 : \A k \in Commands :
               [k EXCEPT !.extractor = r, !.judged = b, !.try = n] \in Commands
        BY DEF Commands
      <3>2. 1 \in 1..2
        OBVIOUS
      <3> QED BY <1>2, <2>1, <3>1, <3>2
    <2>3. c.extractor = x
      BY <2>1 DEF Commands
    <2>4. c.judged = j
      BY <2>1 DEF Commands
    <2> QED BY <2>2, <2>3, <2>4
  <1> HIDE DEF c
  <1>4. /\ SlotsInv' /\ plan' = EmptyPlan /\ command' \in Commands /\ command'.phase = "extract"
        /\ command'.extractor = x /\ command'.judged = j
    BY <1>1, <1>3, CallStarts DEF c
  <1>5. UNCHANGED <<cache, store, lexicon, reported>>
    BY DEF Start
  <1>6. CommandInv'
    BY <1>1, <1>2, <1>4 DEF Inv, TypesInv, CommandInv
  <1>7. CacheInv' /\ StoreInv' /\ LexiconInv' /\ ReportsStand'
    BY <1>5 DEF Inv, TypesInv, CacheInv, StoreInv, LexiconInv, ReportsStand, Findable, Named
  <1>8. PlanInv' /\ PlanRead' /\ Compares' /\ Loads'
    BY <1>4, NothingPlanned
  <1>9. EdgesRead'
    <2>1. plan'.edges = {}
      BY <1>4 DEF EmptyPlan
    <2> QED BY <1>1, <1>5, <2>1, ReadStays DEF Inv
  <1> QED BY <1>4, <1>6, <1>7, <1>8, <1>9 DEF Inv, TypesInv

\* What writeLexicon leaves in the file, and what is left when it is cut short.
LEMMA LexiconIs ==
  ASSUME LexiconInv
  PROVE  /\ Fields(WrittenLexicon, {"entities", "attributes"})
         /\ lexicon.entities \subseteq WrittenLexicon.entities
         /\ lexicon.attributes \subseteq WrittenLexicon.attributes
         /\ \A c \in plan.claims : /\ {"the user"} \cup ({c.value} \cap Proper) \subseteq WrittenLexicon.entities
                                   /\ c.attr \in WrittenLexicon.attributes
  <1>1. CASE plan.claims = {}
    BY <1>1 DEF WrittenLexicon, LexiconInv
  <1>2. CASE plan.claims # {}
    <2>1. WrittenLexicon = MergedLexicon(lexicon, BuildLexicon(plan.claims))
      BY <1>2 DEF WrittenLexicon
    <2>2. /\ DOMAIN WrittenLexicon = {"entities", "attributes"}
          /\ WrittenLexicon.entities
                = lexicon.entities \cup {"the user"} \cup ({c.value : c \in plan.claims} \cap Proper)
          /\ WrittenLexicon.attributes = lexicon.attributes \cup {c.attr : c \in plan.claims}
      BY <1>2, <2>1 DEF LexiconInv, Fields, MergedLexicon, BuildLexicon, Entities
    <2> QED BY <2>2 DEF Fields
  <1> QED BY <1>1, <1>2

LEMMA LexiconStands ==
  ASSUME LexiconInv, ReportsStand, LexiconLeft
  PROVE  /\ LexiconInv' /\ reported'.claims = reported.claims
         /\ \A c \in reported'.named : Named(c)'
  <1>1. CASE lexicon' = NoLexicon
    BY <1>1 DEF LexiconLeft, NoLexicon, LexiconInv, Fields
  <1>2. CASE lexicon' # NoLexicon
    <2>1. reported' = reported /\ lexicon' \in {lexicon, WrittenLexicon}
      BY <1>2 DEF LexiconLeft
    <2>2. /\ Fields(lexicon', {"entities", "attributes"})
          /\ lexicon.entities \subseteq lexicon'.entities /\ lexicon.attributes \subseteq lexicon'.attributes
      BY <2>1, LexiconIs DEF LexiconInv
    <2> QED BY <2>1, <2>2 DEF LexiconInv, ReportsStand, Named
  <1> QED BY <1>1, <1>2

\* What a call that is given up leaves: what had landed.
LEMMA CallEnds ==
  ASSUME Inv, command.phase \notin {"idle", "done"},
         \/ store' = store
         \/ command.phase = "load" /\ store' = Merged(LoadOrder[plan.loaded + 1]),
         LexiconLeft, UNCHANGED <<cache, used>>, plan' = EmptyPlan,
         command' \in Commands, command'.phase \in {"idle", "extract"},
         command'.extractor = command.extractor, command'.judged = command.judged, SlotsInv'
  PROVE  Inv'
  <1>1. CommandInv'
    BY DEF Inv, TypesInv, CommandInv
  <1>2. /\ CacheInv' /\ LexiconInv' /\ reported'.claims = reported.claims
        /\ \A c \in reported'.named : Named(c)'
    BY LexiconStands DEF Inv, TypesInv, CacheInv
  <1>3. PlanInv' /\ PlanRead' /\ Compares' /\ Loads'
    BY NothingPlanned
  <1>4. /\ StoreInv'
        /\ store.about \subseteq store'.about /\ store.cited \subseteq store'.cited
        /\ store'.rev \subseteq store.rev \union plan.edges
    <2>1. CASE store' = store
      BY <2>1 DEF Inv, TypesInv, StoreInv
    <2>2. CASE command.phase = "load" /\ store' = Merged(LoadOrder[plan.loaded + 1])
      BY <2>2, MergedIs
    <2> QED BY <2>1, <2>2
  <1>5. EdgesRead'
    <2>1. plan'.edges = {}
      BY DEF EmptyPlan
    <2> QED BY <1>4, <2>1, ReadStays DEF Inv
  <1>6. ReportsStand'
    BY <1>2, <1>4 DEF Inv, ReportsStand, Findable
  <1> QED BY <1>1, <1>2, <1>3, <1>4, <1>5, <1>6 DEF Inv, TypesInv

LEMMA KillKeeps ==
  ASSUME Inv, Kill
  PROVE  Inv'
  <1>1. /\ command.phase \notin {"idle", "done"} /\ plan' = EmptyPlan /\ slots' = <<>>
        /\ UNCHANGED <<store, cache, used>> /\ LexiconLeft
    BY DEF Kill
  <1>2. /\ command' \in Commands /\ command'.phase = "idle"
        /\ command'.extractor = command.extractor /\ command'.judged = command.judged
    BY DEF Kill, Phase, Inv, TypesInv, CommandInv, Commands, Phases
  <1>3. SlotsInv'
    BY <1>1, <1>2 DEF SlotsInv
  <1> QED BY <1>1, <1>2, <1>3, CallEnds

LEMMA ThrowKeeps ==
  ASSUME Inv, Throw
  PROVE  Inv'
  <1>1. /\ command.phase \notin {"idle", "done"}
        /\ \/ store' = store
           \/ command.phase = "load" /\ store' = Merged(LoadOrder[plan.loaded + 1])
        /\ UNCHANGED <<cache, used>> /\ LexiconLeft
    BY DEF Throw
  <1>2. CASE NewCall([command EXCEPT !.try = 2])
    <2> DEFINE c == [command EXCEPT !.try = 2]
    <2>1. c \in Commands /\ c.extractor = command.extractor /\ c.judged = command.judged
      BY DEF Inv, TypesInv, CommandInv, Commands
    <2> HIDE DEF c
    <2>2. /\ SlotsInv' /\ plan' = EmptyPlan /\ command' \in Commands /\ command'.phase = "extract"
          /\ command'.extractor = command.extractor /\ command'.judged = command.judged
      BY <1>2, <2>1, CallStarts DEF c
    <2> QED BY <1>1, <2>2, CallEnds
  <1>3. CASE Phase("idle") /\ slots' = <<>> /\ plan' = EmptyPlan
    <2>1. /\ command' \in Commands /\ command'.phase = "idle"
          /\ command'.extractor = command.extractor /\ command'.judged = command.judged
      BY <1>3 DEF Phase, Inv, TypesInv, CommandInv, Commands, Phases
    <2>2. SlotsInv'
      BY <1>3, <2>1 DEF SlotsInv
    <2> QED BY <1>1, <1>3, <2>1, <2>2, CallEnds
  <1> QED BY <1>2, <1>3 DEF Throw

\* Asking for a batch, its answer and its failure.
AskStep == Ask \/ (\E b \in DOMAIN slots : Reply(b) \/ ReplyFails(b))

LEMMA AskKeeps ==
  ASSUME Inv, AskStep
  PROVE  Inv'
  <1>1. UNCHANGED <<command, plan, store, lexicon, reported, used>>
    BY DEF AskStep, Ask, Reply, ReplyFails
  <1>2. /\ DOMAIN slots # {} /\ command.phase = "extract" /\ plan = EmptyPlan
        /\ DOMAIN slots = IF command.extractor = "llm" THEN 1..Batches ELSE {}
        /\ \A b \in DOMAIN slots : Fields(slots[b], {"is", "found"}) /\ slots[b].found \in {{}} \union Found(b)
    <2>1. DOMAIN slots # {}
      BY DEF AskStep, Ask
    <2>2. command.phase = "extract"
      BY <2>1 DEF Inv, TypesInv, SlotsInv
    <2> QED BY <2>1, <2>2 DEF Inv, TypesInv, SlotsInv, PlanInv
  <1>3. ASSUME NEW b \in DOMAIN slots, NEW slot, slots' = [slots EXCEPT ![b] = slot],
               Fields(slot, {"is", "found"}), slot.found \in {{}} \union Found(b)
        PROVE  SlotsInv'
    <2>1. /\ DOMAIN slots' = DOMAIN slots /\ slots'[b] = slot
          /\ \A c \in DOMAIN slots : c # b => slots'[c] = slots[c]
      BY <1>3
    <2>2. \A c \in DOMAIN slots' : Fields(slots'[c], {"is", "found"}) /\ slots'[c].found \in {{}} \union Found(c)
      BY <1>2, <1>3, <2>1
    <2> QED BY <1>1, <1>2, <2>1, <2>2 DEF SlotsInv
  <1>4. CacheInv' /\ SlotsInv'
    <2>1. CASE Ask
      <3>1. PICK b \in DOMAIN slots : slots' = [slots EXCEPT ![b].is = "asking"]
        BY <2>1 DEF Ask
      <3>2. Fields([slots[b] EXCEPT !.is = "asking"], {"is", "found"})
            /\ [slots[b] EXCEPT !.is = "asking"].found = slots[b].found
        BY <1>2 DEF Fields
      <3>3. slots' = [slots EXCEPT ![b] = [slots[b] EXCEPT !.is = "asking"]]
        BY <3>1
      <3>4. cache' = cache
        BY <2>1 DEF Ask
      <3> QED BY <1>2, <1>3, <3>2, <3>3, <3>4 DEF Inv, TypesInv, CacheInv
    <2>2. ASSUME NEW b \in DOMAIN slots, Reply(b) PROVE CacheInv' /\ SlotsInv'
      <3>1. PICK found \in IF b \in DOMAIN cache.replies THEN {cache.replies[b]} ELSE Found(b) :
               /\ slots' = [slots EXCEPT ![b] = [is |-> "settled", found |-> found]]
               /\ \E replies \in Kept(cache.replies, b, found) : cache' = [cache EXCEPT !.replies = replies]
        BY <2>2 DEF Reply
      <3>2. b \in 1..Batches /\ found \in Found(b)
        BY <1>2, <3>1 DEF Inv, TypesInv, CacheInv
      <3>3. PICK replies \in Kept(cache.replies, b, found) : cache' = [cache EXCEPT !.replies = replies]
        BY <3>1
      <3>4. DOMAIN cache' = DOMAIN cache /\ cache'.verdicts = cache.verdicts /\ cache'.replies = replies
        BY <3>3 DEF Inv, TypesInv, CacheInv, Fields
      <3>5. DOMAIN replies \subseteq 1..Batches /\ \A c \in DOMAIN replies : replies[c] \in Found(c)
        BY <3>2, <3>3 DEF Kept, WrittenOver, Inv, TypesInv, CacheInv
      <3>6. CacheInv'
        BY <3>4, <3>5 DEF Inv, TypesInv, CacheInv, Fields
      <3>7. SlotsInv'
        <4> DEFINE slot == [is |-> "settled", found |-> found]
        <4>1. Fields(slot, {"is", "found"}) /\ slot.found \in {{}} \union Found(b)
          BY <3>2 DEF Fields
        <4>2. slots' = [slots EXCEPT ![b] = slot]
          BY <3>1
        <4> HIDE DEF slot
        <4> QED BY <1>3, <4>1, <4>2
      <3> QED BY <3>6, <3>7
    <2>3. ASSUME NEW b \in DOMAIN slots, ReplyFails(b) PROVE CacheInv' /\ SlotsInv'
      <3>1. cache' = cache /\ slots' = [slots EXCEPT ![b].is = "settled"]
        BY <2>3 DEF ReplyFails
      <3>2. Fields([slots[b] EXCEPT !.is = "settled"], {"is", "found"})
            /\ [slots[b] EXCEPT !.is = "settled"].found = slots[b].found
        BY <1>2 DEF Fields
      <3>3. slots' = [slots EXCEPT ![b] = [slots[b] EXCEPT !.is = "settled"]]
        BY <3>1
      <3> QED BY <1>2, <1>3, <3>1, <3>2, <3>3 DEF Inv, TypesInv, CacheInv
    <2> QED BY <2>1, <2>2, <2>3 DEF AskStep
  <1>5. CommandInv' /\ StoreInv' /\ LexiconInv' /\ ReportsStand'
    BY <1>1 DEF Inv, TypesInv, CommandInv, StoreInv, LexiconInv, ReportsStand, Findable, Named
  <1>6. PlanInv' /\ PlanRead' /\ Compares' /\ Loads'
    BY <1>1, <1>2, NothingPlanned
  <1>7. EdgesRead'
    BY <1>1, ReadStays DEF Inv
  <1> QED BY <1>4, <1>5, <1>6, <1>7 DEF Inv, TypesInv

LEMMA MultiEdgesAre ==
  ASSUME CommandInv, NEW S, S \subseteq Claims, IsFiniteSet(S),
         \A c, d \in S : c.id = d.id => c = d
  PROVE  /\ MultiEdges(S) \subseteq Revision /\ IsFiniteSet(MultiEdges(S))
         /\ \A e \in MultiEdges(S) : \E c, d \in S :
               /\ c.attr = d.attr /\ Arity(c.attr) = "MULTI"
               /\ c.polarity = "NEGATE" /\ d.polarity = "AFFIRM"
               /\ e.newer = c.id /\ e.older = d.id
         /\ \A e, f \in MultiEdges(S) : e.newer = f.newer => e = f
  <1> DEFINE members(n) == {m \in S : /\ m.attr = n.attr /\ m.polarity = "AFFIRM"
                                      /\ m.value = n.value /\ m.event <= n.event}
             first(n) == CHOOSE m \in members(n) : \A o \in members(n) \ {m} : Before(m, o)
             N == {c \in S : Arity(c.attr) = "MULTI" /\ c.polarity = "NEGATE" /\ members(c) # {}}
             edge(n) == Edge("SUPERSEDES", n, first(n), 70)
  <1>1. MultiEdges(S) = {edge(n) : n \in N}
    BY DEF MultiEdges
  <1>2. \A c \in S : c.id \in Nat /\ c.event \in Int
    BY ClaimsAre
  <1>3. ASSUME NEW n \in N PROVE first(n) \in members(n)
    <2> DEFINE M == members(n)
               L == {p \in M \X M : Before(p[1], p[2])}
    <2>1. M # {} /\ M \subseteq S
      OBVIOUS
    <2>2. \A c, d \in M : <<c, d>> \in L <=> Before(c, d)
      OBVIOUS
    <2> HIDE DEF M, L
    <2>3. IsFiniteSet(M) /\ (\A c \in M : c.id \in Nat /\ c.event \in Int)
          /\ \A c, d \in M : c.id = d.id => c = d
      BY <1>2, <2>1, FS_Subset
    <2>4. \A c, d \in M : c = d \/ <<c, d>> \in L \/ <<d, c>> \in L
      BY <2>2, <2>3, BeforeIsTotal
    <2>5. \A c, d, e \in M : <<c, d>> \in L /\ <<d, e>> \in L => <<c, e>> \in L
      BY <2>2, <2>3, BeforeIsTotal
    <2>6. \E m \in M : \A d \in M \ {m} : <<m, d>> \in L
      BY ONLY <2>1, <2>3, <2>4, <2>5, FirstExists
    <2>7. \E m \in M : \A d \in M \ {m} : Before(m, d)
      BY <2>2, <2>6
    <2>8. (CHOOSE m \in M : \A o \in M \ {m} : Before(m, o)) \in M
      BY <2>7
    <2> QED BY <2>8 DEF M
  <1>4. ASSUME NEW n \in N
        PROVE  /\ n \in S /\ first(n) \in S /\ n.attr = first(n).attr /\ Arity(n.attr) = "MULTI"
               /\ n.polarity = "NEGATE" /\ first(n).polarity = "AFFIRM"
               /\ edge(n).newer = n.id /\ edge(n).older = first(n).id
               /\ edge(n) \in Revision
    <2>1. /\ first(n) \in S /\ n.attr = first(n).attr /\ first(n).polarity = "AFFIRM"
      BY <1>3
    <2>2. n \in S /\ Arity(n.attr) = "MULTI" /\ n.polarity = "NEGATE"
      OBVIOUS
    <2> DEFINE d == first(n)
    <2> HIDE DEF d
    <2>3. d \in S
      BY <2>1 DEF d
    <2>4. /\ Edge("SUPERSEDES", n, d, 70).newer = n.id /\ Edge("SUPERSEDES", n, d, 70).older = d.id
          /\ Edge("SUPERSEDES", n, d, 70) \in Revision
      BY <1>2, <2>2, <2>3 DEF Edge, Revision, Relation, CommandInv, Commands
    <2> QED BY <2>1, <2>2, <2>4 DEF d
  <1>5. IsFiniteSet(MultiEdges(S))
    <2> DEFINE f == [n \in N |-> edge(n)]
    <2>1. IsFiniteSet(N)
      BY FS_Subset
    <2>2. f \in Surjection(N, MultiEdges(S))
      BY <1>1 DEF Surjection
    <2> HIDE DEF f, N
    <2> QED BY <2>1, <2>2, FS_Surjection
  <1> HIDE DEF N, first, edge
  <1>6. MultiEdges(S) \subseteq Revision
    BY <1>1, <1>4
  <1>7. \A e \in MultiEdges(S) : \E c, d \in S :
               /\ c.attr = d.attr /\ Arity(c.attr) = "MULTI"
               /\ c.polarity = "NEGATE" /\ d.polarity = "AFFIRM"
               /\ e.newer = c.id /\ e.older = d.id
    BY <1>1, <1>4
  <1>8. \A e, f \in MultiEdges(S) : e.newer = f.newer => e = f
    BY <1>1, <1>4
  <1> QED BY <1>5, <1>6, <1>7, <1>8

LEMMA PrepareKeeps ==
  ASSUME Inv, Prepare
  PROVE  Inv'
  <1> DEFINE x == command.extractor
             extracted == IF x = "llm" THEN UNION {slots[b].found : b \in DOMAIN slots} ELSE RuleSees
             claims == Prepared(extracted, x)
  <1>1. /\ command.phase = "extract" /\ \A b \in DOMAIN slots : slots[b].is = "settled"
        /\ plan' = [claims |-> claims, edges |-> MultiEdges(claims), todo |-> Queue(claims),
                    head |-> {}, apart |-> {}, loaded |-> 0]
        /\ slots' = <<>> /\ Phase("resolve")
        /\ UNCHANGED <<cache, store, lexicon, reported, used>>
    BY DEF Prepare
  <1>2. /\ x \in Readers /\ <<x, command.judged>> \in used
        /\ command' \in Commands /\ command'.phase = "resolve"
        /\ command'.extractor = x /\ command'.judged = command.judged
    BY <1>1 DEF Inv, TypesInv, CommandInv, Commands, Phases, Phase
  <1>3. extracted \subseteq Statement /\ claims \subseteq Known(x)
    <2>1. CASE x = "llm"
      <3> DEFINE f == [b \in DOMAIN slots |-> slots[b].found]
      <3>1. DOMAIN f = 1..Batches /\ \A b \in DOMAIN f : f[b] \in {{}} \union Found(b)
        BY <1>1, <2>1 DEF Inv, TypesInv, SlotsInv
      <3>2. extracted = UNION {f[b] : b \in DOMAIN f}
        BY <2>1
      <3> HIDE DEF f, extracted
      <3> QED BY <2>1, <3>1, <3>2, PreparedIsKnown
    <2>2. CASE x # "llm"
      BY <1>2, <2>2, IngestAssumption DEF Known
    <2> QED BY <2>1, <2>2
  <1> HIDE DEF extracted
  <1>4. /\ claims \subseteq Claims /\ IsFiniteSet(claims)
        /\ \A c, d \in claims : c.id = d.id => c = d
    BY <1>2, <1>3, PreparedIs
  <1> HIDE DEF claims
  <1>5. /\ MultiEdges(claims) \subseteq Revision /\ IsFiniteSet(MultiEdges(claims))
        /\ \A e \in MultiEdges(claims) : \E c, d \in claims :
              /\ c.attr = d.attr /\ Arity(c.attr) = "MULTI"
              /\ c.polarity = "NEGATE" /\ d.polarity = "AFFIRM"
              /\ e.newer = c.id /\ e.older = d.id
        /\ \A e, f \in MultiEdges(claims) : e.newer = f.newer => e = f
    BY <1>4, MultiEdgesAre DEF Inv, TypesInv
  <1>6. /\ plan'.claims = claims /\ plan'.edges = MultiEdges(claims) /\ plan'.todo = Queue(claims)
        /\ plan'.head = {} /\ plan'.loaded = 0 /\ Queue(claims) \subseteq claims
    BY <1>1 DEF Queue
  <1>7. TypesInv'
    <2>1. CommandInv'
      BY <1>1, <1>2 DEF Inv, TypesInv, CommandInv
    <2>2. CacheInv' /\ StoreInv' /\ LexiconInv'
      BY <1>1 DEF Inv, TypesInv, CacheInv, StoreInv, LexiconInv
    <2>3. PlanInv'
      BY <1>1, <1>2, <1>4, <1>5, <1>6 DEF PlanInv
    <2>4. SlotsInv'
      BY <1>1, <1>2 DEF SlotsInv
    <2> QED BY <2>1, <2>2, <2>3, <2>4 DEF TypesInv
  <1>8. PlanRead'
    BY <1>2, <1>3, <1>6 DEF PlanRead, claims
  <1>9. Compares'
    <2>1. InOrder'
      BY <1>6 DEF InOrder
    <2>2. EdgesPlanned'
      <3>1. ASSUME NEW e \in MultiEdges(claims)
            PROVE  \E c, d \in claims : c \notin Queue(claims) /\ c # d /\ e.newer = c.id /\ e.older = d.id
        <4>1. PICK c \in claims, d \in claims :
                /\ c.attr = d.attr /\ Arity(c.attr) = "MULTI"
                /\ c.polarity = "NEGATE" /\ d.polarity = "AFFIRM"
                /\ e.newer = c.id /\ e.older = d.id
          BY <1>5
        <4>2. c \notin Queue(claims) /\ c # d
          BY <4>1 DEF Queue
        <4> QED BY <4>1, <4>2
      <3> QED BY <1>5, <1>6, <3>1 DEF EdgesPlanned
    <2>3. AllSurface'
      BY <1>6 DEF AllSurface
    <2>4. LatestStand'
      BY <1>6 DEF LatestStand, Told
    <2> QED BY <2>1, <2>2, <2>3, <2>4 DEF Compares
  <1>10. Loads' /\ ReportsStand'
    BY <1>1, <1>2 DEF Inv, Loads, Landed, ReportsStand, Findable, Named
  <1>11. EdgesRead'
    <2> SUFFICES ASSUME NEW e \in EdgesOf(store.rev \union MultiEdges(claims), "SUPERSEDES")
                 PROVE  \E u \in used : \E c \in Known(u[1]), d \in Known(u[1]) : Displaces(e, c, d, u[2])
      BY <1>1, <1>6 DEF EdgesRead
    <2>2. CASE e \in store.rev
      BY <2>2 DEF Inv, EdgesRead, EdgesOf
    <2>3. CASE e \in MultiEdges(claims)
      <3>1. PICK c \in claims, d \in claims :
              /\ c.attr = d.attr /\ Arity(c.attr) = "MULTI"
              /\ c.polarity = "NEGATE" /\ d.polarity = "AFFIRM"
              /\ e.newer = c.id /\ e.older = d.id
        BY <1>5, <2>3
      <3> DEFINE u == <<x, command.judged>>
      <3>2. Displaces(e, c, d, u[2])
        BY <3>1 DEF Displaces, Overrules
      <3> QED BY <1>2, <1>3, <3>2
    <2> QED BY <2>2, <2>3 DEF EdgesOf
  <1> QED BY <1>7, <1>8, <1>9, <1>10, <1>11 DEF Inv

\* The comparison is over; the load, or the call, is over.
LEMMA PhaseKeeps ==
  ASSUME Inv, Resolved \/ WriteLexicon
  PROVE  Inv'
  <1>1. /\ UNCHANGED <<slots, plan, cache, store, used>>
        /\ \/ command.phase = "resolve" /\ Phase("load") /\ plan.todo = {}
              /\ lexicon' = lexicon /\ reported' = reported
           \/ /\ command.phase = "lexicon" /\ Phase("done") /\ lexicon' = WrittenLexicon
              /\ reported' = [f \in DOMAIN reported |-> reported[f] \cup plan.claims]
    BY DEF Resolved, WriteLexicon
  <1>2. /\ command' \in Commands
        /\ \/ command.phase = "resolve" /\ command'.phase = "load"
           \/ command.phase = "lexicon" /\ command'.phase = "done"
        /\ command'.extractor = command.extractor /\ command'.judged = command.judged
        /\ command'.attempt = command.attempt
        /\ <<command.extractor, command.judged>> \in used
    <2>1. command \in Commands /\ <<command.extractor, command.judged>> \in used
      BY <1>1 DEF Inv, TypesInv, CommandInv
    <2>2. \A p \in Phases : [command EXCEPT !.phase = p] \in Commands
      BY <2>1 DEF Commands
    <2>3. PICK p \in {"load", "done"} :
             /\ command' = [command EXCEPT !.phase = p]
             /\ command.phase = IF p = "load" THEN "resolve" ELSE "lexicon"
      BY <1>1 DEF Phase
    <2>4. p \in Phases
      BY DEF Phases
    <2>5. /\ command'.phase = p
          /\ command'.extractor = command.extractor /\ command'.judged = command.judged
          /\ command'.attempt = command.attempt
      BY <2>1, <2>3 DEF Commands
    <2>6. command' \in Commands
      BY <2>2, <2>3, <2>4
    <2>7. \/ command.phase = "resolve" /\ command'.phase = "load"
          \/ command.phase = "lexicon" /\ command'.phase = "done"
      BY <2>3, <2>5
    <2> QED BY <2>1, <2>5, <2>6, <2>7
  <1>3. CommandInv' /\ CacheInv' /\ StoreInv' /\ SlotsInv'
    BY <1>1, <1>2 DEF Inv, TypesInv, CommandInv, CacheInv, StoreInv, SlotsInv
  <1>4. PlanInv'
    BY <1>1, <1>2 DEF Inv, TypesInv, PlanInv
  <1>5. PlanRead' /\ EdgesRead'
    BY <1>1, <1>2 DEF Inv, PlanRead, Planned, EdgesRead
  <1>6. Compares'
    <2>1. InOrder' /\ EdgesPlanned' /\ AllSurface'
      BY <1>1 DEF Inv, Compares, InOrder, EdgesPlanned, AllSurface, EarlierOf, Surfaced, Queue
    <2>2. LatestStand'
      BY <1>1, <1>2 DEF Inv, Compares, LatestStand, Timed, Told, Fell, LatestOf, Queue
    <2> QED BY <2>1, <2>2 DEF Compares
  <1>7. Loads'
    <2>1. \A c : Row(c)' = Row(c)
      BY <1>2 DEF Row
    <2>2. CASE command.phase = "resolve"
      <3>1. plan.loaded = 0
        BY <2>2 DEF Inv, TypesInv, PlanInv
      <3>2. \A k \in 1..6 : ~Landed(k)'
        BY <1>1, <3>1 DEF Landed
      <3> QED BY <1>1, <2>2, <3>2 DEF Loads
    <2>3. CASE command.phase = "lexicon"
      <3>1. \A k \in 1..6 : Landed(k)' <=> Landed(k)
        BY <1>1, <1>2, <2>3 DEF Landed
      <3> QED BY <1>1, <1>2, <2>1, <2>3, <3>1 DEF Inv, Loads, Row
    <2> QED BY <1>2, <2>2, <2>3
  <1>8. LexiconInv' /\ ReportsStand'
    <2>1. CASE lexicon' = lexicon /\ reported' = reported
      BY <1>1, <2>1 DEF Inv, TypesInv, LexiconInv, ReportsStand, Findable, Named
    <2>2. CASE /\ command.phase = "lexicon" /\ lexicon' = WrittenLexicon
               /\ reported' = [f \in DOMAIN reported |-> reported[f] \cup plan.claims]
      <3>1. /\ Fields(reported', {"claims", "named"})
            /\ reported'.claims = reported.claims \cup plan.claims
            /\ reported'.named = reported.named \cup plan.claims
        BY <2>2 DEF Inv, TypesInv, LexiconInv, Fields
      <3>2. LexiconInv'
        BY <2>2, <3>1, LexiconIs DEF Inv, TypesInv, LexiconInv
      <3>3. \A c \in reported.named \cup plan.claims : Named(c)'
        BY <2>2, LexiconIs DEF Inv, TypesInv, ReportsStand, Named
      <3>4. Landed(2) /\ Landed(3)
        BY <2>2 DEF Landed, Inv, TypesInv, PlanInv
      <3>5. \A c \in reported.claims \cup plan.claims : Findable(c)'
        BY <1>1, <3>4 DEF Inv, Loads, ReportsStand, Findable
      <3>6. plan.claims \subseteq Claims
        BY DEF Inv, TypesInv, PlanInv
      <3> QED BY <3>1, <3>2, <3>3, <3>5, <3>6 DEF Inv, ReportsStand
    <2> QED BY <1>1, <2>1, <2>2
  <1> QED BY <1>3, <1>4, <1>5, <1>6, <1>7, <1>8 DEF Inv, TypesInv

LEMMA InitInv == Init => Inv
  <1> SUFFICES ASSUME Init PROVE Inv
    OBVIOUS
  <1>1. command = Idle /\ plan = EmptyPlan /\ DOMAIN slots = {}
    BY DEF Init
  <1>2. CommandInv
    BY <1>1 DEF Init, CommandInv, Commands, Idle, Phases, Readers
  <1>3. CacheInv /\ LexiconInv /\ SlotsInv
    BY <1>1 DEF Init, CacheInv, LexiconInv, SlotsInv, Fields, Idle, NoLexicon
  <1>4. StoreInv
    BY FS_EmptySet DEF Init, StoreInv, Fields
  <1>5. PlanInv /\ PlanRead /\ Compares /\ Loads
    <2>1. PlanInv
      BY <1>1, FS_EmptySet DEF PlanInv, EmptyPlan, Idle
    <2>2. Queue({}) = {}
      BY DEF Queue
    <2>3. Compares
      BY <1>1, <2>2 DEF Compares, InOrder, EdgesPlanned, AllSurface, LatestStand, EmptyPlan
    <2>4. PlanRead /\ Loads
      BY <1>1 DEF PlanRead, Planned, Loads, Landed, Idle
    <2> QED BY <2>1, <2>3, <2>4
  <1>6. EdgesRead /\ ReportsStand
    BY <1>1 DEF Init, EdgesRead, EdgesOf, EmptyPlan, ReportsStand
  <1> QED BY <1>2, <1>3, <1>4, <1>5, <1>6 DEF Inv, TypesInv

LEMMA NextInv == Inv /\ [Next]_vars => Inv'
  <1> SUFFICES ASSUME Inv, [Next]_vars PROVE Inv'
    OBVIOUS
  <1>1. CASE UNCHANGED vars
    <2>1. UNCHANGED <<command, slots, plan, cache, store, lexicon, reported, used>>
      BY <1>1 DEF vars
    <2>2. TypesInv'
      BY <2>1 DEF Inv, TypesInv, CommandInv, CacheInv, PlanInv, StoreInv, SlotsInv, LexiconInv
    <2>3. PlanRead' /\ EdgesRead' /\ ReportsStand'
      BY <2>1 DEF Inv, PlanRead, Planned, EdgesRead, ReportsStand, Findable, Named
    <2>4. InOrder' /\ EdgesPlanned' /\ AllSurface'
      BY <2>1 DEF Inv, Compares, InOrder, EdgesPlanned, AllSurface, EarlierOf, Surfaced, Queue
    <2>5. LatestStand'
      BY <2>1 DEF Inv, Compares, LatestStand, Timed, Told, Fell, LatestOf, Queue
    <2>6. Loads'
      <3>1. \A k : Landed(k)' <=> Landed(k)
        BY <2>1 DEF Landed
      <3>2. \A c : Row(c)' = Row(c)
        BY <2>1 DEF Row
      <3> QED BY <2>1, <3>1, <3>2 DEF Inv, Loads, Row
    <2> QED BY <2>2, <2>3, <2>4, <2>5, <2>6 DEF Inv, Compares
  <1>2. CASE Rest
    BY <1>1, <1>2 DEF Rest
  <1>3. CASE Start
    BY <1>3, StartKeeps
  <1>4. CASE Kill
    BY <1>4, KillKeeps
  <1>5. CASE AskStep
    BY <1>5, AskKeeps
  <1>6. CASE Prepare
    BY <1>6, PrepareKeeps
  <1>7. CASE CompareStep
    BY <1>7, CompareKeeps
  <1>8. CASE Resolved \/ WriteLexicon
    BY <1>8, PhaseKeeps
  <1>9. CASE LoadBatch
    BY <1>9, LoadKeeps
  <1>10. CASE Throw
    BY <1>10, ThrowKeeps
  <1> QED
    BY <1>1, <1>2, <1>3, <1>4, <1>5, <1>6, <1>7, <1>8, <1>9, <1>10 DEF Next, AskStep, CompareStep

\* Every state that is reached satisfies the invariant.
THEOREM InvariantHolds == Spec => []Inv
  BY InitInv, NextInv, PTL DEF Spec

----------------------------------------------------------------------------
(* What is reported can be found, and surfaces *)

LEMMA ReportsAreFound ==
  ASSUME Inv, TurnsExist
  PROVE  ReportedIsFindable
  <1> SUFFICES ASSUME NEW c \in reported.claims
               PROVE  c.id \in store.about /\ <<c.id, <<c.ordinal, c.turn>>>> \in store.cited
    BY DEF ReportedIsFindable, Inv, ReportsStand
  <1>1. c \in Claims /\ Findable(c)
    BY DEF Inv, ReportsStand
  <1>2. PICK s \in Statement, x \in Readers : c = Claim(s, x)
    BY <1>1 DEF Claims
  <1>3. <<c.ordinal, c.turn>> \in Turns
    BY <1>2, ClaimIs DEF TurnsExist, Readers
  <1> QED BY <1>1, <1>3 DEF Findable

LEMMA Surfaces ==
  ASSUME Inv
  PROVE  UnresolvedSurfaces
  <1> SUFFICES ASSUME command.phase = "done", NEW c \in plan.claims, Arity(c.attr) = "FUNCTIONAL",
                      \E d \in plan.claims : d.attr = c.attr /\ Before(d, c)
               PROVE  \/ \E e \in store.rev : e.newer = c.id
                      \/ c \in plan.apart
    BY DEF UnresolvedSurfaces
  <1>1. plan.loaded = 6 /\ plan.todo = {} /\ plan.edges \subseteq Revision
    BY DEF Inv, TypesInv, PlanInv, Loads
  <1>2. plan.edges \subseteq store.rev
    <2> SUFFICES ASSUME NEW e \in plan.edges PROVE e \in store.rev
      OBVIOUS
    <2>1. \A k \in 4..6 : EdgesOf(plan.edges, LoadOrder[k]) \subseteq store.rev
      BY <1>1 DEF Inv, Loads, Landed
    <2>2. e.rel \in Relation
      BY <1>1 DEF Revision
    <2>3. \E k \in 4..6 : e.rel = LoadOrder[k]
      BY <2>2 DEF Relation, LoadOrder
    <2> QED BY <2>1, <2>3 DEF EdgesOf
  <1>3. c \in Queue(plan.claims) \ plan.todo /\ EarlierOf(c) # {}
    BY <1>1 DEF Queue, EarlierOf
  <1>4. Surfaced(c)
    BY <1>3 DEF Inv, Compares, AllSurface
  <1> QED BY <1>2, <1>4 DEF Surfaced

----------------------------------------------------------------------------
(* Calls that read alike never revise in a circle *)

\* Of what one extractor may say, claims of one id say it alike.
LEMMA KnownAgree ==
  ASSUME ReadOnce, NEW x \in Readers, NEW c \in Known(x), NEW d \in Known(x), c.id = d.id
  PROVE  Agree(c, d)
  <1>1. CASE x # "llm"
    <2>1. Known(x) = Prepared(RuleSees, x)
      BY <1>1 DEF Known
    <2>2. c = d
      BY <2>1, PreparedIs, IngestAssumption
    <2> QED BY <2>2 DEF Agree
  <1>2. CASE x = "llm"
    <2>1. PICK b \in 1..Batches : \E F \in Found(b) : c \in Prepared(F, x)
      BY <1>2 DEF Known
    <2>2. PICK k \in 1..Batches : \E G \in Found(k) : d \in Prepared(G, x)
      BY <1>2 DEF Known
    <2> QED BY <1>2, <2>1, <2>2 DEF ReadOnce
  <1> QED BY <1>1, <1>2

LEMMA UsedIsFinite ==
  ASSUME CommandInv
  PROVE  IsFiniteSet(used) /\ IsFiniteSet({u[1] : u \in used})
  <1>1. IsFiniteSet(Readers)
    <2>1. IsFiniteSet({"rule"}) /\ IsFiniteSet({"llm"})
      BY FS_Singleton
    <2>2. Readers = {"rule"} \union {"llm"}
      BY DEF Readers
    <2> QED BY <2>1, <2>2, FS_Union
  <1>2. IsFiniteSet(BOOLEAN)
    <2>1. IsFiniteSet({TRUE}) /\ IsFiniteSet({FALSE})
      BY FS_Singleton
    <2>2. BOOLEAN = {TRUE} \union {FALSE}
      OBVIOUS
    <2> QED BY <2>1, <2>2, FS_Union
  <1>3. IsFiniteSet(Readers \X BOOLEAN)
    BY <1>1, <1>2, FS_Product
  <1>4. {u[1] : u \in used} \subseteq Readers
    BY DEF CommandInv
  <1> QED BY <1>1, <1>3, <1>4, FS_Subset DEF CommandInv

\* With one extractor, each supersession that was stored is between claims that
\* it was known to say.
LEMMA OneReader ==
  ASSUME Inv, OneReading
  PROVE  \E x \in Readers : /\ \A u \in used : u[1] = x
                            /\ \A e \in EdgesOf(store.rev, "SUPERSEDES") :
                                  \E c, d \in Known(x) :
                                     e.newer = c.id /\ e.older = d.id /\ Overrules(c, d)
  <1> DEFINE U == {u[1] : u \in used}
  <1>1. IsFiniteSet(U) /\ Cardinality(U) = 1
    BY UsedIsFinite DEF OneReading, Inv, TypesInv
  <1> HIDE DEF U
  <1>2. PICK x : U = {x}
    BY <1>1, FS_Singleton
  <1>3. x \in Readers /\ \A u \in used : u[1] = x
    BY <1>2 DEF U, Inv, TypesInv, CommandInv
  <1>4. ASSUME NEW e \in EdgesOf(store.rev, "SUPERSEDES")
        PROVE  \E c, d \in Known(x) : e.newer = c.id /\ e.older = d.id /\ Overrules(c, d)
    <2>1. e \in EdgesOf(store.rev \union plan.edges, "SUPERSEDES")
      BY DEF EdgesOf
    <2>2. PICK u \in used : \E c \in Known(u[1]), d \in Known(u[1]) : Displaces(e, c, d, u[2])
      BY <2>1 DEF Inv, EdgesRead
    <2>3. u[1] = x
      BY <1>3
    <2> QED BY <2>2, <2>3 DEF Displaces
  <1> QED BY <1>3, <1>4

LEMMA NoCircle ==
  ASSUME Inv, ReadOnce, OneReading
  PROVE  /\ ~HasCycle(EdgesOf(store.rev, "SUPERSEDES"))
         /\ EdgeSet(EdgesOf(store.rev, "SUPERSEDES"))
  <1> DEFINE sup == EdgesOf(store.rev, "SUPERSEDES")
  <1>1. PICK x \in Readers :
           \A e \in sup : \E c, d \in Known(x) : e.newer = c.id /\ e.older = d.id /\ Overrules(c, d)
    BY OneReader
  <1>2. Known(x) \subseteq Claims
    BY KnownIs
  <1>3. \A c \in Known(x) : c.id \in Nat /\ c.event \in Int
    BY <1>2, ClaimsAre
  <1>4. \A c, d \in Known(x) : c.id = d.id => Agree(c, d)
    BY KnownAgree
  <1>5. sup \subseteq store.rev /\ IsFiniteSet(sup)
    BY FS_Subset DEF Inv, TypesInv, StoreInv, EdgesOf
  <1>6. \A c, d \in Known(x) : Overrules(c, d) => c.id # d.id
    BY <1>3, <1>4 DEF Overrules, Agree, Before
  <1>7. EdgeSet(sup)
    <2>1. \A e \in sup : e \in Revision /\ e.rel = "SUPERSEDES" /\ e.newer # e.older
      BY <1>1, <1>5, <1>6 DEF Inv, TypesInv, StoreInv, EdgesOf
    <2>2. \A e, f \in sup : e.newer = f.newer /\ e.older = f.older => e = f
      BY <1>5, <2>1 DEF Inv, TypesInv, StoreInv
    <2> QED BY <1>5, <2>1, <2>2 DEF EdgeSet, Revision
  <1> HIDE DEF sup
  <1>8. ASSUME HasCycle(sup) PROVE FALSE
    <2>1. PICK S \in SUBSET Newers(sup) : S # {} /\ \A n \in S : \E e \in sup : e.newer = n /\ e.older \in S
      BY <1>8 DEF HasCycle
    <2>2. IsFiniteSet(S)
      <3>1. IsFiniteSet(Newers(sup) \union Olders(sup)) /\ S \subseteq Newers(sup) \union Olders(sup)
        BY <1>5, EndsFinite
      <3> QED BY ONLY <3>1, FS_Subset
    <2>3. \A n \in S : \E c \in Known(x) : c.id = n
      BY <1>1, <2>1
    <2> DEFINE says == [n \in S |-> CHOOSE c \in Known(x) : c.id = n]
               L == {p \in S \X S : Before(says[p[1]], says[p[2]])}
    <2>4. \A n \in S : says[n] \in Known(x) /\ says[n].id = n
      BY <2>3
    <2>5. \A a, b \in S : <<a, b>> \in L <=> Before(says[a], says[b])
      OBVIOUS
    <2> HIDE DEF says, L
    <2>6. \A a, b \in S : a = b \/ <<a, b>> \in L \/ <<b, a>> \in L
      <3> SUFFICES ASSUME NEW a \in S, NEW b \in S, a # b PROVE Before(says[a], says[b]) \/ Before(says[b], says[a])
        BY <2>5
      <3>1. /\ says[a].id = a /\ says[b].id = b /\ a \in Nat /\ b \in Nat
            /\ says[a].event \in Int /\ says[b].event \in Int
        BY <1>3, <2>4
      <3> QED BY <3>1 DEF Before
    <2>7. \A a, b, c \in S : <<a, b>> \in L /\ <<b, c>> \in L => <<a, c>> \in L
      BY <1>3, <2>4, <2>5 DEF Before
    <2>8. PICK m \in S : \A n \in S \ {m} : <<m, n>> \in L
      BY ONLY <2>1, <2>2, <2>6, <2>7, FirstExists
    <2>9. PICK n \in S : \E c, d \in Known(x) : c.id = m /\ d.id = n /\ Overrules(c, d)
      BY <1>1, <2>1
    <2>10. PICK c \in Known(x), d \in Known(x) : c.id = m /\ d.id = n /\ Overrules(c, d)
      BY <2>9
    <2>11. Agree(c, says[m]) /\ Agree(d, says[n]) /\ n # m
      BY <1>4, <1>6, <2>4, <2>10
    <2>12. CASE Arity(c.attr) = "FUNCTIONAL"
      <3>1. Before(says[n], says[m])
        BY <2>4, <2>10, <2>11, <2>12 DEF Overrules, Before, Agree
      <3>2. Before(says[m], says[n])
        BY <2>5, <2>8, <2>11
      <3> QED BY <1>3, <2>4, <3>1, <3>2 DEF Before
    <2>13. CASE Arity(c.attr) # "FUNCTIONAL"
      <3>1. PICK i \in Known(x), j \in Known(x) : i.id = n /\ Overrules(i, j)
        BY <1>1, <2>1
      <3>2. Agree(i, d)
        BY <1>4, <2>10, <3>1
      <3> QED BY <2>10, <2>13, <3>1, <3>2 DEF Overrules, Agree
    <2> QED BY <2>12, <2>13
  <1> QED BY <1>7, <1>8 DEF sup

----------------------------------------------------------------------------
(* The latest statement is believed *)

\* A call that returned has stored what it prepared.
LEMMA StoreHasPlan ==
  ASSUME Inv, command.phase = "done", OneWay
  PROVE  /\ used = {<<command.extractor, command.judged>>}
         /\ {c.id : c \in plan.claims} \subseteq store.about /\ store.about \subseteq DOMAIN store.claims
         /\ \A c \in plan.claims : store.claims[c.id] = Row(c)
  <1> DEFINE x == command.extractor
  <1>1. x \in Readers /\ <<x, command.judged>> \in used
    BY DEF Inv, TypesInv, CommandInv
  <1>2. used = {<<x, command.judged>>}
    <2>1. IsFiniteSet(used) /\ Cardinality(used) = 1
      BY UsedIsFinite DEF OneWay, Inv, TypesInv
    <2>2. PICK u : used = {u}
      BY <2>1, FS_Singleton
    <2> QED BY <1>1, <2>2
  <1>3. Landed(1) /\ Landed(2)
    BY DEF Inv, TypesInv, PlanInv, Landed
  <1>4. \A c \in plan.claims : store.claims[c.id] = Row(c) /\ c.id \in store.about
    BY <1>3 DEF Inv, Loads
  <1>5. store.about \subseteq DOMAIN store.claims
    BY DEF Inv, TypesInv, StoreInv
  <1> QED BY <1>2, <1>4, <1>5

\* What the plan displaced, or saw to support, is displaced or supports in the
\* store.
LEMMA FellIsDisplaced ==
  ASSUME Inv, command.phase = "done", NEW c \in plan.claims, Fell(c)
  PROVE  c.id \in Olders(EdgesOf(store.rev, "SUPERSEDES")) \union Newers(EdgesOf(store.rev, "SUPPORTS"))
  <1>1. \A k \in 4..6 : EdgesOf(plan.edges, LoadOrder[k]) \subseteq store.rev
    BY DEF Inv, TypesInv, PlanInv, Loads, Landed
  <1>2. EdgesOf(plan.edges, "SUPERSEDES") \subseteq store.rev /\ EdgesOf(plan.edges, "SUPPORTS") \subseteq store.rev
    <2>1. LoadOrder[4] = "SUPERSEDES" /\ LoadOrder[6] = "SUPPORTS"
      BY DEF LoadOrder
    <2> QED BY <1>1, <2>1
  <1> QED BY <1>2 DEF Fell, EdgesOf, Olders, Newers

LEMMA LatestWins ==
  ASSUME Inv, ReadOnce
  PROVE  LatestStatementWins
  <1> SUFFICES ASSUME command.phase = "done", OneWay, ~command.judged,
                      NEW a \in {store.claims[i].attr : i \in store.about},
                      Arity(a) = "FUNCTIONAL", Distinct(a), FoundAgain(a), NEW i \in Group(a),
                      store.claims[i].value # store.claims[BelievedOf(a)].value
               PROVE  \E j \in Group(a) : /\ store.claims[j].value = store.claims[BelievedOf(a)].value
                                          /\ store.claims[j].event > store.claims[i].event
    BY DEF LatestStatementWins
  <1> DEFINE T == {c \in plan.claims : c.attr = a}
             G == Group(a)
             E == store.rev
             R == store.claims
             sup == EdgesOf(E, "SUPERSEDES")
             h == BelievedOf(a)
  <1>1. /\ used = {<<command.extractor, command.judged>>}
        /\ {c.id : c \in plan.claims} \subseteq store.about /\ store.about \subseteq DOMAIN R
        /\ \A c \in plan.claims : R[c.id] = Row(c)
    BY StoreHasPlan
  <1>2. \A c \in plan.claims : R[c.id].attr = c.attr /\ R[c.id].value = c.value /\ R[c.id].event = c.event
    <2>1. \A c : Row(c).attr = c.attr /\ Row(c).value = c.value /\ Row(c).event = c.event
      BY DEF Row
    <2> HIDE DEF R
    <2> QED BY <1>1, <2>1
  <1>3. /\ G = {c.id : c \in T}
        /\ \A c \in T : R[c.id].value = c.value /\ R[c.id].event = c.event
    <2>1. G = {k \in store.about : R[k].attr = a}
      BY DEF Group
    <2>2. G \subseteq {c.id : c \in plan.claims}
      BY DEF FoundAgain
    <2> HIDE DEF R
    <2> QED BY <1>1, <1>2, <2>1, <2>2
  <1>4. /\ plan.claims \subseteq Claims /\ IsFiniteSet(plan.claims)
        /\ \A c \in plan.claims : c.id \in Nat /\ c.event \in Int
        /\ \A c, d \in plan.claims : c.id = d.id => c = d
    BY PlanIs DEF Inv, TypesInv
  <1>5. T \subseteq plan.claims /\ IsFiniteSet(T)
    BY <1>4, FS_Subset
  <1>6. IsFiniteSet(G)
    <2> DEFINE f == [c \in T |-> c.id]
    <2>1. f \in Surjection(T, G)
      BY <1>3 DEF Surjection
    <2> HIDE DEF f, T, G
    <2> QED BY <1>5, <2>1, FS_Surjection
  <1>7. ~HasCycle(sup) /\ EdgeSet(sup)
    <2>1. {u[1] : u \in used} = {command.extractor}
      BY <1>1
    <2> DEFINE x == command.extractor
    <2> HIDE DEF x
    <2>2. Cardinality({x}) = 1
      BY FS_Singleton
    <2>3. OneReading
      BY <2>1, <2>2 DEF OneReading, x
    <2> QED BY <2>3, NoCircle
  <1>8. BreakCycles(sup) = sup
    <2> HIDE DEF sup
    <2> QED BY <1>7, CycleBrokenIsExact
  <1>9. G # {} /\ G \subseteq Nat /\ G \subseteq DOMAIN R
    <2>1. G \subseteq store.about
      BY DEF Group
    <2> QED BY <1>1, <1>3, <1>4, <2>1
  <1>10. Readable(G, R, E)
    <2>1. Comparable(G, R)
      BY <1>9 DEF Comparable, Inv, TypesInv, StoreInv
    <2> QED BY <1>6, <1>7, <2>1 DEF Readable
  <1>11. h = ResolveFunctional(G, R, E).first
    BY <1>9 DEF BelievedOf, ResolveBelief
  <1> HIDE DEF h, G
  <1>12. h \in Candidates(G, E, sup) /\ \A d \in Candidates(G, E, sup) \ {h} : NewerThan(R, h, d)
    BY <1>8, <1>9, <1>10, <1>11, FunctionalHead
  <1> HIDE DEF R, E, sup
  <1>13. /\ \A c, d \in T : c.event > Unknown /\ (c.event = d.event => c = d)
         /\ Timed(a)
    <2>1. \A c, d \in T : c.event > Unknown /\ (c.event = d.event => c.id = d.id)
      BY <1>3 DEF Distinct, G, R
    <2> QED BY <1>4, <2>1 DEF Timed
  <1>14. Told(a) = T
    BY DEF Told, Queue, Inv, Loads
  <1>15. PICK l \in T : \A c \in T : c.event <= l.event
    <2> DEFINE times == {c.event : c \in T}
               f == [c \in T |-> c.event]
    <2>1. f \in Surjection(T, times)
      BY DEF Surjection
    <2>2. times # {} /\ times \subseteq Int
      BY <1>3, <1>4, <1>5, <1>9
    <2>3. \A t \in times : \E c \in T : c.event = t
      OBVIOUS
    <2>4. \A c \in T : c.event \in times
      OBVIOUS
    <2> HIDE DEF times, f, T
    <2>5. IsFiniteSet(times)
      BY <1>5, <2>1, FS_Surjection
    <2>6. PICK t \in times : \A n \in times : n <= t
      BY <2>2, <2>5, LargestExists DEF Numbers
    <2> QED BY <2>3, <2>4, <2>6
  <1>16. \A c \in T : Fell(c) \/ c.value = l.value
    <2>1. a \in {c.attr : c \in Queue(plan.claims)}
      BY <1>15 DEF Queue
    <2>2. LatestOf(l, Told(a))
      BY <1>14, <1>15 DEF LatestOf
    <2>3. \A c, k \in Told(a) : LatestOf(k, Told(a)) => Fell(c) \/ c.value = k.value
      BY <1>13, <2>1 DEF Inv, Compares, LatestStand
    <2> HIDE DEF T
    <2> QED BY <1>14, <1>15, <2>2, <2>3
  <1>17. \A c \in T : c.id \in Undisplaced(G, E, sup) => c.value = l.value
    BY <1>5, <1>16, FellIsDisplaced DEF Undisplaced, E, sup
  <1>18. PICK c \in T : h = c.id
    BY <1>3, <1>12 DEF Candidates, Undisplaced
  <1>19. c.value = l.value
    <2>1. CASE Undisplaced(G, E, sup) # {}
      BY <1>12, <1>17, <1>18, <2>1 DEF Candidates
    <2>2. CASE Undisplaced(G, E, sup) = {}
      <3>1. l.id \in G /\ Candidates(G, E, sup) = G
        BY <1>3, <1>15, <2>2 DEF Candidates
      <3>2. CASE l.id = h
        BY <1>3, <1>15, <1>18, <3>2
      <3>3. CASE l.id # h
        <4>1. NewerThan(R, h, l.id)
          BY <1>12, <3>1, <3>3
        <4>2. R[h].event = c.event /\ R[l.id].event = l.event
          BY <1>3, <1>15, <1>18
        <4>3. c.event >= l.event
          BY <1>4, <1>5, <1>15, <1>18, <4>1, <4>2 DEF NewerThan
        <4> QED BY <1>4, <1>5, <1>13, <1>15, <1>18, <4>3
      <3> QED BY <3>2, <3>3
    <2> QED BY <2>1, <2>2
  <1>20. PICK d \in T : i = d.id
    BY <1>3 DEF G
  <1>21. /\ R[i].value = d.value /\ R[i].event = d.event /\ R[h].value = c.value
         /\ R[l.id].value = l.value /\ R[l.id].event = l.event /\ l.id \in G
    BY <1>3, <1>15, <1>18, <1>20
  <1>22. d.value # l.value
    BY <1>19, <1>21 DEF R, h
  <1>23. d.event < l.event
    BY <1>4, <1>5, <1>13, <1>15, <1>20, <1>22
  <1> QED BY <1>19, <1>21, <1>23 DEF R, h, G

----------------------------------------------------------------------------
(* Theorems *)

\* Whatever the sessions, the batches and the replies, and however calls fail, are
\* killed or follow each other: what a call reported is stored, reached and cited,
\* when its turns are; and the lexicon names its subject, its attribute and its
\* value if that is a proper noun, unless a write of the file was cut short since
\* (ingestHistory, buildLexicon, writeLexicon).
THEOREM ReportsStayFindable ==
  ASSUME TurnsExist
  PROVE  Spec => []ReportedIsFindable
  <1>1. Inv => ReportedIsFindable
    BY ReportsAreFound
  <1> QED BY <1>1, InvariantHolds, PTL

\* Each claim of a single-valued attribute that a call loaded, but the first, is
\* revised against another, or was judged to be about another thing
\* (resolveConflicts).
THEOREM UnresolvedAlwaysSurfaces == Spec => []UnresolvedSurfaces
  <1>1. Inv => UnresolvedSurfaces
    BY Surfaces
  <1> QED BY <1>1, InvariantHolds, PTL

\* As long as one extractor is used and all readings, of different batches or of
\* one that is read again because its reply was not kept, tell one thing alike, no
\* supersessions are stored in a circle, whatever a judge says, the second time too
\* (resolveConflicts, verdictToEdge).
THEOREM NoCircleIsWritten ==
  ASSUME ReadOnce
  PROVE  Spec => []RevisionsAreAcyclic
  <1>1. Inv => RevisionsAreAcyclic
    BY NoCircle DEF RevisionsAreAcyclic
  <1> QED BY <1>1, InvariantHolds, PTL

\* What was stated last is believed after a call that found again all that is
\* stored of the attribute, if the calls were made one way and without a judge and
\* their readings tell one thing alike, whatever edges earlier calls that lost
\* batches or failed half way have left behind (resolveConflicts, resolveFunctional).
THEOREM LatestIsBelieved ==
  ASSUME ReadOnce
  PROVE  Spec => []LatestStatementWins
  <1>1. Inv => LatestStatementWins
    BY LatestWins
  <1> QED BY <1>1, InvariantHolds, PTL
====
