---- MODULE Ingest ----
(* The write path of one history (packages/ingest): extraction of claims from its *)
(* statements, conflict resolution, the two-phase load and the lexicon, run by    *)
(* commands that may fail, be killed at any step, try again, or be given again    *)
(* with another extractor.                                                        *)
EXTENDS BeliefFold, Functions

CONSTANTS
    Session,        \* the sessions by ordinal 1, 2, ...: [id, date, turns]
    Said,           \* the statements, in order: [session, turn, attr, value, polarity, date]
    Proper,         \* the values that are proper nouns
    RuleSees,       \* the statements the rule extractor's patterns match
    Batches,        \* how many batches the LLM extractor makes of the statements
    Found(_),       \* the sets of statements the LLM may extract from a batch
    Extractors,     \* the extractors a command may be given: "rule", "llm"
    Judging,        \* whether a command may be given --judge
    Verdicts,       \* the judge's possible replies
    Arity(_),       \* the attribute registry
    Vid(_),         \* claim key -> vertex id, a natural number
    Workers,        \* EXTRACT_CONCURRENCY
    MaxAttempts     \* bound: times ingestHistory is called

NoDate == -1
Unknown == -1       \* an event time nobody knows
Attempts == 1 .. MaxAttempts
Statement == DOMAIN Said
Verdict == [relation : {"SUPERSEDES", "CONTRADICTS", "SUPPORTS"}, same : BOOLEAN, conf : 0 .. 100,
            order : {"CANDIDATE_NEWER", "INCUMBENT_NEWER", "UNKNOWN"}]

ASSUME IngestAssumption ==
    /\ Session \in Seq(Range(Session)) /\ Said \in Seq(Range(Said))
    /\ \A o \in DOMAIN Session : Session[o].date \in Int
    /\ \A s \in Statement : Said[s].session \in DOMAIN Session /\ Said[s].date \in Int
    /\ RuleSees \subseteq Statement /\ Batches \in Nat
    /\ \A b \in 1 .. Batches : Found(b) \subseteq SUBSET Statement
    /\ Extractors \subseteq {"rule", "llm"} /\ Judging \subseteq BOOLEAN
    /\ Verdicts \subseteq Verdict
    /\ {Workers, MaxAttempts} \subseteq Nat \ {0}

VARIABLES
    command,    \* [phase, extractor, judged, try, attempt] of the ingest command
    slots,      \* per LLM batch: [is, found]: waiting, asking or settled, and what it extracted
    plan,       \* [claims, edges, todo, head, apart, loaded]: what this call has computed
    cache,      \* [replies, verdicts]: the LLM replies kept on disk
    store,      \* [turns, entities, claims, about, cited, rev]
    lexicon,    \* the history's lexicon file: [entities, attributes]
    reported,   \* [claims, named]: of the calls that returned a summary, ever and since the
                \* lexicon was last torn
    used        \* the ways, <<extractor, judged>>, the calls have been made

vars == <<command, slots, plan, cache, store, lexicon, reported, used>>

Idle == [phase |-> "idle", extractor |-> "rule", judged |-> FALSE, try |-> 1, attempt |-> 0]
EmptyPlan == [claims |-> {}, edges |-> {}, todo |-> {}, head |-> {}, apart |-> {}, loaded |-> 0]
NoLexicon == [entities |-> {}, attributes |-> {}]     \* no file, or one that cannot be read

Init ==
    /\ command = Idle
    /\ slots = <<>>
    /\ plan = EmptyPlan
    /\ cache = [replies |-> <<>>, verdicts |-> <<>>]
    /\ store = [turns |-> {}, entities |-> {}, claims |-> <<>>, about |-> {}, cited |-> {}, rev |-> {}]
    /\ lexicon = NoLexicon
    /\ reported = [claims |-> {}, named |-> {}]
    /\ used = {}

----
(* Claims *)

(* The LLM's claims carry the session's id, not its place: prepareClaims takes    *)
(* the first session of that id, and the first session if there is none.          *)
FirstOrdinal(id) ==
    CHOOSE o \in DOMAIN Session : Session[o].id = id /\ \A p \in 1 .. o - 1 : Session[p].id # id

Ordinal(s, extractor) ==
    IF extractor = "llm" THEN FirstOrdinal(Session[Said[s].session].id) ELSE Said[s].session

(* Only the LLM reads the date a statement gives; else it happened on the date of *)
(* its session.                                                                   *)
EventTime(s, extractor) ==
    IF extractor = "llm" /\ Said[s].date # NoDate THEN Said[s].date
    ELSE Session[Ordinal(s, extractor)].date

Confidence(extractor) == IF extractor = "llm" THEN 80 ELSE 72

(* keys.claim: what is said, and where.                                           *)
ClaimKey(s, extractor) == <<Said[s].attr, Said[s].value, Ordinal(s, extractor), Said[s].turn>>

ASSUME IdsAssumption ==
    \A s \in Statement, x \in {"rule", "llm"} : Vid(ClaimKey(s, x)) \in Nat

Claim(s, extractor) ==
    [id |-> Vid(ClaimKey(s, extractor)),
     attr |-> Said[s].attr, value |-> Said[s].value, polarity |-> Said[s].polarity,
     ordinal |-> Ordinal(s, extractor), turn |-> Said[s].turn,
     event |-> EventTime(s, extractor), conf |-> Confidence(extractor), statement |-> s]

(* prepareClaims: of the claims with one key, the first extracted.                *)
Prepared(extracted, extractor) ==
    {Claim(s, extractor) : s \in
        {s \in extracted : \A r \in extracted :
            r < s => Claim(r, extractor).id # Claim(s, extractor).id}}

(* ensureEntity: the subject, and each value that isProperNoun takes for a name.  *)
Entities(claims) == IF claims = {} THEN {} ELSE {"the user"} \cup ({c.value : c \in claims} \cap Proper)

----
(* Conflicts *)

(* A slip: in the order of the ids. *)
BeforeById(a, b) == a.id < b.id

(* byEvent: unknown times first.                                                  *)
Before(a, b) == a.event < b.event \/ (a.event = b.event /\ a.id < b.id)

Edge(rel, newer, older, conf) ==
    [rel |-> rel, newer |-> newer.id, older |-> older.id, ingest |-> command.attempt, conf |-> conf]

(* A negation of a set-valued attribute supersedes the first member it matches.   *)
MultiEdges(claims) ==
    LET members(n) == {m \in claims : /\ m.attr = n.attr /\ m.polarity = "AFFIRM"
                                      /\ m.value = n.value /\ m.event <= n.event}
        first(n) == CHOOSE m \in members(n) : \A o \in members(n) \ {m} : Before(m, o)
    IN  {Edge("SUPERSEDES", n, first(n), 70) :
            n \in {c \in claims : Arity(c.attr) = "MULTI" /\ c.polarity = "NEGATE" /\ members(c) # {}}}

(* The claims that are compared: those of single-valued attributes.               *)
Queue(claims) == {c \in claims : Arity(c.attr) = "FUNCTIONAL"}

(* The temporal rule of resolveConflicts.                                         *)
RuleEdge(cur, head) ==
    IF cur.event > head.event /\ cur.event > Unknown /\ head.event > Unknown
    THEN {Edge("SUPERSEDES", cur, head, 70)}
    ELSE {Edge("CONTRADICTS", cur, head, 10)}

(* A slip: a verdict that the incumbent is newer turns the edge around. *)
VerdictEdgeTurned(v, cur, head) ==
    IF ~v.same THEN {}
    ELSE IF v.conf < 55 THEN {Edge("CONTRADICTS", cur, head, IF v.conf > 10 THEN v.conf ELSE 10)}
    ELSE IF v.relation = "SUPERSEDES" /\ v.order = "INCUMBENT_NEWER" THEN {Edge("SUPERSEDES", head, cur, v.conf)}
    ELSE {Edge(v.relation, cur, head, v.conf)}

(* verdictToEdge: no edge between claims that are not about one thing; a doubtful *)
(* verdict, or a supersession that runs against time, becomes a contradiction.    *)
(* (UNRELATED is ~same.)                                                          *)
VerdictEdge(v, cur, head) ==
    IF ~v.same THEN {}
    ELSE IF v.conf < 55 THEN {Edge("CONTRADICTS", cur, head, IF v.conf > 10 THEN v.conf ELSE 10)}
    ELSE IF v.relation = "SUPERSEDES" /\ v.order = "INCUMBENT_NEWER" THEN {Edge("CONTRADICTS", cur, head, v.conf)}
    ELSE {Edge(v.relation, cur, head, v.conf)}

(* A slip: no judgement, no edge. *)
UnjudgedEdgesNone(cur, head) == {{}}

(* The judge could not be reached, or not be understood.                          *)
UnjudgedEdges(cur, head) == {{Edge("CONTRADICTS", cur, head, c)} : c \in {10, 15}}

----
(* The command *)

WrittenOver(f, g) == [x \in DOMAIN g \cup DOMAIN f |-> IF x \in DOMAIN g THEN g[x] ELSE f[x]]

Phase(p) == command' = [command EXCEPT !.phase = p]

NewCall(c) ==
    /\ command' = [c EXCEPT !.phase = "extract", !.attempt = @ + 1]
    /\ slots' = IF c.extractor = "llm" THEN [b \in 1 .. Batches |-> [is |-> "waiting", found |-> {}]] ELSE <<>>
    /\ plan' = EmptyPlan

Start ==
    /\ command.phase \in {"idle", "done"} /\ command.attempt < MaxAttempts
    /\ \E x \in Extractors, j \in Judging :
           /\ NewCall([command EXCEPT !.extractor = x, !.judged = j, !.try = 1])
           /\ used' = used \cup {<<x, j>>}
    /\ UNCHANGED <<cache, store, lexicon, reported>>

(* Nothing more is given.                                                         *)
Rest == command.phase \in {"idle", "done"} /\ command.attempt = MaxAttempts /\ UNCHANGED vars

(* buildLexicon: the entities and the attributes the ask path can anchor on.      *)
BuildLexicon(claims) == [entities |-> Entities(claims), attributes |-> {c.attr : c \in claims}]

(* A slip: the file is written over. *)
MergedLexiconOver(prev, lex) == lex

(* mergeLexicons: additive.                                                       *)
MergedLexicon(prev, lex) == [f \in DOMAIN prev |-> prev[f] \cup lex[f]]

(* writeLexicon: merged into the file if that can be read, else in its place; a   *)
(* history without claims writes none.                                            *)
WrittenLexicon == IF plan.claims = {} THEN lexicon ELSE MergedLexicon(lexicon, BuildLexicon(plan.claims))

(* The file is not written at once: cut short, it may be as it was, torn, or      *)
(* whole.                                                                         *)
LexiconLeft ==
    /\ lexicon' \in IF command.phase = "lexicon" /\ plan.claims # {}
                     THEN {lexicon, NoLexicon, WrittenLexicon} ELSE {lexicon}
    /\ reported' = IF lexicon' = NoLexicon THEN [reported EXCEPT !.named = {}] ELSE reported

(* The process is killed between any two steps, or while it writes the lexicon.   *)
Kill ==
    /\ command.phase \notin {"idle", "done"}
    /\ Phase("idle") /\ slots' = <<>> /\ plan' = EmptyPlan
    /\ LexiconLeft
    /\ UNCHANGED <<cache, store, used>>

----
(* Extraction *)

Asking == {b \in DOMAIN slots : slots[b].is = "asking"}

(* A free worker takes the next batch.                                            *)
Ask ==
    /\ command.phase = "extract"
    /\ \E b \in DOMAIN slots :
           /\ slots[b].is = "waiting" /\ \A c \in 1 .. b - 1 : slots[c].is # "waiting"
           /\ Cardinality(Asking) < Workers
           /\ slots' = [slots EXCEPT ![b].is = "asking"]
    /\ UNCHANGED <<command, plan, cache, store, lexicon, reported, used>>

(* The reply is kept under its prompt, so that it is the same the next time;      *)
(* unless writeCache could not write it, which nobody notices.                    *)
Kept(f, k, v) == {f, WrittenOver(f, [x \in {k} |-> v])}

Reply(b) ==
    /\ b \in Asking
    /\ \E found \in IF b \in DOMAIN cache.replies THEN {cache.replies[b]} ELSE Found(b) :
           /\ slots' = [slots EXCEPT ![b] = [is |-> "settled", found |-> found]]
           /\ \E replies \in Kept(cache.replies, b, found) : cache' = [cache EXCEPT !.replies = replies]
    /\ UNCHANGED <<command, plan, store, lexicon, reported, used>>

(* A failed batch, one refused at the budget cap included, drops itself only.     *)
ReplyFails(b) ==
    /\ b \in Asking /\ b \notin DOMAIN cache.replies
    /\ slots' = [slots EXCEPT ![b].is = "settled"]
    /\ UNCHANGED <<command, plan, cache, store, lexicon, reported, used>>

(* Every batch has settled, or the rules have been applied: the claims are        *)
(* prepared and their conflicts lined up.                                         *)
Prepare ==
    /\ command.phase = "extract"
    /\ \A b \in DOMAIN slots : slots[b].is = "settled"
    /\ LET extracted == IF command.extractor = "llm" THEN UNION {slots[b].found : b \in DOMAIN slots} ELSE RuleSees
           claims == Prepared(extracted, command.extractor)
       IN  plan' = [claims |-> claims, edges |-> MultiEdges(claims), todo |-> Queue(claims), head |-> {},
                    apart |-> {}, loaded |-> 0]
    /\ slots' = <<>>
    /\ Phase("resolve")
    /\ UNCHANGED <<cache, store, lexicon, reported, used>>

----
(* Conflict resolution *)

(* The claim whose turn it is: group after group, each sorted.                    *)
InHand == {c \in plan.todo : \E h \in plan.head : h.attr = c.attr}
Cur ==
    CHOOSE c \in IF InHand = {} THEN plan.todo ELSE InHand :
        \A d \in plan.todo \ {c} : d.attr = c.attr => Before(c, d)
Incumbent == CHOOSE h \in plan.head : TRUE
Compared(e, head, apart) ==
    plan' = [plan EXCEPT !.todo = @ \ {Cur}, !.edges = @ \cup e, !.head = head, !.apart = @ \cup apart]
Superseding(e) == \E f \in e : f.rel = "SUPERSEDES"
Advanced(e) == IF Superseding(e) THEN {Cur} ELSE plan.head

(* The first claim of a group is its head.                                        *)
FirstOfGroup ==
    /\ command.phase = "resolve" /\ plan.todo # {}
    /\ \A h \in plan.head : h.attr # Cur.attr
    /\ Compared({}, {Cur}, {})
    /\ UNCHANGED <<command, slots, cache, store, lexicon, reported, used>>

Comparing == command.phase = "resolve" /\ plan.todo # {} /\ \E h \in plan.head : h.attr = Cur.attr

SameValue ==
    /\ Comparing /\ Cur.value = Incumbent.value
    /\ Compared({Edge("SUPPORTS", Cur, Incumbent, Cur.conf)}, plan.head, {})
    /\ UNCHANGED <<command, slots, cache, store, lexicon, reported, used>>

Ruled ==
    /\ Comparing /\ Cur.value # Incumbent.value /\ ~command.judged
    /\ LET e == RuleEdge(Cur, Incumbent) IN Compared(e, Advanced(e), {})
    /\ UNCHANGED <<command, slots, cache, store, lexicon, reported, used>>

(* The judge's verdict on the pair, kept like every reply.                        *)
Judged ==
    /\ Comparing /\ Cur.value # Incumbent.value /\ command.judged
    /\ LET pair == <<Incumbent, Cur>>
       IN  \E v \in IF pair \in DOMAIN cache.verdicts THEN {cache.verdicts[pair]} ELSE Verdicts :
               /\ LET e == VerdictEdge(v, Cur, Incumbent) IN Compared(e, Advanced(e), IF v.same THEN {} ELSE {Cur})
               /\ \E verdicts \in Kept(cache.verdicts, pair, v) : cache' = [cache EXCEPT !.verdicts = verdicts]
    /\ UNCHANGED <<command, slots, store, lexicon, reported, used>>

JudgeFails ==
    /\ Comparing /\ Cur.value # Incumbent.value /\ command.judged
    /\ <<Incumbent, Cur>> \notin DOMAIN cache.verdicts
    /\ \E e \in UnjudgedEdges(Cur, Incumbent) : Compared(e, plan.head, {})
    /\ UNCHANGED <<command, slots, cache, store, lexicon, reported, used>>

Resolved ==
    /\ command.phase = "resolve" /\ plan.todo = {}
    /\ Phase("load")
    /\ UNCHANGED <<slots, plan, cache, store, lexicon, reported, used>>

----
(* The load, batch by batch *)

LoadOrder == <<"nodes", "about", "cited", "SUPERSEDES", "CONTRADICTS", "SUPPORTS">>

Turns == UNION {{<<o, t>> : t \in 1 .. Session[o].turns} : o \in DOMAIN Session}

Row(c) == [attr |-> c.attr, value |-> c.value, event |-> c.event, ingest |-> command.attempt,
           conf |-> c.conf, polarity |-> c.polarity]

(* A row is merged by its id and overwrites what the vertex or edge had.          *)
WithNodes ==
    [store EXCEPT !.turns = Turns,
                  !.entities = @ \cup Entities(plan.claims),
                  !.claims = WrittenOver(@, [i \in {c.id : c \in plan.claims} |->
                                                Row(CHOOSE c \in plan.claims : c.id = i)])]

WithRevisions(rel) ==
    LET new == {e \in plan.edges : e.rel = rel /\ {e.newer, e.older} \subseteq DOMAIN store.claims}
    IN  [store EXCEPT !.rev =
            {e \in @ : \A f \in new : <<e.rel, e.newer, e.older>> # <<f.rel, f.newer, f.older>>} \cup new]

(* An edge MATCHes its endpoints: where one is missing, nothing is merged.        *)
Merged(b) ==
    CASE b = "nodes" -> WithNodes
      [] b = "about" -> [store EXCEPT !.about = @ \cup ({c.id : c \in plan.claims} \cap DOMAIN store.claims)]
      [] b = "cited" -> [store EXCEPT !.cited = @ \cup
                            {<<c.id, <<c.ordinal, c.turn>>>> :
                                c \in {c \in plan.claims : c.id \in DOMAIN store.claims /\ <<c.ordinal, c.turn>> \in store.turns}}]
      [] OTHER -> WithRevisions(b)

LoadBatch ==
    /\ command.phase = "load"
    /\ store' = Merged(LoadOrder[plan.loaded + 1])
    /\ plan' = [plan EXCEPT !.loaded = @ + 1]
    /\ IF plan.loaded + 1 = Len(LoadOrder) THEN Phase("lexicon") ELSE UNCHANGED command
    /\ UNCHANGED <<slots, cache, lexicon, reported, used>>

(* The load, or writing the lexicon, throws: the batch may have landed. The       *)
(* command tries the history once more and then gives it up.                      *)
Throw ==
    /\ command.phase \in {"load", "lexicon"}
    /\ store' \in {store} \cup (IF command.phase = "load" THEN {Merged(LoadOrder[plan.loaded + 1])} ELSE {})
    /\ IF command.try = 1 /\ command.attempt < MaxAttempts
       THEN NewCall([command EXCEPT !.try = 2])
       ELSE Phase("idle") /\ slots' = <<>> /\ plan' = EmptyPlan
    /\ LexiconLeft
    /\ UNCHANGED <<cache, used>>

(* The file is written last. Aliases only add words for what is named anyway, and *)
(* asking for them cannot fail. The call returns its summary.                     *)
WriteLexicon ==
    /\ command.phase = "lexicon"
    /\ lexicon' = WrittenLexicon
    /\ reported' = [f \in DOMAIN reported |-> reported[f] \cup plan.claims]
    /\ Phase("done")
    /\ UNCHANGED <<slots, plan, cache, store, used>>

Next ==
    \/ Start \/ Rest \/ Kill
    \/ Ask \/ (\E b \in DOMAIN slots : Reply(b) \/ ReplyFails(b)) \/ Prepare
    \/ FirstOfGroup \/ SameValue \/ Ruled \/ Judged \/ JudgeFails \/ Resolved
    \/ LoadBatch \/ Throw \/ WriteLexicon

Spec == Init /\ [][Next]_vars

----
(* What the belief read finds of one attribute: its claims are reached through    *)
(* the ABOUT edge of their subject.                                               *)
Group(a) == {i \in store.about : store.claims[i].attr = a}
BelievedOf(a) == ResolveBelief("FUNCTIONAL", Group(a), store.claims, store.rev).first

OneWay == Cardinality(used) = 1
OneReading == Cardinality({u[1] : u \in used}) = 1
Distinct(a) ==
    \A i, j \in Group(a) : /\ store.claims[i].event > Unknown
                           /\ store.claims[i].event = store.claims[j].event => i = j

(* What the theorems suppose of the input: each claim cites a turn that its       *)
(* session has (two sessions of one id may differ in their turns), and no two     *)
(* readings tell one thing differently: of two batches (llm.ts checks a citation  *)
(* against the whole history, so that a batch may speak of a turn of another), or *)
(* of one, read again when its reply was not kept.                                *)
TurnsExist == \A s \in Statement, x \in {"rule", "llm"} : <<Ordinal(s, x), Said[s].turn>> \in Turns
Agree(c, d) == c.attr = d.attr /\ c.event = d.event /\ c.polarity = d.polarity
ReadOnce ==
    \A b, k \in 1 .. Batches :
        \A F \in Found(b), G \in Found(k) :
            \A c \in Prepared(F, "llm"), d \in Prepared(G, "llm") : c.id = d.id => Agree(c, d)

(* When the calls were all made one way and without a judge, and the times of the *)
(* statements are known and distinct, the belief after a call that returned is    *)
(* what was stated last (build.ts: "later event supersedes earlier"), whatever    *)
(* edges earlier calls that failed half way or lost batches have left behind;     *)
(* provided that the call found every claim that is stored. (A claim that only an *)
(* earlier call found, whose load then failed, has no edge to displace it.)       *)
FoundAgain(a) == Group(a) \subseteq {c.id : c \in plan.claims}

LatestStatementWins ==
    command.phase = "done" /\ OneWay /\ ~command.judged =>
        \A a \in {store.claims[i].attr : i \in store.about} :
            Arity(a) = "FUNCTIONAL" /\ Distinct(a) /\ FoundAgain(a) =>
                \A i \in Group(a) :
                    store.claims[i].value # store.claims[BelievedOf(a)].value =>
                        \E j \in Group(a) : /\ store.claims[j].value = store.claims[BelievedOf(a)].value
                                           /\ store.claims[j].event > store.claims[i].event

(* Whatever a call reported can be found, also after later calls by another       *)
(* extractor: each claim is stored, reached from its subject and cited to a turn  *)
(* that is stored; and, unless a later write of the lexicon was cut short, the    *)
(* lexicon that the ask path anchors on has its subject, its attribute and its    *)
(* value if that is a name ("additive, never lossy", lexicon.ts).                 *)
Named(c) == /\ {"the user"} \cup ({c.value} \cap Proper) \subseteq lexicon.entities
            /\ c.attr \in lexicon.attributes

ReportedIsFindable ==
    /\ \A c \in reported.claims :
           c.id \in store.about /\ <<c.id, <<c.ordinal, c.turn>>>> \in store.cited
    /\ \A c \in reported.named : Named(c)

(* Calls that read the statements with the same extractor never write revisions   *)
(* in a circle between them, whatever the judge says, fails to say, or says of    *)
(* other pairs the next time.                                                     *)
RevisionsAreAcyclic == OneReading => ~HasCycle(EdgesOf(store.rev, "SUPERSEDES"))

(* Claims of a single-valued attribute that a call has loaded are never silently  *)
(* unrelated: each but the first is revised against an earlier one, unless the    *)
(* judge said in this call that they are about different things ("Nothing is ever *)
(* dropped").                                                                     *)
UnresolvedSurfaces ==
    command.phase = "done" =>
        \A c \in plan.claims :
            Arity(c.attr) = "FUNCTIONAL" /\ (\E d \in plan.claims : d.attr = c.attr /\ Before(d, c)) =>
                \/ \E e \in store.rev : e.newer = c.id
                \/ c \in plan.apart
====
