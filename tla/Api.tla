--------------------------------- MODULE Api ---------------------------------
(***************************************************************************)
(* The HTTP process of apps/api while the history it serves is ingested    *)
(* and corrected: the rate limiter before every route (ratelimit.ts), the  *)
(* lexicon cache (deps.ts), POST /api/ask and GET /api/diff (query.ts).    *)
(*                                                                         *)
(* The store holds the claims of one single-valued attribute of one        *)
(* subject.  A correction is one step here: Corrections.tla takes it apart.*)
(* Handlers that are in flight together only read, so one at a time is     *)
(* followed; any number of requests to other routes pass beside it.        *)
(***************************************************************************)
EXTENDS RateLimiter, BeliefFold

CONSTANTS
  Loopback,     \* the keys of the machine itself, which are exempt
  LoadedRow,    \* the claims ingestion loads, each with its row
  LoadedEdges,  \* the edges it loads
  CorrectionId, \* the ids corrections may hash to
  MaterialMax   \* claims that become synthesis material

ASSUME StoreAssumption ==
  /\ CorrectionId \subseteq Nat /\ CorrectionId \intersect DOMAIN LoadedRow = {}
  /\ MaterialMax \in Nat \ {0}
  \* No chain is longer than the eight hops of diffChain and of its check.
  /\ Cardinality(CorrectionId \union DOMAIN LoadedRow) <= 9

ASSUME LoadedAssumption ==
  /\ DOMAIN LoadedRow \subseteq Nat /\ IsFiniteSet(DOMAIN LoadedRow)
  /\ \A c \in DOMAIN LoadedRow :
       {LoadedRow[c].event, LoadedRow[c].ingest, LoadedRow[c].conf} \subseteq Int
  /\ IsFiniteSet(LoadedEdges)
  /\ \A e \in LoadedEdges :
       /\ e.rel = "SUPERSEDES" /\ {e.ingest, e.conf} \subseteq Int
       /\ {e.newer, e.older} \subseteq DOMAIN LoadedRow /\ e.newer # e.older
  /\ \A e, f \in LoadedEdges : e.newer = f.newer /\ e.older = f.older => e = f

VARIABLES
  row,     \* the claims in the store
  sup,     \* its SUPERSEDES edges
  lexicon, \* whether the history's lexicon file is written
  cache,   \* the process's copy: "unread", "null" or "lexicon"
  req      \* the request being followed

storeVars == <<row, sup, lexicon>>
vars == <<now, limiterVars, storeVars, cache, req>>

\* The limiter exempts loopback callers.
LetThrough(k) == IF k \in Loopback THEN UNCHANGED limiterVars ELSE Admit(k)

----------------------------------------------------------------------------
(* The store *)

\* The ingest CLI writes the graph, stamped with the second its run began, then
\* the lexicon.
LoadHistory ==
  /\ DOMAIN row = {}
  /\ \A c \in DOMAIN LoadedRow : LoadedRow[c].ingest <= now \div Second
  /\ \A e \in LoadedEdges : e.ingest <= now \div Second
  /\ row' = LoadedRow /\ sup' = LoadedEdges
  /\ UNCHANGED <<now, limiterVars, lexicon, cache, req>>

WriteLexicon ==
  /\ DOMAIN row # {} /\ ~lexicon
  /\ lexicon' = TRUE
  /\ UNCHANGED <<now, limiterVars, row, sup, cache, req>>

\* A correction displaces the head its handler read, now or a while ago.
Correct(c, target) ==
  /\ c \in CorrectionId \ DOMAIN row /\ target \in DOMAIN row
  /\ row' = [d \in DOMAIN row \union {c} |->
               IF d = c THEN [event |-> now \div Second, ingest |-> now \div Second,
                              conf |-> 99, polarity |-> "AFFIRM"]
               ELSE row[d]]
  /\ sup' = sup \union {[rel |-> "SUPERSEDES", newer |-> c, older |-> target,
                         ingest |-> now \div Second, conf |-> 99]}
  /\ UNCHANGED <<now, limiterVars, lexicon, cache, req>>

----------------------------------------------------------------------------
(* The requests *)

None == {}
Idle == [route |-> "none", phase |-> "done", outcome |-> "none", struck |-> {},
         rows |-> {}, claims |-> None, edges |-> None, cites |-> <<>>,
         from |-> 0, to |-> 0, paths |-> None, listed |-> None, agree |-> TRUE]

\* The history's own subject is an anchor of every question, so a question
\* has anchors as soon as the process holds a lexicon.
Anchored == cache' = "lexicon"

\* A claim some correction of a later second displaced.
StruckBy(E, R) == {e.older : e \in {f \in E : R[f.newer].event > R[f.older].event}}

\* lexicon(historyId): the first look decides, a missing file included.
LookUpLexicon ==
  cache' = IF cache # "unread" THEN cache ELSE IF lexicon THEN "lexicon" ELSE "null"

Ask(k) ==
  /\ req.phase = "done" /\ LetThrough(k)
  /\ LookUpLexicon
  /\ req' = IF Anchored
            THEN [Idle EXCEPT !.route = "ask", !.phase = "rows", !.struck = StruckBy(sup, row)]
            ELSE [Idle EXCEPT !.route = "ask", !.outcome = "no_anchor"]
  /\ UNCHANGED <<now, storeVars>>

Diff(k) ==
  /\ req.phase = "done" /\ LetThrough(k)
  /\ req' = [Idle EXCEPT !.route = "diff", !.phase = "belief"]
  /\ UNCHANGED <<now, storeVars, cache>>

\* The other routes: the limiter is all that happens.
Other(k) == LetThrough(k) /\ UNCHANGED <<now, storeVars, cache, req>>

TooMany(k) == Refuse(k) /\ UNCHANGED <<now, storeVars, cache, req>>

Step == UNCHANGED <<now, limiterVars, storeVars, cache>>

\* claimsForEntities: the claims about the anchors.
ClaimsForEntities == DOMAIN row

\* The read the material and the coordinates come from.
ReadRows ==
  /\ req.phase = "rows"
  /\ req' = IF ClaimsForEntities = {}
            THEN [Idle EXCEPT !.route = "ask", !.outcome = "no_claim_fit"]
            ELSE [req EXCEPT !.phase = "belief", !.rows = ClaimsForEntities]
  /\ Step

\* loadBelief: the claim read and the edge reads, each at a moment of its own.
ReadClaims ==
  /\ req.phase = "belief" /\ req.claims = None
  /\ req' = [req EXCEPT !.claims = {DOMAIN row}]
  /\ Step

ReadEdges ==
  /\ req.phase = "belief" /\ req.edges = None
  /\ req' = [req EXCEPT !.edges = {sup}]
  /\ Step

Loaded == req.phase = "belief" /\ req.claims # None /\ req.edges # None
GotClaims == CHOOSE C \in req.claims : TRUE
GotEdges == CHOOSE E \in req.edges : TRUE

----------------------------------------------------------------------------
(* askQuery after its reads *)

\* belief.head ?? belief.heads[0]
Believed == ResolveBelief("FUNCTIONAL", GotClaims, row, GotEdges).first

\* A slip: the material in its own order.
HeadFirstNot(head, rest) == rest

\* headFirst: the answer's own claim, then the rest without it.
HeadFirst(head, rest) == <<head>> \o SelectSeq(rest, LAMBDA c : c # head)

\* The first three of the material, which is ranked by the question's words:
\* any order of any part of the rows.
Cited ==
  {s \in UNION {[1..n -> req.rows] : n \in 1..3} :
     /\ \A i, j \in DOMAIN s : i # j => s[i] # s[j]
     /\ \/ Len(s) = 3
        \/ Len(s) = Cardinality(req.rows)
        \/ Len(s) = MaterialMax}

Answer(cites) ==
  req' = [Idle EXCEPT !.route = "ask", !.outcome = "answer", !.struck = req.struck, !.cites = cites]
Abstain(reason) == req' = [Idle EXCEPT !.route = "ask", !.outcome = reason]

\* With a key the material goes to the model, whose words decide.
Synthesise ==
  /\ req.route = "ask" /\ Loaded
  /\ \/ \E rest \in Cited : Answer(HeadFirst(Believed, rest))
     \/ Abstain("synth_insufficient")
     \/ Abstain("failed")
     \/ req' = [req EXCEPT !.phase = "fold"]
  /\ Step

\* Without one, or on empty text, the fold answers if the evidence reaches tau.
FoldAnswers ==
  /\ req.route = "ask" /\ (Loaded \/ req.phase = "fold")
  /\ \/ Answer(<<Believed>>)
     \/ Abstain("below_tau")
  /\ Step

----------------------------------------------------------------------------
(* diffQuery after its reads *)

Pairs(E) == {<<e.newer, e.older>> : e \in E}
Both(rel) == rel \union {<<p[2], p[1]>> : p \in rel}
Ends(E) == Newers(E) \union Olders(E)

\* A slip: only the direct revisions are listed.
EnumeratedDirect(E, c) == {e.older : e \in {f \in E : f.newer = c}}

\* enumerateChain: what c supersedes, directly or not.
Enumerated(E, c) == ReachableFrom(c, Pairs(E), {c} \union Ends(E)) \ {c}

\* algo.SPpaths in both directions: whether it yields a path.
Connected(E, a, b) == a # b /\ b \in ReachableFrom(a, Both(Pairs(E)), {a} \union Ends(E))

DiffNow == DiffChain("FUNCTIONAL", GotClaims, row, GotEdges, req.from, req.to, 8)

\* The chain is folded; when there is one, two more reads are to confirm it.
FoldDiff(from, to) ==
  /\ req.route = "diff" /\ Loaded
  /\ LET diff == DiffChain("FUNCTIONAL", GotClaims, row, GotEdges, from, to, 8)
     IN  req' = IF diff.revisions = <<>>
                THEN [Idle EXCEPT !.route = "diff", !.outcome = "diff"]
                ELSE [req EXCEPT !.phase = "check", !.from = from, !.to = to]
  /\ Step

\* With no belief at "from" there is no path to ask for.
ReadPaths ==
  /\ req.phase = "check" /\ req.paths = None
  /\ req' = [req EXCEPT !.paths =
               {DiffNow.fromHead # NoClaim /\ Connected(sup, DiffNow.toHead, DiffNow.fromHead)}]
  /\ Step

ReadEnumeration ==
  /\ req.phase = "check" /\ req.listed = None
  /\ req' = [req EXCEPT !.listed = {Enumerated(sup, DiffNow.toHead)}]
  /\ Step

Covers(listed, diff) == \A i \in DOMAIN diff.revisions : diff.revisions[i].older \in listed
PathsAgree(paths, listed, diff) ==
  diff.fromHead = NoClaim \/ (paths <=> diff.fromHead \in listed)

Validate ==
  /\ req.phase = "check" /\ req.paths # None /\ req.listed # None
  /\ \E paths \in req.paths, listed \in req.listed :
       req' = [Idle EXCEPT !.route = "diff", !.outcome = "diff", !.from = req.from, !.to = req.to,
                           !.agree = Covers(listed, DiffNow) /\ PathsAgree(paths, listed, DiffNow)]
  /\ Step

----------------------------------------------------------------------------

Restart == Forget /\ cache' = "unread" /\ req' = Idle /\ UNCHANGED <<now, storeVars>>

Pause == Tick /\ UNCHANGED <<limiterVars, storeVars, cache, req>>

ApiInit ==
  /\ Init
  /\ row = << >> /\ sup = {} /\ lexicon = FALSE
  /\ cache = "unread" /\ req = Idle

Handle ==
  \/ ReadRows \/ ReadClaims \/ ReadEdges \/ Synthesise \/ FoldAnswers
  \/ \E from, to \in 0..(MaxTime \div Second) : FoldDiff(from, to)
  \/ ReadPaths \/ ReadEnumeration \/ Validate

ApiNext ==
  \/ \E k \in Caller \union Loopback : Ask(k) \/ Diff(k) \/ Other(k)
  \/ \E k \in Caller : TooMany(k)
  \/ LoadHistory \/ WriteLexicon
  \/ \E c \in CorrectionId, target \in DOMAIN row : Correct(c, target)
  \/ Handle \/ Pause \/ Restart

ApiSpec == ApiInit /\ [][ApiNext]_vars

----------------------------------------------------------------------------
(* Properties *)

\* An answer's own claim leads its citations, and it was not struck before
\* the question was asked: even when the two halves of the belief are read
\* around corrections that land between them, the fold falls back to the
\* newest claim, never to one that a correction of a later second displaced.
StandingClaimLeads ==
  req.cites # <<>> => req.cites[1] \notin req.struck

Unforked(E) == \A e, f \in E : e.older = f.older => e = f
InOrder(E, R) == \A e \in E : R[e.newer].event > R[e.older].event

\* The cross-check of a diff raises no false alarm on a history that was
\* revised in order, one correction upon the other, although the chain and
\* its two confirmations are read at four different moments.
ChainsAreConfirmed ==
  (Unforked(sup) /\ InOrder(sup, row) /\ req.from <= req.to) => req.agree

===============================================================================
