----------------------------- MODULE RevisionLog -----------------------------
(***************************************************************************)
(* The abstract memory: what Errata promises about one (subject,           *)
(* attribute) of one history.  Claims and revision edges are appended, one *)
(* at a time; nothing is ever updated or deleted; the belief is the fold   *)
(* of BeliefFold over everything appended.  A claim's event time is        *)
(* arbitrary; its ingest time, and an edge's, is a reading of the clock    *)
(* taken no more than MaxLag before it reached the log.                    *)
(*                                                                         *)
(* Corrections.tla shows that the correction path of the API implements    *)
(* this specification.                                                     *)
(***************************************************************************)
EXTENDS BeliefFold

CONSTANTS
  ClaimId,     \* the claim ids, a set of natural numbers
  BaseRow,     \* the claims the log starts with, each with its row
  BaseEdges,   \* the edges the log starts with
  FactsOf(_),  \* the [event, conf, polarity] records a claim may carry
  EdgeConfs(_, _), \* the confidences an edge between two claims may carry
  Relations,   \* the relations that occur
  MaxLag,      \* bound on the age of a clock reading when it is appended
  MaxTime,     \* bound on the clock
  MaxEdges     \* bound on the number of edges

ASSUME ClaimIdAssumption == ClaimId \subseteq Nat
ASSUME BaseAssumption ==
  /\ DOMAIN BaseRow \subseteq ClaimId /\ IsFiniteSet(DOMAIN BaseRow)
  /\ \A c \in DOMAIN BaseRow :
       {BaseRow[c].event, BaseRow[c].ingest, BaseRow[c].conf} \subseteq Int
  /\ IsFiniteSet(BaseEdges) /\ Cardinality(BaseEdges) <= MaxEdges
  /\ \A e \in BaseEdges :
       /\ e.rel \in Relation /\ {e.ingest, e.conf} \subseteq Int
       /\ {e.newer, e.older} \subseteq DOMAIN BaseRow /\ e.newer # e.older
  /\ \A e, f \in BaseEdges :
       e.rel = f.rel /\ e.newer = f.newer /\ e.older = f.older => e = f
ASSUME FactsAssumption ==
  /\ Relations \subseteq Relation
  /\ \A c \in ClaimId : \A facts \in FactsOf(c) : {facts.event, facts.conf} \subseteq Int
  /\ \A newer, older \in ClaimId : EdgeConfs(newer, older) \subseteq Int
ASSUME BoundsAssumption == {MaxLag, MaxTime, MaxEdges} \subseteq Nat

VARIABLES
  row,   \* the appended claims, each with its row
  edges, \* the appended revision edges
  now    \* ingest clock

vars == <<row, edges, now>>

Row == [event : Int, ingest : Nat, conf : Int, polarity : {"AFFIRM", "NEGATE"}]
Edge == [rel : Relation, newer : ClaimId, older : ClaimId, ingest : Nat, conf : Int]

Claims == DOMAIN row
EdgeKey(e) == <<e.rel, e.newer, e.older>>
Readings == {t \in 0..now : now - t <= MaxLag}

Init ==
  /\ row = BaseRow
  /\ edges = BaseEdges
  /\ now = 0

AppendClaim(c, facts, ingest) ==
  /\ c \notin Claims
  /\ row' = [d \in Claims \union {c} |->
               IF d = c THEN [event |-> facts.event, ingest |-> ingest,
                              conf |-> facts.conf, polarity |-> facts.polarity]
               ELSE row[d]]
  /\ UNCHANGED <<edges, now>>

AppendEdge(rel, newer, older, ingest, conf) ==
  LET e == [rel |-> rel, newer |-> newer, older |-> older,
            ingest |-> ingest, conf |-> conf]
  IN  /\ newer # older
      /\ Cardinality(edges) < MaxEdges
      /\ \A f \in edges : EdgeKey(f) # EdgeKey(e)
      /\ edges' = edges \union {e}
      /\ UNCHANGED <<row, now>>

Advance ==
  /\ now < MaxTime
  /\ now' = now + 1
  /\ UNCHANGED <<row, edges>>

Learn ==
  \/ \E c \in ClaimId, ingest \in Readings :
       \E facts \in FactsOf(c) : AppendClaim(c, facts, ingest)
  \/ \E rel \in Relations, newer, older \in Claims, ingest \in Readings :
       \E conf \in EdgeConfs(newer, older) : AppendEdge(rel, newer, older, ingest, conf)

Next == Learn \/ Advance

Spec == Init /\ [][Next]_vars

----------------------------------------------------------------------------
(* What the fold makes of the log *)

Sup == EdgesOf(edges, "SUPERSEDES")
Supporters == Newers(EdgesOf(edges, "SUPPORTS"))
Belief(arity) == ResolveBelief(arity, Claims, row, edges)
Single == Belief("FUNCTIONAL")

\* cycleEdgeToDrop finds an edge exactly when the SUPERSEDES edges have a
\* cycle, and the edge it picks is on one: dropping it never severs an
\* acyclic part of the history.
SearchIsExact ==
  LET e == CycleEdgeToDrop(Sup)
  IN  /\ (e = NoEdge) <=> ~HasCycle(Sup)
      /\ e # NoEdge => e.newer \in ChainFrom(e.older, Sup)

\* The loop of resolveFunctional drops edges "until acyclic".
CyclesBroken == ~HasCycle(BreakCycles(Sup))

\* When revisions do not disagree with each other and no claim merely supports
\* another, the belief is a claim nobody displaced, disputed peers included,
\* and the fallback to the newest claim never decides.
HeadsUndisplaced ==
  (Claims # {} /\ Supporters = {} /\ ~HasCycle(Sup)) =>
    /\ Single.heads \intersect Olders(Sup) = {}
    /\ Single.heads # {}

\* Every claim stays retrievable: it is believed, or listed as superseded, or
\* stands behind another claim as its supporter.  For a set-valued attribute
\* this is promised of the affirmative claims only.
NothingForgotten ==
  /\ Claims = Single.heads \union Single.superseded \union (Claims \intersect Supporters)
  /\ Single.heads \intersect Single.superseded = {}
  /\ LET members == Belief("MULTI")
     IN  /\ Claims \ members.negations
              \subseteq members.heads \union members.superseded \union Supporters
         /\ members.heads \intersect members.superseded = {}

\* A walk down the SUPERSEDES edges that neither passes the "from" belief nor
\* repeats itself, and ends for a reason.
WalksDown(diff) ==
  LET revs == diff.revisions
  IN  revs # <<>> =>
        /\ revs[1].newer = diff.toHead
        /\ \A i \in DOMAIN revs : revs[i] \in Sup /\ revs[i].newer # diff.fromHead
        /\ \A i \in 1..(Len(revs) - 1) : revs[i].older = revs[i + 1].newer
        /\ \A i, j \in DOMAIN revs : revs[i] = revs[j] => i = j
        /\ \/ Last(revs).older = diff.fromHead
           \/ Last(revs).older \notin Newers(Sup)
           \/ \E i \in DOMAIN revs : revs[i].newer = Last(revs).older

\* The revision chain of a diff is a walk down the SUPERSEDES edges from the
\* "to" belief that never passes the "from" belief nor repeats itself, and it
\* is complete: it stops at "from", at a claim that supersedes nothing, or on
\* meeting a cycle.
DiffIsAWalk ==
  \A from, to \in 0..MaxTime :
    WalksDown(DiffChain("FUNCTIONAL", Claims, row, edges, from, to, 8))
===============================================================================
