------------------------------ MODULE BeliefFold ------------------------------
(***************************************************************************)
(* The pure revision fold of packages/core/src/revision.ts: which claim is *)
(* believed, given the claims one read returned and the revision edges     *)
(* another read returned.                                                  *)
(*                                                                         *)
(* Throughout, C is a finite set of claim ids (integers), R maps each of   *)
(* them to its row, and E is a finite set of revision edges:               *)
(*   row  == [event, ingest, conf : Int, polarity : STRING]                *)
(*   edge == [rel : Relation, newer, older, ingest, conf : Int]            *)
(* The two reads are independent, so E may mention claims outside C.        *)
(*                                                                         *)
(* Confidences are exact, in hundredths.  The code's are doubles, whose    *)
(* difference may round to either side of 0.05 when it should be 0.05      *)
(* (0.9 - 0.85 > 0.05, 0.55 - 0.5 > 0.05): on a gap of exactly DisputeEps  *)
(* these definitions say nothing, and no instance has such a gap.          *)
(***************************************************************************)
EXTENDS Integers, Sequences, FiniteSets, SequencesExt

Relation == {"SUPERSEDES", "CONTRADICTS", "SUPPORTS"}

DisputeEps == 5

\* No claim and no edge: the null of a head and of cycleEdgeToDrop.
NoClaim == -1
NoEdge == [rel |-> "none", newer |-> -1, older |-> -1, ingest |-> -1, conf |-> -1]

----------------------------------------------------------------------------
(* Orders *)

\* A faulty variant: oldest first.
OlderThan(R, a, b) == R[a].event < R[b].event \/ (R[a].event = R[b].event /\ a < b)

\* cmpNewestFirst(a, b) < 0
NewerThan(R, a, b) ==
  \/ R[a].event > R[b].event
  \/ /\ R[a].event = R[b].event
     /\ \/ R[a].ingest > R[b].ingest
        \/ /\ R[a].ingest = R[b].ingest
           /\ \/ R[a].conf > R[b].conf
              \/ R[a].conf = R[b].conf /\ a < b

\* The first of C in that order.
Newest(C, R) == CHOOSE c \in C : \A d \in C \ {c} : NewerThan(R, c, d)

\* The comparator of sortEdges: total on the edges of one relation, because
\* the store holds one edge per (relation, newer, older).
EdgeBefore(e, f) ==
  \/ e.conf > f.conf
  \/ /\ e.conf = f.conf
     /\ \/ e.ingest > f.ingest
        \/ /\ e.ingest = f.ingest
           /\ \/ e.older < f.older
              \/ e.older = f.older /\ e.newer < f.newer

\* The first of a nonempty set of edges in sorted order.
FirstEdge(E) == CHOOSE e \in E : \A f \in E \ {e} : EdgeBefore(e, f)

EdgesOf(E, rel) == {e \in E : e.rel = rel}
Olders(E) == {e.older : e \in E}
Newers(E) == {e.newer : e \in E}

----------------------------------------------------------------------------
(* Cycles among the SUPERSEDES edges *)

\* A finite edge set has a cycle iff some nonempty set of claims each have an
\* edge back into the set.
HasCycle(sup) ==
  \E S \in SUBSET Newers(sup) :
     /\ S # {}
     /\ \A n \in S : \E e \in sup : e.newer = n /\ e.older \in S

\* The cycle closed by e at the end of the depth-first path: e, then the path
\* backwards down to the edge that leaves e.older.
CycleClosedBy(path, e) ==
  LET from == CHOOSE i \in DOMAIN path : path[i].newer = e.older
  IN  <<e>> \o Reverse(SubSeq(path, from, Len(path)))

\* reduce with a strict comparison: the first of the lowest-confidence edges.
LowestConfidence(cycle) ==
  cycle[CHOOSE i \in DOMAIN cycle :
          /\ \A j \in DOMAIN cycle : cycle[i].conf <= cycle[j].conf
          /\ \A j \in 1..(i - 1) : cycle[j].conf > cycle[i].conf]

\* A faulty variant: only the claim just left is known to be on the path.
OnPathNear(node, path) ==
  {node} \union (IF path = <<>> THEN {} ELSE {Last(path).newer})

\* The GRAY claims: the one being visited and those on the path to it.
OnPath(node, path) == {node} \union {path[i].newer : i \in DOMAIN path}

\* The state of the depth-first search: the claim being visited, the edges on
\* the path to it (whose claims are GRAY), the BLACK claims and the edges
\* already followed.
SearchState(sup) ==
  [node : Newers(sup) \union Olders(sup), path : Seq(sup),
   black : SUBSET (Newers(sup) \union Olders(sup)), followed : SUBSET sup]

\* The edges still to follow out of the claim, and the roots still to visit.
ToFollow(sup, s) == {e \in sup \ s.followed : e.newer = s.node}
Unvisited(sup, s) == {e \in sup : e.newer \notin s.black \union {s.node}}

\* The next edge leads back to a GRAY claim, or nothing is left to visit.
ClosesCycle(sup, s) ==
  /\ ToFollow(sup, s) # {}
  /\ FirstEdge(ToFollow(sup, s)).older \in OnPath(s.node, s.path)
SearchOver(sup, s) == ToFollow(sup, s) = {} /\ s.path = <<>> /\ Unvisited(sup, s) = {}

\* Otherwise the search skips a BLACK claim, goes down to a WHITE one, goes
\* back, or starts at another root.
SearchStep(sup, s) ==
  LET e == FirstEdge(ToFollow(sup, s))
  IN  CASE ToFollow(sup, s) # {} /\ e.older \in s.black ->
             [s EXCEPT !.followed = @ \union {e}]
        [] ToFollow(sup, s) # {} /\ e.older \notin s.black ->
             [s EXCEPT !.node = e.older, !.path = Append(@, e), !.followed = @ \union {e}]
        [] ToFollow(sup, s) = {} /\ s.path # <<>> ->
             [s EXCEPT !.node = Last(s.path).newer, !.path = Front(@), !.black = @ \union {s.node}]
        [] OTHER ->
             [s EXCEPT !.node = FirstEdge(Unvisited(sup, s)).newer, !.black = @ \union {s.node}]

\* cycleEdgeToDrop: the search is rooted at the newer claims in sorted order.
\* Self-loops do not occur: no writer makes a claim revise itself.
CycleEdgeToDrop(sup) ==
  LET search[s \in SearchState(sup)] ==
        IF ClosesCycle(sup, s)
        THEN LowestConfidence(CycleClosedBy(s.path, FirstEdge(ToFollow(sup, s))))
        ELSE IF SearchOver(sup, s) THEN NoEdge
        ELSE search[SearchStep(sup, s)]
  IN  IF sup = {} THEN NoEdge
      ELSE search[[node |-> FirstEdge(sup).newer, path |-> <<>>, black |-> {}, followed |-> {}]]

\* The loop of resolveFunctional.  Each round drops one edge, so its counter
\* is the number of those dropped; its bound is compared with the length of the
\* shrinking array.
BreakCycles(sup) ==
  LET shed[left \in SUBSET sup] ==
        IF Cardinality(sup \ left) < Cardinality(left) + 1 /\ CycleEdgeToDrop(left) # NoEdge
        THEN shed[left \ {CycleEdgeToDrop(left)}]
        ELSE left
  IN  shed[sup]

----------------------------------------------------------------------------
(* Reachability *)

\* The claims of U that s reaches along the pairs of rel, s included.
ReachableFrom(s, rel, U) ==
  {x \in U : \A S \in SUBSET U :
      (s \in S /\ \A p \in rel : p[1] \in S /\ p[2] \in U => p[2] \in S) => x \in S}

\* chainFrom(head): the claims the head transitively supersedes, and itself.
ChainFrom(s, sup) ==
  ReachableFrom(s, {<<e.newer, e.older>> : e \in sup}, {s} \union Olders(sup))

----------------------------------------------------------------------------
(* resolveBelief *)

EmptyBelief ==
  [head |-> NoClaim, first |-> NoClaim, heads |-> {}, superseded |-> {}, negations |-> {},
   disputed |-> FALSE, contested |-> FALSE, chainLen |-> 0,
   cycleBroken |-> FALSE, chainRepaired |-> FALSE]

Negations(C, R) == {c \in C : R[c].polarity = "NEGATE"}

\* Claims no revision displaced and that do not merely support another one.
Undisplaced(C, E, sup) == C \ (Olders(sup) \union Newers(EdgesOf(E, "SUPPORTS")))

Gap(x, y) == IF x > y THEN x - y ELSE y - x

\* A faulty variant: the walk takes displaced peers into the dispute.
DisputeClusterNot(C, R, E, sup, h) ==
  LET peers == {c \in C : Gap(R[c].conf, R[h].conf) <= DisputeEps}
      links == {<<e.newer, e.older>> : e \in EdgesOf(E, "CONTRADICTS")}
  IN  ReachableFrom(h, links \union {<<p[2], p[1]>> : p \in links}, peers \union {h})

\* The breadth-first walk over CONTRADICTS from the head: undisplaced claims
\* whose confidence is within DisputeEps of the head's.
DisputeCluster(C, R, E, sup, h) ==
  LET peers == {c \in Undisplaced(C, E, sup) : Gap(R[c].conf, R[h].conf) <= DisputeEps}
      links == {<<e.newer, e.older>> : e \in EdgesOf(E, "CONTRADICTS")}
  IN  ReachableFrom(h, links \union {<<p[2], p[1]>> : p \in links}, peers \union {h})

\* A faulty variant: only claims an edge displaced, so that orphans vanish.
SupersededNot(C, E, cluster) ==
  (C \intersect Olders(EdgesOf(E, "SUPERSEDES"))) \ cluster

\* Everything that is not believed and does not merely support.
Superseded(C, E, cluster) == C \ (cluster \union Newers(EdgesOf(E, "SUPPORTS")))

\* Never an empty belief: if everyone was eliminated, all compete.
Candidates(C, E, sup) ==
  IF Undisplaced(C, E, sup) = {} THEN C ELSE Undisplaced(C, E, sup)

\* What resolveFunctional returns once its loop has shed edges down to sup and
\* h leads; heads[0] of the result is its newest member: "first" stands for it.
BeliefLedBy(C, R, E, sup, h) ==
  LET cluster == DisputeCluster(C, R, E, sup, h)
  IN  [head |-> IF cluster = {h} THEN h ELSE NoClaim,
       first |-> h,
       heads |-> cluster,
       superseded |-> Superseded(C, E, cluster),
       negations |-> Negations(C, R),
       disputed |-> cluster # {h},
       contested |-> \E e \in EdgesOf(E, "CONTRADICTS") : h \in {e.newer, e.older},
       chainLen |-> Cardinality(ChainFrom(h, sup)),
       cycleBroken |-> sup # EdgesOf(E, "SUPERSEDES"),
       chainRepaired |-> Candidates(C, E, sup) \ cluster # {}]

ResolveFunctional(C, R, E) ==
  LET sup == BreakCycles(EdgesOf(E, "SUPERSEDES"))
  IN  BeliefLedBy(C, R, E, sup, Newest(Candidates(C, E, sup), R))

\* Set-valued attributes: members coexist, a NEGATE claim is no member.
ResolveMulti(C, R, E) ==
  LET displaced == Olders(EdgesOf(E, "SUPERSEDES"))
      heads == Undisplaced(C, E, EdgesOf(E, "SUPERSEDES")) \ Negations(C, R)
  IN  [EmptyBelief EXCEPT
         !.first = IF heads = {} THEN NoClaim ELSE Newest(heads, R),
         !.heads = heads,
         !.superseded = C \intersect displaced,
         !.negations = Negations(C, R),
         !.chainLen = Cardinality(heads)]

\* All claims of one attribute share its arity.
ResolveBelief(arity, C, R, E) ==
  IF C = {} THEN EmptyBelief
  ELSE IF arity = "FUNCTIONAL" THEN ResolveFunctional(C, R, E)
  ELSE ResolveMulti(C, R, E)

----------------------------------------------------------------------------
(* resolveAsOf *)

ClaimsAt(C, R, at, axis) ==
  {c \in C : IF axis = "event" THEN R[c].event > -1 /\ R[c].event <= at
             ELSE R[c].ingest <= at}

\* A faulty variant: supersessions learned later apply to the past.
EdgesAtNot(E, at) == E

EdgesAt(E, at) == {e \in E : e.ingest <= at}

ResolveAsOf(arity, C, R, E, at, axis) ==
  ResolveBelief(arity, ClaimsAt(C, R, at, axis), R, EdgesAt(E, at))

----------------------------------------------------------------------------
(* diffChain *)

\* The edge the walk follows out of a claim: the first after sorting.
RevisionOf(sup, c) == FirstEdge({e \in sup : e.newer = c})

\* A faulty variant: no memory of the claims already left.
FreshNot(walk, c) == TRUE

\* The visited set: a claim is left at most once.
Fresh(walk, c) == \A i \in DOMAIN walk : walk[i].newer # c

\* The walk from the belief at "to" towards the belief at "from", at most
\* maxHops edges.
DiffWalk(C, sup, start, stopAt, maxHops) ==
  LET Cursor(walk) == IF walk = <<>> THEN start ELSE Last(walk).older
      CanHop(walk) == /\ Cursor(walk) # stopAt
                      /\ Fresh(walk, Cursor(walk))
                      /\ Cursor(walk) \in Newers(sup)
                      /\ Cursor(walk) \in C
                      /\ RevisionOf(sup, Cursor(walk)).older \in C
      hop[walk \in Seq(sup)] ==
        IF Len(walk) < maxHops /\ CanHop(walk)
        THEN hop[Append(walk, RevisionOf(sup, Cursor(walk)))]
        ELSE walk
  IN  hop[<<>>]

\* What diffChain returns, once both beliefs are known.
DiffBetween(C, sup, fromHead, toHead, maxHops) ==
  LET revisions == IF toHead = NoClaim THEN <<>> ELSE DiffWalk(C, sup, toHead, fromHead, maxHops)
  IN  [fromHead |-> fromHead, toHead |-> toHead, revisions |-> revisions,
       truncated |-> Len(revisions) = maxHops /\ Last(revisions).older # fromHead]

DiffChain(arity, C, R, E, from, to, maxHops) ==
  DiffBetween(C, EdgesOf(E, "SUPERSEDES"), ResolveAsOf(arity, C, R, E, from, "event").head,
              ResolveAsOf(arity, C, R, E, to, "event").head, maxHops)
===============================================================================
