------------------------ MODULE RevisionHistoryProofs ------------------------
(***************************************************************************)
(* What the fold makes of every log that RevisionLog can grow, whatever    *)
(* its claims, confidences and revisions, and what a later reader can      *)
(* still find out of an earlier one.                                       *)
(*                                                                         *)
(* The argument.  A log stays Wellformed: finite, its numbers integers,    *)
(* its edges between claims it holds, one per relation and pair.  That is  *)
(* what the theorems of BeliefFoldProofs ask of their inputs.  With no lag *)
(* between a reading of the clock and the append it dates, what stood at   *)
(* the end of tick t is what is dated t or earlier (Remembered).           *)
(***************************************************************************)
EXTENDS RevisionHistory, BeliefFoldProofs

Wellformed ==
  /\ Claims \subseteq ClaimId /\ IsFiniteSet(Claims)
  /\ \A c \in Claims : {row[c].event, row[c].ingest, row[c].conf} \subseteq Int
  /\ IsFiniteSet(edges) /\ Cardinality(edges) <= MaxEdges
  /\ \A e \in edges : /\ e.rel \in Relation /\ {e.ingest, e.conf} \subseteq Int
                      /\ {e.newer, e.older} \subseteq Claims /\ e.newer # e.older
  /\ \A e, f \in edges : EdgeKey(e) = EdgeKey(f) => e = f
  /\ now \in Nat

LEMMA InitWellformed == Init => Wellformed
  BY BaseAssumption DEF Init, Wellformed, EdgeKey, Claims

LEMMA ClaimKeeps ==
  ASSUME Wellformed, NEW c \in ClaimId, NEW ingest \in Readings, NEW facts \in FactsOf(c),
         AppendClaim(c, facts, ingest)
  PROVE  Wellformed'
  <1> DEFINE r == [event |-> facts.event, ingest |-> ingest,
                   conf |-> facts.conf, polarity |-> facts.polarity]
  <1>1. {r.event, r.ingest, r.conf} \subseteq Int
    BY FactsAssumption DEF Readings, Wellformed
  <1>2. row' = [d \in Claims \union {c} |-> IF d = c THEN r ELSE row[d]]
    BY DEF AppendClaim
  <1> HIDE DEF r
  <1>3. Claims' = Claims \union {c} /\ row'[c] = r /\ \A d \in Claims \ {c} : row'[d] = row[d]
    BY <1>2 DEF Claims
  <1>4. IsFiniteSet(Claims')
    BY <1>3, FS_AddElement DEF Wellformed
  <1>5. \A d \in Claims' : {row'[d].event, row'[d].ingest, row'[d].conf} \subseteq Int
    BY <1>1, <1>3 DEF Wellformed
  <1>6. Claims \subseteq Claims' /\ edges' = edges /\ now' = now
    BY <1>3 DEF AppendClaim
  <1>7. \A e \in edges' : /\ e.rel \in Relation /\ {e.ingest, e.conf} \subseteq Int
                          /\ {e.newer, e.older} \subseteq Claims' /\ e.newer # e.older
    BY <1>6 DEF Wellformed
  <1> QED BY <1>3, <1>4, <1>5, <1>6, <1>7 DEF Wellformed

LEMMA EdgeKeeps ==
  ASSUME Wellformed, NEW rel \in Relations, NEW newer \in Claims, NEW older \in Claims,
         NEW ingest \in Readings, NEW conf \in EdgeConfs(newer, older),
         AppendEdge(rel, newer, older, ingest, conf)
  PROVE  Wellformed'
  <1> DEFINE e == [rel |-> rel, newer |-> newer, older |-> older,
                   ingest |-> ingest, conf |-> conf]
  <1>1. /\ e.rel \in Relation /\ {e.ingest, e.conf} \subseteq Int
        /\ {e.newer, e.older} \subseteq Claims /\ e.newer # e.older
    <2>1. conf \in Int
      BY FactsAssumption DEF Wellformed
    <2> QED BY <2>1, FactsAssumption DEF AppendEdge, Readings, Wellformed
  <1>2. /\ Cardinality(edges) < MaxEdges /\ edges' = edges \union {e}
        /\ \A f \in edges : EdgeKey(f) # EdgeKey(e)
        /\ row' = row /\ now' = now
    BY DEF AppendEdge
  <1> HIDE DEF e
  <1>3. Claims' = Claims
    BY <1>2 DEF Claims
  <1>4. IsFiniteSet(edges') /\ Cardinality(edges') <= MaxEdges
    <2>1. e \notin edges
      BY <1>2
    <2>2. IsFiniteSet(edges') /\ Cardinality(edges') = Cardinality(edges) + 1
      BY <1>2, <2>1, FS_AddElement DEF Wellformed
    <2>3. Cardinality(edges) \in Nat /\ MaxEdges \in Nat
      BY FS_CardinalityType, BoundsAssumption DEF Wellformed
    <2> QED BY <1>2, <2>2, <2>3
  <1>5. \A f, g \in edges' : EdgeKey(f) = EdgeKey(g) => f = g
    BY <1>2 DEF Wellformed
  <1> QED BY <1>1, <1>2, <1>3, <1>4, <1>5 DEF Wellformed

LEMMA WellformedInv == Wellformed /\ [Next]_vars => Wellformed'
  <1> SUFFICES ASSUME Wellformed, [Next]_vars PROVE Wellformed'
    OBVIOUS
  <1>1. ASSUME NEW c \in ClaimId, NEW ingest \in Readings, NEW facts \in FactsOf(c),
               AppendClaim(c, facts, ingest)
        PROVE  Wellformed'
    BY <1>1, ClaimKeeps
  <1>2. ASSUME NEW rel \in Relations, NEW newer \in Claims, NEW older \in Claims,
               NEW ingest \in Readings, NEW conf \in EdgeConfs(newer, older),
               AppendEdge(rel, newer, older, ingest, conf)
        PROVE  Wellformed'
    BY <1>2, EdgeKeeps
  <1>3. CASE Advance \/ UNCHANGED vars
    BY <1>3 DEF Advance, vars, Wellformed, Claims, EdgeKey
  <1> QED BY <1>1, <1>2, <1>3 DEF Next, Learn

LEMMA WellformedHolds == Spec => []Wellformed
  BY InitWellformed, WellformedInv, PTL DEF Spec

LEMMA LogIsReadable ==
  ASSUME Wellformed
  PROVE  Readable(Claims, row, edges) /\ EdgeSet(Sup)
  <1>1. \A c : c \in ClaimId => c \in Int
    BY ClaimIdAssumption
  <1>2. Claims \subseteq Int
    BY <1>1 DEF Wellformed
  <1>3. Comparable(Claims, row)
    BY <1>2 DEF Comparable, Wellformed
  <1>4. IsFiniteSet(Sup)
    BY FS_Subset DEF Wellformed, Sup, EdgesOf
  <1>5. \A e \in Sup : e \in edges /\ e.rel = "SUPERSEDES"
    BY DEF Sup, EdgesOf
  <1>6. EdgeSet(Sup)
    BY <1>2, <1>4, <1>5 DEF EdgeSet, Wellformed, EdgeKey
  <1> QED BY <1>3, <1>6 DEF Readable, Wellformed, Sup

\* cycleEdgeToDrop (revision.ts) finds an edge exactly when the revisions run
\* in a circle, and the edge it picks is on one.
THEOREM LogSearchIsExact == Spec => []SearchIsExact
  <1>1. Wellformed => SearchIsExact
    <2> SUFFICES ASSUME Wellformed PROVE SearchIsExact
      OBVIOUS
    <2>1. EdgeSet(Sup)
      BY LogIsReadable
    <2> QED BY <2>1, CycleEdgeIsExact DEF SearchIsExact, OnCycle
  <1> QED BY <1>1, WellformedHolds, PTL

\* Every claim stays retrievable: believed, superseded or behind another one.
THEOREM LogForgetsNothing == Spec => []NothingForgotten
  <1>1. Wellformed => NothingForgotten
    <2> SUFFICES ASSUME Wellformed PROVE NothingForgotten
      OBVIOUS
    <2>1. Readable(Claims, row, edges)
      BY LogIsReadable
    <2> QED BY <2>1, BeliefForgetsNothing DEF NothingForgotten, Single, Belief, Supporters
  <1> QED BY <1>1, WellformedHolds, PTL

\* Without a circle and without supporters the belief is a claim nobody
\* displaced, disputed peers included.
THEOREM LogHeadsUndisplaced == Spec => []HeadsUndisplaced
  <1>1. Wellformed => HeadsUndisplaced
    <2> SUFFICES ASSUME Wellformed, Claims # {}, Supporters = {}, ~HasCycle(Sup)
                 PROVE  /\ Single.heads \intersect Olders(Sup) = {}
                        /\ Single.heads # {}
      BY DEF HeadsUndisplaced
    <2>1. Readable(Claims, row, edges)
      BY LogIsReadable
    <2>2. EdgesOf(edges, "SUPPORTS") = {}
      BY DEF Supporters, Newers
    <2>3. \A e \in EdgesOf(edges, "SUPERSEDES") : e.newer \in Claims
      BY DEF EdgesOf, Wellformed
    <2>4. Single = ResolveFunctional(Claims, row, edges)
      BY DEF Single, Belief, ResolveBelief
    <2> QED BY <2>1, <2>2, <2>3, <2>4, UndisplacedLead DEF Sup
  <1> QED BY <1>1, WellformedHolds, PTL

\* A walk that uses up its hops has followed every revision there is.
LEMMA LongWalkSeesAll ==
  ASSUME NEW C, NEW sup, IsFiniteSet(sup), NEW walk, NEW start, NEW stopAt,
         IsWalk(walk, C, sup, start, stopAt), Cardinality(sup) <= Len(walk)
  PROVE  \A e \in sup : \E i \in DOMAIN walk : walk[i] = e
  <1> DEFINE n == Len(walk)
             seen == {walk[i] : i \in 1..n}
             f == [i \in 1..n |-> walk[i]]
  <1>1. n \in Nat /\ DOMAIN walk = 1..n /\ \A i \in 1..n : walk[i] \in sup
    BY ElementOfSeq, LenProperties DEF IsWalk
  <1>2. seen \subseteq sup
    BY <1>1
  <1>3. \A i, j \in 1..n : walk[i] = walk[j] => i = j
    BY <1>1 DEF IsWalk
  <1>4. f \in Bijection(1..n, seen)
    BY <1>3 DEF Bijection, Injection, IsInjective, Surjection
  <1> HIDE DEF f
  <1>5. IsFiniteSet(1..n) /\ Cardinality(1..n) = n
    BY <1>1, FS_Interval
  <1> HIDE DEF seen
  <1>6. IsFiniteSet(seen) /\ Cardinality(seen) = n
    BY <1>4, <1>5, FS_Bijection DEF ExistsBijection
  <1>7. seen = sup
    BY <1>1, <1>2, <1>6, FS_Subset, FS_CardinalityType
  <1> QED BY <1>1, <1>7 DEF seen

\* The chain of a diff (diffBeliefs) is a complete walk down the revisions, if
\* there are no more of them than the eight hops it is allowed.
THEOREM LogDiffIsAWalk ==
  ASSUME MaxEdges <= 8
  PROVE  Spec => []DiffIsAWalk
  <1>1. Wellformed => DiffIsAWalk
    <2> SUFFICES ASSUME Wellformed, NEW from \in 0..MaxTime, NEW to \in 0..MaxTime
                 PROVE  WalksDown(DiffChain("FUNCTIONAL", Claims, row, edges, from, to, 8))
      BY DEF DiffIsAWalk
    <2> DEFINE diff == DiffChain("FUNCTIONAL", Claims, row, edges, from, to, 8)
               revs == diff.revisions
               start == diff.toHead
               stopAt == diff.fromHead
    <2>1. revs = IF start = NoClaim THEN <<>> ELSE DiffWalk(Claims, Sup, start, stopAt, 8)
      BY DEF DiffChain, DiffBetween, Sup
    <2> HIDE DEF diff
    <2> SUFFICES ASSUME revs # <<>>
                 PROVE  /\ revs[1].newer = start
                        /\ \A i \in DOMAIN revs : revs[i] \in Sup /\ revs[i].newer # stopAt
                        /\ \A i \in 1..(Len(revs) - 1) : revs[i].older = revs[i + 1].newer
                        /\ \A i, j \in DOMAIN revs : revs[i] = revs[j] => i = j
                        /\ \/ Last(revs).older = stopAt
                           \/ Last(revs).older \notin Newers(Sup)
                           \/ \E i \in DOMAIN revs : revs[i].newer = Last(revs).older
      BY DEF diff, WalksDown
    <2>2. EdgeSet(Sup)
      BY LogIsReadable
    <2>3. revs = DiffWalk(Claims, Sup, start, stopAt, 8)
      BY <2>1
    <2>4. IsWalk(revs, Claims, Sup, start, stopAt) /\ IsOver(revs, Claims, Sup, start, stopAt, 8)
      BY <2>2, <2>3, DiffWalks
    <2> HIDE DEF revs, start, stopAt
    <2>5. revs \in Seq(Sup) /\ Len(revs) \in Nat /\ Len(revs) >= 1 /\ DOMAIN revs = 1..Len(revs)
      BY <2>4, EmptySeq, LenProperties DEF IsWalk
    <2>6. \A i \in DOMAIN revs : revs[i] \in Sup /\ revs[i].newer # stopAt
      BY <2>4, <2>5, ElementOfSeq DEF IsWalk
    <2>7. revs[1].newer = start /\ \A i \in 1..(Len(revs) - 1) : revs[i].older = revs[i + 1].newer
      <3>1. revs[1].newer = start
        BY <2>4, <2>5 DEF IsWalk
      <3>2. ASSUME NEW i \in 1..(Len(revs) - 1) PROVE revs[i].older = revs[i + 1].newer
        <4>1. i + 1 \in DOMAIN revs /\ i + 1 # 1 /\ (i + 1) - 1 = i
          BY <2>5
        <4>2. revs[i + 1].newer = revs[(i + 1) - 1].older
          BY <2>4, <4>1 DEF IsWalk
        <4> QED BY <4>1, <4>2
      <3> QED BY <3>1, <3>2
    <2>8. \A i, j \in DOMAIN revs : revs[i] = revs[j] => i = j
      BY <2>4 DEF IsWalk
    <2>9. ASSUME Last(revs).older # stopAt, Last(revs).older \in Newers(Sup)
          PROVE  \E i \in DOMAIN revs : revs[i].newer = Last(revs).older
      <3> DEFINE c == Last(revs).older
      <3>1. Cursor(revs, start) = c
        BY <2>5, EmptySeq DEF Cursor
      <3>2. RevisionOf(Sup, c) \in Sup /\ RevisionOf(Sup, c).newer = c
        BY <2>2, <2>9, RevisionOfIsIn
      <3>3. c \in Claims /\ RevisionOf(Sup, c).older \in Claims
        BY <3>2 DEF Wellformed, Sup, EdgesOf
      <3>4. CASE Len(revs) >= 8
        <4>1. Cardinality(Sup) <= Cardinality(edges) /\ IsFiniteSet(Sup)
          BY FS_Subset DEF Wellformed, Sup, EdgesOf
        <4>2. Cardinality(Sup) \in Nat /\ Cardinality(edges) \in Nat
          BY <4>1, FS_CardinalityType DEF Wellformed
        <4>3. Cardinality(Sup) <= Len(revs)
          BY <2>5, <3>4, <4>1, <4>2, BoundsAssumption DEF Wellformed
        <4>4. \E i \in DOMAIN revs : revs[i] = RevisionOf(Sup, c)
          BY <2>4, <3>2, <4>1, <4>3, LongWalkSeesAll
        <4> QED BY <3>2, <4>4
      <3>5. CASE ~Fresh(revs, c)
        BY <3>5 DEF Fresh
      <3> QED BY <2>4, <2>9, <3>1, <3>3, <3>4, <3>5 DEF IsOver
    <2> QED BY <2>6, <2>7, <2>8, <2>9
  <1> QED BY <1>1, WellformedHolds, PTL

----------------------------------------------------------------------------
(* The past *)

\* What stood at the end of tick t is what is dated t or earlier.
Remembered ==
  /\ past = [t \in 1..now |-> past[t]]
  /\ \A c \in Claims : row[c].ingest <= now
  /\ \A e \in edges : e.ingest <= now
  /\ \A t \in 1..now :
       /\ DOMAIN past[t].row = {c \in Claims : row[c].ingest <= t - 1}
       /\ \A c \in DOMAIN past[t].row : past[t].row[c] = row[c]
       /\ past[t].edges = {e \in edges : e.ingest <= t - 1}

LEMMA TickIsRemembered == Wellformed /\ Remembered /\ EndOfTick => Remembered'
  <1> SUFFICES ASSUME Wellformed, Remembered, EndOfTick PROVE Remembered'
    OBVIOUS
  <1> DEFINE here == [row |-> row, edges |-> edges]
             S == {past[t] : t \in 1..now} \union {here}
  <1>1. /\ now \in Nat /\ now' = now + 1 /\ row' = row /\ edges' = edges /\ Claims' = Claims
        /\ past' = Append(past, here)
    BY DEF EndOfTick, Advance, Wellformed, Claims
  <1>2. past \in Seq(S) /\ Len(past) = now
    <2>1. \A t \in 1..now : past[t] \in S
      OBVIOUS
    <2> HIDE DEF S
    <2> QED BY <1>1, <2>1 DEF Remembered
  <1>3. here \in S
    OBVIOUS
  <1> HIDE DEF S
  <1>4. /\ past' \in Seq(S) /\ DOMAIN past' = 1..now' /\ past'[now'] = here
        /\ \A t \in 1..now : past'[t] = past[t]
    BY <1>1, <1>2, <1>3, AppendProperties, LenProperties
  <1>5. past' = [t \in 1..now' |-> past'[t]]
    BY <1>4, LenProperties
  <1>6. /\ \A c \in Claims' : row'[c].ingest <= now'
        /\ \A e \in edges' : e.ingest <= now'
    BY <1>1 DEF Remembered, Wellformed
  <1>7. ASSUME NEW t \in 1..now'
        PROVE  /\ DOMAIN past'[t].row = {c \in Claims' : row'[c].ingest <= t - 1}
               /\ \A c \in DOMAIN past'[t].row : past'[t].row[c] = row'[c]
               /\ past'[t].edges = {e \in edges' : e.ingest <= t - 1}
    <2>1. CASE t = now'
      <3>1. t - 1 = now /\ past'[t].row = row /\ past'[t].edges = edges
        BY <1>1, <1>4, <2>1
      <3> QED BY <1>1, <3>1 DEF Remembered, Claims
    <2>2. CASE t # now'
      <3>1. t \in 1..now /\ past'[t] = past[t]
        BY <1>1, <1>4, <2>2
      <3> QED BY <1>1, <3>1 DEF Remembered
    <2> QED BY <2>1, <2>2
  <1> QED BY <1>5, <1>6, <1>7 DEF Remembered

LEMMA LearningKeepsThePast ==
  ASSUME MaxLag = 0, Wellformed, Remembered, Learn, UNCHANGED past
  PROVE  Remembered'
  <1>1. now' = now /\ now \in Nat /\ Readings = {now}
    <2>1. now' = now
      BY DEF Learn, AppendClaim, AppendEdge
    <2>2. now \in Nat
      BY DEF Wellformed
    <2>3. \A t \in 0..now : now - t <= 0 <=> t = now
      BY <2>2
    <2>4. now \in 0..now
      BY <2>2
    <2> QED BY <2>1, <2>2, <2>3, <2>4 DEF Readings
  <1>2. CASE \E c \in ClaimId, ingest \in Readings : \E facts \in FactsOf(c) :
               AppendClaim(c, facts, ingest)
    <2>1. PICK c \in ClaimId : \E facts \in FactsOf(c) : AppendClaim(c, facts, now)
      BY <1>1, <1>2
    <2>2. /\ c \notin Claims /\ Claims' = Claims \union {c} /\ row'[c].ingest = now
          /\ \A d \in Claims : row'[d] = row[d]
          /\ edges' = edges
      BY <2>1 DEF AppendClaim, Claims
    <2>3. ASSUME NEW t \in 1..now
          PROVE  {d \in Claims' : row'[d].ingest <= t - 1} = {d \in Claims : row[d].ingest <= t - 1}
      <3>1. ~(row'[c].ingest <= t - 1)
        BY <1>1, <2>2
      <3> QED BY <2>2, <3>1
    <2>4. \A d \in Claims' : row'[d].ingest <= now'
      BY <1>1, <2>2 DEF Remembered
    <2> QED BY <1>1, <2>2, <2>3, <2>4 DEF Remembered
  <1>3. CASE \E rel \in Relations, newer, older \in Claims, ingest \in Readings :
               \E conf \in EdgeConfs(newer, older) : AppendEdge(rel, newer, older, ingest, conf)
    <2>1. PICK e : e.ingest = now /\ edges' = edges \union {e}
      <3>1. PICK rel \in Relations, newer \in Claims, older \in Claims :
              \E conf \in EdgeConfs(newer, older) : AppendEdge(rel, newer, older, now, conf)
        BY <1>1, <1>3
      <3>2. PICK conf : AppendEdge(rel, newer, older, now, conf)
        BY <3>1
      <3> DEFINE e == [rel |-> rel, newer |-> newer, older |-> older, ingest |-> now, conf |-> conf]
      <3>3. e.ingest = now /\ edges' = edges \union {e}
        BY <3>2 DEF AppendEdge
      <3> QED BY <3>3
    <2>2. row' = row /\ Claims' = Claims
      BY <1>3 DEF AppendEdge, Claims
    <2>3. ASSUME NEW t \in 1..now
          PROVE  {f \in edges' : f.ingest <= t - 1} = {f \in edges : f.ingest <= t - 1}
      <3>1. ~(e.ingest <= t - 1)
        BY <1>1, <2>1
      <3> QED BY <2>1, <3>1
    <2>4. \A f \in edges' : f.ingest <= now'
      BY <1>1, <2>1 DEF Remembered
    <2> QED BY <1>1, <2>2, <2>3, <2>4 DEF Remembered
  <1> QED BY <1>2, <1>3 DEF Learn

LEMMA PauseKeepsThePast == Remembered /\ UNCHANGED <<vars, past>> => Remembered'
  BY DEF vars, Remembered, Claims

\* If nothing is dated before the clock of the append that brings it, the
\* reader of a past instant (resolveAsOf on the ingest axis) gets the belief
\* that a reader had at that instant.
THEOREM PastIsReplayed ==
  ASSUME MaxLag = 0,
         \A c \in DOMAIN BaseRow : BaseRow[c].ingest <= 0,
         \A e \in BaseEdges : e.ingest <= 0
  PROVE  HistorySpec => []AsOfReplaysThePast
  <1>1. HistoryInit => Wellformed /\ Remembered
    <2> SUFFICES ASSUME HistoryInit PROVE Wellformed /\ Remembered
      OBVIOUS
    <2>1. Wellformed
      BY InitWellformed DEF HistoryInit
    <2>2. now = 0 /\ row = BaseRow /\ edges = BaseEdges /\ past = <<>>
      BY DEF HistoryInit, Init
    <2>3. past = [t \in 1..now |-> past[t]] /\ 1..now = {}
      BY <2>2
    <2> QED BY <2>1, <2>2, <2>3 DEF Remembered, Claims
  <1>2. Wellformed /\ Remembered /\ [HistoryNext]_<<vars, past>> => Wellformed' /\ Remembered'
    <2> SUFFICES ASSUME Wellformed, Remembered, [HistoryNext]_<<vars, past>>
                 PROVE  Wellformed' /\ Remembered'
      OBVIOUS
    <2>1. Wellformed'
      BY WellformedInv DEF HistoryNext, EndOfTick, Next
    <2>2. CASE UNCHANGED <<vars, past>>
      BY <2>1, <2>2, PauseKeepsThePast
    <2> QED BY <2>1, <2>2, TickIsRemembered, LearningKeepsThePast DEF HistoryNext
  <1>3. Wellformed /\ Remembered => AsOfReplaysThePast
    <2> SUFFICES ASSUME Wellformed, Remembered, NEW t \in DOMAIN past, NEW arity
                 PROVE  ResolveAsOf(arity, Claims, row, edges, t - 1, "ingest")
                          = ResolveBelief(arity, DOMAIN past[t].row, past[t].row, past[t].edges)
      BY DEF AsOfReplaysThePast
    <2> DEFINE C == DOMAIN past[t].row
               E == past[t].edges
    <2>1. /\ t \in 1..now
          /\ C = {c \in Claims : row[c].ingest <= t - 1}
          /\ \A c \in C : row[c] = past[t].row[c]
          /\ E = {e \in edges : e.ingest <= t - 1}
      BY DEF Remembered
    <2>2. C = ClaimsAt(Claims, row, t - 1, "ingest") /\ E = EdgesAt(edges, t - 1)
      BY <2>1 DEF ClaimsAt, EdgesAt
    <2>3. Readable(C, row, E)
      <3>1. Readable(Claims, row, edges) /\ C \subseteq Claims
        BY <2>1, LogIsReadable
      <3>2. EdgesOf(E, "SUPERSEDES") \subseteq EdgesOf(edges, "SUPERSEDES")
        BY <2>1 DEF EdgesOf
      <3> HIDE DEF C, E
      <3>3. IsFiniteSet(C) /\ Comparable(C, row)
        BY <3>1, FS_Subset DEF Readable, Comparable
      <3> QED BY <3>1, <3>2, <3>3, EdgeSubset DEF Readable
    <2> HIDE DEF E
    <2>4. ResolveBelief(arity, C, row, E) = ResolveBelief(arity, C, past[t].row, E)
      BY <2>1, <2>3, FoldReadsItsRows
    <2> QED BY <2>2, <2>4 DEF ResolveAsOf, E
  <1> QED BY <1>1, <1>2, <1>3, PTL DEF HistorySpec
=============================================================================
