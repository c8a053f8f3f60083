--------------------------- MODULE BeliefFoldProofs ---------------------------
(***************************************************************************)
(* What the fold returns, for any claims and any revisions, those that run *)
(* in a circle included: the cycle search is exact, the loop around it     *)
(* drops an edge only if there is a cycle, no claim is forgotten, a        *)
(* displaced claim never leads an uncircled history, the latest            *)
(* undisplaced claim leads any, and a diff is a walk down the revisions.   *)
(*                                                                         *)
(* The argument.  Both comparators order what they sort totally, so a      *)
(* finite set has a first (Sorting).  Each of the fold's loops is a tail   *)
(* recursion along which a measure falls, so that the function its LET     *)
(* names exists and answers at the first stop (Loops).  The invariant of   *)
(* the depth-first search is Searching: the path is one, its claims are    *)
(* GRAY, and the BLACK claims revise BLACK ones only, in no circle.        *)
(***************************************************************************)
EXTENDS BeliefFold, FiniteSetTheorems, SequenceTheorems, WellFoundedInduction, TLAPS

----------------------------------------------------------------------------
(* Sorting *)

LEMMA NatLeast ==
  ASSUME NEW T, T \subseteq Nat, T # {}
  PROVE  \E m \in T : \A n \in T : m <= n
  <1> DEFINE Less == OpToRel(<, Nat)
  <1>1. IsWellFoundedOn(Less, Nat)
    BY NatLessThanWellFounded
  <1>2. \A m, n \in Nat : <<n, m>> \in Less <=> n < m
    BY DEF OpToRel
  <1> HIDE DEF Less
  <1>3. \E m \in T : \A n \in T : ~ (<<n, m>> \in Less)
    BY <1>1, WFMin
  <1> QED
    <2>1. PICK m \in T : \A n \in T : ~ (<<n, m>> \in Less)
      BY <1>3
    <2>2. \A n \in T : ~(n < m)
      BY <1>2, <2>1
    <2> QED BY <2>2

\* A finite set that L orders totally has a first element.
LEMMA FirstExists ==
  ASSUME NEW T, IsFiniteSet(T), T # {}, NEW L,
         \A a, b \in T : a = b \/ <<a, b>> \in L \/ <<b, a>> \in L,
         \A a, b, c \in T : <<a, b>> \in L /\ <<b, c>> \in L => <<a, c>> \in L
  PROVE  \E m \in T : \A d \in T \ {m} : <<m, d>> \in L
  <1> DEFINE HasFirst(U) == \E m \in U : \A d \in U \ {m} : <<m, d>> \in L
             Bad == {U \in SUBSET T : U # {} /\ ~HasFirst(U)}
             Sizes == {Cardinality(U) : U \in Bad}
  <1> SUFFICES ASSUME T \in Bad PROVE FALSE
    OBVIOUS
  <1>1. \A U \in Bad : IsFiniteSet(U) /\ Cardinality(U) \in Nat
    BY FS_Subset, FS_CardinalityType
  <1>2. PICK U \in Bad : \A V \in Bad : Cardinality(U) <= Cardinality(V)
    <2> HIDE DEF Bad
    <2>1. Sizes \subseteq Nat /\ Sizes # {}
      BY <1>1
    <2>2. \A U \in Bad : Cardinality(U) \in Sizes
      OBVIOUS
    <2>3. \A k \in Sizes : \E U \in Bad : k = Cardinality(U)
      OBVIOUS
    <2> HIDE DEF Sizes
    <2>4. PICK k \in Sizes : \A n \in Sizes : k <= n
      BY <2>1, NatLeast
    <2> QED BY <2>2, <2>3, <2>4
  <1>3. PICK u \in U : TRUE
    OBVIOUS
  <1> DEFINE V == U \ {u}
  <1>4. Cardinality(V) = Cardinality(U) - 1 /\ Cardinality(U) \in Nat
    BY <1>1, <1>3, FS_RemoveElement
  <1>5. V \notin Bad
    <2> SUFFICES ASSUME V \in Bad PROVE FALSE
      OBVIOUS
    <2>1. Cardinality(U) <= Cardinality(V)
      BY <1>2
    <2> QED BY <2>1, <1>4
  <1>6. CASE V = {}
    <2>1. U = {u}
      BY <1>3, <1>6
    <2> QED BY <2>1
  <1>7. CASE V # {}
    <2>1. PICK m \in V : \A d \in V \ {m} : <<m, d>> \in L
      BY <1>5, <1>7
    <2>2. CASE <<m, u>> \in L
      BY <2>1, <2>2
    <2>3. CASE <<u, m>> \in L
      BY <1>3, <2>1, <2>3
    <2> QED BY <1>3, <2>1, <2>2, <2>3
  <1> QED BY <1>6, <1>7

\* A set of integers.
Numbers(T) == T \subseteq Int

\* A finite nonempty set of integers has a largest element.
LEMMA LargestExists ==
  ASSUME NEW T, IsFiniteSet(T), T # {}, Numbers(T)
  PROVE  \E m \in T : \A n \in T : n <= m
  <1> DEFINE L == {p \in T \X T : p[1] > p[2]}
  <1>1. \A a, b \in T : <<a, b>> \in L <=> a > b
    OBVIOUS
  <1> HIDE DEF L
  <1>2. \A a, b \in T : a = b \/ <<a, b>> \in L \/ <<b, a>> \in L
    <2>1. \A a, b \in T : a = b \/ a > b \/ b > a
      BY DEF Numbers
    <2> QED BY <1>1, <2>1
  <1>3. \A a, b, c \in T : <<a, b>> \in L /\ <<b, c>> \in L => <<a, c>> \in L
    <2>1. \A a, b, c \in T : a > b /\ b > c => a > c
      BY DEF Numbers
    <2> QED BY <1>1, <2>1
  <1>4. PICK m \in T : \A d \in T \ {m} : <<m, d>> \in L
    BY <1>2, <1>3, FirstExists
  <1>5. \A n \in T : n = m \/ m > n
    BY <1>1, <1>4
  <1> QED BY <1>5 DEF Numbers

\* Claims with their ids and the numbers of their rows.
Comparable(C, R) ==
  /\ C \subseteq Int
  /\ \A c \in C : R[c].event \in Int /\ R[c].ingest \in Int /\ R[c].conf \in Int

LEMMA NewerIsTotal ==
  ASSUME NEW C, NEW R, Comparable(C, R)
  PROVE  /\ \A a, b \in C : a = b \/ NewerThan(R, a, b) \/ NewerThan(R, b, a)
         /\ \A a, b \in C : NewerThan(R, a, b) => ~NewerThan(R, b, a)
         /\ \A a, b, c \in C : NewerThan(R, a, b) /\ NewerThan(R, b, c) => NewerThan(R, a, c)
  BY DEF Comparable, NewerThan

\* Sorting finds the first: it is a claim, and newer than each of the others.
LEMMA NewestIsFirst ==
  ASSUME NEW C, NEW R, IsFiniteSet(C), C # {}, Comparable(C, R)
  PROVE  Newest(C, R) \in C /\ \A d \in C \ {Newest(C, R)} : NewerThan(R, Newest(C, R), d)
  <1> DEFINE L == {p \in C \X C : NewerThan(R, p[1], p[2])}
  <1>1. \A a, b \in C : <<a, b>> \in L <=> NewerThan(R, a, b)
    OBVIOUS
  <1> HIDE DEF L
  <1>2. \E m \in C : \A d \in C \ {m} : <<m, d>> \in L
    <2>1. \A a, b \in C : a = b \/ <<a, b>> \in L \/ <<b, a>> \in L
      BY <1>1, NewerIsTotal
    <2>2. \A a, b, c \in C : <<a, b>> \in L /\ <<b, c>> \in L => <<a, c>> \in L
      BY <1>1, NewerIsTotal
    <2> QED BY <2>1, <2>2, FirstExists
  <1> QED BY <1>1, <1>2 DEF Newest

----------------------------------------------------------------------------
(* Loops *)

\* f is a solution of the tail recursion below the bound n.
Solves(f, n, D, stop, step, res, measure) ==
  f = [s \in {t \in D : measure[t] <= n} |-> IF s \in stop THEN res[s] ELSE f[step[s]]]

\* f is the tail recursion over D: it answers res at a stop and goes on at the
\* next step otherwise.
Computes(f, D, stop, step, res) ==
  f = [s \in D |-> IF s \in stop THEN res[s] ELSE f[step[s]]]

\* A measure that falls at each step.
Falls(D, stop, step, measure) ==
  /\ measure \in [D -> Nat]
  /\ \A s \in D \ stop : step[s] \in D /\ measure[step[s]] < measure[s]

\* A tail-recursive function over D exists when a measure falls at each step:
\* this is what makes a LET f[s \in D] == ... mean its own equation.
LEMMA TailRecursion ==
  ASSUME NEW D, NEW stop, NEW step, NEW res, NEW measure, Falls(D, stop, step, measure)
  PROVE  \E f : Computes(f, D, stop, step, res)
  <1> SUFFICES ASSUME measure \in [D -> Nat],
                      \A s \in D \ stop : step[s] \in D /\ measure[step[s]] < measure[s]
               PROVE  \E f : f = [s \in D |-> IF s \in stop THEN res[s] ELSE f[step[s]]]
    BY DEF Falls, Computes
  <1> DEFINE Sol(f, n) == Solves(f, n, D, stop, step, res, measure)
             Below(n) == {t \in D : measure[t] <= n}
  <1>0. \A f, n : Sol(f, n) <=> f = [s \in Below(n) |-> IF s \in stop THEN res[s] ELSE f[step[s]]]
    BY DEF Solves
  <1> HIDE DEF Sol
  <1>1. \A n \in Nat : \E f : Sol(f, n)
    <2> DEFINE Bad == {n \in Nat : ~ \E f : Sol(f, n)}
    <2> SUFFICES ASSUME Bad # {} PROVE FALSE
      OBVIOUS
    <2>1. PICK n \in Bad : \A k \in Bad : n <= k
      BY NatLeast
    <2>2. CASE n = 0
      <3> DEFINE g == [s \in Below(n) |-> res[s]]
      <3>1. \A s \in Below(n) : s \in stop
        BY <2>2
      <3>2. g = [s \in Below(n) |-> IF s \in stop THEN res[s] ELSE g[step[s]]]
        BY <3>1
      <3> QED BY <1>0, <2>1, <3>2
    <2>3. CASE n # 0
      <3>1. PICK f : Sol(f, n - 1)
        <4>1. n - 1 \in Nat /\ ~(n <= n - 1)
          BY <2>1, <2>3
        <4> QED BY <2>1, <4>1
      <3>2. f = [s \in Below(n - 1) |-> IF s \in stop THEN res[s] ELSE f[step[s]]]
        BY <1>0, <3>1
      <3> DEFINE g == [s \in Below(n) |-> IF s \in stop THEN res[s] ELSE f[step[s]]]
      <3>3. \A s \in Below(n) \ stop : step[s] \in Below(n - 1) /\ step[s] \in Below(n)
        BY <2>1, <2>3
      <3>4. \A t \in Below(n) \intersect Below(n - 1) : g[t] = f[t]
        BY <3>2
      <3>5. g = [s \in Below(n) |-> IF s \in stop THEN res[s] ELSE g[step[s]]]
        BY <3>3, <3>4
      <3> HIDE DEF g
      <3> QED BY <1>0, <2>1, <3>5
    <2> QED BY <2>2, <2>3
  <1>2. ASSUME NEW n \in Nat, NEW k \in Nat, NEW f, NEW g, Sol(f, n), Sol(g, k),
               NEW s0 \in Below(n) \intersect Below(k)
        PROVE  f[s0] = g[s0]
    <2> DEFINE Bad == {s \in Below(n) \intersect Below(k) : f[s] # g[s]}
               Sizes == {measure[s] : s \in Bad}
    <2> SUFFICES ASSUME Bad # {} PROVE FALSE
      OBVIOUS
    <2>1. f = [s \in Below(n) |-> IF s \in stop THEN res[s] ELSE f[step[s]]]
      BY <1>0, <1>2
    <2>2. g = [s \in Below(k) |-> IF s \in stop THEN res[s] ELSE g[step[s]]]
      BY <1>0, <1>2
    <2>3. PICK s \in Bad : \A t \in Bad : measure[s] <= measure[t]
      <3>1. Sizes \subseteq Nat /\ Sizes # {}
        OBVIOUS
      <3>2. PICK m \in Sizes : \A x \in Sizes : m <= x
        BY <3>1, NatLeast
      <3> QED BY <3>2
    <2>4. s \notin stop
      BY <2>1, <2>2, <2>3
    <2>5. step[s] \in Below(n) \intersect Below(k) /\ measure[step[s]] < measure[s]
      BY <2>3, <2>4, <1>2
    <2>6. f[s] = f[step[s]] /\ g[s] = g[step[s]]
      BY <2>1, <2>2, <2>3, <2>4
    <2>7. measure[s] \in Nat /\ measure[step[s]] \in Nat
      BY <2>3, <2>5
    <2> QED BY <2>3, <2>5, <2>6, <2>7
  <1> DEFINE F == [s \in D |-> (CHOOSE f : Sol(f, measure[s]))[s]]
  <1>3. \A s \in D : Sol(CHOOSE f : Sol(f, measure[s]), measure[s])
    BY <1>1
  <1>4. ASSUME NEW s \in D PROVE F[s] = IF s \in stop THEN res[s] ELSE F[step[s]]
    <2> DEFINE f == CHOOSE f : Sol(f, measure[s])
    <2>1. F[s] = f[s] /\ Sol(f, measure[s])
      BY <1>3
    <2>2. s \in Below(measure[s]) /\ measure[s] \in Nat
      OBVIOUS
    <2> HIDE DEF f
    <2>3. f[s] = IF s \in stop THEN res[s] ELSE f[step[s]]
      BY <1>0, <2>1, <2>2
    <2>4. ASSUME s \notin stop PROVE F[s] = F[step[s]]
      <3> DEFINE t == step[s]
      <3>1. t \in D /\ measure[t] < measure[s] /\ measure[t] \in Nat
        BY <2>4
      <3> DEFINE g == CHOOSE f_1 : Sol(f_1, measure[t])
      <3>2. F[t] = g[t] /\ Sol(g, measure[t])
        BY <1>3, <3>1
      <3>3. t \in Below(measure[t]) /\ t \in Below(measure[s])
        BY <3>1, <2>2
      <3> HIDE DEF g
      <3>4. f[t] = g[t]
        BY <1>2, <2>1, <2>2, <3>1, <3>2, <3>3
      <3> QED BY <2>1, <2>3, <2>4, <3>2, <3>4
    <2> QED BY <2>1, <2>3, <2>4
  <1>5. F = [s \in D |-> F[s]]
    OBVIOUS
  <1> HIDE DEF F
  <1>6. F = [s \in D |-> IF s \in stop THEN res[s] ELSE F[step[s]]]
    <2> DEFINE G == [s \in D |-> IF s \in stop THEN res[s] ELSE F[step[s]]]
    <2>1. \A s \in D : F[s] = G[s]
      BY <1>4
    <2>2. G = [s \in D |-> G[s]]
      OBVIOUS
    <2> HIDE DEF G
    <2>3. F = G
      BY <2>1, <2>2, <1>5
    <2> QED BY <2>3 DEF G
  <1> QED BY <1>6

\* A step from a state of Good stays in Good, and a stop in Good gives one of
\* the answers.
Leads(Good, Answers, D, stop, step, res) ==
  /\ Good \subseteq D
  /\ \A s \in Good \intersect stop : res[s] \in Answers
  /\ \A s \in Good \ stop : step[s] \in Good

\* From a state of Good, then, the recursion gives one of the answers.
LEMMA TailRecursionAnswers ==
  ASSUME NEW D, NEW stop, NEW step, NEW res, NEW measure, Falls(D, stop, step, measure),
         NEW f, Computes(f, D, stop, step, res),
         NEW Good, NEW Answers, Leads(Good, Answers, D, stop, step, res)
  PROVE  \A s \in Good : f[s] \in Answers
  <1> DEFINE Bad == {s \in Good : f[s] \notin Answers}
             Sizes == {measure[s] : s \in Bad}
  <1> SUFFICES ASSUME Bad # {} PROVE FALSE
    OBVIOUS
  <1>0. /\ measure \in [D -> Nat]
        /\ \A s \in D \ stop : step[s] \in D /\ measure[step[s]] < measure[s]
        /\ f = [s \in D |-> IF s \in stop THEN res[s] ELSE f[step[s]]]
        /\ Good \subseteq D
        /\ \A s \in Good \intersect stop : res[s] \in Answers
        /\ \A s \in Good \ stop : step[s] \in Good
    BY DEF Falls, Computes, Leads
  <1>1. PICK s \in Bad : \A t \in Bad : measure[s] <= measure[t]
    <2>0. \A s \in Bad : measure[s] \in Nat
      BY <1>0
    <2> HIDE DEF Bad
    <2>1. Sizes \subseteq Nat /\ Sizes # {}
      BY <2>0
    <2>2. PICK m \in Sizes : \A x \in Sizes : m <= x
      BY <2>1, NatLeast
    <2> QED BY <2>2
  <1>2. s \in D /\ s \notin stop /\ f[s] = f[step[s]]
    BY <1>0, <1>1
  <1>3. step[s] \in Bad /\ measure[step[s]] < measure[s] /\ step[s] \in D
    BY <1>0, <1>1, <1>2
  <1>4. measure[s] \in Nat /\ measure[step[s]] \in Nat
    BY <1>0, <1>2, <1>3
  <1>5. measure[s] <= measure[step[s]]
    BY <1>1, <1>3
  <1> QED BY <1>3, <1>4, <1>5

----------------------------------------------------------------------------
(* The depth-first search of cycleEdgeToDrop *)

\* Edges as a read returns them: finitely many, numbered, one for each pair of
\* claims of one relation, and none from a claim to itself.
EdgeSet(E) ==
  /\ IsFiniteSet(E)
  /\ \A e \in E : /\ e.rel \in Relation
                  /\ e.newer \in Int /\ e.older \in Int /\ e.newer # e.older
                  /\ e.conf \in Int /\ e.ingest \in Int
  /\ \A e, f \in E : e.newer = f.newer /\ e.older = f.older => e = f

\* A part of them is such a set.
LEMMA EdgeSubset ==
  ASSUME NEW E, NEW F, EdgeSet(E), F \subseteq E
  PROVE  EdgeSet(F)
  BY FS_Subset DEF EdgeSet

\* sortEdges leaves an edge in front.
LEMMA FirstEdgeIsIn ==
  ASSUME NEW E, EdgeSet(E), E # {}
  PROVE  FirstEdge(E) \in E
  <1> DEFINE L == {p \in E \X E : EdgeBefore(p[1], p[2])}
  <1>1. \A e, f \in E : <<e, f>> \in L <=> EdgeBefore(e, f)
    OBVIOUS
  <1> HIDE DEF L
  <1>2. \A e, f \in E : e = f \/ EdgeBefore(e, f) \/ EdgeBefore(f, e)
    BY DEF EdgeSet, EdgeBefore
  <1>3. \A e, f, g \in E : EdgeBefore(e, f) /\ EdgeBefore(f, g) => EdgeBefore(e, g)
    BY DEF EdgeSet, EdgeBefore
  <1>4. \E e \in E : \A f \in E \ {e} : <<e, f>> \in L
    <2>1. \A e, f \in E : e = f \/ <<e, f>> \in L \/ <<f, e>> \in L
      BY <1>1, <1>2
    <2>2. \A e, f, g \in E : <<e, f>> \in L /\ <<f, g>> \in L => <<e, g>> \in L
      BY <1>1, <1>3
    <2> QED BY <2>1, <2>2, FirstExists DEF EdgeSet
  <1> QED BY <1>1, <1>4 DEF FirstEdge

\* The claims of B have no circle among themselves.
Uncircled(B, sup) ==
  \A S \in SUBSET B : S # {} => \E n \in S : \A e \in sup : e.newer = n => e.older \notin S

\* What the search knows: the path is one, its claims are GRAY and each is on
\* it once; what was followed without going down leads to BLACK claims; and
\* the BLACK claims revise BLACK ones only, in no circle.
Searching(sup, s) ==
  /\ s \in SearchState(sup)
  /\ s.node \notin s.black
  /\ \A i \in DOMAIN s.path : s.path[i].newer \notin s.black \union {s.node}
  /\ \A i, j \in DOMAIN s.path : s.path[i].newer = s.path[j].newer => i = j
  /\ \A i \in DOMAIN s.path :
       s.path[i].older = IF i = Len(s.path) THEN s.node ELSE s.path[i + 1].newer
  /\ \A e \in s.followed : e.older \in s.black \/ \E i \in DOMAIN s.path : s.path[i] = e
  /\ \A e \in sup : e.newer \in s.black => e.older \in s.black
  /\ Uncircled(s.black, sup)

\* A claim whose edges all lead to BLACK claims may turn BLACK.
LEMMA BlackGrows ==
  ASSUME NEW sup, NEW black, NEW node, node \notin black,
         \A e \in sup : e.newer \in black \union {node} => e.older \in black,
         Uncircled(black, sup)
  PROVE  Uncircled(black \union {node}, sup)
  <1> SUFFICES ASSUME NEW S \in SUBSET (black \union {node}), S # {},
                      \A n \in S : \E e \in sup : e.newer = n /\ e.older \in S
               PROVE  FALSE
    BY DEF Uncircled
  <1> DEFINE T == S \ {node}
  <1>1. T \subseteq black
    OBVIOUS
  <1>2. T # {}
    <2>1. PICK n \in S : TRUE
      OBVIOUS
    <2>2. PICK e \in sup : e.newer = n /\ e.older \in S
      OBVIOUS
    <2>3. e.older \in black
      BY <2>2
    <2> QED BY <2>2, <2>3
  <1>3. PICK n \in T : \A e \in sup : e.newer = n => e.older \notin T
    BY <1>1, <1>2 DEF Uncircled
  <1>4. PICK e \in sup : e.newer = n /\ e.older \in S
    OBVIOUS
  <1> QED BY <1>3, <1>4

\* Nothing is left to follow out of the claim: its edges lead to BLACK claims.
LEMMA LeftClaimsLeadToBlack ==
  ASSUME NEW sup, NEW s, Searching(sup, s), ToFollow(sup, s) = {}
  PROVE  /\ \A e \in sup : e.newer = s.node => e.older \in s.black
         /\ Uncircled(s.black \union {s.node}, sup)
  <1>1. \A e \in sup : e.newer = s.node => e.older \in s.black
    BY DEF Searching, ToFollow
  <1> QED BY <1>1, BlackGrows DEF Searching

\* The four moves of the search, field by field.
LEMMA SearchMoves ==
  ASSUME NEW sup, EdgeSet(sup), NEW s \in SearchState(sup), ~ClosesCycle(sup, s), ~SearchOver(sup, s)
  PROVE  LET t == SearchStep(sup, s)
             e == FirstEdge(ToFollow(sup, s))
             r == FirstEdge(Unvisited(sup, s))
         IN  \/ /\ e \in ToFollow(sup, s) /\ e.older \in s.black
                /\ t = [node |-> s.node, path |-> s.path, black |-> s.black,
                        followed |-> s.followed \union {e}]
             \/ /\ e \in ToFollow(sup, s) /\ e.older \notin s.black
                /\ e.older \notin OnPath(s.node, s.path)
                /\ t = [node |-> e.older, path |-> Append(s.path, e), black |-> s.black,
                        followed |-> s.followed \union {e}]
             \/ /\ ToFollow(sup, s) = {} /\ s.path # <<>>
                /\ t = [node |-> Last(s.path).newer, path |-> Front(s.path),
                        black |-> s.black \union {s.node}, followed |-> s.followed]
             \/ /\ ToFollow(sup, s) = {} /\ s.path = <<>> /\ r \in Unvisited(sup, s)
                /\ t = [node |-> r.newer, path |-> s.path,
                        black |-> s.black \union {s.node}, followed |-> s.followed]
  <1> DEFINE e == FirstEdge(ToFollow(sup, s))
             r == FirstEdge(Unvisited(sup, s))
             t == SearchStep(sup, s)
  <1>1. ToFollow(sup, s) # {} => e \in ToFollow(sup, s)
    <2>1. ToFollow(sup, s) \subseteq sup
      BY DEF ToFollow
    <2>2. EdgeSet(ToFollow(sup, s))
      BY <2>1, EdgeSubset
    <2> QED BY <2>2, FirstEdgeIsIn
  <1>2. Unvisited(sup, s) # {} => r \in Unvisited(sup, s)
    <2>1. Unvisited(sup, s) \subseteq sup
      BY DEF Unvisited
    <2>2. EdgeSet(Unvisited(sup, s))
      BY <2>1, EdgeSubset
    <2> QED BY <2>2, FirstEdgeIsIn
  <1>3. s = [node |-> s.node, path |-> s.path, black |-> s.black, followed |-> s.followed]
    BY DEF SearchState
  <1>4. t = CASE ToFollow(sup, s) # {} /\ e.older \in s.black ->
                   [s EXCEPT !.followed = @ \union {e}]
              [] ToFollow(sup, s) # {} /\ e.older \notin s.black ->
                   [s EXCEPT !.node = e.older, !.path = Append(@, e), !.followed = @ \union {e}]
              [] ToFollow(sup, s) = {} /\ s.path # <<>> ->
                   [s EXCEPT !.node = Last(s.path).newer, !.path = Front(@), !.black = @ \union {s.node}]
              [] OTHER ->
                   [s EXCEPT !.node = r.newer, !.black = @ \union {s.node}]
    BY DEF SearchStep
  <1> HIDE DEF e, r, t
  <1>5. CASE ToFollow(sup, s) # {} /\ e.older \in s.black
    <2>1. t = [s EXCEPT !.followed = @ \union {e}]
      BY <1>4, <1>5
    <2>2. t = [node |-> s.node, path |-> s.path, black |-> s.black, followed |-> s.followed \union {e}]
      BY <1>3, <2>1
    <2> QED BY <1>1, <1>5, <2>2 DEF e, r, t
  <1>6. CASE ToFollow(sup, s) # {} /\ e.older \notin s.black
    <2>1. t = [s EXCEPT !.node = e.older, !.path = Append(@, e), !.followed = @ \union {e}]
      BY <1>4, <1>6
    <2>2. t = [node |-> e.older, path |-> Append(s.path, e), black |-> s.black,
               followed |-> s.followed \union {e}]
      BY <1>3, <2>1
    <2>3. e.older \notin OnPath(s.node, s.path)
      BY <1>6 DEF ClosesCycle, e
    <2> QED BY <1>1, <1>6, <2>2, <2>3 DEF e, r, t
  <1>7. CASE ToFollow(sup, s) = {} /\ s.path # <<>>
    <2>1. t = [s EXCEPT !.node = Last(s.path).newer, !.path = Front(@), !.black = @ \union {s.node}]
      BY <1>4, <1>7
    <2>2. t = [node |-> Last(s.path).newer, path |-> Front(s.path),
               black |-> s.black \union {s.node}, followed |-> s.followed]
      BY <1>3, <2>1
    <2> QED BY <1>7, <2>2 DEF e, r, t
  <1>8. CASE ToFollow(sup, s) = {} /\ s.path = <<>>
    <2>1. t = [s EXCEPT !.node = r.newer, !.black = @ \union {s.node}]
      BY <1>4, <1>8
    <2>2. t = [node |-> r.newer, path |-> s.path, black |-> s.black \union {s.node},
               followed |-> s.followed]
      BY <1>3, <2>1
    <2>3. r \in Unvisited(sup, s)
      BY <1>2, <1>8 DEF SearchOver
    <2> QED BY <1>8, <2>2, <2>3 DEF e, r, t
  <1> QED BY <1>5, <1>6, <1>7, <1>8

\* Every move keeps what the search knows.
LEMMA SearchGoesOn ==
  ASSUME NEW sup, EdgeSet(sup), NEW s, Searching(sup, s), ~ClosesCycle(sup, s), ~SearchOver(sup, s)
  PROVE  Searching(sup, SearchStep(sup, s))
  <1> DEFINE e == FirstEdge(ToFollow(sup, s))
             r == FirstEdge(Unvisited(sup, s))
             t == SearchStep(sup, s)
             claims == Newers(sup) \union Olders(sup)
  <1> SUFFICES Searching(sup, t)
    OBVIOUS
  <1>0. /\ s \in SearchState(sup)
        /\ s.node \in claims /\ s.path \in Seq(sup) /\ s.black \subseteq claims /\ s.followed \subseteq sup
    BY DEF Searching, SearchState
  <1>1. \A f \in sup : f.newer \in claims /\ f.older \in claims
    BY DEF Newers, Olders
  <1>2. ToFollow(sup, s) \subseteq sup /\ Unvisited(sup, s) \subseteq sup
    BY DEF ToFollow, Unvisited
  <1>3. CASE /\ e \in ToFollow(sup, s) /\ e.older \in s.black
             /\ t = [node |-> s.node, path |-> s.path, black |-> s.black,
                     followed |-> s.followed \union {e}]
    <2>1. t \in SearchState(sup)
      BY <1>0, <1>2, <1>3 DEF SearchState
    <2>2. t.node = s.node /\ t.path = s.path /\ t.black = s.black /\ t.followed = s.followed \union {e}
      BY <1>3
    <2>3. e.older \in s.black
      BY <1>3
    <2> HIDE DEF t, e
    <2>4. \A f \in s.followed \union {e} : f.older \in s.black \/ \E i \in DOMAIN s.path : s.path[i] = f
      BY <2>3 DEF Searching
    <2> QED BY <2>1, <2>2, <2>4 DEF Searching
  <1>4. CASE /\ e \in ToFollow(sup, s) /\ e.older \notin s.black
             /\ e.older \notin OnPath(s.node, s.path)
             /\ t = [node |-> e.older, path |-> Append(s.path, e), black |-> s.black,
                     followed |-> s.followed \union {e}]
    <2>0. e \in sup /\ e.newer = s.node
      BY <1>4 DEF ToFollow
    <2> HIDE DEF e
    <2> DEFINE p == Append(s.path, e)
               n == Len(s.path)
    <2>1. /\ p \in Seq(sup) /\ n \in Nat /\ Len(p) = n + 1 /\ DOMAIN s.path = 1..n
          /\ DOMAIN p = 1..(n + 1)
          /\ \A i \in 1..n : p[i] = s.path[i]
          /\ p[n + 1] = e
      BY <1>0, <2>0, AppendProperties
    <2>2. t \in SearchState(sup)
      BY <1>0, <1>1, <1>4, <2>0, <2>1 DEF SearchState
    <2> HIDE DEF t, p
    <2>3. \A i \in 1..n : s.path[i].newer # e.older
      BY <1>4, <2>1 DEF OnPath
    <2>4. e.older # s.node
      BY <1>4 DEF OnPath
    <2>5. \A i \in DOMAIN p : p[i].newer \notin s.black \union {e.older}
      <3>1. \A i \in 1..n : p[i].newer \notin s.black \union {e.older}
        BY <2>1, <2>3 DEF Searching
      <3>2. p[n + 1].newer \notin s.black \union {e.older}
        BY <2>0, <2>1, <2>4 DEF Searching
      <3> QED BY <2>1, <3>1, <3>2
    <2>6. \A i, j \in DOMAIN p : p[i].newer = p[j].newer => i = j
      <3>1. \A i, j \in 1..n : p[i].newer = p[j].newer => i = j
        BY <2>1 DEF Searching
      <3>2. \A i \in 1..n : p[i].newer # p[n + 1].newer
        BY <2>0, <2>1 DEF Searching
      <3> QED BY <2>1, <3>1, <3>2
    <2>7. \A i \in DOMAIN p : p[i].older = IF i = Len(p) THEN e.older ELSE p[i + 1].newer
      <3>1. \A i \in 1..n : p[i].older = IF i = n THEN s.node ELSE s.path[i + 1].newer
        BY <2>1 DEF Searching
      <3>2. \A i \in 1..n : p[i].older = p[i + 1].newer
        BY <2>0, <2>1, <3>1
      <3> QED BY <2>1, <3>2
    <2>8. \A f \in s.followed \union {e} : f.older \in s.black \/ \E i \in DOMAIN p : p[i] = f
      <3>1. ASSUME NEW f \in s.followed PROVE f.older \in s.black \/ \E i \in DOMAIN p : p[i] = f
        BY <2>1 DEF Searching
      <3> QED BY <2>1, <3>1
    <2>9. t.node = e.older /\ t.path = p /\ t.black = s.black /\ t.followed = s.followed \union {e}
      BY <1>4 DEF p
    <2>10. /\ e.older \notin s.black /\ Uncircled(s.black, sup)
           /\ \A f \in sup : f.newer \in s.black => f.older \in s.black
      BY <1>4 DEF Searching
    <2> QED BY <2>2, <2>5, <2>6, <2>7, <2>8, <2>9, <2>10 DEF Searching
  <1>5. CASE /\ ToFollow(sup, s) = {} /\ s.path # <<>>
             /\ t = [node |-> Last(s.path).newer, path |-> Front(s.path),
                     black |-> s.black \union {s.node}, followed |-> s.followed]
    <2> DEFINE p == Front(s.path)
               n == Len(s.path)
               last == s.path[n]
               black == s.black \union {s.node}
    <2>1. /\ n \in Nat \ {0} /\ DOMAIN s.path = 1..n /\ last \in sup /\ Last(s.path) = last
          /\ \A i \in 1..n : s.path[i] \in sup
      BY <1>0, <1>5 DEF Last
    <2>2. /\ p \in Seq(sup) /\ Len(p) = n - 1 /\ DOMAIN p = 1..(n - 1)
          /\ \A i \in 1..(n - 1) : p[i] = s.path[i]
      <3>1. /\ SubSeq(s.path, 1, n - 1) \in Seq(sup)
            /\ Len(SubSeq(s.path, 1, n - 1)) = IF 1 <= n - 1 THEN n - 1 - 1 + 1 ELSE 0
            /\ \A i \in 1..(n - 1 - 1 + 1) : SubSeq(s.path, 1, n - 1)[i] = s.path[1 + i - 1]
        <4>1. 1 \in Int /\ n - 1 \in Int /\ \A i \in 1..(n - 1) : s.path[i] \in sup
          BY <2>1
        <4> HIDE DEF n
        <4> QED BY <4>1, SubSeqProperties
      <3> QED BY <2>1, <3>1 DEF Front
    <2> HIDE DEF p
    <2>3. t \in SearchState(sup)
      BY <1>0, <1>1, <1>5, <2>1, <2>2 DEF SearchState, p
    <2>4. t.node = last.newer /\ t.path = p /\ t.black = black /\ t.followed = s.followed
      BY <1>5, <2>1 DEF p
    <2>5. last.newer \notin black
      BY <2>1 DEF Searching
    <2> HIDE DEF n
    <2>6. ASSUME NEW i \in 1..(n - 1), s.path[i].newer = s.path[n].newer PROVE FALSE
      <3>1. i \in DOMAIN s.path /\ n \in DOMAIN s.path /\ i # n
        BY <2>1
      <3> QED BY <3>1, <2>6 DEF Searching
    <2>7. \A i \in DOMAIN p : p[i].newer \notin black \union {last.newer}
      BY <2>1, <2>2, <2>6 DEF Searching
    <2>8. ASSUME NEW i \in DOMAIN p, NEW j \in DOMAIN p, p[i].newer = p[j].newer PROVE i = j
      <3>1. /\ i \in DOMAIN s.path /\ j \in DOMAIN s.path
            /\ p[i] = s.path[i] /\ p[j] = s.path[j]
        BY <2>1, <2>2
      <3> QED BY <3>1, <2>8 DEF Searching
    <2>9. \A i \in DOMAIN p : p[i].older = IF i = Len(p) THEN last.newer ELSE p[i + 1].newer
      <3>1. \A i \in 1..(n - 1) : s.path[i].older = s.path[i + 1].newer
        BY <2>1 DEF Searching
      <3>2. ASSUME NEW i \in 1..(n - 1), i # n - 1 PROVE p[i].older = p[i + 1].newer
        <4>1. i + 1 \in 1..(n - 1)
          BY <2>1, <3>2
        <4> QED BY <2>2, <3>1, <4>1
      <3>3. n - 1 \in 1..(n - 1) => p[n - 1].older = last.newer
        <4>1. n - 1 + 1 = n
          BY <2>1
        <4> QED BY <2>2, <3>1, <4>1
      <3> QED BY <2>2, <3>2, <3>3
    <2>10. \A f \in s.followed : f.older \in black \/ \E i \in DOMAIN p : p[i] = f
      <3>1. last.older = s.node
        BY <2>1 DEF Searching
      <3>2. \A i \in 1..n : i = n \/ (i \in 1..(n - 1) /\ s.path[i] = p[i])
        BY <2>1, <2>2
      <3>3. ASSUME NEW f \in s.followed, f.older \notin s.black
            PROVE  f.older \in black \/ \E i \in DOMAIN p : p[i] = f
        <4>1. PICK i \in 1..n : s.path[i] = f
          BY <2>1, <3>3 DEF Searching
        <4> QED BY <2>2, <3>1, <3>2, <4>1
      <3> QED BY <3>3
    <2>11. \A f \in sup : f.newer \in black => f.older \in black
      BY <1>5, LeftClaimsLeadToBlack DEF Searching
    <2>12. Uncircled(black, sup)
      BY <1>5, LeftClaimsLeadToBlack
    <2> HIDE DEF t, black, last
    <2> QED BY <2>3, <2>4, <2>5, <2>7, <2>8, <2>9, <2>10, <2>11, <2>12 DEF Searching
  <1>6. CASE /\ ToFollow(sup, s) = {} /\ s.path = <<>> /\ r \in Unvisited(sup, s)
             /\ t = [node |-> r.newer, path |-> s.path,
                     black |-> s.black \union {s.node}, followed |-> s.followed]
    <2> DEFINE black == s.black \union {s.node}
    <2>1. r \in sup /\ r.newer \notin black
      BY <1>6 DEF Unvisited
    <2>2. t \in SearchState(sup)
      BY <1>0, <1>1, <1>6, <2>1 DEF SearchState
    <2>3. DOMAIN s.path = {}
      BY <1>6
    <2>4. \A f \in sup : f.newer \in black => f.older \in black
      BY <1>6, LeftClaimsLeadToBlack DEF Searching
    <2>5. Uncircled(black, sup)
      BY <1>6, LeftClaimsLeadToBlack
    <2>6. t.node = r.newer /\ t.path = s.path /\ t.black = black /\ t.followed = s.followed
      BY <1>6
    <2>7. \A f \in s.followed : f.older \in black
      BY <2>3 DEF Searching
    <2> HIDE DEF t, black, r
    <2> QED BY <2>1, <2>2, <2>3, <2>4, <2>5, <2>6, <2>7 DEF Searching
  <1> QED BY <1>0, <1>3, <1>4, <1>5, <1>6, SearchMoves

\* When nothing is left to visit, the revisions have no circle.
LEMMA SearchedAll ==
  ASSUME NEW sup, NEW s, Searching(sup, s), SearchOver(sup, s)
  PROVE  ~HasCycle(sup)
  <1> SUFFICES ASSUME NEW S \in SUBSET Newers(sup), S # {},
                      \A n \in S : \E e \in sup : e.newer = n /\ e.older \in S
               PROVE  FALSE
    BY DEF HasCycle
  <1>1. \A e \in sup : e.newer \in s.black \union {s.node}
    BY DEF SearchOver, Unvisited
  <1>2. S \subseteq s.black \union {s.node}
    BY <1>1 DEF Newers
  <1>3. Uncircled(s.black \union {s.node}, sup)
    BY LeftClaimsLeadToBlack DEF SearchOver
  <1> QED BY <1>2, <1>3 DEF Uncircled

\* The claims that a finite set of edges joins are finitely many.
LEMMA EndsFinite ==
  ASSUME NEW sup, IsFiniteSet(sup)
  PROVE  IsFiniteSet(Newers(sup) \union Olders(sup))
  <1> DEFINE f == [e \in sup |-> e.newer]
             g == [e \in sup |-> e.older]
  <1>1. f \in Surjection(sup, Newers(sup))
    BY DEF Surjection, Newers
  <1>2. g \in Surjection(sup, Olders(sup))
    BY DEF Surjection, Olders
  <1> HIDE DEF f, g
  <1>3. IsFiniteSet(Newers(sup)) /\ IsFiniteSet(Olders(sup))
    BY <1>1, <1>2, FS_Surjection
  <1> QED BY <1>3, FS_Union

\* How far the search is from its end: edges not followed, claims not BLACK,
\* and the way back along the path.
Remaining(sup, s) ==
  3 * Cardinality(sup \ s.followed) + 2 * Len(s.path)
  + 3 * Cardinality((Newers(sup) \union Olders(sup)) \ s.black)
  + (IF s.node \in s.black THEN 1 ELSE 0)

LEMMA RemainingIsNat ==
  ASSUME NEW sup, EdgeSet(sup), NEW s \in SearchState(sup)
  PROVE  /\ Remaining(sup, s) \in Nat
         /\ Cardinality(sup \ s.followed) \in Nat /\ IsFiniteSet(sup \ s.followed)
         /\ Cardinality((Newers(sup) \union Olders(sup)) \ s.black) \in Nat
         /\ IsFiniteSet((Newers(sup) \union Olders(sup)) \ s.black)
         /\ Len(s.path) \in Nat
  <1>1. IsFiniteSet(sup \ s.followed) /\ Cardinality(sup \ s.followed) \in Nat
    BY FS_Subset, FS_CardinalityType DEF EdgeSet
  <1> DEFINE claims == Newers(sup) \union Olders(sup)
  <1>2. IsFiniteSet(claims)
    BY EndsFinite DEF EdgeSet
  <1> HIDE DEF claims
  <1>3. IsFiniteSet(claims \ s.black) /\ Cardinality(claims \ s.black) \in Nat
    BY <1>2, FS_Subset, FS_CardinalityType
  <1>4. Len(s.path) \in Nat
    BY DEF SearchState
  <1> QED BY <1>1, <1>3, <1>4 DEF Remaining, claims

\* Every move brings the end nearer.
LEMMA SearchNearsItsEnd ==
  ASSUME NEW sup, EdgeSet(sup), NEW s \in SearchState(sup), ~ClosesCycle(sup, s), ~SearchOver(sup, s)
  PROVE  /\ SearchStep(sup, s) \in SearchState(sup)
         /\ Remaining(sup, SearchStep(sup, s)) < Remaining(sup, s)
  <1> DEFINE e == FirstEdge(ToFollow(sup, s))
             r == FirstEdge(Unvisited(sup, s))
             t == SearchStep(sup, s)
             claims == Newers(sup) \union Olders(sup)
             open == sup \ s.followed
             white == claims \ s.black
  <1> SUFFICES t \in SearchState(sup) /\ Remaining(sup, t) < Remaining(sup, s)
    OBVIOUS
  <1>0. s.node \in claims /\ s.path \in Seq(sup) /\ s.black \subseteq claims /\ s.followed \subseteq sup
    BY DEF SearchState
  <1>1. \A f \in sup : f.newer \in claims /\ f.older \in claims
    BY DEF Newers, Olders
  <1>2. /\ Cardinality(open) \in Nat /\ IsFiniteSet(open)
        /\ Cardinality(white) \in Nat /\ IsFiniteSet(white)
        /\ Len(s.path) \in Nat
    BY RemainingIsNat
  <1>3. Remaining(sup, s) = 3 * Cardinality(open) + 2 * Len(s.path) + 3 * Cardinality(white)
                            + (IF s.node \in s.black THEN 1 ELSE 0)
    BY DEF Remaining
  <1>4. ASSUME e \in ToFollow(sup, s)
        PROVE  /\ e \in sup /\ e.newer = s.node
               /\ Cardinality(sup \ (s.followed \union {e})) = Cardinality(open) - 1
    <2>1. e \in sup /\ e.newer = s.node /\ e \in open
      BY <1>4 DEF ToFollow
    <2> HIDE DEF e
    <2>2. sup \ (s.followed \union {e}) = open \ {e}
      OBVIOUS
    <2>3. Cardinality(open \ {e}) = Cardinality(open) - 1
      <3> HIDE DEF open
      <3> QED BY <1>2, <2>1, FS_RemoveElement
    <2> HIDE DEF open
    <2> QED BY <2>1, <2>2, <2>3
  <1>5. Cardinality(claims \ (s.black \union {s.node}))
             = IF s.node \in s.black THEN Cardinality(white) ELSE Cardinality(white) - 1
    <2>1. claims \ (s.black \union {s.node}) = white \ {s.node}
      OBVIOUS
    <2>2. s.node \in white <=> s.node \notin s.black
      BY <1>0
    <2>3. Cardinality(white \ {s.node})
             = IF s.node \in white THEN Cardinality(white) - 1 ELSE Cardinality(white)
      <3> HIDE DEF white
      <3> QED BY <1>2, FS_RemoveElement
    <2> HIDE DEF white, claims
    <2> QED BY <2>1, <2>2, <2>3
  <1>6. CASE /\ e \in ToFollow(sup, s) /\ e.older \in s.black
             /\ t = [node |-> s.node, path |-> s.path, black |-> s.black,
                     followed |-> s.followed \union {e}]
    <2>1. t \in SearchState(sup)
      BY <1>0, <1>4, <1>6 DEF SearchState
    <2>2. Remaining(sup, t) = 3 * (Cardinality(open) - 1) + 2 * Len(s.path) + 3 * Cardinality(white)
                              + (IF s.node \in s.black THEN 1 ELSE 0)
      BY <1>4, <1>6 DEF Remaining
    <2> QED BY <1>2, <1>3, <2>1, <2>2
  <1>7. CASE /\ e \in ToFollow(sup, s) /\ e.older \notin s.black
             /\ t = [node |-> e.older, path |-> Append(s.path, e), black |-> s.black,
                     followed |-> s.followed \union {e}]
    <2>1. t \in SearchState(sup)
      <3>1. Append(s.path, e) \in Seq(sup)
        BY <1>0, <1>4, <1>7
      <3> QED BY <1>0, <1>1, <1>4, <1>7, <3>1 DEF SearchState
    <2>2. Len(Append(s.path, e)) = Len(s.path) + 1
      BY <1>0, <1>4, <1>7
    <2>3. Remaining(sup, t) = 3 * (Cardinality(open) - 1) + 2 * (Len(s.path) + 1) + 3 * Cardinality(white)
      <3>1. t.node = e.older /\ t.path = Append(s.path, e) /\ t.black = s.black
            /\ t.followed = s.followed \union {e}
        BY <1>7
      <3>2. t.node \notin t.black
        BY <1>7, <3>1
      <3> HIDE DEF t, e
      <3>3. Cardinality(sup \ t.followed) = Cardinality(open) - 1
        BY <1>4, <1>7, <3>1
      <3>4. Cardinality(claims \ t.black) = Cardinality(white) /\ Len(t.path) = Len(s.path) + 1
        BY <2>2, <3>1
      <3> HIDE DEF open, white
      <3> QED BY <1>2, <3>2, <3>3, <3>4 DEF Remaining
    <2> QED BY <1>2, <1>3, <2>1, <2>3
  <1>8. CASE /\ ToFollow(sup, s) = {} /\ s.path # <<>>
             /\ t = [node |-> Last(s.path).newer, path |-> Front(s.path),
                     black |-> s.black \union {s.node}, followed |-> s.followed]
    <2> DEFINE n == Len(s.path)
    <2>1. /\ n \in Nat \ {0} /\ Last(s.path) \in sup
          /\ \A i \in 1..n : s.path[i] \in sup
      BY <1>0, <1>8 DEF Last
    <2>2. Front(s.path) \in Seq(sup) /\ Len(Front(s.path)) = n - 1
      <3>1. 1 \in Int /\ n - 1 \in Int /\ \A i \in 1..(n - 1) : s.path[i] \in sup
        BY <2>1
      <3> HIDE DEF n
      <3>2. /\ SubSeq(s.path, 1, n - 1) \in Seq(sup)
            /\ Len(SubSeq(s.path, 1, n - 1)) = IF 1 <= n - 1 THEN n - 1 - 1 + 1 ELSE 0
        BY <3>1, SubSeqProperties
      <3>3. Front(s.path) = SubSeq(s.path, 1, n - 1)
        BY DEF Front, n
      <3> QED BY <2>1, <3>2, <3>3
    <2>3. t \in SearchState(sup)
      BY <1>0, <1>1, <1>8, <2>1, <2>2 DEF SearchState
    <2>4. Remaining(sup, t) = 3 * Cardinality(open) + 2 * (n - 1)
            + 3 * (IF s.node \in s.black THEN Cardinality(white) ELSE Cardinality(white) - 1)
            + (IF Last(s.path).newer \in s.black \union {s.node} THEN 1 ELSE 0)
      <3>1. t.node = Last(s.path).newer /\ t.path = Front(s.path)
            /\ t.black = s.black \union {s.node} /\ t.followed = s.followed
        BY <1>8
      <3> HIDE DEF t
      <3>2. Cardinality(sup \ t.followed) = Cardinality(open) /\ Len(t.path) = n - 1
        BY <2>2, <3>1
      <3>3. Cardinality(claims \ t.black)
              = IF s.node \in s.black THEN Cardinality(white) ELSE Cardinality(white) - 1
        BY <1>5, <3>1
      <3>4. t.node \in t.black <=> Last(s.path).newer \in s.black \union {s.node}
        BY <3>1
      <3> HIDE DEF open, white
      <3> HIDE DEF n
      <3> QED BY <1>2, <2>1, <3>2, <3>3, <3>4 DEF Remaining
    <2>5. Remaining(sup, s) = 3 * Cardinality(open) + 2 * n + 3 * Cardinality(white)
                              + (IF s.node \in s.black THEN 1 ELSE 0)
      BY <1>3
    <2> HIDE DEF t, open, white, n
    <2> QED BY <1>2, <2>1, <2>3, <2>4, <2>5
  <1>9. CASE /\ ToFollow(sup, s) = {} /\ s.path = <<>> /\ r \in Unvisited(sup, s)
             /\ t = [node |-> r.newer, path |-> s.path,
                     black |-> s.black \union {s.node}, followed |-> s.followed]
    <2>1. r \in sup /\ r.newer \notin s.black \union {s.node}
      BY <1>9 DEF Unvisited
    <2>2. t \in SearchState(sup)
      BY <1>0, <1>1, <1>9, <2>1 DEF SearchState
    <2>3. Remaining(sup, t) = 3 * Cardinality(open) + 2 * Len(s.path)
            + 3 * (IF s.node \in s.black THEN Cardinality(white) ELSE Cardinality(white) - 1)
      <3>1. t.node = r.newer /\ t.path = s.path
            /\ t.black = s.black \union {s.node} /\ t.followed = s.followed
        BY <1>9
      <3>2. t.node \notin t.black
        BY <2>1, <3>1
      <3> HIDE DEF t, r
      <3>3. Cardinality(sup \ t.followed) = Cardinality(open) /\ Len(t.path) = Len(s.path)
        BY <3>1
      <3>4. Cardinality(claims \ t.black)
              = IF s.node \in s.black THEN Cardinality(white) ELSE Cardinality(white) - 1
        BY <1>5, <3>1
      <3> HIDE DEF open, white
      <3> QED BY <1>2, <3>2, <3>3, <3>4 DEF Remaining
    <2> QED BY <1>2, <1>3, <2>2, <2>3
  <1> QED BY <1>6, <1>7, <1>8, <1>9, SearchMoves

\* Whoever follows the edges from a claim on the path gets to all that come
\* after it.
LEMMA PathReach ==
  ASSUME NEW sup, NEW s, Searching(sup, s), NEW S,
         \A f \in sup : f.newer \in S => f.older \in S,
         NEW i \in DOMAIN s.path, s.path[i].newer \in S
  PROVE  \A j \in i..Len(s.path) : s.path[j].older \in S
  <1> DEFINE p == s.path
             n == Len(s.path)
             Bad == {j \in i..n : p[j].older \notin S}
  <1>1. /\ n \in Nat /\ DOMAIN p = 1..n /\ \A j \in 1..n : p[j] \in sup
    BY DEF Searching, SearchState
  <1>2. \A j \in 1..n : j # n => p[j].older = p[j + 1].newer
    BY <1>1 DEF Searching
  <1> SUFFICES ASSUME Bad # {} PROVE FALSE
    OBVIOUS
  <1> HIDE DEF p, n
  <1>3. i \in 1..n /\ p[i].newer \in S
    BY <1>1 DEF p
  <1>4. PICK j \in Bad : \A k \in Bad : j <= k
    <2>1. Bad \subseteq Nat
      BY <1>1, <1>3
    <2> QED BY <2>1, NatLeast
  <1>5. CASE j = i
    BY <1>1, <1>3, <1>4, <1>5
  <1>6. CASE j # i
    <2>1. j - 1 \in i..n /\ j - 1 \notin Bad /\ j - 1 # n
      BY <1>1, <1>3, <1>4, <1>6
    <2>2. p[j - 1].older \in S
      BY <2>1
    <2>3. p[j - 1].older = p[j].newer
      BY <1>1, <1>2, <1>3, <2>1
    <2> QED BY <1>1, <1>3, <1>4, <2>2, <2>3
  <1> QED BY <1>5, <1>6

\* The sequence has a first among its edges of lowest confidence.
LEMMA LowestIsOne ==
  ASSUME NEW E, NEW cycle \in Seq(E), cycle # <<>>, \A f \in E : f.conf \in Int
  PROVE  \E i \in DOMAIN cycle : LowestConfidence(cycle) = cycle[i]
  <1> DEFINE T == DOMAIN cycle
             conf == [i \in T |-> cycle[i].conf]
             Under(i, j) == conf[i] < conf[j] \/ (conf[i] = conf[j] /\ i < j)
             L == {q \in T \X T : Under(q[1], q[2])}
  <1>1. /\ Len(cycle) \in Nat \ {0} /\ T = 1..Len(cycle)
        /\ \A i \in T : cycle[i] \in E
    OBVIOUS
  <1>2. conf \in [T -> Int] /\ \A i \in T : conf[i] = cycle[i].conf
    <2>1. \A i \in T : cycle[i].conf \in Int
      BY <1>1
    <2> HIDE DEF T
    <2> QED BY <2>1
  <1> HIDE DEF conf
  <1>3. T # {} /\ IsFiniteSet(T) /\ T \subseteq Int
    <2>1. IsFiniteSet(1..Len(cycle)) /\ 1 \in 1..Len(cycle) /\ 1..Len(cycle) \subseteq Int
      BY <1>1, FS_Interval
    <2> HIDE DEF T
    <2> QED BY <1>1, <2>1
  <1> HIDE DEF T
  <1>4. \A i, j \in T : <<i, j>> \in L <=> Under(i, j)
    <2> HIDE DEF Under
    <2> QED OBVIOUS
  <1> HIDE DEF L
  <1>5. PICK k \in T : \A j \in T \ {k} : <<k, j>> \in L
    <2>1. \A i, j \in T : i = j \/ Under(i, j) \/ Under(j, i)
      BY <1>2, <1>3
    <2>2. \A i, j, l \in T : Under(i, j) /\ Under(j, l) => Under(i, l)
      BY <1>2, <1>3
    <2> HIDE DEF Under
    <2>3. \A i, j \in T : i = j \/ <<i, j>> \in L \/ <<j, i>> \in L
      BY <1>4, <2>1
    <2>4. \A i, j, l \in T : <<i, j>> \in L /\ <<j, l>> \in L => <<i, l>> \in L
      BY <1>4, <2>2
    <2> QED BY <1>3, <2>3, <2>4, FirstExists
  <1>6. \A j \in T : conf[k] <= conf[j]
    <2> SUFFICES ASSUME NEW j \in T, j # k PROVE conf[k] <= conf[j]
      BY <1>2
    <2>1. Under(k, j)
      <3> HIDE DEF Under
      <3> QED BY <1>4, <1>5
    <2> QED BY <1>2, <2>1
  <1>7. \A j \in 1..(k - 1) : conf[j] > conf[k] /\ j \in T
    <2> SUFFICES ASSUME NEW j \in 1..(k - 1) PROVE conf[j] > conf[k] /\ j \in T
      OBVIOUS
    <2>1. j \in T \ {k} /\ j < k
      BY <1>1, <1>3, <1>5
    <2>2. conf[k] \in Int /\ conf[j] \in Int
      BY <1>2, <2>1
    <2>3. k \in Int /\ j \in Int /\ ~(k < j)
      BY <1>3, <2>1
    <2>4. Under(k, j)
      <3> HIDE DEF Under
      <3> QED BY <1>4, <1>5, <2>1
    <2> QED BY <2>1, <2>2, <2>3, <2>4
  <1>8. \A j \in T : cycle[k].conf <= cycle[j].conf
    BY <1>2, <1>6
  <1>9. \A j \in 1..(k - 1) : cycle[j].conf > cycle[k].conf
    BY <1>2, <1>7
  <1> QED BY <1>8, <1>9 DEF LowestConfidence, T

\* What the cycle consists of: the closing edge, and the path from the claim
\* it leads back to.
LEMMA CycleMembers ==
  ASSUME NEW E, NEW p \in Seq(E), NEW e \in E,
         \E i \in DOMAIN p : p[i].newer = e.older
  PROVE  \E from \in DOMAIN p :
           /\ p[from].newer = e.older
           /\ CycleClosedBy(p, e) \in Seq(E) /\ CycleClosedBy(p, e) # <<>>
           /\ \A j \in DOMAIN CycleClosedBy(p, e) :
                \/ CycleClosedBy(p, e)[j] = e
                \/ \E i \in from..Len(p) : CycleClosedBy(p, e)[j] = p[i]
  <1> DEFINE from == CHOOSE i \in DOMAIN p : p[i].newer = e.older
             n == Len(p)
             q == SubSeq(p, from, n)
             m == Len(q)
             back == Reverse(q)
  <1>1. from \in DOMAIN p /\ p[from].newer = e.older
    OBVIOUS
  <1>2. CycleClosedBy(p, e) = <<e>> \o back
    BY DEF CycleClosedBy
  <1> HIDE DEF from
  <1>3. n \in Nat /\ DOMAIN p = 1..n /\ \A i \in 1..n : p[i] \in E
    OBVIOUS
  <1>4. /\ q \in Seq(E) /\ m = n - from + 1
        /\ \A i \in 1..m : q[i] = p[from + i - 1]
    <2>1. from \in Int /\ n \in Int /\ from <= n /\ \A i \in from..n : p[i] \in E
      BY <1>1, <1>3
    <2> HIDE DEF n
    <2>2. /\ SubSeq(p, from, n) \in Seq(E)
          /\ Len(SubSeq(p, from, n)) = IF from <= n THEN n - from + 1 ELSE 0
          /\ \A i \in 1..(n - from + 1) : SubSeq(p, from, n)[i] = p[from + i - 1]
      BY <2>1, SubSeqProperties
    <2> QED BY <2>1, <2>2
  <1> HIDE DEF q, n
  <1>5. m \in Nat
    BY <1>4
  <1>6. back \in Seq(E) /\ Len(back) = m /\ \A i \in 1..m : back[i] = q[(m - i) + 1]
    <2>1. back = [i \in 1..m |-> q[(m - i) + 1]]
      BY DEF Reverse
    <2>2. \A i \in 1..m : q[(m - i) + 1] \in E
      <3> SUFFICES ASSUME NEW i \in 1..m PROVE q[(m - i) + 1] \in E
        OBVIOUS
      <3>1. (m - i) + 1 \in 1..m
        BY <1>5
      <3> HIDE DEF m
      <3> QED BY <1>4, <3>1 DEF m
    <2> HIDE DEF back, m
    <2> QED BY <1>5, <2>1, <2>2
  <1> HIDE DEF back, m
  <1>7. <<e>> \in Seq(E) /\ Len(<<e>>) = 1 /\ <<e>>[1] = e
    OBVIOUS
  <1> DEFINE c == <<e>> \o back
  <1>8. /\ c \in Seq(E) /\ Len(c) = 1 + m
        /\ \A i \in 1..(1 + m) : c[i] = IF i <= 1 THEN <<e>>[i] ELSE back[i - 1]
    <2> DEFINE one == <<e>>
    <2> HIDE DEF one
    <2>1. one \in Seq(E) /\ Len(one) = 1
      BY <1>7 DEF one
    <2>2. /\ one \o back \in Seq(E) /\ Len(one \o back) = Len(one) + Len(back)
          /\ \A i \in 1..(Len(one) + Len(back)) :
               (one \o back)[i] = IF i <= Len(one) THEN one[i] ELSE back[i - Len(one)]
      BY <1>6, <2>1, ConcatProperties
    <2> QED BY <1>6, <2>1, <2>2 DEF one
  <1> HIDE DEF c
  <1>9. c # <<>> /\ DOMAIN c = 1..(1 + m)
    BY <1>5, <1>8
  <1>10. ASSUME NEW j \in 1..(1 + m) PROVE c[j] = e \/ \E i \in from..n : c[j] = p[i]
    <2>1. CASE j = 1
      BY <1>5, <1>7, <1>8, <2>1
    <2>2. CASE j # 1
      <3>1. j - 1 \in 1..m /\ ~(j <= 1)
        BY <1>5, <2>2
      <3>2. c[j] = q[(m - (j - 1)) + 1]
        BY <1>6, <1>8, <3>1
      <3>3. (m - (j - 1)) + 1 \in 1..m
        BY <1>5, <3>1
      <3>4. c[j] = p[from + ((m - (j - 1)) + 1) - 1]
        BY <1>4, <3>2, <3>3
      <3>5. from + ((m - (j - 1)) + 1) - 1 \in from..n
        BY <1>1, <1>3, <1>4, <3>3
      <3> QED BY <3>4, <3>5
    <2> QED BY <2>1, <2>2
  <1>11. c = CycleClosedBy(p, e)
    BY <1>2 DEF c
  <1> QED BY <1>1, <1>8, <1>9, <1>10, <1>11 DEF n

\* f lies on a cycle of sup: what it displaces leads back to it.
OnCycle(f, sup) == f.newer \in ChainFrom(f.older, sup)

\* A closing edge and the path it closes are a cycle, and the lowest edge of
\* it lies on a cycle.
LEMMA FoundOnCycle ==
  ASSUME NEW sup, EdgeSet(sup), NEW s, Searching(sup, s), ClosesCycle(sup, s)
  PROVE  LET x == LowestConfidence(CycleClosedBy(s.path, FirstEdge(ToFollow(sup, s))))
         IN  x \in sup /\ OnCycle(x, sup) /\ HasCycle(sup)
  <1> DEFINE e == FirstEdge(ToFollow(sup, s))
             p == s.path
             n == Len(p)
             cycle == CycleClosedBy(p, e)
             x == LowestConfidence(cycle)
  <1>1. e \in sup /\ e.newer = s.node /\ e.newer # e.older
    <2>1. ToFollow(sup, s) \subseteq sup /\ ToFollow(sup, s) # {}
      BY DEF ClosesCycle, ToFollow
    <2>2. EdgeSet(ToFollow(sup, s))
      BY <2>1, EdgeSubset
    <2>3. e \in ToFollow(sup, s)
      BY <2>1, <2>2, FirstEdgeIsIn
    <2> QED BY <2>1, <2>3 DEF ToFollow, EdgeSet
  <1>2. \E i \in DOMAIN p : p[i].newer = e.older
    <2>1. e.older \in OnPath(s.node, s.path)
      BY DEF ClosesCycle
    <2> HIDE DEF e
    <2> QED BY <1>1, <2>1 DEF OnPath
  <1>3. p \in Seq(sup)
    BY DEF Searching, SearchState
  <1>4. /\ n \in Nat /\ DOMAIN p = 1..n /\ \A i \in 1..n : p[i] \in sup
    BY <1>3
  <1>5. /\ \A i \in 1..n : p[i].older = IF i = n THEN s.node ELSE p[i + 1].newer
    BY <1>4 DEF Searching
  <1> HIDE DEF e
  <1>6. PICK from \in DOMAIN p :
           /\ p[from].newer = e.older
           /\ cycle \in Seq(sup) /\ cycle # <<>>
           /\ \A j \in DOMAIN cycle : cycle[j] = e \/ \E i \in from..n : cycle[j] = p[i]
    <2> HIDE DEF p
    <2> QED BY <1>1, <1>2, <1>3, CycleMembers
  <1> HIDE DEF cycle
  <1>7. x = e \/ \E i \in from..n : x = p[i]
    <2>1. \A f \in sup : f.conf \in Int
      BY DEF EdgeSet
    <2>2. \E i \in DOMAIN cycle : x = cycle[i]
      BY <1>6, <2>1, LowestIsOne
    <2> QED BY <1>6, <2>2
  <1> HIDE DEF x
  <1>8. from \in 1..n /\ from..n \subseteq 1..n
    BY <1>4, <1>6
  <1>9. x \in sup
    BY <1>1, <1>4, <1>7, <1>8
  \* Every set that the edges do not lead out of holds the whole cycle, if it
  \* holds the claim that x displaces.
  <1>10. ASSUME NEW S, \A f \in sup : f.newer \in S => f.older \in S, x.older \in S
         PROVE  x.newer \in S
    <2>1. ASSUME e.older \in S PROVE \A j \in from..n : p[j].older \in S
      BY <1>6, <1>10, <2>1, PathReach
    <2>2. p[n].older = s.node /\ n \in from..n
      BY <1>4, <1>5, <1>8
    <2>3. CASE x = e
      BY <1>1, <1>10, <2>1, <2>2, <2>3
    <2>4. ASSUME NEW k \in from..n, x = p[k] PROVE x.newer \in S
      <3>1. p[n].older \in S
        <4>1. CASE k = n
          BY <1>10, <2>4, <4>1
        <4>2. CASE k # n
          <5>1. k + 1 \in DOMAIN p /\ p[k].older = p[k + 1].newer /\ n \in (k + 1)..n
            BY <1>4, <1>5, <1>8, <2>4, <4>2
          <5>2. \A j \in (k + 1)..Len(s.path) : s.path[j].older \in S
            BY <1>10, <2>4, <5>1, PathReach
          <5> QED BY <5>1, <5>2
        <4> QED BY <4>1, <4>2
      <3>2. e.older \in S
        BY <1>1, <1>10, <2>2, <3>1
      <3>3. CASE k = from
        BY <1>6, <2>4, <3>2, <3>3
      <3>4. CASE k # from
        <4>1. k - 1 \in from..n /\ k - 1 # n /\ k - 1 \in 1..n /\ k - 1 + 1 = k
          BY <1>4, <1>8, <2>4, <3>4
        <4>2. p[k - 1].older = p[k].newer
          BY <1>5, <4>1
        <4> QED BY <2>1, <2>4, <3>2, <4>1, <4>2
      <3> QED BY <3>3, <3>4
    <2> QED BY <1>7, <2>3, <2>4
  <1>11. x.newer \in {x.older} \union Olders(sup)
    <2>1. CASE x = e
      <3>1. n \in 1..n /\ p[n].older = s.node /\ p[n] \in sup
        BY <1>4, <1>5, <1>8
      <3> QED BY <1>1, <2>1, <3>1 DEF Olders
    <2>2. ASSUME NEW k \in from..n, x = p[k] PROVE x.newer \in Olders(sup)
      <3>1. CASE k = from
        BY <1>1, <1>6, <2>2, <3>1 DEF Olders
      <3>2. CASE k # from
        <4>1. k - 1 \in 1..n /\ k - 1 # n /\ k - 1 + 1 = k
          BY <1>4, <1>8, <2>2, <3>2
        <4>2. p[k - 1].older = p[k].newer /\ p[k - 1] \in sup
          BY <1>4, <1>5, <4>1
        <4> QED BY <2>2, <4>2 DEF Olders
      <3> QED BY <3>1, <3>2
    <2> QED BY <1>7, <2>1, <2>2
  <1>12. OnCycle(x, sup)
    <2> DEFINE pairs == {<<f.newer, f.older>> : f \in sup}
               U == {x.older} \union Olders(sup)
    <2>1. ASSUME NEW S \in SUBSET U, x.older \in S,
                 \A pr \in pairs : pr[1] \in S /\ pr[2] \in U => pr[2] \in S
          PROVE  x.newer \in S
      <3>1. ASSUME NEW f \in sup, f.newer \in S PROVE f.older \in S
        <4>1. <<f.newer, f.older>> \in pairs /\ f.older \in U
          BY DEF Olders
        <4> HIDE DEF pairs, U
        <4> QED BY <2>1, <3>1, <4>1
      <3> QED BY <1>10, <2>1, <3>1
    <2> HIDE DEF pairs
    <2>2. x.newer \in ReachableFrom(x.older, pairs, U)
      BY <1>11, <2>1 DEF ReachableFrom
    <2> QED BY <2>2 DEF OnCycle, ChainFrom, pairs
  <1>13. HasCycle(sup)
    <2> DEFINE S == {p[i].newer : i \in from..n} \union {s.node}
    <2>1. S \subseteq Newers(sup)
      BY <1>1, <1>4, <1>8 DEF Newers
    <2>2. ASSUME NEW i \in from..n PROVE \E f \in sup : f.newer = p[i].newer /\ f.older \in S
      <3>1. p[i] \in sup
        BY <1>4, <1>8
      <3>2. p[i].older \in S
        <4>1. CASE i = n
          BY <1>4, <1>5, <1>8, <4>1
        <4>2. CASE i # n
          <5>1. i + 1 \in from..n /\ p[i].older = p[i + 1].newer
            BY <1>4, <1>5, <1>8, <4>2
          <5> QED BY <5>1
        <4> QED BY <4>1, <4>2
      <3> QED BY <3>1, <3>2
    <2>3. \E f \in sup : f.newer = s.node /\ f.older \in S
      <3>1. from \in from..n
        BY <1>4, <1>8
      <3> QED BY <1>1, <1>6, <3>1
    <2>4. \A m \in S : \E f \in sup : f.newer = m /\ f.older \in S
      BY <2>2, <2>3
    <2> HIDE DEF S
    <2>5. S # {}
      BY DEF S
    <2> QED BY <2>1, <2>4, <2>5 DEF HasCycle
  <1> QED BY <1>9, <1>12, <1>13 DEF x, cycle, e

\* A function that satisfies its own equation is what CHOOSE finds, so the
\* search of cycleEdgeToDrop does.
LEMMA SearchIsTotal ==
  ASSUME NEW sup, EdgeSet(sup)
  PROVE  \E f : f = [s \in SearchState(sup) |->
                       IF ClosesCycle(sup, s)
                       THEN LowestConfidence(CycleClosedBy(s.path, FirstEdge(ToFollow(sup, s))))
                       ELSE IF SearchOver(sup, s) THEN NoEdge
                       ELSE f[SearchStep(sup, s)]]
  <1> DEFINE D == SearchState(sup)
             stop == {s \in D : ClosesCycle(sup, s) \/ SearchOver(sup, s)}
             Found(s) == LowestConfidence(CycleClosedBy(s.path, FirstEdge(ToFollow(sup, s))))
             res == [s \in D |-> IF ClosesCycle(sup, s) THEN Found(s) ELSE NoEdge]
             step == [s \in D |-> SearchStep(sup, s)]
             measure == [s \in D |-> Remaining(sup, s)]
  <1>1. measure \in [D -> Nat]
    BY RemainingIsNat
  <1>2. \A s \in D \ stop : step[s] \in D /\ measure[step[s]] < measure[s]
    BY SearchNearsItsEnd
  <1>3. PICK f : f = [s \in D |-> IF s \in stop THEN res[s] ELSE f[step[s]]]
    <2>1. Falls(D, stop, step, measure)
      BY <1>1, <1>2 DEF Falls
    <2> HIDE DEF D, stop, res, step, measure
    <2>2. PICK f : Computes(f, D, stop, step, res)
      BY <2>1, TailRecursion
    <2> QED BY <2>2 DEF Computes
  <1>4. ASSUME NEW s \in D
        PROVE  (IF s \in stop THEN res[s] ELSE f[step[s]])
                 = IF ClosesCycle(sup, s) THEN Found(s)
                   ELSE IF SearchOver(sup, s) THEN NoEdge ELSE f[SearchStep(sup, s)]
    <2> HIDE DEF Found
    <2> QED OBVIOUS
  <1>5. f = [s \in D |-> IF ClosesCycle(sup, s) THEN Found(s)
                         ELSE IF SearchOver(sup, s) THEN NoEdge ELSE f[SearchStep(sup, s)]]
    <2> DEFINE A(s) == IF s \in stop THEN res[s] ELSE f[step[s]]
               B(s) == IF ClosesCycle(sup, s) THEN Found(s)
                       ELSE IF SearchOver(sup, s) THEN NoEdge ELSE f[SearchStep(sup, s)]
    <2>1. f = [s \in D |-> A(s)] /\ \A s \in D : A(s) = B(s)
      BY <1>3, <1>4
    <2> HIDE DEF A, B, D
    <2>2. f = [s \in D |-> B(s)]
      BY <2>1
    <2> QED BY <2>2 DEF B
  <1> QED BY <1>5

\* The search starts knowing nothing.
LEMMA SearchStarts ==
  ASSUME NEW sup, EdgeSet(sup), sup # {}
  PROVE  Searching(sup, [node |-> FirstEdge(sup).newer, path |-> <<>>, black |-> {}, followed |-> {}])
  <1>1. FirstEdge(sup) \in sup
    BY FirstEdgeIsIn
  <1>2. FirstEdge(sup).newer \in Newers(sup)
    BY <1>1 DEF Newers
  <1> DEFINE s == [node |-> FirstEdge(sup).newer, path |-> <<>>, black |-> {}, followed |-> {}]
  <1> SUFFICES Searching(sup, s)
    OBVIOUS
  <1>3. s \in SearchState(sup)
    BY <1>2 DEF SearchState
  <1>4. s.node = FirstEdge(sup).newer /\ s.path = <<>> /\ s.black = {} /\ s.followed = {} /\ DOMAIN s.path = {}
    OBVIOUS
  <1>5. Uncircled({}, sup)
    BY DEF Uncircled
  <1> HIDE DEF s
  <1> QED BY <1>3, <1>4, <1>5 DEF Searching

\* cycleEdgeToDrop, on any edges: null exactly when they have no cycle, and
\* otherwise one of them, on a cycle.
THEOREM CycleEdgeIsExact ==
  ASSUME NEW sup, EdgeSet(sup)
  PROVE  \/ CycleEdgeToDrop(sup) = NoEdge /\ ~HasCycle(sup)
         \/ /\ CycleEdgeToDrop(sup) \in sup /\ CycleEdgeToDrop(sup) # NoEdge
            /\ OnCycle(CycleEdgeToDrop(sup), sup) /\ HasCycle(sup)
  <1> DEFINE D == SearchState(sup)
             Found(s) == LowestConfidence(CycleClosedBy(s.path, FirstEdge(ToFollow(sup, s))))
             search == CHOOSE f : f = [s \in D |->
                         IF ClosesCycle(sup, s) THEN Found(s)
                         ELSE IF SearchOver(sup, s) THEN NoEdge
                         ELSE f[SearchStep(sup, s)]]
             start == [node |-> FirstEdge(sup).newer, path |-> <<>>, black |-> {}, followed |-> {}]
             Good == {s \in D : Searching(sup, s)}
             Answers == IF HasCycle(sup) THEN {e \in sup : OnCycle(e, sup)} ELSE {NoEdge}
  <1>1. CycleEdgeToDrop(sup) = IF sup = {} THEN NoEdge ELSE search[start]
    BY DEF CycleEdgeToDrop
  <1>2. search = [s \in D |-> IF ClosesCycle(sup, s) THEN Found(s)
                              ELSE IF SearchOver(sup, s) THEN NoEdge
                              ELSE search[SearchStep(sup, s)]]
    BY SearchIsTotal
  <1> HIDE DEF search
  <1>3. \A s \in Good : search[s] \in Answers
    <2> DEFINE stop == {s \in D : ClosesCycle(sup, s) \/ SearchOver(sup, s)}
               res == [s \in D |-> IF ClosesCycle(sup, s) THEN Found(s) ELSE NoEdge]
               step == [s \in D |-> SearchStep(sup, s)]
               measure == [s \in D |-> Remaining(sup, s)]
    <2>1. measure \in [D -> Nat]
      BY RemainingIsNat
    <2>2. \A s \in D \ stop : step[s] \in D /\ measure[step[s]] < measure[s]
      BY SearchNearsItsEnd
    <2>3. \A s \in Good \intersect stop : res[s] \in Answers
      <3> SUFFICES ASSUME NEW s \in Good, s \in stop PROVE res[s] \in Answers
        OBVIOUS
      <3>1. CASE ClosesCycle(sup, s)
        <4>1. res[s] = Found(s)
          BY <3>1
        <4>2. Found(s) \in sup /\ OnCycle(Found(s), sup) /\ HasCycle(sup)
          BY <3>1, FoundOnCycle
        <4> HIDE DEF Found, res
        <4> QED BY <4>1, <4>2
      <3>2. CASE ~ClosesCycle(sup, s)
        <4>1. res[s] = NoEdge /\ SearchOver(sup, s)
          BY <3>2
        <4>2. ~HasCycle(sup)
          BY <4>1, SearchedAll
        <4> QED BY <4>1, <4>2
      <3> QED BY <3>1, <3>2
    <2>4. \A s \in Good \ stop : step[s] \in Good
      <3> SUFFICES ASSUME NEW s \in Good \ stop PROVE step[s] \in Good
        OBVIOUS
      <3>1. Searching(sup, SearchStep(sup, s)) /\ step[s] = SearchStep(sup, s)
        BY SearchGoesOn
      <3>2. SearchStep(sup, s) \in D
        BY <3>1 DEF Searching
      <3> QED BY <3>1, <3>2
    <2>5. search = [s \in D |-> IF s \in stop THEN res[s] ELSE search[step[s]]]
      <3> DEFINE A(s) == IF s \in stop THEN res[s] ELSE search[step[s]]
                 B(s) == IF ClosesCycle(sup, s) THEN Found(s)
                         ELSE IF SearchOver(sup, s) THEN NoEdge ELSE search[SearchStep(sup, s)]
      <3>1. search = [s \in D |-> B(s)]
        BY <1>2
      <3>2. \A s \in D : A(s) = B(s)
        <4> HIDE DEF Found
        <4> QED OBVIOUS
      <3> HIDE DEF A, B, D
      <3>3. search = [s \in D |-> A(s)]
        BY <3>1, <3>2
      <3> QED BY <3>3 DEF A
    <2>6. Good \in SUBSET D
      OBVIOUS
    <2>7. Falls(D, stop, step, measure) /\ Computes(search, D, stop, step, res)
      <3> HIDE DEF D, stop, res, step, measure
      <3> QED BY <2>1, <2>2, <2>5 DEF Falls, Computes
    <2>8. Leads(Good, Answers, D, stop, step, res)
      <3> HIDE DEF D, stop, res, step, measure, Good, Answers
      <3> QED BY <2>3, <2>4, <2>6 DEF Leads
    <2> HIDE DEF D, stop, res, step, measure, Good, Answers
    <2> QED BY <2>7, <2>8, TailRecursionAnswers
  <1>4. NoEdge \notin sup
    BY DEF EdgeSet, NoEdge, Relation
  <1>5. CASE sup = {}
    BY <1>1, <1>5 DEF HasCycle, Newers
  <1>6. CASE sup # {}
    <2>1. start \in Good
      <3>1. Searching(sup, start)
        BY <1>6, SearchStarts
      <3> HIDE DEF start
      <3> QED BY <3>1 DEF Searching
    <2> HIDE DEF start, Good
    <2> QED BY <1>1, <1>3, <1>4, <1>6, <2>1
  <1> QED BY <1>5, <1>6

\* The loop of resolveFunctional only drops edges, drops none when there is no
\* cycle, and drops some when there is one: cycle_broken says no more and no
\* less.
THEOREM CycleBrokenIsExact ==
  ASSUME NEW sup, EdgeSet(sup)
  PROVE  BreakCycles(sup) \subseteq sup /\ (BreakCycles(sup) = sup <=> ~HasCycle(sup))
  <1> DEFINE D == SUBSET sup
             More(left) == /\ Cardinality(sup \ left) < Cardinality(left) + 1
                           /\ CycleEdgeToDrop(left) # NoEdge
             shed == CHOOSE f : f = [left \in D |->
                       IF More(left) THEN f[left \ {CycleEdgeToDrop(left)}] ELSE left]
             stop == {left \in D : ~More(left)}
             res == [left \in D |-> left]
             step == [left \in D |-> left \ {CycleEdgeToDrop(left)}]
             measure == [left \in D |-> Cardinality(left)]
  <1>1. BreakCycles(sup) = shed[sup]
    BY DEF BreakCycles
  <1>2. \A left \in D : EdgeSet(left) /\ IsFiniteSet(left) /\ Cardinality(left) \in Nat
    BY EdgeSubset, FS_CardinalityType DEF EdgeSet
  <1>3. \A left \in D : CycleEdgeToDrop(left) # NoEdge =>
                          CycleEdgeToDrop(left) \in left /\ HasCycle(left)
    BY <1>2, CycleEdgeIsExact
  <1>4. Falls(D, stop, step, measure)
    <2>1. measure \in [D -> Nat]
      BY <1>2
    <2>2. ASSUME NEW left \in D \ stop
          PROVE  step[left] \in D /\ measure[step[left]] < measure[left]
      <3>1. CycleEdgeToDrop(left) \in left
        BY <1>3
      <3>2. step[left] = left \ {CycleEdgeToDrop(left)} /\ step[left] \in D
        OBVIOUS
      <3>3. Cardinality(left \ {CycleEdgeToDrop(left)}) = Cardinality(left) - 1
        BY <1>2, <3>1, FS_RemoveElement
      <3>4. measure[left] = Cardinality(left) /\ measure[step[left]] = Cardinality(step[left])
        BY <3>2
      <3> HIDE DEF measure, step
      <3> QED BY <1>2, <3>2, <3>3, <3>4
    <2> HIDE DEF D, stop, step, measure
    <2> QED BY <2>1, <2>2 DEF Falls
  <1>5. Computes(shed, D, stop, step, res)
    <2>1. PICK f : Computes(f, D, stop, step, res)
      <3> HIDE DEF D, stop, step, res, measure
      <3> QED BY <1>4, TailRecursion
    <2> DEFINE B(f_1, left) == IF More(left) THEN f_1[left \ {CycleEdgeToDrop(left)}] ELSE left
               A(f_1, left) == IF left \in stop THEN res[left] ELSE f_1[step[left]]
    <2>2. \A f_1 : \A left \in D : A(f_1, left) = B(f_1, left)
      <3> HIDE DEF More
      <3> QED OBVIOUS
    <2>3. \A f_1 : Computes(f_1, D, stop, step, res) <=> f_1 = [left \in D |-> A(f_1, left)]
      BY DEF Computes
    <2>4. \A f_1 : [left \in D |-> A(f_1, left)] = [left \in D |-> B(f_1, left)]
      <3> HIDE DEF A, B, D
      <3> QED BY <2>2
    <2>5. \A f_1 : Computes(f_1, D, stop, step, res) <=> f_1 = [left \in D |-> B(f_1, left)]
      <3> HIDE DEF A, B, D, stop, step, res
      <3> QED BY <2>3, <2>4
    <2>6. shed = CHOOSE f_1 : f_1 = [left \in D |-> B(f_1, left)]
      OBVIOUS
    <2> HIDE DEF shed, A, B, D, stop, step, res
    <2> QED BY <2>1, <2>5, <2>6
  <1> HIDE DEF shed
  <1>6. ASSUME NEW T \in D PROVE shed[T] \subseteq T
    <2>1. Leads(SUBSET T, SUBSET T, D, stop, step, res)
      BY DEF Leads
    <2> HIDE DEF D, stop, step, res, measure
    <2>2. \A s \in SUBSET T : shed[s] \in SUBSET T
      BY <1>4, <1>5, <2>1, TailRecursionAnswers
    <2> QED BY <2>2
  <1>7. shed[sup] = IF sup \in stop THEN sup ELSE shed[sup \ {CycleEdgeToDrop(sup)}]
    BY <1>5 DEF Computes
  <1>8. CASE ~HasCycle(sup)
    <2>1. sup \in stop
      BY <1>8, CycleEdgeIsExact
    <2> QED BY <1>1, <1>7, <1>8, <2>1
  <1>9. CASE HasCycle(sup)
    <2> DEFINE e == CycleEdgeToDrop(sup)
    <2>1. e # NoEdge /\ e \in sup
      BY <1>9, CycleEdgeIsExact
    <2>2. Cardinality(sup \ sup) = 0 /\ Cardinality(sup) \in Nat
      BY <1>2, FS_EmptySet
    <2>3. sup \notin stop
      BY <2>1, <2>2
    <2> HIDE DEF e
    <2>4. shed[sup \ {e}] \subseteq sup \ {e}
      BY <1>6
    <2> HIDE DEF stop
    <2>5. shed[sup] = shed[sup \ {e}]
      BY <1>7, <2>3 DEF e
    <2> QED BY <1>1, <1>9, <2>1, <2>4, <2>5
  <1> QED BY <1>8, <1>9

----------------------------------------------------------------------------
(* The belief *)

\* What a read of one attribute returns: finitely many claims with numbers for
\* ids and fields, and revisions that are an edge set.
Readable(C, R, E) ==
  /\ IsFiniteSet(C) /\ Comparable(C, R)
  /\ EdgeSet(EdgesOf(E, "SUPERSEDES"))

\* The head that resolveFunctional computes is the newest candidate, its heads
\* are that claim and undisplaced peers of it.
LEMMA FunctionalHead ==
  ASSUME NEW C, NEW R, NEW E, Readable(C, R, E), C # {}
  PROVE  LET sup == BreakCycles(EdgesOf(E, "SUPERSEDES"))
             b == ResolveFunctional(C, R, E)
         IN  /\ b.first \in Candidates(C, E, sup) /\ Candidates(C, E, sup) \subseteq C
             /\ \A d \in Candidates(C, E, sup) \ {b.first} : NewerThan(R, b.first, d)
             /\ b.first \in b.heads /\ b.heads \subseteq Undisplaced(C, E, sup) \union {b.first}
             /\ b.superseded = C \ (b.heads \union Newers(EdgesOf(E, "SUPPORTS")))
  <1> DEFINE sup == BreakCycles(EdgesOf(E, "SUPERSEDES"))
             b == ResolveFunctional(C, R, E)
             h == Newest(Candidates(C, E, sup), R)
             cluster == DisputeCluster(C, R, E, sup, h)
  <1>1. b.first = h /\ b.heads = cluster /\ b.superseded = Superseded(C, E, cluster)
    BY DEF ResolveFunctional, BeliefLedBy
  <1> HIDE DEF sup
  <1>2. Candidates(C, E, sup) \subseteq C /\ Candidates(C, E, sup) # {}
    BY DEF Candidates, Undisplaced
  <1>3. IsFiniteSet(Candidates(C, E, sup)) /\ Comparable(Candidates(C, E, sup), R)
    BY <1>2, FS_Subset DEF Readable, Comparable
  <1>4. h \in Candidates(C, E, sup) /\ \A d \in Candidates(C, E, sup) \ {h} : NewerThan(R, h, d)
    BY <1>2, <1>3, NewestIsFirst
  <1> HIDE DEF h
  <1>5. h \in cluster /\ cluster \subseteq Undisplaced(C, E, sup) \union {h}
    BY DEF DisputeCluster, ReachableFrom
  <1>6. Superseded(C, E, cluster) = C \ (cluster \union Newers(EdgesOf(E, "SUPPORTS")))
    BY DEF Superseded
  <1> HIDE DEF b, cluster
  <1> QED BY <1>1, <1>2, <1>4, <1>5, <1>6 DEF sup, b

\* Claims that each have one of them displacing them make a circle.
LEMMA AllDisplacedCircle ==
  ASSUME NEW sup, NEW C, IsFiniteSet(C), C # {},
         \A c \in C : \E e \in sup : e.older = c /\ e.newer \in C
  PROVE  HasCycle(sup)
  <1> DEFINE Closed == {T \in SUBSET C : T # {} /\ \A c \in T : \E e \in sup : e.older = c /\ e.newer \in T}
             Sizes == {Cardinality(T) : T \in Closed}
  <1>1. \A T \in Closed : IsFiniteSet(T) /\ Cardinality(T) \in Nat
    BY FS_Subset, FS_CardinalityType
  <1>2. C \in Closed
    OBVIOUS
  <1>3. PICK T \in Closed : \A U \in Closed : Cardinality(T) <= Cardinality(U)
    <2> HIDE DEF Closed
    <2>1. Sizes \subseteq Nat /\ Sizes # {}
      BY <1>1, <1>2
    <2>2. \A T \in Closed : Cardinality(T) \in Sizes
      OBVIOUS
    <2>3. \A k \in Sizes : \E T \in Closed : k = Cardinality(T)
      OBVIOUS
    <2> HIDE DEF Sizes
    <2>4. PICK k \in Sizes : \A m \in Sizes : k <= m
      BY <2>1, NatLeast
    <2> QED BY <2>2, <2>3, <2>4
  <1>4. ASSUME NEW t \in T, \A e \in sup : e.newer = t => e.older \notin T
        PROVE  FALSE
    <2> DEFINE U == T \ {t}
    <2>1. \A c \in U : \E e \in sup : e.older = c /\ e.newer \in U
      BY <1>4
    <2>2. U # {}
      <3>1. PICK e \in sup : e.older = t /\ e.newer \in T
        OBVIOUS
      <3>2. e.newer # t
        BY <1>4, <3>1
      <3> QED BY <3>1, <3>2
    <2>3. U \in Closed
      BY <2>1, <2>2
    <2>4. Cardinality(U) = Cardinality(T) - 1 /\ Cardinality(T) \in Nat
      BY <1>1, <1>4, FS_RemoveElement
    <2>5. Cardinality(T) <= Cardinality(U)
      BY <1>3, <2>3
    <2> HIDE DEF U
    <2> QED BY <2>4, <2>5
  <1>5. \A t \in T : \E e \in sup : e.newer = t /\ e.older \in T
    BY <1>4
  <1>6. T \subseteq Newers(sup) /\ T # {}
    BY <1>5 DEF Newers
  <1> QED BY <1>5, <1>6 DEF HasCycle

\* A part of an acyclic set of revisions is one.
LEMMA PartHasNoCycle ==
  ASSUME NEW E, NEW F, F \subseteq E, ~HasCycle(E)
  PROVE  ~HasCycle(F)
  BY DEF HasCycle, Newers

\* An edge out of a claim that no other edge mentions closes no circle.
LEMMA NewLeafNoCycle ==
  ASSUME NEW E, ~HasCycle(E), NEW e, \A f \in E : e.newer \notin {f.newer, f.older},
         e.newer # e.older
  PROVE  ~HasCycle(E \union {e})
  <1> SUFFICES ASSUME NEW S \in SUBSET Newers(E \union {e}), S # {},
                      \A n \in S : \E f \in E \union {e} : f.newer = n /\ f.older \in S
               PROVE  FALSE
    BY DEF HasCycle
  <1> DEFINE T == S \ {e.newer}
  <1>1. \A n \in T : \E f \in E : f.newer = n /\ f.older \in T
    OBVIOUS
  <1>2. T \in SUBSET Newers(E)
    BY <1>1 DEF Newers
  <1>3. T # {}
    <2>1. CASE e.newer \in S
      <3>1. PICK f \in E \union {e} : f.newer = e.newer /\ f.older \in S
        BY <2>1
      <3> QED BY <3>1
    <2>2. CASE e.newer \notin S
      BY <2>2
    <2> QED BY <2>1, <2>2
  <1> QED BY <1>1, <1>2, <1>3 DEF HasCycle

\* Every claim is found again in the belief of a single-valued attribute, in
\* one group only; for a set-valued one the affirmative claims are.
THEOREM BeliefForgetsNothing ==
  ASSUME NEW C, NEW R, NEW E, Readable(C, R, E)
  PROVE  LET single == ResolveBelief("FUNCTIONAL", C, R, E)
             members == ResolveBelief("MULTI", C, R, E)
             supporters == Newers(EdgesOf(E, "SUPPORTS"))
         IN  /\ C = single.heads \union single.superseded \union (C \intersect supporters)
             /\ single.heads \intersect single.superseded = {}
             /\ C \ members.negations \subseteq members.heads \union members.superseded \union supporters
             /\ members.heads \intersect members.superseded = {}
  <1> DEFINE single == ResolveBelief("FUNCTIONAL", C, R, E)
             members == ResolveBelief("MULTI", C, R, E)
             supporters == Newers(EdgesOf(E, "SUPPORTS"))
  <1>1. CASE C = {}
    <2>1. single = EmptyBelief /\ members = EmptyBelief
      BY <1>1 DEF ResolveBelief
    <2>2. EmptyBelief.heads = {} /\ EmptyBelief.superseded = {}
      BY DEF EmptyBelief
    <2> HIDE DEF single, members
    <2> QED BY <1>1, <2>1, <2>2 DEF single, members
  <1>2. CASE C # {}
    <2>1. single = ResolveFunctional(C, R, E) /\ members = ResolveMulti(C, R, E)
      BY <1>2 DEF ResolveBelief
    <2>2. /\ single.heads \subseteq C
          /\ single.superseded = C \ (single.heads \union supporters)
      <3> DEFINE sup == BreakCycles(EdgesOf(E, "SUPERSEDES"))
      <3>1. /\ single.first \in Candidates(C, E, sup) /\ Candidates(C, E, sup) \subseteq C
            /\ single.heads \subseteq Undisplaced(C, E, sup) \union {single.first}
            /\ single.superseded = C \ (single.heads \union supporters)
        BY <1>2, <2>1, FunctionalHead
      <3> HIDE DEF single, sup
      <3> QED BY <3>1 DEF Undisplaced
    <2>3. /\ members.heads = Undisplaced(C, E, EdgesOf(E, "SUPERSEDES")) \ Negations(C, R)
          /\ members.superseded = C \intersect Olders(EdgesOf(E, "SUPERSEDES"))
          /\ members.negations = Negations(C, R)
      BY <2>1 DEF ResolveMulti, EmptyBelief
    <2> HIDE DEF single, members
    <2>4. /\ C \ members.negations \subseteq members.heads \union members.superseded \union supporters
          /\ members.heads \intersect members.superseded = {}
      BY <2>3 DEF Undisplaced
    <2> QED BY <2>2, <2>4 DEF single, members
  <1> QED BY <1>1, <1>2

\* As long as revisions do not run in a circle, what is believed is a claim
\* nobody displaced, and so is every disputed peer of it.
THEOREM UndisplacedLead ==
  ASSUME NEW C, NEW R, NEW E, Readable(C, R, E), C # {},
         EdgesOf(E, "SUPPORTS") = {}, ~HasCycle(EdgesOf(E, "SUPERSEDES")),
         \A e \in EdgesOf(E, "SUPERSEDES") : e.older \in C => e.newer \in C
  PROVE  LET b == ResolveFunctional(C, R, E)
         IN  b.heads # {} /\ b.heads \intersect Olders(EdgesOf(E, "SUPERSEDES")) = {}
  <1> DEFINE sup == EdgesOf(E, "SUPERSEDES")
             b == ResolveFunctional(C, R, E)
  <1>1. BreakCycles(sup) = sup
    BY CycleBrokenIsExact DEF Readable
  <1>2. Undisplaced(C, E, sup) = C \ Olders(sup)
    BY DEF Undisplaced, Newers
  <1>3. Undisplaced(C, E, sup) # {}
    <2> SUFFICES ASSUME C \subseteq Olders(sup) PROVE FALSE
      BY <1>2
    <2>1. \A c \in C : \E e \in sup : e.older = c /\ e.newer \in C
      BY DEF Olders
    <2> HIDE DEF sup
    <2>2. HasCycle(sup)
      BY <2>1, AllDisplacedCircle DEF Readable
    <2> QED BY <2>2 DEF sup
  <1>4. /\ b.first \in Candidates(C, E, sup)
        /\ b.first \in b.heads /\ b.heads \subseteq Undisplaced(C, E, sup) \union {b.first}
    BY <1>1, FunctionalHead
  <1>5. Candidates(C, E, sup) = Undisplaced(C, E, sup)
    BY <1>3 DEF Candidates
  <1> HIDE DEF b, sup
  <1>6. b.heads # {} /\ b.heads \subseteq C \ Olders(sup)
    BY <1>2, <1>4, <1>5
  <1> QED BY <1>6 DEF b, sup

\* A claim of a later event than all the others that nobody displaces, and
\* that merely supports no other, is believed first, whatever the revisions
\* among the others are.
THEOREM LatestLeads ==
  ASSUME NEW C, NEW R, NEW E, Readable(C, R, E), NEW c \in C,
         \A d \in C \ {c} : R[d].event < R[c].event,
         c \notin Olders(EdgesOf(E, "SUPERSEDES")), c \notin Newers(EdgesOf(E, "SUPPORTS"))
  PROVE  ResolveFunctional(C, R, E).first = c
  <1> DEFINE sup == BreakCycles(EdgesOf(E, "SUPERSEDES"))
             h == ResolveFunctional(C, R, E).first
  <1>1. sup \subseteq EdgesOf(E, "SUPERSEDES")
    BY CycleBrokenIsExact DEF Readable
  <1>2. c \in Undisplaced(C, E, sup)
    BY <1>1 DEF Undisplaced, Olders
  <1>3. c \in Candidates(C, E, sup)
    BY <1>2 DEF Candidates
  <1>4. /\ h \in Candidates(C, E, sup) /\ Candidates(C, E, sup) \subseteq C
        /\ \A d \in Candidates(C, E, sup) \ {h} : NewerThan(R, h, d)
    BY FunctionalHead
  <1> HIDE DEF h, sup
  <1>5. SUFFICES ASSUME h # c PROVE FALSE
    BY DEF h
  <1>6. NewerThan(R, h, c) /\ h \in C
    BY <1>3, <1>4, <1>5
  <1>7. R[h].event < R[c].event /\ R[h].event \in Int /\ R[c].event \in Int
    BY <1>5, <1>6 DEF Readable, Comparable
  <1> QED BY <1>6, <1>7 DEF NewerThan

\* The same of a set-valued attribute: an affirmative claim leads its members.
LEMMA LatestMemberLeads ==
  ASSUME NEW C, NEW R, NEW E, Readable(C, R, E), NEW c \in C,
         \A d \in C \ {c} : R[d].event < R[c].event, c \notin Negations(C, R),
         c \notin Olders(EdgesOf(E, "SUPERSEDES")), c \notin Newers(EdgesOf(E, "SUPPORTS"))
  PROVE  ResolveMulti(C, R, E).first = c
  <1> DEFINE heads == Undisplaced(C, E, EdgesOf(E, "SUPERSEDES")) \ Negations(C, R)
             h == Newest(heads, R)
  <1>1. c \in heads /\ heads \subseteq C
    BY DEF Undisplaced
  <1>2. ResolveMulti(C, R, E).first = h
    BY <1>1 DEF ResolveMulti, EmptyBelief
  <1> HIDE DEF heads
  <1>3. IsFiniteSet(heads) /\ Comparable(heads, R)
    BY <1>1, FS_Subset DEF Readable, Comparable
  <1>4. h \in heads /\ \A d \in heads \ {h} : NewerThan(R, h, d)
    BY <1>1, <1>3, NewestIsFirst
  <1> HIDE DEF h
  <1>5. SUFFICES ASSUME h # c PROVE FALSE
    BY <1>2
  <1>6. NewerThan(R, h, c) /\ h \in C
    BY <1>1, <1>4, <1>5
  <1>7. R[h].event < R[c].event /\ R[h].event \in Int /\ R[c].event \in Int
    BY <1>5, <1>6 DEF Readable, Comparable
  <1> QED BY <1>6, <1>7 DEF NewerThan

\* A claim that a later one displaced is not the belief, if the revisions are
\* in no circle and no claim merely supports another: neither when it competes
\* with undisplaced claims nor when all are displaced.
LEMMA DisplacedNeverLeads ==
  ASSUME NEW C, NEW R, NEW E, Readable(C, R, E), EdgesOf(E, "SUPPORTS") = {},
         ~HasCycle(EdgesOf(E, "SUPERSEDES")),
         NEW e \in EdgesOf(E, "SUPERSEDES"), e.newer \in C, R[e.newer].event > R[e.older].event
  PROVE  ResolveFunctional(C, R, E).first # e.older
  <1> DEFINE sup == EdgesOf(E, "SUPERSEDES")
             h == ResolveFunctional(C, R, E).first
  <1>1. BreakCycles(sup) = sup
    BY CycleBrokenIsExact DEF Readable
  <1>2. /\ h \in Candidates(C, E, sup) /\ Candidates(C, E, sup) \subseteq C
        /\ \A d \in Candidates(C, E, sup) \ {h} : NewerThan(R, h, d)
    BY <1>1, FunctionalHead
  <1> HIDE DEF h
  <1> SUFFICES ASSUME h = e.older PROVE FALSE
    BY DEF h
  <1>3. h \notin Undisplaced(C, E, sup)
    BY DEF Undisplaced, Olders
  <1>4. Candidates(C, E, sup) = C
    BY <1>2, <1>3 DEF Candidates
  <1>5. e.newer # h
    BY DEF Readable, EdgeSet
  <1>6. NewerThan(R, h, e.newer)
    BY <1>2, <1>4, <1>5
  <1>7. R[h].event \in Int /\ R[e.newer].event \in Int
    BY <1>2, <1>4 DEF Readable, Comparable
  <1> QED BY <1>6, <1>7 DEF NewerThan

\* The fold looks at the rows of the claims it is given and at no others.
LEMMA FoldReadsItsRows ==
  ASSUME NEW C, NEW R, NEW S, NEW E, NEW arity, Readable(C, R, E), \A c \in C : R[c] = S[c]
  PROVE  ResolveBelief(arity, C, R, E) = ResolveBelief(arity, C, S, E)
  <1>1. Readable(C, S, E)
    BY DEF Readable, Comparable
  <1>2. ASSUME NEW D, D \subseteq C, D # {} PROVE Newest(D, R) = Newest(D, S)
    <2>1. IsFiniteSet(D) /\ Comparable(D, R) /\ Comparable(D, S)
      BY <1>1, <1>2, FS_Subset DEF Readable, Comparable
    <2>2. /\ Newest(D, R) \in D /\ \A d \in D \ {Newest(D, R)} : NewerThan(R, Newest(D, R), d)
          /\ Newest(D, S) \in D /\ \A d \in D \ {Newest(D, S)} : NewerThan(S, Newest(D, S), d)
      BY <1>2, <2>1, NewestIsFirst
    <2>3. \A c, d \in D : NewerThan(R, c, d) <=> NewerThan(S, c, d)
      BY <1>2 DEF NewerThan
    <2>4. \A c, d \in D : NewerThan(R, c, d) => ~NewerThan(R, d, c)
      BY <2>1, NewerIsTotal
    <2> HIDE DEF Newest
    <2> QED BY <2>2, <2>3, <2>4
  <1>3. Negations(C, R) = Negations(C, S)
    BY DEF Negations
  <1>4. CASE C = {}
    BY <1>4 DEF ResolveBelief
  <1>5. CASE C # {} /\ arity = "FUNCTIONAL"
    <2> DEFINE sup == BreakCycles(EdgesOf(E, "SUPERSEDES"))
               some == Candidates(C, E, sup)
               h == Newest(some, R)
    <2>1. some \subseteq C /\ some # {}
      BY <1>5 DEF Candidates, Undisplaced
    <2>2. h = Newest(some, S)
      BY <1>2, <2>1
    <2>3. h \in C
      <3>1. IsFiniteSet(some) /\ Comparable(some, R)
        BY <2>1, FS_Subset DEF Readable, Comparable
      <3> QED BY <2>1, <3>1, NewestIsFirst
    <2>4. DisputeCluster(C, R, E, sup, h) = DisputeCluster(C, S, E, sup, h)
      <3>1. \A c \in Undisplaced(C, E, sup) : R[c] = S[c]
        BY DEF Undisplaced
      <3>2. {c \in Undisplaced(C, E, sup) : Gap(R[c].conf, R[h].conf) <= DisputeEps}
              = {c \in Undisplaced(C, E, sup) : Gap(S[c].conf, S[h].conf) <= DisputeEps}
        BY <2>3, <3>1
      <3> QED BY <3>2 DEF DisputeCluster
    <2> HIDE DEF h, sup, some
    <2>5. ResolveFunctional(C, R, E) = ResolveFunctional(C, S, E)
      BY <1>3, <2>2, <2>4 DEF ResolveFunctional, BeliefLedBy, h, sup, some
    <2> QED BY <1>5, <2>5 DEF ResolveBelief
  <1>6. CASE C # {} /\ arity # "FUNCTIONAL"
    <2> DEFINE heads == Undisplaced(C, E, EdgesOf(E, "SUPERSEDES")) \ Negations(C, R)
    <2>1. heads \subseteq C
      BY DEF Undisplaced
    <2>2. heads # {} => Newest(heads, R) = Newest(heads, S)
      BY <1>2, <2>1
    <2>3. ResolveMulti(C, R, E) = ResolveMulti(C, S, E)
      BY <1>3, <2>2 DEF ResolveMulti
    <2> QED BY <1>6, <2>3 DEF ResolveBelief
  <1> QED BY <1>4, <1>5, <1>6

----------------------------------------------------------------------------
(* Two beliefs of one attribute, an early and a late one *)

\* What one claim set aside by the fold without an edge tells of later reads:
\* C0 and E0 were read apart and early, C and E are read at once and late, B
\* are the claims that were there from the start.
Extends(C, R, E, C0, E0, B) ==
  /\ C0 \subseteq C /\ C \intersect B \subseteq C0 /\ E0 \subseteq E
  /\ ~HasCycle(EdgesOf(E, "SUPERSEDES"))
  /\ Newers(EdgesOf(E, "SUPPORTS")) \subseteq B \ Newers(EdgesOf(E, "SUPERSEDES"))
  /\ \A e \in EdgesOf(E, "SUPERSEDES") :
       e.older \in C => e.newer \in C /\ R[e.newer].event >= R[e.older].event
  /\ \A e \in E \ E0 : e.rel = "SUPERSEDES" /\ e.newer \notin B
  /\ \A e \in EdgesOf(E, "CONTRADICTS") : {e.newer, e.older} \subseteq B
  /\ \A e \in EdgesOf(E, "SUPERSEDES") : e.older \notin B => e.newer \notin B
  /\ \A k \in C \ B, b \in C \intersect B :
       R[k].event >= R[b].event /\ R[k].ingest >= R[b].ingest /\ R[k].conf > R[b].conf

\* Claims that do not defer to another are not all displaced, if with each its
\* displacer is one of them.
LEMMA UndisplacedAbove ==
  ASSUME NEW C, NEW sup, IsFiniteSet(C), ~HasCycle(sup), NEW T, T \subseteq C, T # {},
         \A e \in sup : e.older \in T => e.newer \in T
  PROVE  \E u \in T : u \notin Olders(sup)
  <1> SUFFICES ASSUME T \subseteq Olders(sup) PROVE FALSE
    OBVIOUS
  <1>1. \A x \in T : \E e \in sup : e.older = x /\ e.newer \in T
    BY DEF Olders
  <1>2. IsFiniteSet(T)
    BY FS_Subset
  <1> QED BY <1>1, <1>2, AllDisplacedCircle

\* A claim that an early belief set aside is not believed late if a later claim
\* is known: either it still loses to what it lost to, or what it lost to was
\* struck, and then by a claim that is newer than any it could be in dispute with.
LEMMA AsideStaysAside ==
  ASSUME NEW C, NEW R, NEW E, NEW C0, NEW E0, NEW B,
         Readable(C, R, E), Extends(C, R, E, C0, E0, B),
         NEW c \in ResolveFunctional(C0, R, E0).superseded,
         NEW o \in C, R[o].event > R[c].event, C0 # {}
  PROVE  c \notin ResolveFunctional(C, R, E).heads
  <1> DEFINE sup == EdgesOf(E, "SUPERSEDES")
             sup0 == EdgesOf(E0, "SUPERSEDES")
             behind == Newers(EdgesOf(E, "SUPPORTS"))
             U == C \ (Olders(sup) \union behind)
             U0 == C0 \ (Olders(sup0) \union behind)
             b == ResolveFunctional(C, R, E)
             b0 == ResolveFunctional(C0, R, E0)
  <1>1. /\ IsFiniteSet(C) /\ IsFiniteSet(C0) /\ C # {} /\ Comparable(C, R)
        /\ sup0 \subseteq sup /\ EdgeSet(sup) /\ Readable(C0, R, E0)
        /\ EdgesOf(E0, "SUPPORTS") = EdgesOf(E, "SUPPORTS")
        /\ behind \subseteq B /\ behind \intersect Newers(sup) = {}
    <2>1. sup0 \subseteq sup
      BY DEF Extends, EdgesOf
    <2>2. IsFiniteSet(C0) /\ Comparable(C0, R)
      BY FS_Subset DEF Extends, Readable, Comparable
    <2>3. EdgeSet(sup0)
      BY <2>1, EdgeSubset DEF Readable
    <2>4. EdgesOf(E0, "SUPPORTS") = EdgesOf(E, "SUPPORTS")
      BY DEF Extends, EdgesOf
    <2> QED BY <2>1, <2>2, <2>3, <2>4 DEF Extends, Readable
  <1>2. BreakCycles(sup) = sup /\ BreakCycles(sup0) = sup0 /\ ~HasCycle(sup)
    <2>1. ~HasCycle(sup0)
      BY <1>1, PartHasNoCycle DEF Extends
    <2> QED BY <1>1, <2>1, CycleBrokenIsExact DEF Extends, Readable
  <1>3. /\ Undisplaced(C, E, sup) = U /\ Undisplaced(C0, E0, sup0) = U0
    BY <1>1 DEF Undisplaced
  <1>4. /\ b.first \in Candidates(C, E, sup) /\ b0.first \in Candidates(C0, E0, sup0)
        /\ \A d \in Candidates(C, E, sup) \ {b.first} : NewerThan(R, b.first, d)
        /\ \A d \in Candidates(C0, E0, sup0) \ {b0.first} : NewerThan(R, b0.first, d)
        /\ b.heads \subseteq U \union {b.first} /\ b0.first \in b0.heads
        /\ b0.superseded = C0 \ (b0.heads \union behind)
    BY <1>1, <1>2, <1>3, FunctionalHead
  <1>5. /\ b.heads = DisputeCluster(C, R, E, sup, b.first)
        /\ b0.heads = DisputeCluster(C0, R, E0, sup0, b0.first)
    BY <1>2 DEF ResolveFunctional, BeliefLedBy
  <1>6. c \in C0 \ (b0.heads \union behind) /\ c \in C
    BY <1>4 DEF Extends
  <1> HIDE DEF b, b0
  <1>7. \A e \in sup : /\ e.older \in C => e.newer \in C /\ R[e.newer].event >= R[e.older].event
                      /\ e.newer \notin behind /\ (e.older \notin B => e.newer \notin B)
    BY <1>1 DEF Extends, Newers
  <1> SUFFICES ASSUME c \in b.heads PROVE FALSE
    BY DEF b
  <1> HIDE DEF behind
  <1>8. ASSUME NEW T, T \subseteq C, T # {}, T \intersect behind = {},
               \A e \in sup : e.older \in T => e.newer \in T
        PROVE  \E u \in T : u \in U
    <2> HIDE DEF sup
    <2> QED BY <1>1, <1>2, <1>8, UndisplacedAbove
  <1> DEFINE h == b.first
             h0 == b0.first
  <1>9. /\ h \in U /\ \A d \in U \ {h} : NewerThan(R, h, d)
        /\ c \in U /\ U \subseteq C
    <2>1. \E u \in C : u \in U
      <3> DEFINE T == C \ behind
      <3>1. \A e \in sup : e.older \in T => e.newer \in T
        BY <1>7
      <3>2. T \subseteq C /\ T # {} /\ T \intersect behind = {}
        BY <1>6
      <3> HIDE DEF T
      <3> QED BY <1>8, <3>1, <3>2
    <2>2. Candidates(C, E, sup) = U
      BY <1>3, <2>1 DEF Candidates
    <2> HIDE DEF U
    <2> QED BY <1>4, <2>2 DEF U
  <1>10. Olders(sup0) \subseteq Olders(sup)
    BY <1>1 DEF Olders
  <1>11. /\ h0 \in U0 /\ \A d \in U0 \ {h0} : NewerThan(R, h0, d)
         /\ c \in U0 /\ c # h0 /\ U0 \subseteq C0
    <2>1. c \in U0 /\ c # h0
      BY <1>4, <1>6, <1>9, <1>10
    <2>2. Candidates(C0, E0, sup0) = U0
      BY <1>3, <2>1 DEF Candidates
    <2> HIDE DEF U0
    <2> QED BY <1>4, <2>1, <2>2 DEF U0
  <1> HIDE DEF h, h0, sup, sup0
  <1>12. ASSUME NEW x \in C \ B, NEW y \in C, R[x].event >= R[y].event
         PROVE  \E u \in C \ B : u \in U /\ R[u].event >= R[y].event
    <2> DEFINE T == {z \in C \ B : R[z].event >= R[y].event}
    <2>1. x \in T /\ T \subseteq C /\ T \intersect behind = {}
      BY <1>1, <1>12
    <2>2. \A e \in sup : e.older \in T => e.newer \in T
      <3> SUFFICES ASSUME NEW e \in sup, e.older \in T PROVE e.newer \in T
        OBVIOUS
      <3>1. e.older \in C /\ e.newer \in C \ B /\ R[e.newer].event >= R[e.older].event
        BY <1>7
      <3>2. R[e.newer].event \in Int /\ R[e.older].event \in Int /\ R[y].event \in Int
        BY <1>1, <3>1 DEF Comparable
      <3>3. R[e.older].event >= R[y].event
        OBVIOUS
      <3>4. R[e.newer].event >= R[y].event
        BY <3>1, <3>2, <3>3
      <3> QED BY <3>1, <3>4
    <2>3. PICK u \in T : u \in U
      BY <1>8, <2>1, <2>2
    <2> QED BY <2>3
  <1> DEFINE links == {<<e.newer, e.older>> : e \in EdgesOf(E, "CONTRADICTS")}
             links0 == {<<e.newer, e.older>> : e \in EdgesOf(E0, "CONTRADICTS")}
             both == links \union {<<p[2], p[1]>> : p \in links}
             peers == {x \in U : Gap(R[x].conf, R[h].conf) <= DisputeEps}
             peers0 == {x \in U0 : Gap(R[x].conf, R[h0].conf) <= DisputeEps}
  <1>13. links0 = links
    <2>1. EdgesOf(E, "CONTRADICTS") = EdgesOf(E0, "CONTRADICTS")
      BY DEF EdgesOf, Extends
    <2> QED BY <2>1
  <1>14. /\ b.heads = ReachableFrom(h, both, peers \union {h})
         /\ b0.heads = ReachableFrom(h0, both, peers0 \union {h0})
    <2>1. b.heads = ReachableFrom(h, both, peers \union {h})
      BY <1>3, <1>5 DEF DisputeCluster, h, sup
    <2>2. b0.heads = ReachableFrom(h0, links0 \union {<<p[2], p[1]>> : p \in links0}, peers0 \union {h0})
      BY <1>3, <1>5 DEF DisputeCluster, h0, sup0
    <2> HIDE DEF links, links0
    <2> QED BY <1>13, <2>1, <2>2
  <1>15. \A p \in both : p[1] \in B /\ p[2] \in B
    <2>1. \A p \in links : p[1] \in B /\ p[2] \in B
      BY DEF Extends
    <2> HIDE DEF links
    <2> QED BY <2>1
  <1> HIDE DEF both
  <1>16. \A S \in SUBSET (peers \union {h}) :
           h \in S /\ (\A p \in both : p[1] \in S /\ p[2] \in peers \union {h} => p[2] \in S) => c \in S
    BY <1>14 DEF ReachableFrom
  <1>17. c \in peers \union {h}
    BY <1>14 DEF ReachableFrom
  <1> HIDE DEF peers, peers0
  <1>18. c # h => c \in B /\ h \in B
    <2> SUFFICES ASSUME c # h PROVE c \in B /\ h \in B
      OBVIOUS
    <2> DEFINE S == {x \in peers \union {h} : x = h \/ x \in B}
    <2>1. c \in S
      BY <1>15, <1>16
    <2>2. h \notin B => c \in {h}
      BY <1>15, <1>16
    <2> QED BY <2>1, <2>2
  <1>19. h \in B /\ c \in B
    <2> SUFFICES ASSUME h \notin B, c = h PROVE FALSE
      BY <1>18
    <2>1. R[o].event \in Int /\ R[c].event \in Int
      BY <1>1, <1>6 DEF Comparable
    <2>2. o \notin B
      BY <1>6, <2>1 DEF Extends
    <2>3. PICK u \in C \ B : u \in U /\ R[u].event >= R[o].event
      BY <1>12, <2>1, <2>2
    <2>4. R[u].event \in Int
      BY <1>1 DEF Comparable
    <2>5. R[u].event > R[c].event /\ ~(R[c].event > R[u].event) /\ R[u].event # R[c].event
      BY <2>1, <2>3, <2>4
    <2> HIDE DEF U
    <2>6. u # c /\ ~NewerThan(R, c, u)
      BY <2>5 DEF NewerThan
    <2> QED BY <1>9, <2>3, <2>6
  <1>20. h \in U0
    BY <1>9, <1>10, <1>19 DEF Extends
  <1>21. h # h0
    <2> SUFFICES ASSUME h = h0 PROVE FALSE
      OBVIOUS
    <2>0. c # h
      BY <1>11
    <2>1. \A x \in B : x \in peers \union {h} => x \in peers0 \union {h0}
      BY <1>9, <1>10 DEF peers, peers0, Extends
    <2>2. ASSUME NEW S \in SUBSET (peers0 \union {h0}), h0 \in S,
                 \A p \in both : p[1] \in S /\ p[2] \in peers0 \union {h0} => p[2] \in S
          PROVE  c \in S
      <3> DEFINE V == S \intersect (peers \union {h})
      <3>1. V \in SUBSET (peers \union {h}) /\ h \in V
        BY <2>2
      <3>2. \A p \in both : p[1] \in V /\ p[2] \in peers \union {h} => p[2] \in V
        BY <1>15, <2>1, <2>2
      <3>3. c \in V
        BY <1>16, <3>1, <3>2
      <3> QED BY <3>3
    <2>3. c \in peers0 \union {h0}
      BY <1>17, <1>19, <2>1
    <2>4. c \in ReachableFrom(h0, both, peers0 \union {h0})
      BY <2>2, <2>3 DEF ReachableFrom
    <2> QED BY <1>6, <1>14, <2>4
  <1>22. NewerThan(R, h0, h) /\ h0 \in C /\ h \in C /\ h0 \notin U
    <2>1. NewerThan(R, h0, h)
      BY <1>11, <1>20, <1>21
    <2>2. h0 \in C /\ h \in C
      BY <1>9, <1>11 DEF Extends
    <2>3. ~NewerThan(R, h, h0)
      BY <1>1, <2>1, <2>2, NewerIsTotal
    <2> QED BY <1>9, <1>21, <2>1, <2>2, <2>3
  <1>23. PICK e \in sup : e.older = h0
    BY <1>11, <1>22 DEF Olders
  <1>24. e \in E /\ e.newer \in C \ B /\ R[e.newer].event >= R[h0].event
    <2>1. e \notin sup0
      BY <1>11, <1>23 DEF Olders
    <2>2. e \in E \ E0
      BY <2>1 DEF sup, sup0, EdgesOf
    <2> QED BY <1>7, <1>22, <1>23, <2>2 DEF Extends
  <1>25. PICK u \in C \ B : u \in U /\ R[u].event >= R[h0].event
    BY <1>12, <1>22, <1>24
  <1>26. R[u].ingest >= R[h].ingest /\ R[u].conf > R[h].conf
    BY <1>19, <1>22 DEF Extends
  <1>27. R[h0].event >= R[h].event
    BY <1>1, <1>22 DEF NewerThan, Comparable
  <1>28. NewerThan(R, u, h) /\ u # h
    BY <1>1, <1>19, <1>22, <1>25, <1>26, <1>27 DEF NewerThan, Comparable
  <1> QED BY <1>1, <1>9, <1>22, <1>25, <1>28, NewerIsTotal

\* A claim that any revision displaced is not believed, if the revisions run in
\* no circle and what displaces a claim merely supports no other.
LEMMA DisplacedIsNotBelieved ==
  ASSUME NEW C, NEW R, NEW E, Readable(C, R, E), ~HasCycle(EdgesOf(E, "SUPERSEDES")),
         Newers(EdgesOf(E, "SUPPORTS")) \intersect Newers(EdgesOf(E, "SUPERSEDES")) = {},
         \A e \in EdgesOf(E, "SUPERSEDES") : e.older \in C => e.newer \in C,
         NEW c \in C, c \in Olders(EdgesOf(E, "SUPERSEDES"))
  PROVE  c \notin ResolveFunctional(C, R, E).heads
  <1> DEFINE sup == EdgesOf(E, "SUPERSEDES")
             behind == Newers(EdgesOf(E, "SUPPORTS"))
             b == ResolveFunctional(C, R, E)
             T == C \ behind
  <1>1. BreakCycles(sup) = sup
    BY CycleBrokenIsExact DEF Readable
  <1>2. PICK e \in sup : e.older = c
    BY DEF Olders
  <1>3. \A f \in sup : f.older \in C => f.newer \in T
    BY DEF Newers
  <1>4. e.newer \in T
    BY <1>2, <1>3
  <1>5. \E u \in T : u \notin Olders(sup)
    <2>1. T \subseteq C /\ T # {} /\ \A f \in sup : f.older \in T => f.newer \in T
      BY <1>3, <1>4
    <2> HIDE DEF sup, T
    <2> QED BY <2>1, UndisplacedAbove DEF sup, Readable
  <1>6. Candidates(C, E, sup) = Undisplaced(C, E, sup)
    BY <1>5 DEF Candidates, Undisplaced
  <1>7. b.first \in Candidates(C, E, sup) /\ b.heads \subseteq Undisplaced(C, E, sup) \union {b.first}
    BY <1>1, FunctionalHead
  <1> HIDE DEF b, sup
  <1>8. c \notin Undisplaced(C, E, sup)
    BY DEF Undisplaced, sup
  <1> QED BY <1>6, <1>7, <1>8 DEF b

----------------------------------------------------------------------------
(* diffChain *)

\* The claim a walk has come to.
Cursor(walk, start) == IF walk = <<>> THEN start ELSE Last(walk).older

\* A walk down the revisions from a claim: each edge leaves the claim the one
\* before led to, no claim is left twice, none from beyond stopAt, and both
\* ends of each were read.
IsWalk(walk, C, sup, start, stopAt) ==
  /\ walk \in Seq(sup)
  /\ \A i \in DOMAIN walk :
       /\ walk[i].newer = IF i = 1 THEN start ELSE walk[i - 1].older
       /\ walk[i].newer # stopAt
       /\ {walk[i].newer, walk[i].older} \subseteq C
  /\ \A i, j \in DOMAIN walk : walk[i].newer = walk[j].newer => i = j

\* Why a walk may end.
IsOver(walk, C, sup, start, stopAt, maxHops) ==
  \/ Len(walk) >= maxHops
  \/ Cursor(walk, start) = stopAt
  \/ Cursor(walk, start) \notin Newers(sup)
  \/ ~Fresh(walk, Cursor(walk, start))
  \/ Cursor(walk, start) \notin C
  \/ RevisionOf(sup, Cursor(walk, start)).older \notin C

\* The edge followed out of a claim is one of its own.
LEMMA RevisionOfIsIn ==
  ASSUME NEW sup, EdgeSet(sup), NEW c \in Newers(sup)
  PROVE  RevisionOf(sup, c) \in sup /\ RevisionOf(sup, c).newer = c
  <1> DEFINE own == {e \in sup : e.newer = c}
  <1>1. own \subseteq sup /\ own # {}
    BY DEF Newers
  <1>2. EdgeSet(own)
    BY <1>1, EdgeSubset
  <1>3. FirstEdge(own) \in own
    BY <1>1, <1>2, FirstEdgeIsIn
  <1> QED BY <1>3 DEF RevisionOf

\* One more hop is one more edge of the walk.
LEMMA HopExtends ==
  ASSUME NEW C, NEW sup, EdgeSet(sup), NEW start, NEW stopAt, NEW walk,
         IsWalk(walk, C, sup, start, stopAt),
         Cursor(walk, start) \in Newers(sup), Cursor(walk, start) # stopAt,
         Fresh(walk, Cursor(walk, start)), Cursor(walk, start) \in C,
         RevisionOf(sup, Cursor(walk, start)).older \in C
  PROVE  IsWalk(Append(walk, RevisionOf(sup, Cursor(walk, start))), C, sup, start, stopAt)
  <1> DEFINE at == Cursor(walk, start)
             e == RevisionOf(sup, at)
             n == Len(walk)
             longer == Append(walk, e)
  <1>1. e \in sup /\ e.newer = at /\ {e.newer, e.older} \subseteq C
    BY RevisionOfIsIn
  <1>2. walk \in Seq(sup) /\ n \in Nat /\ DOMAIN walk = 1..n
    BY DEF IsWalk
  <1> HIDE DEF e
  <1>3. /\ longer \in Seq(sup) /\ DOMAIN longer = 1..(n + 1)
        /\ \A i \in 1..n : longer[i] = walk[i]
        /\ longer[n + 1] = e
    BY <1>1, <1>2, AppendProperties
  <1>4. at = IF n = 0 THEN start ELSE walk[n].older
    BY <1>2 DEF Cursor, Last
  <1>5. \A i \in 1..n : walk[i].newer # at
    BY <1>2 DEF Fresh
  <1> HIDE DEF at, longer, n
  <1>6. \A i \in 1..n : /\ walk[i].newer = IF i = 1 THEN start ELSE walk[i - 1].older
                        /\ walk[i].newer # stopAt
                        /\ {walk[i].newer, walk[i].older} \subseteq C
    BY <1>2 DEF IsWalk
  <1>7. \A i, j \in 1..n : walk[i].newer = walk[j].newer => i = j
    BY <1>2 DEF IsWalk
  <1>8. at # stopAt
    BY DEF at
  <1>9. \A i \in 1..(n + 1) : /\ longer[i].newer = IF i = 1 THEN start ELSE longer[i - 1].older
                              /\ longer[i].newer # stopAt
                              /\ {longer[i].newer, longer[i].older} \subseteq C
    <2> SUFFICES ASSUME NEW i \in 1..(n + 1)
                 PROVE  /\ longer[i].newer = IF i = 1 THEN start ELSE longer[i - 1].older
                        /\ longer[i].newer # stopAt
                        /\ {longer[i].newer, longer[i].older} \subseteq C
      OBVIOUS
    <2>1. CASE i \in 1..n
      <3>1. i # 1 => i - 1 \in 1..n
        BY <1>2, <2>1
      <3> QED BY <1>3, <1>6, <2>1, <3>1
    <2>2. CASE i = n + 1
      <3>1. i # 1 => i - 1 \in 1..n /\ i - 1 = n /\ n # 0
        BY <1>2, <2>2
      <3>2. i = 1 => n = 0
        BY <1>2, <2>2
      <3> QED BY <1>1, <1>3, <1>4, <1>8, <2>2, <3>1, <3>2
    <2> QED BY <1>2, <2>1, <2>2
  <1>10. \A i, j \in 1..(n + 1) : longer[i].newer = longer[j].newer => i = j
    <2>1. \A i \in 1..n : longer[i].newer # longer[n + 1].newer
      BY <1>1, <1>3, <1>5
    <2>2. \A i, j \in 1..n : longer[i].newer = longer[j].newer => i = j
      BY <1>3, <1>7
    <2>3. \A i \in 1..(n + 1) : i \in 1..n \/ i = n + 1
      BY <1>2
    <2> QED BY <2>1, <2>2, <2>3
  <1>11. IsWalk(longer, C, sup, start, stopAt)
    BY <1>3, <1>9, <1>10 DEF IsWalk
  <1> QED BY <1>11 DEF longer, e, at

\* diffChain's loop, for any revisions and any bound: what it returns is a
\* walk, and it ended for a reason.
THEOREM DiffWalks ==
  ASSUME NEW C, NEW sup, EdgeSet(sup), NEW start, NEW stopAt, NEW maxHops \in Nat
  PROVE  LET walk == DiffWalk(C, sup, start, stopAt, maxHops)
         IN  IsWalk(walk, C, sup, start, stopAt) /\ IsOver(walk, C, sup, start, stopAt, maxHops)
  <1> DEFINE D == Seq(sup)
             At(walk) == Cursor(walk, start)
             CanHop(walk) == /\ At(walk) # stopAt
                             /\ Fresh(walk, At(walk))
                             /\ At(walk) \in Newers(sup)
                             /\ At(walk) \in C
                             /\ RevisionOf(sup, At(walk)).older \in C
             More(walk) == Len(walk) < maxHops /\ CanHop(walk)
             hop == CHOOSE f : f = [walk \in D |->
                      IF More(walk) THEN f[Append(walk, RevisionOf(sup, At(walk)))] ELSE walk]
             stop == {walk \in D : ~More(walk)}
             res == [walk \in D |-> walk]
             step == [walk \in D |-> Append(walk, RevisionOf(sup, At(walk)))]
             measure == [walk \in D |-> IF Len(walk) < maxHops THEN maxHops - Len(walk) ELSE 0]
  <1>1. DiffWalk(C, sup, start, stopAt, maxHops) = hop[<<>>]
    BY DEF DiffWalk, Cursor
  <1>2. \A walk \in D : Len(walk) \in Nat
    OBVIOUS
  <1>3. Falls(D, stop, step, measure)
    <2>1. measure \in [D -> Nat]
      <3>1. \A walk \in D : (IF Len(walk) < maxHops THEN maxHops - Len(walk) ELSE 0) \in Nat
        BY <1>2
      <3> HIDE DEF D
      <3> QED BY <3>1
    <2>2. ASSUME NEW walk \in D \ stop
          PROVE  step[walk] \in D /\ measure[step[walk]] < measure[walk]
      <3> DEFINE e == RevisionOf(sup, At(walk))
      <3>1. Len(walk) < maxHops /\ At(walk) \in Newers(sup)
        OBVIOUS
      <3>2. e \in sup
        BY <3>1, RevisionOfIsIn
      <3> HIDE DEF e
      <3>3. Append(walk, e) \in D /\ Len(Append(walk, e)) = Len(walk) + 1
        BY <3>2
      <3>4. step[walk] = Append(walk, e)
        BY DEF e
      <3>5. /\ measure[walk] = maxHops - Len(walk)
            /\ measure[Append(walk, e)] = IF Len(walk) + 1 < maxHops THEN maxHops - (Len(walk) + 1) ELSE 0
        BY <3>1, <3>3
      <3> HIDE DEF measure, step
      <3> QED BY <1>2, <3>1, <3>3, <3>4, <3>5
    <2> HIDE DEF D, stop, step, measure
    <2> QED BY <2>1, <2>2 DEF Falls
  <1>4. Computes(hop, D, stop, step, res)
    <2>1. PICK f : Computes(f, D, stop, step, res)
      <3> HIDE DEF D, stop, step, res, measure
      <3> QED BY <1>3, TailRecursion
    <2> DEFINE B(f_1, walk) == IF More(walk) THEN f_1[Append(walk, RevisionOf(sup, At(walk)))] ELSE walk
               A(f_1, walk) == IF walk \in stop THEN res[walk] ELSE f_1[step[walk]]
    <2>2. \A f_1 : \A walk \in D : A(f_1, walk) = B(f_1, walk)
      <3> HIDE DEF More, At, D
      <3> QED OBVIOUS
    <2>3. \A f_1 : Computes(f_1, D, stop, step, res) <=> f_1 = [walk \in D |-> A(f_1, walk)]
      BY DEF Computes
    <2>4. \A f_1 : [walk \in D |-> A(f_1, walk)] = [walk \in D |-> B(f_1, walk)]
      <3> HIDE DEF A, B, D
      <3> QED BY <2>2
    <2>5. \A f_1 : Computes(f_1, D, stop, step, res) <=> f_1 = [walk \in D |-> B(f_1, walk)]
      <3> HIDE DEF A, B, D, stop, step, res
      <3> QED BY <2>3, <2>4
    <2>6. hop = CHOOSE f_1 : f_1 = [walk \in D |-> B(f_1, walk)]
      OBVIOUS
    <2> HIDE DEF hop, A, B, D, stop, step, res
    <2> QED BY <2>1, <2>5, <2>6
  <1> HIDE DEF hop
  <1> DEFINE Good == {walk \in D : IsWalk(walk, C, sup, start, stopAt)}
             Answers == {walk \in Good : IsOver(walk, C, sup, start, stopAt, maxHops)}
  <1>5. Leads(Good, Answers, D, stop, step, res)
    <2>1. ASSUME NEW walk \in Good \intersect stop PROVE res[walk] \in Answers
      <3>1. ~More(walk) /\ res[walk] = walk
        OBVIOUS
      <3>2. IsOver(walk, C, sup, start, stopAt, maxHops)
        BY <1>2, <3>1 DEF IsOver
      <3> QED BY <3>1, <3>2
    <2>2. ASSUME NEW walk \in Good \ stop PROVE step[walk] \in Good
      <3>1. More(walk) /\ step[walk] = Append(walk, RevisionOf(sup, At(walk)))
        OBVIOUS
      <3>2. IsWalk(step[walk], C, sup, start, stopAt)
        BY <3>1, HopExtends
      <3> HIDE DEF step
      <3> QED BY <3>2 DEF IsWalk
    <2>3. Good \subseteq D
      OBVIOUS
    <2> HIDE DEF Good, Answers, D, stop, step, res
    <2> QED BY <2>1, <2>2, <2>3 DEF Leads
  <1>6. <<>> \in Good
    BY DEF IsWalk
  <1>7. hop[<<>>] \in Answers
    <2> HIDE DEF Good, Answers, D, stop, step, res, measure
    <2> QED BY <1>3, <1>4, <1>5, <1>6, TailRecursionAnswers
  <1> QED BY <1>1, <1>7
===============================================================================
