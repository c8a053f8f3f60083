--------------------------- MODULE CorrectionsProofs ---------------------------
(***************************************************************************)
(* Corrections filed by any number of concurrent handlers, under any       *)
(* schedule, clock, partial failure and replay: what is acknowledged is    *)
(* whole, stays struck and takes the lead, and the store is an append-only *)
(* log.                                                                    *)
(*                                                                         *)
(* The argument: the store and the handlers' locals agree (Inv), and the   *)
(* edges of corrections form a forest in which each new claim stands above *)
(* the target it was minted for (Forest).                                  *)
(***************************************************************************)
EXTENDS Corrections, BeliefFoldProofs

----------------------------------------------------------------------------
(* The inductive invariant *)

\* What a handler holds across an await is still true of the store: claims and
\* targets it read stay visible, and each batch it sent is in place.
HeldIsCurrent ==
  /\ \A h \in Handler : claimsRead[h] \subseteq about
  /\ \A id \in DOMAIN minted : minted[id].target \in about
  /\ \A h \in Handler :
       /\ pc[h] = "about" => filed[h] \in DOMAIN row
       /\ pc[h] = "sup" => filed[h] \in about
       /\ pc[h] = "done" => filed[h] \in about /\ SupOf(filed[h]) \in edges

\* A revision edge is written after the ABOUT edge of its newer claim.
EdgesAreVisible == \A e \in edges \ BaseEdges : e.newer \in about

Inv == TypeOK /\ HeldIsCurrent /\ EdgesAreVisible

LEMMA InitInv == Init => Inv
  <1> SUFFICES ASSUME Init PROVE Inv
    OBVIOUS
  <1>1. TypeOK
    BY IdsAssumption, NumbersAssumption DEF Init, TypeOK, BaseId, Phase, Outcome
  <1>2. HeldIsCurrent
    BY DEF Init, HeldIsCurrent, Phase
  <1>3. EdgesAreVisible
    BY DEF Init, EdgesAreVisible
  <1> QED BY <1>1, <1>2, <1>3 DEF Inv

\* Reading, refusing, failing and the clock leave the store and the ids alone.
LEMMA QuietInv ==
  ASSUME Inv,
         UNCHANGED <<store, minted>>,
         clock' \in 0..MaxClock,
         pc' \in [Handler -> {"start", "edges", "build"} \union Phase \union Outcome],
         filed' = filed,
         \A h \in Handler : claimsRead'[h] \subseteq about,
         \A h \in Handler : pc'[h] = pc[h] \/ pc'[h] \notin Phase \union {"done"}
  PROVE  Inv'
  <1>1. TypeOK'
    BY DEF Inv, TypeOK, store, SupOf, SupRow, ClaimRow, Phase
  <1>2. HeldIsCurrent'
    BY DEF Inv, HeldIsCurrent, store, SupOf, SupRow, ClaimRow, Phase
  <1>3. EdgesAreVisible'
    BY DEF Inv, EdgesAreVisible, store
  <1> QED BY <1>1, <1>2, <1>3 DEF Inv

LEMMA PagesAreVisible ==
  ASSUME NEW page \in ClaimPages(row, about, ReadLimit)
  PROVE  page \subseteq about
  BY DEF ClaimPages, kSubset

LEMMA ReadClaimsInv == ASSUME Inv, NEW h \in Handler, ReadClaims(h) PROVE Inv'
  <1>1. PICK page \in ClaimPages(row, about, ReadLimit) :
          /\ claimsRead' = [claimsRead EXCEPT ![h] = page]
          /\ pc' = [pc EXCEPT ![h] = IF page = {} THEN "refused" ELSE "edges"]
    BY DEF ReadClaims
  <1>2. page \subseteq about
    BY PagesAreVisible
  <1>3. \A g \in Handler : claimsRead'[g] \subseteq about
    BY <1>1, <1>2 DEF Inv, HeldIsCurrent
  <1> QED BY <1>1, <1>3, QuietInv DEF ReadClaims, Inv, TypeOK, Phase, Outcome

LEMMA BuildInv ==
  ASSUME Inv, NEW h \in Handler, NEW wanted, NEW value \in Value, Build(h, wanted, value)
  PROVE  Inv'
  <1> DEFINE target == Target(h, wanted)
             key == KeyOf(value, target, clock)
  <1>1. PICK id \in IdsOf(key) :
          /\ minted' = [i \in DOMAIN minted \union {id} |->
                          IF i = id THEN key ELSE minted[i]]
          /\ filed' = [filed EXCEPT ![h] = id]
    BY DEF Build
  <1>2. target \in claimsRead[h] /\ target \in about
    BY DEF Build, Target, Inv, HeldIsCurrent
  <1>3. target \in ClaimId
    BY <1>2 DEF Inv, TypeOK, ClaimId
  <1>4. key \in KeySet
    BY <1>3 DEF KeyOf, KeySet, Inv, TypeOK
  \* An id is used again for its own key only.
  <1>5. id \in NewId /\ (id \in DOMAIN minted => minted[id] = key)
    BY DEF IdsOf, Inv, TypeOK
  <1>6. /\ DOMAIN minted' = DOMAIN minted \union {id}
        /\ minted'[id] = key
        /\ \A i \in DOMAIN minted : minted'[i] = minted[i]
    BY <1>1, <1>5
  <1>7. \A i \in DOMAIN minted : SupOf(i)' = SupOf(i) /\ ClaimRow(minted[i])' = ClaimRow(minted[i])
    BY <1>6 DEF SupOf, SupRow, ClaimRow
  <1>8. UNCHANGED <<clock, row, about, edges>>
    BY DEF Build, store
  <1>9. pc' = [pc EXCEPT ![h] = "claim"] /\ claimsRead' = [claimsRead EXCEPT ![h] = {}]
    BY DEF Build
  <1>10. TypeOK'
    <2>1. DOMAIN minted' \subseteq NewId /\ \A i \in DOMAIN minted' : minted'[i] \in KeySet
      BY <1>4, <1>5, <1>6 DEF Inv, TypeOK
    <2>2. \A i \in DOMAIN row' :
            row'[i] = IF i \in BaseId THEN BaseRow[i] ELSE ClaimRow(minted[i])'
      BY <1>7, <1>8 DEF Inv, TypeOK
    <2>3. \A e \in edges' \ BaseEdges : e.newer \in DOMAIN minted' /\ e = SupOf(e.newer)'
      BY <1>6, <1>7, <1>8 DEF Inv, TypeOK
    <2>4. /\ pc' \in [Handler -> {"start", "edges", "build"} \union Phase \union Outcome]
          /\ filed' \in [Handler -> {NoClaim} \union DOMAIN minted']
      BY <1>1, <1>6, <1>9 DEF Inv, TypeOK, Phase
    <2>5. \A g \in Handler : pc'[g] \in Phase \union {"done"} => filed'[g] # NoClaim
      BY <1>1, <1>5, <1>9, IdsAssumption DEF Inv, TypeOK, Phase, NoClaim
    <2> QED BY <2>1, <2>2, <2>3, <2>4, <2>5, <1>6, <1>8 DEF Inv, TypeOK
  <1>11. HeldIsCurrent'
    <2>1. \A g \in Handler : claimsRead'[g] \subseteq about'
      BY <1>8, <1>9 DEF Inv, HeldIsCurrent
    <2>2. \A i \in DOMAIN minted' : minted'[i].target \in about'
      BY <1>2, <1>6, <1>8 DEF Inv, HeldIsCurrent, KeyOf
    <2>3. \A g \in Handler \ {h} : pc'[g] = pc[g] /\ filed'[g] = filed[g]
      BY <1>1, <1>9 DEF Inv, TypeOK
    <2>4. pc'[h] = "claim"
      BY <1>9 DEF Inv, TypeOK
    <2> QED BY <2>1, <2>2, <2>3, <2>4, <1>7, <1>8 DEF Inv, HeldIsCurrent, TypeOK, Phase
  <1>12. EdgesAreVisible'
    BY <1>8 DEF Inv, EdgesAreVisible
  <1> QED BY <1>10, <1>11, <1>12 DEF Inv
LEMMA WriteInv ==
  ASSUME Inv, NEW h \in Handler, pc[h] \in Phase, Batch(h),
         pc' = pc \/ pc' = [pc EXCEPT ![h] = NextPhase[pc[h]]],
         UNCHANGED <<clock, minted, claimsRead, edgesRead, filed>>
  PROVE  Inv'
  <1> DEFINE id == filed[h]
  <1>1. id \in DOMAIN minted /\ id \in NewId
    BY DEF Inv, TypeOK
  <1>2. \A i : SupOf(i)' = SupOf(i) /\ ClaimRow(minted[i])' = ClaimRow(minted[i])
    BY DEF SupOf, SupRow, ClaimRow
  <1>3. id \notin BaseId
    BY <1>1, IdsAssumption
  \* The claim is new or is written again as it was.
  <1>4. /\ DOMAIN row' \in {DOMAIN row, DOMAIN row \union {id}}
        /\ \A c \in DOMAIN row : row'[c] = row[c]
        /\ \A c \in DOMAIN row' :
             row'[c] = IF c \in BaseId THEN BaseRow[c] ELSE ClaimRow(minted[c])
        /\ pc[h] = "claim" => id \in DOMAIN row'
    BY <1>3 DEF Batch, UpsertNode, Inv, TypeOK
  <1>5. /\ about \subseteq about' /\ about' \subseteq DOMAIN row'
        /\ pc[h] = "about" => id \in about'
    BY <1>4 DEF Batch, UpsertAbout, Inv, TypeOK, HeldIsCurrent
  \* The edge is new or replaces an edge with the same key, which is itself.
  <1>6. /\ edges \subseteq edges'
        /\ edges' \subseteq edges \union {SupOf(id)}
        /\ pc[h] = "sup" => SupOf(id) \in edges'
    <2>1. CASE pc[h] # "sup"
      BY <2>1 DEF Batch
    <2>2. CASE pc[h] = "sup"
      <3> DEFINE e == SupOf(id)
      <3>1. e.newer = id /\ e.older = minted[id].target /\ e.rel = "SUPERSEDES"
        BY DEF SupOf, SupRow
      <3>2. {e.newer, e.older} \subseteq DOMAIN row
        BY <1>1, <2>2, <3>1 DEF Inv, TypeOK, HeldIsCurrent
      <3>3. edges' = {f \in edges : EdgeKey(f) # EdgeKey(e)} \union {e}
        BY <2>2, <3>2 DEF Batch, UpsertEdge, SupOf
      <3>4. \A f \in edges : EdgeKey(f) = EdgeKey(e) => f = e
        <4> SUFFICES ASSUME NEW f \in edges, EdgeKey(f) = EdgeKey(e) PROVE f = e
          OBVIOUS
        <4>1. f.newer = id
          BY <3>1 DEF EdgeKey
        <4>2. f \notin BaseEdges
          BY <4>1, <1>3, BaseAssumption
        <4> QED BY <4>1, <4>2 DEF Inv, TypeOK
      <3> QED BY <3>3, <3>4
    <2> QED BY <2>1, <2>2
  <1>7. TypeOK'
    <2>1. pc' \in [Handler -> {"start", "edges", "build"} \union Phase \union Outcome]
      BY DEF Inv, TypeOK, Phase, Outcome, NextPhase
    <2>2. \A g \in Handler : pc'[g] \in Phase \union {"done"} => filed'[g] # NoClaim
      BY DEF Inv, TypeOK, Phase
    <2>3. DOMAIN row' \subseteq BaseId \union DOMAIN minted' /\ BaseId \subseteq DOMAIN row'
      BY <1>1, <1>4 DEF Inv, TypeOK
    <2>4. BaseId \subseteq about' /\ BaseEdges \subseteq edges'
      BY <1>5, <1>6 DEF Inv, TypeOK
    <2>5. \A e \in edges' \ BaseEdges : e.newer \in DOMAIN minted' /\ e = SupOf(e.newer)'
      BY <1>1, <1>2, <1>6 DEF Inv, TypeOK, SupOf, SupRow
    <2> QED BY <2>1, <2>2, <2>3, <2>4, <2>5, <1>4, <1>5 DEF Inv, TypeOK, ClaimRow
  <1>8. HeldIsCurrent'
    <2>1. \A g \in Handler \ {h} : pc'[g] = pc[g]
      BY DEF Inv, TypeOK
    <2>2. pc'[h] \in {pc[h], NextPhase[pc[h]]}
      BY DEF Inv, TypeOK
    <2>3. DOMAIN row \subseteq DOMAIN row'
      BY <1>4
    <2>4. pc'[h] = "about" => id \in DOMAIN row'
      BY <2>2, <2>3, <1>4 DEF Inv, HeldIsCurrent, Phase, NextPhase
    <2>5. pc'[h] = "sup" => id \in about'
      BY <2>2, <1>5 DEF Inv, HeldIsCurrent, Phase, NextPhase
    <2>6. pc'[h] = "done" => id \in about' /\ SupOf(id) \in edges'
      BY <2>2, <1>5, <1>6 DEF Inv, HeldIsCurrent, Phase, NextPhase
    <2> QED BY <2>1, <2>3, <2>4, <2>5, <2>6, <1>2, <1>5, <1>6 DEF Inv, HeldIsCurrent
  <1>9. EdgesAreVisible'
    <2>1. pc[h] = "sup" => id \in about
      BY DEF Inv, HeldIsCurrent
    <2>2. pc[h] # "sup" => edges' = edges
      BY DEF Batch
    <2>3. SupOf(id).newer = id
      BY DEF SupOf, SupRow
    <2> QED BY <2>1, <2>2, <2>3, <1>5, <1>6 DEF Inv, EdgesAreVisible
  <1> QED BY <1>7, <1>8, <1>9 DEF Inv

LEMMA StepInv == Inv /\ [Next]_vars => Inv'
  <1> SUFFICES ASSUME Inv, [Next]_vars PROVE Inv'
    OBVIOUS
  <1>1. ASSUME NEW h \in Handler, ReadClaims(h) PROVE Inv'
    BY <1>1, ReadClaimsInv
  <1>2. ASSUME NEW h \in Handler, ReadEdges(h) PROVE Inv'
    BY <1>2, QuietInv DEF ReadEdges, Inv, TypeOK, HeldIsCurrent, Phase, Outcome, store
  <1>3. ASSUME NEW h \in Handler, NEW wanted, Refuse(h, wanted) PROVE Inv'
    BY <1>3, QuietInv DEF Refuse, Inv, TypeOK, HeldIsCurrent, Phase, Outcome, store
  <1>4. ASSUME NEW h \in Handler, NEW wanted, NEW value \in Value, Build(h, wanted, value)
        PROVE Inv'
    BY <1>4, BuildInv
  <1>5. ASSUME NEW h \in Handler, Write(h) PROVE Inv'
    BY <1>5, WriteInv DEF Write
  <1>6. ASSUME NEW h \in Handler, LoseAck(h) PROVE Inv'
    BY <1>6, WriteInv DEF LoseAck
  <1>7. ASSUME NEW h \in Handler, Fail(h) PROVE Inv'
    BY <1>7, QuietInv DEF Fail, Inv, TypeOK, HeldIsCurrent, Phase, Outcome, store
  <1>8. ASSUME Tick PROVE Inv'
    BY <1>8, QuietInv, NumbersAssumption
       DEF Tick, Inv, TypeOK, HeldIsCurrent, Phase, Outcome, store
  <1>9. ASSUME UNCHANGED vars PROVE Inv'
    BY <1>9, QuietInv DEF vars, Inv, TypeOK, HeldIsCurrent, store
  <1> QED BY <1>1, <1>2, <1>3, <1>4, <1>5, <1>6, <1>7, <1>8, <1>9 DEF Next
LEMMA InvHolds == Spec => []Inv
  BY InitInv, StepInv, PTL DEF Spec

----------------------------------------------------------------------------
(* Typing, completeness, visibility *)

\* The state is well-formed, and the store holds nothing but the ingested data
\* and parts of filed corrections (buildCorrection).
THEOREM TypeCorrect == Spec => []TypeOK
  <1>1. Inv => TypeOK
    BY DEF Inv
  <1> QED BY <1>1, InvHolds, PTL

\* A 201 is not sent before all three batches of loadTwoPhase took effect, and
\* nothing takes them back.
THEOREM AckedComplete == Spec => []AckedIsComplete
  <1>1. Inv => AckedIsComplete
    <2> SUFFICES ASSUME Inv, NEW h \in Handler, pc[h] = "done"
                 PROVE  /\ filed[h] \in about
                        /\ row[filed[h]] = ClaimRow(Key(h))
                        /\ SupRow(filed[h], Key(h)) \in edges
      BY DEF AckedIsComplete
    <2>1. filed[h] \in about /\ SupOf(filed[h]) \in edges
      BY DEF Inv, HeldIsCurrent
    <2>2. filed[h] \in DOMAIN minted /\ filed[h] \notin BaseId /\ filed[h] \in DOMAIN row
      BY <2>1, IdsAssumption DEF Inv, TypeOK
    <2> QED BY <2>1, <2>2 DEF Inv, TypeOK, SupOf, Key
  <1> QED BY <1>1, InvHolds, PTL

\* The order of the edge batches keeps every revision edge between claims the
\* belief read sees, however many writes fail.
THEOREM NoGhosts == Spec => []NoGhostRevision
  <1>1. Inv => NoGhostRevision
    <2> SUFFICES ASSUME Inv, NEW e \in edges PROVE {e.newer, e.older} \subseteq about
      BY DEF NoGhostRevision
    <2>1. CASE e \in BaseEdges
      BY <2>1, BaseAssumption DEF Inv, TypeOK
    <2>2. CASE e \notin BaseEdges
      <3>1. e.newer \in about /\ e.newer \in DOMAIN minted /\ e = SupOf(e.newer)
        BY <2>2 DEF Inv, TypeOK, EdgesAreVisible
      <3>2. e.older = minted[e.newer].target
        BY <3>1 DEF SupOf, SupRow
      <3> QED BY <3>1, <3>2 DEF Inv, HeldIsCurrent
    <2> QED BY <2>1, <2>2
  <1> QED BY <1>1, InvHolds, PTL

----------------------------------------------------------------------------
(* Append-only *)

LEMMA BatchAppends ==
  ASSUME Inv, NEW h \in Handler, pc[h] \in Phase, Batch(h), minted' = minted
  PROVE  /\ \A c \in DOMAIN row : c \in DOMAIN row' /\ row'[c] = row[c]
         /\ about \subseteq about'
         /\ edges \subseteq edges'
  <1> DEFINE id == filed[h]
             e == SupOf(id)
  <1>1. id \in DOMAIN minted /\ id \notin BaseId
    BY IdsAssumption DEF Inv, TypeOK
  <1>2. \A c \in DOMAIN row : c \in DOMAIN row' /\ row'[c] = row[c]
    BY <1>1 DEF Batch, UpsertNode, Inv, TypeOK
  <1>3. about \subseteq about'
    BY DEF Batch, UpsertAbout
  <1>4. \A f \in edges : EdgeKey(f) = EdgeKey(e) => f = e
    <2> SUFFICES ASSUME NEW f \in edges, EdgeKey(f) = EdgeKey(e) PROVE f = e
      OBVIOUS
    <2>1. e.newer = id
      BY DEF SupOf, SupRow
    <2>2. f.newer = id /\ f \notin BaseEdges
      BY <1>1, <2>1, BaseAssumption DEF EdgeKey
    <2> QED BY <2>2 DEF Inv, TypeOK
  <1>5. edges \subseteq edges'
    BY <1>4 DEF Batch, UpsertEdge, SupOf
  <1> QED BY <1>2, <1>3, <1>5

\* "It never updates a property of an existing vertex, never deletes anything"
\* (correction.ts:5): although every statement is a MERGE followed by a SET, no
\* interleaving of corrections and retries changes what is stored.
THEOREM CorrectionsAppend == Spec => AppendOnly
  <1>1. Inv /\ [Next]_vars =>
          [/\ \A c \in DOMAIN row : c \in DOMAIN row' /\ row'[c] = row[c]
           /\ about \subseteq about'
           /\ edges \subseteq edges']_store
    <2> SUFFICES ASSUME Inv, [Next]_vars, store' # store
                 PROVE  /\ \A c \in DOMAIN row : c \in DOMAIN row' /\ row'[c] = row[c]
                        /\ about \subseteq about'
                        /\ edges \subseteq edges'
      OBVIOUS
    <2>1. PICK h \in Handler : Write(h) \/ LoseAck(h)
      BY DEF Next, ReadClaims, ReadEdges, Refuse, Build, Fail, Tick, vars, store
    <2> QED BY <2>1, BatchAppends DEF Write, LoseAck
  <1> QED BY <1>1, InvHolds, PTL DEF Spec, AppendOnly
----------------------------------------------------------------------------
(* The revisions by corrections form a forest *)

\* Every nonempty set of filed corrections has one that targets none of them
\* and one that none of them targets.
Forest ==
  \A S \in SUBSET DOMAIN minted : S # {} =>
    /\ \E i \in S : minted[i].target \notin S
    /\ \E i \in S : \A j \in S : minted[j].target # i

LEMMA ForestInv == Inv /\ Forest /\ [Next]_vars => Forest'
  <1> SUFFICES ASSUME Inv, Forest, [Next]_vars PROVE Forest'
    OBVIOUS
  <1>1. CASE minted' = minted
    BY <1>1 DEF Forest
  <1>2. CASE minted' # minted
    <2>1. PICK h \in Handler, wanted \in ClaimId \union {NoClaim}, value \in Value :
            Build(h, wanted, value)
      BY <1>2 DEF Next, ReadClaims, ReadEdges, Refuse, Write, LoseAck, Fail, Tick, vars
    <2> DEFINE target == Target(h, wanted)
               key == KeyOf(value, target, clock)
    <2>2. PICK id \in IdsOf(key) :
            minted' = [i \in DOMAIN minted \union {id} |-> IF i = id THEN key ELSE minted[i]]
      BY <2>1 DEF Build
    <2>3. /\ DOMAIN minted' = DOMAIN minted \union {id}
          /\ minted'[id] = key /\ key.target = target
          /\ \A i \in DOMAIN minted \ {id} : minted'[i] = minted[i]
      BY <2>2 DEF KeyOf
    <2>4. CASE id \in DOMAIN minted
      <3>1. minted[id] = key
        BY <2>4 DEF IdsOf
      <3> QED BY <2>3, <2>4, <3>1 DEF Forest
    <2>5. CASE id \notin DOMAIN minted
      \* Nothing that was filed before targets the new id.
      <3>1. id \notin about
        BY <2>5, IdsAssumption DEF IdsOf, Inv, TypeOK
      <3>2. target # id /\ \A i \in DOMAIN minted : minted[i].target # id
        BY <2>1, <3>1 DEF Build, Target, Inv, HeldIsCurrent
      <3> SUFFICES ASSUME NEW S \in SUBSET DOMAIN minted', S # {}
                   PROVE  /\ \E i \in S : minted'[i].target \notin S
                          /\ \E i \in S : \A j \in S : minted'[j].target # i
        BY DEF Forest
      <3>3. CASE id \notin S
        <4>1. S \in SUBSET DOMAIN minted /\ \A i \in S : minted'[i] = minted[i]
          BY <2>3, <3>3
        <4> QED BY <4>1 DEF Forest
      <3>4. CASE id \in S
        <4>1. \A j \in S : minted'[j].target # id
          BY <2>3, <2>5, <3>2
        <4>2. \E i \in S : minted'[i].target \notin S
          <5>1. CASE target \notin S
            BY <2>3, <3>4, <5>1
          <5>2. CASE target \in S
            <6> DEFINE T == S \ {id}
            <6>1. T \in SUBSET DOMAIN minted /\ T # {}
              BY <2>3, <3>2, <5>2
            <6>2. PICK i \in T : minted[i].target \notin T
              BY <6>1 DEF Forest
            <6>3. minted'[i] = minted[i] /\ minted[i].target # id
              BY <2>3, <3>2, <6>1
            <6> QED BY <6>2, <6>3
          <5> QED BY <5>1, <5>2
        <4> QED BY <3>4, <4>1, <4>2
      <3> QED BY <3>3, <3>4
    <2> QED BY <2>4, <2>5
  <1> QED BY <1>1, <1>2

LEMMA ForestHolds == Spec => [](Inv /\ Forest)
  <1>1. Init => Inv /\ Forest
    BY InitInv DEF Init, Forest
  <1>2. Inv /\ Forest /\ [Next]_vars => (Inv /\ Forest)'
    BY StepInv, ForestInv
  <1> QED BY <1>1, <1>2, PTL DEF Spec

\* An edge that was not ingested is the one revision of a filed correction.
LEMMA OwnEdges ==
  ASSUME Inv, NEW e \in edges
  PROVE  \/ e \in BaseEdges /\ {e.newer, e.older} \subseteq BaseId
         \/ /\ e.newer \in DOMAIN minted /\ e.newer \in about /\ e.newer \notin BaseId
            /\ e.older = minted[e.newer].target
            /\ e.rel = "SUPERSEDES"
  <1>1. CASE e \in BaseEdges
    BY <1>1, BaseAssumption
  <1>2. CASE e \notin BaseEdges
    <2>1. e.newer \in DOMAIN minted /\ e.newer \in about /\ e = SupOf(e.newer)
      BY <1>2 DEF Inv, TypeOK, EdgesAreVisible
    <2>2. e.newer \notin BaseId
      BY <2>1, IdsAssumption DEF Inv, TypeOK
    <2> QED BY <2>1, <2>2 DEF SupOf, SupRow
  <1> QED BY <1>1, <1>2

\* However corrections interleave, fail and target one another, they close no
\* cycle of SUPERSEDES edges: what the cycle breaking of the fold repairs can
\* only come from ingestion.
THEOREM CorrectionsCloseNoCycle ==
  ASSUME ~HasCycle(EdgesOf(BaseEdges, "SUPERSEDES"))
  PROVE  Spec => []ChainsAreAcyclic
  <1>1. Inv /\ Forest => ChainsAreAcyclic
    <2> SUFFICES ASSUME Inv, Forest, NEW S \in SUBSET Newers(Sup), S # {},
                        \A n \in S : \E e \in Sup : e.newer = n /\ e.older \in S
                 PROVE  FALSE
      BY DEF ChainsAreAcyclic, HasCycle
    <2>1. \A e \in Sup : e \in edges /\ e.rel = "SUPERSEDES"
      BY DEF Sup, EdgesOf
    <2>2. CASE S \intersect BaseId = {}
      <3>1. \A n \in S : n \in DOMAIN minted /\ minted[n].target \in S
        BY <2>1, <2>2, OwnEdges
      <3> QED BY <3>1 DEF Forest
    <2>3. CASE S \intersect BaseId # {}
      <3> DEFINE T == S \intersect BaseId
                 base == EdgesOf(BaseEdges, "SUPERSEDES")
      <3>1. \A n \in T : \E e \in base : e.newer = n /\ e.older \in T
        BY <2>1, OwnEdges DEF EdgesOf
      <3>2. T \in SUBSET Newers(base)
        BY <3>1 DEF Newers
      <3> QED BY <2>3, <3>1, <3>2 DEF HasCycle
    <2> QED BY <2>2, <2>3
  <1> QED BY <1>1, ForestHolds, PTL

\* The claim an acknowledged correction was filed against is displaced for
\* good, and the fold never has to fall back on a displaced claim.
THEOREM TargetsStayStruck == Spec => []AckedTargetStruck
  <1>1. Inv /\ Forest => AckedTargetStruck
    <2> SUFFICES ASSUME Inv, Forest, NEW h \in Handler, pc[h] = "done"
                 PROVE  Standing # {} /\ Key(h).target \notin Standing
      BY DEF AckedTargetStruck
    <2>1. filed[h] \in about /\ SupOf(filed[h]) \in edges /\ filed[h] \in DOMAIN minted
      BY DEF Inv, HeldIsCurrent, TypeOK
    <2>2. Key(h).target \in Olders(Sup)
      BY <2>1 DEF Olders, Sup, EdgesOf, SupOf, SupRow, Key
    <2> DEFINE V == about \ BaseId
    <2>3. V \in SUBSET DOMAIN minted /\ filed[h] \in V
      BY <2>1, IdsAssumption DEF Inv, TypeOK
    <2>4. PICK i \in V : \A j \in V : minted[j].target # i
      BY <2>3 DEF Forest
    <2>5. i \notin Olders(Sup)
      <3> SUFFICES ASSUME NEW e \in edges, e.older = i PROVE FALSE
        BY DEF Olders, Sup, EdgesOf
      <3> QED BY <2>4, OwnEdges
    <2>6. i \notin Newers(EdgesOf(edges, "SUPPORTS"))
      <3> SUFFICES ASSUME NEW e \in edges, e.newer = i, e.rel = "SUPPORTS" PROVE FALSE
        BY DEF Newers, EdgesOf
      <3> QED BY <2>4, OwnEdges
    <2> QED BY <2>2, <2>4, <2>5, <2>6 DEF Standing, Undisplaced
  <1> QED BY <1>1, ForestHolds, PTL

----------------------------------------------------------------------------
(* The refinement *)

LEMMA DivMonotone ==
  ASSUME NEW n \in Nat \ {0}, NEW a \in Nat, NEW b \in Nat, a <= b
  PROVE  a \div n \in Nat /\ a \div n <= b \div n
  OBVIOUS

LEMMA SecondMonotone ==
  ASSUME NEW a \in Nat, NEW b \in Nat, a <= b
  PROVE  Second(a) \in Nat /\ Second(b) \in Nat /\ Second(a) <= Second(b)
  BY DivMonotone, NumbersAssumption DEF Second

\* The next tick is in the same second or in the next one.
LEMMA NextSecond ==
  ASSUME NEW a \in Nat
  PROVE  Second(0) = 0 /\ Second(a + 1) \in {Second(a), Second(a) + 1}
  <1>1. ASSUME NEW n \in Nat \ {0}
        PROVE  0 \div n = 0 /\ (a + 1) \div n \in {a \div n, (a \div n) + 1}
    OBVIOUS
  <1> QED BY <1>1, NumbersAssumption DEF Second

\* A correction is dated by the clock it was built under.
DatedByNow == \A id \in DOMAIN minted : minted[id].at <= clock

LEMMA DatedInv == Inv /\ DatedByNow /\ [Next]_vars => DatedByNow'
  <1> SUFFICES ASSUME Inv, DatedByNow, [Next]_vars PROVE DatedByNow'
    OBVIOUS
  <1>1. clock \in Nat /\ clock' \in {clock, clock + 1}
    BY NumbersAssumption DEF Inv, TypeOK, Next, ReadClaims, ReadEdges, Refuse, Build, Write,
                             LoseAck, Fail, Tick, vars
  <1>2. CASE minted' = minted
    BY <1>1, <1>2 DEF DatedByNow, Inv, TypeOK, KeySet
  <1>3. CASE minted' # minted
    <2>1. PICK h \in Handler, wanted \in ClaimId \union {NoClaim}, value \in Value :
            Build(h, wanted, value)
      BY <1>3 DEF Next, ReadClaims, ReadEdges, Refuse, Write, LoseAck, Fail, Tick, vars
    <2> DEFINE key == KeyOf(value, Target(h, wanted), clock)
    <2>2. PICK id \in IdsOf(key) :
            minted' = [i \in DOMAIN minted \union {id} |-> IF i = id THEN key ELSE minted[i]]
      BY <2>1 DEF Build
    <2>3. key.at = clock /\ clock' = clock
      BY <2>1 DEF KeyOf, Build
    <2> HIDE DEF key
    <2> QED BY <1>1, <2>2, <2>3 DEF DatedByNow
  <1> QED BY <1>2, <1>3

Dated == Inv /\ Forest /\ DatedByNow

LEMMA DatedHolds == Spec => []Dated
  <1>1. Init => Dated
    BY InitInv DEF Init, Forest, DatedByNow, Dated
  <1>2. Dated /\ [Next]_vars => Dated'
    BY StepInv, ForestInv, DatedInv DEF Dated
  <1> QED BY <1>1, <1>2, PTL DEF Spec

\* The reading of the clock that dates a correction is one the log allows.
LEMMA DatedInTime ==
  ASSUME Dated, NEW id \in DOMAIN minted
  PROVE  /\ Second(minted[id].at) \in Log!Readings
         /\ Second(minted[id].at) \in 0..Second(MaxClock)
  <1>1. minted[id].at \in Nat /\ clock \in Nat /\ MaxClock \in Nat
        /\ minted[id].at <= clock /\ clock <= MaxClock
    BY NumbersAssumption DEF Dated, DatedByNow, Inv, TypeOK, KeySet
  <1>2. Second(minted[id].at) \in Nat /\ Second(minted[id].at) <= Second(clock)
    BY <1>1, SecondMonotone
  <1>3. Second(clock) \in Nat /\ Second(MaxClock) \in Nat /\ Second(clock) <= Second(MaxClock)
    BY <1>1, SecondMonotone
  <1> QED BY <1>2, <1>3 DEF Log!Readings

\* While the edge of a correction is missing there is room for it.
LEMMA RoomForTheEdge ==
  ASSUME Inv, NEW id \in DOMAIN minted, SupOf(id) \notin edges
  PROVE  Cardinality(edges) < Cardinality(BaseEdges) + Cardinality(NewId)
  <1> DEFINE D == DOMAIN minted \ {id}
             T == {SupOf(i) : i \in D}
             f == [i \in D |-> SupOf(i)]
  <1>1. id \in NewId /\ D \subseteq NewId \ {id}
    BY DEF Inv, TypeOK
  <1>2. IsFiniteSet(NewId \ {id}) /\ Cardinality(NewId \ {id}) = Cardinality(NewId) - 1
    BY <1>1, FS_RemoveElement, FiniteAssumption
  <1>3. IsFiniteSet(D) /\ Cardinality(D) <= Cardinality(NewId \ {id})
    BY <1>1, <1>2, FS_Subset
  <1>4. f \in Surjection(D, T)
    BY DEF Surjection
  <1> HIDE DEF f
  <1>5. IsFiniteSet(T) /\ Cardinality(T) <= Cardinality(D)
    BY <1>3, <1>4, FS_Surjection
  <1>6. edges \subseteq BaseEdges \union T
    <2> SUFFICES ASSUME NEW e \in edges, e \notin BaseEdges PROVE e \in T
      OBVIOUS
    <2>1. e.newer \in DOMAIN minted /\ e = SupOf(e.newer)
      BY DEF Inv, TypeOK
    <2>2. e.newer # id
      BY <2>1
    <2> QED BY <2>1, <2>2
  <1> HIDE DEF T, D
  <1>7. /\ IsFiniteSet(BaseEdges \union T)
        /\ Cardinality(BaseEdges \union T)
             = Cardinality(BaseEdges) + Cardinality(T) - Cardinality(BaseEdges \cap T)
    BY <1>5, FS_Union, FiniteAssumption
  <1>8. Cardinality(edges) <= Cardinality(BaseEdges \union T) /\ IsFiniteSet(edges)
    BY <1>6, <1>7, FS_Subset
  <1>9. IsFiniteSet(BaseEdges \cap T)
    BY <1>5, FS_Subset
  <1>10. /\ Cardinality(edges) \in Nat /\ Cardinality(BaseEdges \union T) \in Nat
         /\ Cardinality(BaseEdges) \in Nat /\ Cardinality(T) \in Nat
         /\ Cardinality(BaseEdges \cap T) \in Nat /\ Cardinality(D) \in Nat
         /\ Cardinality(NewId) \in Nat /\ Cardinality(NewId \ {id}) \in Nat
    BY <1>2, <1>3, <1>5, <1>7, <1>8, <1>9, FS_CardinalityType, FiniteAssumption
  <1> QED BY <1>2, <1>3, <1>5, <1>7, <1>8, <1>10

\* What the belief read sees of the rows.
LEMMA SameView ==
  ASSUME about' = about, \A c \in about : row'[c] = row[c], edges' = edges, Second(clock') = Second(clock)
  PROVE  UNCHANGED Log!vars
  BY DEF Log!vars

\* A claim that becomes visible, and an edge between visible claims, are steps
\* of the log.
LEMMA ClaimLearnt ==
  ASSUME NEW c \in ClaimId, NEW ingest \in Log!Readings,
         NEW facts \in [event : 0..Second(MaxClock), conf : {CorrectionConfidence},
                        polarity : {"AFFIRM"}],
         c \notin about, about' = about \union {c},
         row[c] = [event |-> facts.event, ingest |-> ingest,
                   conf |-> facts.conf, polarity |-> facts.polarity],
         UNCHANGED <<row, edges, clock>>
  PROVE  Log!Learn
  <1>1. Log!AppendClaim(c, facts, ingest)
    BY DEF Log!AppendClaim, Log!Claims
  <1> QED BY <1>1 DEF Log!Learn

LEMMA EdgeLearnt ==
  ASSUME NEW newer \in about, NEW older \in about, newer # older,
         NEW ingest \in Log!Readings, NEW e,
         e = [rel |-> "SUPERSEDES", newer |-> newer, older |-> older,
              ingest |-> ingest, conf |-> CorrectionConfidence],
         Cardinality(edges) < Cardinality(BaseEdges) + Cardinality(NewId),
         \A f \in edges : EdgeKey(f) # EdgeKey(e),
         edges' = edges \union {e}, UNCHANGED <<row, about, clock>>
  PROVE  Log!Learn
  <1>1. Log!Cardinality(edges) = Cardinality(edges)
    BY DEF Log!Cardinality, Cardinality
  <1>2. \A f \in edges : Log!EdgeKey(f) # Log!EdgeKey(e)
    BY DEF EdgeKey, Log!EdgeKey
  <1>3. Log!AppendEdge("SUPERSEDES", newer, older, ingest, CorrectionConfidence)
    BY <1>1, <1>2 DEF Log!AppendEdge
  <1> QED BY <1>3 DEF Log!Learn, Log!Claims

\* A batch of a correction appends a visible claim, or an edge, or nothing that
\* the belief read sees.
LEMMA BatchRefines ==
  ASSUME Dated, NEW h \in Handler, pc[h] \in Phase, Batch(h), UNCHANGED <<clock, minted>>
  PROVE  [Log!Next]_(Log!vars)
  <1> DEFINE id == filed[h]
             key == minted[id]
  <1>1. id \in DOMAIN minted /\ id \in ClaimId /\ id \notin BaseId
    BY IdsAssumption DEF Dated, Inv, TypeOK, ClaimId
  <1>2. about \subseteq DOMAIN row /\ \A c \in DOMAIN row : row'[c] = row[c]
    BY BatchAppends DEF Dated, Inv, TypeOK
  <1>3. Second(key.at) \in Log!Readings /\ Second(key.at) \in 0..Second(MaxClock)
    BY <1>1, DatedInTime
  <1>4. CASE pc[h] = "claim"
    BY <1>2, <1>4, SameView DEF Batch
  <1>5. CASE pc[h] = "about"
    <2>1. row' = row /\ edges' = edges /\ clock' = clock /\ id \in DOMAIN row
      BY <1>5 DEF Batch, Dated, Inv, HeldIsCurrent
    <2>2. about' = about \union {id}
      BY <1>5, <2>1 DEF Batch, UpsertAbout
    <2>3. CASE id \in about
      <3>1. about' = about
        BY <2>2, <2>3
      <3> QED BY <2>1, <3>1, SameView
    <2>4. CASE id \notin about
      <3> DEFINE facts == [event |-> Second(key.at), conf |-> CorrectionConfidence,
                           polarity |-> "AFFIRM"]
      <3>1. row[id] = ClaimRow(key)
        BY <1>1, <2>1 DEF Dated, Inv, TypeOK
      <3>2. facts \in [event : 0..Second(MaxClock), conf : {CorrectionConfidence},
                       polarity : {"AFFIRM"}]
        BY <1>3
      <3>3. ClaimRow(key) = [event |-> facts.event, ingest |-> Second(key.at),
                             conf |-> facts.conf, polarity |-> facts.polarity]
        BY DEF ClaimRow
      <3> HIDE DEF facts
      <3>4. Log!Learn
        BY <1>1, <1>3, <2>1, <2>2, <2>4, <3>1, <3>2, <3>3, ClaimLearnt
      <3> QED BY <3>4 DEF Log!Next
    <2> QED BY <2>3, <2>4
  <1>6. CASE pc[h] = "sup"
    <2> DEFINE e == SupOf(id)
    <2>1. /\ e = [rel |-> "SUPERSEDES", newer |-> id, older |-> key.target,
                  ingest |-> Second(key.at), conf |-> CorrectionConfidence]
          /\ row' = row /\ about' = about /\ clock' = clock
      BY <1>6 DEF Batch, SupOf, SupRow
    <2>2. id \in about /\ key.target \in about
      BY <1>1, <1>6 DEF Dated, Inv, HeldIsCurrent
    <2>3. edges' = {f \in edges : EdgeKey(f) # EdgeKey(e)} \union {e}
      BY <1>2, <1>6, <2>1, <2>2 DEF Batch, UpsertEdge, SupOf
    <2>4. edges \subseteq edges'
      BY BatchAppends DEF Dated
    <2>5. edges' = edges \union {e} /\ \A f \in edges : EdgeKey(f) = EdgeKey(e) => f = e
      BY <2>3, <2>4
    <2>6. CASE e \in edges
      <3>1. edges' = edges
        BY <2>5, <2>6
      <3> QED BY <2>1, <3>1, SameView
    <2>7. CASE e \notin edges
      <3>1. Cardinality(edges) < Cardinality(BaseEdges) + Cardinality(NewId)
        BY <1>1, <2>7, RoomForTheEdge DEF Dated
      <3>2. id # key.target
        <4>1. PICK i \in {id} : minted[i].target \notin {id}
          BY <1>1 DEF Dated, Forest
        <4> QED BY <4>1
      <3>3. \A f \in edges : EdgeKey(f) # EdgeKey(e)
        BY <2>5, <2>7
      <3> HIDE DEF e
      <3>4. Log!Learn
        BY <1>3, <2>1, <2>2, <2>5, <3>1, <3>2, <3>3, EdgeLearnt
      <3> QED BY <3>4 DEF Log!Next
    <2> QED BY <2>6, <2>7
  <1> QED BY <1>4, <1>5, <1>6 DEF Phase

LEMMA TickRefines ==
  ASSUME Dated, Tick
  PROVE  [Log!Next]_(Log!vars)
  <1>1. clock \in Nat /\ clock' = clock + 1 /\ clock + 1 <= MaxClock /\ MaxClock \in Nat
    BY NumbersAssumption DEF Dated, Inv, TypeOK, Tick
  <1>2. Second(clock') \in {Second(clock), Second(clock) + 1} /\ Second(clock) \in Nat
    BY <1>1, NextSecond, SecondMonotone
  <1>3. Second(clock') <= Second(MaxClock) /\ Second(MaxClock) \in Nat
    BY <1>1, SecondMonotone
  <1>4. UNCHANGED store
    BY DEF Tick
  <1>5. CASE Second(clock') = Second(clock)
    BY <1>4, <1>5, SameView DEF store
  <1>6. CASE Second(clock') = Second(clock) + 1
    BY <1>2, <1>3, <1>4, <1>6 DEF Log!Next, Log!Advance, store
  <1> QED BY <1>2, <1>5, <1>6

\* What the belief read can see of the store is an append-only log of claims
\* and edges dated by the clock (RevisionLog), whatever corrections interleave,
\* are sent again or fail on the way.
THEOREM CorrectionsImplementLog == Spec => ImplementsLog
  <1>1. Init => Log!Init
    <2> SUFFICES ASSUME Init PROVE Log!Init
      OBVIOUS
    <2>1. Second(0) = 0
      BY NextSecond
    <2> QED BY <2>1, FiniteAssumption DEF Init, Log!Init
  <1>2. Dated /\ [Next]_vars => [Log!Next]_(Log!vars)
    <2> SUFFICES ASSUME Dated, [Next]_vars PROVE [Log!Next]_(Log!vars)
      OBVIOUS
    <2>1. CASE UNCHANGED <<clock, store>>
      BY <2>1, SameView DEF store
    <2>2. CASE Tick
      BY <2>2, TickRefines
    <2>3. ASSUME NEW h \in Handler, Write(h) \/ LoseAck(h) PROVE [Log!Next]_(Log!vars)
      BY <2>3, BatchRefines DEF Write, LoseAck
    <2> QED
      BY <2>1, <2>2, <2>3 DEF Next, ReadClaims, ReadEdges, Refuse, Build, Fail, vars, store
  <1> QED BY <1>1, <1>2, DatedHolds, PTL DEF Spec, ImplementsLog, Log!Spec

----------------------------------------------------------------------------
(* What the fold makes of the corrected store *)

\* A correction is no older than the correction it targets.
TargetsAreEarlier ==
  \A i \in DOMAIN minted :
    minted[i].target \in DOMAIN minted => minted[minted[i].target].at <= minted[i].at

LEMMA TargetsInv == Dated /\ TargetsAreEarlier /\ [Next]_vars => TargetsAreEarlier'
  <1> SUFFICES ASSUME Dated, TargetsAreEarlier, [Next]_vars PROVE TargetsAreEarlier'
    OBVIOUS
  <1>1. CASE minted' = minted
    BY <1>1 DEF TargetsAreEarlier
  <1>2. CASE minted' # minted
    <2>1. PICK h \in Handler, wanted \in ClaimId \union {NoClaim}, value \in Value :
            Build(h, wanted, value)
      BY <1>2 DEF Next, ReadClaims, ReadEdges, Refuse, Write, LoseAck, Fail, Tick, vars
    <2> DEFINE target == Target(h, wanted)
               key == KeyOf(value, target, clock)
    <2>2. PICK id \in IdsOf(key) :
            minted' = [i \in DOMAIN minted \union {id} |-> IF i = id THEN key ELSE minted[i]]
      BY <2>1 DEF Build
    <2>3. /\ DOMAIN minted' = DOMAIN minted \union {id}
          /\ minted'[id] = key /\ key.target = target /\ key.at = clock
          /\ \A i \in DOMAIN minted \ {id} : minted'[i] = minted[i]
      BY <2>2 DEF KeyOf
    <2>4. CASE id \in DOMAIN minted
      <3>1. minted[id] = key
        BY <2>4 DEF IdsOf
      <3>2. DOMAIN minted' = DOMAIN minted /\ \A i \in DOMAIN minted : minted'[i] = minted[i]
        BY <2>3, <2>4, <3>1
      <3> QED BY <3>2 DEF TargetsAreEarlier
    <2>5. CASE id \notin DOMAIN minted
      <3>1. id \notin about
        BY <2>5, IdsAssumption DEF IdsOf, Dated, Inv, TypeOK
      <3>2. target # id /\ \A i \in DOMAIN minted : minted[i].target # id
        BY <2>1, <3>1 DEF Build, Target, Dated, Inv, HeldIsCurrent
      <3>3. \A i \in DOMAIN minted : minted[i].at <= clock
        BY DEF Dated, DatedByNow
      <3> SUFFICES ASSUME NEW i \in DOMAIN minted', minted'[i].target \in DOMAIN minted'
                   PROVE  minted'[minted'[i].target].at <= minted'[i].at
        BY DEF TargetsAreEarlier
      <3>4. CASE i = id
        <4>1. minted'[i].target = target /\ target \in DOMAIN minted /\ minted'[i].at = clock
          BY <2>3, <3>2, <3>4
        <4>2. minted'[target] = minted[target]
          BY <2>3, <3>2, <4>1
        <4> QED BY <3>3, <4>1, <4>2
      <3>5. CASE i # id
        <4>1. i \in DOMAIN minted /\ minted'[i] = minted[i] /\ minted[i].target # id
          BY <2>3, <3>2, <3>5
        <4>2. minted[i].target \in DOMAIN minted /\ minted'[minted[i].target] = minted[minted[i].target]
          BY <2>3, <4>1
        <4> QED BY <4>1, <4>2 DEF TargetsAreEarlier
      <3> QED BY <3>4, <3>5
    <2> QED BY <2>4, <2>5
  <1> QED BY <1>1, <1>2

LEMMA IdsAreIntegers == \A c : c \in BaseId \/ c \in NewId => c \in Int
  <1>1. \A c \in Nat : c \in Int
    OBVIOUS
  <1>2. ASSUME NEW c \in BaseId PROVE c \in Int
    BY <1>1, IdsAssumption
  <1>3. ASSUME NEW c \in NewId PROVE c \in Int
    BY <1>1, IdsAssumption
  <1> QED BY <1>2, <1>3

\* What the belief read returns can be folded: it is finite and numbered, one
\* SUPERSEDES edge joins two claims, and no claim revises itself.
LEMMA StoreIsReadable ==
  ASSUME Dated, NEW R, \A c \in about : R[c] = row[c]
  PROVE  Readable(about, R, edges)
  <1>1. about \subseteq BaseId \union NewId /\ about \subseteq DOMAIN row
    BY DEF Dated, Inv, TypeOK
  <1>2. IsFiniteSet(about)
    <2>1. IsFiniteSet(BaseId \union NewId)
      BY FiniteAssumption, FS_Union
    <2> QED BY <1>1, <2>1, FS_Subset
  <1>3. Comparable(about, R)
    <2>1. about \subseteq Int
      BY <1>1, IdsAreIntegers
    <2>2. ASSUME NEW c \in about
          PROVE  row[c].event \in Int /\ row[c].ingest \in Int /\ row[c].conf \in Int
      <3>1. CASE c \in BaseId
        BY <1>1, <3>1, IngestedAssumption DEF Dated, Inv, TypeOK
      <3>2. CASE c \notin BaseId
        <4>1. c \in DOMAIN minted /\ row[c] = ClaimRow(minted[c]) /\ minted[c].at \in 0..MaxClock
          BY <1>1, <3>2 DEF Dated, Inv, TypeOK, KeySet
        <4>2. Second(minted[c].at) \in Int
          BY <4>1, NumbersAssumption DEF Second
        <4> QED BY <4>1, <4>2 DEF ClaimRow, CorrectionConfidence
      <3> QED BY <3>1, <3>2
    <2> QED BY <2>1, <2>2 DEF Comparable
  <1>4. EdgeSet(Sup)
    <2>1. edges \subseteq BaseEdges \union {SupOf(i) : i \in DOMAIN minted}
      BY DEF Dated, Inv, TypeOK
    <2>2. IsFiniteSet(Sup)
      <3> DEFINE own == {SupOf(i) : i \in DOMAIN minted}
                 f == [i \in DOMAIN minted |-> SupOf(i)]
      <3>1. IsFiniteSet(DOMAIN minted)
        BY FiniteAssumption, FS_Subset DEF Dated, Inv, TypeOK
      <3>2. f \in Surjection(DOMAIN minted, own)
        BY DEF Surjection
      <3> HIDE DEF f
      <3>3. IsFiniteSet(own)
        BY <3>1, <3>2, FS_Surjection
      <3> HIDE DEF own
      <3>4. IsFiniteSet(BaseEdges \union own)
        BY <3>3, FiniteAssumption, FS_Union
      <3>5. Sup \subseteq BaseEdges \union own
        BY <2>1 DEF Sup, EdgesOf, own
      <3> QED BY <3>4, <3>5, FS_Subset
    <2>3. ASSUME NEW e \in edges
          PROVE  /\ e.rel \in Relation
                 /\ e.newer \in Int /\ e.older \in Int /\ e.newer # e.older
                 /\ e.conf \in Int /\ e.ingest \in Int
      <3>1. CASE e \in BaseEdges
        <4>1. {e.newer, e.older} \subseteq Int
          BY <3>1, BaseAssumption, IdsAreIntegers
        <4> QED BY <3>1, <4>1, IngestedAssumption
      <3>2. CASE e \notin BaseEdges
        <4>1. e.newer \in DOMAIN minted /\ e = SupOf(e.newer)
          BY <3>2 DEF Dated, Inv, TypeOK
        <4>2. /\ e.rel = "SUPERSEDES" /\ e.older = minted[e.newer].target
              /\ e.conf = CorrectionConfidence /\ e.ingest = Second(minted[e.newer].at)
          BY <4>1 DEF SupOf, SupRow
        <4>3. minted[e.newer] \in KeySet /\ e.newer \in Int
          BY <4>1, IdsAssumption DEF Dated, Inv, TypeOK
        <4>4. minted[e.newer].target \in Int /\ Second(minted[e.newer].at) \in Int
          BY <4>3, IdsAreIntegers, NumbersAssumption DEF KeySet, ClaimId, Second
        <4>5. minted[e.newer].target # e.newer
          <5>1. {e.newer} \in SUBSET DOMAIN minted /\ {e.newer} # {}
            BY <4>1
          <5> QED BY <5>1 DEF Dated, Forest
        <4> QED BY <4>2, <4>3, <4>4, <4>5 DEF CorrectionConfidence, Relation
      <3> QED BY <3>1, <3>2
    <2>4. ASSUME NEW e \in Sup, NEW f \in Sup, e.newer = f.newer, e.older = f.older PROVE e = f
      <3>1. e \in edges /\ f \in edges /\ e.rel = f.rel
        BY DEF Sup, EdgesOf
      <3>2. CASE e.newer \in BaseId
        <4>1. e \in BaseEdges /\ f \in BaseEdges
          BY <2>4, <3>1, <3>2, OwnEdges DEF Dated
        <4> QED BY <2>4, <3>1, <4>1, BaseAssumption DEF EdgeKey
      <3>3. CASE e.newer \notin BaseId
        <4>1. e \notin BaseEdges /\ f \notin BaseEdges
          BY <2>4, <3>3, BaseAssumption
        <4>2. e = SupOf(e.newer) /\ f = SupOf(f.newer)
          BY <3>1, <4>1 DEF Dated, Inv, TypeOK
        <4> QED BY <2>4, <4>2
      <3> QED BY <3>2, <3>3
    <2>5. Sup \subseteq edges
      BY DEF Sup, EdgesOf
    <2> QED BY <2>2, <2>3, <2>4, <2>5 DEF EdgeSet
  <1> QED BY <1>2, <1>3, <1>4 DEF Readable, Sup

\* A correction dated later than everything else that is visible is the
\* belief, whether its revision edge has been written or not and whatever the
\* ingested revisions say.
THEOREM LatestCorrectionLeads == Spec => []LatestCorrectionWins
  <1>1. Dated /\ TargetsAreEarlier => LatestCorrectionWins
    <2> SUFFICES ASSUME Dated, TargetsAreEarlier, NEW c \in about \ BaseId,
                        \A d \in about \ {c} : row[d].event < row[c].event
                 PROVE  Belief.first = c
      BY DEF LatestCorrectionWins
    <2>1. Readable(about, row, edges)
      BY StoreIsReadable
    <2>2. c \in DOMAIN minted /\ row[c] = ClaimRow(minted[c])
      BY DEF Dated, Inv, TypeOK
    <2>3. c \notin Olders(Sup)
      <3> SUFFICES ASSUME NEW e \in Sup, e.older = c PROVE FALSE
        BY DEF Olders
      <3>1. e \in edges
        BY DEF Sup, EdgesOf
      <3>2. e.newer \in DOMAIN minted /\ e.newer \in about /\ e.newer \notin BaseId /\ minted[e.newer].target = c
        BY <3>1, OwnEdges DEF Dated
      <3> DEFINE i == e.newer
      <3> HIDE DEF i
      <3>3. i \in DOMAIN minted /\ i \in about /\ i \notin BaseId /\ minted[i].target = c
        BY <3>2 DEF i
      <3>4. i # c
        <4>1. {i} \in SUBSET DOMAIN minted /\ {i} # {}
          BY <3>3
        <4> QED BY <3>3, <4>1 DEF Dated, Forest
      <3>5. row[i].event < row[c].event /\ row[i] = ClaimRow(minted[i])
        BY <3>3, <3>4 DEF Dated, Inv, TypeOK
      <3>6. Second(minted[i].at) < Second(minted[c].at)
        BY <2>2, <3>5 DEF ClaimRow
      <3>7. minted[c].at <= minted[i].at
        BY <2>2, <3>3 DEF TargetsAreEarlier
      <3>8. minted[c].at \in Nat /\ minted[i].at \in Nat
        BY <2>2, <3>3, NumbersAssumption DEF Dated, Inv, TypeOK, KeySet
      <3>9. Second(minted[c].at) <= Second(minted[i].at) /\ Second(minted[c].at) \in Int /\ Second(minted[i].at) \in Int
        BY <3>7, <3>8, NumbersAssumption DEF Second
      <3> QED BY <3>6, <3>9
    <2>4. c \notin Newers(EdgesOf(edges, "SUPPORTS"))
      <3> SUFFICES ASSUME NEW e \in edges, e.rel = "SUPPORTS", e.newer = c PROVE FALSE
        BY DEF Newers, EdgesOf
      <3> QED BY OwnEdges DEF Dated
    <2>5. c \notin Negations(about, row)
      BY <2>2 DEF Negations, ClaimRow
    <2>6. about # {}
      OBVIOUS
    <2>7. CASE Arity = "FUNCTIONAL"
      <3>1. Belief = ResolveFunctional(about, row, edges)
        BY <2>6, <2>7 DEF Belief, ResolveBelief
      <3>2. ResolveFunctional(about, row, edges).first = c
        BY <2>1, <2>3, <2>4, LatestLeads DEF Sup
      <3> QED BY <3>1, <3>2
    <2>8. CASE Arity # "FUNCTIONAL"
      <3>1. Belief = ResolveMulti(about, row, edges)
        BY <2>6, <2>8 DEF Belief, ResolveBelief
      <3>2. ResolveMulti(about, row, edges).first = c
        BY <2>1, <2>3, <2>4, <2>5, LatestMemberLeads DEF Sup
      <3> QED BY <3>1, <3>2
    <2> QED BY <2>7, <2>8
  <1>2. Init => TargetsAreEarlier
    BY DEF Init, TargetsAreEarlier
  <1> QED BY <1>1, <1>2, TargetsInv, DatedHolds, PTL DEF Spec
===============================================================================
