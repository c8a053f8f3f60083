----------------------------- MODULE Corrections -----------------------------
(***************************************************************************)
(* POST /api/correction (apps/api/src/correction.ts, buildCorrection of    *)
(* packages/ingest/src/build.ts, loadTwoPhase of packages/graph/src/       *)
(* bolt.ts): concurrent requests about one (subject, attribute) of one     *)
(* history.  A handler yields at every await: the validating read, the     *)
(* edge reads, and each of the three writes.                               *)
(*                                                                         *)
(* The clock counts milliseconds, coarsely: TicksPerSec ticks make one     *)
(* second, and a correction's event and ingest time are its second.  The   *)
(* three edge reads run in parallel; a correction only ever adds           *)
(* SUPERSEDES edges, so reading all three at once loses nothing.           *)
(* The value and the target of a request are chosen where they are used.   *)
(***************************************************************************)
EXTENDS GraphStore

CONSTANTS
  Handler,     \* the requests
  Value,       \* the normalized values a request may carry
  BaseRow,     \* the ingested claims, each with its row
  BaseEdges,   \* the ingested revision edges
  NewId,       \* the vertex ids that corrections hash to
  Arity,       \* the arity of the attribute
  TicksPerSec, \* clock ticks in a second
  MaxClock,    \* bound on the clock
  ReadLimit    \* the LIMIT of the two statements, 500 in the code

BaseId == DOMAIN BaseRow
ClaimId == BaseId \union NewId

ASSUME IdsAssumption == /\ BaseId \subseteq Nat /\ NewId \subseteq Nat
                        /\ BaseId \intersect NewId = {}
ASSUME BaseAssumption ==
  /\ \A e \in BaseEdges : {e.newer, e.older} \subseteq BaseId
  /\ \A e, f \in BaseEdges : EdgeKey(e) = EdgeKey(f) => e = f
ASSUME FiniteAssumption ==
  /\ BaseRow = [c \in BaseId |-> BaseRow[c]]
  /\ IsFiniteSet(BaseId) /\ IsFiniteSet(BaseEdges) /\ IsFiniteSet(NewId)
ASSUME IngestedAssumption ==
  /\ \A c \in BaseId : {BaseRow[c].event, BaseRow[c].ingest, BaseRow[c].conf} \subseteq Int
  /\ \A e \in BaseEdges : /\ e.rel \in Relation /\ {e.ingest, e.conf} \subseteq Int
                          /\ e.newer # e.older
ASSUME NumbersAssumption ==
  TicksPerSec \in Nat \ {0} /\ MaxClock \in Nat /\ ReadLimit \in Nat \ {0}

VARIABLES
  clock,      \* wall clock
  row, about, edges, \* the store, see GraphStore
  minted,     \* the correction ids computed so far, each with its natural key
  pc,         \* the await each handler is at, or its outcome
  claimsRead, \* the claims its validating read returned
  edgesRead,  \* the edges its edge reads returned
  filed       \* the claim id it built, or NoClaim

store == <<row, about, edges>>
vars == <<clock, row, about, edges, minted, pc, claimsRead, edgesRead, filed>>

CorrectionConfidence == 99

Second(ticks) == ticks \div TicksPerSec

----------------------------------------------------------------------------
(* The rows of a correction *)

\* The variable parts of keys.correction.  Distinct keys hash to distinct ids.
KeyOf(value, target, at) == [value |-> value, target |-> target, at |-> at]

\* A faulty variant: the key is the value alone, so that filing a value again
\* re-keys the claim that has it.
IdsOfByValue(key) ==
  LET known == {id \in DOMAIN minted : minted[id].value = key.value}
  IN  IF known # {} THEN known ELSE NewId \ DOMAIN minted

\* The ids a key may have: the one it had before, or any unused one.
IdsOf(key) ==
  LET known == {id \in DOMAIN minted : minted[id] = key}
  IN  IF known # {} THEN known ELSE NewId \ DOMAIN minted

\* A faulty variant: milliseconds where seconds are meant.
ClaimRowInMillis(key) ==
  [event |-> key.at, ingest |-> key.at,
   conf |-> CorrectionConfidence, polarity |-> "AFFIRM"]

ClaimRow(key) ==
  [event |-> Second(key.at), ingest |-> Second(key.at),
   conf |-> CorrectionConfidence, polarity |-> "AFFIRM"]

\* A faulty variant: source and destination swapped.
SupRowSwapped(id, key) ==
  [rel |-> "SUPERSEDES", newer |-> key.target, older |-> id,
   ingest |-> Second(key.at), conf |-> CorrectionConfidence]

SupRow(id, key) ==
  [rel |-> "SUPERSEDES", newer |-> id, older |-> key.target,
   ingest |-> Second(key.at), conf |-> CorrectionConfidence]

----------------------------------------------------------------------------
(* correctionWrite *)

Init ==
  /\ clock = 0
  /\ row = BaseRow /\ about = BaseId /\ edges = BaseEdges
  /\ minted = << >>
  /\ pc = [h \in Handler |-> "start"]
  /\ claimsRead = [h \in Handler |-> {}]
  /\ edgesRead = [h \in Handler |-> {}]
  /\ filed = [h \in Handler |-> NoClaim]

\* The validating read: 404 when nothing is known about the anchor.
ReadClaims(h) ==
  /\ pc[h] = "start"
  /\ \E page \in ClaimPages(row, about, ReadLimit) :
       /\ claimsRead' = [claimsRead EXCEPT ![h] = page]
       /\ pc' = [pc EXCEPT ![h] = IF page = {} THEN "refused" ELSE "edges"]
  /\ UNCHANGED <<clock, store, minted, edgesRead, filed>>

ReadEdges(h) ==
  /\ pc[h] = "edges"
  /\ \E sup \in EdgePages(about, edges, "SUPERSEDES", ReadLimit),
        con \in EdgePages(about, edges, "CONTRADICTS", ReadLimit),
        spt \in EdgePages(about, edges, "SUPPORTS", ReadLimit) :
       edgesRead' = [edgesRead EXCEPT ![h] = sup \union con \union spt]
  /\ pc' = [pc EXCEPT ![h] = "build"]
  /\ UNCHANGED <<clock, store, minted, claimsRead, filed>>

\* The claim to displace: the caller's, else the head of what was read; it
\* must be among the claims read.  NoClaim stands for the 409s.
Target(h, wanted) ==
  LET head == ResolveBelief(Arity, claimsRead[h], row, edgesRead[h]).first
      named == IF wanted = NoClaim THEN head ELSE wanted
  IN  IF named \in claimsRead[h] THEN named ELSE NoClaim

Refuse(h, wanted) ==
  /\ pc[h] = "build"
  /\ Target(h, wanted) = NoClaim
  /\ pc' = [pc EXCEPT ![h] = "refused"]
  /\ UNCHANGED <<clock, store, minted, claimsRead, edgesRead, filed>>

\* buildCorrection, at the instant of Date.now().
Build(h, wanted, value) ==
  /\ pc[h] = "build"
  /\ \E target \in {Target(h, wanted)} :
       /\ target # NoClaim
       /\ \E id \in IdsOf(KeyOf(value, target, clock)) :
            /\ minted' = [i \in DOMAIN minted \union {id} |->
                            IF i = id THEN KeyOf(value, target, clock) ELSE minted[i]]
            /\ filed' = [filed EXCEPT ![h] = id]
  /\ pc' = [pc EXCEPT ![h] = "claim"]
  /\ claimsRead' = [claimsRead EXCEPT ![h] = {}]
  /\ edgesRead' = [edgesRead EXCEPT ![h] = {}]
  /\ UNCHANGED <<clock, store>>

Phase == {"claim", "about", "sup"}

\* A faulty variant: the caller is answered before the revision edge is written.
NextPhaseEarly == [claim |-> "about", about |-> "done", sup |-> "done"]

\* A faulty variant: the edge batches in the other order.
NextPhaseSwapped == [claim |-> "sup", sup |-> "about", about |-> "done"]

\* loadTwoPhase: the node batch, then the edge batches in order.  After the
\* last one the caller is answered 201.
NextPhase == [claim |-> "about", about |-> "sup", sup |-> "done"]

\* What the batch of the phase h is in does to the store.
Batch(h) ==
  LET id == filed[h]
      key == minted[id]
  IN  /\ row' = IF pc[h] = "claim" THEN UpsertNode(row, id, ClaimRow(key)) ELSE row
      /\ about' = IF pc[h] = "about" THEN UpsertAbout(row, about, id) ELSE about
      /\ edges' = IF pc[h] = "sup" THEN UpsertEdge(row, edges, SupRow(id, key)) ELSE edges

Write(h) ==
  /\ pc[h] \in Phase
  /\ Batch(h)
  /\ pc' = [pc EXCEPT ![h] = NextPhase[pc[h]]]
  /\ UNCHANGED <<clock, minted, claimsRead, edgesRead, filed>>

\* writeWithRetry: the batch took effect but its acknowledgement was lost, and
\* it will be sent again.  (A batch that had no effect changes nothing.)
LoseAck(h) ==
  /\ pc[h] \in Phase
  /\ Batch(h)
  /\ UNCHANGED <<clock, minted, pc, claimsRead, edgesRead, filed>>

\* The attempts are used up, or the error is of another kind, and the batch
\* had no effect (it has, if an acknowledgement was lost before).  Nothing
\* undoes the earlier batches.
Fail(h) ==
  /\ pc[h] \in Phase
  /\ pc' = [pc EXCEPT ![h] = "failed"]
  /\ UNCHANGED <<clock, store, minted, claimsRead, edgesRead, filed>>

Tick ==
  /\ clock < MaxClock
  /\ clock' = clock + 1
  /\ UNCHANGED <<store, minted, pc, claimsRead, edgesRead, filed>>

Next ==
  \/ \E h \in Handler :
       \/ ReadClaims(h) \/ ReadEdges(h)
       \/ \E wanted \in ClaimId \union {NoClaim} : Refuse(h, wanted)
       \/ \E wanted \in ClaimId \union {NoClaim}, value \in Value : Build(h, wanted, value)
       \/ Write(h) \/ LoseAck(h) \/ Fail(h)
  \/ Tick

Spec == Init /\ [][Next]_vars

----------------------------------------------------------------------------
(* Properties *)

Sup == EdgesOf(edges, "SUPERSEDES")
Key(h) == minted[filed[h]]
Belief == ResolveBelief(Arity, about, row, edges)

Outcome == {"done", "refused", "failed"}
KeySet == [value : Value, target : ClaimId, at : 0..MaxClock]
SupOf(id) == SupRow(id, minted[id])

\* The state is well-formed; every vertex, ABOUT edge and revision edge beyond
\* the ingested ones is what some filed correction consists of.
TypeOK ==
  /\ clock \in 0..MaxClock
  /\ DOMAIN minted \subseteq NewId /\ \A id \in DOMAIN minted : minted[id] \in KeySet
  /\ DOMAIN row \subseteq BaseId \union DOMAIN minted /\ BaseId \subseteq DOMAIN row
  /\ \A id \in DOMAIN row :
       row[id] = IF id \in BaseId THEN BaseRow[id] ELSE ClaimRow(minted[id])
  /\ BaseId \subseteq about /\ about \subseteq DOMAIN row
  /\ BaseEdges \subseteq edges
  /\ \A e \in edges \ BaseEdges : e.newer \in DOMAIN minted /\ e = SupOf(e.newer)
  /\ pc \in [Handler -> {"start", "edges", "build"} \union Phase \union Outcome]
  /\ filed \in [Handler -> {NoClaim} \union DOMAIN minted]
  /\ \A h \in Handler : pc[h] \in Phase \union {"done"} => filed[h] # NoClaim

\* "It never updates a property of an existing vertex, never deletes anything"
\* (correction.ts:5): no step changes or removes a vertex or an edge, although
\* every statement is a MERGE that overwrites.
AppendOnly ==
  [][/\ \A c \in DOMAIN row : c \in DOMAIN row' /\ row'[c] = row[c]
     /\ about \subseteq about'
     /\ edges \subseteq edges']_store

\* A correction that was answered 201 is in the store with all its parts.
AckedIsComplete ==
  \A h \in Handler : pc[h] = "done" =>
    /\ filed[h] \in about
    /\ row[filed[h]] = ClaimRow(Key(h))
    /\ SupRow(filed[h], Key(h)) \in edges

\* Both ends of a revision edge are visible to the belief read, whichever
\* writes failed: nothing is ever displaced by a claim nobody can see.
NoGhostRevision == \A e \in edges : {e.newer, e.older} \subseteq about

\* Concurrent corrections that target one another's claims never revise in a
\* circle.
ChainsAreAcyclic == ~HasCycle(Sup)

\* The part of AckedTargetFalls that does not depend on how the fold chooses:
\* among the claims no revision displaced there is one, and it is not the
\* target.
Standing == Undisplaced(about, edges, Sup)

AckedTargetStruck ==
  \A h \in Handler : pc[h] = "done" => Standing # {} /\ Key(h).target \notin Standing

\* A correction later than every other visible claim is the belief, from the
\* moment it is visible, its SUPERSEDES edge written or not.
LatestCorrectionWins ==
  \A c \in about \ BaseId :
    (\A d \in about \ {c} : row[d].event < row[c].event) => Belief.first = c

\* The store only ever changes by appending one claim or one edge, dated by a
\* reading of the clock, and an edge only between claims that are there: what
\* the belief read can see of it behaves as RevisionLog.
Log == INSTANCE RevisionLog WITH
  row <- [c \in about |-> row[c]],
  now <- Second(clock),
  FactsOf <- LAMBDA c : [event : 0..Second(MaxClock), conf : {CorrectionConfidence},
                         polarity : {"AFFIRM"}],
  EdgeConfs <- LAMBDA newer, older : {CorrectionConfidence},
  Relations <- {"SUPERSEDES"},
  MaxLag <- Second(MaxClock),
  MaxTime <- Second(MaxClock),
  MaxEdges <- Cardinality(BaseEdges) + Cardinality(NewId)

ImplementsLog == Log!Spec
===============================================================================
