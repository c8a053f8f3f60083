------------------------------ MODULE SiteStore ------------------------------
(***************************************************************************)
(* The belief graph as the web app meets it (apps/web): the claims of the  *)
(* demo subject, corrected by this visitor and by others.  The statements  *)
(* of one correction are taken apart in Corrections.tla, the reads of one  *)
(* answer in Api.tla.                                                      *)
(***************************************************************************)
EXTENDS BeliefFold

CONSTANTS
  BaseRow,      \* the ingested claims: [attr, event, ingest, conf, polarity, value]
  BaseEdges,    \* their revisions
  CorrectionId  \* the ids of corrections

ASSUME SiteAssumption ==
  /\ CorrectionId \subseteq Nat /\ CorrectionId \intersect DOMAIN BaseRow = {}
  /\ DOMAIN BaseRow \subseteq Nat /\ IsFiniteSet(DOMAIN BaseRow) /\ IsFiniteSet(BaseEdges)
  /\ \A c \in DOMAIN BaseRow :
       {BaseRow[c].event, BaseRow[c].ingest, BaseRow[c].conf} \subseteq Int
  /\ \A e \in BaseEdges :
       /\ e.rel \in Relation /\ {e.ingest, e.conf} \subseteq Int
       /\ {e.newer, e.older} \subseteq DOMAIN BaseRow /\ e.newer # e.older
       /\ BaseRow[e.newer].attr = BaseRow[e.older].attr
  /\ \A e, f \in BaseEdges :
       e.rel = f.rel /\ e.newer = f.newer /\ e.older = f.older => e = f

VARIABLES
  row,   \* claim id -> the claim
  edges  \* the revision edges

store == <<row, edges>>

\* What ingestion calls the value of nobody's correction.
Ingested == 0

Of(attr) == {c \in DOMAIN row : row[c].attr = attr}
BeliefOf(attr) == ResolveBelief("FUNCTIONAL", Of(attr), row, edges)

\* The second of the last write: the clock has not gone back since.
LastSecond == CHOOSE t \in {row[c].ingest : c \in DOMAIN row} :
                \A c \in DOMAIN row : row[c].ingest <= t

\* POST /api/correction: a new claim that supersedes the target, in the
\* second of the last write or in a later one.
AppendCorrection(target, value) ==
  \E c \in CorrectionId \ DOMAIN row, t \in LastSecond..LastSecond + 1 :
    /\ row' = [d \in DOMAIN row \union {c} |->
                 IF d = c THEN [attr |-> row[target].attr, event |-> t, ingest |-> t,
                                conf |-> 99, polarity |-> "AFFIRM", value |-> value]
                 ELSE row[d]]
    /\ edges' = edges \union {[rel |-> "SUPERSEDES", newer |-> c, older |-> target,
                               ingest |-> t, conf |-> 99]}

\* Another visitor corrects the belief of the moment.
CorrectedElsewhere(attr) == AppendCorrection(BeliefOf(attr).first, Ingested)

StoreInit == row = BaseRow /\ edges = BaseEdges
===============================================================================
