------------------------------ MODULE GraphStore ------------------------------
(***************************************************************************)
(* The statements of packages/graph/src/cypher.ts, for the claims about    *)
(* one entity with one attribute:                                          *)
(*   row    the Claim vertices, a function from their ids to their rows    *)
(*   about  the claims with an ABOUT edge to the entity                    *)
(*   edges  the revision edges among claims                                *)
(* The entity vertex itself exists throughout.                             *)
(***************************************************************************)
EXTENDS BeliefFold

EdgeKey(e) == <<e.rel, e.newer, e.older>>

\* MERGE on the id, then SET every property: a vertex that exists is
\* overwritten.
UpsertNode(row, id, props) ==
  [c \in DOMAIN row \union {id} |-> IF c = id THEN props ELSE row[c]]

\* MATCH the claim, MERGE the edge: without the vertex nothing is written, and
\* nothing fails.
UpsertAbout(row, about, id) ==
  IF id \in DOMAIN row THEN about \union {id} ELSE about

\* The same for a revision edge, whose properties are SET as well.
UpsertEdge(row, edges, e) ==
  IF {e.newer, e.older} \subseteq DOMAIN row
  THEN {f \in edges : EdgeKey(f) # EdgeKey(e)} \union {e}
  ELSE edges

\* Statement 1, ORDER BY event_time LIMIT: the possible results are the sets
\* of limit claims that leave out no claim older than one they hold.
ClaimPages(row, about, limit) ==
  IF Cardinality(about) <= limit THEN {about}
  ELSE {page \in kSubset(limit, about) :
          \A in \in page, out \in about \ page : row[in].event <= row[out].event}

\* Statement 2, for one relation: anchored on the older claim alone, LIMIT
\* without an order.
EdgePages(about, edges, rel, limit) ==
  LET matched == {e \in EdgesOf(edges, rel) : e.older \in about}
  IN  IF Cardinality(matched) <= limit THEN {matched} ELSE kSubset(limit, matched)
===============================================================================
