------------------------------ MODULE GraphStore -------------------------------
(***************************************************************************)
(* The tables of `SqliteGraphStore` (crates/polyref-graph/src/store.rs)    *)
(* that a graph build writes, and its statements on them.                  *)
(*                                                                         *)
(* A table is a function from primary keys to rows.  What a row repeats    *)
(* from its id is left out.  A statement whose foreign or primary key does *)
(* not hold is not in ..Allowed, and fails.                                *)
(***************************************************************************)
EXTENDS Naturals, Sequences

\* An artifact's row is its side and language, an entity's its owner; the
\* endpoints of a correspondence are rows of their own, one per position.
NoRows == [artifacts |-> <<>>, entities |-> <<>>, corrs |-> <<>>, ends |-> <<>>]

\* INSERT ... ON CONFLICT DO UPDATE
Upsert(table, id, row) ==
  [x \in DOMAIN table \cup {id} |-> IF x = id THEN row ELSE table[x]]

SaveArtifact(t, id, row) == [t EXCEPT !.artifacts = Upsert(@, id, row)]

EntityAllowed(t, owner) == owner \in DOMAIN t.artifacts
\* Seeded fault: ON CONFLICT DO NOTHING.
SaveEntityOnce(t, id, owner) ==
  IF id \in DOMAIN t.entities THEN t ELSE [t EXCEPT !.entities = Upsert(@, id, owner)]
SaveEntity(t, id, owner) == [t EXCEPT !.entities = Upsert(@, id, owner)]

-----------------------------------------------------------------------------
(* The statements of save_correspondence's transaction.                    *)

SaveHeader(t, c) == [t EXCEPT !.corrs = Upsert(@, c, "layer4-route-fact-v1")]

ClearEnds(t, c) ==
  [t EXCEPT !.ends = [x \in {y \in DOMAIN @ : y[1] # c} |-> @[x]]]

EndAllowed(t, c, position, entity) ==
  /\ entity \in DOMAIN t.entities
  /\ <<c, position>> \notin DOMAIN t.ends

SaveEnd(t, c, position, entity) ==
  [t EXCEPT !.ends = Upsert(@, <<c, position>>, entity)]

-----------------------------------------------------------------------------
(* Queries.                                                                *)

\* find_correspondence and load_correspondences: a header with its endpoints
\* by position.
EndsOf(t, c) == {x \in DOMAIN t.ends : x[1] = c}
WholeCorrespondence(t, c) ==
  /\ EndsOf(t, c) = {c} \X DOMAIN c.endpoints
  /\ \A k \in DOMAIN c.endpoints : t.ends[<<c, k>>] = c.endpoints[k]

\* correspondences_for_entity
ForEntity(t, entity) == {c \in DOMAIN t.corrs : \E x \in EndsOf(t, c) : t.ends[x] = entity}
=============================================================================
