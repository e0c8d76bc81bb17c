------------------------------- MODULE Frontier -------------------------------
(***************************************************************************)
(* The affected frontier of one observation: `compute_frontier` and its    *)
(* GraphIndexes in crates/polyref-frontier/src/closure.rs, over the graph  *)
(* store it reads (crates/polyref-graph/src/store.rs).                     *)
(*                                                                         *)
(* The load is four list queries, each under the store's lock but not in   *)
(* one transaction, so that a writer may save rows in between.  The rest   *)
(* works on what was listed: the touched entities, the undirected          *)
(* component around them, and a backward and a forward walk over build     *)
(* edges.  A worklist is a set here: the result may not depend on its      *)
(* order.                                                                  *)
(***************************************************************************)
EXTENDS Naturals, FiniteSets

CONSTANTS
  Artifacts, Entities, Corrs, Edges, \* ids of the four tables' rows
  Edited,     \* input.edited_artifacts
  Rewritten,  \* the entities of input.migration_map, old and new
  Support,    \* input.support: correspondences and build edges
  MaxWrites   \* bound: rows saved while the load is under way

ASSUME FrontierAssumption ==
  /\ Edited \subseteq Artifacts
  /\ Rewritten \subseteq Entities
  /\ Support \subseteq Corrs \cup Edges
  /\ Corrs \cap Edges = {}
  /\ Artifacts \cap Entities = {}
  /\ Entities \cap (Corrs \cup Edges) = {}
  /\ MaxWrites \in Nat

VARIABLES
  store,       \* the rows of the four tables
  begun,       \* those when the load began (history)
  writes,      \* rows saved since (history, bounded by MaxWrites)
  moves,       \* those of them that gave an entity another artifact (history)
  pc,          \* the step of compute_frontier that comes next
  listed,      \* what the list queries returned so far
  diagnostics, \* ids of absent support and of rows with an absent endpoint
  touch,       \* touched entities
  reached,     \* reached_entities, _artifacts, _corrs and _edges
  todo,        \* entity_work and artifact_work, or a walk's worklist
  walked,      \* artifacts a build walk reached so far
  reaches,     \* reaches_supp, once the backward walk has ended
  entries      \* the frontier: items with their reasons

searching == <<touch, reached, todo, walked, reaches, entries>>
vars == <<store, begun, writes, moves, pc, listed, diagnostics, searching>>

-----------------------------------------------------------------------------
(* Rows, and the indexes over the rows of a graph g.                       *)

EntityRows == [entity : Entities, artifact : Artifacts]
CorrRows == [corr : Corrs, ends : SUBSET Entities]
EdgeRows == [edge : Edges, src : Artifacts, dst : Artifacts]

Graphs == [artifacts : SUBSET Artifacts, entities : SUBSET EntityRows,
           corrs : SUBSET CorrRows, edges : SUBSET EdgeRows]

EmptyGraph == [artifacts |-> {}, entities |-> {}, corrs |-> {}, edges |-> {}]

\* A row with an endpoint that was not listed is left out of the indexes; a
\* correspondence stays, with the endpoints that were.
Owned(g) == {r \in g.entities : r.artifact \in g.artifacts}
Known(g) == {r.entity : r \in Owned(g)}
Links(g) == {[corr |-> r.corr, ends |-> r.ends \cap Known(g)] : r \in g.corrs}
Built(g) == {r \in g.edges : r.src \in g.artifacts /\ r.dst \in g.artifacts}

Dangling(g) ==
  {r.entity : r \in g.entities \ Owned(g)}
    \cup {r.corr : r \in {c \in g.corrs : ~ c.ends \subseteq Known(g)}}
    \cup {r.edge : r \in g.edges \ Built(g)}

MissingSupport(g) ==
  Support \ ({r.corr : r \in g.corrs} \cup {r.edge : r \in Built(g)})

Touch(g) ==
  {r.entity : r \in {o \in Owned(g) : o.artifact \in Edited}}
    \cup (Rewritten \cap Known(g))

\* Where a path to the support may end: the source of a build edge in it, the
\* owner of an endpoint of a correspondence in it.
Anchors(g, support) ==
  {r.src : r \in {b \in Built(g) : b.edge \in support}}
    \cup {r.artifact : r \in {o \in Owned(g) :
            \E l \in Links(g) : l.corr \in support /\ o.entity \in l.ends}}

Entry(items, reason) == [item : items, reason : {reason}]
Items(list) == {e.item : e \in list}

-----------------------------------------------------------------------------
(* The writer.  The ids of an artifact, a correspondence and a build edge   *)
(* carry a digest of what they name, so that saving such a row again        *)
(* changes nothing: only new rows are actions.  An entity's id has no       *)
(* digest of its file: after an edit the upsert gives the entity to the     *)
(* artifact of the new content.  Foreign keys are enforced.                 *)

Save(g) ==
  /\ pc = "ingest" \/ writes < MaxWrites
  /\ pc \in {"ingest", "entities", "corrs", "edges"}
  /\ writes' = IF pc = "ingest" THEN 0 ELSE writes + 1
  /\ store' = g
  /\ UNCHANGED <<begun, pc, listed, diagnostics, searching>>

SaveArtifact(a) ==
  /\ a \notin store.artifacts
  /\ Save([store EXCEPT !.artifacts = @ \cup {a}])
  /\ UNCHANGED moves

\* The row of an entity is inserted, or replaced.
Upserted(n, a) ==
  [store EXCEPT !.entities = {r \in @ : r.entity # n} \cup {[entity |-> n, artifact |-> a]}]

Moves(n) == pc # "ingest" /\ \E r \in store.entities : r.entity = n

\* Seeded fault: foreign keys are not enforced.
SaveEntityUnchecked(n, a) ==
  /\ [entity |-> n, artifact |-> a] \notin store.entities
  /\ Save(Upserted(n, a))
  /\ moves' = IF Moves(n) THEN moves + 1 ELSE moves

SaveEntity(n, a) ==
  /\ a \in store.artifacts
  /\ [entity |-> n, artifact |-> a] \notin store.entities
  /\ Save(Upserted(n, a))
  /\ moves' = IF Moves(n) THEN moves + 1 ELSE moves

SaveCorrespondence(k, ends) ==
  /\ ends \subseteq {r.entity : r \in store.entities}
  /\ \A r \in store.corrs : r.corr # k
  /\ Save([store EXCEPT !.corrs = @ \cup {[corr |-> k, ends |-> ends]}])
  /\ UNCHANGED moves

SaveBuildEdge(e, a, b) ==
  /\ {a, b} \subseteq store.artifacts
  /\ \A r \in store.edges : r.edge # e
  /\ Save([store EXCEPT !.edges = @ \cup {[edge |-> e, src |-> a, dst |-> b]}])
  /\ UNCHANGED moves

-----------------------------------------------------------------------------
(* GraphIndexes::load: list_artifacts, list_entities, list_correspondences *)
(* and list_build_edges.                                                   *)

ListArtifacts ==
  /\ pc = "ingest"
  /\ begun' = store
  /\ listed' = [listed EXCEPT !.artifacts = store.artifacts]
  /\ pc' = "entities"
  /\ UNCHANGED <<store, writes, moves, diagnostics, searching>>

ListEntities ==
  /\ pc = "entities"
  /\ listed' = [listed EXCEPT !.entities = store.entities]
  /\ pc' = "corrs"
  /\ UNCHANGED <<store, begun, writes, moves, diagnostics, searching>>

ListCorrespondences ==
  /\ pc = "corrs"
  /\ listed' = [listed EXCEPT !.corrs = store.corrs]
  /\ pc' = "edges"
  /\ UNCHANGED <<store, begun, writes, moves, diagnostics, searching>>

ListBuildEdges ==
  /\ pc = "edges"
  /\ listed' = [listed EXCEPT !.edges = store.edges]
  /\ pc' = "touch"
  /\ UNCHANGED <<store, begun, writes, moves, diagnostics, searching>>

-----------------------------------------------------------------------------
(* The computation over `listed`.                                          *)

loaded == <<store, begun, writes, moves, listed>>

\* validate_support, integrity_diagnostics, compute_touch, and the worklists
\* of reachable_items before its loop.
ComputeTouch ==
  /\ pc = "touch"
  /\ diagnostics' = MissingSupport(listed) \cup Dangling(listed)
  /\ touch' = Touch(listed)
  /\ reached' = [reached EXCEPT !.entities = touch']
  /\ todo' = touch'
  /\ pc' = "reach"
  /\ UNCHANGED <<loaded, walked, reaches, entries>>

\* An entity off entity_work: its artifact, its correspondences, and the other
\* ends of those not met before.
ReachEntity(n) ==
  LET homes == {r.artifact : r \in {o \in Owned(listed) : o.entity = n}}
      links == {l \in Links(listed) : n \in l.ends /\ l.corr \notin reached.corrs}
      ends == UNION {l.ends : l \in links}
  IN  /\ pc = "reach"
      /\ n \in todo \cap Entities
      /\ todo' = (todo \ {n}) \cup (homes \ reached.artifacts)
                   \cup (ends \ reached.entities)
      /\ reached' = [reached EXCEPT !.artifacts = @ \cup homes,
                       !.corrs = @ \cup {l.corr : l \in links},
                       !.entities = @ \cup ends]
      /\ UNCHANGED <<loaded, pc, diagnostics, touch, walked, reaches, entries>>

\* Seeded fault: only build edges that leave the artifact are followed.
ReachArtifactForward(a) ==
  LET here == {r.entity : r \in {o \in Owned(listed) : o.artifact = a}}
      out == {r \in Built(listed) : r.src = a}
      next == {r.dst : r \in out}
  IN  /\ pc = "reach"
      /\ a \in todo \cap Artifacts
      /\ todo' = (todo \ {a}) \cup (here \ reached.entities)
                   \cup (next \ reached.artifacts)
      /\ reached' = [reached EXCEPT !.entities = @ \cup here,
                       !.edges = @ \cup {r.edge : r \in out},
                       !.artifacts = @ \cup next]
      /\ UNCHANGED <<loaded, pc, diagnostics, touch, walked, reaches, entries>>

\* An artifact off artifact_work: its entities, its build edges in and out,
\* and the artifacts at their other ends.
ReachArtifact(a) ==
  LET here == {r.entity : r \in {o \in Owned(listed) : o.artifact = a}}
      near == {r \in Built(listed) : a \in {r.src, r.dst}}
      next == UNION {{r.src, r.dst} : r \in near}
  IN  /\ pc = "reach"
      /\ a \in todo \cap Artifacts
      /\ todo' = (todo \ {a}) \cup (here \ reached.entities)
                   \cup (next \ reached.artifacts)
      /\ reached' = [reached EXCEPT !.entities = @ \cup here,
                       !.edges = @ \cup {r.edge : r \in near},
                       !.artifacts = @ \cup next]
      /\ UNCHANGED <<loaded, pc, diagnostics, touch, walked, reaches, entries>>

\* seed_touched_correspondences, and the start of artifacts_reaching_support.
SeedTouched ==
  /\ pc = "reach"
  /\ todo = {}
  /\ entries' = Entry(Support \cap
                        {l.corr : l \in {k \in Links(listed) : k.ends \cap touch # {}}},
                      "TouchedEndpoint")
  /\ walked' = Anchors(listed, Support)
  /\ todo' = walked'
  /\ pc' = "backward"
  /\ UNCHANGED <<loaded, diagnostics, touch, reached, reaches>>

WalkBack(a) ==
  LET before == {r.src : r \in {b \in Built(listed) : b.dst = a}}
  IN  /\ pc = "backward"
      /\ a \in todo
      /\ todo' = (todo \ {a}) \cup (before \ walked)
      /\ walked' = walked \cup before
      /\ UNCHANGED <<loaded, pc, diagnostics, touch, reached, reaches, entries>>

\* The backward walk ends and that of seed_build_closure starts.
TurnForward ==
  /\ pc = "backward"
  /\ todo = {}
  /\ reaches' = walked
  /\ walked' = Edited
  /\ todo' = Edited
  /\ pc' = "forward"
  /\ UNCHANGED <<loaded, diagnostics, touch, reached, entries>>

\* Seeded fault: an edge counts only when its source is edited.
WalkForwardOnce(a) ==
  LET out == {r \in Built(listed) : r.src = a}
      needed == {r \in out : r.edge \in Support \/ r.dst \in reaches}
  IN  /\ pc = "forward"
      /\ a \in todo
      /\ entries' = entries \cup Entry({r.edge : r \in needed}, "EditedArtifactBuild")
      /\ todo' = todo \ {a}
      /\ UNCHANGED <<loaded, pc, diagnostics, touch, reached, walked, reaches>>

WalkForward(a) ==
  LET out == {r \in Built(listed) : r.src = a}
      needed == {r \in out : r.edge \in Support \/ r.dst \in reaches}
      reason == IF a \in Edited THEN "EditedArtifactBuild" ELSE "GeneratedArtifactBuild"
      next == {r.dst : r \in out}
  IN  /\ pc = "forward"
      /\ a \in todo
      /\ entries' = entries \cup Entry({r.edge : r \in needed}, reason)
      /\ todo' = (todo \ {a}) \cup (next \ walked)
      /\ walked' = walked \cup next
      /\ UNCHANGED <<loaded, pc, diagnostics, touch, reached, reaches>>

\* seed_reachable_support, and the result.
SeedReachable ==
  /\ pc = "forward"
  /\ todo = {}
  /\ entries' = entries \cup Entry(Support \cap (reached.corrs \cup reached.edges),
                                   "ReachableSupport")
  /\ pc' = "done"
  /\ UNCHANGED <<loaded, diagnostics, touch, reached, todo, walked, reaches>>

-----------------------------------------------------------------------------
Init ==
  /\ store = EmptyGraph
  /\ begun = EmptyGraph
  /\ writes = 0
  /\ moves = 0
  /\ pc = "ingest"
  /\ listed = EmptyGraph
  /\ diagnostics = {}
  /\ touch = {}
  /\ reached = [entities |-> {}, artifacts |-> {}, corrs |-> {}, edges |-> {}]
  /\ todo = {}
  /\ walked = {}
  /\ reaches = {}
  /\ entries = {}

Writer ==
  \/ \E a \in Artifacts : SaveArtifact(a)
  \/ \E n \in Entities, a \in Artifacts : SaveEntity(n, a)
  \/ \E k \in Corrs, ends \in SUBSET Entities : SaveCorrespondence(k, ends)
  \/ \E e \in Edges, a, b \in Artifacts : SaveBuildEdge(e, a, b)

Load == ListArtifacts \/ ListEntities \/ ListCorrespondences \/ ListBuildEdges

Search ==
  \/ ComputeTouch
  \/ \E n \in Entities : ReachEntity(n)
  \/ \E a \in Artifacts : ReachArtifact(a)
  \/ SeedTouched
  \/ \E a \in Artifacts : WalkBack(a)
  \/ TurnForward
  \/ \E a \in Artifacts : WalkForward(a)
  \/ SeedReachable

Finished == pc = "done" /\ UNCHANGED vars

Next == Writer \/ Load \/ Search \/ Finished

Spec == Init /\ [][Next]_vars

-----------------------------------------------------------------------------
(* What the frontier is, without a worklist.                               *)

\* The least set of artifacts that holds `seeds` and is closed under `steps`.
Closed(S, steps) == \A s \in steps : s[1] \in S => s[2] \in S
Reach(seeds, steps) ==
  LET closed == {S \in SUBSET Artifacts : seeds \subseteq S /\ Closed(S, steps)}
  IN {a \in Artifacts : \A S \in closed : a \in S}

Downstream(g) == Reach(Edited, {<<r.src, r.dst>> : r \in Built(g)})
Upstream(g, support) ==
  Reach(Anchors(g, support), {<<r.dst, r.src>> : r \in Built(g)})

\* S is a union of components of the graph, artifacts and entities alike.
Indexes(g) == [owned |-> Owned(g), links |-> Links(g), built |-> Built(g)]
Component(i, S) ==
  /\ \A r \in i.owned : r.entity \in S <=> r.artifact \in S
  /\ \A l \in i.links : l.ends \cap S # {} => l.ends \subseteq S
  /\ \A r \in i.built : r.src \in S <=> r.dst \in S
Around(g) ==
  LET indexes == Indexes(g)
      touched == Touch(g)
      unions == {S \in SUBSET (Artifacts \cup Entities) :
                   touched \subseteq S /\ Component(indexes, S)}
  IN {x \in Artifacts \cup Entities : \A S \in unions : x \in S}

\* What the code takes for required(o), in the words of its comments: the
\* support connected with a touched entity, and the build edges downstream of
\* an edited artifact that are support or lead to support.
Connected(g) ==
  LET around == Around(g)
  IN {l.corr : l \in {k \in Links(g) : k.ends \cap around # {}}}
       \cup {r.edge : r \in {b \in Built(g) : b.src \in around}}
OnPath(g, support) ==
  LET downstream == Downstream(g)
      upstream == Upstream(g, support)
  IN {r.edge : r \in {b \in Built(g) :
        /\ b.src \in downstream
        /\ b.edge \in support \/ b.dst \in upstream}}
Required(g, support) == (support \cap Connected(g)) \cup OnPath(g, support)

\* The first half of required(o) in docs/architecture.md, the support in the
\* affected frontier: what a path from a touched entity reaches, along owners
\* and correspondences either way and along build edges forward.
Paths(g) ==
  {<<r.entity, r.artifact>> : r \in Owned(g)}
    \cup {<<r.artifact, r.entity>> : r \in Owned(g)}
    \cup (UNION {l.ends \X l.ends : l \in Links(g)})
    \cup {<<r.src, r.dst>> : r \in Built(g)}
Touchable(g) ==
  LET touched == Touch(g)
      paths == Paths(g)
      closed == {S \in SUBSET (Artifacts \cup Entities) :
                   touched \subseteq S /\ Closed(S, paths)}
  IN {x \in Artifacts \cup Entities : \A S \in closed : x \in S}
Affected(g, support) ==
  LET touchable == Touchable(g)
  IN support \cap
       ({l.corr : l \in {k \in Links(g) : k.ends \cap touchable # {}}}
         \cup {r.edge : r \in {b \in Built(g) : b.src \in touchable}})

-----------------------------------------------------------------------------
TypeOK ==
  /\ store \in Graphs
  /\ begun \in Graphs
  /\ listed \in Graphs
  /\ writes \in 0 .. MaxWrites
  /\ moves \in Nat
  /\ pc \in {"ingest", "entities", "corrs", "edges", "touch", "reach",
             "backward", "forward", "done"}
  /\ diagnostics \subseteq Entities \cup Corrs \cup Edges
  /\ touch \subseteq Entities
  /\ reached \in [entities : SUBSET Entities, artifacts : SUBSET Artifacts,
                  corrs : SUBSET Corrs, edges : SUBSET Edges]
  /\ walked \subseteq Artifacts
  /\ reaches \subseteq Artifacts
  /\ todo \subseteq IF pc = "reach" THEN reached.entities \cup reached.artifacts
                   ELSE walked
  /\ entries \subseteq
       [item : Corrs \cup Edges,
        reason : {"TouchedEndpoint", "EditedArtifactBuild",
                  "GeneratedArtifactBuild", "ReachableSupport"}]

\* compute_frontier: whatever the shape of the graph (cycles, rows left out of
\* the indexes) and the order of the worklists, the frontier is what the code's
\* comments call required(o) over the rows that were listed, and it has every
\* element of the support that docs/architecture.md:44-48 counts as affected.
\* The document asks for more than the code gives: all intermediate items on
\* the way from any touched entity, where the code takes build edges on the way
\* from an edited artifact only.
FrontierExact ==
  pc = "done" =>
    /\ Items(entries) = Required(listed, Support)
    /\ Affected(listed, Support) \subseteq Items(entries)

\* Rows saved between the list queries neither hide an item that was required
\* when the load began nor bring in one that is not required now, unless one
\* of them moved an entity.
NothingMissed ==
  pc = "done" /\ moves = 0 =>
    /\ Required(begun, Support) \subseteq Items(entries)
    /\ Items(entries) \subseteq Required(store, Support)

\* layer5_integration.rs: with the frontier as support, the same graph has the
\* same frontier.
Idempotent ==
  pc = "done" => Required(listed, Items(entries)) = Items(entries)

\* A diagnostic never names a row that was saved before the load began:
\* MissingGraphEndpoint and MissingSupport then come from the race alone.  An
\* entity moved to an artifact too new to be listed is the exception.
OnlyRacesDangle ==
  pc = "done" /\ moves = 0 =>
    diagnostics \cap ({r.entity : r \in begun.entities}
                       \cup {r.corr : r \in begun.corrs}
                       \cup {r.edge : r \in begun.edges}) = {}
=============================================================================
