---------------------------- MODULE FrontierProofs ----------------------------
(***************************************************************************)
(* Proofs about Frontier, for every graph, every writer and every order of *)
(* the worklists: its types, that the frontier is what the code calls      *)
(* required(o) over the rows listed and misses no affected support, that a *)
(* race with the writer misses nothing, that the closure is idempotent,    *)
(* and that diagnostics name new rows only.                                *)
(***************************************************************************)
EXTENDS Frontier, TLAPS

-----------------------------------------------------------------------------
(* Rows and indexes.                                                       *)

\* What the indexes hold are ids of the right kind.
LEMMA IndexTypes ==
  ASSUME NEW g \in Graphs, NEW support
  PROVE  /\ Owned(g) \subseteq EntityRows /\ Owned(g) \subseteq g.entities
         /\ Known(g) \subseteq Entities
         /\ Links(g) \subseteq CorrRows
         /\ Built(g) \subseteq EdgeRows /\ Built(g) \subseteq g.edges
         /\ Touch(g) \subseteq Entities
         /\ Anchors(g, support) \subseteq Artifacts
<1>1. /\ g.entities \subseteq EntityRows /\ g.corrs \subseteq CorrRows
      /\ g.edges \subseteq EdgeRows
  BY DEF Graphs
<1>2. Owned(g) \subseteq g.entities /\ Owned(g) \subseteq EntityRows
  BY <1>1 DEF Owned
<1>3. Known(g) \subseteq Entities
  BY <1>2 DEF Known, EntityRows
<1>4. Links(g) \subseteq CorrRows
  BY <1>1 DEF Links, CorrRows
<1>5. Built(g) \subseteq g.edges /\ Built(g) \subseteq EdgeRows
  BY <1>1 DEF Built
<1>6. Touch(g) \subseteq Entities
  BY <1>2, <1>3 DEF Touch, EntityRows
<1>7. Anchors(g, support) \subseteq Artifacts
  BY <1>2, <1>5 DEF Anchors, EntityRows, EdgeRows
<1> QED BY <1>2, <1>3, <1>4, <1>5, <1>6, <1>7

\* The ids that diagnostics name.
LEMMA DiagnosticTypes ==
  ASSUME NEW g \in Graphs
  PROVE  MissingSupport(g) \cup Dangling(g) \subseteq Entities \cup Corrs \cup Edges
<1>1. /\ g.entities \subseteq EntityRows /\ g.corrs \subseteq CorrRows
      /\ g.edges \subseteq EdgeRows
  BY DEF Graphs
<1>2. MissingSupport(g) \subseteq Corrs \cup Edges
  BY FrontierAssumption DEF MissingSupport
<1>3. Dangling(g) \subseteq Entities \cup Corrs \cup Edges
  BY <1>1 DEF Dangling, EntityRows, CorrRows, EdgeRows
<1> QED BY <1>2, <1>3

-----------------------------------------------------------------------------
(* What a turn of the search's worklists adds.                             *)

Homes(n) == {r.artifact : r \in {o \in Owned(listed) : o.entity = n}}
FreshLinks(n) == {l \in Links(listed) : n \in l.ends /\ l.corr \notin reached.corrs}
FreshEnds(n) == UNION {l.ends : l \in FreshLinks(n)}
FreshCorrs(n) == {l.corr : l \in FreshLinks(n)}

Here(a) == {r.entity : r \in {o \in Owned(listed) : o.artifact = a}}
Near(a) == {r \in Built(listed) : a \in {r.src, r.dst}}
NearEdges(a) == {r.edge : r \in Near(a)}
NextTo(a) == UNION {{r.src, r.dst} : r \in Near(a)}

LEMMA ReachEntityEffect ==
  ASSUME TypeOK, NEW n \in Entities, ReachEntity(n)
  PROVE  /\ pc = "reach" /\ n \in reached.entities
         /\ todo' = (todo \ {n}) \cup (Homes(n) \ reached.artifacts)
                      \cup (FreshEnds(n) \ reached.entities)
         /\ reached'.entities = reached.entities \cup FreshEnds(n)
         /\ reached'.artifacts = reached.artifacts \cup Homes(n)
         /\ reached'.corrs = reached.corrs \cup FreshCorrs(n)
         /\ reached'.edges = reached.edges
         /\ Homes(n) \subseteq Artifacts /\ FreshEnds(n) \subseteq Entities
         /\ FreshCorrs(n) \subseteq Corrs
         /\ reached' \in [entities : SUBSET Entities, artifacts : SUBSET Artifacts,
                          corrs : SUBSET Corrs, edges : SUBSET Edges]
         /\ UNCHANGED <<loaded, pc, diagnostics, touch, walked, reaches, entries>>
<1>1. Owned(listed) \subseteq EntityRows /\ Links(listed) \subseteq CorrRows
  BY IndexTypes DEF TypeOK
<1>2. /\ Homes(n) \subseteq Artifacts /\ FreshEnds(n) \subseteq Entities
      /\ FreshCorrs(n) \subseteq Corrs
  BY <1>1 DEF Homes, FreshLinks, FreshEnds, FreshCorrs, EntityRows, CorrRows
<1>3. /\ pc = "reach" /\ n \in todo
      /\ todo' = (todo \ {n}) \cup (Homes(n) \ reached.artifacts)
                   \cup (FreshEnds(n) \ reached.entities)
      /\ reached' = [reached EXCEPT !.artifacts = @ \cup Homes(n),
                       !.corrs = @ \cup FreshCorrs(n),
                       !.entities = @ \cup FreshEnds(n)]
      /\ UNCHANGED <<loaded, pc, diagnostics, touch, walked, reaches, entries>>
  BY DEF ReachEntity, Homes, FreshLinks, FreshEnds, FreshCorrs
<1>4. n \in reached.entities
  BY <1>3, FrontierAssumption DEF TypeOK
<1> QED BY <1>2, <1>3, <1>4 DEF TypeOK

LEMMA ReachArtifactEffect ==
  ASSUME TypeOK, NEW a \in Artifacts, ReachArtifact(a)
  PROVE  /\ pc = "reach" /\ a \in reached.artifacts
         /\ todo' = (todo \ {a}) \cup (Here(a) \ reached.entities)
                      \cup (NextTo(a) \ reached.artifacts)
         /\ reached'.entities = reached.entities \cup Here(a)
         /\ reached'.artifacts = reached.artifacts \cup NextTo(a)
         /\ reached'.corrs = reached.corrs
         /\ reached'.edges = reached.edges \cup NearEdges(a)
         /\ Here(a) \subseteq Entities /\ NextTo(a) \subseteq Artifacts
         /\ NearEdges(a) \subseteq Edges
         /\ reached' \in [entities : SUBSET Entities, artifacts : SUBSET Artifacts,
                          corrs : SUBSET Corrs, edges : SUBSET Edges]
         /\ UNCHANGED <<loaded, pc, diagnostics, touch, walked, reaches, entries>>
<1>1. Owned(listed) \subseteq EntityRows /\ Built(listed) \subseteq EdgeRows
  BY IndexTypes DEF TypeOK
<1>2. /\ Here(a) \subseteq Entities /\ NextTo(a) \subseteq Artifacts
      /\ NearEdges(a) \subseteq Edges
  BY <1>1 DEF Here, Near, NextTo, NearEdges, EntityRows, EdgeRows
<1>3. /\ pc = "reach" /\ a \in todo
      /\ todo' = (todo \ {a}) \cup (Here(a) \ reached.entities)
                   \cup (NextTo(a) \ reached.artifacts)
      /\ reached' = [reached EXCEPT !.entities = @ \cup Here(a),
                       !.edges = @ \cup NearEdges(a),
                       !.artifacts = @ \cup NextTo(a)]
      /\ UNCHANGED <<loaded, pc, diagnostics, touch, walked, reaches, entries>>
  BY DEF ReachArtifact, Here, Near, NextTo, NearEdges
<1>4. a \in reached.artifacts
  BY <1>3, FrontierAssumption DEF TypeOK
<1> QED BY <1>2, <1>3, <1>4 DEF TypeOK

-----------------------------------------------------------------------------
(* Types.                                                                  *)

Reasons == {"TouchedEndpoint", "EditedArtifactBuild", "GeneratedArtifactBuild",
            "ReachableSupport"}

LEMMA EntryType ==
  ASSUME NEW items \in SUBSET (Corrs \cup Edges), NEW reason \in Reasons
  PROVE  Entry(items, reason) \subseteq [item : Corrs \cup Edges, reason : Reasons]
BY DEF Entry

LEMMA InitTypes == Init => TypeOK
BY FrontierAssumption DEF Init, TypeOK, EmptyGraph, Graphs

\* A save adds one row.
LEMMA WriterTypes == TypeOK /\ Writer => TypeOK'
<1> SUFFICES ASSUME TypeOK, Writer PROVE TypeOK'
  OBVIOUS
<1> USE FrontierAssumption
<1>1. ASSUME NEW g \in Graphs, Save(g), moves' \in Nat PROVE TypeOK'
  BY <1>1 DEF TypeOK, Save, searching
<1>2. ASSUME NEW a \in Artifacts, SaveArtifact(a) PROVE TypeOK'
  <2>1. [store EXCEPT !.artifacts = @ \cup {a}] \in Graphs
    BY DEF TypeOK, Graphs
  <2> QED BY <2>1, <1>1, <1>2 DEF SaveArtifact, TypeOK
<1>3. ASSUME NEW n \in Entities, NEW a \in Artifacts, SaveEntity(n, a) PROVE TypeOK'
  <2>1. Upserted(n, a) \in Graphs
    BY DEF TypeOK, Graphs, EntityRows, Upserted
  <2>2. moves' \in Nat
    BY <1>3 DEF SaveEntity, Moves, TypeOK
  <2> QED BY <2>1, <2>2, <1>1, <1>3 DEF SaveEntity
<1>4. ASSUME NEW k \in Corrs, NEW ends \in SUBSET Entities,
             SaveCorrespondence(k, ends)
      PROVE  TypeOK'
  <2>1. [store EXCEPT !.corrs = @ \cup {[corr |-> k, ends |-> ends]}] \in Graphs
    BY DEF TypeOK, Graphs, CorrRows
  <2> QED BY <2>1, <1>1, <1>4 DEF SaveCorrespondence, TypeOK
<1>5. ASSUME NEW e \in Edges, NEW a \in Artifacts, NEW b \in Artifacts,
             SaveBuildEdge(e, a, b)
      PROVE  TypeOK'
  <2>1. [store EXCEPT !.edges = @ \cup {[edge |-> e, src |-> a, dst |-> b]}] \in Graphs
    BY DEF TypeOK, Graphs, EdgeRows
  <2> QED BY <2>1, <1>1, <1>5 DEF SaveBuildEdge, TypeOK
<1> QED BY <1>2, <1>3, <1>4, <1>5 DEF Writer

LEMMA LoadTypes == TypeOK /\ Load => TypeOK'
<1> SUFFICES ASSUME TypeOK, Load PROVE TypeOK'
  OBVIOUS
<1>1. listed' \in Graphs /\ begun' \in Graphs /\ store' \in Graphs
  BY DEF TypeOK, Load, ListArtifacts, ListEntities, ListCorrespondences,
         ListBuildEdges, Graphs
<1>2. pc # "reach" /\ pc' \in {"entities", "corrs", "edges", "touch"}
  BY DEF Load, ListArtifacts, ListEntities, ListCorrespondences, ListBuildEdges
<1> QED
  BY <1>1, <1>2 DEF TypeOK, Load, ListArtifacts, ListEntities,
         ListCorrespondences, ListBuildEdges, searching

LEMMA SearchTypes == TypeOK /\ Search => TypeOK'
<1> SUFFICES ASSUME TypeOK, Search PROVE TypeOK'
  OBVIOUS
<1> USE FrontierAssumption
<1>g. listed \in Graphs /\ listed' = listed /\ store' = store /\ begun' = begun
      /\ writes' = writes /\ moves' = moves
  BY DEF TypeOK, Search, ComputeTouch, ReachEntity, ReachArtifact, SeedTouched,
         WalkBack, TurnForward, WalkForward, SeedReachable, loaded
<1>t. /\ Owned(listed) \subseteq EntityRows /\ Links(listed) \subseteq CorrRows
      /\ Built(listed) \subseteq EdgeRows /\ Touch(listed) \subseteq Entities
      /\ Anchors(listed, Support) \subseteq Artifacts
  BY <1>g, IndexTypes
<1>e. ASSUME NEW items \in SUBSET (Corrs \cup Edges), NEW reason \in Reasons
      PROVE  Entry(items, reason) \subseteq [item : Corrs \cup Edges, reason : Reasons]
  BY EntryType
<1>1. ASSUME ComputeTouch PROVE TypeOK'
  <2>1. MissingSupport(listed) \cup Dangling(listed)
          \subseteq Entities \cup Corrs \cup Edges
    BY <1>g, DiagnosticTypes
  <2> QED BY <1>1, <1>g, <1>t, <2>1 DEF TypeOK, ComputeTouch
<1>2. ASSUME NEW n \in Entities, ReachEntity(n) PROVE TypeOK'
  <2>1. /\ pc' = "reach"
        /\ todo' \subseteq reached'.entities \cup reached'.artifacts
    BY <1>2, ReachEntityEffect DEF TypeOK
  <2> QED BY <1>2, <1>g, <2>1, ReachEntityEffect DEF TypeOK
<1>3. ASSUME NEW a \in Artifacts, ReachArtifact(a) PROVE TypeOK'
  <2>1. /\ pc' = "reach"
        /\ todo' \subseteq reached'.entities \cup reached'.artifacts
    BY <1>3, ReachArtifactEffect DEF TypeOK
  <2> QED BY <1>3, <1>g, <2>1, ReachArtifactEffect DEF TypeOK
<1>4. ASSUME SeedTouched PROVE TypeOK'
  <2>1. entries' \subseteq [item : Corrs \cup Edges, reason : Reasons]
    BY <1>4, <1>e DEF SeedTouched, Reasons
  <2> QED BY <1>4, <1>g, <1>t, <2>1 DEF TypeOK, SeedTouched, Reasons
<1>5. ASSUME NEW a \in Artifacts, WalkBack(a) PROVE TypeOK'
  BY <1>5, <1>g, <1>t DEF TypeOK, WalkBack, EdgeRows
<1>6. ASSUME TurnForward PROVE TypeOK'
  BY <1>6, <1>g DEF TypeOK, TurnForward
<1>7. ASSUME NEW a \in Artifacts, WalkForward(a) PROVE TypeOK'
  <2>1. entries' \subseteq [item : Corrs \cup Edges, reason : Reasons]
    BY <1>7, <1>e, <1>t DEF TypeOK, WalkForward, Reasons, EdgeRows
  <2> QED BY <1>7, <1>g, <1>t, <2>1 DEF TypeOK, WalkForward, EdgeRows, Reasons
<1>8. ASSUME SeedReachable PROVE TypeOK'
  <2>1. entries' \subseteq [item : Corrs \cup Edges, reason : Reasons]
    BY <1>8, <1>e DEF TypeOK, SeedReachable, Reasons
  <2> QED BY <1>8, <1>g, <2>1 DEF TypeOK, SeedReachable, Reasons
<1> QED BY <1>1, <1>2, <1>3, <1>4, <1>5, <1>6, <1>7, <1>8 DEF Search

LEMMA StepTypes == TypeOK /\ [Next]_vars => TypeOK'
<1> SUFFICES ASSUME TypeOK, [Next]_vars PROVE TypeOK'
  OBVIOUS
<1>1. CASE UNCHANGED vars
  BY <1>1 DEF TypeOK, vars, searching
<1> QED BY <1>1, WriterTypes, LoadTypes, SearchTypes DEF Next, Finished

\* Every step of the load and the search keeps its types; a worklist holds
\* only what was marked as reached.
THEOREM FrontierTypeCorrect == Spec => []TypeOK
BY InitTypes, StepTypes, PTL DEF Spec

-----------------------------------------------------------------------------
(* The store, and what the list queries saw of it.                         *)

\* The foreign keys, and one row per id.
WellFormed(g) ==
  /\ \A r \in g.entities : r.artifact \in g.artifacts
  /\ \A r \in g.corrs : r.ends \subseteq {e.entity : e \in g.entities}
  /\ \A r \in g.edges : r.src \in g.artifacts /\ r.dst \in g.artifacts

Keyed(g) ==
  /\ \A r \in g.entities, s \in g.entities : r.entity = s.entity => r = s
  /\ \A r \in g.corrs, s \in g.corrs : r.corr = s.corr => r = s
  /\ \A r \in g.edges, s \in g.edges : r.edge = s.edge => r = s

Within(g, h) ==
  /\ g.artifacts \subseteq h.artifacts
  /\ g.entities \subseteq h.entities
  /\ g.corrs \subseteq h.corrs
  /\ g.edges \subseteq h.edges

Loaded == {"touch", "reach", "backward", "forward", "done"}

\* Each table was listed somewhere between the start of the load and now; the
\* rows only grow, until an entity moves.
LoadInv ==
  /\ WellFormed(store) /\ Keyed(store)
  /\ Keyed(listed)
  /\ WellFormed(begun)
  /\ moves = 0 =>
       /\ Within(listed, store)
       /\ Within(begun, store)
       /\ pc # "ingest" => begun.artifacts \subseteq listed.artifacts
       /\ pc \in {"corrs", "edges"} \cup Loaded => begun.entities \subseteq listed.entities
       /\ pc \in {"edges"} \cup Loaded => begun.corrs \subseteq listed.corrs
       /\ pc \in Loaded => begun.edges \subseteq listed.edges
  /\ pc = "ingest" => begun = EmptyGraph /\ listed = EmptyGraph

LEMMA LoadInvInit == Init => LoadInv
BY DEF Init, LoadInv, EmptyGraph, WellFormed, Keyed, Within, Loaded

LEMMA LoadInvWriter == TypeOK /\ LoadInv /\ Writer => LoadInv'
<1> SUFFICES ASSUME TypeOK, LoadInv, Writer PROVE LoadInv'
  OBVIOUS
<1>1. ASSUME NEW g, Save(g), WellFormed(g), Keyed(g), Within(store, g), moves' = moves
      PROVE  LoadInv'
  BY <1>1 DEF LoadInv, Save, searching, Within, Loaded
<1>2. ASSUME NEW a \in Artifacts, SaveArtifact(a) PROVE LoadInv'
  <2> DEFINE g == [store EXCEPT !.artifacts = @ \cup {a}]
  <2>1. /\ g.artifacts = store.artifacts \cup {a} /\ g.entities = store.entities
        /\ g.corrs = store.corrs /\ g.edges = store.edges
    BY DEF TypeOK, Graphs
  <2>2. Save(g) /\ moves' = moves
    BY <1>2 DEF SaveArtifact
  <2> HIDE DEF g
  <2>3. WellFormed(g) /\ Keyed(g) /\ Within(store, g)
    BY <2>1 DEF LoadInv, WellFormed, Keyed, Within
  <2> QED BY <2>2, <2>3, <1>1
<1>3. ASSUME NEW n \in Entities, NEW a \in Artifacts, SaveEntity(n, a) PROVE LoadInv'
  <2> DEFINE row == [entity |-> n, artifact |-> a]
             g == Upserted(n, a)
  <2>1. /\ g.artifacts = store.artifacts
        /\ g.entities = {r \in store.entities : r.entity # n} \cup {row}
        /\ g.corrs = store.corrs /\ g.edges = store.edges
    BY DEF TypeOK, Graphs, Upserted
  <2>2. Save(g) /\ a \in store.artifacts /\ moves' = IF Moves(n) THEN moves + 1 ELSE moves
    BY <1>3 DEF SaveEntity
  <2>r. row.entity = n /\ row.artifact = a
    OBVIOUS
  <2> HIDE DEF g, row
  <2>3. WellFormed(g)
    <3>1. {e.entity : e \in store.entities} \subseteq {e.entity : e \in g.entities}
      <4> SUFFICES ASSUME NEW e \in store.entities
                   PROVE  \E f \in g.entities : f.entity = e.entity
        OBVIOUS
      <4> QED BY <2>1, <2>r
    <3> QED BY <2>1, <2>2, <2>r, <3>1 DEF LoadInv, WellFormed
  <2>4. Keyed(g)
    BY <2>1, <2>2, <2>r DEF LoadInv, Keyed
  <2>5. CASE pc = "ingest"
    <3>1. /\ pc' = "ingest" /\ store' = g /\ listed' = listed /\ begun' = begun
      BY <2>2, <2>5 DEF Save, searching
    <3> QED BY <3>1, <2>3, <2>4, <2>5 DEF LoadInv, Within, Loaded, EmptyGraph
  <2>6. CASE pc # "ingest"
    <3>1. /\ pc' = pc /\ store' = g /\ listed' = listed /\ begun' = begun
      BY <2>2 DEF Save, searching
    <3>2. CASE Moves(n)
      <4> moves' # 0
        BY <2>2, <3>2 DEF TypeOK
      <4> QED BY <3>1, <2>3, <2>4, <2>6 DEF LoadInv
    <3>3. CASE ~ Moves(n)
      <4>1. g.entities = store.entities \cup {row} /\ moves' = moves
        BY <2>1, <2>2, <2>6, <3>3 DEF Moves, TypeOK
      <4>2. Within(store, g)
        BY <2>1, <4>1 DEF Within
      <4> QED BY <2>2, <2>3, <2>4, <4>1, <4>2, <1>1
    <3> QED BY <3>2, <3>3
  <2> QED BY <2>5, <2>6
<1>4. ASSUME NEW k \in Corrs, NEW ends \in SUBSET Entities,
             SaveCorrespondence(k, ends)
      PROVE  LoadInv'
  <2> DEFINE row == [corr |-> k, ends |-> ends]
             g == [store EXCEPT !.corrs = @ \cup {row}]
  <2>1. /\ g.artifacts = store.artifacts /\ g.entities = store.entities
        /\ g.corrs = store.corrs \cup {row} /\ g.edges = store.edges
    BY DEF TypeOK, Graphs
  <2>2. /\ Save(g) /\ ends \subseteq {r.entity : r \in store.entities}
        /\ \A r \in store.corrs : r.corr # k
        /\ moves' = moves
    BY <1>4 DEF SaveCorrespondence
  <2>r. row.corr = k /\ row.ends = ends
    OBVIOUS
  <2> HIDE DEF g, row
  <2>3. WellFormed(g)
    BY <2>1, <2>2, <2>r DEF LoadInv, WellFormed
  <2>4. Keyed(g) /\ Within(store, g)
    BY <2>1, <2>2, <2>r DEF LoadInv, Keyed, Within
  <2> QED BY <2>2, <2>3, <2>4, <1>1
<1>5. ASSUME NEW e \in Edges, NEW a \in Artifacts, NEW b \in Artifacts,
             SaveBuildEdge(e, a, b)
      PROVE  LoadInv'
  <2> DEFINE row == [edge |-> e, src |-> a, dst |-> b]
             g == [store EXCEPT !.edges = @ \cup {row}]
  <2>1. /\ g.artifacts = store.artifacts /\ g.entities = store.entities
        /\ g.corrs = store.corrs /\ g.edges = store.edges \cup {row}
    BY DEF TypeOK, Graphs
  <2>2. /\ Save(g) /\ {a, b} \subseteq store.artifacts
        /\ \A r \in store.edges : r.edge # e
        /\ moves' = moves
    BY <1>5 DEF SaveBuildEdge
  <2>r. row.edge = e /\ row.src = a /\ row.dst = b
    OBVIOUS
  <2> HIDE DEF g, row
  <2>3. WellFormed(g)
    BY <2>1, <2>2, <2>r DEF LoadInv, WellFormed
  <2>4. Keyed(g) /\ Within(store, g)
    BY <2>1, <2>2, <2>r DEF LoadInv, Keyed, Within
  <2> QED BY <2>2, <2>3, <2>4, <1>1
<1> QED BY <1>2, <1>3, <1>4, <1>5 DEF Writer

LEMMA LoadInvStep == TypeOK /\ LoadInv /\ [Next]_vars => LoadInv'
<1> SUFFICES ASSUME TypeOK, LoadInv, [Next]_vars PROVE LoadInv'
  OBVIOUS
<1>1. CASE Writer
  BY <1>1, LoadInvWriter
<1>2. CASE Load
  <2>1. CASE ListArtifacts
    <3>1. /\ begun' = store /\ store' = store /\ moves' = moves /\ pc' = "entities" /\ pc = "ingest"
          /\ listed'.artifacts = store.artifacts
          /\ listed'.entities = listed.entities /\ listed'.corrs = listed.corrs
          /\ listed'.edges = listed.edges
      BY <2>1 DEF ListArtifacts, TypeOK, Graphs
    <3> QED BY <3>1 DEF LoadInv, Within, Loaded, Keyed, EmptyGraph
  <2>2. CASE ListEntities
    <3>1. /\ begun' = begun /\ store' = store /\ moves' = moves /\ pc' = "corrs" /\ pc = "entities"
          /\ listed'.artifacts = listed.artifacts
          /\ listed'.entities = store.entities /\ listed'.corrs = listed.corrs
          /\ listed'.edges = listed.edges
      BY <2>2 DEF ListEntities, TypeOK, Graphs
    <3> QED BY <3>1 DEF LoadInv, Within, Loaded, Keyed, EmptyGraph
  <2>3. CASE ListCorrespondences
    <3>1. /\ begun' = begun /\ store' = store /\ moves' = moves /\ pc' = "edges" /\ pc = "corrs"
          /\ listed'.artifacts = listed.artifacts
          /\ listed'.entities = listed.entities /\ listed'.corrs = store.corrs
          /\ listed'.edges = listed.edges
      BY <2>3 DEF ListCorrespondences, TypeOK, Graphs
    <3> QED BY <3>1 DEF LoadInv, Within, Loaded, Keyed, EmptyGraph
  <2>4. CASE ListBuildEdges
    <3>1. /\ begun' = begun /\ store' = store /\ moves' = moves /\ pc' = "touch" /\ pc = "edges"
          /\ listed'.artifacts = listed.artifacts
          /\ listed'.entities = listed.entities /\ listed'.corrs = listed.corrs
          /\ listed'.edges = store.edges
      BY <2>4 DEF ListBuildEdges, TypeOK, Graphs
    <3> QED BY <3>1 DEF LoadInv, Within, Loaded, Keyed, EmptyGraph
  <2> QED BY <1>2, <2>1, <2>2, <2>3, <2>4 DEF Load
<1>3. CASE Search
  <2>1. UNCHANGED <<store, begun, moves, listed>> /\ pc \in Loaded /\ pc' \in Loaded
    BY <1>3 DEF Search, ComputeTouch, ReachEntity, ReachArtifact, SeedTouched,
         WalkBack, TurnForward, WalkForward, SeedReachable, loaded, Loaded
  <2> QED BY <2>1 DEF LoadInv, Loaded
<1>4. CASE UNCHANGED vars
  BY <1>4 DEF vars, LoadInv, Loaded
<1> QED BY <1>1, <1>2, <1>3, <1>4 DEF Next, Finished

-----------------------------------------------------------------------------
(* The component around the touched entities.                              *)

Searching == {"reach", "backward", "forward", "done"}

\* Entities and artifacts met but not expanded yet.
Pending == IF pc = "reach" THEN todo ELSE {}

EntityExpanded(n) ==
  /\ \A o \in Owned(listed) : o.entity = n => o.artifact \in reached.artifacts
  /\ \A l \in Links(listed) : n \in l.ends => l.corr \in reached.corrs

ArtifactExpanded(a) ==
  /\ \A o \in Owned(listed) : o.artifact = a => o.entity \in reached.entities
  /\ \A b \in Built(listed) : a \in {b.src, b.dst} =>
       b.edge \in reached.edges /\ {b.src, b.dst} \subseteq reached.artifacts

Region == reached.entities \cup reached.artifacts

\* Nothing is reached that does not belong to the component ...
RegionSound ==
  \A S \in SUBSET (Artifacts \cup Entities) :
    Touch(listed) \subseteq S /\ Component(Indexes(listed), S) => Region \subseteq S

\* ... every item has a reason to be reached ...
ItemsSound ==
  /\ \A k \in reached.corrs : \E l \in Links(listed) :
       l.corr = k /\ l.ends \cap reached.entities # {}
  /\ \A e \in reached.edges : \E b \in Built(listed) :
       b.edge = e /\ b.src \in reached.artifacts

\* ... and what is reached and off the worklist has its neighbours reached.
RegionClosed ==
  /\ \A l \in Links(listed) : l.corr \in reached.corrs => l.ends \subseteq reached.entities
  /\ \A n \in reached.entities \ Pending : EntityExpanded(n)
  /\ \A a \in reached.artifacts \ Pending : ArtifactExpanded(a)

RegionInv ==
  pc \in Searching =>
    /\ touch = Touch(listed)
    /\ touch \subseteq reached.entities
    /\ diagnostics = MissingSupport(listed) \cup Dangling(listed)
    /\ RegionSound
    /\ ItemsSound
    /\ RegionClosed

LEMMA LinksKeyed ==
  ASSUME TypeOK, LoadInv, NEW l \in Links(listed), NEW m \in Links(listed),
         l.corr = m.corr
  PROVE  l = m
<1>1. Keyed(listed)
  BY DEF LoadInv
<1>2. PICK r \in listed.corrs : l = [corr |-> r.corr, ends |-> r.ends \cap Known(listed)]
  BY DEF Links
<1>3. PICK s \in listed.corrs : m = [corr |-> s.corr, ends |-> s.ends \cap Known(listed)]
  BY DEF Links
<1>4. r.corr = s.corr
  BY <1>2, <1>3
<1>5. r = s
  BY <1>1, <1>4 DEF Keyed
<1> QED BY <1>2, <1>3, <1>5

LEMMA RegionTouch ==
  ASSUME TypeOK, LoadInv, RegionInv, ComputeTouch, reached.artifacts = {},
         reached.corrs = {}, reached.edges = {}
  PROVE  RegionInv'
<1>1. /\ pc' = "reach" /\ touch' = Touch(listed) /\ todo' = touch'
      /\ reached'.entities = touch' /\ reached'.artifacts = {}
      /\ reached'.corrs = {} /\ reached'.edges = {}
      /\ diagnostics' = MissingSupport(listed) \cup Dangling(listed)
      /\ listed' = listed
  BY DEF ComputeTouch, loaded, TypeOK
<1>2. Touch(listed)' = Touch(listed) /\ Links(listed)' = Links(listed)
      /\ (MissingSupport(listed) \cup Dangling(listed))'
           = MissingSupport(listed) \cup Dangling(listed)
  BY <1>1 DEF Touch, Links, Known, Owned, MissingSupport, Dangling, Built
<1>3. RegionSound'
  BY <1>1, <1>2 DEF RegionSound, Region
<1>4. ItemsSound'
  BY <1>1 DEF ItemsSound
<1>5. RegionClosed'
  BY <1>1 DEF RegionClosed, Pending
<1> QED BY <1>1, <1>2, <1>3, <1>4, <1>5 DEF RegionInv

LEMMA RegionEntity ==
  ASSUME TypeOK, LoadInv, RegionInv, NEW n \in Entities, ReachEntity(n)
  PROVE  RegionInv'
<1>1. /\ pc = "reach" /\ pc' = "reach" /\ listed' = listed /\ touch' = touch
      /\ diagnostics' = diagnostics
  BY ReachEntityEffect DEF loaded
<1>2. /\ touch = Touch(listed) /\ touch \subseteq reached.entities
      /\ diagnostics = MissingSupport(listed) \cup Dangling(listed)
      /\ RegionSound /\ ItemsSound /\ RegionClosed
  BY <1>1 DEF RegionInv, Searching
<1>3. n \in reached.entities
      /\ todo' = (todo \ {n}) \cup (Homes(n) \ reached.artifacts)
                   \cup (FreshEnds(n) \ reached.entities)
      /\ reached'.entities = reached.entities \cup FreshEnds(n)
      /\ reached'.artifacts = reached.artifacts \cup Homes(n)
      /\ reached'.corrs = reached.corrs \cup FreshCorrs(n)
      /\ reached'.edges = reached.edges
      /\ Homes(n) \subseteq Artifacts /\ FreshEnds(n) \subseteq Entities
  BY ReachEntityEffect
<1>i. /\ Owned(listed)' = Owned(listed) /\ Links(listed)' = Links(listed)
      /\ Built(listed)' = Built(listed) /\ Touch(listed)' = Touch(listed)
      /\ (MissingSupport(listed) \cup Dangling(listed))'
           = MissingSupport(listed) \cup Dangling(listed)
  BY <1>1 DEF Touch, Links, Known, Owned, MissingSupport, Dangling, Built
<1>4. RegionSound'
  <2> SUFFICES ASSUME NEW S \in SUBSET (Artifacts \cup Entities),
                      Touch(listed) \subseteq S, Component(Indexes(listed), S)
               PROVE  Homes(n) \subseteq S /\ FreshEnds(n) \subseteq S
    <3>1. \A S \in SUBSET (Artifacts \cup Entities) :
            Component(Indexes(listed), S)' <=> Component(Indexes(listed), S)
      BY <1>i DEF Indexes, Component
    <3> QED BY <1>2, <1>3, <1>i, <3>1 DEF RegionSound, Region
  <2>1. n \in S
    BY <1>2, <1>3 DEF RegionSound, Region
  <2>2. Homes(n) \subseteq S
    BY <2>1 DEF Homes, Indexes, Component
  <2>3. \A l \in FreshLinks(n) : l.ends \subseteq S
    BY <2>1 DEF FreshLinks, Indexes, Component
  <2> QED BY <2>2, <2>3 DEF FreshEnds
<1>5. ItemsSound'
  <2>1. \A k \in FreshCorrs(n) : \E l \in Links(listed) :
          l.corr = k /\ n \in l.ends
    BY DEF FreshCorrs, FreshLinks
  <2>2. \A k \in reached'.corrs : \E l \in Links(listed) :
          l.corr = k /\ l.ends \cap reached'.entities # {}
    BY <1>2, <1>3, <2>1 DEF ItemsSound
  <2>3. \A e \in reached'.edges : \E b \in Built(listed) :
          b.edge = e /\ b.src \in reached'.artifacts
    BY <1>2, <1>3 DEF ItemsSound
  <2> QED BY <2>2, <2>3, <1>i DEF ItemsSound
<1>6. \A l \in Links(listed) : l.corr \in reached'.corrs => l.ends \subseteq reached'.entities
  <2> SUFFICES ASSUME NEW l \in Links(listed), l.corr \in FreshCorrs(n)
               PROVE  l.ends \subseteq FreshEnds(n)
    BY <1>2, <1>3 DEF RegionClosed
  <2>1. PICK m \in FreshLinks(n) : m.corr = l.corr
    BY DEF FreshCorrs
  <2>2. m = l
    BY <2>1, LinksKeyed DEF FreshLinks
  <2> QED BY <2>1, <2>2 DEF FreshEnds
<1>7. EntityExpanded(n)'
  <2>1. \A o \in Owned(listed) : o.entity = n => o.artifact \in Homes(n)
    BY DEF Homes
  <2>2. \A l \in Links(listed) : n \in l.ends =>
          l.corr \in reached.corrs \/ l.corr \in FreshCorrs(n)
    BY DEF FreshCorrs, FreshLinks
  <2> QED BY <2>1, <2>2, <1>3, <1>i DEF EntityExpanded
<1>8. \A x \in reached'.entities \ todo' : EntityExpanded(x)'
  <2> SUFFICES ASSUME NEW x \in reached.entities \ todo PROVE EntityExpanded(x)'
    BY <1>3, <1>7, FrontierAssumption DEF TypeOK
  <2>1. EntityExpanded(x)
    BY <1>1, <1>2 DEF RegionClosed, Pending
  <2> QED BY <2>1, <1>3, <1>i DEF EntityExpanded
<1>9. \A x \in reached'.artifacts \ todo' : ArtifactExpanded(x)'
  <2> SUFFICES ASSUME NEW x \in reached.artifacts \ todo PROVE ArtifactExpanded(x)'
    BY <1>3, FrontierAssumption DEF TypeOK
  <2>1. ArtifactExpanded(x)
    BY <1>1, <1>2 DEF RegionClosed, Pending
  <2> QED BY <2>1, <1>3, <1>i DEF ArtifactExpanded
<1>10. RegionClosed'
  BY <1>1, <1>6, <1>8, <1>9, <1>i DEF RegionClosed, Pending
<1> QED BY <1>1, <1>2, <1>3, <1>i, <1>4, <1>5, <1>10 DEF RegionInv

LEMMA RegionArtifact ==
  ASSUME TypeOK, LoadInv, RegionInv, NEW a \in Artifacts, ReachArtifact(a)
  PROVE  RegionInv'
<1>1. /\ pc = "reach" /\ pc' = "reach" /\ listed' = listed /\ touch' = touch
      /\ diagnostics' = diagnostics
  BY ReachArtifactEffect DEF loaded
<1>2. /\ touch = Touch(listed) /\ touch \subseteq reached.entities
      /\ diagnostics = MissingSupport(listed) \cup Dangling(listed)
      /\ RegionSound /\ ItemsSound /\ RegionClosed
  BY <1>1 DEF RegionInv, Searching
<1>3. /\ a \in reached.artifacts
      /\ todo' = (todo \ {a}) \cup (Here(a) \ reached.entities)
                   \cup (NextTo(a) \ reached.artifacts)
      /\ reached'.entities = reached.entities \cup Here(a)
      /\ reached'.artifacts = reached.artifacts \cup NextTo(a)
      /\ reached'.corrs = reached.corrs
      /\ reached'.edges = reached.edges \cup NearEdges(a)
      /\ Here(a) \subseteq Entities /\ NextTo(a) \subseteq Artifacts
  BY ReachArtifactEffect
<1>i. /\ Owned(listed)' = Owned(listed) /\ Links(listed)' = Links(listed)
      /\ Built(listed)' = Built(listed) /\ Touch(listed)' = Touch(listed)
      /\ (MissingSupport(listed) \cup Dangling(listed))'
           = MissingSupport(listed) \cup Dangling(listed)
  BY <1>1 DEF Touch, Links, Known, Owned, MissingSupport, Dangling, Built
<1>4. RegionSound'
  <2> SUFFICES ASSUME NEW S \in SUBSET (Artifacts \cup Entities),
                      Touch(listed) \subseteq S, Component(Indexes(listed), S)
               PROVE  Here(a) \subseteq S /\ NextTo(a) \subseteq S
    <3>1. \A S \in SUBSET (Artifacts \cup Entities) :
            Component(Indexes(listed), S)' <=> Component(Indexes(listed), S)
      BY <1>i DEF Indexes, Component
    <3> QED BY <1>2, <1>3, <1>i, <3>1 DEF RegionSound, Region
  <2>1. a \in S
    BY <1>2, <1>3 DEF RegionSound, Region
  <2>2. Here(a) \subseteq S
    BY <2>1 DEF Here, Indexes, Component
  <2>3. \A b \in Near(a) : b.src \in S /\ b.dst \in S
    BY <2>1 DEF Near, Indexes, Component
  <2> QED BY <2>2, <2>3 DEF NextTo
<1>5. ItemsSound'
  <2>1. \A e \in NearEdges(a) : \E b \in Built(listed) :
          b.edge = e /\ b.src \in NextTo(a)
    BY DEF NearEdges, Near, NextTo
  <2>2. \A k \in reached'.corrs : \E l \in Links(listed) :
          l.corr = k /\ l.ends \cap reached'.entities # {}
    BY <1>2, <1>3 DEF ItemsSound
  <2>3. \A e \in reached'.edges : \E b \in Built(listed) :
          b.edge = e /\ b.src \in reached'.artifacts
    BY <1>2, <1>3, <2>1 DEF ItemsSound
  <2> QED BY <2>2, <2>3, <1>i DEF ItemsSound
<1>6. \A l \in Links(listed) : l.corr \in reached'.corrs => l.ends \subseteq reached'.entities
  BY <1>2, <1>3 DEF RegionClosed
<1>7. ArtifactExpanded(a)'
  <2>1. \A o \in Owned(listed) : o.artifact = a => o.entity \in Here(a)
    BY DEF Here
  <2>2. \A b \in Built(listed) : a \in {b.src, b.dst} =>
          b.edge \in NearEdges(a) /\ {b.src, b.dst} \subseteq NextTo(a)
    BY DEF NearEdges, Near, NextTo
  <2> QED BY <2>1, <2>2, <1>3, <1>i DEF ArtifactExpanded
<1>8. \A x \in reached'.entities \ todo' : EntityExpanded(x)'
  <2> SUFFICES ASSUME NEW x \in reached.entities \ todo PROVE EntityExpanded(x)'
    BY <1>3, FrontierAssumption DEF TypeOK
  <2>1. EntityExpanded(x)
    BY <1>1, <1>2 DEF RegionClosed, Pending
  <2> QED BY <2>1, <1>3, <1>i DEF EntityExpanded
<1>9. \A x \in reached'.artifacts \ todo' : ArtifactExpanded(x)'
  <2> SUFFICES ASSUME NEW x \in reached.artifacts \ todo PROVE ArtifactExpanded(x)'
    BY <1>3, <1>7, FrontierAssumption DEF TypeOK
  <2>1. ArtifactExpanded(x)
    BY <1>1, <1>2 DEF RegionClosed, Pending
  <2> QED BY <2>1, <1>3, <1>i DEF ArtifactExpanded
<1>10. RegionClosed'
  BY <1>1, <1>6, <1>8, <1>9, <1>i DEF RegionClosed, Pending
<1> QED BY <1>1, <1>2, <1>3, <1>i, <1>4, <1>5, <1>10 DEF RegionInv

-----------------------------------------------------------------------------
(* The two walks over build edges.                                         *)

Back(g) == {<<r.dst, r.src>> : r \in Built(g)}
Forth(g) == {<<r.src, r.dst>> : r \in Built(g)}

\* A walk from `seeds` is under way: what it reached belongs to every closed
\* set around the seeds, and is closed but for what is still to expand.
WalkInv(seeds, steps) ==
  /\ seeds \subseteq walked
  /\ \A S \in SUBSET Artifacts : seeds \subseteq S /\ Closed(S, steps) => walked \subseteq S
  /\ \A s \in steps : s[1] \in walked \ todo => s[2] \in walked

\* Where a walk goes from an artifact.
LEMMA BackFrom ==
  ASSUME NEW g, NEW a
  PROVE  {r.src : r \in {b \in Built(g) : b.dst = a}}
           = {s[2] : s \in {t \in Back(g) : t[1] = a}}
<1>1. \A r \in Built(g) : <<r.dst, r.src>> \in Back(g)
  BY DEF Back
<1>2. ASSUME NEW r \in Built(g), r.dst = a
      PROVE  r.src \in {s[2] : s \in {t \in Back(g) : t[1] = a}}
  <2> DEFINE u == <<r.dst, r.src>>
  <2>1. u \in Back(g) /\ u[1] = a /\ u[2] = r.src
    BY <1>1, <1>2
  <2> HIDE DEF u
  <2> QED BY <2>1
<1>3. \A t \in Back(g) : \E r \in Built(g) : t[1] = r.dst /\ t[2] = r.src
  BY DEF Back
<1> QED BY <1>2, <1>3

LEMMA ForthFrom ==
  ASSUME NEW g, NEW a
  PROVE  {r.dst : r \in {b \in Built(g) : b.src = a}}
           = {s[2] : s \in {t \in Forth(g) : t[1] = a}}
<1>1. \A r \in Built(g) : <<r.src, r.dst>> \in Forth(g)
  BY DEF Forth
<1>2. ASSUME NEW r \in Built(g), r.src = a
      PROVE  r.dst \in {s[2] : s \in {t \in Forth(g) : t[1] = a}}
  <2> DEFINE u == <<r.src, r.dst>>
  <2>1. u \in Forth(g) /\ u[1] = a /\ u[2] = r.dst
    BY <1>1, <1>2
  <2> HIDE DEF u
  <2> QED BY <2>1
<1>3. \A t \in Forth(g) : \E r \in Built(g) : t[1] = r.src /\ t[2] = r.dst
  BY DEF Forth
<1> QED BY <1>2, <1>3

LEMMA WalkEnds ==
  ASSUME NEW seeds, NEW steps, WalkInv(seeds, steps), todo = {},
         walked \subseteq Artifacts
  PROVE  walked = Reach(seeds, steps)
BY DEF WalkInv, Reach, Closed

\* One turn of a walk.
LEMMA WalkTurn ==
  ASSUME NEW seeds, NEW steps, WalkInv(seeds, steps), NEW a, a \in todo,
         todo \subseteq walked,
         \A s \in steps : s = <<s[1], s[2]>>,
         NEW next, next = {s[2] : s \in {t \in steps : t[1] = a}},
         todo' = (todo \ {a}) \cup (next \ walked), walked' = walked \cup next
  PROVE  /\ seeds \subseteq walked'
         /\ \A S \in SUBSET Artifacts :
              seeds \subseteq S /\ Closed(S, steps) => walked' \subseteq S
         /\ \A s \in steps : s[1] \in walked' \ todo' => s[2] \in walked'
<1>1. \A S \in SUBSET Artifacts : seeds \subseteq S /\ Closed(S, steps) => next \subseteq S
  BY DEF WalkInv, Closed
<1>2. \A s \in steps : s[1] = a => s[2] \in next
  OBVIOUS
<1> QED BY <1>1, <1>2 DEF WalkInv

WalksInv ==
  /\ pc = "backward" => WalkInv(Anchors(listed, Support), Back(listed))
  /\ pc = "forward" => /\ reaches = Upstream(listed, Support)
                       /\ WalkInv(Edited, Forth(listed))

LEMMA WalkSeed ==
  ASSUME NEW seeds, NEW steps, walked' = seeds, todo' = seeds
  PROVE  /\ seeds \subseteq walked'
         /\ \A S \in SUBSET Artifacts :
              seeds \subseteq S /\ Closed(S, steps) => walked' \subseteq S
         /\ \A s \in steps : s[1] \in walked' \ todo' => s[2] \in walked'
OBVIOUS

LEMMA WalksInvSearch ==
  ASSUME TypeOK, WalksInv, Search
  PROVE  WalksInv'
<1>1. listed' = listed
  BY DEF Search, ComputeTouch, ReachEntity, ReachArtifact, SeedTouched,
         WalkBack, TurnForward, WalkForward, SeedReachable, loaded
<1>i. /\ Back(listed)' = Back(listed) /\ Forth(listed)' = Forth(listed)
      /\ Anchors(listed, Support)' = Anchors(listed, Support)
      /\ Upstream(listed, Support)' = Upstream(listed, Support)
  BY <1>1 DEF Back, Forth, Anchors, Upstream, Reach, Built, Owned, Links, Known, Closed
<1>p. ASSUME NEW seeds, NEW steps,
             /\ seeds \subseteq walked'
             /\ \A S \in SUBSET Artifacts :
                  seeds \subseteq S /\ Closed(S, steps) => walked' \subseteq S
             /\ \A s \in steps : s[1] \in walked' \ todo' => s[2] \in walked',
             seeds' = seeds, steps' = steps
      PROVE  WalkInv(seeds, steps)'
  BY <1>p DEF WalkInv, Closed
<1>e. Edited' = Edited
  OBVIOUS
<1>2. CASE ComputeTouch \/ (\E n \in Entities : ReachEntity(n))
           \/ (\E a \in Artifacts : ReachArtifact(a)) \/ SeedReachable
  <2>1. pc' \in {"reach", "done"}
    BY <1>2 DEF ComputeTouch, ReachEntity, ReachArtifact, SeedReachable
  <2> QED BY <2>1 DEF WalksInv
<1>3. CASE SeedTouched
  <2>1. /\ pc' = "backward" /\ walked' = Anchors(listed, Support)
        /\ todo' = Anchors(listed, Support)
    BY <1>3 DEF SeedTouched
  <2>2. WalkInv(Anchors(listed, Support), Back(listed))'
    BY <2>1, <1>i, <1>p, WalkSeed
  <2> QED BY <2>1, <2>2 DEF WalksInv
<1>4. ASSUME NEW a \in Artifacts, WalkBack(a) PROVE WalksInv'
  <2> DEFINE next == {r.src : r \in {b \in Built(listed) : b.dst = a}}
  <2>1. /\ pc = "backward" /\ pc' = "backward" /\ a \in todo
        /\ todo' = (todo \ {a}) \cup (next \ walked) /\ walked' = walked \cup next
    BY <1>4 DEF WalkBack
  <2>2. next = {s[2] : s \in {t \in Back(listed) : t[1] = a}}
    BY BackFrom
  <2>3. \A s \in Back(listed) : s = <<s[1], s[2]>>
    BY DEF Back
  <2>4. WalkInv(Anchors(listed, Support), Back(listed)) /\ todo \subseteq walked
    BY <2>1 DEF WalksInv, TypeOK
  <2> HIDE DEF next
  <2>5. WalkInv(Anchors(listed, Support), Back(listed))'
    <3> DEFINE seeds == Anchors(listed, Support)
               steps == Back(listed)
    <3>1. seeds' = seeds /\ steps' = steps
      BY <1>i
    <3>2. /\ WalkInv(seeds, steps) /\ \A s \in steps : s = <<s[1], s[2]>>
          /\ next = {s[2] : s \in {t \in steps : t[1] = a}}
      BY <2>2, <2>3, <2>4
    <3> HIDE DEF seeds, steps
    <3>3. /\ seeds \subseteq walked'
          /\ \A S \in SUBSET Artifacts :
               seeds \subseteq S /\ Closed(S, steps) => walked' \subseteq S
          /\ \A s \in steps : s[1] \in walked' \ todo' => s[2] \in walked'
      BY <2>1, <2>4, <3>2, WalkTurn
    <3>4. WalkInv(seeds, steps)'
      BY <3>1, <3>3 DEF WalkInv, Closed
    <3> QED BY <3>4 DEF seeds, steps
  <2> QED BY <2>1, <2>5 DEF WalksInv
<1>5. CASE TurnForward
  <2>1. /\ pc = "backward" /\ pc' = "forward" /\ todo = {} /\ reaches' = walked
        /\ walked' = Edited /\ todo' = Edited
    BY <1>5 DEF TurnForward
  <2>2. walked = Upstream(listed, Support)
    BY <2>1, WalkEnds DEF WalksInv, TypeOK, Upstream, Back
  <2>3. WalkInv(Edited, Forth(listed))'
    BY <2>1, <1>i, <1>p, <1>e, WalkSeed
  <2> QED BY <2>1, <2>2, <2>3, <1>i DEF WalksInv
<1>6. ASSUME NEW a \in Artifacts, WalkForward(a) PROVE WalksInv'
  <2> DEFINE next == {r.dst : r \in {b \in Built(listed) : b.src = a}}
  <2>1. /\ pc = "forward" /\ pc' = "forward" /\ a \in todo /\ reaches' = reaches
        /\ todo' = (todo \ {a}) \cup (next \ walked) /\ walked' = walked \cup next
    BY <1>6 DEF WalkForward
  <2>2. next = {s[2] : s \in {t \in Forth(listed) : t[1] = a}}
    BY ForthFrom
  <2>3. \A s \in Forth(listed) : s = <<s[1], s[2]>>
    BY DEF Forth
  <2>4. WalkInv(Edited, Forth(listed)) /\ todo \subseteq walked
        /\ reaches = Upstream(listed, Support)
    BY <2>1 DEF WalksInv, TypeOK
  <2> HIDE DEF next
  <2>5. WalkInv(Edited, Forth(listed))'
    <3> DEFINE steps == Forth(listed)
    <3>1. steps' = steps
      BY <1>i
    <3>2. /\ WalkInv(Edited, steps) /\ \A s \in steps : s = <<s[1], s[2]>>
          /\ next = {s[2] : s \in {t \in steps : t[1] = a}}
      BY <2>2, <2>3, <2>4
    <3> HIDE DEF steps
    <3>3. /\ Edited \subseteq walked'
          /\ \A S \in SUBSET Artifacts :
               Edited \subseteq S /\ Closed(S, steps) => walked' \subseteq S
          /\ \A s \in steps : s[1] \in walked' \ todo' => s[2] \in walked'
      BY <2>1, <2>4, <3>2, WalkTurn
    <3>4. WalkInv(Edited, steps)'
      BY <3>1, <3>3 DEF WalkInv, Closed
    <3> QED BY <3>4 DEF steps
  <2> QED BY <2>1, <2>4, <2>5, <1>i DEF WalksInv
<1> QED BY <1>2, <1>3, <1>4, <1>5, <1>6 DEF Search

-----------------------------------------------------------------------------
(* From the start of the load to the result.                               *)

Walking == SeedTouched \/ (\E a \in Artifacts : WalkBack(a)) \/ TurnForward
             \/ (\E a \in Artifacts : WalkForward(a)) \/ SeedReachable

\* The walks leave the region as it is.
LEMMA RegionWalking ==
  ASSUME RegionInv, Walking
  PROVE  RegionInv'
<1>1. /\ pc \in Searching /\ pc' \in Searching \ {"reach"}
      /\ pc = "reach" => todo = {}
      /\ UNCHANGED <<reached, listed, touch, diagnostics>>
  BY DEF Walking, SeedTouched, WalkBack, TurnForward, WalkForward, SeedReachable,
         loaded, Searching
<1>2. Pending = {} /\ Pending' = {}
  BY <1>1 DEF Pending
<1>3. /\ Owned(listed)' = Owned(listed) /\ Links(listed)' = Links(listed)
      /\ Built(listed)' = Built(listed) /\ Touch(listed)' = Touch(listed)
      /\ (MissingSupport(listed) \cup Dangling(listed))'
           = MissingSupport(listed) \cup Dangling(listed)
  BY <1>1 DEF Touch, Links, Known, Owned, MissingSupport, Dangling, Built
<1>4. RegionSound' = RegionSound
  BY <1>1, <1>3 DEF RegionSound, Region, Indexes, Component
<1>5. ItemsSound' = ItemsSound
  BY <1>1, <1>3 DEF ItemsSound
<1>6. RegionClosed' = RegionClosed
  BY <1>1, <1>2, <1>3 DEF RegionClosed, EntityExpanded, ArtifactExpanded
<1> QED BY <1>1, <1>3, <1>4, <1>5, <1>6 DEF RegionInv

\* Once the worklists are empty, what was reached is the component.
LEMMA RegionIsAround ==
  ASSUME TypeOK, RegionInv, pc \in Searching, Pending = {}
  PROVE  /\ Touch(listed) \subseteq Around(listed)
         /\ reached.corrs \cup reached.edges = Connected(listed)
<1>1. /\ Touch(listed) \subseteq reached.entities
      /\ RegionSound /\ ItemsSound /\ RegionClosed
  BY DEF RegionInv
<1>2. /\ \A n \in reached.entities : EntityExpanded(n)
      /\ \A a \in reached.artifacts : ArtifactExpanded(a)
  BY <1>1 DEF RegionClosed
<1>3. /\ Owned(listed) \subseteq EntityRows /\ Links(listed) \subseteq CorrRows
      /\ Built(listed) \subseteq EdgeRows
      /\ reached.entities \subseteq Entities /\ reached.artifacts \subseteq Artifacts
  BY IndexTypes DEF TypeOK
<1>4. /\ \A n \in Entities : n \in Region => n \in reached.entities
      /\ \A a \in Artifacts : a \in Region => a \in reached.artifacts
  BY <1>3, FrontierAssumption DEF Region
<1>5. Component(Indexes(listed), Region)
  <2>1. \A r \in Owned(listed) : r.entity \in Region <=> r.artifact \in Region
    BY <1>2, <1>3, <1>4 DEF EntityExpanded, ArtifactExpanded, EntityRows, Region
  <2>2. \A l \in Links(listed) : l.ends \cap Region # {} => l.ends \subseteq Region
    BY <1>1, <1>2, <1>3, <1>4 DEF EntityExpanded, RegionClosed, CorrRows, Region
  <2>3. \A r \in Built(listed) : r.src \in Region <=> r.dst \in Region
    BY <1>2, <1>3, <1>4 DEF ArtifactExpanded, EdgeRows, Region
  <2> QED BY <2>1, <2>2, <2>3 DEF Indexes, Component
<1>6. Region = Around(listed)
  <2>1. Region \subseteq Artifacts \cup Entities /\ Touch(listed) \subseteq Region
    BY <1>1, <1>3 DEF Region
  <2> QED BY <2>1, <1>1, <1>5 DEF Around, RegionSound
<1>7. reached.corrs = {l.corr : l \in {k \in Links(listed) : k.ends \cap Region # {}}}
  <2>1. \A l \in Links(listed) : l.ends \cap Region # {} => l.corr \in reached.corrs
    BY <1>2, <1>3, <1>4 DEF EntityExpanded, CorrRows
  <2>2. \A k \in reached.corrs : \E l \in Links(listed) :
          l.corr = k /\ l.ends \cap Region # {}
    BY <1>1 DEF ItemsSound, Region
  <2> QED BY <2>1, <2>2
<1>8. reached.edges = {r.edge : r \in {b \in Built(listed) : b.src \in Region}}
  <2>1. \A r \in Built(listed) : r.src \in Region => r.edge \in reached.edges
    BY <1>2, <1>3, <1>4 DEF ArtifactExpanded, EdgeRows
  <2>2. \A e \in reached.edges : \E r \in Built(listed) : r.edge = e /\ r.src \in Region
    BY <1>1 DEF ItemsSound, Region
  <2> QED BY <2>1, <2>2
<1> QED BY <1>1, <1>6, <1>7, <1>8 DEF Connected, Region

LEMMA ItemsOfEntry ==
  ASSUME NEW items, NEW reason, NEW list
  PROVE  /\ Items(Entry(items, reason)) = items
         /\ Items(list \cup Entry(items, reason)) = Items(list) \cup items
<1>1. Items(Entry(items, reason)) = items
  <2>1. \A i \in items : [item |-> i, reason |-> reason] \in Entry(items, reason)
    BY DEF Entry
  <2>2. \A i \in items : [item |-> i, reason |-> reason].item = i
    OBVIOUS
  <2>3. \A e \in Entry(items, reason) : e.item \in items
    BY DEF Entry
  <2> QED BY <2>1, <2>2, <2>3 DEF Items
<1>2. Items(list \cup Entry(items, reason)) = Items(list) \cup Items(Entry(items, reason))
  BY DEF Items
<1> QED BY <1>1, <1>2

Touched == Support \cap {l.corr : l \in {k \in Links(listed) : k.ends \cap Touch(listed) # {}}}
NeededFrom(S) == {r.edge : r \in {b \in Built(listed) :
                    b.src \in S /\ (b.edge \in Support \/ b.dst \in reaches)}}

\* What each phase has put in the frontier.
EntriesInv ==
  /\ pc = "backward" => Items(entries) = Touched
  /\ pc = "forward" => Items(entries) = Touched \cup NeededFrom(walked \ todo)
  /\ pc = "done" => Items(entries) = Required(listed, Support)

\* The worklists of the search start empty-handed.
Fresh ==
  pc \notin Searching =>
    reached.artifacts = {} /\ reached.corrs = {} /\ reached.edges = {}

FrontierInv ==
  TypeOK /\ LoadInv /\ Fresh /\ RegionInv /\ WalksInv /\ EntriesInv

\* The writer and the load come before the search and leave its state alone.
LEMMA BeforeSearch ==
  ASSUME TypeOK, Fresh, Writer \/ Load
  PROVE  /\ pc \notin Searching /\ pc' \notin Searching
         /\ Fresh' /\ RegionInv' /\ WalksInv' /\ EntriesInv'
<1>1. /\ pc \in {"ingest", "entities", "corrs", "edges"}
      /\ pc' \in {"ingest", "entities", "corrs", "edges", "touch"}
      /\ reached' = reached
  BY DEF Writer, SaveArtifact, SaveEntity, SaveCorrespondence, SaveBuildEdge, Save,
         Load, ListArtifacts, ListEntities, ListCorrespondences, ListBuildEdges, searching
<1> QED BY <1>1 DEF Searching, Fresh, RegionInv, WalksInv, EntriesInv

LEMMA RegionInvSearch ==
  ASSUME TypeOK, LoadInv, Fresh, RegionInv, Search
  PROVE  RegionInv' /\ Fresh'
<1>1. pc' \in Searching
  BY DEF Search, ComputeTouch, ReachEntity, ReachArtifact, SeedTouched,
         WalkBack, TurnForward, WalkForward, SeedReachable, Searching, TypeOK
<1>2. ASSUME ComputeTouch PROVE RegionInv'
  <2>1. pc \notin Searching
    BY <1>2 DEF ComputeTouch, Searching
  <2> QED BY <1>2, <2>1, RegionTouch DEF Fresh
<1>3. ASSUME NEW n \in Entities, ReachEntity(n) PROVE RegionInv'
  BY <1>3, RegionEntity
<1>4. ASSUME NEW a \in Artifacts, ReachArtifact(a) PROVE RegionInv'
  BY <1>4, RegionArtifact
<1>5. ASSUME Walking PROVE RegionInv'
  BY <1>5, RegionWalking
<1>6. RegionInv'
  BY <1>2, <1>3, <1>4, <1>5 DEF Search, Walking
<1>7. Fresh'
  BY <1>1 DEF Fresh
<1> QED BY <1>6, <1>7

LEMMA EntriesInvSearch ==
  ASSUME TypeOK, RegionInv, WalksInv, EntriesInv, Search
  PROVE  EntriesInv'
<1>1. listed' = listed
  BY DEF Search, ComputeTouch, ReachEntity, ReachArtifact, SeedTouched,
         WalkBack, TurnForward, WalkForward, SeedReachable, loaded
<1>2. /\ Touched' = Touched /\ Built(listed)' = Built(listed)
      /\ Required(listed, Support)' = Required(listed, Support)
  BY <1>1 DEF Touched, Built, Owned, Known, Links, Touch, Required, Connected,
     Around, Indexes, Component, OnPath, Downstream, Upstream, Anchors, Reach, Closed
<1>3. CASE ComputeTouch \/ (\E n \in Entities : ReachEntity(n))
           \/ (\E a \in Artifacts : ReachArtifact(a))
  <2>1. pc' = "reach"
    BY <1>3 DEF ComputeTouch, ReachEntity, ReachArtifact
  <2> QED BY <2>1 DEF EntriesInv
<1>4. CASE SeedTouched
  <2>1. pc' = "backward" /\ entries' = Entry(Touched, "TouchedEndpoint")
    BY <1>4 DEF SeedTouched, Touched, RegionInv, Searching
  <2>2. Items(entries') = Touched
    BY <2>1, ItemsOfEntry
  <2> QED BY <2>1, <2>2, <1>2 DEF EntriesInv, Items
<1>5. CASE \E a \in Artifacts : WalkBack(a)
  <2>1. pc = "backward" /\ pc' = "backward" /\ entries' = entries
    BY <1>5 DEF WalkBack
  <2> QED BY <2>1, <1>2 DEF EntriesInv, Items
<1>6. CASE TurnForward
  <2>1. /\ pc = "backward" /\ pc' = "forward" /\ entries' = entries
        /\ walked' \ todo' = {}
    BY <1>6 DEF TurnForward
  <2>2. NeededFrom(walked \ todo)' = {}
    BY <2>1 DEF NeededFrom
  <2>3. Items(entries)' = Items(entries)
    BY <2>1 DEF Items
  <2> QED BY <2>1, <2>2, <2>3, <1>2 DEF EntriesInv
<1>7. ASSUME NEW a \in Artifacts, WalkForward(a) PROVE EntriesInv'
  <2> DEFINE out == {r \in Built(listed) : r.src = a}
             needed == {r \in out : r.edge \in Support \/ r.dst \in reaches}
             next == {r.dst : r \in out}
             reason == IF a \in Edited THEN "EditedArtifactBuild" ELSE "GeneratedArtifactBuild"
  <2>1. /\ pc = "forward" /\ pc' = "forward" /\ a \in todo /\ reaches' = reaches
        /\ entries' = entries \cup Entry({r.edge : r \in needed}, reason)
        /\ todo' = (todo \ {a}) \cup (next \ walked) /\ walked' = walked \cup next
    BY <1>7 DEF WalkForward
  <2>2. todo \subseteq walked
    BY <2>1 DEF TypeOK
  <2>3. walked' \ todo' = (walked \ todo) \cup {a}
    <3> HIDE DEF next
    <3> QED BY <2>1, <2>2
  <2>4. {r.edge : r \in needed} = NeededFrom({a})
    BY DEF NeededFrom
  <2>5. Items(entries') = Items(entries) \cup NeededFrom({a})
    <3> HIDE DEF needed, reason
    <3> QED BY <2>1, <2>4, ItemsOfEntry
  <2>6. NeededFrom(walked \ todo) \cup NeededFrom({a})
          = NeededFrom((walked \ todo) \cup {a})
    BY DEF NeededFrom
  <2>7. NeededFrom(walked \ todo)' = NeededFrom((walked \ todo) \cup {a})
    BY <2>1, <2>3, <1>2 DEF NeededFrom
  <2>8. Items(entries)' = Items(entries')
    BY DEF Items
  <2> HIDE DEF next, needed, reason
  <2> QED BY <2>1, <2>5, <2>6, <2>7, <2>8, <1>2 DEF EntriesInv
<1>8. CASE SeedReachable
  <2>1. /\ pc = "forward" /\ pc' = "done" /\ todo = {}
        /\ entries' = entries \cup Entry(Support \cap (reached.corrs \cup reached.edges),
                                         "ReachableSupport")
    BY <1>8 DEF SeedReachable
  <2>2. Items(entries') = Touched \cup NeededFrom(walked)
                            \cup (Support \cap (reached.corrs \cup reached.edges))
    BY <2>1, ItemsOfEntry DEF EntriesInv
  <2>3. /\ Touch(listed) \subseteq Around(listed)
        /\ reached.corrs \cup reached.edges = Connected(listed)
    BY <2>1, RegionIsAround DEF Searching, Pending
  <2>4. reaches = Upstream(listed, Support) /\ walked = Downstream(listed)
    BY <2>1, WalkEnds DEF WalksInv, TypeOK, Downstream, Forth
  <2>5. NeededFrom(walked) = OnPath(listed, Support)
    BY <2>4 DEF NeededFrom, OnPath
  <2>6. Touched \subseteq Support \cap Connected(listed)
    BY <2>3 DEF Touched, Connected
  <2>7. Items(entries') = Required(listed, Support)
    BY <2>2, <2>3, <2>5, <2>6 DEF Required
  <2> QED BY <2>1, <2>7, <1>2 DEF EntriesInv, Items
<1> QED BY <1>3, <1>4, <1>5, <1>6, <1>7, <1>8 DEF Search

LEMMA FrontierInvInit == Init => FrontierInv
<1> SUFFICES ASSUME Init PROVE FrontierInv
  OBVIOUS
<1>1. TypeOK /\ LoadInv
  BY InitTypes, LoadInvInit
<1>2. Fresh /\ RegionInv /\ WalksInv /\ EntriesInv
  BY DEF Init, Fresh, RegionInv, WalksInv, EntriesInv, Searching
<1> QED BY <1>1, <1>2 DEF FrontierInv

LEMMA FrontierInvStep == FrontierInv /\ [Next]_vars => FrontierInv'
<1> SUFFICES ASSUME FrontierInv, [Next]_vars PROVE FrontierInv'
  OBVIOUS
<1> USE DEF FrontierInv
<1>1. TypeOK' /\ LoadInv'
  BY StepTypes, LoadInvStep
<1>2. CASE Writer \/ Load
  BY <1>1, <1>2, BeforeSearch
<1>3. CASE Search
  BY <1>1, <1>3, RegionInvSearch, WalksInvSearch, EntriesInvSearch
<1>4. CASE UNCHANGED vars
  <2>1. /\ Touch(listed)' = Touch(listed) /\ Links(listed)' = Links(listed)
        /\ Owned(listed)' = Owned(listed) /\ Built(listed)' = Built(listed)
        /\ (MissingSupport(listed) \cup Dangling(listed))'
             = MissingSupport(listed) \cup Dangling(listed)
    BY <1>4 DEF vars, searching, Touch, Links, Known, Owned, MissingSupport, Dangling, Built
  <2>2. Fresh' /\ RegionInv'
    BY <1>4, <2>1 DEF vars, searching, Fresh, RegionInv, Region, RegionSound,
       Indexes, Component, ItemsSound, RegionClosed, Pending, EntityExpanded, ArtifactExpanded
  <2>3. WalksInv'
    <3>1. /\ walked' = walked /\ todo' = todo /\ reaches' = reaches /\ pc' = pc
          /\ listed' = listed
      BY <1>4 DEF vars, searching
    <3>2. /\ Anchors(listed, Support)' = Anchors(listed, Support)
          /\ Back(listed)' = Back(listed) /\ Forth(listed)' = Forth(listed)
      BY <2>1, <3>1 DEF Anchors, Back, Forth
    <3>3. Upstream(listed, Support)' = Upstream(listed, Support)
      BY <2>1, <3>1, <3>2 DEF Upstream, Reach, Closed
    <3> QED BY <3>1, <3>2, <3>3 DEF WalksInv, WalkInv, Closed
  <2>4. EntriesInv'
    <3>1. Items(entries)' = Items(entries) /\ Touched' = Touched
      BY <1>4, <2>1 DEF vars, searching, Items, Touched
    <3>2. NeededFrom(walked \ todo)' = NeededFrom(walked \ todo)
      BY <1>4, <2>1 DEF vars, searching, NeededFrom
    <3>3. Required(listed, Support)' = Required(listed, Support)
      BY <1>4 DEF vars, Built, Owned, Known, Links, Touch, Required, Connected,
         Around, Indexes, Component, OnPath, Downstream, Upstream, Anchors, Reach, Closed
    <3> QED BY <1>4, <3>1, <3>2, <3>3 DEF vars, EntriesInv
  <2> QED BY <1>1, <2>2, <2>3, <2>4
<1> QED BY <1>2, <1>3, <1>4 DEF Next, Finished

\* A union of components is closed under the paths of docs/architecture.md.
LEMMA ComponentClosed ==
  ASSUME NEW g, NEW S, Component(Indexes(g), S)
  PROVE  Closed(S, Paths(g))
<1>1. ASSUME NEW r \in Owned(g) PROVE r.entity \in S <=> r.artifact \in S
  BY <1>1 DEF Indexes, Component
<1>2. ASSUME NEW l \in Links(g), NEW x \in l.ends, NEW y \in l.ends, x \in S
      PROVE  y \in S
  BY <1>2 DEF Indexes, Component
<1>3. ASSUME NEW r \in Built(g) PROVE r.src \in S => r.dst \in S
  BY <1>3 DEF Indexes, Component
<1> DEFINE Ends == UNION {l.ends \X l.ends : l \in Links(g)}
<1>4. ASSUME NEW p \in Ends, p[1] \in S PROVE p[2] \in S
  <2>1. PICK l \in Links(g) : p \in l.ends \X l.ends
    BY <1>4
  <2>2. p[1] \in l.ends /\ p[2] \in l.ends
    BY <2>1
  <2> QED BY <1>2, <1>4, <2>2
<1>5. ASSUME NEW p \in Paths(g), p \notin Ends, p[1] \in S PROVE p[2] \in S
  <2> DEFINE Up == {<<r.entity, r.artifact>> : r \in Owned(g)}
             Down == {<<r.artifact, r.entity>> : r \in Owned(g)}
             Ahead == {<<r.src, r.dst>> : r \in Built(g)}
  <2>1. Paths(g) = Up \cup Down \cup Ends \cup Ahead
    BY Zenon DEF Paths
  <2>2. p \in Up => p[2] \in S
    BY <1>1, <1>5
  <2>3. p \in Down => p[2] \in S
    BY <1>1, <1>5
  <2>4. p \in Ahead => p[2] \in S
    BY <1>3, <1>5
  <2> HIDE DEF Ends, Up, Down, Ahead
  <2> QED BY <2>1, <2>2, <2>3, <2>4, <1>5
<1> QED BY <1>4, <1>5 DEF Closed

\* The support the document counts as affected is required by the code too.
LEMMA AffectedRequired ==
  ASSUME NEW g
  PROVE  Affected(g, Support) \subseteq Required(g, Support)
<1>1. Touchable(g) \subseteq Around(g)
  BY ComponentClosed DEF Touchable, Around
<1>2. Affected(g, Support) \subseteq Support \cap Connected(g)
  BY <1>1 DEF Affected, Connected
<1> QED BY <1>2 DEF Required

\* The worklists compute what the code calls required(o) over the rows listed,
\* whatever the order they are served in, and no support is left out that a
\* path from a touched entity reaches.
THEOREM ClosureExact == Spec => []FrontierExact
<1>1. FrontierInv => FrontierExact
  BY AffectedRequired DEF FrontierInv, EntriesInv, FrontierExact
<1> QED BY <1>1, FrontierInvInit, FrontierInvStep, PTL DEF Spec

-----------------------------------------------------------------------------
(* What is required of two graphs, and with what is required as support.   *)

LEMMA ReachMonotone ==
  ASSUME NEW seeds, NEW steps, NEW seeds2, NEW steps2,
         seeds \subseteq seeds2, steps \subseteq steps2
  PROVE  Reach(seeds, steps) \subseteq Reach(seeds2, steps2)
BY DEF Reach, Closed

\* More rows, more required items.
LEMMA RequiredMonotone ==
  ASSUME NEW g, NEW h, Within(g, h), NEW support
  PROVE  Required(g, support) \subseteq Required(h, support)
<1>1. /\ Owned(g) \subseteq Owned(h) /\ Built(g) \subseteq Built(h)
  BY DEF Within, Owned, Built
<1>2. Known(g) \subseteq Known(h)
  BY <1>1 DEF Known
<1>3. ASSUME NEW l \in Links(g)
      PROVE  \E m \in Links(h) : m.corr = l.corr /\ l.ends \subseteq m.ends
  <2>1. PICK r \in g.corrs : l = [corr |-> r.corr, ends |-> r.ends \cap Known(g)]
    BY DEF Links
  <2> DEFINE m == [corr |-> r.corr, ends |-> r.ends \cap Known(h)]
  <2>2. m \in Links(h)
    BY DEF Within, Links
  <2>3. m.corr = r.corr /\ m.ends = r.ends \cap Known(h)
    OBVIOUS
  <2>4. l.corr = r.corr /\ l.ends = r.ends \cap Known(g)
    BY <2>1
  <2> HIDE DEF m
  <2> QED BY <2>2, <2>3, <2>4, <1>2
<1>4. Touch(g) \subseteq Touch(h)
  BY <1>1, <1>2 DEF Touch
<1>5. ASSUME NEW S, Component(Indexes(h), S) PROVE Component(Indexes(g), S)
  <2>1. \A l \in Links(g) : l.ends \cap S # {} => l.ends \subseteq S
    BY <1>3, <1>5 DEF Indexes, Component
  <2> QED BY <1>1, <1>5, <2>1 DEF Indexes, Component
<1>6. Around(g) \subseteq Around(h)
  BY <1>4, <1>5 DEF Around
<1>7. Connected(g) \subseteq Connected(h)
  <2>1. \A l \in Links(g) : l.ends \cap Around(g) # {} =>
          l.corr \in {m.corr : m \in {k \in Links(h) : k.ends \cap Around(h) # {}}}
    BY <1>3, <1>6
  <2>2. \A r \in Built(g) : r.src \in Around(g) =>
          r.edge \in {b.edge : b \in {c \in Built(h) : c.src \in Around(h)}}
    BY <1>1, <1>6
  <2> QED BY <2>1, <2>2 DEF Connected
<1>8. Anchors(g, support) \subseteq Anchors(h, support)
  <2>1. \A o \in Owned(g) :
          (\E l \in Links(g) : l.corr \in support /\ o.entity \in l.ends) =>
          (\E l \in Links(h) : l.corr \in support /\ o.entity \in l.ends)
    BY <1>3
  <2> QED BY <1>1, <2>1 DEF Anchors
<1>9. Downstream(g) \subseteq Downstream(h)
  <2>1. {<<r.src, r.dst>> : r \in Built(g)} \subseteq {<<r.src, r.dst>> : r \in Built(h)}
    BY <1>1
  <2> QED BY <2>1, ReachMonotone DEF Downstream
<1>10. Upstream(g, support) \subseteq Upstream(h, support)
  <2>1. {<<r.dst, r.src>> : r \in Built(g)} \subseteq {<<r.dst, r.src>> : r \in Built(h)}
    BY <1>1
  <2> QED BY <2>1, <1>8, ReachMonotone DEF Upstream
<1>11. OnPath(g, support) \subseteq OnPath(h, support)
  BY <1>1, <1>9, <1>10 DEF OnPath
<1> QED BY <1>7, <1>11 DEF Required

\* Upstream holds the anchors and what leads to it.
LEMMA UpstreamClosed ==
  ASSUME NEW g \in Graphs, NEW support
  PROVE  /\ Anchors(g, support) \subseteq Upstream(g, support)
         /\ \A r \in Built(g) : r.dst \in Upstream(g, support) => r.src \in Upstream(g, support)
<1>1. Anchors(g, support) \subseteq Artifacts /\ Built(g) \subseteq EdgeRows
  BY IndexTypes
<1>2. Upstream(g, support) = Reach(Anchors(g, support), Back(g))
  BY DEF Upstream, Back
<1>3. ASSUME NEW r \in Built(g), r.dst \in Upstream(g, support)
      PROVE  r.src \in Upstream(g, support)
  <2>1. r.src \in Artifacts
    BY <1>1 DEF EdgeRows
  <2>2. ASSUME NEW S \in SUBSET Artifacts, Anchors(g, support) \subseteq S,
               Closed(S, Back(g))
        PROVE  r.src \in S
    <3>1. r.dst \in S
      BY <1>2, <1>3, <2>2 DEF Reach
    <3>2. <<r.dst, r.src>> \in Back(g)
      BY DEF Back
    <3> DEFINE s == <<r.dst, r.src>>
    <3>3. s \in Back(g) /\ s[1] = r.dst /\ s[2] = r.src
      BY <3>2
    <3> HIDE DEF s
    <3> QED BY <2>2, <3>1, <3>3 DEF Closed
  <2> QED BY <2>1, <2>2, <1>2 DEF Reach
<1> QED BY <1>1, <1>2, <1>3 DEF Reach

\* With what it requires as its support, a graph requires the same.
LEMMA RequiredIdempotent ==
  ASSUME NEW g \in Graphs, Keyed(g)
  PROVE  Required(g, Required(g, Support)) = Required(g, Support)
<1> DEFINE E == Required(g, Support)
<1>1. E = (Support \cap Connected(g)) \cup OnPath(g, Support)
  BY DEF Required
<1>2. Built(g) \subseteq EdgeRows /\ Built(g) \subseteq g.edges /\ Links(g) \subseteq CorrRows
  BY IndexTypes
<1>3. OnPath(g, Support) \subseteq Edges
  BY <1>2 DEF OnPath, EdgeRows
<1>4. Anchors(g, E) \subseteq Upstream(g, Support)
  <2>1. ASSUME NEW r \in Built(g), r.edge \in E
        PROVE  r.src \in Upstream(g, Support)
    <3>1. CASE r.edge \in Support
      BY <3>1, UpstreamClosed DEF Anchors
    <3>2. CASE r.edge \in OnPath(g, Support) /\ r.edge \notin Support
      <4>1. PICK b \in Built(g) :
              b.edge = r.edge /\ (b.edge \in Support \/ b.dst \in Upstream(g, Support))
        BY <3>2 DEF OnPath
      <4>2. b = r
        BY <4>1, <1>2 DEF Keyed
      <4> QED BY <3>2, <4>1, <4>2, UpstreamClosed
    <3> QED BY <2>1, <1>1, <3>1, <3>2
  <2>2. ASSUME NEW o \in Owned(g), NEW l \in Links(g), l.corr \in E, o.entity \in l.ends
        PROVE  o.artifact \in Upstream(g, Support)
    <3>1. l.corr \in Support
      BY <2>2, <1>1, <1>2, <1>3, FrontierAssumption DEF CorrRows
    <3>2. o.artifact \in Anchors(g, Support)
      BY <2>2, <3>1 DEF Anchors
    <3> QED BY <3>2, UpstreamClosed
  <2> HIDE DEF E
  <2> QED BY <2>1, <2>2 DEF Anchors
<1>5. Upstream(g, E) \subseteq Upstream(g, Support)
  <2>1. \A S \in SUBSET Artifacts :
          Anchors(g, Support) \subseteq S /\ Closed(S, Back(g)) => Upstream(g, Support) \subseteq S
    BY DEF Upstream, Reach, Back
  <2>2. \A S \in SUBSET Artifacts :
          Anchors(g, Support) \subseteq S /\ Closed(S, Back(g)) => Anchors(g, E) \subseteq S
    BY <2>1, <1>4
  <2>3. Upstream(g, E) = Reach(Anchors(g, E), Back(g))
        /\ Upstream(g, Support) = Reach(Anchors(g, Support), Back(g))
    BY DEF Upstream, Back
  <2> HIDE DEF E
  <2> QED BY <2>2, <2>3 DEF Reach
<1>6. OnPath(g, E) \subseteq E
  <2>1. ASSUME NEW b \in Built(g), b.src \in Downstream(g),
               b.edge \in E \/ b.dst \in Upstream(g, E)
        PROVE  b.edge \in E
    <3>1. CASE b.dst \in Upstream(g, E)
      <4>1. b.edge \in OnPath(g, Support)
        BY <2>1, <3>1, <1>5 DEF OnPath
      <4> QED BY <4>1, <1>1
    <3> QED BY <2>1, <3>1
  <2> HIDE DEF E
  <2> QED BY <2>1 DEF OnPath
<1>7. OnPath(g, Support) \subseteq OnPath(g, E)
  <2>1. ASSUME NEW b \in Built(g), b.src \in Downstream(g),
               b.edge \in Support \/ b.dst \in Upstream(g, Support)
        PROVE  b.edge \in OnPath(g, E)
    <3>1. b.edge \in E
      BY <2>1, <1>1 DEF OnPath
    <3> HIDE DEF E
    <3> QED BY <2>1, <3>1 DEF OnPath
  <2> HIDE DEF E
  <2> QED BY <2>1 DEF OnPath
<1>8. Required(g, E) = (E \cap Connected(g)) \cup OnPath(g, E)
  BY DEF Required
<1> HIDE DEF E
<1>9. Required(g, E) = E
  BY <1>1, <1>6, <1>7, <1>8
<1> QED BY <1>9 DEF E

\* What the list queries returned holds the rows of the start, and no row that
\* is not there now.
LEMMA LoadedBetween ==
  ASSUME TypeOK, LoadInv, pc = "done"
  PROVE  /\ Keyed(listed)
         /\ moves = 0 => Within(begun, listed) /\ Within(listed, store)
BY DEF LoadInv, Loaded, Within

\* The race between the four list queries and a writer loses no item.
THEOREM LoadMissesNothing == Spec => []NothingMissed
<1>1. FrontierInv => NothingMissed
  <2> SUFFICES ASSUME FrontierInv, pc = "done", moves = 0
               PROVE  /\ Required(begun, Support) \subseteq Items(entries)
                      /\ Items(entries) \subseteq Required(store, Support)
    BY DEF NothingMissed
  <2>1. Within(begun, listed) /\ Within(listed, store)
    BY LoadedBetween DEF FrontierInv
  <2>2. Items(entries) = Required(listed, Support)
    BY DEF FrontierInv, EntriesInv
  <2> QED BY <2>1, <2>2, RequiredMonotone
<1> QED BY <1>1, FrontierInvInit, FrontierInvStep, PTL DEF Spec

\* A frontier taken as support gives itself again.
THEOREM ClosureIdempotent == Spec => []Idempotent
<1>1. FrontierInv => Idempotent
  <2> SUFFICES ASSUME FrontierInv, pc = "done"
               PROVE  Required(listed, Items(entries)) = Items(entries)
    BY DEF Idempotent
  <2>1. Keyed(listed) /\ listed \in Graphs
    BY LoadedBetween DEF FrontierInv, TypeOK
  <2>2. Items(entries) = Required(listed, Support)
    BY DEF FrontierInv, EntriesInv
  <2> QED BY <2>1, <2>2, RequiredIdempotent
<1> QED BY <1>1, FrontierInvInit, FrontierInvStep, PTL DEF Spec

\* A diagnostic names nothing that the store held when the load began.
THEOREM DiagnosticsFromRaces == Spec => []OnlyRacesDangle
<1>1. FrontierInv => OnlyRacesDangle
  <2> SUFFICES ASSUME FrontierInv, pc = "done", moves = 0
               PROVE  diagnostics \cap ({r.entity : r \in begun.entities}
                                          \cup {r.corr : r \in begun.corrs}
                                          \cup {r.edge : r \in begun.edges}) = {}
    BY DEF OnlyRacesDangle
  <2>1. /\ Within(begun, listed) /\ Keyed(listed) /\ WellFormed(begun)
    BY LoadedBetween DEF FrontierInv, LoadInv
  <2>2. diagnostics = MissingSupport(listed) \cup Dangling(listed)
    BY DEF FrontierInv, RegionInv, Searching
  <2>3. /\ begun.entities \subseteq EntityRows /\ listed.entities \subseteq EntityRows
        /\ begun.corrs \subseteq CorrRows /\ listed.corrs \subseteq CorrRows
        /\ begun.edges \subseteq EdgeRows /\ listed.edges \subseteq EdgeRows
    BY DEF FrontierInv, TypeOK, Graphs
  <2>4. begun.entities \subseteq Owned(listed) /\ begun.edges \subseteq Built(listed)
    BY <2>1 DEF Within, WellFormed, Owned, Built
  <2>5. \A c \in begun.corrs : c.ends \subseteq Known(listed)
    BY <2>1, <2>4 DEF WellFormed, Known
  <2>6. ASSUME NEW r \in begun.entities
        PROVE  r.entity \notin diagnostics
    <3>1. r.entity \in Entities
      BY <2>3 DEF EntityRows
    <3>2. r.entity \notin MissingSupport(listed)
      BY <3>1, FrontierAssumption DEF MissingSupport
    <3>3. r.entity \notin {s.entity : s \in listed.entities \ Owned(listed)}
      BY <2>1, <2>4 DEF Within, Keyed
    <3>4. Dangling(listed) \cap Entities
            \subseteq {s.entity : s \in listed.entities \ Owned(listed)}
      BY <2>3, FrontierAssumption DEF Dangling, CorrRows, EdgeRows, Built
    <3> QED BY <2>2, <3>1, <3>2, <3>3, <3>4
  <2>7. ASSUME NEW r \in begun.corrs
        PROVE  r.corr \notin diagnostics
    <3>1. r.corr \in Corrs
      BY <2>3 DEF CorrRows
    <3>2. r.corr \notin MissingSupport(listed)
      BY <2>1 DEF MissingSupport, Within
    <3>3. r.corr \notin {c.corr : c \in {d \in listed.corrs : ~ d.ends \subseteq Known(listed)}}
      BY <2>1, <2>5 DEF Within, Keyed
    <3>4. Dangling(listed) \cap Corrs
            \subseteq {c.corr : c \in {d \in listed.corrs : ~ d.ends \subseteq Known(listed)}}
      BY <2>3, FrontierAssumption DEF Dangling, EntityRows, EdgeRows
    <3> QED BY <2>2, <3>1, <3>2, <3>3, <3>4
  <2>8. ASSUME NEW r \in begun.edges
        PROVE  r.edge \notin diagnostics
    <3>1. r.edge \in Edges
      BY <2>3 DEF EdgeRows
    <3>2. r.edge \notin MissingSupport(listed)
      BY <2>4 DEF MissingSupport
    <3>3. r.edge \notin {s.edge : s \in listed.edges \ Built(listed)}
      BY <2>1, <2>4 DEF Within, Keyed
    <3>4. Dangling(listed) \cap Edges
            \subseteq {s.edge : s \in listed.edges \ Built(listed)}
      BY <2>3, FrontierAssumption DEF Dangling, EntityRows, CorrRows
    <3> QED BY <2>2, <3>1, <3>2, <3>3, <3>4
  <2> QED BY <2>6, <2>7, <2>8
<1> QED BY <1>1, FrontierInvInit, FrontierInvStep, PTL DEF Spec
=============================================================================
