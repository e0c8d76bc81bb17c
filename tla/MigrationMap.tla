----------------------------- MODULE MigrationMap -----------------------------
(***************************************************************************)
(* From candidate rewrites to mu: `build_migration_map` in                 *)
(* crates/polyref-graph/src/migration_map.rs, and `MigrationMap::try_new`  *)
(* of polyref-core.                                                        *)
(*                                                                         *)
(* A candidate is a record of old, new ("none" when no target is known)    *)
(* and confidence; known is the set of entities with a row in the graph.   *)
(* A row repeats the side and the kind its entity's id spells.             *)
(***************************************************************************)
EXTENDS Ids

Olds(candidates) == {c.old : c \in candidates}
Group(candidates, old) == {c \in candidates : c.old = old}

\* concrete_targets
ConcreteTargets(group) ==
  {c.new : c \in {d \in group : d.confidence = "concrete" /\ d.new # "none"}}

\* non_concrete_diagnostics
NonConcrete(group) ==
  {CASE c.confidence = "ambiguous" -> "MigrationMapAmbiguous"
     [] c.confidence = "missing" -> "MissingEndpoint" :
     c \in {d \in group : d.confidence # "concrete"}}

Note(kind, old, targets) == [kind |-> kind, old |-> old, targets |-> targets]

\* What keeps a group's one target from being accepted, if anything does.
\* accept_single_target
Obstacle(known, old, target) ==
  IF target \notin known \/ SideOf(old) # "old" \/ SideOf(target) # "new" THEN {"MissingEndpoint"}
  ELSE IF KindOf(old) # KindOf(target) THEN {"KindMismatch"}
  ELSE {}

\* Seeded fault: concrete targets win over vague candidates of the same entity.
GroupKindsEager(known, old, group) ==
  IF ConcreteTargets(group) = {} THEN NonConcrete(group) \cup {"MissingEndpoint"}
  ELSE IF old \notin known THEN {"MissingEndpoint"}
  ELSE Obstacle(known, old, CHOOSE t \in ConcreteTargets(group) : TRUE)

\* The diagnostics of one group: all that its vague candidates give, or one.
GroupKinds(known, old, group) ==
  IF NonConcrete(group) # {} THEN NonConcrete(group)
  ELSE IF old \notin known \/ ConcreteTargets(group) = {} THEN {"MissingEndpoint"}
  ELSE IF \E s, t \in ConcreteTargets(group) : s # t THEN {"MigrationMapConflict"}
  ELSE Obstacle(known, old, CHOOSE t \in ConcreteTargets(group) : TRUE)

Accepted(known, candidates) ==
  {old \in Olds(candidates) : GroupKinds(known, old, Group(candidates, old)) = {}}

\* build_migration_map; asked stands for the audit's hash of the candidates.
BuildMap(known, candidates) ==
  LET notes == UNION {{Note(k, old, ConcreteTargets(Group(candidates, old))) :
                         k \in GroupKinds(known, old, Group(candidates, old))} :
                        old \in Olds(candidates)}
  IN  [rewrites |-> [old \in Accepted(known, candidates) |->
                       CHOOSE t \in ConcreteTargets(Group(candidates, old)) : TRUE],
       conflicts |-> {n.old : n \in {m \in notes : m.kind = "MigrationMapConflict"}},
       notes |-> notes,
       asked |-> candidates]

\* MigrationMap::try_new, and is_type_respecting of what it makes.
TryNew(mu) == \A old \in DOMAIN mu.rewrites : KindOf(old) = KindOf(mu.rewrites[old])
TypeRespecting(mu) == mu.conflicts = {}
=============================================================================
