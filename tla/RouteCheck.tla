------------------------------ MODULE RouteCheck ------------------------------
(***************************************************************************)
(* The route checker plugin: src/plugins/checker-route.                    *)
(*                                                                         *)
(* `Within` stands for str::contains on the paths in use.                  *)
(***************************************************************************)
EXTENDS Ids, Naturals, Sequences

CONSTANT Within \* pairs of paths, the first a part of the second's text

Pres == [tag |-> "pres", reason |-> "none"]
Migrated == [tag |-> "migrated", reason |-> "none"]
Broken(reason) == [tag |-> "broken", reason |-> reason]
Unknown(reason) == [tag |-> "unknown", reason |-> reason]

\* Outcome::is_accepting
Accepting(v) == v.tag \in {"pres", "migrated"}

\* describe_route_checker
UnknownReasons ==
  {"dynamic_string", "migration_map_ambiguous", "missing_endpoint", "unsupported_extractor"}
BrokenReasons == {"handler_binding_mismatch", "route_path_refuted"}

Lower(m) == IF m = "GET" THEN "get" ELSE IF m = "POST" THEN "post" ELSE m

\* validate_request_shape
Endpoint(e, kind) == SideOf(e) = "old" /\ KindOf(e) = kind
ValidShape(r) ==
  /\ r.contract = "route" /\ r.kind = "route"
  /\ r.deadline > 0
  /\ Len(r.endpoints) = 2
  /\ Endpoint(r.endpoints[1], "route") /\ Endpoint(r.endpoints[2], "handler")

\* parse_observation
Fields == {"method", "path", "operation", "handler"}
ValidObservation(o) ==
  /\ o.kind = "route"
  /\ \A f \in Fields : o.old[f] # "" /\ o.new[f] # ""

\* parse_rewrites: what is wrong with the excerpt, if anything is.  The list is
\* a set here, so one old entity is listed twice with two targets only.
SoundRewrite(w) ==
  /\ w.kind = KindOf(w.old) /\ w.kind = KindOf(w.new)
  /\ SideOf(w.old) = "old" /\ SideOf(w.new) = "new"
Ambiguous(excerpt) ==
  \/ excerpt.conflicts # {}
  \/ \E w \in excerpt.rewrites : ~ SoundRewrite(w)
  \/ \E w, x \in excerpt.rewrites : w.old = x.old /\ w # x

Targets(excerpt, e) == {w.new : w \in {x \in excerpt.rewrites : x.old = e}}

\* entity_matches_observation
RouteMatches(e, side) == <<side.path, Parsed[e].path>> \in Within /\ Parsed[e].method = Lower(side.method)
HandlerMatches(e, side) == Parsed[e].name = side.handler

\* Seeded fault: the rewrites are not looked at when some are missing.
JudgeRewritesLax(excerpt, endpoints, new) ==
  LET routes == Targets(excerpt, endpoints[1])
      handlers == Targets(excerpt, endpoints[2])
  IN  IF \E e \in routes : ~ RouteMatches(e, new) THEN Broken("route_path_refuted")
      ELSE IF \E e \in handlers : ~ HandlerMatches(e, new) THEN Broken("handler_binding_mismatch")
      ELSE Migrated

\* The end of check_route: where both endpoints went.  That the targets are a
\* route and a handler of the new side follows from SoundRewrite.
JudgeRewrites(excerpt, endpoints, new) ==
  LET routes == Targets(excerpt, endpoints[1])
      handlers == Targets(excerpt, endpoints[2])
  IN  IF routes = {} \/ handlers = {} THEN Unknown("missing_endpoint")
      ELSE IF \E e \in routes : ~ RouteMatches(e, new) THEN Broken("route_path_refuted")
      ELSE IF \E e \in handlers : ~ HandlerMatches(e, new) THEN Broken("handler_binding_mismatch")
      ELSE Migrated

\* The middle: the observation changed.
JudgeChange(r) ==
  IF Lower(r.observation.old.method) # Lower(r.observation.new.method)
  THEN Broken("route_path_refuted")
  ELSE IF ~ r.excerpt.readable THEN Unknown("missing_endpoint")
  ELSE IF Ambiguous(r.excerpt) THEN Unknown("migration_map_ambiguous")
  ELSE JudgeRewrites(r.excerpt, r.endpoints, r.observation.new)

\* check_route: its evidence, or nothing for a request it refuses.  A change
\* is looked for in the observation alone: mu has no say when it finds none.
CheckRoute(r) ==
  IF ~ ValidShape(r) THEN {}
  ELSE IF "dynamic_route" \in r.features THEN {Unknown("dynamic_string")}
  ELSE IF r.features # {} THEN {Unknown("unsupported_extractor")}
  ELSE IF ~ ValidObservation(r.observation) THEN {}
  ELSE IF r.observation.old = r.observation.new THEN {Pres}
  ELSE {JudgeChange(r)}

\* handle_check: what goes out on the wire.
HandleCheck(r) ==
  [result |-> CheckRoute(r), error |-> IF CheckRoute(r) = {} THEN {"check failed"} ELSE {}]
=============================================================================
