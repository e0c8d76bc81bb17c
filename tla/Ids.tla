--------------------------------- MODULE Ids ----------------------------------
(***************************************************************************)
(* Ids, as polyref-core (ids.rs) lets the other crates read them.  An      *)
(* entity's id spells its side, its kind and its local path; of that path  *)
(* only what the route checker compares is kept: the path and method of a  *)
(* route, the name of a handler.  A correspondence's id is a digest of its *)
(* endpoints, so that it stands for them.                                  *)
(***************************************************************************)
CONSTANTS
  Parsed,   \* from entity ids to records of side, kind, path, method and name
  Endpoints \* from correspondence ids to sequences of entity ids

\* repo_side() and kind()
SideOf(e) == Parsed[e].side
KindOf(e) == Parsed[e].kind

\* FrontierItem: a correspondence or a build edge.
IsCorrespondence(x) == x \in DOMAIN Endpoints
EndsOf(c) == {Endpoints[c][k] : k \in DOMAIN Endpoints[c]}
=============================================================================
