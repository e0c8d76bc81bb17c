----------------------------- MODULE MCAcceptance -----------------------------
(* One route and its handler on both sides, with candidates that agree,     *)
(* conflict, hesitate or do not fit, and observations that lack support.    *)
EXTENDS Acceptance, TLC

Id(side, kind, path, name) ==
  [side |-> side, kind |-> kind, path |-> path, method |-> IF kind = "route" THEN "get" ELSE "",
   name |-> name]
TheIds ==
  ("route" :> Id("old", "route", "/u", "")) @@ ("handler" :> Id("old", "handler", "", "f"))
    @@ ("route2" :> Id("new", "route", "/v", "")) @@ ("route3" :> Id("new", "route", "/v/x", ""))
    @@ ("handler2" :> Id("new", "handler", "", "g"))
TheEndpoints == ("k1" :> <<"route", "handler">>) @@ ("k2" :> <<"route2", "handler2">>)

TheOwner == ("route" :> "a") @@ ("handler" :> "b") @@ ("route2" :> "c") @@ ("handler2" :> "d")
LaterOwner == ("route" :> "a2") @@ ("route3" :> "c")

Obs(id, vis, support, unsupported) ==
  [id |-> id, valid |-> id # "bad", visibility |-> vis, support |-> support,
   unsupported |-> unsupported]
TheBatches ==
  {<<Obs("o1", "visible", <<"k1">>, {}), Obs("o2", "held_out", <<"k1", "k1", "k2">>, {})>>,
   <<Obs("o1", "visible", <<"e1", "k1">>, {}), Obs("bad", "visible", <<"k1">>, {})>>,
   <<Obs("o1", "visible", <<"k1">>, {"dynamic_route"})>>,
   <<Obs("o1", "visible", <<"k1", "k2">>, {}), Obs("o1", "visible", <<"k1">>, {})>>}

To(old, new, confidence) == [old |-> old, new |-> new, confidence |-> confidence]
Good == {To("route", "route2", "concrete"), To("handler", "handler2", "concrete")}
TheCandidates ==
  {Good, {To("route", "route2", "concrete")},
   Good \cup {To("route", "route3", "concrete")},
   Good \cup {To("handler", "none", "missing"), To("handler", "handler2", "ambiguous")},
   {To("route", "handler2", "concrete"), To("handler", "handler2", "concrete")},
   {To("route", "route3", "concrete"), To("route2", "route", "concrete")}}

Side(method, path, name) ==
  [method |-> method, path |-> path, operation |-> "op", handler |-> name]
Change(new, features) ==
  [observation |-> [kind |-> "route", old |-> Side("GET", "/u", "f"), new |-> new],
   features |-> features]
TheExcerpts ==
  {Change(Side("GET", "/u", "f"), {}), Change(Side("get", "/v", "g"), {}),
   Change(Side("get", "/v", "h"), {}), Change(Side("POST", "/v", "g"), {}),
   Change(Side("get", "", "g"), {}), Change(Side("get", "/v", "g"), {"framework"}),
   Change(Side("get", "/v", "g"), {"dynamic_route"})}
TheWithin == {<<p, p>> : p \in {"/u", "/v", "/v/x"}} \cup {<<"/v", "/v/x">>}
=============================================================================
