---------------------------- MODULE MCGraphIngest -----------------------------
(* Files of both sides that agree, disagree, shadow and refer to each       *)
(* other, and answers of a plugin that is not in the tree.                  *)
EXTENDS GraphIngest, TLC

Get(op, refs) == [method |-> "get", path |-> "/u", operation |-> op, refs |-> refs]
Doc(ops) == [version |-> "3.", operations |-> ops,
             local |-> {"A", "B", "C"},
             components |-> [c \in {"A", "B"} |-> IF c = "A" THEN {"B"} ELSE {"A", "C", "far"}]]
Api(path, hash, ops) == [path |-> path, language |-> "openapi", hash |-> hash,
                         source |-> Doc(ops)]

Route(path) == [value |-> "object", given |-> {"method", "path", "operationId", "handler"},
                method |-> "get", path |-> path, operationId |-> "op", handler |-> "f"]
Partial(d) == [d EXCEPT !.given = @ \ {"path"}, !.path = ""]
Computed(d) == [d EXCEPT !.method = "computed"]
Ts(path, hash, decls, exports) ==
  [path |-> path, language |-> "ts", hash |-> hash,
   source |-> [parses |-> TRUE, declarators |-> decls, exports |-> exports]]

OldApi == Api(<<"old", "api">>, "h1", {Get("op", {"A"})})
OldApi2 == Api(<<"old", "api">>, "h2", {Get("op2", {}), [Get("op", {}) EXCEPT !.method = "summary"]})
BareApi == Api(<<"api">>, "h3", {Get("op", {}), [Get("post", {}) EXCEPT !.method = "post"]})
NewApi == Api(<<"new", "api">>, "h1", {Get("op", {"A"})})
OldTwin == Api(<<"old", "twin">>, "h4", {Get("op", {"C"})})
Clash == Api(<<"old", "bad">>, "h5", {Get("op", {}), [Get("op", {}) EXCEPT !.method = "post"]})
OldTs == Ts(<<"src", "u">>, "t1", <<Route("/u")>>, <<"f", "g">>)
NewTs == Ts(<<"new", "src", "u">>, "t1", <<Route("/u")>>, <<"f", "g">>)
Dynamic1 == Ts(<<"old", "v">>, "t2", <<Computed(Route("/u"))>>, <<"f">>)
Dynamic2 == Ts(<<"old", "v">>, "t3", <<Partial(Route("/u"))>>, <<"f">>)
Empty == Ts(<<"old", "w">>, "t4", <<Route("")>>, <<"f">>)
TwoRoutes == Ts(<<"old", "x">>, "t5", <<Route("/u"), Route("/v")>>, <<"f">>)
Unexported == Ts(<<"old", "y">>, "t6", <<Route("/u")>>, <<"g">>)
Lost == Ts(<<"lib", "z">>, "t7", <<Route("/u")>>, <<"f">>)

AllFiles == {OldApi, OldApi2, BareApi, NewApi, OldTwin, Clash, OldTs, NewTs, Dynamic1,
             Dynamic2, Empty, TwoRoutes, Unexported, Lost}

Made(f) == {Bundle(f, r) : r \in Extraction([language |-> f.language, hash |-> f.hash], f)}
Of(f) == CHOOSE b \in Made(f) : TRUE

\* Answers of another plugin.
Handler == HandlerId(OldTs, Route("/u"))
WrongSpan == [Of(OldTs) EXCEPT !.entities = {[x EXCEPT !.artifact = ArtifactOf(OldApi)] : x \in @}]
WrongSide == [Of(OldTs) EXCEPT !.entities = @ \cup {[x EXCEPT !.id.side = "new"] : x \in @}]
Foreign == [Of(NewTs) EXCEPT !.facts = {[f EXCEPT !.entity = Handler] : f \in @}]
Unsaved == [Of(OldTs) EXCEPT !.entities = {}]
OtherKind == [Of(OldTs) EXCEPT !.facts = @ \cup {[f EXCEPT !.kind = "schema"] : f \in @}]
BadHash == [Of(OldTs) EXCEPT !.hash = "bad"]

TheirAnswers ==
  ("api" :> Of(OldApi)) @@ ("api 2" :> Of(OldApi2)) @@ ("bare" :> Of(BareApi))
    @@ ("new api" :> Of(NewApi)) @@ ("twin" :> Of(OldTwin)) @@ ("ts" :> Of(OldTs))
    @@ ("new ts" :> Of(NewTs)) @@ ("computed" :> Of(Dynamic1)) @@ ("partial" :> Of(Dynamic2))
    @@ ("empty" :> Of(Empty)) @@ ("span" :> WrongSpan) @@ ("side" :> WrongSide)
    @@ ("foreign" :> Foreign) @@ ("unsaved" :> Unsaved) @@ ("kind" :> OtherKind)
    @@ ("hash" :> BadHash)

\* Inputs that agree, disagree, fail at each check and repeat each other's rows.
SomeInputs ==
  {<<"api", "ts">>, <<"new api", "new ts">>, <<"ts", "new api">>, <<"api", "api 2", "ts">>,
   <<"api 2", "ts">>, <<"api", "bare", "ts">>, <<"api", "twin", "ts">>, <<"api", "computed">>,
   <<"partial", "bare">>, <<"ts", "empty">>, <<"api", "span">>, <<"api", "side">>,
   <<"new api", "foreign">>, <<"api", "unsaved">>, <<"ts", "kind">>, <<"ts", "hash">>,
   <<"api", "new api", "ts", "new ts">>}
=============================================================================
