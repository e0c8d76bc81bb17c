------------------------------- MODULE Extract --------------------------------
(***************************************************************************)
(* What the two extractor plugins make of a file: src/plugins/extractor-   *)
(* openapi and src/plugins/extractor-typescript.                           *)
(*                                                                         *)
(* Paths are sequences of segments.  A hash stands for the bytes it is a   *)
(* digest of, an id for the fields its text is made from.  An extraction   *)
(* is a set: of its one result, or empty when it fails.                    *)
(***************************************************************************)
EXTENDS Naturals, Sequences, FiniteSets

Sides == {"old", "new"}

HttpMethods == {"delete", "get", "head", "options", "patch", "post", "put", "trace"}

\* to_uppercase, on the methods in use here.
Upper(m) == IF m = "get" THEN "GET" ELSE IF m = "post" THEN "POST" ELSE m

-----------------------------------------------------------------------------
(* Paths and ids.                                                          *)

\* The first segment names the side; a bare file name is of the old side, and
\* for TypeScript so is anything under src/.
Bare(language, path) ==
  /\ Head(path) \notin Sides
  /\ Len(path) = 1 \/ (language = "ts" /\ Head(path) = "src")

Located(language, path) == Bare(language, path) \/ Head(path) \in Sides
RepoSide(path) == IF Head(path) \in Sides THEN Head(path) ELSE "old"
LocalPath(path) ==
  IF Head(path) \in Sides /\ Len(path) > 1 THEN Tail(path) ELSE path

ArtifactOf(f) == [side |-> RepoSide(f.path), path |-> LocalPath(f.path), hash |-> f.hash]

EntityId(f, kind, name) ==
  [side |-> RepoSide(f.path), language |-> f.language, kind |-> kind,
   path |-> LocalPath(f.path), name |-> name]

Extracted(f, id) == [id |-> id, kind |-> id.kind, artifact |-> ArtifactOf(f)]

Fact(f, kind, id, method, path, operation) ==
  [kind |-> kind, side |-> RepoSide(f.path), artifact |-> ArtifactOf(f), entity |-> id,
   method |-> method, path |-> path, operation |-> operation]

\* Both extractors refuse a request for another language, a path they cannot
\* place, and a file whose bytes are no longer those of the request's hash.
Readable(request, f, language) ==
  /\ request.language = language
  /\ f.language = language
  /\ request.hash = f.hash
  /\ Located(language, f.path)

-----------------------------------------------------------------------------
(* OpenAPI.                                                                *)

\* Seeded fault: components are followed one level deep.
SchemaRefsShallow(doc, first) ==
  first \cup UNION {doc.components[r] : r \in first \cap DOMAIN doc.components}

\* The references a schema leads to, through components, cycles and all: the
\* visited set grows until no component adds to it.
SchemaRefs(doc, first) ==
  LET Next(refs) == refs \cup UNION {doc.components[r] : r \in refs \cap DOMAIN doc.components}
      Walk[n \in 0 .. Cardinality(DOMAIN doc.components)] ==
        IF n = 0 THEN first ELSE Next(Walk[n - 1])
  IN  Walk[Cardinality(DOMAIN doc.components)]

Operations(doc) == {o \in doc.operations : o.method \in HttpMethods}

\* Each operation must have an id, and no two the same.
WellFormed(doc) ==
  /\ doc.version = "3."
  /\ \A o \in Operations(doc) : o.operation # "missing"
  /\ \A o, p \in Operations(doc) : o.operation = p.operation => o = p

RouteId(f, o) == EntityId(f, "route", <<o.method, o.path, o.operation>>)

ExtractRoutes(f, doc) ==
  [entities |-> {Extracted(f, RouteId(f, o)) : o \in Operations(doc)},
   facts |-> {Fact(f, "route", RouteId(f, o), Upper(o.method), o.path, o.operation) :
                o \in Operations(doc)},
   notes |-> UNION {{[feature |-> "remote_ref", about |-> r] :
                       r \in SchemaRefs(doc, o.refs) \ doc.local} : o \in Operations(doc)}]

ExtractOpenapi(request, f) ==
  IF Readable(request, f, "openapi") /\ WellFormed(f.source)
  THEN {ExtractRoutes(f, f.source)}
  ELSE {}

-----------------------------------------------------------------------------
(* TypeScript.                                                             *)

Properties == {"method", "path", "operationId", "handler"}

\* A variable named route... whose value is an object with one of the four
\* properties.
Candidates(source) ==
  SelectSeq(source.declarators, LAMBDA d : d.value = "object" /\ d.given # {})

\* A property that is not given or not a string literal makes a route dynamic.
Literal(d, p) == p \in d.given /\ d[p] # "computed"
Dynamic(d) == \E p \in Properties : ~ Literal(d, p)

HandlerId(f, d) == EntityId(f, "handler", d.handler)

\* One candidate at most, no exported function twice, and the handler a route
\* names in a literal is exported.
Unambiguous(source) ==
  /\ source.parses
  /\ \A i \in DOMAIN source.declarators : source.declarators[i].value # "absent"
  /\ Len(Candidates(source)) <= 1
  /\ \A i, j \in DOMAIN source.exports : source.exports[i] = source.exports[j] => i = j
  /\ \A i \in DOMAIN Candidates(source) :
       LET d == Candidates(source)[i]
       IN  Literal(d, "handler") => \E j \in DOMAIN source.exports :
                                      source.exports[j] = d.handler

ExtractMetadata(f, source) ==
  LET found == {Candidates(source)[i] : i \in DOMAIN Candidates(source)}
      plain == {d \in found : ~ Dynamic(d)}
  IN  [entities |-> {Extracted(f, HandlerId(f, d)) : d \in {r \in found : Literal(r, "handler")}},
       facts |-> {Fact(f, "route_metadata", HandlerId(f, d), Upper(d.method), d.path,
                       d.operationId) : d \in plain},
       notes |-> {[feature |-> "dynamic_route", about |-> f.path] : d \in found \ plain}]

ExtractTypescript(request, f) ==
  IF Readable(request, f, "ts") /\ Unambiguous(f.source)
  THEN {ExtractMetadata(f, f.source)}
  ELSE {}

\* What the plugin for the request's language answers.
Extraction(request, f) ==
  IF request.language = "openapi" THEN ExtractOpenapi(request, f)
                                  ELSE ExtractTypescript(request, f)

\* The bundle of a file and its extraction, as a caller of the builder makes it.
Bundle(f, result) ==
  [artifact |-> ArtifactOf(f), side |-> RepoSide(f.path), language |-> f.language,
   hash |-> "hex", entities |-> result.entities, facts |-> result.facts,
   notes |-> result.notes]
=============================================================================
