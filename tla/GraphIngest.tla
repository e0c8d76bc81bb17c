----------------------------- MODULE GraphIngest ------------------------------
(***************************************************************************)
(* Building the correspondence graph from extractor output:                *)
(* `build_extractor_graph` (crates/polyref-graph/src/builder.rs) over the  *)
(* tables of GraphStore, fed with the bundles the extractors of Extract    *)
(* make, or with what another plugin answered.                             *)
(*                                                                         *)
(* The bundles are saved row by row as they are read, each row for itself, *)
(* then the correspondences, each in a transaction.  Whatever stops a      *)
(* build, an error or the death of the process, leaves the committed rows; *)
(* the caller may build again, from the same bundles or from others.       *)
(***************************************************************************)
EXTENDS Extract, GraphStore

CONSTANTS
  Files,     \* files the in-tree extractors read
  Answers,   \* bundles by name, theirs and those of other plugins
  Inputs,    \* sequences of names a caller may build from
  MaxBuilds, \* bound: builds begun
  MaxFaults  \* bound: builds stopped by the store or the system

ToSet(s) == {s[i] : i \in DOMAIN s}
Bundles(i) == {Answers[i[k]] : k \in DOMAIN i}

Correspondence(route, handler) == [kind |-> "route", endpoints |-> <<route, handler>>]

ASSUME IngestAssumption ==
  /\ \A i \in Inputs : i \in Seq(DOMAIN Answers) /\ i # <<>>
  /\ MaxBuilds \in Nat
  /\ MaxFaults \in Nat

\* A hash stands for the bytes of a file, and a document is finite.
ASSUME FilesAssumption ==
  /\ \A f, g \in Files : f.hash = g.hash /\ f.language = g.language => f.source = g.source
  /\ \A f \in Files : f.language = "openapi" => IsFiniteSet(DOMAIN f.source.components)

VARIABLES
  tables,    \* the committed rows
  tx,        \* the rows as the open transaction sees them
  pc,        \* the next step of build_extractor_graph
  input,     \* its bundles
  at,        \* the bundle it is at
  todo,      \* entities or facts of that bundle, or correspondences, to go
  corr,      \* the correspondence being saved
  routes,    \* route_facts: from keys to route entities
  metadata,  \* metadata_facts: from keys to handlers
  notes,     \* unsupported_features
  reason,    \* why the last build failed
  before,    \* the rows when the build began (history)
  tried,     \* inputs of the builds begun so far (history)
  builds,    \* builds begun (history)
  faults     \* builds stopped (history)

facts == <<routes, metadata, notes>>
history == <<before, tried, builds, faults>>
vars == <<tables, tx, pc, input, at, todo, corr, facts, reason, history>>

-----------------------------------------------------------------------------
(* Validation.                                                             *)

EntityValid(b, x) ==
  /\ x.id.side = b.side
  /\ x.id.language = b.language
  /\ x.kind = x.id.kind
  /\ x.artifact = b.artifact

\* RouteKey
Key(f) ==
  [side |-> f.side, method |-> Upper(f.method), path |-> f.path, operation |-> f.operation]

\* Seeded fault: the entity of a metadata fact must be a route too.
SubjectRoute(kind) == "route"

\* parse_route_fact and parse_metadata_fact.  The entity a fact names is only
\* checked for its kind.
Subject(kind) == IF kind = "route" THEN "route" ELSE "handler"
FactValid(b, f) ==
  /\ f.kind \in {"route", "route_metadata"}
  /\ f.artifact = b.artifact
  /\ f.entity.kind = Subject(f.kind)
  /\ f.side = b.side
  /\ "" \notin {f.method, f.path, f.operation}

\* Seeded fault: the last fact of a key wins.
AgreesAlways(map, f) == TRUE
Agrees(map, f) == Key(f) \in DOMAIN map => map[Key(f)] = f.entity

-----------------------------------------------------------------------------
(* build_extractor_graph.                                                  *)

Here == Answers[input[at]]

\* Seeded fault: the transaction is not rolled back.
StopOpen(why) ==
  /\ pc' = "failed"
  /\ reason' = why
  /\ UNCHANGED tx
  /\ todo' = {}

Stop(why) ==
  /\ pc' = "failed"
  /\ reason' = why
  /\ tx' = NoRows
  /\ todo' = {}

Begin(i) ==
  /\ pc \in {"idle", "done", "failed"}
  /\ builds < MaxBuilds
  /\ builds' = builds + 1
  /\ tried' = tried \cup {i}
  /\ before' = tables
  /\ input' = i
  /\ at' = 1
  /\ pc' = "artifact"
  /\ routes' = <<>> /\ metadata' = <<>> /\ notes' = {}
  /\ reason' = "none"
  /\ UNCHANGED <<tables, tx, todo, corr, faults>>

StoreArtifact ==
  /\ pc = "artifact"
  /\ IF Here.hash = "hex"
     THEN /\ tables' = SaveArtifact(tables, Here.artifact,
                                    [side |-> Here.side, language |-> Here.language])
          /\ pc' = "entities"
          /\ todo' = Here.entities
          /\ UNCHANGED <<tx, reason>>
     ELSE Stop("output") /\ UNCHANGED tables
  /\ UNCHANGED <<input, at, corr, facts, history>>

\* Seeded fault: the entity is saved before it is validated.
StoreEntityUnchecked(x) ==
  /\ pc = "entities"
  /\ x \in todo
  /\ EntityAllowed(tables, Here.artifact)
  /\ tables' = SaveEntity(tables, x.id, Here.artifact)
  /\ IF EntityValid(Here, x)
     THEN todo' = todo \ {x} /\ UNCHANGED <<tx, pc, reason>>
     ELSE Stop("output")
  /\ UNCHANGED <<input, at, corr, facts, history>>

StoreEntity(x) ==
  /\ pc = "entities"
  /\ x \in todo
  /\ IF EntityValid(Here, x)
     THEN /\ EntityAllowed(tables, Here.artifact)
          /\ tables' = SaveEntity(tables, x.id, Here.artifact)
          /\ todo' = todo \ {x}
          /\ UNCHANGED <<tx, pc, reason>>
     ELSE Stop("output") /\ UNCHANGED tables
  /\ UNCHANGED <<input, at, corr, facts, history>>

CopyNotes ==
  /\ pc = "entities"
  /\ todo = {}
  /\ notes' = notes \cup Here.notes
  /\ todo' = Here.facts
  /\ pc' = "facts"
  /\ UNCHANGED <<tables, tx, input, at, corr, routes, metadata, reason, history>>

TakeRoute(f) ==
  /\ pc = "facts"
  /\ f \in todo /\ f.kind = "route"
  /\ FactValid(Here, f) /\ Agrees(routes, f)
  /\ routes' = Upsert(routes, Key(f), f.entity)
  /\ todo' = todo \ {f}
  /\ UNCHANGED <<tables, tx, pc, input, at, corr, metadata, notes, reason, history>>

TakeMetadata(f) ==
  /\ pc = "facts"
  /\ f \in todo /\ f.kind = "route_metadata"
  /\ FactValid(Here, f) /\ Agrees(metadata, f)
  /\ metadata' = Upsert(metadata, Key(f), f.entity)
  /\ todo' = todo \ {f}
  /\ UNCHANGED <<tables, tx, pc, input, at, corr, routes, notes, reason, history>>

RefuseFact(f) ==
  /\ pc = "facts"
  /\ f \in todo
  /\ IF FactValid(Here, f)
     THEN /\ ~ Agrees(IF f.kind = "route" THEN routes ELSE metadata, f)
          /\ Stop("conflict")
     ELSE Stop("fact")
  /\ UNCHANGED <<tables, input, at, corr, facts, history>>

NextBundle ==
  /\ pc = "facts"
  /\ todo = {}
  /\ at < Len(input)
  /\ at' = at + 1
  /\ pc' = "artifact"
  /\ UNCHANGED <<tables, tx, input, todo, corr, facts, reason, history>>

\* derive_route_correspondences
Derived ==
  {Correspondence(routes[k], metadata[k]) : k \in DOMAIN routes \cap DOMAIN metadata}

Derive ==
  /\ pc = "facts"
  /\ todo = {}
  /\ at = Len(input)
  /\ todo' = Derived
  /\ pc' = "correspondence"
  /\ UNCHANGED <<tables, tx, input, at, corr, facts, reason, history>>

\* save_correspondence: with_tx opens the transaction, and the header.  The
\* order of the ids is that of their digests, any order here.
StoreHeader(c) ==
  /\ pc = "correspondence"
  /\ c \in todo
  /\ corr' = c
  /\ tx' = SaveHeader(tables, c)
  /\ pc' = "clear"
  /\ UNCHANGED <<tables, input, at, todo, facts, reason, history>>

ClearEndpoints ==
  /\ pc = "clear"
  /\ tx' = ClearEnds(tx, corr)
  /\ pc' = "route_end"
  /\ UNCHANGED <<tables, input, at, todo, corr, facts, reason, history>>

Position == IF pc = "route_end" THEN 1 ELSE 2

\* Seeded fault: with_conn instead of with_tx, each statement by itself.
StoreEndpointAlone ==
  /\ pc \in {"route_end", "handler_end"}
  /\ EndAllowed(tx, corr, Position, corr.endpoints[Position])
  /\ tx' = SaveEnd(tx, corr, Position, corr.endpoints[Position])
  /\ tables' = tx'
  /\ pc' = IF pc = "route_end" THEN "handler_end" ELSE "commit"
  /\ UNCHANGED <<input, at, todo, corr, facts, reason, history>>

\* An endpoint of an entity nobody saved fails, and the transaction with it.
StoreEndpoint ==
  /\ pc \in {"route_end", "handler_end"}
  /\ IF EndAllowed(tx, corr, Position, corr.endpoints[Position])
     THEN /\ tx' = SaveEnd(tx, corr, Position, corr.endpoints[Position])
          /\ pc' = IF pc = "route_end" THEN "handler_end" ELSE "commit"
          /\ UNCHANGED <<todo, reason>>
     ELSE Stop("foreign_key")
  /\ UNCHANGED <<tables, input, at, corr, facts, history>>

Commit ==
  /\ pc = "commit"
  /\ tables' = tx
  /\ tx' = NoRows
  /\ todo' = todo \ {corr}
  /\ pc' = "correspondence"
  /\ UNCHANGED <<input, at, corr, facts, reason, history>>

Complete ==
  /\ pc = "correspondence"
  /\ todo = {}
  /\ pc' = "done"
  /\ UNCHANGED <<tables, tx, input, at, todo, corr, facts, reason, history>>

\* A statement fails, or the process dies: an open transaction is rolled back.
Cut ==
  /\ pc \notin {"idle", "done", "failed"}
  /\ faults < MaxFaults
  /\ faults' = faults + 1
  /\ Stop("cut")
  /\ UNCHANGED <<tables, input, at, corr, facts, before, tried, builds>>

-----------------------------------------------------------------------------
Init ==
  /\ tables = NoRows
  /\ tx = NoRows
  /\ pc = "idle"
  /\ input = <<>>
  /\ at = 1
  /\ todo = {}
  /\ corr = "none"
  /\ routes = <<>> /\ metadata = <<>> /\ notes = {}
  /\ reason = "none"
  /\ before = NoRows
  /\ tried = {}
  /\ builds = 0
  /\ faults = 0

Build ==
  \/ StoreArtifact
  \/ \E x \in todo : StoreEntity(x) \/ TakeRoute(x) \/ TakeMetadata(x) \/ RefuseFact(x)
  \/ CopyNotes \/ NextBundle \/ Derive
  \/ \E c \in todo : StoreHeader(c)
  \/ ClearEndpoints \/ StoreEndpoint \/ Commit
  \/ Complete

Finished == builds = MaxBuilds /\ pc \in {"done", "failed"} /\ UNCHANGED vars

Next == (\E i \in Inputs : Begin(i)) \/ Build \/ Cut \/ Finished

Spec == Init /\ [][Next]_vars

-----------------------------------------------------------------------------
(* What a build should leave, without saying how.                          *)

\* Bundles of the in-tree extractors: a request made for one file may find at
\* its path the bytes of another.
InTree ==
  UNION {{Bundle(p[2], r) :
            r \in Extraction([language |-> p[1].language, hash |-> p[1].hash], p[2])} :
           p \in {q \in Files \X Files : q[1].path = q[2].path}}

FactsOf(i) == UNION {b.facts : b \in Bundles(i)}

\* A route and a metadata fact of one side, method, path and operation.
Pairs(i) ==
  {p \in FactsOf(i) \X FactsOf(i) :
     /\ p[1].kind = "route" /\ p[2].kind = "route_metadata"
     /\ p[1].side = p[2].side
     /\ Upper(p[1].method) = Upper(p[2].method)
     /\ p[1].path = p[2].path /\ p[1].operation = p[2].operation}
Matched ==
  [i \in Inputs |-> {Correspondence(p[1].entity, p[2].entity) : p \in Pairs(i)}]

\* No fact of the input is invalid, no two disagree.
Sound ==
  [i \in Inputs |->
     /\ \A b \in Bundles(i) : \A f \in b.facts : FactValid(b, f)
     /\ \A f, g \in FactsOf(i) :
          f.kind = g.kind /\ Key(f) = Key(g) => f.entity = g.entity]

\* Every fact of the input is about an entity of its own bundle.
OwnFacts ==
  [i \in Inputs |->
     \A b \in Bundles(i) : \A f \in b.facts : \E x \in b.entities : x.id = f.entity]

Owners(i, e) == {k \in DOMAIN i : \E x \in Answers[i[k]].entities : x.id = e}
Last(ks) == CHOOSE k \in ks : \A m \in ks : m <= k

\* The rows of a whole input: the last bundle that has a row gives it.
WholeOf(i) ==
  [artifacts |-> [a \in {b.artifact : b \in Bundles(i)} |->
                    LET b == Answers[i[Last({k \in DOMAIN i : Answers[i[k]].artifact = a})]]
                    IN  [side |-> b.side, language |-> b.language]],
   entities |-> [e \in {x.id : x \in UNION {b.entities : b \in Bundles(i)}} |->
                   Answers[i[Last(Owners(i, e))]].artifact],
   corrs |-> [c \in Matched[i] |-> "layer4-route-fact-v1"],
   ends |-> [x \in Matched[i] \X {1, 2} |-> x[1].endpoints[x[2]]]]
Whole == [i \in Inputs |-> WholeOf(i)]

-----------------------------------------------------------------------------
TypeOK ==
  /\ DOMAIN before.artifacts \subseteq DOMAIN tables.artifacts
  /\ \A e \in DOMAIN tables.entities : tables.entities[e] \in DOMAIN tables.artifacts
  /\ DOMAIN tables.ends \subseteq (DOMAIN tables.corrs) \X {1, 2}
  /\ pc \in {"idle", "artifact", "entities", "facts", "correspondence", "clear",
             "route_end", "handler_end", "commit", "done", "failed"}
  /\ pc # "idle" => input \in tried /\ at \in DOMAIN input
  /\ tried \subseteq Inputs
  /\ (tx # NoRows) <=> (pc \in {"clear", "route_end", "handler_end", "commit"})
  /\ reason \in {"none", "output", "fact", "conflict", "foreign_key", "cut"}
  /\ builds \in 0 .. MaxBuilds
  /\ faults \in 0 .. MaxFaults

\* builder.rs: a correspondence comes from a route fact and a metadata fact of
\* one key, in a build all of whose facts were accepted: one that fails on a
\* fact, or is cut before, stores none.  It is "side-local" (builder.rs:6) as
\* far as facts are about entities of their own bundle: the builder takes any.
OneSide(c) == \A n \in ToSet(c.endpoints) : n.side = c.endpoints[1].side
CorrespondencesJustified ==
  /\ \A c \in (DOMAIN tables.corrs) \ DOMAIN before.corrs : c \in Matched[input]
  /\ DOMAIN tables.corrs # DOMAIN before.corrs => Sound[input]
  /\ (\A i \in tried : OwnFacts[i]) =>
       \A c \in DOMAIN tables.corrs : OneSide(c)

\* store.rs: a correspondence is stored with all its endpoints or not at all,
\* whatever statement of its transaction fails, and each endpoint is known.
CorrespondencesWhole ==
  \A c \in DOMAIN tables.corrs :
    /\ WholeCorrespondence(tables, c)
    /\ \A e \in ToSet(c.endpoints) : e \in DOMAIN tables.entities /\ c \in ForEntity(tables, e)

\* A build that did not end leaves the rows of the bundles before the one it
\* stopped at, some valid ones of that bundle, and nothing of the rest.
FailureLeavesPrefix ==
  pc # "idle" =>
    LET saved(n) == {x.id : x \in UNION {Answers[input[k]].entities : k \in 1 .. n}}
        valid == {x \in Here.entities : EntityValid(Here, x)}
    IN  /\ DOMAIN before.entities \cup saved(at - 1) \subseteq DOMAIN tables.entities
        /\ DOMAIN tables.entities \subseteq
             DOMAIN before.entities \cup saved(at - 1) \cup {x.id : x \in valid}
        /\ \A k \in 1 .. at - 1 : Answers[input[k]].artifact \in DOMAIN tables.artifacts

\* Builds are repeatable: when a build of some input returns Ok and no other
\* input was ever tried, the tables hold exactly that input's rows, however
\* often it failed or was cut before.
RetryConverges == pc = "done" /\ tried = {input} => tables = Whole[input]

\* The builder takes whatever the in-tree extractors make of any file, but for
\* two files that disagree on a key and a literal that is empty.
EmptyLiteral(b) == \E f \in b.facts : "" \in {f.method, f.path, f.operation}
ExtractedAccepted ==
  reason \in {"output", "fact", "foreign_key"} =>
    \/ ~ Bundles(input) \subseteq InTree
    \/ \E b \in Bundles(input) : EmptyLiteral(b)

\* A remote reference is noted wherever a request or response schema leads to
\* it, through any chain or cycle of components.
Leads(doc, from) ==
  {r \in UNION ({from} \cup {doc.components[d] : d \in DOMAIN doc.components}) :
     \A S \in SUBSET UNION ({from} \cup {doc.components[d] : d \in DOMAIN doc.components}) :
       from \subseteq S /\ (\A d \in S \cap DOMAIN doc.components : doc.components[d] \subseteq S)
         => r \in S}
RemoteRefs ==
  [f \in {g \in Files : g.language = "openapi"} |->
     UNION {Leads(f.source, o.refs) \ f.source.local : o \in Operations(f.source)}]
RemoteRefsNoted ==
  pc = "done" =>
    \A f \in DOMAIN RemoteRefs :
      (\E b \in Bundles(input) \cap InTree :
         b.artifact = ArtifactOf(f) /\ b.language = f.language) =>
        \A r \in RemoteRefs[f] : [feature |-> "remote_ref", about |-> r] \in notes
=============================================================================
