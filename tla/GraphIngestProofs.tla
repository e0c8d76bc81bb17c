-------------------------- MODULE GraphIngestProofs ---------------------------
(***************************************************************************)
(* Proofs about GraphIngest for every set of files, answers and inputs,    *)
(* valid or not, and every number of builds and of faults that stop them.  *)
(***************************************************************************)
EXTENDS GraphIngest, FiniteSetTheorems, WellFoundedInduction, TLAPS

-----------------------------------------------------------------------------
(* The inductive invariant.                                                 *)

Reading == {"artifact", "entities", "facts"}
Opened == {"clear", "route_end", "handler_end", "commit"}
Saving == {"correspondence"} \cup Opened
Phases == {"idle", "done", "failed"} \cup Reading \cup Saving

\* The bundle build_extractor_graph reads k-th.
BundleAt(k) == Answers[input[k]]

ControlInv ==
  /\ pc \in Phases
  /\ tried \subseteq Inputs
  /\ pc # "idle" => input \in tried /\ at \in DOMAIN input
  /\ pc \in Saving \cup {"done"} => at = Len(input)
  /\ reason \in {"none", "output", "fact", "conflict", "foreign_key", "cut"}
  /\ builds \in 0 .. MaxBuilds
  /\ faults \in 0 .. MaxFaults

IsTable(f) == f = [x \in DOMAIN f |-> f[x]]
Shaped(t) ==
  /\ t = [artifacts |-> t.artifacts, entities |-> t.entities,
          corrs |-> t.corrs, ends |-> t.ends]
  /\ IsTable(t.artifacts) /\ IsTable(t.entities)
  /\ IsTable(t.corrs) /\ IsTable(t.ends)

Paired(c) == c = Correspondence(c.endpoints[1], c.endpoints[2])

EndStored(t, c, k) == <<c, k>> \in DOMAIN t.ends /\ t.ends[<<c, k>>] = c.endpoints[k]

\* The rows are those of whole correspondences of entities that are known,
\* each of an artifact that is known.
RowsInv ==
  /\ Shaped(tables)
  /\ \A e \in DOMAIN tables.entities : tables.entities[e] \in DOMAIN tables.artifacts
  /\ DOMAIN tables.ends \subseteq (DOMAIN tables.corrs) \X {1, 2}
  /\ \A c \in DOMAIN tables.corrs :
       /\ Paired(c)
       /\ tables.corrs[c] = "layer4-route-fact-v1"
       /\ \A k \in {1, 2} : EndStored(tables, c, k) /\ c.endpoints[k] \in DOMAIN tables.entities

\* How far the transaction of save_correspondence has come.
TxInv ==
  /\ pc \in Saving => \A c \in todo : Paired(c)
  /\ pc \notin Opened => tx = NoRows
  /\ pc \in Opened =>
       /\ corr \in todo
       /\ Shaped(tx)
       /\ tx.artifacts = tables.artifacts
       /\ tx.entities = tables.entities
       /\ DOMAIN tx.corrs = DOMAIN tables.corrs \cup {corr}
       /\ \A c \in DOMAIN tx.corrs : tx.corrs[c] = "layer4-route-fact-v1"
       /\ DOMAIN tx.ends \subseteq (DOMAIN tx.corrs) \X {1, 2}
       /\ \A c \in DOMAIN tables.corrs : \A k \in {1, 2} : c # corr => EndStored(tx, c, k)
  /\ pc = "route_end" => <<corr, 1>> \notin DOMAIN tx.ends
  /\ pc \in {"route_end", "handler_end"} => <<corr, 2>> \notin DOMAIN tx.ends
  /\ pc \in {"handler_end", "commit"} =>
       EndStored(tx, corr, 1) /\ corr.endpoints[1] \in DOMAIN tx.entities
  /\ pc = "commit" =>
       EndStored(tx, corr, 2) /\ corr.endpoints[2] \in DOMAIN tx.entities

\* The entities of the bundle being read that are not to go any more.
Passed ==
  IF pc = "entities" THEN Here.entities \ todo
  ELSE IF pc \in {"facts", "done"} \cup Saving THEN Here.entities ELSE {}

\* What the build has stored of the bundles before the one it is at, and of
\* that one.
PrefixInv ==
  /\ DOMAIN before.artifacts \subseteq DOMAIN tables.artifacts
  /\ DOMAIN before.entities \subseteq DOMAIN tables.entities
  /\ pc = "entities" => todo \subseteq Here.entities
  /\ pc \in {"entities", "facts"} => Here.artifact \in DOMAIN tables.artifacts
  /\ \A x \in Passed : EntityValid(Here, x) /\ x.id \in DOMAIN tables.entities
  /\ pc # "idle" =>
       /\ \A k \in 1 .. at - 1 :
            /\ BundleAt(k).artifact \in DOMAIN tables.artifacts
            /\ \A x \in BundleAt(k).entities :
                 EntityValid(BundleAt(k), x) /\ x.id \in DOMAIN tables.entities
       /\ \A e \in DOMAIN tables.entities :
            \/ e \in DOMAIN before.entities
            \/ \E k \in 1 .. at - 1 : \E x \in BundleAt(k).entities : x.id = e
            \/ \E x \in Here.entities : EntityValid(Here, x) /\ x.id = e

\* A fact the build has taken: it is in the map of its kind.
Taken(f) ==
  /\ f.kind = "route" => Key(f) \in DOMAIN routes /\ routes[Key(f)] = f.entity
  /\ f.kind = "route_metadata" => Key(f) \in DOMAIN metadata /\ metadata[Key(f)] = f.entity

\* The facts of the bundle being read that have been taken.
Gone ==
  IF pc = "facts" THEN Here.facts \ todo
  ELSE IF pc \in {"done"} \cup Saving THEN Here.facts ELSE {}

\* A fact that gave a map its value at key k: of a bundle whose entities are
\* all valid and stored.
Source(kind, k, e) ==
  \E n \in 1 .. at : \E f \in BundleAt(n).facts :
    /\ FactValid(BundleAt(n), f)
    /\ f.kind = kind /\ Key(f) = k /\ f.entity = e
    /\ \A x \in BundleAt(n).entities :
         EntityValid(BundleAt(n), x) /\ x.id \in DOMAIN tables.entities

FactsInv ==
  /\ IsTable(routes) /\ IsTable(metadata)
  /\ pc = "facts" => todo \subseteq Here.facts
  /\ \A f \in Gone : FactValid(Here, f) /\ Taken(f)
  /\ pc # "idle" =>
       /\ \A n \in 1 .. at - 1 : \A f \in BundleAt(n).facts : FactValid(BundleAt(n), f) /\ Taken(f)
       /\ \A k \in DOMAIN routes : Source("route", k, routes[k])
       /\ \A k \in DOMAIN metadata : Source("route_metadata", k, metadata[k])
  /\ pc = "idle" => routes = <<>> /\ metadata = <<>>

\* The correspondences of this build, and of all builds.
CorrsInv ==
  /\ pc \in Saving => todo \subseteq Derived
  /\ pc \in Saving \cup {"done"} => Derived \ todo \subseteq DOMAIN tables.corrs
  /\ pc = "done" => todo = {}
  /\ pc \in {"idle"} \cup Reading => DOMAIN tables.corrs = DOMAIN before.corrs
  /\ DOMAIN before.corrs \subseteq DOMAIN tables.corrs
  /\ DOMAIN tables.corrs # DOMAIN before.corrs => Sound[input]
  /\ \A c \in (DOMAIN tables.corrs) \ DOMAIN before.corrs : c \in Matched[input]
  /\ \A c \in DOMAIN tables.corrs :
       \E i \in tried : c \in Matched[i] /\ (OwnFacts[i] => OneSide(c))

\* How many bundles have their artifact stored by this build, and whether
\* the k-th has stored entity e.
Placed == IF pc = "artifact" THEN at - 1 ELSE at
Gave(k, e) ==
  \/ k \in 1 .. at - 1 /\ \E x \in BundleAt(k).entities : x.id = e
  \/ k = at /\ \E x \in Passed : x.id = e

\* The row is that of the last bundle which has it.
ArtifactLatest(a) ==
  /\ a \in DOMAIN tables.artifacts
  /\ \E k \in 1 .. Placed :
       /\ BundleAt(k).artifact = a
       /\ \A m \in 1 .. Placed : BundleAt(m).artifact = a => m <= k
       /\ tables.artifacts[a] = [side |-> BundleAt(k).side, language |-> BundleAt(k).language]
EntityLatest(e) ==
  \E k \in 1 .. at :
    /\ Gave(k, e)
    /\ \A m \in 1 .. at : Gave(m, e) => m <= k
    /\ tables.entities[e] = BundleAt(k).artifact

\* Rows come from inputs tried, and a running build's from its last bundle
\* that has the row.
LatestInv ==
  /\ \A a \in DOMAIN tables.artifacts : \E i \in tried : \E b \in Bundles(i) : b.artifact = a
  /\ \A e \in DOMAIN tables.entities :
       \E i \in tried : \E b \in Bundles(i) : \E x \in b.entities : x.id = e
  /\ pc \notin {"idle", "failed"} =>
       /\ \A n \in 1 .. Placed : ArtifactLatest(BundleAt(n).artifact)
       /\ \A e \in DOMAIN tables.entities : (\E n \in 1 .. at : Gave(n, e)) => EntityLatest(e)

Inv ==
  /\ ControlInv
  /\ RowsInv
  /\ TxInv
  /\ PrefixInv
  /\ FactsInv
  /\ CorrsInv
  /\ LatestInv

-----------------------------------------------------------------------------
(* The statements on the tables.                                            *)

LEMMA Upserted ==
  ASSUME NEW t, NEW id, NEW row
  PROVE  LET u == Upsert(t, id, row)
         IN  /\ IsTable(u)
             /\ DOMAIN u = DOMAIN t \cup {id}
             /\ u[id] = row
             /\ \A x \in DOMAIN t : x # id => u[x] = t[x]
  BY DEF Upsert, IsTable

LEMMA ArtifactSaved ==
  ASSUME NEW t, Shaped(t), NEW id, NEW row
  PROVE  LET u == SaveArtifact(t, id, row)
         IN  /\ Shaped(u)
             /\ u.entities = t.entities /\ u.corrs = t.corrs /\ u.ends = t.ends
             /\ DOMAIN u.artifacts = DOMAIN t.artifacts \cup {id}
             /\ u.artifacts[id] = row
             /\ \A x \in DOMAIN t.artifacts : x # id => u.artifacts[x] = t.artifacts[x]
<1> DEFINE n == Upsert(t.artifacts, id, row)
<1>1. SaveArtifact(t, id, row) =
        [artifacts |-> n, entities |-> t.entities, corrs |-> t.corrs, ends |-> t.ends]
  <2>1. PICK p, q, r, s : t = [artifacts |-> p, entities |-> q, corrs |-> r, ends |-> s]
    BY DEF Shaped
  <2>2. QED
    BY <2>1 DEF SaveArtifact
<1>2. /\ IsTable(n) /\ DOMAIN n = DOMAIN t.artifacts \cup {id} /\ n[id] = row
      /\ \A x \in DOMAIN t.artifacts : x # id => n[x] = t.artifacts[x]
  BY DEF Upsert, IsTable
<1> HIDE DEF n
<1>3. QED
  BY <1>1, <1>2 DEF Shaped

LEMMA EntitySaved ==
  ASSUME NEW t, Shaped(t), NEW id, NEW row
  PROVE  LET u == SaveEntity(t, id, row)
         IN  /\ Shaped(u)
             /\ u.artifacts = t.artifacts /\ u.corrs = t.corrs /\ u.ends = t.ends
             /\ DOMAIN u.entities = DOMAIN t.entities \cup {id}
             /\ u.entities[id] = row
             /\ \A x \in DOMAIN t.entities : x # id => u.entities[x] = t.entities[x]
<1> DEFINE n == Upsert(t.entities, id, row)
<1>1. SaveEntity(t, id, row) =
        [artifacts |-> t.artifacts, entities |-> n, corrs |-> t.corrs, ends |-> t.ends]
  <2>1. PICK p, q, r, s : t = [artifacts |-> p, entities |-> q, corrs |-> r, ends |-> s]
    BY DEF Shaped
  <2>2. QED
    BY <2>1 DEF SaveEntity
<1>2. /\ IsTable(n) /\ DOMAIN n = DOMAIN t.entities \cup {id} /\ n[id] = row
      /\ \A x \in DOMAIN t.entities : x # id => n[x] = t.entities[x]
  BY DEF Upsert, IsTable
<1> HIDE DEF n
<1>3. QED
  BY <1>1, <1>2 DEF Shaped

LEMMA HeaderSaved ==
  ASSUME NEW t, Shaped(t), NEW c
  PROVE  LET u == SaveHeader(t, c)
         IN  /\ Shaped(u)
             /\ u.artifacts = t.artifacts /\ u.entities = t.entities /\ u.ends = t.ends
             /\ DOMAIN u.corrs = DOMAIN t.corrs \cup {c}
             /\ u.corrs[c] = "layer4-route-fact-v1"
             /\ \A x \in DOMAIN t.corrs : x # c => u.corrs[x] = t.corrs[x]
<1> DEFINE n == Upsert(t.corrs, c, "layer4-route-fact-v1")
<1>1. SaveHeader(t, c) =
        [artifacts |-> t.artifacts, entities |-> t.entities, corrs |-> n, ends |-> t.ends]
  <2>1. PICK p, q, r, s : t = [artifacts |-> p, entities |-> q, corrs |-> r, ends |-> s]
    BY DEF Shaped
  <2>2. QED
    BY <2>1 DEF SaveHeader
<1>2. /\ IsTable(n) /\ DOMAIN n = DOMAIN t.corrs \cup {c} /\ n[c] = "layer4-route-fact-v1"
      /\ \A x \in DOMAIN t.corrs : x # c => n[x] = t.corrs[x]
  BY DEF Upsert, IsTable
<1> HIDE DEF n
<1>3. QED
  BY <1>1, <1>2 DEF Shaped

LEMMA EndsCleared ==
  ASSUME NEW t, Shaped(t), NEW c
  PROVE  LET u == ClearEnds(t, c)
         IN  /\ Shaped(u)
             /\ u.artifacts = t.artifacts /\ u.entities = t.entities /\ u.corrs = t.corrs
             /\ DOMAIN u.ends = {x \in DOMAIN t.ends : x[1] # c}
             /\ \A x \in DOMAIN u.ends : u.ends[x] = t.ends[x]
<1> DEFINE n == [x \in {y \in DOMAIN t.ends : y[1] # c} |-> t.ends[x]]
<1>1. ClearEnds(t, c) =
        [artifacts |-> t.artifacts, entities |-> t.entities, corrs |-> t.corrs, ends |-> n]
  <2>1. PICK p, q, r, s : t = [artifacts |-> p, entities |-> q, corrs |-> r, ends |-> s]
    BY DEF Shaped
  <2>2. QED
    BY <2>1 DEF ClearEnds
<1>2. /\ IsTable(n) /\ DOMAIN n = {x \in DOMAIN t.ends : x[1] # c}
      /\ \A x \in DOMAIN n : n[x] = t.ends[x]
  BY DEF IsTable
<1> HIDE DEF n
<1>3. QED
  BY <1>1, <1>2 DEF Shaped

LEMMA EndSaved ==
  ASSUME NEW t, Shaped(t), NEW c, NEW k, NEW e
  PROVE  LET u == SaveEnd(t, c, k, e)
         IN  /\ Shaped(u)
             /\ u.artifacts = t.artifacts /\ u.entities = t.entities /\ u.corrs = t.corrs
             /\ DOMAIN u.ends = DOMAIN t.ends \cup {<<c, k>>}
             /\ u.ends[<<c, k>>] = e
             /\ \A x \in DOMAIN t.ends : x # <<c, k>> => u.ends[x] = t.ends[x]
<1> DEFINE n == Upsert(t.ends, <<c, k>>, e)
<1>1. SaveEnd(t, c, k, e) =
        [artifacts |-> t.artifacts, entities |-> t.entities, corrs |-> t.corrs, ends |-> n]
  <2>1. PICK p, q, r, s : t = [artifacts |-> p, entities |-> q, corrs |-> r, ends |-> s]
    BY DEF Shaped
  <2>2. QED
    BY <2>1 DEF SaveEnd
<1>2. /\ IsTable(n) /\ DOMAIN n = DOMAIN t.ends \cup {<<c, k>>} /\ n[<<c, k>>] = e
      /\ \A x \in DOMAIN t.ends : x # <<c, k>> => n[x] = t.ends[x]
  BY DEF Upsert, IsTable
<1> HIDE DEF n
<1>3. QED
  BY <1>1, <1>2 DEF Shaped

-----------------------------------------------------------------------------
(* The steps of a build.                                                    *)

\* Whatever stops a build, what it has committed and read stays.
Stopped ==
  /\ pc \in Reading \cup Saving
  /\ pc' = "failed" /\ todo' = {} /\ tx' = NoRows
  /\ reason' \in {"output", "fact", "conflict", "foreign_key", "cut"}
  /\ UNCHANGED <<tables, input, at, corr, facts, before, tried, builds>>
  /\ faults' = faults \/ (faults < MaxFaults /\ faults' = faults + 1)

StepCase ==
  \/ \E i \in Inputs : Begin(i)
  \/ Stopped
  \/ StoreArtifact /\ Here.hash = "hex"
  \/ \E x \in todo : StoreEntity(x) /\ EntityValid(Here, x)
  \/ CopyNotes
  \/ \E f \in todo : TakeRoute(f) \/ TakeMetadata(f)
  \/ NextBundle
  \/ Derive
  \/ \E c \in todo : StoreHeader(c)
  \/ ClearEndpoints
  \/ StoreEndpoint /\ EndAllowed(tx, corr, Position, corr.endpoints[Position])
  \/ Commit
  \/ Complete
  \/ UNCHANGED vars

LEMMA StepCases ==
  ASSUME ControlInv, [Next]_vars
  PROVE  StepCase
<1>1. CASE StoreArtifact
  BY <1>1 DEF StoreArtifact, Stop, Stopped, StepCase, Reading, facts, history
<1>2. ASSUME NEW x \in todo, StoreEntity(x) PROVE StepCase
  BY <1>2 DEF StoreEntity, Stop, Stopped, StepCase, Reading, facts, history
<1>3. ASSUME NEW f \in todo, RefuseFact(f) PROVE StepCase
  BY <1>3 DEF RefuseFact, Stop, Stopped, StepCase, Reading, facts, history
<1>4. CASE StoreEndpoint
  BY <1>4 DEF StoreEndpoint, Stop, Stopped, StepCase, Saving, Opened, facts, history
<1>5. CASE Cut
  BY <1>5 DEF Cut, Stop, Stopped, StepCase, ControlInv, Phases, facts, history
<1>6. QED
  BY <1>1, <1>2, <1>3, <1>4, <1>5 DEF Next, Build, StepCase, Finished

LEMMA Inputs1 ==
  ASSUME NEW i \in Inputs
  PROVE  /\ Len(i) \in Nat /\ DOMAIN i = 1 .. Len(i) /\ 1 \in DOMAIN i
         /\ \A k \in DOMAIN i : i[k] \in DOMAIN Answers
<1>1. i \in Seq(DOMAIN Answers) /\ i # <<>>
  BY IngestAssumption
<1>2. Len(i) \in Nat /\ DOMAIN i = 1 .. Len(i) /\ Len(i) # 0
  BY <1>1
<1>3. QED
  BY <1>1, <1>2

\* Where a build that has begun is.
LEMMA Place ==
  ASSUME ControlInv, pc # "idle"
  PROVE  /\ input \in Inputs /\ at \in Nat /\ at >= 1 /\ at <= Len(input)
         /\ Len(input) \in Nat /\ DOMAIN input = 1 .. Len(input)
  BY Inputs1 DEF ControlInv

LEMMA ControlNext ==
  ASSUME ControlInv, [Next]_vars
  PROVE  ControlInv'
<1>1. StepCase
  BY StepCases
<1>2. ASSUME NEW i \in Inputs, Begin(i) PROVE ControlInv'
  <2>1. builds' \in 0 .. MaxBuilds /\ faults' \in 0 .. MaxFaults
    BY <1>2, IngestAssumption DEF ControlInv, Begin
  <2>2. at' \in DOMAIN input'
    BY <1>2, Inputs1 DEF Begin
  <2>3. QED
    BY <1>2, <2>1, <2>2 DEF ControlInv, Begin, Phases, Reading, Saving, Opened
<1>3. CASE Stopped
  <2>1. faults' \in 0 .. MaxFaults
    BY <1>3, IngestAssumption DEF ControlInv, Stopped
  <2>2. QED
    BY <1>3, <2>1 DEF ControlInv, Stopped, Phases, Reading, Saving, Opened
<1>4. CASE StoreArtifact /\ Here.hash = "hex"
  BY <1>4 DEF ControlInv, StoreArtifact, Phases, Reading, Saving, Opened, facts, history
<1>5. ASSUME NEW x \in todo, StoreEntity(x), EntityValid(Here, x) PROVE ControlInv'
  BY <1>5 DEF ControlInv, StoreEntity, Phases, Reading, Saving, Opened, facts, history
<1>6. CASE CopyNotes
  BY <1>6 DEF ControlInv, CopyNotes, Phases, Reading, Saving, Opened, facts, history
<1>7. ASSUME NEW f \in todo, TakeRoute(f) \/ TakeMetadata(f) PROVE ControlInv'
  BY <1>7 DEF ControlInv, TakeRoute, TakeMetadata, facts, history
<1>8. CASE NextBundle
  <2>1. at' \in DOMAIN input'
    BY <1>8, Place DEF ControlInv, NextBundle
  <2>2. QED
    BY <1>8, <2>1 DEF ControlInv, NextBundle, Phases, Reading, Saving, Opened, facts, history
<1>9. CASE Derive
  BY <1>9 DEF ControlInv, Derive, Phases, Reading, Saving, Opened, facts, history
<1>10. ASSUME NEW c \in todo, StoreHeader(c) PROVE ControlInv'
  BY <1>10 DEF ControlInv, StoreHeader, Phases, Reading, Saving, Opened, facts, history
<1>11. CASE ClearEndpoints
  BY <1>11 DEF ControlInv, ClearEndpoints, Phases, Reading, Saving, Opened, facts, history
<1>12. CASE StoreEndpoint /\ EndAllowed(tx, corr, Position, corr.endpoints[Position])
  BY <1>12 DEF ControlInv, StoreEndpoint, Phases, Reading, Saving, Opened, facts, history
<1>13. CASE Commit
  BY <1>13 DEF ControlInv, Commit, Phases, Reading, Saving, Opened, facts, history
<1>14. CASE Complete
  BY <1>14 DEF ControlInv, Complete, Phases, Reading, Saving, Opened, facts, history
<1>15. CASE UNCHANGED vars
  BY <1>15 DEF ControlInv, vars, history
<1>16. QED
  BY <1>1, <1>2, <1>3, <1>4, <1>5, <1>6, <1>7, <1>8, <1>9, <1>10, <1>11, <1>12, <1>13,
     <1>14, <1>15 DEF StepCase

LEMMA RowsNext ==
  ASSUME ControlInv, RowsInv, TxInv, [Next]_vars
  PROVE  RowsInv'
<1>1. StepCase
  BY StepCases
<1>2. CASE tables' = tables
  BY <1>2 DEF RowsInv, Shaped, IsTable, EndStored, Paired
<1>3. CASE StoreArtifact /\ Here.hash = "hex"
  <2> DEFINE row == [side |-> Here.side, language |-> Here.language]
  <2>1. tables' = SaveArtifact(tables, Here.artifact, row)
    BY <1>3 DEF StoreArtifact
  <2> HIDE DEF row
  <2>2. /\ Shaped(tables')
        /\ tables'.entities = tables.entities /\ tables'.corrs = tables.corrs
        /\ tables'.ends = tables.ends
        /\ DOMAIN tables'.artifacts = DOMAIN tables.artifacts \cup {Here.artifact}
    BY <2>1, ArtifactSaved DEF RowsInv
  <2>3. QED
    BY <2>2 DEF RowsInv, Shaped, IsTable, EndStored, Paired
<1>4. ASSUME NEW x \in todo, StoreEntity(x), EntityValid(Here, x) PROVE RowsInv'
  <2>1. /\ tables' = SaveEntity(tables, x.id, Here.artifact)
        /\ Here.artifact \in DOMAIN tables.artifacts
    BY <1>4 DEF StoreEntity, EntityAllowed
  <2>2. /\ Shaped(tables')
        /\ tables'.artifacts = tables.artifacts /\ tables'.corrs = tables.corrs
        /\ tables'.ends = tables.ends
        /\ DOMAIN tables'.entities = DOMAIN tables.entities \cup {x.id}
        /\ tables'.entities[x.id] = Here.artifact
        /\ \A e \in DOMAIN tables.entities : e # x.id => tables'.entities[e] = tables.entities[e]
    BY <2>1, EntitySaved DEF RowsInv
  <2>3. QED
    BY <2>1, <2>2 DEF RowsInv, Shaped, IsTable, EndStored, Paired
<1>5. CASE Commit
  <2>1. tables' = tx /\ pc = "commit"
    BY <1>5 DEF Commit
  <2>2. /\ Paired(corr)
        /\ Shaped(tx) /\ tx.artifacts = tables.artifacts /\ tx.entities = tables.entities
        /\ DOMAIN tx.corrs = DOMAIN tables.corrs \cup {corr}
        /\ \A c \in DOMAIN tx.corrs : tx.corrs[c] = "layer4-route-fact-v1"
        /\ DOMAIN tx.ends \subseteq (DOMAIN tx.corrs) \X {1, 2}
        /\ \A c \in DOMAIN tables.corrs : \A k \in {1, 2} : c # corr => EndStored(tx, c, k)
        /\ EndStored(tx, corr, 1) /\ corr.endpoints[1] \in DOMAIN tx.entities
        /\ EndStored(tx, corr, 2) /\ corr.endpoints[2] \in DOMAIN tx.entities
    BY <2>1 DEF TxInv, Opened, Saving
  <2>3. \A e \in DOMAIN tx.entities : tx.entities[e] \in DOMAIN tx.artifacts
    BY <2>2 DEF RowsInv
  <2>4. ASSUME NEW c \in DOMAIN tx.corrs
        PROVE  /\ Paired(c)
               /\ \A k \in {1, 2} : EndStored(tx, c, k) /\ c.endpoints[k] \in DOMAIN tx.entities
    <3>1. CASE c = corr
      BY <2>2, <3>1
    <3>2. CASE c # corr
      BY <2>2, <3>2 DEF RowsInv
    <3>3. QED
      BY <3>1, <3>2
  <2>5. /\ Shaped(tables')
        /\ \A c \in DOMAIN tables'.corrs : \A k \in {1, 2} : EndStored(tables', c, k)
    BY <2>1, <2>2, <2>4
  <2>6. QED
    BY <2>1, <2>2, <2>3, <2>4, <2>5 DEF RowsInv, Shaped, EndStored, IsTable
<1>6. QED
  BY <1>1, <1>2, <1>3, <1>4, <1>5
     DEF StepCase, Begin, Stopped, CopyNotes, TakeRoute, TakeMetadata, NextBundle, Derive,
         StoreHeader, ClearEndpoints, StoreEndpoint, Complete, vars

LEMMA PairOf ==
  ASSUME NEW r, NEW h
  PROVE  LET c == Correspondence(r, h)
         IN  /\ Paired(c) /\ c.kind = "route"
             /\ c.endpoints[1] = r /\ c.endpoints[2] = h
             /\ DOMAIN c.endpoints = {1, 2}
  BY DEF Paired, Correspondence

LEMMA TxNext ==
  ASSUME ControlInv, RowsInv, TxInv, [Next]_vars
  PROVE  TxInv'
<1>1. StepCase
  BY StepCases
<1>2. ASSUME tx' = tx, pc \notin Opened, pc' \notin Saving
      PROVE  TxInv'
  BY <1>2 DEF TxInv, Saving, Opened
<1>3. ASSUME NEW i \in Inputs, Begin(i) PROVE TxInv'
  BY <1>2, <1>3 DEF Begin, Saving, Opened
<1>4. CASE Stopped
  BY <1>4 DEF Stopped, TxInv, Saving, Opened
<1>5. CASE StoreArtifact /\ Here.hash = "hex"
  BY <1>2, <1>5 DEF StoreArtifact, Saving, Opened
<1>6. ASSUME NEW x \in todo, StoreEntity(x), EntityValid(Here, x) PROVE TxInv'
  BY <1>2, <1>6 DEF StoreEntity, Saving, Opened
<1>7. CASE CopyNotes
  BY <1>2, <1>7 DEF CopyNotes, Saving, Opened
<1>8. ASSUME NEW f \in todo, TakeRoute(f) \/ TakeMetadata(f) PROVE TxInv'
  BY <1>2, <1>8 DEF TakeRoute, TakeMetadata, Saving, Opened
<1>9. CASE NextBundle
  BY <1>2, <1>9 DEF NextBundle, Saving, Opened
<1>10. CASE Derive
  <2>1. \A c \in Derived : Paired(c)
    BY PairOf DEF Derived
  <2>2. pc = "facts" /\ pc' = "correspondence" /\ todo' = Derived /\ tx' = tx
    BY <1>10 DEF Derive
  <2>3. QED
    BY <2>1, <2>2 DEF TxInv, Saving, Opened
<1>11. ASSUME NEW c \in todo, StoreHeader(c) PROVE TxInv'
  <2>1. /\ pc = "correspondence" /\ pc' = "clear" /\ corr' = c /\ todo' = todo
        /\ tables' = tables /\ tx' = SaveHeader(tables, c)
    BY <1>11 DEF StoreHeader
  <2>2. /\ Shaped(tx') /\ tx'.artifacts = tables.artifacts
        /\ tx'.entities = tables.entities /\ tx'.ends = tables.ends
        /\ DOMAIN tx'.corrs = DOMAIN tables.corrs \cup {c}
        /\ tx'.corrs[c] = "layer4-route-fact-v1"
        /\ \A x \in DOMAIN tables.corrs : x # c => tx'.corrs[x] = tables.corrs[x]
    BY <2>1, HeaderSaved DEF RowsInv
  <2>3. \A x \in DOMAIN tx'.corrs : tx'.corrs[x] = "layer4-route-fact-v1"
    <3>1. \A x \in DOMAIN tables.corrs : tables.corrs[x] = "layer4-route-fact-v1"
      BY DEF RowsInv
    <3>2. QED
      BY <2>2, <3>1
  <2>4. /\ DOMAIN tx'.ends \subseteq (DOMAIN tx'.corrs) \X {1, 2}
        /\ \A x \in DOMAIN tables.corrs : \A k \in {1, 2} : EndStored(tx', x, k)
    BY <2>2 DEF RowsInv, EndStored
  <2>5. \A x \in todo : Paired(x)
    BY <2>1 DEF TxInv, Saving
  <2>6. QED
    BY <2>1, <2>2, <2>3, <2>4, <2>5 DEF TxInv, Saving, Opened, EndStored, Shaped, IsTable, Paired
<1>12. CASE ClearEndpoints
  <2>1. /\ pc = "clear" /\ pc' = "route_end" /\ corr' = corr /\ todo' = todo
        /\ tables' = tables /\ tx' = ClearEnds(tx, corr)
    BY <1>12 DEF ClearEndpoints
  <2>2. /\ corr \in todo /\ Shaped(tx)
        /\ tx.artifacts = tables.artifacts /\ tx.entities = tables.entities
        /\ DOMAIN tx.corrs = DOMAIN tables.corrs \cup {corr}
        /\ \A c \in DOMAIN tx.corrs : tx.corrs[c] = "layer4-route-fact-v1"
        /\ DOMAIN tx.ends \subseteq (DOMAIN tx.corrs) \X {1, 2}
        /\ \A c \in DOMAIN tables.corrs : \A k \in {1, 2} : c # corr => EndStored(tx, c, k)
        /\ \A x \in todo : Paired(x)
    BY <2>1 DEF TxInv, Saving, Opened
  <2>3. /\ Shaped(tx') /\ tx'.artifacts = tx.artifacts
        /\ tx'.entities = tx.entities /\ tx'.corrs = tx.corrs
        /\ DOMAIN tx'.ends = {x \in DOMAIN tx.ends : x[1] # corr}
        /\ \A x \in DOMAIN tx'.ends : tx'.ends[x] = tx.ends[x]
    BY <2>1, <2>2, EndsCleared
  <2>4. /\ DOMAIN tx'.ends \subseteq (DOMAIN tx.corrs) \X {1, 2}
        /\ <<corr, 1>> \notin DOMAIN tx'.ends /\ <<corr, 2>> \notin DOMAIN tx'.ends
        /\ \A c \in DOMAIN tables.corrs : \A k \in {1, 2} : c # corr => EndStored(tx', c, k)
    BY <2>2, <2>3 DEF EndStored
  <2>5. QED
    BY <2>1, <2>2, <2>3, <2>4 DEF TxInv, Saving, Opened, EndStored, Shaped, IsTable, Paired
<1>13. CASE StoreEndpoint /\ EndAllowed(tx, corr, Position, corr.endpoints[Position])
  <2> DEFINE k == Position
             e == corr.endpoints[k]
  <2>1. /\ pc \in {"route_end", "handler_end"} /\ corr' = corr /\ todo' = todo
        /\ tables' = tables /\ tx' = SaveEnd(tx, corr, k, e)
        /\ pc = "route_end" => k = 1 /\ pc' = "handler_end"
        /\ pc = "handler_end" => k = 2 /\ pc' = "commit"
        /\ k \in {1, 2}
    BY <1>13 DEF StoreEndpoint, Position
  <2>2. e \in DOMAIN tx.entities
    BY <1>13 DEF EndAllowed
  <2> HIDE DEF k
  <2>3. /\ corr \in todo /\ Shaped(tx)
        /\ tx.artifacts = tables.artifacts /\ tx.entities = tables.entities
        /\ DOMAIN tx.corrs = DOMAIN tables.corrs \cup {corr}
        /\ \A c \in DOMAIN tx.corrs : tx.corrs[c] = "layer4-route-fact-v1"
        /\ DOMAIN tx.ends \subseteq (DOMAIN tx.corrs) \X {1, 2}
        /\ \A c \in DOMAIN tables.corrs : \A n \in {1, 2} : c # corr => EndStored(tx, c, n)
        /\ \A x \in todo : Paired(x)
        /\ pc = "route_end" => <<corr, 1>> \notin DOMAIN tx.ends
        /\ <<corr, 2>> \notin DOMAIN tx.ends
        /\ pc = "handler_end" =>
             EndStored(tx, corr, 1) /\ corr.endpoints[1] \in DOMAIN tx.entities
    BY <2>1 DEF TxInv, Saving, Opened
  <2>4. /\ Shaped(tx') /\ tx'.artifacts = tx.artifacts
        /\ tx'.entities = tx.entities /\ tx'.corrs = tx.corrs
        /\ DOMAIN tx'.ends = DOMAIN tx.ends \cup {<<corr, k>>}
        /\ tx'.ends[<<corr, k>>] = e
        /\ \A x \in DOMAIN tx.ends : x # <<corr, k>> => tx'.ends[x] = tx.ends[x]
    BY <2>1, <2>3, EndSaved
  <2>5. /\ DOMAIN tx'.ends \subseteq (DOMAIN tx.corrs) \X {1, 2}
        /\ EndStored(tx', corr, k)
        /\ k = 1 => <<corr, 2>> \notin DOMAIN tx'.ends
        /\ \A c \in DOMAIN tables.corrs : \A n \in {1, 2} : c # corr => EndStored(tx', c, n)
        /\ k = 2 /\ EndStored(tx, corr, 1) => EndStored(tx', corr, 1)
    BY <2>1, <2>3, <2>4 DEF EndStored
  <2>6. CASE pc = "route_end"
    BY <2>1, <2>2, <2>3, <2>4, <2>5, <2>6
       DEF TxInv, Saving, Opened, EndStored, Shaped, IsTable, Paired
  <2>7. CASE pc = "handler_end"
    BY <2>1, <2>2, <2>3, <2>4, <2>5, <2>7
       DEF TxInv, Saving, Opened, EndStored, Shaped, IsTable, Paired
  <2>8. QED
    BY <2>1, <2>6, <2>7
<1>14. CASE Commit
  BY <1>14 DEF Commit, TxInv, Saving, Opened, Paired
<1>15. CASE Complete
  BY <1>15 DEF Complete, TxInv, Saving, Opened
<1>16. CASE UNCHANGED vars
  BY <1>16 DEF vars, TxInv, Saving, Opened, EndStored, Shaped, IsTable, Paired
<1>17. QED
  BY <1>1, <1>3, <1>4, <1>5, <1>6, <1>7, <1>8, <1>9, <1>10, <1>11, <1>12, <1>13,
     <1>14, <1>15, <1>16 DEF StepCase

-----------------------------------------------------------------------------
(* What a step does to the tables.                                          *)

LEMMA PlacedRow ==
  ASSUME RowsInv, StoreArtifact, Here.hash = "hex"
  PROVE  /\ tables'.entities = tables.entities /\ tables'.corrs = tables.corrs
         /\ DOMAIN tables'.artifacts = DOMAIN tables.artifacts \cup {Here.artifact}
         /\ tables'.artifacts[Here.artifact] = [side |-> Here.side, language |-> Here.language]
         /\ \A a \in DOMAIN tables.artifacts :
              a # Here.artifact => tables'.artifacts[a] = tables.artifacts[a]
<1> DEFINE row == [side |-> Here.side, language |-> Here.language]
<1>1. tables' = SaveArtifact(tables, Here.artifact, row)
  BY DEF StoreArtifact
<1> HIDE DEF row
<1>2. /\ tables'.entities = tables.entities /\ tables'.corrs = tables.corrs
      /\ DOMAIN tables'.artifacts = DOMAIN tables.artifacts \cup {Here.artifact}
      /\ tables'.artifacts[Here.artifact] = row
      /\ \A a \in DOMAIN tables.artifacts :
           a # Here.artifact => tables'.artifacts[a] = tables.artifacts[a]
  BY <1>1, ArtifactSaved DEF RowsInv
<1>3. QED
  BY <1>2 DEF row

LEMMA EntityRow ==
  ASSUME RowsInv, NEW x \in todo, StoreEntity(x), EntityValid(Here, x)
  PROVE  /\ tables'.artifacts = tables.artifacts /\ tables'.corrs = tables.corrs
         /\ DOMAIN tables'.entities = DOMAIN tables.entities \cup {x.id}
         /\ tables'.entities[x.id] = Here.artifact
         /\ \A e \in DOMAIN tables.entities :
              e # x.id => tables'.entities[e] = tables.entities[e]
<1>1. tables' = SaveEntity(tables, x.id, Here.artifact)
  BY DEF StoreEntity
<1>2. QED
  BY <1>1, EntitySaved DEF RowsInv

LEMMA CommittedRows ==
  ASSUME TxInv, Commit
  PROVE  /\ tables'.artifacts = tables.artifacts /\ tables'.entities = tables.entities
         /\ DOMAIN tables'.corrs = DOMAIN tables.corrs \cup {corr}
         /\ corr \in todo
  BY DEF TxInv, Opened, Commit

\* A step in the middle of a build leaves what was stored before it.
LEMMA PrefixKept ==
  ASSUME ControlInv, PrefixInv, pc # "idle", pc' # "idle",
         at' = at, input' = input, before' = before,
         DOMAIN tables.artifacts \subseteq DOMAIN tables'.artifacts,
         DOMAIN tables'.entities = DOMAIN tables.entities,
         pc' = "entities" => todo' \subseteq Here.entities,
         pc' \in {"entities", "facts"} => Here.artifact \in DOMAIN tables'.artifacts,
         Passed' \subseteq Passed
  PROVE  PrefixInv'
<1>1. Here' = Here /\ \A k \in 1 .. at - 1 : BundleAt(k)' = BundleAt(k)
  BY DEF Here, BundleAt
<1>2. \A x \in Passed' : EntityValid(Here, x) /\ x.id \in DOMAIN tables'.entities
  BY DEF PrefixInv
<1>3. \A k \in 1 .. at - 1 :
        /\ BundleAt(k).artifact \in DOMAIN tables'.artifacts
        /\ \A x \in BundleAt(k).entities :
             EntityValid(BundleAt(k), x) /\ x.id \in DOMAIN tables'.entities
  BY DEF PrefixInv
<1>4. \A e \in DOMAIN tables'.entities :
        \/ e \in DOMAIN before.entities
        \/ \E k \in 1 .. at - 1 : \E x \in BundleAt(k).entities : x.id = e
        \/ \E x \in Here.entities : EntityValid(Here, x) /\ x.id = e
  BY DEF PrefixInv
<1>5. QED
  BY <1>1, <1>2, <1>3, <1>4 DEF PrefixInv, EntityValid, BundleAt, Here

LEMMA PrefixNext ==
  ASSUME ControlInv, RowsInv, TxInv, PrefixInv, [Next]_vars
  PROVE  PrefixInv'
<1>1. StepCase
  BY StepCases
<1>2. ASSUME NEW i \in Inputs, Begin(i) PROVE PrefixInv'
  <2>1. at' = 1 /\ tables' = tables /\ before' = tables /\ pc' = "artifact"
    BY <1>2 DEF Begin
  <2>2. Passed' = {}
    BY <2>1 DEF Passed, Saving, Opened
  <2>3. 1 .. at' - 1 = {}
    BY <2>1
  <2>4. QED
    BY <2>1, <2>2, <2>3 DEF PrefixInv
<1>3. CASE Stopped
  <2>1. Passed' = {}
    BY <1>3 DEF Stopped, Passed, Saving, Opened
  <2>2. QED
    BY <1>3, <2>1, PrefixKept DEF Stopped, Reading, Saving, Opened
<1>4. CASE StoreArtifact /\ Here.hash = "hex"
  <2>1. /\ pc = "artifact" /\ pc' = "entities" /\ todo' = Here.entities
        /\ at' = at /\ input' = input /\ before' = before
    BY <1>4 DEF StoreArtifact, history
  <2>2. Passed' = {}
    BY <2>1 DEF Passed, Here
  <2>3. QED
    BY <1>4, <2>1, <2>2, PlacedRow, PrefixKept
<1>5. ASSUME NEW x \in todo, StoreEntity(x), EntityValid(Here, x) PROVE PrefixInv'
  <2>1. /\ pc = "entities" /\ pc' = pc /\ todo' = todo \ {x}
        /\ at' = at /\ input' = input /\ before' = before
    BY <1>5 DEF StoreEntity, history
  <2>2. /\ tables'.artifacts = tables.artifacts
        /\ DOMAIN tables'.entities = DOMAIN tables.entities \cup {x.id}
    BY <1>5, EntityRow
  <2>3. Here' = Here /\ \A k \in 1 .. at - 1 : BundleAt(k)' = BundleAt(k)
    BY <2>1 DEF Here, BundleAt
  <2>4. x \in Here.entities /\ Passed' \subseteq Passed \cup {x}
    BY <2>1, <2>3 DEF Passed, PrefixInv
  <2>5. \A y \in Passed' : EntityValid(Here, y) /\ y.id \in DOMAIN tables'.entities
    BY <1>5, <2>2, <2>4 DEF PrefixInv
  <2>6. \A e \in DOMAIN tables'.entities :
          \/ e \in DOMAIN before.entities
          \/ \E k \in 1 .. at - 1 : \E y \in BundleAt(k).entities : y.id = e
          \/ \E y \in Here.entities : EntityValid(Here, y) /\ y.id = e
    BY <1>5, <2>1, <2>2, <2>4 DEF PrefixInv
  <2>7. \A k \in 1 .. at - 1 :
          /\ BundleAt(k).artifact \in DOMAIN tables'.artifacts
          /\ \A y \in BundleAt(k).entities :
               EntityValid(BundleAt(k), y) /\ y.id \in DOMAIN tables'.entities
    BY <2>1, <2>2 DEF PrefixInv
  <2>8. QED
    BY <2>1, <2>2, <2>3, <2>5, <2>6, <2>7 DEF PrefixInv, EntityValid, BundleAt, Here
<1>6. CASE CopyNotes
  <2>1. /\ pc = "entities" /\ pc' = "facts" /\ todo = {} /\ tables' = tables
        /\ at' = at /\ input' = input /\ before' = before
    BY <1>6 DEF CopyNotes, history
  <2>2. Passed' = Here.entities /\ Passed = Here.entities
    BY <2>1 DEF Passed, Here
  <2>3. QED
    BY <2>1, <2>2, PrefixKept DEF PrefixInv
<1>7. ASSUME NEW f \in todo, TakeRoute(f) \/ TakeMetadata(f) PROVE PrefixInv'
  <2>1. /\ pc = "facts" /\ pc' = "facts" /\ tables' = tables
        /\ at' = at /\ input' = input /\ before' = before
    BY <1>7 DEF TakeRoute, TakeMetadata, history
  <2>2. Passed' = Passed
    BY <2>1 DEF Passed, Here
  <2>3. QED
    BY <2>1, <2>2, PrefixKept DEF PrefixInv
<1>8. CASE NextBundle
  <2>1. /\ pc = "facts" /\ pc' = "artifact" /\ tables' = tables
        /\ at' = at + 1 /\ input' = input /\ before' = before
    BY <1>8 DEF NextBundle, facts, history
  <2>2. Passed = Here.entities /\ Passed' = {} /\ Here = BundleAt(at)
    BY <2>1 DEF Passed, Here, BundleAt, Saving, Opened
  <2>3. \A k : BundleAt(k)' = BundleAt(k)
    BY <2>1 DEF BundleAt
  <2>4. \A k \in 1 .. at :
          /\ BundleAt(k).artifact \in DOMAIN tables.artifacts
          /\ \A x \in BundleAt(k).entities :
               EntityValid(BundleAt(k), x) /\ x.id \in DOMAIN tables.entities
    BY <2>1, <2>2, Place DEF PrefixInv
  <2>5. \A e \in DOMAIN tables.entities :
          \/ e \in DOMAIN before.entities
          \/ \E k \in 1 .. at : \E x \in BundleAt(k).entities : x.id = e
    BY <2>1, <2>2, Place DEF PrefixInv
  <2>6. (at + 1) - 1 = at
    BY <2>1, Place
  <2>7. QED
    BY <2>1, <2>2, <2>3, <2>4, <2>5, <2>6 DEF PrefixInv, EntityValid, BundleAt
<1>9. CASE \/ Derive
           \/ \E c \in todo : StoreHeader(c)
           \/ ClearEndpoints
           \/ StoreEndpoint /\ EndAllowed(tx, corr, Position, corr.endpoints[Position])
           \/ Commit
           \/ Complete
  <2>1. /\ pc \in {"facts", "done"} \cup Saving /\ pc' \in {"done"} \cup Saving
        /\ at' = at /\ input' = input /\ before' = before
    BY <1>9 DEF Derive, StoreHeader, ClearEndpoints, StoreEndpoint, Commit, Complete,
                Saving, Opened, history
  <2>2. tables'.artifacts = tables.artifacts /\ tables'.entities = tables.entities
    BY <1>9, CommittedRows
       DEF Derive, StoreHeader, ClearEndpoints, StoreEndpoint, Complete
  <2>3. Passed' = Passed
    BY <2>1 DEF Passed, Here, Saving, Opened
  <2>4. pc # "idle" /\ pc' # "idle" /\ pc' \notin {"entities", "facts"}
    BY <2>1 DEF Saving, Opened
  <2>5. QED
    BY <2>1, <2>2, <2>3, <2>4, PrefixKept
<1>10. CASE UNCHANGED vars
  <2>1. Passed' = Passed /\ Here' = Here /\ \A k : BundleAt(k)' = BundleAt(k)
    BY <1>10 DEF vars, Passed, Here, BundleAt
  <2>2. pc' = pc /\ at' = at /\ todo' = todo /\ tables' = tables /\ before' = before
    BY <1>10 DEF vars, history
  <2>3. QED
    BY <2>1, <2>2 DEF PrefixInv, EntityValid, BundleAt
<1>11. QED
  BY <1>1, <1>2, <1>3, <1>4, <1>5, <1>6, <1>7, <1>8, <1>9, <1>10 DEF StepCase

-----------------------------------------------------------------------------
(* The facts a build takes.                                                 *)

LEMMA SourceKept ==
  ASSUME ControlInv, pc # "idle", at' \in {at, at + 1}, input' = input,
         DOMAIN tables.entities \subseteq DOMAIN tables'.entities,
         NEW kind, NEW k, NEW e, Source(kind, k, e)
  PROVE  Source(kind, k, e)'
<1>1. PICK n \in 1 .. at :
        \E f \in BundleAt(n).facts :
          /\ FactValid(BundleAt(n), f)
          /\ f.kind = kind /\ Key(f) = k /\ f.entity = e
          /\ \A x \in BundleAt(n).entities :
               EntityValid(BundleAt(n), x) /\ x.id \in DOMAIN tables.entities
  BY DEF Source
<1>2. n \in 1 .. at' /\ BundleAt(n)' = BundleAt(n)
  BY Place DEF BundleAt
<1>3. QED
  BY <1>1, <1>2 DEF Source, BundleAt, FactValid, EntityValid, Key

\* A step that takes no fact leaves those taken before.
LEMMA FactsKept ==
  ASSUME ControlInv, FactsInv, pc # "idle", pc' # "idle",
         at' = at, input' = input, routes' = routes, metadata' = metadata,
         DOMAIN tables.entities \subseteq DOMAIN tables'.entities,
         pc' = "facts" => todo' \subseteq Here.facts,
         Gone' \subseteq Gone
  PROVE  FactsInv'
<1>1. Here' = Here /\ \A k : BundleAt(k)' = BundleAt(k)
  BY DEF Here, BundleAt
<1>2. \A f \in Gone' : FactValid(Here, f) /\ Taken(f)
  BY DEF FactsInv
<1>3. \A n \in 1 .. at - 1 : \A f \in BundleAt(n).facts : FactValid(BundleAt(n), f) /\ Taken(f)
  BY DEF FactsInv
<1>4. ASSUME NEW k \in DOMAIN routes PROVE Source("route", k, routes[k])'
  <2>1. Source("route", k, routes[k])
    BY DEF FactsInv
  <2>2. QED
    BY <2>1, SourceKept DEF Source
<1>5. ASSUME NEW k \in DOMAIN metadata PROVE Source("route_metadata", k, metadata[k])'
  <2>1. Source("route_metadata", k, metadata[k])
    BY DEF FactsInv
  <2>2. QED
    BY <2>1, SourceKept DEF Source
<1>6. \A f : Taken(f) => Taken(f)'
  BY DEF Taken
<1>7. \A f \in Gone' : FactValid(Here, f)' /\ Taken(f)'
  BY <1>1, <1>2, <1>6 DEF FactValid, Here
<1>8. \A n \in 1 .. at' - 1 : \A f \in BundleAt(n)'.facts :
        FactValid(BundleAt(n), f)' /\ Taken(f)'
  BY <1>1, <1>3, <1>6 DEF FactValid, BundleAt
<1>9. IsTable(routes)' /\ IsTable(metadata)'
  BY DEF FactsInv, IsTable
<1>10. QED
  BY <1>1, <1>4, <1>5, <1>7, <1>8, <1>9 DEF FactsInv

\* What a map holds after a fact it agrees with.
LEMMA MapTakes ==
  ASSUME NEW map, NEW f, Agrees(map, f), IsTable(map)
  PROVE  LET m == Upsert(map, Key(f), f.entity)
         IN  /\ IsTable(m)
             /\ DOMAIN m = DOMAIN map \cup {Key(f)}
             /\ m[Key(f)] = f.entity
             /\ \A k \in DOMAIN map : m[k] = map[k]
<1> DEFINE key == Key(f)
<1>1. key \in DOMAIN map => map[key] = f.entity
  BY DEF Agrees
<1> HIDE DEF key
<1>2. LET m == Upsert(map, key, f.entity)
      IN  /\ IsTable(m)
          /\ DOMAIN m = DOMAIN map \cup {key}
          /\ m[key] = f.entity
          /\ \A k \in DOMAIN map : m[k] = map[k]
  BY <1>1 DEF Upsert, IsTable
<1>3. QED
  BY <1>2 DEF key

\* The fact a build is at becomes the source of its key.
LEMMA SourceHere ==
  ASSUME ControlInv, PrefixInv, pc = "facts",
         NEW f \in Here.facts, FactValid(Here, f),
         at' = at, input' = input, tables' = tables
  PROVE  Source(f.kind, Key(f), f.entity)'
<1>1. Here = BundleAt(at) /\ at \in 1 .. at /\ \A k : BundleAt(k)' = BundleAt(k)
  BY Place DEF Here, BundleAt
<1>2. \A x \in Here.entities : EntityValid(Here, x) /\ x.id \in DOMAIN tables.entities
  BY DEF PrefixInv, Passed
<1>3. QED
  BY <1>1, <1>2 DEF Source, BundleAt, FactValid, EntityValid, Key

LEMMA RouteTaken ==
  ASSUME ControlInv, PrefixInv, FactsInv, NEW f \in todo, TakeRoute(f)
  PROVE  FactsInv'
<1>1. /\ pc = "facts" /\ pc' = pc /\ f.kind = "route" /\ f \in Here.facts
      /\ FactValid(Here, f) /\ Agrees(routes, f)
      /\ routes' = Upsert(routes, Key(f), f.entity)
      /\ todo' = todo \ {f} /\ at' = at /\ input' = input
      /\ tables' = tables /\ metadata' = metadata
      /\ IsTable(routes) /\ IsTable(metadata)
  BY DEF TakeRoute, FactsInv, history
<1>2. /\ IsTable(routes') /\ DOMAIN routes' = DOMAIN routes \cup {Key(f)}
      /\ routes'[Key(f)] = f.entity
      /\ \A k \in DOMAIN routes : routes'[k] = routes[k]
  BY <1>1, MapTakes
<1>3. \A g : Taken(g) => Taken(g)'
  BY <1>1, <1>2 DEF Taken, Key
<1>4. Taken(f)'
  BY <1>1, <1>2 DEF Taken, Key
<1>5. Here' = Here /\ \A k : BundleAt(k)' = BundleAt(k)
  BY <1>1 DEF Here, BundleAt
<1>6. \A g \in Gone' : FactValid(Here, g)' /\ Taken(g)'
  <2>1. Gone' \subseteq Gone \cup {f}
    BY <1>1, <1>5 DEF Gone
  <2>2. \A g \in Gone' : FactValid(Here, g) /\ Taken(g)'
    BY <1>1, <1>3, <1>4, <2>1 DEF FactsInv
  <2>3. QED
    BY <1>5, <2>2 DEF FactValid, Here
<1>7. \A n \in 1 .. at' - 1 : \A g \in BundleAt(n)'.facts :
        FactValid(BundleAt(n), g)' /\ Taken(g)'
  <2>1. \A n \in 1 .. at - 1 : \A g \in BundleAt(n).facts :
          FactValid(BundleAt(n), g) /\ Taken(g)
    BY <1>1 DEF FactsInv
  <2>2. QED
    BY <1>1, <1>3, <1>5, <2>1 DEF FactValid, BundleAt
<1>8. ASSUME NEW k \in DOMAIN routes' PROVE Source("route", k, routes[k])'
  <2>1. PICK e : e = routes'[k]
    OBVIOUS
  <2>2. CASE k \in DOMAIN routes
    <3>1. Source("route", k, routes[k]) /\ routes[k] = e
      BY <1>1, <1>2, <2>1, <2>2 DEF FactsInv
    <3>2. Source("route", k, e)
      BY <3>1
    <3>3. Source("route", k, e)'
      BY <1>1, <3>2, SourceKept
    <3>4. QED
      BY <2>1, <3>3 DEF Source
  <2>3. CASE k \notin DOMAIN routes
    <3>1. k = Key(f) /\ e = f.entity
      BY <1>2, <1>8, <2>1, <2>3
    <3>2. Source(f.kind, Key(f), f.entity)'
      BY <1>1, SourceHere
    <3>3. Source("route", k, e)'
      BY <1>1, <3>1, <3>2
    <3>4. QED
      BY <2>1, <3>3 DEF Source
  <2>4. QED
    BY <2>2, <2>3
<1>9. ASSUME NEW k \in DOMAIN metadata PROVE Source("route_metadata", k, metadata[k])'
  <2>1. Source("route_metadata", k, metadata[k])
    BY <1>1 DEF FactsInv
  <2>2. QED
    BY <1>1, <2>1, SourceKept DEF Source
<1>10. (pc = "facts" => todo \subseteq Here.facts)'
  BY <1>1, <1>5 DEF FactsInv
<1>11. QED
  BY <1>1, <1>2, <1>6, <1>7, <1>8, <1>9, <1>10 DEF FactsInv, IsTable

LEMMA MetadataTaken ==
  ASSUME ControlInv, PrefixInv, FactsInv, NEW f \in todo, TakeMetadata(f)
  PROVE  FactsInv'
<1>1. /\ pc = "facts" /\ pc' = pc /\ f.kind = "route_metadata" /\ f \in Here.facts
      /\ FactValid(Here, f) /\ Agrees(metadata, f)
      /\ metadata' = Upsert(metadata, Key(f), f.entity)
      /\ todo' = todo \ {f} /\ at' = at /\ input' = input
      /\ tables' = tables /\ routes' = routes
      /\ IsTable(routes) /\ IsTable(metadata)
  BY DEF TakeMetadata, FactsInv, history
<1>2. /\ IsTable(metadata') /\ DOMAIN metadata' = DOMAIN metadata \cup {Key(f)}
      /\ metadata'[Key(f)] = f.entity
      /\ \A k \in DOMAIN metadata : metadata'[k] = metadata[k]
  BY <1>1, MapTakes
<1>3. \A g : Taken(g) => Taken(g)'
  BY <1>1, <1>2 DEF Taken, Key
<1>4. Taken(f)'
  BY <1>1, <1>2 DEF Taken, Key
<1>5. Here' = Here /\ \A k : BundleAt(k)' = BundleAt(k)
  BY <1>1 DEF Here, BundleAt
<1>6. \A g \in Gone' : FactValid(Here, g)' /\ Taken(g)'
  <2>1. Gone' \subseteq Gone \cup {f}
    BY <1>1, <1>5 DEF Gone
  <2>2. \A g \in Gone' : FactValid(Here, g) /\ Taken(g)'
    BY <1>1, <1>3, <1>4, <2>1 DEF FactsInv
  <2>3. QED
    BY <1>5, <2>2 DEF FactValid, Here
<1>7. \A n \in 1 .. at' - 1 : \A g \in BundleAt(n)'.facts :
        FactValid(BundleAt(n), g)' /\ Taken(g)'
  <2>1. \A n \in 1 .. at - 1 : \A g \in BundleAt(n).facts :
          FactValid(BundleAt(n), g) /\ Taken(g)
    BY <1>1 DEF FactsInv
  <2>2. QED
    BY <1>1, <1>3, <1>5, <2>1 DEF FactValid, BundleAt
<1>8. ASSUME NEW k \in DOMAIN metadata' PROVE Source("route_metadata", k, metadata[k])'
  <2>1. PICK e : e = metadata'[k]
    OBVIOUS
  <2>2. CASE k \in DOMAIN metadata
    <3>1. Source("route_metadata", k, metadata[k]) /\ metadata[k] = e
      BY <1>1, <1>2, <2>1, <2>2 DEF FactsInv
    <3>2. Source("route_metadata", k, e)
      BY <3>1
    <3>3. Source("route_metadata", k, e)'
      BY <1>1, <3>2, SourceKept
    <3>4. QED
      BY <2>1, <3>3 DEF Source
  <2>3. CASE k \notin DOMAIN metadata
    <3>1. k = Key(f) /\ e = f.entity
      BY <1>2, <1>8, <2>1, <2>3
    <3>2. Source(f.kind, Key(f), f.entity)'
      BY <1>1, SourceHere
    <3>3. Source("route_metadata", k, e)'
      BY <1>1, <3>1, <3>2
    <3>4. QED
      BY <2>1, <3>3 DEF Source
  <2>4. QED
    BY <2>2, <2>3
<1>9. ASSUME NEW k \in DOMAIN routes PROVE Source("route", k, routes[k])'
  <2>1. Source("route", k, routes[k])
    BY <1>1 DEF FactsInv
  <2>2. QED
    BY <1>1, <2>1, SourceKept DEF Source
<1>10. (pc = "facts" => todo \subseteq Here.facts)'
  BY <1>1, <1>5 DEF FactsInv
<1>11. QED
  BY <1>1, <1>2, <1>6, <1>7, <1>8, <1>9, <1>10 DEF FactsInv, IsTable

LEMMA FactsNext ==
  ASSUME ControlInv, RowsInv, TxInv, PrefixInv, FactsInv, [Next]_vars
  PROVE  FactsInv'
<1>1. StepCase
  BY StepCases
<1>2. ASSUME NEW i \in Inputs, Begin(i) PROVE FactsInv'
  <2>1. at' = 1 /\ pc' = "artifact" /\ routes' = <<>> /\ metadata' = <<>>
    BY <1>2 DEF Begin
  <2>2. Gone' = {} /\ 1 .. at' - 1 = {}
    BY <2>1 DEF Gone, Saving, Opened
  <2>3. IsTable(<<>>) /\ DOMAIN <<>> = {}
    BY DEF IsTable
  <2>4. IsTable(routes)' /\ IsTable(metadata)' /\ DOMAIN routes' = {} /\ DOMAIN metadata' = {}
    BY <2>1, <2>3 DEF IsTable
  <2>5. QED
    BY <2>1, <2>2, <2>4 DEF FactsInv
<1>3. CASE Stopped
  <2>1. Gone' = {}
    BY <1>3 DEF Stopped, Gone, Saving, Opened
  <2>2. QED
    BY <1>3, <2>1, FactsKept DEF Stopped, Reading, Saving, Opened, facts
<1>4. CASE StoreArtifact /\ Here.hash = "hex"
  <2>1. /\ pc = "artifact" /\ pc' = "entities" /\ at' = at /\ input' = input
        /\ routes' = routes /\ metadata' = metadata
    BY <1>4 DEF StoreArtifact, facts
  <2>2. Gone' = {}
    BY <2>1 DEF Gone, Saving, Opened
  <2>3. DOMAIN tables'.entities = DOMAIN tables.entities
    BY <1>4, PlacedRow
  <2>4. QED
    BY <2>1, <2>2, <2>3, FactsKept
<1>5. ASSUME NEW x \in todo, StoreEntity(x), EntityValid(Here, x) PROVE FactsInv'
  <2>1. /\ pc = "entities" /\ pc' = pc /\ at' = at /\ input' = input
        /\ routes' = routes /\ metadata' = metadata
    BY <1>5 DEF StoreEntity, facts
  <2>2. Gone' = {}
    BY <2>1 DEF Gone, Saving, Opened
  <2>3. DOMAIN tables.entities \subseteq DOMAIN tables'.entities
    BY <1>5, EntityRow
  <2>4. QED
    BY <2>1, <2>2, <2>3, FactsKept
<1>6. CASE CopyNotes
  <2>1. /\ pc = "entities" /\ pc' = "facts" /\ at' = at /\ input' = input
        /\ routes' = routes /\ metadata' = metadata /\ todo' = Here.facts
        /\ tables' = tables
    BY <1>6 DEF CopyNotes
  <2>2. Gone' = {}
    BY <2>1 DEF Gone, Here
  <2>3. QED
    BY <2>1, <2>2, FactsKept
<1>7. ASSUME NEW f \in todo, TakeRoute(f) \/ TakeMetadata(f) PROVE FactsInv'
  BY <1>7, RouteTaken, MetadataTaken
<1>8. CASE NextBundle
  <2>1. /\ pc = "facts" /\ pc' = "artifact" /\ todo = {} /\ tables' = tables
        /\ at' = at + 1 /\ input' = input /\ routes' = routes /\ metadata' = metadata
    BY <1>8 DEF NextBundle, facts
  <2>2. Gone = Here.facts /\ Gone' = {} /\ Here = BundleAt(at)
    BY <2>1 DEF Gone, Here, BundleAt, Saving, Opened
  <2>3. \A k : BundleAt(k)' = BundleAt(k)
    BY <2>1 DEF BundleAt
  <2>4. \A n \in 1 .. at : \A f \in BundleAt(n).facts : FactValid(BundleAt(n), f) /\ Taken(f)
    BY <2>1, <2>2, Place DEF FactsInv
  <2>5. \A f : Taken(f) => Taken(f)'
    BY <2>1 DEF Taken
  <2>6. \A n \in 1 .. at' - 1 : \A f \in BundleAt(n)'.facts :
          FactValid(BundleAt(n), f)' /\ Taken(f)'
    <3>1. at' - 1 = at
      BY <2>1, Place
    <3>2. \A n \in 1 .. at : \A f \in BundleAt(n).facts :
            FactValid(BundleAt(n), f) /\ Taken(f)'
      BY <2>4, <2>5
    <3>3. \A n \in 1 .. at : \A f \in BundleAt(n)'.facts :
            FactValid(BundleAt(n), f)' /\ Taken(f)'
      BY <2>1, <3>2 DEF FactValid, BundleAt
    <3>4. QED
      BY <3>1, <3>3
  <2>7. ASSUME NEW k \in DOMAIN routes PROVE Source("route", k, routes[k])'
    <3>1. Source("route", k, routes[k])
      BY <2>1 DEF FactsInv
    <3>2. QED
      BY <2>1, <3>1, SourceKept DEF Source
  <2>8. ASSUME NEW k \in DOMAIN metadata PROVE Source("route_metadata", k, metadata[k])'
    <3>1. Source("route_metadata", k, metadata[k])
      BY <2>1 DEF FactsInv
    <3>2. QED
      BY <2>1, <3>1, SourceKept DEF Source
  <2>9. IsTable(routes)' /\ IsTable(metadata)'
    BY <2>1 DEF FactsInv, IsTable
  <2>10. QED
    BY <2>1, <2>2, <2>6, <2>7, <2>8, <2>9 DEF FactsInv
<1>9. CASE \/ Derive
           \/ \E c \in todo : StoreHeader(c)
           \/ ClearEndpoints
           \/ StoreEndpoint /\ EndAllowed(tx, corr, Position, corr.endpoints[Position])
           \/ Commit
           \/ Complete
  <2>1. /\ pc' \in {"done"} \cup Saving
        /\ (pc = "facts" /\ todo = {}) \/ pc \in {"done"} \cup Saving
        /\ at' = at /\ input' = input /\ routes' = routes /\ metadata' = metadata
    BY <1>9 DEF Derive, StoreHeader, ClearEndpoints, StoreEndpoint, Commit, Complete,
                Saving, Opened, facts
  <2>2. tables'.entities = tables.entities
    BY <1>9, CommittedRows
       DEF Derive, StoreHeader, ClearEndpoints, StoreEndpoint, Complete
  <2>3. Gone' = Gone
    BY <2>1 DEF Gone, Here, Saving, Opened
  <2>4. pc # "idle" /\ pc' # "idle" /\ pc' # "facts"
    BY <2>1 DEF Saving, Opened
  <2>5. QED
    BY <2>1, <2>2, <2>3, <2>4, FactsKept
<1>10. CASE UNCHANGED vars
  <2>1. /\ pc' = pc /\ todo' = todo /\ tables' = tables /\ at' = at /\ input' = input
        /\ routes' = routes /\ metadata' = metadata
    BY <1>10 DEF vars, facts
  <2>2. Gone' = Gone
    BY <2>1 DEF Gone, Here
  <2>3. CASE pc = "idle"
    BY <2>1, <2>2, <2>3 DEF FactsInv, IsTable, Gone, Here, FactValid, Taken, Saving, Opened
  <2>4. CASE pc # "idle"
    BY <2>1, <2>2, <2>4, FactsKept DEF FactsInv
  <2>5. QED
    BY <2>3, <2>4
<1>11. QED
  BY <1>1, <1>2, <1>3, <1>4, <1>5, <1>6, <1>7, <1>8, <1>9, <1>10 DEF StepCase

-----------------------------------------------------------------------------
(* The correspondences.                                                     *)

\* A source is a fact of the input.
LEMMA SourceFact ==
  ASSUME ControlInv, pc # "idle", NEW kind, NEW k, NEW e, Source(kind, k, e)
  PROVE  /\ \E f \in FactsOf(input) : f.kind = kind /\ Key(f) = k /\ f.entity = e
         /\ OwnFacts[input] => e.side = k.side
<1>1. PICK n \in 1 .. at :
        \E f \in BundleAt(n).facts :
          /\ FactValid(BundleAt(n), f)
          /\ f.kind = kind /\ Key(f) = k /\ f.entity = e
          /\ \A x \in BundleAt(n).entities :
               EntityValid(BundleAt(n), x) /\ x.id \in DOMAIN tables.entities
  BY DEF Source
<1>2. input \in Inputs /\ n \in DOMAIN input /\ BundleAt(n) \in Bundles(input)
  BY Place DEF Bundles, BundleAt
<1>3. PICK f \in BundleAt(n).facts :
        /\ FactValid(BundleAt(n), f)
        /\ f.kind = kind /\ Key(f) = k /\ f.entity = e
        /\ \A x \in BundleAt(n).entities : EntityValid(BundleAt(n), x)
  BY <1>1
<1>4. f \in FactsOf(input)
  BY <1>2, <1>3 DEF FactsOf
<1>5. ASSUME OwnFacts[input] PROVE e.side = k.side
  <2>1. PICK x \in BundleAt(n).entities : x.id = f.entity
    BY <1>2, <1>3, <1>5 DEF OwnFacts
  <2>2. x.id.side = BundleAt(n).side /\ f.side = BundleAt(n).side
    BY <1>3, <2>1 DEF EntityValid, FactValid
  <2>3. k.side = f.side
    BY <1>3 DEF Key
  <2>4. QED
    BY <1>3, <2>1, <2>2, <2>3
<1>6. QED
  BY <1>3, <1>4, <1>5

\* A derived correspondence is a matched pair of facts of the input.
LEMMA DerivedMatched ==
  ASSUME ControlInv, FactsInv, pc # "idle", NEW c \in Derived
  PROVE  c \in Matched[input] /\ (OwnFacts[input] => OneSide(c))
<1>1. PICK k \in DOMAIN routes \cap DOMAIN metadata :
        c = Correspondence(routes[k], metadata[k])
  BY DEF Derived
<1>2. Source("route", k, routes[k]) /\ Source("route_metadata", k, metadata[k])
  BY <1>1 DEF FactsInv
<1>3. PICK f \in FactsOf(input) : f.kind = "route" /\ Key(f) = k /\ f.entity = routes[k]
  BY <1>2, SourceFact
<1>4. PICK g \in FactsOf(input) :
        g.kind = "route_metadata" /\ Key(g) = k /\ g.entity = metadata[k]
  BY <1>2, SourceFact
<1>5. <<f, g>> \in Pairs(input)
  <2>1. /\ f.side = g.side /\ Upper(f.method) = Upper(g.method)
        /\ f.path = g.path /\ f.operation = g.operation
    <3>1. Key(f) = Key(g)
      BY <1>3, <1>4
    <3>2. /\ Key(f).side = Key(g).side /\ Key(f).method = Key(g).method
          /\ Key(f).path = Key(g).path /\ Key(f).operation = Key(g).operation
      BY <3>1
    <3>3. QED
      BY <3>2 DEF Key
  <2>2. QED
    BY <1>3, <1>4, <2>1 DEF Pairs
<1>6. c \in Matched[input]
  <2>1. input \in Inputs
    BY Place
  <2>2. c = Correspondence(<<f, g>>[1].entity, <<f, g>>[2].entity)
    BY <1>1, <1>3, <1>4
  <2>3. QED
    BY <1>5, <2>1, <2>2 DEF Matched
<1>7. ASSUME OwnFacts[input] PROVE OneSide(c)
  <2>1. routes[k].side = k.side /\ metadata[k].side = k.side
    BY <1>2, <1>7, SourceFact
  <2>2. c.endpoints = <<routes[k], metadata[k]>>
    BY <1>1 DEF Correspondence
  <2>3. \A n \in ToSet(c.endpoints) : n = routes[k] \/ n = metadata[k]
    BY <2>2 DEF ToSet
  <2>4. QED
    BY <2>1, <2>2, <2>3 DEF OneSide
<1>8. QED
  BY <1>6, <1>7

\* A build that has taken all facts of its input had sound facts, and derived
\* every match.
LEMMA AllTaken ==
  ASSUME ControlInv, FactsInv, pc # "idle", at = Len(input), Gone = Here.facts
  PROVE  Sound[input] /\ Matched[input] \subseteq Derived
<1>1. input \in Inputs /\ at \in Nat /\ DOMAIN input = 1 .. at /\ Here = BundleAt(at)
  BY Place DEF Here, BundleAt
<1>2. \A n \in 1 .. at : \A f \in BundleAt(n).facts : FactValid(BundleAt(n), f) /\ Taken(f)
  BY <1>1 DEF FactsInv
<1>3. \A b \in Bundles(input) : \A f \in b.facts : FactValid(b, f) /\ Taken(f)
  BY <1>1, <1>2 DEF Bundles, BundleAt
<1>4. \A f \in FactsOf(input) : f.kind \in {"route", "route_metadata"} /\ Taken(f)
  BY <1>3 DEF FactsOf, FactValid
<1>5. ASSUME NEW f \in FactsOf(input), NEW g \in FactsOf(input),
             f.kind = g.kind, Key(f) = Key(g)
      PROVE  f.entity = g.entity
  BY <1>4, <1>5 DEF Taken
<1>6. Sound[input]
  BY <1>1, <1>3, <1>5 DEF Sound
<1>7. ASSUME NEW c \in Matched[input] PROVE c \in Derived
  <2>1. PICK p \in Pairs(input) : c = Correspondence(p[1].entity, p[2].entity)
    BY <1>1, <1>7 DEF Matched
  <2>2. /\ p[1] \in FactsOf(input) /\ p[2] \in FactsOf(input)
        /\ p[1].kind = "route" /\ p[2].kind = "route_metadata"
        /\ Key(p[1]) = Key(p[2])
    BY <2>1 DEF Pairs, Key
  <2>3. /\ Key(p[1]) \in DOMAIN routes /\ routes[Key(p[1])] = p[1].entity
        /\ Key(p[1]) \in DOMAIN metadata /\ metadata[Key(p[1])] = p[2].entity
    BY <1>4, <2>2 DEF Taken
  <2>4. QED
    BY <2>1, <2>3 DEF Derived
<1>8. QED
  BY <1>6, <1>7

LEMMA CorrsNext ==
  ASSUME ControlInv, RowsInv, TxInv, FactsInv, CorrsInv, [Next]_vars
  PROVE  CorrsInv'
<1>1. StepCase
  BY StepCases
<1>2. ASSUME NEW i \in Inputs, Begin(i) PROVE CorrsInv'
  BY <1>2 DEF Begin, CorrsInv, Saving, Opened, Reading
<1>3. CASE Stopped
  BY <1>3 DEF Stopped, CorrsInv, Saving, Opened, Reading
<1>4. ASSUME pc \in Reading, pc' \in Reading,
             DOMAIN tables'.corrs = DOMAIN tables.corrs,
             before' = before, input' = input, tried' = tried
      PROVE  CorrsInv'
  BY <1>4 DEF CorrsInv, Saving, Opened, Reading
<1>5. CASE StoreArtifact /\ Here.hash = "hex"
  BY <1>4, <1>5, PlacedRow DEF StoreArtifact, Reading, history
<1>6. ASSUME NEW x \in todo, StoreEntity(x), EntityValid(Here, x) PROVE CorrsInv'
  BY <1>4, <1>6, EntityRow DEF StoreEntity, Reading, history
<1>7. CASE CopyNotes
  BY <1>4, <1>7 DEF CopyNotes, Reading, history
<1>8. ASSUME NEW f \in todo, TakeRoute(f) \/ TakeMetadata(f) PROVE CorrsInv'
  BY <1>4, <1>8 DEF TakeRoute, TakeMetadata, Reading, history
<1>9. CASE NextBundle
  BY <1>4, <1>9 DEF NextBundle, Reading, history
<1>10. CASE Derive
  <2>1. /\ pc = "facts" /\ pc' = "correspondence" /\ todo' = Derived
        /\ tables' = tables /\ before' = before /\ input' = input /\ tried' = tried
        /\ routes' = routes /\ metadata' = metadata
    BY <1>10 DEF Derive, facts, history
  <2>2. Derived' = Derived
    BY <2>1 DEF Derived
  <2>3. QED
    BY <2>1, <2>2 DEF CorrsInv, Saving, Opened, Reading
<1>11. CASE \/ \E c \in todo : StoreHeader(c)
            \/ ClearEndpoints
            \/ StoreEndpoint /\ EndAllowed(tx, corr, Position, corr.endpoints[Position])
            \/ Complete
  <2>1. /\ pc \in Saving /\ todo' = todo /\ pc' \in Saving \cup {"done"}
        /\ pc' = "done" => todo = {}
        /\ tables' = tables /\ before' = before /\ input' = input /\ tried' = tried
        /\ routes' = routes /\ metadata' = metadata
    BY <1>11 DEF StoreHeader, ClearEndpoints, StoreEndpoint, Complete, facts, history,
                 Saving, Opened
  <2>2. Derived' = Derived
    BY <2>1 DEF Derived
  <2>3. QED
    BY <2>1, <2>2 DEF CorrsInv, Saving, Opened, Reading
<1>12. CASE Commit
  <2>1. /\ pc = "commit" /\ pc' = "correspondence" /\ todo' = todo \ {corr}
        /\ before' = before /\ input' = input /\ tried' = tried
        /\ routes' = routes /\ metadata' = metadata
    BY <1>12 DEF Commit, facts, history
  <2>2. Derived' = Derived
    BY <2>1 DEF Derived
  <2>3. DOMAIN tables'.corrs = DOMAIN tables.corrs \cup {corr} /\ corr \in Derived
    BY <1>12, <2>1, CommittedRows DEF CorrsInv, Saving, Opened
  <2>4. corr \in Matched[input] /\ (OwnFacts[input] => OneSide(corr)) /\ input \in tried
    BY <2>1, <2>3, DerivedMatched DEF ControlInv
  <2>5. Sound[input]
    <3>1. at = Len(input) /\ Gone = Here.facts
      BY <2>1 DEF ControlInv, Gone, Saving, Opened
    <3>2. QED
      BY <2>1, <3>1, AllTaken
  <2>6. \A c \in DOMAIN tables'.corrs :
          \E i \in tried : c \in Matched[i] /\ (OwnFacts[i] => OneSide(c))
    BY <2>3, <2>4 DEF CorrsInv
  <2>7. \A c \in (DOMAIN tables'.corrs) \ DOMAIN before.corrs : c \in Matched[input]
    BY <2>3, <2>4 DEF CorrsInv
  <2>8. Derived \ todo' \subseteq DOMAIN tables'.corrs /\ todo' \subseteq Derived
    BY <2>1, <2>3 DEF CorrsInv, Saving, Opened
  <2>9. QED
    BY <2>1, <2>2, <2>3, <2>5, <2>6, <2>7, <2>8 DEF CorrsInv, Saving, Opened, Reading
<1>13. CASE UNCHANGED vars
  <2>1. Derived' = Derived
    BY <1>13 DEF vars, facts, Derived
  <2>2. QED
    BY <1>13, <2>1 DEF vars, facts, history, CorrsInv
<1>14. QED
  BY <1>1, <1>2, <1>3, <1>5, <1>6, <1>7, <1>8, <1>9, <1>10, <1>11, <1>12, <1>13 DEF StepCase

-----------------------------------------------------------------------------
(* The last bundle that has a row.                                          *)

LEMMA LatestKept ==
  ASSUME LatestInv, pc \notin {"idle", "failed"},
         at' = at, input' = input, tried' = tried, Placed' = Placed, Passed' = Passed,
         tables'.artifacts = tables.artifacts, tables'.entities = tables.entities
  PROVE  LatestInv'
<1>1. \A k : BundleAt(k)' = BundleAt(k)
  BY DEF BundleAt
<1>2. \A k, e : Gave(k, e)' <=> Gave(k, e)
  BY <1>1 DEF Gave
<1>3. \A a : ArtifactLatest(a) => ArtifactLatest(a)'
  BY <1>1 DEF ArtifactLatest
<1>4. \A e : EntityLatest(e) => EntityLatest(e)'
  BY <1>1, <1>2 DEF EntityLatest
<1>5. \A n \in 1 .. Placed' : ArtifactLatest(BundleAt(n).artifact)'
  <2>1. \A n \in 1 .. Placed : ArtifactLatest(BundleAt(n).artifact)
    BY DEF LatestInv
  <2>2. QED
    BY <1>1, <1>3, <2>1 DEF ArtifactLatest
<1>6. \A e \in DOMAIN tables'.entities : (\E n \in 1 .. at' : Gave(n, e)') => EntityLatest(e)'
  BY <1>2, <1>4 DEF LatestInv
<1>7. /\ \A a \in DOMAIN tables'.artifacts : \E i \in tried' : \E b \in Bundles(i) : b.artifact = a
      /\ \A e \in DOMAIN tables'.entities :
           \E i \in tried' : \E b \in Bundles(i) : \E x \in b.entities : x.id = e
  BY DEF LatestInv
<1>8. QED
  BY <1>5, <1>6, <1>7 DEF LatestInv

LEMMA PlacedLatest ==
  ASSUME ControlInv, RowsInv, LatestInv, StoreArtifact, Here.hash = "hex"
  PROVE  LatestInv'
<1>1. /\ pc = "artifact" /\ pc' = "entities" /\ todo' = Here.entities
      /\ at' = at /\ input' = input /\ tried' = tried
  BY DEF StoreArtifact, history
<1>2. /\ tables'.entities = tables.entities
      /\ DOMAIN tables'.artifacts = DOMAIN tables.artifacts \cup {Here.artifact}
      /\ tables'.artifacts[Here.artifact] = [side |-> Here.side, language |-> Here.language]
      /\ \A a \in DOMAIN tables.artifacts :
           a # Here.artifact => tables'.artifacts[a] = tables.artifacts[a]
  BY PlacedRow
<1>3. /\ at \in Nat /\ at >= 1 /\ Here = BundleAt(at) /\ \A k : BundleAt(k)' = BundleAt(k)
      /\ Here \in Bundles(input) /\ input \in tried
  BY <1>1, Place DEF Here, BundleAt, Bundles, ControlInv
<1>4. Placed = at - 1 /\ Placed' = at /\ Passed = {} /\ Passed' = {}
  BY <1>1 DEF Placed, Passed, Here, Saving, Opened
<1>5. \A k, e : Gave(k, e)' <=> Gave(k, e)
  BY <1>1, <1>3, <1>4 DEF Gave
<1>6. \A e : EntityLatest(e) => EntityLatest(e)'
  BY <1>1, <1>2, <1>3, <1>5 DEF EntityLatest
<1>7. \A e \in DOMAIN tables'.entities : (\E n \in 1 .. at' : Gave(n, e)') => EntityLatest(e)'
  BY <1>1, <1>2, <1>5, <1>6 DEF LatestInv
<1>8. ASSUME NEW n \in 1 .. at PROVE ArtifactLatest(BundleAt(n).artifact)'
  <2> DEFINE a == BundleAt(n).artifact
  <2>1. a' = a
    BY <1>3
  <2>2. CASE a = Here.artifact
    <3>1. /\ at \in 1 .. Placed' /\ BundleAt(at).artifact = a
          /\ \A m \in 1 .. Placed' : m <= at
      BY <1>3, <1>4, <2>2
    <3>2. /\ a \in DOMAIN tables'.artifacts
          /\ tables'.artifacts[a] =
               [side |-> BundleAt(at).side, language |-> BundleAt(at).language]
      BY <1>2, <1>3, <2>2
    <3> HIDE DEF a
    <3>3. ArtifactLatest(a)'
      BY <1>3, <2>1, <3>1, <3>2 DEF ArtifactLatest
    <3>4. QED
      BY <3>3 DEF a
  <2>3. CASE a # Here.artifact
    <3>1. n \in 1 .. Placed
      BY <1>3, <1>4, <2>3
    <3>2. ArtifactLatest(a)
      BY <1>1, <3>1 DEF LatestInv
    <3>3. PICK k \in 1 .. Placed :
            /\ BundleAt(k).artifact = a
            /\ \A m \in 1 .. Placed : BundleAt(m).artifact = a => m <= k
            /\ tables.artifacts[a] = [side |-> BundleAt(k).side, language |-> BundleAt(k).language]
      BY <3>2 DEF ArtifactLatest
    <3>4. /\ k \in 1 .. Placed'
          /\ \A m \in 1 .. Placed' : BundleAt(m).artifact = a => m <= k
      BY <1>3, <1>4, <2>3, <3>3
    <3>5. a \in DOMAIN tables'.artifacts /\ tables'.artifacts[a] = tables.artifacts[a]
      BY <1>2, <2>3, <3>2 DEF ArtifactLatest
    <3> HIDE DEF a
    <3>6. ArtifactLatest(a)'
      BY <1>3, <2>1, <3>3, <3>4, <3>5 DEF ArtifactLatest
    <3>7. QED
      BY <3>6 DEF a
  <2>4. QED
    BY <2>2, <2>3
<1>9. /\ \A a \in DOMAIN tables'.artifacts : \E i \in tried' : \E b \in Bundles(i) : b.artifact = a
      /\ \A e \in DOMAIN tables'.entities :
           \E i \in tried' : \E b \in Bundles(i) : \E x \in b.entities : x.id = e
  BY <1>1, <1>2, <1>3 DEF LatestInv
<1>10. QED
  BY <1>1, <1>4, <1>7, <1>8, <1>9 DEF LatestInv

LEMMA EntityLatestNext ==
  ASSUME ControlInv, RowsInv, PrefixInv, LatestInv,
         NEW x \in todo, StoreEntity(x), EntityValid(Here, x)
  PROVE  LatestInv'
<1>1. /\ pc = "entities" /\ pc' = pc /\ todo' = todo \ {x}
      /\ at' = at /\ input' = input /\ tried' = tried
  BY DEF StoreEntity, history
<1>2. /\ tables'.artifacts = tables.artifacts
      /\ DOMAIN tables'.entities = DOMAIN tables.entities \cup {x.id}
      /\ tables'.entities[x.id] = Here.artifact
      /\ \A e \in DOMAIN tables.entities : e # x.id => tables'.entities[e] = tables.entities[e]
  BY EntityRow
<1>3. /\ at \in Nat /\ at >= 1 /\ Here = BundleAt(at) /\ \A k : BundleAt(k)' = BundleAt(k)
      /\ Here \in Bundles(input) /\ input \in tried /\ Here' = Here /\ x \in Here.entities
  BY <1>1, Place DEF Here, BundleAt, Bundles, ControlInv, PrefixInv
<1>4. Placed = at /\ Placed' = at /\ Passed' = Passed \cup {x}
  BY <1>1, <1>3 DEF Placed, Passed
<1>5. \A k, e : Gave(k, e)' <=> Gave(k, e) \/ (k = at /\ e = x.id)
  BY <1>1, <1>3, <1>4 DEF Gave
<1>6. \A a : ArtifactLatest(a) => ArtifactLatest(a)'
  BY <1>2, <1>3, <1>4 DEF ArtifactLatest
<1>7. \A n \in 1 .. Placed' : ArtifactLatest(BundleAt(n).artifact)'
  <2> SUFFICES ASSUME NEW n \in 1 .. Placed' PROVE ArtifactLatest(BundleAt(n).artifact)'
    OBVIOUS
  <2>1. PICK a : a = BundleAt(n).artifact
    OBVIOUS
  <2>2. ArtifactLatest(a)
    BY <1>1, <1>3, <1>4, <2>1 DEF LatestInv
  <2>3. ArtifactLatest(a)'
    BY <1>6, <2>2
  <2>4. a = BundleAt(n)'.artifact
    BY <1>3, <1>4, <2>1
  <2>5. QED
    BY <2>3, <2>4 DEF ArtifactLatest
<1>8. ASSUME NEW e \in DOMAIN tables'.entities, NEW n \in 1 .. at, Gave(n, e)'
      PROVE  EntityLatest(e)'
  <2>1. CASE e = x.id
    <3>1. /\ at \in 1 .. at' /\ Gave(at, e)' /\ \A m \in 1 .. at' : m <= at
          /\ tables'.entities[e] = BundleAt(at).artifact
      BY <1>1, <1>2, <1>3, <1>5, <2>1
    <3>2. QED
      BY <1>1, <1>3, <3>1 DEF EntityLatest, Gave
  <2>2. CASE e # x.id
    <3>1. e \in DOMAIN tables.entities /\ Gave(n, e)
      BY <1>2, <1>5, <1>8, <2>2
    <3>2. EntityLatest(e)
      BY <1>1, <3>1 DEF LatestInv
    <3>3. \A k : Gave(k, e)' <=> Gave(k, e)
      BY <1>5, <2>2
    <3>4. tables'.entities[e] = tables.entities[e]
      BY <1>2, <2>2, <3>1
    <3>5. QED
      BY <1>1, <1>3, <3>2, <3>3, <3>4 DEF EntityLatest
  <2>3. QED
    BY <2>1, <2>2
<1>9. /\ \A a \in DOMAIN tables'.artifacts : \E i \in tried' : \E b \in Bundles(i) : b.artifact = a
      /\ \A e \in DOMAIN tables'.entities :
           \E i \in tried' : \E b \in Bundles(i) : \E y \in b.entities : y.id = e
  BY <1>1, <1>2, <1>3 DEF LatestInv
<1>10. \A e \in DOMAIN tables'.entities : (\E n \in 1 .. at' : Gave(n, e)') => EntityLatest(e)'
  BY <1>1, <1>8
<1>11. QED
  BY <1>7, <1>9, <1>10 DEF LatestInv

LEMMA BundleLatest ==
  ASSUME ControlInv, LatestInv, NextBundle
  PROVE  LatestInv'
<1>1. /\ pc = "facts" /\ pc' = "artifact" /\ tables' = tables
      /\ at' = at + 1 /\ input' = input /\ tried' = tried
  BY DEF NextBundle, history
<1>2. /\ at \in Nat /\ at >= 1 /\ Here = BundleAt(at) /\ \A k : BundleAt(k)' = BundleAt(k)
  BY <1>1, Place DEF Here, BundleAt
<1>3. Placed = at /\ Placed' = at /\ Passed = Here.entities /\ Passed' = {}
  BY <1>1, <1>2 DEF Placed, Passed, Saving, Opened
<1>4. \A k, e : Gave(k, e)' <=> Gave(k, e)
  <2>1. \A k, e : Gave(k, e) <=> k \in 1 .. at /\ \E x \in BundleAt(k).entities : x.id = e
    BY <1>2, <1>3 DEF Gave
  <2>2. \A k, e : Gave(k, e)' <=> k \in 1 .. at' - 1 /\ \E x \in BundleAt(k).entities : x.id = e
    BY <1>2, <1>3 DEF Gave
  <2>3. at' - 1 = at
    BY <1>1, <1>2
  <2>4. QED
    BY <2>1, <2>2, <2>3
<1>5. \A k, e : Gave(k, e) => k \in 1 .. at
  BY <1>2, <1>3 DEF Gave
<1>6. \A a : ArtifactLatest(a) => ArtifactLatest(a)'
  BY <1>1, <1>2, <1>3 DEF ArtifactLatest
<1>7. \A n \in 1 .. Placed' : ArtifactLatest(BundleAt(n).artifact)'
  <2> SUFFICES ASSUME NEW n \in 1 .. Placed' PROVE ArtifactLatest(BundleAt(n).artifact)'
    OBVIOUS
  <2>1. PICK a : a = BundleAt(n).artifact
    OBVIOUS
  <2>2. ArtifactLatest(a)
    BY <1>1, <1>2, <1>3, <2>1 DEF LatestInv
  <2>3. ArtifactLatest(a)'
    BY <1>6, <2>2
  <2>4. a = BundleAt(n)'.artifact
    BY <1>2, <1>3, <2>1
  <2>5. QED
    BY <2>3, <2>4 DEF ArtifactLatest
<1>8. \A e : EntityLatest(e) => EntityLatest(e)'
  <2> SUFFICES ASSUME NEW e, EntityLatest(e) PROVE EntityLatest(e)'
    OBVIOUS
  <2>1. PICK k \in 1 .. at :
          /\ Gave(k, e)
          /\ \A m \in 1 .. at : Gave(m, e) => m <= k
          /\ tables.entities[e] = BundleAt(k).artifact
    BY DEF EntityLatest
  <2>2. k \in 1 .. at' /\ \A m \in 1 .. at' : Gave(m, e) => m <= k
    BY <1>1, <1>2, <1>5, <2>1
  <2>3. QED
    BY <1>1, <1>2, <1>4, <2>1, <2>2 DEF EntityLatest
<1>9. \A e \in DOMAIN tables'.entities : (\E n \in 1 .. at' : Gave(n, e)') => EntityLatest(e)'
  BY <1>1, <1>4, <1>5, <1>8 DEF LatestInv
<1>10. QED
  BY <1>1, <1>7, <1>9 DEF LatestInv

LEMMA LatestNext ==
  ASSUME ControlInv, RowsInv, TxInv, PrefixInv, LatestInv, [Next]_vars
  PROVE  LatestInv'
<1>1. StepCase
  BY StepCases
<1>2. ASSUME NEW i \in Inputs, Begin(i) PROVE LatestInv'
  <2>1. /\ at' = 1 /\ pc' = "artifact" /\ tables' = tables /\ tried \subseteq tried'
    BY <1>2 DEF Begin
  <2>2. Placed' = 0 /\ Passed' = {}
    BY <2>1 DEF Placed, Passed, Saving, Opened
  <2>3. \A k, e : ~ Gave(k, e)'
    BY <2>1, <2>2 DEF Gave
  <2>4. 1 .. Placed' = {}
    BY <2>2
  <2>5. QED
    BY <2>1, <2>3, <2>4 DEF LatestInv
<1>3. CASE Stopped
  BY <1>3 DEF Stopped, LatestInv
<1>4. CASE StoreArtifact /\ Here.hash = "hex"
  BY <1>4, PlacedLatest
<1>5. ASSUME NEW x \in todo, StoreEntity(x), EntityValid(Here, x) PROVE LatestInv'
  BY <1>5, EntityLatestNext
<1>6. CASE CopyNotes
  <2>1. /\ pc = "entities" /\ pc' = "facts" /\ todo = {} /\ tables' = tables
        /\ at' = at /\ input' = input /\ tried' = tried
    BY <1>6 DEF CopyNotes, history
  <2>2. Passed' = Passed /\ Placed' = Placed
    BY <2>1 DEF Passed, Placed, Here
  <2>3. QED
    BY <2>1, <2>2, LatestKept
<1>7. ASSUME NEW f \in todo, TakeRoute(f) \/ TakeMetadata(f) PROVE LatestInv'
  <2>1. /\ pc = "facts" /\ pc' = "facts" /\ tables' = tables
        /\ at' = at /\ input' = input /\ tried' = tried
    BY <1>7 DEF TakeRoute, TakeMetadata, history
  <2>2. Passed' = Passed /\ Placed' = Placed
    BY <2>1 DEF Passed, Placed, Here
  <2>3. QED
    BY <2>1, <2>2, LatestKept
<1>8. CASE NextBundle
  BY <1>8, BundleLatest
<1>9. CASE \/ Derive
           \/ \E c \in todo : StoreHeader(c)
           \/ ClearEndpoints
           \/ StoreEndpoint /\ EndAllowed(tx, corr, Position, corr.endpoints[Position])
           \/ Commit
           \/ Complete
  <2>1. /\ pc \in {"facts", "done"} \cup Saving /\ pc' \in {"done"} \cup Saving
        /\ at' = at /\ input' = input /\ tried' = tried
    BY <1>9 DEF Derive, StoreHeader, ClearEndpoints, StoreEndpoint, Commit, Complete,
                Saving, Opened, history
  <2>2. tables'.artifacts = tables.artifacts /\ tables'.entities = tables.entities
    BY <1>9, CommittedRows
       DEF Derive, StoreHeader, ClearEndpoints, StoreEndpoint, Complete
  <2>3. Passed' = Passed /\ Placed' = Placed
    BY <2>1 DEF Passed, Placed, Here, Saving, Opened
  <2>4. pc \notin {"idle", "failed"}
    BY <2>1 DEF Saving, Opened
  <2>5. QED
    BY <2>1, <2>2, <2>3, <2>4, LatestKept
<1>10. CASE UNCHANGED vars
  <2>1. /\ pc' = pc /\ todo' = todo /\ at' = at /\ input' = input /\ tried' = tried
        /\ tables' = tables
    BY <1>10 DEF vars, history
  <2>2. Passed' = Passed /\ Placed' = Placed
    BY <2>1 DEF Passed, Placed, Here
  <2>3. CASE pc \in {"idle", "failed"}
    BY <2>1, <2>3 DEF LatestInv
  <2>4. CASE pc \notin {"idle", "failed"}
    BY <2>1, <2>2, <2>4, LatestKept
  <2>5. QED
    BY <2>3, <2>4
<1>11. QED
  BY <1>1, <1>2, <1>3, <1>4, <1>5, <1>6, <1>7, <1>8, <1>9, <1>10 DEF StepCase

-----------------------------------------------------------------------------
(* The invariant holds.                                                     *)

LEMMA NoRowsShaped ==
  /\ Shaped(NoRows)
  /\ DOMAIN NoRows.artifacts = {} /\ DOMAIN NoRows.entities = {}
  /\ DOMAIN NoRows.corrs = {} /\ DOMAIN NoRows.ends = {}
<1>1. IsTable(<<>>) /\ DOMAIN <<>> = {}
  BY DEF IsTable
<1>2. QED
  BY <1>1 DEF NoRows, Shaped

LEMMA InvInit == Init => Inv
<1> SUFFICES ASSUME Init PROVE Inv
  OBVIOUS
<1>1. /\ pc = "idle" /\ tables = NoRows /\ before = NoRows /\ tx = NoRows
      /\ routes = <<>> /\ metadata = <<>> /\ todo = {}
  BY DEF Init
<1>2. ControlInv
  BY IngestAssumption DEF Init, ControlInv, Phases, Saving, Opened
<1>3. RowsInv
  BY <1>1, NoRowsShaped DEF RowsInv
<1>4. TxInv
  BY <1>1 DEF TxInv, Saving, Opened
<1>5. Passed = {} /\ Gone = {}
  BY <1>1 DEF Passed, Gone, Saving, Opened
<1>6. PrefixInv
  BY <1>1, <1>5 DEF PrefixInv
<1>7. FactsInv
  <2>1. IsTable(<<>>)
    BY DEF IsTable
  <2>2. QED
    BY <1>1, <1>5, <2>1 DEF FactsInv
<1>8. CorrsInv
  BY <1>1, NoRowsShaped DEF CorrsInv, Saving, Opened, Reading
<1>9. LatestInv
  BY <1>1, NoRowsShaped DEF LatestInv
<1>10. QED
  BY <1>2, <1>3, <1>4, <1>6, <1>7, <1>8, <1>9 DEF Inv

LEMMA Invariant == Spec => []Inv
<1>1. Inv /\ [Next]_vars => Inv'
  BY ControlNext, RowsNext, TxNext, PrefixNext, FactsNext, CorrsNext, LatestNext DEF Inv
<1>2. QED
  BY InvInit, <1>1, PTL DEF Spec

-----------------------------------------------------------------------------
(* What a build leaves.                                                     *)

\* The tables' foreign keys hold, a transaction is open exactly while
\* save_correspondence runs its statements, and the builder is where its
\* phase says.
THEOREM TypeCorrect == Spec => []TypeOK
<1>1. Inv => TypeOK
  <2> SUFFICES ASSUME Inv PROVE TypeOK
    OBVIOUS
  <2>1. ASSUME pc \in Opened PROVE tx # NoRows
    <3>1. corr \in DOMAIN tx.corrs
      BY <2>1 DEF Inv, TxInv
    <3>2. QED
      BY <3>1, NoRowsShaped
  <2>2. pc \notin Opened => tx = NoRows
    BY DEF Inv, TxInv
  <2>3. (tx # NoRows) <=> (pc \in Opened)
    BY <2>1, <2>2
  <2>4. (tx # NoRows) <=> (pc \in {"clear", "route_end", "handler_end", "commit"})
    BY <2>3 DEF Opened
  <2>5. pc \in {"idle", "artifact", "entities", "facts", "correspondence", "clear",
               "route_end", "handler_end", "commit", "done", "failed"}
    BY DEF Inv, ControlInv, Phases, Reading, Saving, Opened
  <2>6. QED
    BY <2>4, <2>5 DEF Inv, ControlInv, RowsInv, PrefixInv, TypeOK
<1>2. QED
  BY <1>1, Invariant, PTL

\* store.rs, save_correspondence: whatever statement of its transaction fails
\* and wherever a build is cut, a correspondence in the tables has all of its
\* endpoints, each at its position and each an entity the tables know, and is
\* found from either.
THEOREM StoredWhole == Spec => []CorrespondencesWhole
<1>1. Inv => CorrespondencesWhole
  <2> SUFFICES ASSUME Inv, NEW c \in DOMAIN tables.corrs
               PROVE  /\ WholeCorrespondence(tables, c)
                      /\ \A e \in ToSet(c.endpoints) :
                           e \in DOMAIN tables.entities /\ c \in ForEntity(tables, e)
    BY DEF CorrespondencesWhole
  <2>1. /\ Paired(c)
        /\ DOMAIN tables.ends \subseteq (DOMAIN tables.corrs) \X {1, 2}
        /\ \A k \in {1, 2} : /\ <<c, k>> \in DOMAIN tables.ends
                             /\ tables.ends[<<c, k>>] = c.endpoints[k]
                             /\ c.endpoints[k] \in DOMAIN tables.entities
    BY DEF Inv, RowsInv, EndStored
  <2>2. DOMAIN c.endpoints = {1, 2}
    <3>1. c.endpoints = <<c.endpoints[1], c.endpoints[2]>>
      BY <2>1 DEF Paired, Correspondence
    <3>2. QED
      BY <3>1
  <2>3. EndsOf(tables, c) = {c} \X {1, 2}
    BY <2>1 DEF EndsOf
  <2>4. WholeCorrespondence(tables, c)
    BY <2>1, <2>2, <2>3 DEF WholeCorrespondence
  <2>5. ASSUME NEW k \in {1, 2} PROVE c \in ForEntity(tables, c.endpoints[k])
    <3>1. <<c, k>> \in EndsOf(tables, c) /\ tables.ends[<<c, k>>] = c.endpoints[k]
      BY <2>1, <2>3
    <3>2. QED
      BY <3>1 DEF ForEntity
  <2>6. \A e \in ToSet(c.endpoints) : \E k \in {1, 2} : e = c.endpoints[k]
    BY <2>2 DEF ToSet
  <2>7. QED
    BY <2>1, <2>4, <2>5, <2>6
<1>2. QED
  BY <1>1, Invariant, PTL

\* builder.rs saves row by row without a transaction around the build: a build
\* that fails or dies leaves exactly the entities it found, those of the
\* bundles before the one it stopped at, and some valid ones of that bundle.
THEOREM PrefixLeft == Spec => []FailureLeavesPrefix
<1>1. Inv => FailureLeavesPrefix
  <2> SUFFICES ASSUME Inv, pc # "idle" PROVE FailureLeavesPrefix
    BY DEF FailureLeavesPrefix
  <2>1. PrefixInv
    BY DEF Inv
  <2>2. QED
    BY <2>1 DEF PrefixInv, FailureLeavesPrefix, BundleAt
<1>2. QED
  BY <1>1, Invariant, PTL

\* builder.rs, derive_route_correspondences: a correspondence a build stores
\* pairs a route fact and a metadata fact of one key, every fact of its input
\* was accepted before, and its endpoints are on one side when facts are about
\* the entities of their own bundle.
THEOREM PairsJustified == Spec => []CorrespondencesJustified
<1>1. Inv => CorrespondencesJustified
  <2> SUFFICES ASSUME Inv PROVE CorrespondencesJustified
    OBVIOUS
  <2>1. CorrsInv
    BY DEF Inv
  <2>2. QED
    BY <2>1 DEF CorrsInv, CorrespondencesJustified
<1>2. QED
  BY <1>1, Invariant, PTL

LEMMA LastOf ==
  ASSUME NEW ks \in SUBSET Nat, NEW k \in ks, \A m \in ks : m <= k
  PROVE  Last(ks) = k
<1>1. Last(ks) \in ks /\ \A m \in ks : m <= Last(ks)
  BY DEF Last
<1>2. k <= Last(ks) /\ Last(ks) <= k /\ k \in Nat /\ Last(ks) \in Nat
  BY <1>1
<1>3. QED
  BY <1>2

\* A build that is done, after no other input was tried, has every row of its
\* input, and each from the last bundle that has it.
LEMMA DoneRows ==
  ASSUME Inv, pc = "done", tried = {input}
  PROVE  /\ tables.artifacts = WholeOf(input).artifacts
         /\ tables.entities = WholeOf(input).entities
<1>1. /\ input \in Inputs /\ at \in Nat /\ at >= 1 /\ at = Len(input)
      /\ DOMAIN input = 1 .. at /\ Here = BundleAt(at)
      /\ Shaped(tables) /\ PrefixInv /\ LatestInv
  BY Place DEF Inv, ControlInv, RowsInv, Here, BundleAt
<1>2. Placed = at /\ Passed = BundleAt(at).entities
  BY <1>1 DEF Placed, Passed
<1>3. \A k, e : Gave(k, e) <=> k \in 1 .. at /\ \E x \in BundleAt(k).entities : x.id = e
  BY <1>1, <1>2 DEF Gave
<1>4. /\ Bundles(input) = {BundleAt(k) : k \in 1 .. at}
      /\ \A k : BundleAt(k) = Answers[input[k]]
  BY <1>1 DEF Bundles, BundleAt
<1> DEFINE A == {b.artifact : b \in Bundles(input)}
           E == {x.id : x \in UNION {b.entities : b \in Bundles(input)}}
           Row(a) == LET b == Answers[input[Last({k \in DOMAIN input :
                                                   Answers[input[k]].artifact = a})]]
                     IN  [side |-> b.side, language |-> b.language]
           Owner(e) == Answers[input[Last(Owners(input, e))]].artifact
<1>5. /\ WholeOf(input).artifacts = [a \in A |-> Row(a)]
      /\ WholeOf(input).entities = [e \in E |-> Owner(e)]
  BY DEF WholeOf
<1>6. DOMAIN tables.artifacts = A
  <2>1. \A a \in DOMAIN tables.artifacts : a \in A
    BY <1>1 DEF LatestInv
  <2>2. ASSUME NEW k \in 1 .. at PROVE BundleAt(k).artifact \in DOMAIN tables.artifacts
    BY <1>1, <1>2 DEF LatestInv, ArtifactLatest
  <2>3. QED
    BY <1>4, <2>1, <2>2
<1>7. ASSUME NEW a \in A PROVE tables.artifacts[a] = Row(a)
  <2>1. PICK n \in 1 .. at : BundleAt(n).artifact = a
    BY <1>4
  <2>2. ArtifactLatest(a)
    BY <1>1, <1>2, <2>1 DEF LatestInv
  <2>3. PICK k \in 1 .. at :
          /\ BundleAt(k).artifact = a
          /\ \A m \in 1 .. at : BundleAt(m).artifact = a => m <= k
          /\ tables.artifacts[a] = [side |-> BundleAt(k).side, language |-> BundleAt(k).language]
    BY <1>2, <2>2 DEF ArtifactLatest
  <2> DEFINE ks == {m \in DOMAIN input : Answers[input[m]].artifact = a}
  <2>4. ks \in SUBSET Nat /\ k \in ks /\ \A m \in ks : m <= k
    BY <1>1, <1>4, <2>3
  <2>5. Last(ks) = k
    <3> HIDE DEF ks
    <3>1. QED
      BY <2>4, LastOf
  <2>6. QED
    BY <1>4, <2>3, <2>5
<1>8. DOMAIN tables.entities = E
  <2>1. \A e \in DOMAIN tables.entities : e \in E
    BY <1>1 DEF LatestInv
  <2>2. ASSUME NEW k \in 1 .. at, NEW x \in BundleAt(k).entities
        PROVE  x.id \in DOMAIN tables.entities
    <3>1. CASE k \in 1 .. at - 1
      BY <1>1, <3>1 DEF PrefixInv
    <3>2. CASE k = at
      BY <1>1, <1>2, <3>2 DEF PrefixInv
    <3>3. QED
      BY <1>1, <3>1, <3>2
  <2>3. QED
    BY <1>4, <2>1, <2>2
<1>9. ASSUME NEW e \in E PROVE tables.entities[e] = Owner(e)
  <2>1. PICK n \in 1 .. at : Gave(n, e)
    BY <1>3, <1>4
  <2>2. EntityLatest(e)
    BY <1>1, <1>8, <2>1 DEF LatestInv
  <2>3. PICK k \in 1 .. at :
          /\ Gave(k, e)
          /\ \A m \in 1 .. at : Gave(m, e) => m <= k
          /\ tables.entities[e] = BundleAt(k).artifact
    BY <2>2 DEF EntityLatest
  <2>4. Owners(input, e) = {m \in 1 .. at : Gave(m, e)}
    BY <1>1, <1>3, <1>4 DEF Owners
  <2>5. Last(Owners(input, e)) = k
    <3>1. /\ Owners(input, e) \in SUBSET Nat /\ k \in Owners(input, e)
          /\ \A m \in Owners(input, e) : m <= k
      BY <2>3, <2>4
    <3>2. QED
      BY <3>1, LastOf
  <2>6. QED
    BY <1>4, <2>3, <2>5
<1> HIDE DEF A, E, Row, Owner
<1>10. QED
  BY <1>1, <1>5, <1>6, <1>7, <1>8, <1>9 DEF Shaped, IsTable

LEMMA DoneCorrespondences ==
  ASSUME Inv, pc = "done", tried = {input}
  PROVE  /\ tables.corrs = WholeOf(input).corrs
         /\ tables.ends = WholeOf(input).ends
<1>1. Shaped(tables) /\ RowsInv /\ CorrsInv /\ input \in Inputs
  BY Place DEF Inv, RowsInv
<1>2. DOMAIN tables.corrs = Matched[input]
  <2>1. DOMAIN tables.corrs \subseteq Matched[input]
    BY <1>1 DEF CorrsInv
  <2>2. Matched[input] \subseteq Derived
    <3>1. at = Len(input) /\ Gone = Here.facts
      BY DEF Inv, ControlInv, Gone
    <3>2. QED
      BY <3>1, AllTaken DEF Inv
  <2>3. Derived \subseteq DOMAIN tables.corrs
    BY <1>1 DEF CorrsInv
  <2>4. QED
    BY <2>1, <2>2, <2>3
<1>3. tables.corrs = [c \in Matched[input] |-> "layer4-route-fact-v1"]
  <2>1. tables.corrs = [c \in DOMAIN tables.corrs |-> tables.corrs[c]]
    BY <1>1 DEF Shaped, IsTable
  <2>2. \A c \in DOMAIN tables.corrs : tables.corrs[c] = "layer4-route-fact-v1"
    BY <1>1 DEF RowsInv
  <2>3. QED
    BY <1>2, <2>1, <2>2
<1>4. tables.ends = [x \in Matched[input] \X {1, 2} |-> x[1].endpoints[x[2]]]
  <2>1. tables.ends = [x \in DOMAIN tables.ends |-> tables.ends[x]]
    BY <1>1 DEF Shaped, IsTable
  <2>2. \A c \in Matched[input] : \A k \in {1, 2} :
          <<c, k>> \in DOMAIN tables.ends /\ tables.ends[<<c, k>>] = c.endpoints[k]
    BY <1>1, <1>2 DEF RowsInv, EndStored
  <2>3. DOMAIN tables.ends = Matched[input] \X {1, 2}
    <3>1. DOMAIN tables.ends \subseteq Matched[input] \X {1, 2}
      BY <1>1, <1>2 DEF RowsInv
    <3>2. ASSUME NEW x \in Matched[input] \X {1, 2}
          PROVE  x \in DOMAIN tables.ends
      <4>1. x = <<x[1], x[2]>> /\ x[1] \in Matched[input] /\ x[2] \in {1, 2}
        OBVIOUS
      <4>2. QED
        BY <4>1, <2>2
    <3>3. QED
      BY <3>1, <3>2
  <2>4. \A x \in DOMAIN tables.ends : tables.ends[x] = x[1].endpoints[x[2]]
    <3> SUFFICES ASSUME NEW x \in Matched[input] \X {1, 2}
                 PROVE  tables.ends[x] = x[1].endpoints[x[2]]
      BY <2>3
    <3>1. x = <<x[1], x[2]>> /\ x[1] \in Matched[input] /\ x[2] \in {1, 2}
      OBVIOUS
    <3>2. QED
      BY <3>1, <2>2
  <2>5. QED
    BY <2>1, <2>3, <2>4
<1>5. QED
  BY <1>3, <1>4 DEF WholeOf

\* builder.rs: building is repeatable.  However often a build of one input
\* failed or was cut, and whatever was stored each time, the one that returns
\* Ok leaves exactly the rows of that input, those of a first build.
THEOREM BuildRepeatable == Spec => []RetryConverges
<1>1. Inv => RetryConverges
  <2> SUFFICES ASSUME Inv, pc = "done", tried = {input}
               PROVE  tables = Whole[input]
    BY DEF RetryConverges
  <2>1. input \in Inputs
    BY Place DEF Inv
  <2>2. PICK p, q, r, s :
          tables = [artifacts |-> p, entities |-> q, corrs |-> r, ends |-> s]
    BY DEF Inv, RowsInv, Shaped
  <2>3. PICK a, e, c, x :
          WholeOf(input) = [artifacts |-> a, entities |-> e, corrs |-> c, ends |-> x]
    BY Zenon DEF WholeOf
  <2>4. /\ tables.artifacts = WholeOf(input).artifacts
        /\ tables.entities = WholeOf(input).entities
        /\ tables.corrs = WholeOf(input).corrs
        /\ tables.ends = WholeOf(input).ends
    BY DoneRows, DoneCorrespondences
  <2>5. p = a /\ q = e /\ r = c /\ s = x
    BY <2>2, <2>3, <2>4
  <2>6. tables = WholeOf(input)
    BY <2>2, <2>3, <2>5
  <2>7. QED
    BY <2>1, <2>6 DEF Whole
<1>2. QED
  BY <1>1, Invariant, PTL

-----------------------------------------------------------------------------
(* What the extractors of the tree make.                                    *)

\* A bundle the builder accepts whatever is stored already.
Acceptable(b) ==
  /\ b.hash = "hex"
  /\ \A x \in b.entities : EntityValid(b, x)
  /\ \A f \in b.facts : FactValid(b, f) /\ \E x \in b.entities : x.id = f.entity

LEMMA RoutesAcceptable ==
  ASSUME NEW f, NEW b, b = Bundle(f, ExtractRoutes(f, f.source)), ~ EmptyLiteral(b)
  PROVE  Acceptable(b)
<1> DEFINE id(o) == RouteId(f, o)
           ops == Operations(f.source)
<1>1. /\ b.hash = "hex" /\ b.side = RepoSide(f.path) /\ b.language = f.language
      /\ b.artifact = ArtifactOf(f)
      /\ b.entities = {Extracted(f, id(o)) : o \in ops}
      /\ b.facts = {Fact(f, "route", id(o), Upper(o.method), o.path, o.operation) : o \in ops}
  BY DEF Bundle, ExtractRoutes
<1>2. \A o : /\ id(o).side = RepoSide(f.path) /\ id(o).language = f.language
             /\ id(o).kind = "route"
  BY DEF RouteId, EntityId
<1> HIDE DEF id, ops
<1>3. \A o : /\ Extracted(f, id(o)).id = id(o) /\ Extracted(f, id(o)).kind = "route"
             /\ Extracted(f, id(o)).artifact = ArtifactOf(f)
  BY <1>2 DEF Extracted
<1>4. \A x \in b.entities : EntityValid(b, x)
  BY <1>1, <1>2, <1>3 DEF EntityValid
<1>5. ASSUME NEW g \in b.facts
      PROVE  FactValid(b, g) /\ \E x \in b.entities : x.id = g.entity
  <2>1. PICK o \in ops : g = Fact(f, "route", id(o), Upper(o.method), o.path, o.operation)
    BY <1>1
  <2>2. /\ g.kind = "route" /\ g.side = RepoSide(f.path) /\ g.artifact = ArtifactOf(f)
        /\ g.entity = id(o)
    BY <2>1 DEF Fact
  <2>3. "" \notin {g.method, g.path, g.operation}
    BY DEF EmptyLiteral
  <2>4. FactValid(b, g)
    BY <1>1, <1>2, <2>2, <2>3 DEF FactValid, Subject
  <2>5. Extracted(f, id(o)) \in b.entities
    BY <1>1
  <2>6. QED
    BY <1>3, <2>2, <2>4, <2>5
<1>6. QED
  BY <1>1, <1>4, <1>5 DEF Acceptable

LEMMA MetadataAcceptable ==
  ASSUME NEW f, NEW b, b = Bundle(f, ExtractMetadata(f, f.source)), ~ EmptyLiteral(b)
  PROVE  Acceptable(b)
<1> DEFINE found == {Candidates(f.source)[i] : i \in DOMAIN Candidates(f.source)}
           id(d) == HandlerId(f, d)
<1>1. /\ b.hash = "hex" /\ b.side = RepoSide(f.path) /\ b.language = f.language
      /\ b.artifact = ArtifactOf(f)
      /\ b.entities = {Extracted(f, id(d)) : d \in {r \in found : Literal(r, "handler")}}
      /\ b.facts = {Fact(f, "route_metadata", id(d), Upper(d.method), d.path, d.operationId) :
                      d \in {r \in found : ~ Dynamic(r)}}
  BY DEF Bundle, ExtractMetadata
<1>2. \A d : /\ id(d).side = RepoSide(f.path) /\ id(d).language = f.language
             /\ id(d).kind = "handler"
  BY DEF HandlerId, EntityId
<1> HIDE DEF id, found
<1>3. \A d : /\ Extracted(f, id(d)).id = id(d) /\ Extracted(f, id(d)).kind = "handler"
             /\ Extracted(f, id(d)).artifact = ArtifactOf(f)
  BY <1>2 DEF Extracted
<1>4. \A x \in b.entities : EntityValid(b, x)
  BY <1>1, <1>2, <1>3 DEF EntityValid
<1>5. ASSUME NEW g \in b.facts
      PROVE  FactValid(b, g) /\ \E x \in b.entities : x.id = g.entity
  <2>1. PICK d \in found :
          /\ ~ Dynamic(d)
          /\ g = Fact(f, "route_metadata", id(d), Upper(d.method), d.path, d.operationId)
    BY <1>1
  <2>2. /\ g.kind = "route_metadata" /\ g.side = RepoSide(f.path)
        /\ g.artifact = ArtifactOf(f) /\ g.entity = id(d)
    BY <2>1 DEF Fact
  <2>3. "" \notin {g.method, g.path, g.operation}
    BY DEF EmptyLiteral
  <2>4. FactValid(b, g)
    BY <1>1, <1>2, <2>2, <2>3 DEF FactValid, Subject
  <2>5. Literal(d, "handler")
    BY <2>1 DEF Dynamic, Properties
  <2>6. Extracted(f, id(d)) \in b.entities
    BY <1>1, <2>1, <2>5
  <2>7. QED
    BY <1>3, <2>2, <2>4, <2>6
<1>6. QED
  BY <1>1, <1>4, <1>5 DEF Acceptable

LEMMA InTreeAcceptable ==
  ASSUME NEW b \in InTree, ~ EmptyLiteral(b)
  PROVE  Acceptable(b)
<1>1. PICK p \in Files \X Files :
        b \in {Bundle(p[2], r) :
                 r \in Extraction([language |-> p[1].language, hash |-> p[1].hash], p[2])}
  BY DEF InTree
<1>2. PICK request, f : b \in {Bundle(f, r) : r \in Extraction(request, f)}
  BY <1>1
<1>3. PICK r \in Extraction(request, f) : b = Bundle(f, r)
  BY <1>2
<1>4. r \in ExtractOpenapi(request, f) \cup ExtractTypescript(request, f)
  BY DEF Extraction
<1>5. r = ExtractRoutes(f, f.source) \/ r = ExtractMetadata(f, f.source)
  BY <1>4 DEF ExtractOpenapi, ExtractTypescript
<1>6. QED
  BY <1>3, <1>5, RoutesAcceptable, MetadataAcceptable

-----------------------------------------------------------------------------
(* What the builder makes of them.                                          *)

Refusals == {"output", "fact", "foreign_key"}
Plain == Bundles(input) \subseteq InTree /\ \A b \in Bundles(input) : ~ EmptyLiteral(b)

LEMMA HereAcceptable ==
  ASSUME ControlInv, pc # "idle", Plain
  PROVE  Acceptable(Here) /\ \A n \in 1 .. at : Acceptable(BundleAt(n))
<1>1. \A n \in 1 .. at : BundleAt(n) \in Bundles(input)
  BY Place DEF Bundles, BundleAt
<1>2. Here = BundleAt(at) /\ at \in 1 .. at
  BY Place DEF Here, BundleAt
<1>3. QED
  BY <1>1, <1>2, InTreeAcceptable DEF Plain

\* The endpoints of a derived correspondence are stored when save_correspondence
\* comes to them.
LEMMA EndpointsKnown ==
  ASSUME Inv, Plain, pc \in {"route_end", "handler_end"}
  PROVE  EndAllowed(tx, corr, Position, corr.endpoints[Position])
<1>1. /\ corr \in Derived /\ tx.entities = tables.entities
      /\ pc = "route_end" => <<corr, 1>> \notin DOMAIN tx.ends
      /\ <<corr, 2>> \notin DOMAIN tx.ends
  BY DEF Inv, TxInv, CorrsInv, Saving, Opened
<1>2. PICK k \in DOMAIN routes \cap DOMAIN metadata :
        corr = Correspondence(routes[k], metadata[k])
  BY <1>1 DEF Derived
<1>3. ASSUME NEW kind, NEW e, Source(kind, k, e)
      PROVE  e \in DOMAIN tables.entities
  <2>1. PICK n \in 1 .. at :
          \E f \in BundleAt(n).facts :
            /\ f.entity = e
            /\ \A x \in BundleAt(n).entities : x.id \in DOMAIN tables.entities
    BY <1>3 DEF Source
  <2>2. Acceptable(BundleAt(n))
    BY HereAcceptable DEF Inv
  <2>3. QED
    BY <2>1, <2>2 DEF Acceptable
<1>4. routes[k] \in DOMAIN tables.entities /\ metadata[k] \in DOMAIN tables.entities
  BY <1>2, <1>3 DEF Inv, FactsInv
<1>5. corr.endpoints[1] = routes[k] /\ corr.endpoints[2] = metadata[k]
  BY <1>2, PairOf
<1>6. QED
  BY <1>1, <1>4, <1>5 DEF EndAllowed, Position

LEMMA AcceptedNext ==
  ASSUME Inv, ExtractedAccepted, [Next]_vars
  PROVE  ExtractedAccepted'
<1>1. Plain => reason \notin Refusals
  BY DEF ExtractedAccepted, Plain, Refusals
<1>2. ASSUME input' = input, Plain => reason' \notin Refusals
      PROVE  ExtractedAccepted'
  BY <1>2 DEF ExtractedAccepted, Plain, Refusals
<1>3. ASSUME NEW i \in Inputs, Begin(i) PROVE ExtractedAccepted'
  BY <1>3 DEF Begin, ExtractedAccepted
<1>4. CASE StoreArtifact
  <2>1. pc # "idle" /\ input' = input /\ (Here.hash = "hex" => reason' = reason)
    BY <1>4 DEF StoreArtifact
  <2>2. Plain => Here.hash = "hex"
    BY <2>1, HereAcceptable DEF Inv, Acceptable
  <2>3. QED
    BY <1>1, <1>2, <2>1, <2>2
<1>5. ASSUME NEW x \in todo, StoreEntity(x) PROVE ExtractedAccepted'
  <2>1. pc = "entities" /\ input' = input /\ (EntityValid(Here, x) => reason' = reason)
    BY <1>5 DEF StoreEntity
  <2>2. Plain => EntityValid(Here, x)
    BY <2>1, HereAcceptable DEF Inv, PrefixInv, Acceptable
  <2>3. QED
    BY <1>1, <1>2, <2>1, <2>2
<1>6. ASSUME NEW f \in todo, RefuseFact(f) PROVE ExtractedAccepted'
  <2>1. pc = "facts" /\ input' = input /\ (FactValid(Here, f) => reason' = "conflict")
    BY <1>6 DEF RefuseFact, Stop
  <2>2. Plain => FactValid(Here, f)
    BY <2>1, HereAcceptable DEF Inv, FactsInv, Acceptable
  <2>3. QED
    BY <1>2, <2>1, <2>2 DEF Refusals
<1>7. CASE StoreEndpoint
  <2>1. /\ pc \in {"route_end", "handler_end"} /\ input' = input
        /\ EndAllowed(tx, corr, Position, corr.endpoints[Position]) => reason' = reason
    BY <1>7 DEF StoreEndpoint
  <2>2. Plain => EndAllowed(tx, corr, Position, corr.endpoints[Position])
    BY <2>1, EndpointsKnown
  <2>3. QED
    BY <1>1, <1>2, <2>1, <2>2
<1>8. CASE Cut
  BY <1>2, <1>8 DEF Cut, Stop, Refusals
<1>9. CASE input' = input /\ reason' = reason
  BY <1>1, <1>2, <1>9
<1>10. QED
  BY <1>3, <1>4, <1>5, <1>6, <1>7, <1>8, <1>9
     DEF Next, Build, TakeRoute, TakeMetadata, CopyNotes, NextBundle, Derive, StoreHeader,
         ClearEndpoints, Commit, Complete, Finished, vars

\* builder.rs takes what extractor-openapi and extractor-typescript make of
\* any files, in any order and whatever is stored: no output, no fact and no
\* endpoint of theirs is refused, but for a literal that is empty.
THEOREM ExtractorsAccepted == Spec => []ExtractedAccepted
<1>1. Init => ExtractedAccepted
  BY DEF Init, ExtractedAccepted
<1>2. Inv /\ ExtractedAccepted /\ [Next]_vars => ExtractedAccepted'
  BY AcceptedNext
<1>3. QED
  BY <1>1, <1>2, Invariant, PTL DEF Spec

-----------------------------------------------------------------------------
(* What the extractor's walk through the components of a document computes. *)
(* Induction over the naturals is had as a fact about sets.                 *)

Descending == {p \in Nat \X Nat : p[1] < p[2]}

LEMMA Least ==
  ASSUME NEW T \in SUBSET Nat, T # {}
  PROVE  \E n \in T : \A m \in T : n <= m
<1>1. IsWellFoundedOn(Descending, Nat)
  BY NatLessThanWellFounded DEF OpToRel, Descending
<1>2. T \subseteq Nat
  OBVIOUS
<1>3. \E n \in T : \A m \in T : ~ (<<m, n>> \in Descending)
  <2> HIDE DEF Descending
  <2>1. QED
    BY <1>1, <1>2, WFMin, Zenon
<1>4. PICK n \in T : \A m \in T : ~ (<<m, n>> \in Descending)
  BY <1>3
<1>5. ASSUME NEW m \in T PROVE n <= m
  <2>1. m \in Nat /\ n \in Nat
    OBVIOUS
  <2>2. <<m, n>> \notin Descending
    BY <1>4
  <2>3. ~ (m < n)
    BY <2>1, <2>2 DEF Descending
  <2>4. QED
    BY <2>1, <2>3
<1>6. QED
  BY <1>5

\* A set that has 0, and with a number its successor, has them all.
LEMMA Induct ==
  ASSUME NEW S, 0 \in S, \A n \in Nat : n \in S => n + 1 \in S
  PROVE  Nat \subseteq S
<1> SUFFICES ASSUME Nat \ S # {} PROVE FALSE
  OBVIOUS
<1>1. PICK n \in Nat \ S : \A m \in Nat \ S : n <= m
  BY Least
<1>2. n - 1 \in Nat /\ n - 1 \in S
  BY <1>1
<1>3. QED
  BY <1>1, <1>2

\* One turn of the walk, and how many turns it makes.
Step(doc, refs) == refs \cup UNION {doc.components[r] : r \in refs \cap DOMAIN doc.components}
Depth(doc) == Cardinality(DOMAIN doc.components)

IsWalk(w, doc, first, N) ==
  w = [n \in 0 .. N |-> IF n = 0 THEN first ELSE Step(doc, w[n - 1])]

\* SchemaRefs as the recursive function it is an abbreviation of.
LEMMA Unfold ==
  ASSUME NEW doc, NEW first
  PROVE  SchemaRefs(doc, first) = (CHOOSE w : IsWalk(w, doc, first, Depth(doc)))[Depth(doc)]
BY DEF SchemaRefs, IsWalk, Depth, Step

\* There is a function that meets the recursion: one turn after the other.
LEMMA WalkExists ==
  ASSUME NEW doc, NEW first, NEW N \in Nat
  PROVE  \E w : IsWalk(w, doc, first, N)
<1> DEFINE S == {n \in Nat : \E w : IsWalk(w, doc, first, n)}
<1>1. 0 \in S
  <2>1. IsWalk([n \in 0 .. 0 |-> first], doc, first, 0)
    BY DEF IsWalk
  <2>2. QED
    BY <2>1
<1>2. ASSUME NEW n \in Nat, n \in S PROVE n + 1 \in S
  <2>1. PICK w : IsWalk(w, doc, first, n)
    BY <1>2
  <2> DEFINE v == [k \in 0 .. n + 1 |-> IF k = n + 1 THEN Step(doc, w[n]) ELSE w[k]]
  <2>2. \A k \in 0 .. n : w[k] = IF k = 0 THEN first ELSE Step(doc, w[k - 1])
    BY <2>1 DEF IsWalk
  <2>3. ASSUME NEW k \in 0 .. n + 1
        PROVE  v[k] = IF k = 0 THEN first ELSE Step(doc, v[k - 1])
    <3>1. CASE k = n + 1
      BY <3>1
    <3>2. CASE k # n + 1
      <4>1. k \in 0 .. n /\ (k # 0 => k - 1 \in 0 .. n /\ k - 1 # n + 1 /\ k - 1 \in 0 .. n + 1)
        BY <3>2
      <4>2. v[k] = w[k] /\ (k # 0 => v[k - 1] = w[k - 1])
        BY <4>1
      <4> HIDE DEF v
      <4>3. QED
        BY <4>1, <4>2, <2>2
    <3>3. QED
      BY <3>1, <3>2
  <2>4. v = [k \in 0 .. n + 1 |-> v[k]]
    OBVIOUS
  <2> HIDE DEF v
  <2>5. v = [k \in 0 .. n + 1 |-> IF k = 0 THEN first ELSE Step(doc, v[k - 1])]
    BY <2>3, <2>4
  <2>6. IsWalk(v, doc, first, n + 1)
    BY <2>5 DEF IsWalk
  <2>7. QED
    BY <2>6
<1> HIDE DEF S
<1>3. Nat \subseteq S
  BY <1>1, <1>2, Induct
<1>4. QED
  BY <1>3 DEF S

\* SchemaRefs is the last of the sets that the walk goes through.
LEMMA Walked ==
  ASSUME NEW doc, NEW first, Depth(doc) \in Nat
  PROVE  \E w : /\ SchemaRefs(doc, first) = w[Depth(doc)]
                /\ w[0] = first
                /\ \A n \in 1 .. Depth(doc) : w[n] = Step(doc, w[n - 1])
<1> DEFINE N == Depth(doc)
           w == CHOOSE w : IsWalk(w, doc, first, N)
<1> HIDE DEF N
<1>1. N \in Nat
  BY DEF N
<1>2. IsWalk(w, doc, first, N)
  BY <1>1, WalkExists
<1>3. SchemaRefs(doc, first) = w[N]
  BY Unfold DEF N
<1> HIDE DEF w
<1>4. \A n \in 0 .. N : w[n] = IF n = 0 THEN first ELSE Step(doc, w[n - 1])
  BY <1>2 DEF IsWalk
<1>5. w[0] = first /\ \A n \in 1 .. N : w[n] = Step(doc, w[n - 1])
  BY <1>1, <1>4
<1>6. QED
  BY <1>3, <1>5 DEF N

Closed(doc, refs) == \A d \in refs \cap DOMAIN doc.components : doc.components[d] \subseteq refs

\* The walk ends with the least set that has the first references and is closed
\* under components: as long as it is not closed each turn reaches a component
\* more, of which there are no more than turns.
LEMMA RefsLeastClosed ==
  ASSUME NEW doc, NEW first, IsFiniteSet(DOMAIN doc.components)
  PROVE  /\ first \subseteq SchemaRefs(doc, first)
         /\ Closed(doc, SchemaRefs(doc, first))
         /\ \A S : first \subseteq S /\ Closed(doc, S) => SchemaRefs(doc, first) \subseteq S
<1> DEFINE D == DOMAIN doc.components
           N == Depth(doc)
<1>1. N \in Nat /\ N = Cardinality(D)
  BY FS_CardinalityType DEF Depth
<1>2. PICK w : /\ SchemaRefs(doc, first) = w[N]
               /\ w[0] = first
               /\ \A n \in 1 .. N : w[n] = Step(doc, w[n - 1])
  BY <1>1, Walked
<1> HIDE DEF N
<1> DEFINE Seen(n) == w[n] \cap D
           Good == {n \in Nat : n <= N =>
                      /\ first \subseteq w[n]
                      /\ Closed(doc, w[n]) \/ Cardinality(Seen(n)) > n
                      /\ \A S : first \subseteq S /\ Closed(doc, S) => w[n] \subseteq S}
<1>3. \A n : IsFiniteSet(Seen(n)) /\ Cardinality(Seen(n)) \in Nat /\ Cardinality(Seen(n)) <= N
  BY <1>1, FS_Subset, FS_CardinalityType
<1>4. 0 \in Good
  <2>1. Closed(doc, w[0]) \/ Cardinality(Seen(0)) > 0
    <3>1. CASE Seen(0) = {}
      BY <3>1 DEF Closed
    <3>2. CASE Seen(0) # {}
      <4>1. IsFiniteSet(Seen(0)) /\ Cardinality(Seen(0)) \in Nat
        BY <1>3
      <4> DEFINE A == Seen(0)
      <4> HIDE DEF A
      <4>2. IsFiniteSet(A) /\ Cardinality(A) \in Nat /\ A # {}
        BY <3>2, <4>1 DEF A
      <4>3. Cardinality(A) > 0
        BY <4>2, FS_EmptySet
      <4>4. QED
        BY <4>3 DEF A
    <3>3. QED
      BY <3>1, <3>2
  <2>2. QED
    BY <1>2, <2>1
<1>5. ASSUME NEW n \in Nat, n \in Good PROVE n + 1 \in Good
  <2> SUFFICES ASSUME n + 1 <= N
               PROVE  /\ first \subseteq w[n + 1]
                      /\ Closed(doc, w[n + 1]) \/ Cardinality(Seen(n + 1)) > n + 1
                      /\ \A S : first \subseteq S /\ Closed(doc, S) => w[n + 1] \subseteq S
    OBVIOUS
  <2>1. w[n + 1] = Step(doc, w[n])
    BY <1>1, <1>2
  <2>2. /\ first \subseteq w[n]
        /\ Closed(doc, w[n]) \/ Cardinality(Seen(n)) > n
        /\ \A S : first \subseteq S /\ Closed(doc, S) => w[n] \subseteq S
    BY <1>1, <1>5
  <2>3. w[n] \subseteq w[n + 1]
    BY <2>1 DEF Step
  <2>4. \A S : first \subseteq S /\ Closed(doc, S) => w[n + 1] \subseteq S
    <3> SUFFICES ASSUME NEW S, first \subseteq S, Closed(doc, S)
                 PROVE  w[n + 1] \subseteq S
      OBVIOUS
    <3>1. w[n] \subseteq S
      BY <2>2
    <3>2. QED
      BY <2>1, <3>1 DEF Step, Closed
  <2>5. CASE Seen(n + 1) = Seen(n)
    <3>1. Closed(doc, w[n + 1])
      BY <2>1, <2>5 DEF Step, Closed
    <3>2. QED
      BY <2>2, <2>3, <2>4, <3>1
  <2>6. CASE Seen(n + 1) # Seen(n)
    <3>1. ~ Closed(doc, w[n])
      BY <2>1, <2>6 DEF Step, Closed
    <3>2. Cardinality(Seen(n)) > n
      BY <2>2, <3>1
    <3>3. Cardinality(Seen(n)) < Cardinality(Seen(n + 1))
      <4>1. Seen(n) \subseteq Seen(n + 1)
        BY <2>3
      <4>2. /\ IsFiniteSet(Seen(n + 1))
            /\ Cardinality(Seen(n)) \in Nat /\ Cardinality(Seen(n + 1)) \in Nat
        BY <1>3
      <4> DEFINE A == Seen(n)
                 B == Seen(n + 1)
      <4> HIDE DEF A, B
      <4>3. A \in SUBSET B /\ A # B /\ IsFiniteSet(B) /\ Cardinality(A) \in Nat /\ Cardinality(B) \in Nat
        BY <2>6, <4>1, <4>2 DEF A, B
      <4>4. Cardinality(A) <= Cardinality(B) /\ Cardinality(A) # Cardinality(B)
        BY <4>3, FS_Subset
      <4>5. Cardinality(A) < Cardinality(B)
        BY <4>3, <4>4
      <4>6. QED
        BY <4>5 DEF A, B
    <3>4. Cardinality(Seen(n + 1)) > n + 1
      <4> DEFINE a == Cardinality(Seen(n))
                 b == Cardinality(Seen(n + 1))
      <4>1. a \in Nat /\ b \in Nat
        BY <1>3
      <4>2. a > n /\ a < b
        BY <3>2, <3>3
      <4> HIDE DEF a, b
      <4>3. b > n + 1
        BY <4>1, <4>2
      <4>4. QED
        BY <4>3 DEF b
    <3>5. QED
      BY <2>2, <2>3, <2>4, <3>4
  <2>7. QED
    BY <2>5, <2>6
<1>6. N \in Good
  <2> HIDE DEF Good
  <2>1. Nat \subseteq Good
    BY <1>4, <1>5, Induct
  <2>2. QED
    BY <1>1, <2>1
<1>7. Closed(doc, w[N])
  BY <1>1, <1>3, <1>6
<1>8. QED
  BY <1>1, <1>2, <1>6, <1>7

-----------------------------------------------------------------------------
(* What the extractors leave to others is noted.                            *)

NotesInv ==
  /\ pc \in {"done"} \cup Reading \cup Saving =>
       \A n \in 1 .. at - 1 : BundleAt(n).notes \subseteq notes
  /\ pc \in {"facts", "done"} \cup Saving => Here.notes \subseteq notes

LEMMA NotesNext ==
  ASSUME ControlInv, NotesInv, [Next]_vars
  PROVE  NotesInv'
<1>1. StepCase
  BY StepCases
<1>2. ASSUME NEW i \in Inputs, Begin(i) PROVE NotesInv'
  BY <1>2 DEF Begin, NotesInv, Saving, Opened
<1>3. CASE Stopped
  BY <1>3 DEF Stopped, NotesInv, Reading, Saving, Opened
<1>4. CASE CopyNotes
  BY <1>4 DEF CopyNotes, NotesInv, BundleAt, Here, Reading, Saving, Opened
<1>5. CASE NextBundle
  <2>1. /\ pc = "facts" /\ pc' = "artifact" /\ at' = at + 1
        /\ notes' = notes /\ input' = input
    BY <1>5 DEF NextBundle, facts
  <2>2. \A n \in 1 .. at : BundleAt(n).notes \subseteq notes
    <3>1. \A n \in 1 .. at : n \in 1 .. at - 1 \/ n = at
      BY <2>1, Place
    <3>2. QED
      BY <2>1, <3>1 DEF NotesInv, BundleAt, Here, Reading
  <2>3. at' - 1 = at
    BY <2>1, Place
  <2>4. \A n : BundleAt(n)' = BundleAt(n)
    BY <2>1 DEF BundleAt
  <2>5. QED
    BY <2>1, <2>2, <2>3, <2>4 DEF NotesInv, Saving, Opened
<1>6. CASE /\ notes' = notes /\ input' = input /\ at' = at
           /\ pc \in {"done"} \cup Reading \cup Saving \/ pc' = pc
           /\ pc' \in {"facts", "done"} \cup Saving => pc \in {"facts", "done"} \cup Saving
  BY <1>6 DEF NotesInv, BundleAt, Here
<1>7. QED
  BY <1>1, <1>2, <1>3, <1>4, <1>5, <1>6
  DEF StepCase, StoreArtifact, StoreEntity, TakeRoute, TakeMetadata, Derive, StoreHeader,
      ClearEndpoints, StoreEndpoint, Commit, Complete, facts, vars, Reading, Saving, Opened

LEMMA NotesOfAll ==
  ASSUME ControlInv, NotesInv, pc = "done", NEW b \in Bundles(input)
  PROVE  b.notes \subseteq notes
<1>1. PICK k \in DOMAIN input : b = BundleAt(k)
  BY DEF Bundles, BundleAt
<1>2. k \in 1 .. at - 1 \/ k = at
  BY Place DEF ControlInv
<1>3. QED
  BY <1>1, <1>2 DEF NotesInv, BundleAt, Here

\* What a schema leads to is what the walk visits.
LEMMA WalkLeads ==
  ASSUME NEW doc, NEW first, IsFiniteSet(DOMAIN doc.components)
  PROVE  Leads(doc, first) \subseteq SchemaRefs(doc, first)
<1> DEFINE All == UNION ({first} \cup {doc.components[d] : d \in DOMAIN doc.components})
           S == SchemaRefs(doc, first)
<1>1. first \subseteq All /\ Closed(doc, All)
  BY DEF Closed
<1>2. S \in SUBSET All
  BY <1>1, RefsLeastClosed
<1>3. first \subseteq S /\ \A d \in S \cap DOMAIN doc.components : doc.components[d] \subseteq S
  BY RefsLeastClosed DEF Closed
<1> HIDE DEF S
<1>4. ASSUME NEW r \in Leads(doc, first) PROVE r \in S
  BY <1>2, <1>3 DEF Leads
<1>5. QED
  BY <1>4 DEF S

\* A bundle in the tree of an OpenAPI file, or of one with its bytes, notes
\* the remote references of the file.
LEMMA BundleNotes ==
  ASSUME NEW b \in InTree, NEW f \in Files,
         f.language = "openapi", b.artifact = ArtifactOf(f), b.language = f.language,
         NEW r \in RemoteRefs[f]
  PROVE  [feature |-> "remote_ref", about |-> r] \in b.notes
<1>1. PICK p \in Files \X Files :
        b \in {Bundle(p[2], x) :
                 x \in Extraction([language |-> p[1].language, hash |-> p[1].hash], p[2])}
  BY DEF InTree
<1>2. PICK request, g : g \in Files /\ b \in {Bundle(g, x) : x \in Extraction(request, g)}
  BY <1>1
<1>3. PICK x \in Extraction(request, g) : b = Bundle(g, x)
  BY <1>2
<1>4. b.artifact = ArtifactOf(g) /\ b.language = g.language /\ b.notes = x.notes
  BY <1>3 DEF Bundle
<1>5. g.language = "openapi" /\ g.hash = f.hash
  BY <1>4 DEF ArtifactOf
<1>6. g.source = f.source
  BY <1>2, <1>5, FilesAssumption
<1>7. x = ExtractRoutes(g, g.source)
  BY <1>3, <1>5 DEF Extraction, ExtractOpenapi, ExtractTypescript, Readable
<1>8. b.notes = UNION {{[feature |-> "remote_ref", about |-> s] :
                          s \in SchemaRefs(f.source, o.refs) \ f.source.local} :
                         o \in Operations(f.source)}
  BY <1>4, <1>6, <1>7 DEF ExtractRoutes
<1>9. PICK o \in Operations(f.source) : r \in Leads(f.source, o.refs) \ f.source.local
  BY DEF RemoteRefs
<1>10. r \in SchemaRefs(f.source, o.refs) \ f.source.local
  BY <1>9, WalkLeads, FilesAssumption
<1>11. QED
  BY <1>8, <1>10

\* extractor-openapi, SchemaRefs: whatever a request or response schema leads
\* to, through chains and cycles of components of any length, the walk visits
\* it, and when it is remote the build's notes say so.
THEOREM RemoteRefsDeclared == Spec => []RemoteRefsNoted
<1>1. Init => NotesInv
  BY DEF Init, NotesInv, Reading, Saving, Opened
<1>2. Inv /\ NotesInv /\ [Next]_vars => NotesInv'
  BY NotesNext DEF Inv
<1>3. Inv /\ NotesInv => RemoteRefsNoted
  <2> SUFFICES ASSUME Inv, NotesInv, pc = "done", NEW f \in DOMAIN RemoteRefs,
                      NEW b \in Bundles(input) \cap InTree,
                      b.artifact = ArtifactOf(f), b.language = f.language,
                      NEW r \in RemoteRefs[f]
               PROVE  [feature |-> "remote_ref", about |-> r] \in notes
    BY DEF RemoteRefsNoted
  <2>1. f \in Files /\ f.language = "openapi"
    BY DEF RemoteRefs
  <2>2. [feature |-> "remote_ref", about |-> r] \in b.notes
    BY <2>1, BundleNotes
  <2>3. QED
    BY <2>2, NotesOfAll DEF Inv
<1>4. QED
  BY <1>1, <1>2, <1>3, Invariant, PTL DEF Spec

=============================================================================
