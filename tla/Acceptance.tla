------------------------------ MODULE Acceptance ------------------------------
(***************************************************************************)
(* Judging one candidate: the observations are registered                  *)
(* (crates/polyref-graph/src/observation_registry.rs), mu is built, and of *)
(* each observation the frontier, the coverage risks, the obligations and  *)
(* the checkers' verdicts make a row of the report that                    *)
(* `ValidationReport::assemble` (crates/polyref-core/src/report.rs) closes.*)
(*                                                                         *)
(* Every step reads the graph for itself, and a writer saves rows in       *)
(* between.  Which items of the graph the frontier holds is the subject of *)
(* Frontier; here it may be any of them.  The repository has the steps but *)
(* no caller that strings them together (Layer 6): Choose, Conclude and    *)
(* Submit stand for that caller.                                           *)
(***************************************************************************)
EXTENDS MigrationMap, RouteCheck, Coverage

CONSTANTS
  FirstOwner,  \* the entities saved at first, with their artifacts
  FirstCorrs,  \* the correspondences saved at first
  NewOwner, NewCorrs, NewEdges, \* rows that may be saved later
  Edited,      \* edited artifacts
  Batches,     \* sequences of registration specs
  Candidates,  \* sets of rewrite candidates
  Excerpts,    \* what observations say of old and new, with features
  MaxWrites,   \* bound: rows saved while the candidate is judged
  MaxFaults    \* bound: saves of observations that fail

ToSet(s) == {s[i] : i \in DOMAIN s}
Ids(b) == {b[k].id : k \in DOMAIN b}

ASSUME AcceptanceAssumption ==
  /\ \A c \in DOMAIN Endpoints : Endpoints[c] \in Seq(DOMAIN Parsed)
  /\ FirstCorrs \cup NewCorrs \subseteq DOMAIN Endpoints
  /\ NewEdges \cap DOMAIN Endpoints = {}
  /\ \A c \in FirstCorrs : EndsOf(c) \subseteq DOMAIN FirstOwner
  /\ \A b \in Batches : b \in Seq(ToSet(b))
  /\ \A cs \in Candidates : \A c \in cs : c.confidence \in {"concrete", "ambiguous", "missing"}
  /\ MaxWrites \in Nat
  /\ MaxFaults \in Nat

VARIABLES
  corrs, edges, owner, \* rows of the graph; owner gives an entity's artifact
  stored,    \* rows of observations, by id
  pc,        \* the next step
  batch, at, \* the specs of register_observations, and the one it is at
  listed,    \* existing_corrs and existing_edges
  registry,  \* the registry's diagnostics
  mu,        \* the result of build_migration_map
  current,   \* the observation being judged
  excerpt,   \* what is known of old and new: observation excerpt, extractor notes
  frontier,  \* its frontier's items and diagnostics
  risks,     \* its coverage risks
  owed,      \* its obligations
  prechecks, \* its pre-check Unknowns
  rows,      \* rows of the report, by observation
  report,    \* the report, or why there is none
  seen,      \* owner when the frontier was computed (history)
  lost,      \* observations saved by a batch nobody has the result of (history)
  writes, faults \* (history, bounded)

graph == <<corrs, edges, owner>>
registering == <<stored, batch, at, listed, registry, lost>>
judging == <<current, excerpt, frontier, risks, owed, prechecks, seen>>
vars == <<graph, registering, pc, mu, judging, rows, report, writes, faults>>

-----------------------------------------------------------------------------
(* The writer, another task's graph build: no row is ever deleted.         *)

Write ==
  /\ writes < MaxWrites
  /\ writes' = writes + 1
  /\ pc \notin {"submitted", "stopped"}
  /\ UNCHANGED <<registering, pc, mu, judging, rows, report, faults>>

SaveCorr(c) ==
  /\ c \notin corrs
  /\ EndsOf(c) \subseteq DOMAIN owner
  /\ corrs' = corrs \cup {c}
  /\ Write
  /\ UNCHANGED <<edges, owner>>

SaveEdge(e) ==
  /\ e \notin edges
  /\ edges' = edges \cup {e}
  /\ Write
  /\ UNCHANGED <<corrs, owner>>

\* An entity that is saved again is given to the artifact of its new content.
SaveEntity(n) ==
  /\ (n \in DOMAIN owner => owner[n] # NewOwner[n])
  /\ owner' = [x \in DOMAIN owner \cup {n} |-> IF x = n THEN NewOwner[n] ELSE owner[x]]
  /\ Write
  /\ UNCHANGED <<corrs, edges>>

-----------------------------------------------------------------------------
(* register_observations.                                                  *)

ListCorrs ==
  /\ pc = "register"
  /\ listed' = corrs
  /\ at' = 1
  /\ registry' = {}
  /\ pc' = "list edges"
  /\ UNCHANGED <<graph, stored, batch, lost, mu, judging, rows, report, writes, faults>>

ListEdges ==
  /\ pc = "list edges"
  /\ listed' = listed \cup edges
  /\ pc' = "specs"
  /\ UNCHANGED <<graph, stored, batch, at, registry, lost, mu, judging, rows, report,
                 writes, faults>>

Spec1 == batch[at]

\* resolve_support
Repeated(s) == {s[j] : j \in {k \in DOMAIN s : \E i \in 1 .. k - 1 : s[i] = s[k]}}
Resolved(spec) == ToSet(spec.support) \cap listed
Missing(spec) == ToSet(spec.support) \ listed

Diagnose(spec) ==
  {[kind |-> "MissingSupport", about |-> spec.id, item |-> x] : x \in Missing(spec)}
    \cup {[kind |-> "DuplicateSupport", about |-> spec.id, item |-> x] : x \in Repeated(spec.support)}
    \cup {[kind |-> "UnsupportedEvidence", about |-> spec.id, item |-> x] : x \in spec.unsupported}

\* Seeded fault: dropped support leaves the semantics defined.
DefinedAnyway(spec) == spec.unsupported = {}
Defined(spec) == Missing(spec) = {} /\ spec.unsupported = {}

\* build_observation
Row(spec) ==
  [visibility |-> spec.visibility, support |-> Resolved(spec), defined |-> Defined(spec)]

SkipInvalid ==
  /\ pc = "specs"
  /\ at <= Len(batch)
  /\ ~ Spec1.valid
  /\ registry' = registry \cup
       {[kind |-> "InvalidObservationId", about |-> Spec1.id, item |-> "none"]}
  /\ at' = at + 1
  /\ UNCHANGED <<graph, stored, batch, listed, lost, pc, mu, judging, rows, report,
                 writes, faults>>

Register ==
  /\ pc = "specs"
  /\ at <= Len(batch)
  /\ Spec1.valid
  /\ registry' = registry \cup Diagnose(Spec1)
  /\ stored' = [o \in DOMAIN stored \cup {Spec1.id} |->
                  IF o = Spec1.id THEN Row(Spec1) ELSE stored[o]]
  /\ at' = at + 1
  /\ UNCHANGED <<graph, batch, listed, lost, pc, mu, judging, rows, report, writes, faults>>

\* save_observation fails: what was saved stays, the diagnostics are gone.
SaveFails ==
  /\ pc = "specs"
  /\ at <= Len(batch)
  /\ Spec1.valid
  /\ faults < MaxFaults
  /\ faults' = faults + 1
  /\ registry' = {}
  /\ lost' = lost \cup {batch[k].id : k \in {j \in 1 .. at - 1 : batch[j].valid}}
  /\ pc' = "failed"
  /\ UNCHANGED <<graph, stored, batch, at, listed, mu, judging, rows, report, writes>>

Registered ==
  /\ pc = "specs"
  /\ at > Len(batch)
  /\ lost' = lost \ Ids(batch)
  /\ pc' = "mu"
  /\ UNCHANGED <<graph, stored, batch, at, listed, registry, mu, judging, rows, report,
                 writes, faults>>

\* The caller of a failed batch registers it again, or goes on with what was
\* saved before.
Again ==
  /\ pc = "failed"
  /\ pc' = "register"
  /\ UNCHANGED <<graph, registering, mu, judging, rows, report, writes, faults>>

GoOn ==
  /\ pc = "failed"
  /\ pc' = "mu"
  /\ UNCHANGED <<graph, registering, mu, judging, rows, report, writes, faults>>

-----------------------------------------------------------------------------
(* build_migration_map, compute_frontier, classify_coverage_risk and       *)
(* generate_obligations.                                                   *)

BuildMigrationMap(cs, x) ==
  /\ pc = "mu"
  /\ mu' = BuildMap(DOMAIN owner, cs)
  /\ excerpt' = x
  /\ pc' = IF TryNew(mu') THEN "choose" ELSE "stopped"
  /\ UNCHANGED <<graph, registering, current, frontier, risks, owed, prechecks, seen, rows, report,
                 writes, faults>>

\* The caller takes a stored observation that has no row yet.
Choose(o) ==
  /\ pc = "choose"
  /\ o \in DOMAIN stored \ DOMAIN rows
  /\ current' = o
  /\ pc' = "frontier"
  /\ UNCHANGED <<graph, registering, mu, excerpt, frontier, risks, owed, prechecks, seen, rows,
                 report, writes, faults>>

\* `raced` are rows saved while the frontier's lists were read, with an
\* endpoint not in the list before: an edge like that is left out.
ComputeFrontier(items, raced) ==
  /\ pc = "frontier"
  /\ raced \subseteq (corrs \cup edges) \ (FirstCorrs \cup listed)
  /\ items \subseteq corrs \cup (edges \ raced)
  /\ frontier' =
       [items |-> items,
        notes |-> {[kind |-> "MissingSupport", about |-> current, item |-> x] :
                     x \in stored[current].support \ (corrs \cup (edges \ raced))}
                  \cup {[kind |-> "MissingGraphEndpoint", about |-> current, item |-> x] :
                          x \in raced}]
  /\ seen' = owner
  /\ pc' = "risks"
  /\ UNCHANGED <<graph, registering, mu, current, excerpt, risks, owed, prechecks, rows, report,
                 writes, faults>>

ClassifyRisks ==
  /\ pc = "risks"
  /\ risks' = Classify(current, frontier.notes, registry, mu.notes, excerpt.features)
  /\ pc' = "obligations"
  /\ UNCHANGED <<graph, registering, mu, current, excerpt, frontier, owed, prechecks, seen,
                 rows, report, writes, faults>>

Oblige ==
  /\ pc = "obligations"
  /\ owed' = GenerateObligations(corrs, owner, Edited, DOMAIN mu.rewrites,
                                 stored[current].support, frontier.items)
  /\ prechecks' = Prechecks(frontier.notes)
  /\ pc' = "conclude"
  /\ UNCHANGED <<graph, registering, mu, current, excerpt, frontier, risks, seen, rows,
                 report, writes, faults>>

-----------------------------------------------------------------------------
(* The caller: a request per correspondence, and a row per observation.    *)

Request(c) ==
  [contract |-> "route", kind |-> "route", deadline |-> 1, endpoints |-> Endpoints[c],
   features |-> excerpt.features, observation |-> excerpt.observation,
   excerpt |-> [readable |-> TRUE, conflicts |-> mu.conflicts,
                rewrites |-> {[kind |-> KindOf(e), old |-> e, new |-> mu.rewrites[e]] :
                                e \in DOMAIN mu.rewrites}]]

\* The item's verdict: the route checker's, or Unknown when it refuses the
\* request; a build edge has no checker in the repository.
Verdict(item) ==
  IF Base(item) = "build" THEN Unknown("no_accepting_rule_applied")
  ELSE LET answer == HandleCheck(Request(item))
       IN  IF answer.error # {} THEN Unknown("plugin_failure")
           ELSE CHOOSE v \in answer.result : TRUE

\* architecture.md, "Accepted iff": what the status of a row ought to be.
Status(items, blocked) ==
  IF \E v \in items : v.tag = "broken" THEN "broken"
  ELSE IF blocked \/ \E v \in items : ~ Accepting(v) THEN "unknown"
  ELSE "accepted"

\* A caller that is wrong may accept.
Conclude(status) ==
  /\ pc = "conclude"
  /\ LET items == {Verdict(x) : x \in frontier.items}
     IN  rows' = [o \in DOMAIN rows \cup {current} |->
                    IF o # current THEN rows[o]
                    ELSE [visibility |-> stored[current].visibility, items |-> items,
                          risks |-> risks, status |-> status,
                          right |-> status = Status(items, risks # {})]]
  /\ pc' = "choose"
  /\ UNCHANGED <<graph, registering, mu, judging, report, writes, faults>>

-----------------------------------------------------------------------------
(* ValidationReport::assemble.                                             *)

Visible(rs) == {o \in DOMAIN rs : rs[o].visibility = "visible"}

\* Seeded fault: an unknown observation does not count.
DecisionLax(rs) ==
  IF \E o \in Visible(rs) : rs[o].status = "broken" THEN "broken" ELSE "accepted"
Decision(rs) ==
  IF \E o \in Visible(rs) : rs[o].status = "broken" THEN "broken"
  ELSE IF \E o \in Visible(rs) : rs[o].status = "unknown" THEN "unknown"
  ELSE "accepted"

\* Seeded fault: the items of a row are not looked at.
ViolationUnchecked(rs, missing) ==
  IF Decision(rs) = "accepted" /\ missing THEN {"MissingEndpointUnknownInAccepted"} ELSE {}
Violation(rs, missing) ==
  IF Decision(rs) = "accepted" /\ missing THEN {"MissingEndpointUnknownInAccepted"}
  ELSE IF \E o \in DOMAIN rs : rs[o].status = "accepted" /\ \E v \in rs[o].items : ~ Accepting(v)
  THEN {"NonAcceptingItemInAcceptedObservation"}
  ELSE {}

Submit(missing) ==
  /\ pc = "choose"
  /\ DOMAIN rows = DOMAIN stored
  /\ missing \in BOOLEAN
  /\ report' = [decision |-> IF Violation(rows, missing) = {} THEN Decision(rows) ELSE "none",
                missing |-> missing, refused |-> Violation(rows, missing)]
  /\ pc' = "submitted"
  /\ UNCHANGED <<graph, registering, mu, judging, rows, writes, faults>>

-----------------------------------------------------------------------------
Init ==
  /\ corrs = FirstCorrs
  /\ edges = {}
  /\ owner = FirstOwner
  /\ stored = <<>>
  /\ pc = "register"
  /\ batch \in Batches
  /\ at = 1
  /\ listed = {}
  /\ registry = {}
  /\ lost = {}
  /\ mu = BuildMap({}, {})
  /\ current = "none"
  /\ excerpt = "none"
  /\ frontier = [items |-> {}, notes |-> {}]
  /\ risks = {}
  /\ owed = {}
  /\ prechecks = {}
  /\ seen = FirstOwner
  /\ rows = <<>>
  /\ report = "none"
  /\ writes = 0
  /\ faults = 0

Writer ==
  \/ \E c \in NewCorrs : SaveCorr(c)
  \/ \E e \in NewEdges : SaveEdge(e)
  \/ \E n \in DOMAIN NewOwner : SaveEntity(n)

Registry ==
  \/ ListCorrs \/ ListEdges \/ SkipInvalid \/ Register \/ SaveFails \/ Registered
  \/ Again \/ GoOn

Judge ==
  \/ \E cs \in Candidates, x \in Excerpts : BuildMigrationMap(cs, x)
  \/ \E o \in DOMAIN stored : Choose(o)
  \/ \E items, raced \in SUBSET (corrs \cup edges) : ComputeFrontier(items, raced)
  \/ ClassifyRisks \/ Oblige
  \/ \E status \in {"accepted", "broken", "unknown"} : Conclude(status)
  \/ \E missing \in BOOLEAN : Submit(missing)

Finished == pc = "submitted" /\ UNCHANGED vars

Next == Writer \/ Registry \/ Judge \/ Finished

Spec == Init /\ [][Next]_vars

-----------------------------------------------------------------------------
TypeOK ==
  /\ corrs \subseteq FirstCorrs \cup NewCorrs
  /\ edges \subseteq NewEdges
  /\ \A c \in corrs : EndsOf(c) \subseteq DOMAIN owner
  /\ batch \in Batches
  /\ at \in 1 .. Len(batch) + 1
  /\ listed \subseteq corrs \cup edges
  /\ DOMAIN rows \subseteq DOMAIN stored /\ lost \subseteq DOMAIN stored
  /\ DOMAIN stored \subseteq Ids(batch)
  /\ pc \in {"register", "list edges", "specs", "failed", "mu", "choose", "frontier", "risks",
             "obligations", "conclude", "submitted"}
  /\ writes \in 0 .. MaxWrites
  /\ faults \in 0 .. MaxFaults

\* observation_registry.rs: an observation is stored with support that exists,
\* and as defined only when nothing that was declared for it was dropped, also
\* when rows are saved between the two lists or the batch fails half way.
SupportKnown ==
  \A o \in DOMAIN stored :
    /\ stored[o].support \subseteq corrs \cup edges
    /\ \E k \in DOMAIN batch :
         /\ batch[k].id = o
         /\ stored[o].defined =>
              batch[k].unsupported = {} /\ stored[o].support = ToSet(batch[k].support)

\* ObsHeader::defined_semantics: nothing reads the flag, so an observation
\* stored as undefined must be blocked by its diagnostics, which it is unless
\* they were lost with a batch that failed.
Judged == pc \in {"obligations", "conclude"}
UndefinedBlocked ==
  Judged /\ ~ stored[current].defined /\ current \notin lost => risks # {}

\* migration_map.rs: mu takes an old entity to a target that is the only one
\* anybody proposed, without doubt, of the other side and the same kind; any
\* other proposal leaves a coverage risk, or a conflict or kind mismatch.
Proposed(old) == {c.new : c \in Group(mu.asked, old)} \ {"none"}
Undoubted(old) ==
  /\ \A c \in Group(mu.asked, old) : c.confidence = "concrete"
  /\ \A t \in Proposed(old) : t \in DOMAIN owner /\ SideOf(t) = "new" /\ KindOf(t) = KindOf(old)
  /\ \E t \in Proposed(old) : Proposed(old) = {t}
MapJustified ==
  /\ \A old \in DOMAIN mu.rewrites :
       /\ old \in DOMAIN owner /\ SideOf(old) = "old"
       /\ Undoubted(old) /\ mu.rewrites[old] \in Proposed(old)
  /\ Judged =>
       \A old \in Olds(mu.asked) \ DOMAIN mu.rewrites :
         \/ \E r \in risks : r.source = "migration_map" /\ r.item = old
         \/ \E n \in mu.notes : n.old = old /\ n.kind \in {"MigrationMapConflict", "KindMismatch"}

\* The route checker says Migrated only of a correspondence both ends of which
\* have an undoubted target in the graph, and of no candidate with a conflict.
\* (Of its Pres no such thing holds: it comes from the observation alone.)
MigratedJustified ==
  pc = "conclude" =>
    \A x \in frontier.items :
      Verdict(x) = Migrated =>
        /\ mu.conflicts = {}
        /\ \A e \in EndsOf(x) : e \in Olds(mu.asked) /\ Undoubted(e)

\* obligation.rs: every item of the frontier, and no other, owes what its class
\* owes, though the rows are read again after the frontier was computed; that
\* an endpoint was edited is seen unless its entity moved in between.
ObligationsCover ==
  pc = "conclude" =>
    /\ {o.item : o \in owed} = frontier.items
    /\ \A x \in frontier.items : Obligation(x, Base(x)) \in owed
    /\ \A x \in frontier.items \cap stored[current].support : Obligation(x, "support") \in owed
    /\ \A x \in {y \in frontier.items : Base(y) = "correspondence"} : \A e \in EndsOf(x) :
         /\ e \in DOMAIN mu.rewrites => Obligation(x, "migration") \in owed
         /\ seen[e] \in Edited /\ owner[e] = seen[e] => Obligation(x, "local") \in owed

\* ADR-006, accepted_implies_no_missing_endpoint_unknown: whatever statuses and
\* flag the caller gives, a report that is accepted has only accepted visible
\* rows, no accepted row with an item that is not, and no missing endpoint.
ReportFailsClosed ==
  pc = "submitted" /\ report.decision = "accepted" =>
    /\ ~ report.missing
    /\ \A o \in Visible(rows) : rows[o].status = "accepted"
    /\ \A o \in DOMAIN rows :
         rows[o].status = "accepted" => \A v \in rows[o].items : Accepting(v)

\* overview.md, the decision rule: with a caller that gives right statuses, an
\* accepted candidate has every visible observation defined, free of risks and
\* with accepting verdicts only; but for observations whose batch failed.
AcceptedMeansCovered ==
  /\ pc = "submitted" /\ report.decision = "accepted"
  /\ \A o \in Visible(rows) : rows[o].right
  => \A o \in Visible(rows) :
       /\ stored[o].defined \/ o \in lost
       /\ rows[o].risks = {}
       /\ \A v \in rows[o].items : Accepting(v)
=============================================================================
