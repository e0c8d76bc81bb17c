------------------------------- MODULE Coverage -------------------------------
(***************************************************************************)
(* What is left to show, and what cannot be shown, about one observation's *)
(* frontier: `classify_coverage_risk` (crates/polyref-frontier/src/        *)
(* coverage_risk.rs) and `generate_obligations` (crates/polyref-engine/    *)
(* src/obligation.rs), over the diagnostics of the steps before.           *)
(*                                                                         *)
(* A diagnostic is a record of kind, about (an observation, where it names *)
(* one) and item.                                                          *)
(***************************************************************************)
EXTENDS Ids

\* is_dynamic_feature and classify_unsupported_feature, on the tags in use.
IsDynamic(tag) == tag \in {"dynamic_route", "dynamic_string", "dynamic"}
FeatureReason(tag) ==
  IF IsDynamic(tag) THEN "dynamic_string"
  ELSE IF tag = "framework" THEN "unsupported_framework"
  ELSE "unsupported_extractor"

Risk(reason, source, item) == [reason |-> reason, source |-> source, item |-> item]

\* The kinds that make a risk; the others are for the checkers to find, and
\* make none here.
FrontierRisks(notes) ==
  {Risk("missing_endpoint", "frontier", n.item) :
     n \in {m \in notes : m.kind \in {"MissingSupport", "MissingGraphEndpoint"}}}

\* Seeded fault: only a missing support ref is a risk.
RegistryRisksMissing(o, notes) ==
  {Risk("missing_endpoint", "registry", n.item) :
     n \in {m \in notes : m.about = o /\ m.kind = "MissingSupport"}}
RegistryRisks(o, notes) ==
  {Risk(IF n.kind = "MissingSupport" THEN "missing_endpoint"
        ELSE IF IsDynamic(n.item) THEN "dynamic_string"
        ELSE "observation_rewrite_undefined", "registry", n.item) :
     n \in {m \in notes : m.about = o /\ m.kind \in {"MissingSupport", "UnsupportedEvidence"}}}

\* MigrationMapConflict and KindMismatch are left out.
MigrationRisks(notes) ==
  {Risk(IF n.kind = "MigrationMapAmbiguous" THEN "migration_map_ambiguous"
        ELSE "missing_endpoint", "migration_map", n.old) :
     n \in {m \in notes : m.kind \in {"MigrationMapAmbiguous", "MissingEndpoint"}}}

ExtractorRisks(features) == {Risk(FeatureReason(f), "extractor", f) : f \in features}

\* classify_coverage_risk: only the registry's diagnostics are sifted by the
\* observation they are about.
Classify(o, frontier, registry, migration, features) ==
  FrontierRisks(frontier) \cup RegistryRisks(o, registry)
    \cup MigrationRisks(migration) \cup ExtractorRisks(features)

-----------------------------------------------------------------------------
Obligation(item, kind) == [item |-> item, kind |-> kind]

\* GraphIndex::load: entities by the artifact that owns them.
InEdited(owner, edited, e) == e \in DOMAIN owner /\ owner[e] \in edited

\* generate_obligations.  `owner` and `corrs` are the rows as they are now,
\* `items` the frontier's.
Base(item) == IF IsCorrespondence(item) THEN "correspondence" ELSE "build"
Ends(corrs, item) == IF item \in corrs THEN EndsOf(item) ELSE {}

\* Seeded fault: an item that migrates owes nothing else.
GenerateObligationsInstead(corrs, owner, edited, rewritten, support, items) ==
  {Obligation(x, IF Ends(corrs, x) \cap rewritten # {} THEN "migration" ELSE Base(x)) :
     x \in items}
    \cup {Obligation(x, "support") : x \in items \cap support}

GenerateObligations(corrs, owner, edited, rewritten, support, items) ==
  {Obligation(x, Base(x)) : x \in items}
    \cup {Obligation(x, "migration") :
            x \in {y \in items : Ends(corrs, y) \cap rewritten # {}}}
    \cup {Obligation(x, "local") :
            x \in {y \in items : \E e \in Ends(corrs, y) : InEdited(owner, edited, e)}}
    \cup {Obligation(x, "support") : x \in items \cap support}

\* precheck_unknowns: every diagnostic of the frontier.
Prechecks(notes) == {n.item : n \in notes}
=============================================================================
