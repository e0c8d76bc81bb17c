------------------------------- MODULE ReplayRun -------------------------------
(***************************************************************************)
(* Sandboxed replay of candidate patches into one run directory:           *)
(* `replay_patch` (crates/polyref-loader/src/replay.rs) with the checkout  *)
(* (checkout.rs) and the manifest writer (manifest.rs) it calls.           *)
(*                                                                         *)
(* The variables are the files of the run directory.  Every write to disk  *)
(* is a step of its own, so a crash needs no action: the disk it leaves is *)
(* the disk of some reachable state.  Any step may also fail with an I/O   *)
(* error, and the caller may replay again into the same directory.         *)
(* Audit lines are whole here; AuditLog says when that is so.              *)
(***************************************************************************)
EXTENDS Naturals, Sequences, SequencesExt

CONSTANTS
  Commits,    \* commits (or snapshot ids) of the source repository
  Patches,    \* candidate patches
  NoPatch,    \* a tree no patch was applied to
  Absent,     \* no such file or directory
  Partial,    \* a file or directory of which only some is written
  MaxReplays  \* bound: calls of replay_patch

ASSUME ReplayAssumption ==
  /\ NoPatch \notin Patches
  /\ Absent # Partial
  /\ {Absent, Partial} \cap (Commits \cup Patches) = {}
  /\ Commits # {} /\ Patches # {}
  /\ MaxReplays \in Nat

Replayed == [commit : Commits, patch : Patches]
Trees == [commit : Commits, patch : Patches \cup {NoPatch}]

ASSUME TreeAssumption == {Absent, Partial} \cap Trees = {}

VARIABLES
  pc,         \* the next step of replay_patch, or "idle"
  plan,       \* the commit and patch of the call under way or made last
  verdict,    \* what the last call returned
  replays,    \* calls made (bounded by MaxReplays)
  old,        \* workspace/old
  new,        \* workspace/new
  patchFile,  \* evidence/candidate.patch
  manifest,   \* manifest.json
  mirror,     \* evidence/manifest.json
  audit       \* the events of audit.ndjson

call == <<pc, plan, verdict, replays>>
workspaces == <<old, new, patchFile>>
manifests == <<manifest, mirror>>
vars == <<call, workspaces, manifests, audit>>

\* What an event's payload_hash is the hash of: a commit or a patch.
Event(tag, of) == [tag |-> tag, of |-> of]
Events == [tag : {"RepoLoaded"}, of : Commits] \cup
          [tag : {"SandboxStarted", "SandboxDenied", "ReplayCompleted"},
           of : Patches]

Steps == {"clearOld", "copyOld", "loaded", "clearNew", "copyNew", "openPatch",
          "writePatch", "started", "sandbox", "denied", "inventory",
          "manifest", "mirror", "completed"}

\* The step `from` is done and `to` comes next.
Goto(from, to) ==
  /\ pc = from
  /\ pc' = to
  /\ UNCHANGED <<plan, verdict, replays>>

Return(from, kind) ==
  /\ pc = from
  /\ pc' = "idle"
  /\ verdict' = kind
  /\ UNCHANGED <<plan, replays>>

Log(event) == audit' = Append(audit, event)

-----------------------------------------------------------------------------
(* replay_patch, step by step.                                             *)

\* The report id matches the run directory; otherwise the call returns an
\* error before it touches the disk (see Fail).
Call ==
  /\ pc = "idle"
  /\ replays < MaxReplays
  /\ replays' = replays + 1
  /\ plan' \in Replayed
  /\ verdict' = "none"
  /\ pc' = "clearOld"
  /\ UNCHANGED <<workspaces, manifests, audit>>

\* checkout_old_workspace: the last replay's checkout is removed ...
ClearOld ==
  /\ Goto("clearOld", "copyOld")
  /\ old' = Partial
  /\ UNCHANGED <<new, patchFile, manifests, audit>>

\* ... and the commit's tree is exported file by file.
CopyOld ==
  /\ Goto("copyOld", "loaded")
  /\ old' = plan.commit
  /\ UNCHANGED <<new, patchFile, manifests, audit>>

Loaded ==
  /\ Goto("loaded", "clearNew")
  /\ Log(Event("RepoLoaded", plan.commit))
  /\ UNCHANGED <<workspaces, manifests>>

\* Seeded fault: an earlier replay's tree is kept and copied over.
ClearNewKept ==
  /\ Goto("clearNew", "copyNew")
  /\ new' = IF new = Absent THEN Partial ELSE new
  /\ UNCHANGED <<old, patchFile, manifests, audit>>

\* prepare_new_workspace, in the same two steps.
ClearNew ==
  /\ Goto("clearNew", "copyNew")
  /\ new' = Partial
  /\ UNCHANGED <<old, patchFile, manifests, audit>>

\* A copy is the whole tree and nothing else only in a directory that was
\* cleared before.
CopyNew ==
  /\ Goto("copyNew", "openPatch")
  /\ new' = IF new = Partial THEN [commit |-> old, patch |-> NoPatch]
            ELSE Partial
  /\ UNCHANGED <<old, patchFile, manifests, audit>>

\* write_patch is fs::write: the file is truncated, then filled.
OpenPatch ==
  /\ Goto("openPatch", "writePatch")
  /\ patchFile' = Partial
  /\ UNCHANGED <<old, new, manifests, audit>>

WritePatch ==
  /\ Goto("writePatch", "started")
  /\ patchFile' = plan.patch
  /\ UNCHANGED <<old, new, manifests, audit>>

\* Seeded fault: the sandbox starts unannounced.
StartUnlogged ==
  /\ Goto("started", "sandbox")
  /\ UNCHANGED <<workspaces, manifests, audit>>

Start ==
  /\ Goto("started", "sandbox")
  /\ Log(Event("SandboxStarted", plan.patch))
  /\ UNCHANGED <<workspaces, manifests>>

\* `git apply` in workspace/new, the only workspace mounted writable.
Applied ==
  /\ Goto("sandbox", "inventory")
  /\ new' = IF new \in [commit : Commits, patch : {NoPatch}]
            THEN [new EXCEPT !.patch = patchFile]
            ELSE Partial
  /\ UNCHANGED <<old, patchFile, manifests, audit>>

\* git apply refused the patch, or the sandbox did not run it to its end: the
\* tree may be untouched, patched or anything in between.
NotApplied ==
  /\ Goto("sandbox", "denied")
  /\ new' \in {new, Partial, plan}
  /\ UNCHANGED <<old, patchFile, manifests, audit>>

\* Seeded fault: only git's own refusal is logged.
DenyUnlogged ==
  /\ Return("denied", "denied")
  /\ \/ Log(Event("SandboxDenied", plan.patch))
     \/ UNCHANGED audit
  /\ UNCHANGED <<workspaces, manifests>>

Deny ==
  /\ Return("denied", "denied")
  /\ Log(Event("SandboxDenied", plan.patch))
  /\ UNCHANGED <<workspaces, manifests>>

\* inventory_tree found no symlink (if it does, that is a Fail).
Inventory ==
  /\ Goto("inventory", "manifest")
  /\ UNCHANGED <<workspaces, manifests, audit>>

\* write_to_report_store: two files, each replaced atomically.
WriteManifest ==
  /\ Goto("manifest", "mirror")
  /\ manifest' = plan
  /\ UNCHANGED <<workspaces, mirror, audit>>

WriteMirror ==
  /\ Goto("mirror", "completed")
  /\ mirror' = plan
  /\ UNCHANGED <<workspaces, manifest, audit>>

Complete ==
  /\ Return("completed", "ok")
  /\ Log(Event("ReplayCompleted", plan.patch))
  /\ UNCHANGED <<workspaces, manifests>>

\* Any step may return early with an error: a mismatched report id, an unsafe
\* path, a git or I/O failure.  Nothing is undone.
Fail ==
  /\ \E step \in Steps : Return(step, "error")
  /\ UNCHANGED <<workspaces, manifests, audit>>

Init ==
  /\ pc = "idle"
  /\ plan \in Replayed
  /\ verdict = "none"
  /\ replays = 0
  /\ old = Absent
  /\ new = Absent
  /\ patchFile = Absent
  /\ manifest = Absent
  /\ mirror = Absent
  /\ audit = <<>>

Finished == pc = "idle" /\ replays = MaxReplays /\ UNCHANGED vars

Next ==
  \/ Call \/ ClearOld \/ CopyOld \/ Loaded \/ ClearNew \/ CopyNew
  \/ OpenPatch \/ WritePatch \/ Start \/ Applied \/ NotApplied \/ Deny
  \/ Inventory \/ WriteManifest \/ WriteMirror \/ Complete \/ Fail
  \/ Finished

Spec == Init /\ [][Next]_vars

-----------------------------------------------------------------------------
TypeOK ==
  /\ pc \in {"idle"} \cup Steps
  /\ plan \in Replayed
  /\ verdict \in {"none", "ok", "denied", "error"}
  /\ replays \in 0 .. MaxReplays
  /\ old \in {Absent, Partial} \cup Commits
  /\ new \in {Absent, Partial} \cup Trees
  /\ patchFile \in {Absent, Partial} \cup Patches
  /\ manifest \in {Absent} \cup Replayed
  /\ mirror \in {Absent} \cup Replayed
  /\ audit \in Seq(Events)

LastIs(event) == audit # <<>> /\ Last(audit) = event

\* A log that ends in ReplayCompleted vouches for the run directory, at every
\* instant and so after every crash: the patched workspace, the patch and both
\* manifests are those of one replay of that very patch.  Not the checkout in
\* workspace/old, which the next replay replaces before it logs anything.
CompletedIsWhole ==
  \A p \in Patches : LastIs(Event("ReplayCompleted", p)) =>
    /\ manifest \in Replayed
    /\ manifest.patch = p
    /\ mirror = manifest
    /\ new = manifest
    /\ patchFile = p

\* The log is replayable: a sandbox outcome directly follows the start of the
\* same patch, which directly follows the load of a repository.
AuditGrammar ==
  \A i \in DOMAIN audit :
    /\ audit[i].tag \in {"SandboxDenied", "ReplayCompleted"} =>
         i > 1 /\ audit[i - 1] = Event("SandboxStarted", audit[i].of)
    /\ audit[i].tag = "SandboxStarted" =>
         i > 1 /\ audit[i - 1].tag = "RepoLoaded"

\* What replay_patch returns is what was done and logged, whatever earlier
\* replays left in the directory: success means that both workspaces and the
\* manifest are those of the plan, a denial that it was logged and that
\* workspace/old still is the checkout.
VerdictBacked ==
  /\ verdict = "ok" =>
       /\ old = plan.commit /\ new = plan /\ manifest = plan
       /\ LastIs(Event("ReplayCompleted", plan.patch))
  /\ verdict = "denied" =>
       /\ old = plan.commit
       /\ LastIs(Event("SandboxDenied", plan.patch))
=============================================================================
