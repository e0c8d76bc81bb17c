--------------------------- MODULE ReplayRunProofs ---------------------------
(***************************************************************************)
(* Theorems about ReplayRun, for every set of commits and patches and any  *)
(* number of replays into one run directory.                               *)
(***************************************************************************)
EXTENDS ReplayRun, TLAPS

CheckedOut == Steps \ {"clearOld", "copyOld"}
Announced == {"clearNew", "copyNew", "openPatch", "writePatch", "started"}
Running == {"sandbox", "denied", "inventory", "manifest", "mirror",
            "completed"}
Patched == {"inventory", "manifest", "mirror", "completed"}

\* What the run directory holds at each step of replay_patch.
DiskFollows ==
  /\ pc \in CheckedOut => old = plan.commit
  /\ pc = "copyNew" => new = Partial
  /\ pc \in {"openPatch", "writePatch", "started", "sandbox"} =>
       new = [commit |-> plan.commit, patch |-> NoPatch]
  /\ pc \in {"started"} \cup Running => patchFile = plan.patch
  /\ pc \in Patched => new = plan
  /\ pc \in {"mirror", "completed"} => manifest = plan
  /\ pc = "completed" => mirror = plan

\* What the audit log ends in at each step.
LogFollows ==
  /\ pc \in Announced => LastIs(Event("RepoLoaded", plan.commit))
  /\ pc \in Running => LastIs(Event("SandboxStarted", plan.patch))

VerdictAtRest == verdict # "none" => pc = "idle"

\* The inductive invariant.
RunInv ==
  /\ TypeOK
  /\ DiskFollows
  /\ LogFollows
  /\ VerdictAtRest
  /\ CompletedIsWhole
  /\ AuditGrammar
  /\ VerdictBacked

-----------------------------------------------------------------------------
LEMMA LastOfAppend ==
  ASSUME NEW S, NEW s \in Seq(S), NEW e \in S
  PROVE  /\ Append(s, e) \in Seq(S)
         /\ Append(s, e) # <<>>
         /\ Last(Append(s, e)) = e
  BY DEF Last

\* A record of Replayed is determined by its fields.
LEMMA PlanRecord ==
  ASSUME NEW r \in Replayed
  PROVE  /\ r.commit \in Commits
         /\ r.patch \in Patches
         /\ r = [commit |-> r.commit, patch |-> r.patch]
  BY DEF Replayed

LEMMA RunInitial == Init => RunInv
  BY ReplayAssumption
  DEF ReplayAssumption, Init, RunInv, TypeOK, DiskFollows, LogFollows,
      VerdictAtRest, CompletedIsWhole, AuditGrammar, VerdictBacked, LastIs,
      Steps, CheckedOut, Announced, Running, Patched

\* The grammar survives an event that may follow the last one.
LEMMA GrammarAppend ==
  ASSUME TypeOK, AuditGrammar,
         NEW e \in Events,
         Log(e),
         e.tag \in {"SandboxDenied", "ReplayCompleted"} =>
           LastIs(Event("SandboxStarted", e.of)),
         e.tag = "SandboxStarted" =>
           audit # <<>> /\ Last(audit).tag = "RepoLoaded"
  PROVE  AuditGrammar'
<1>1. audit \in Seq(Events) /\ audit' = Append(audit, e)
  BY DEF TypeOK, Log
<1>2. /\ Len(audit') = Len(audit) + 1
      /\ audit'[Len(audit) + 1] = e
      /\ \A i \in 1 .. Len(audit) : audit'[i] = audit[i]
      /\ DOMAIN audit' = 1 .. Len(audit) + 1
      /\ DOMAIN audit = 1 .. Len(audit)
      /\ Len(audit) \in Nat
  BY <1>1
<1>3. audit # <<>> => Len(audit) >= 1 /\ Last(audit) = audit[Len(audit)]
  BY <1>1, <1>2 DEF Last
<1> SUFFICES ASSUME NEW i \in DOMAIN audit'
             PROVE
    /\ audit'[i].tag \in {"SandboxDenied", "ReplayCompleted"} =>
         i > 1 /\ audit'[i - 1] = Event("SandboxStarted", audit'[i].of)
    /\ audit'[i].tag = "SandboxStarted" =>
         i > 1 /\ audit'[i - 1].tag = "RepoLoaded"
  BY DEF AuditGrammar
<1>4. CASE i \in 1 .. Len(audit)
  <2>1. audit'[i] = audit[i] /\ i \in DOMAIN audit
    BY <1>2, <1>4
  <2>2. i > 1 => audit'[i - 1] = audit[i - 1]
    BY <1>2, <1>4
  <2> QED
    BY <2>1, <2>2 DEF AuditGrammar
<1>5. CASE i = Len(audit) + 1
  <2>1. audit'[i] = e
    BY <1>2, <1>5
  <2>2. audit # <<>> => i > 1 /\ audit'[i - 1] = Last(audit)
    BY <1>2, <1>3, <1>5
  <2> QED
    BY <2>1, <2>2 DEF LastIs
<1> QED
  BY <1>2, <1>4, <1>5

LEMMA RunStep == RunInv /\ [Next]_vars => RunInv'
<1> SUFFICES ASSUME RunInv, [Next]_vars
             PROVE  RunInv'
  OBVIOUS
<1> USE DEF RunInv
<1>p. /\ plan \in Replayed /\ plan.commit \in Commits /\ plan.patch \in Patches
      /\ plan = [commit |-> plan.commit, patch |-> plan.patch]
  BY PlanRecord DEF TypeOK
<1>e. /\ Event("RepoLoaded", plan.commit) \in Events
      /\ Event("SandboxStarted", plan.patch) \in Events
      /\ Event("SandboxDenied", plan.patch) \in Events
      /\ Event("ReplayCompleted", plan.patch) \in Events
  BY <1>p DEF Event, Events
<1>n. /\ audit \in Seq(Events)
      /\ LastIs(Event("RepoLoaded", plan.commit)) =>
           Last(audit).tag = "RepoLoaded" /\ audit # <<>>
      /\ LastIs(Event("SandboxStarted", plan.patch)) =>
           Last(audit).tag = "SandboxStarted" /\ audit # <<>>
      /\ \A p \in Patches : LastIs(Event("ReplayCompleted", p)) =>
           Last(audit).tag = "ReplayCompleted"
  BY DEF TypeOK, LastIs, Event
\* Steps that only write to the disk.
<1>1. CASE Call
  <2> USE <1>1 DEF Call, workspaces, manifests
  <2>1. TypeOK'
    BY ReplayAssumption DEF ReplayAssumption, TypeOK, Steps
  <2>2. DiskFollows' /\ LogFollows' /\ VerdictAtRest' /\ VerdictBacked'
    BY DEF DiskFollows, LogFollows, VerdictAtRest, VerdictBacked, CheckedOut,
       Announced, Running, Patched
  <2>3. CompletedIsWhole' /\ AuditGrammar'
    BY DEF CompletedIsWhole, AuditGrammar, LastIs
  <2> QED
    BY <2>1, <2>2, <2>3
<1>2. CASE ClearOld
  BY <1>2, <1>p DEF ClearOld, Goto, TypeOK, DiskFollows, LogFollows,
     VerdictAtRest, CompletedIsWhole, AuditGrammar, VerdictBacked, LastIs,
     Steps, CheckedOut, Announced, Running, Patched, manifests
<1>3. CASE CopyOld
  BY <1>3, <1>p DEF CopyOld, Goto, TypeOK, DiskFollows, LogFollows,
     VerdictAtRest, CompletedIsWhole, AuditGrammar, VerdictBacked, LastIs,
     Steps, CheckedOut, Announced, Running, Patched, manifests
<1>4. CASE ClearNew
  BY <1>4, <1>p, <1>n DEF ClearNew, Goto, TypeOK, DiskFollows, LogFollows,
     VerdictAtRest, CompletedIsWhole, AuditGrammar, VerdictBacked, LastIs,
     Steps, CheckedOut, Announced, Running, Patched, manifests
<1>5. CASE CopyNew
  BY <1>5, <1>p, <1>n DEF CopyNew, Goto, TypeOK, DiskFollows, LogFollows,
     VerdictAtRest, CompletedIsWhole, AuditGrammar, VerdictBacked, LastIs,
     Steps, CheckedOut, Announced, Running, Patched, manifests, Trees
<1>6. CASE OpenPatch
  BY <1>6, <1>p, <1>n DEF OpenPatch, Goto, TypeOK, DiskFollows, LogFollows,
     VerdictAtRest, CompletedIsWhole, AuditGrammar, VerdictBacked, LastIs,
     Steps, CheckedOut, Announced, Running, Patched, manifests
<1>7. CASE WritePatch
  BY <1>7, <1>p, <1>n DEF WritePatch, Goto, TypeOK, DiskFollows, LogFollows,
     VerdictAtRest, CompletedIsWhole, AuditGrammar, VerdictBacked, LastIs,
     Steps, CheckedOut, Announced, Running, Patched, manifests
<1>8. CASE Applied
  <2>1. new = [commit |-> plan.commit, patch |-> NoPatch]
        /\ patchFile = plan.patch
    BY <1>8 DEF Applied, Goto, DiskFollows, Running
  <2>2. new' = plan
    BY <1>8, <2>1, <1>p DEF Applied
  <2>3. plan \in Trees
    BY <1>p DEF Replayed, Trees
  <2> QED
    BY <1>8, <2>2, <2>3, <1>p, <1>n DEF Applied, Goto, TypeOK, DiskFollows,
       LogFollows, VerdictAtRest, CompletedIsWhole, AuditGrammar,
       VerdictBacked, LastIs, Steps, CheckedOut, Announced, Running, Patched,
       manifests
<1>9. CASE NotApplied
  <2>1. plan \in Trees
    BY <1>p DEF Replayed, Trees
  <2> QED
    BY <1>9, <2>1, <1>p, <1>n DEF NotApplied, Goto, TypeOK, DiskFollows,
       LogFollows, VerdictAtRest, CompletedIsWhole, AuditGrammar,
       VerdictBacked, LastIs, Steps, CheckedOut, Announced, Running, Patched,
       manifests
<1>10. CASE Inventory
  BY <1>10, <1>p, <1>n DEF Inventory, Goto, TypeOK, DiskFollows, LogFollows,
     VerdictAtRest, CompletedIsWhole, AuditGrammar, VerdictBacked, LastIs,
     Steps, CheckedOut, Announced, Running, Patched, workspaces, manifests
<1>11. CASE WriteManifest
  BY <1>11, <1>p, <1>n DEF WriteManifest, Goto, TypeOK, DiskFollows,
     LogFollows, VerdictAtRest, CompletedIsWhole, AuditGrammar, VerdictBacked,
     LastIs, Steps, CheckedOut, Announced, Running, Patched, workspaces
<1>12. CASE WriteMirror
  BY <1>12, <1>p, <1>n DEF WriteMirror, Goto, TypeOK, DiskFollows, LogFollows,
     VerdictAtRest, CompletedIsWhole, AuditGrammar, VerdictBacked, LastIs,
     Steps, CheckedOut, Announced, Running, Patched, workspaces
<1>13. CASE Fail
  BY <1>13, <1>p DEF Fail, Return, TypeOK, DiskFollows, LogFollows,
     VerdictAtRest, CompletedIsWhole, AuditGrammar, VerdictBacked, LastIs,
     Steps, CheckedOut, Announced, Running, Patched, workspaces, manifests
\* Steps that append to the log.
<1>14. CASE Loaded
  <2>1. /\ audit' \in Seq(Events)
        /\ LastIs(Event("RepoLoaded", plan.commit))'
        /\ \A p \in Patches : ~LastIs(Event("ReplayCompleted", p))'
    BY <1>14, <1>e, <1>n, LastOfAppend DEF Loaded, Log, LastIs, Event, Goto
  <2>2. AuditGrammar'
    BY <1>14, <1>e, GrammarAppend DEF Loaded, Event
  <2> QED
    BY <1>14, <2>1, <2>2, <1>p DEF Loaded, Goto, TypeOK, DiskFollows,
       LogFollows, VerdictAtRest, CompletedIsWhole, VerdictBacked, Steps,
       CheckedOut, Announced, Running, Patched, workspaces, manifests
<1>15. CASE Start
  <2>1. /\ audit' \in Seq(Events)
        /\ LastIs(Event("SandboxStarted", plan.patch))'
        /\ \A p \in Patches : ~LastIs(Event("ReplayCompleted", p))'
    BY <1>15, <1>e, <1>n, LastOfAppend DEF Start, Log, LastIs, Event, Goto
  <2>2. audit # <<>> /\ Last(audit).tag = "RepoLoaded"
    BY <1>15, <1>n DEF Start, Goto, LogFollows, Announced
  <2>3. AuditGrammar'
    BY <1>15, <1>e, <2>2, GrammarAppend DEF Start, Event
  <2> QED
    BY <1>15, <2>1, <2>3, <1>p DEF Start, Goto, TypeOK, DiskFollows,
       LogFollows, VerdictAtRest, CompletedIsWhole, VerdictBacked, Steps,
       CheckedOut, Announced, Running, Patched, workspaces, manifests
<1>16. CASE Deny
  <2>1. /\ audit' \in Seq(Events)
        /\ LastIs(Event("SandboxDenied", plan.patch))'
        /\ \A p \in Patches : ~LastIs(Event("ReplayCompleted", p))'
    BY <1>16, <1>e, <1>n, LastOfAppend DEF Deny, Log, LastIs, Event, Return
  <2>2. LastIs(Event("SandboxStarted", plan.patch))
    BY <1>16 DEF Deny, Return, LogFollows, Running
  <2>3. AuditGrammar'
    BY <1>16, <1>e, <2>2, GrammarAppend DEF Deny, Event
  <2> QED
    BY <1>16, <2>1, <2>3, <1>p DEF Deny, Return, TypeOK, DiskFollows,
       LogFollows, VerdictAtRest, CompletedIsWhole, VerdictBacked, Steps,
       CheckedOut, Announced, Running, Patched, workspaces, manifests
<1>17. CASE Complete
  <2>1. /\ audit' \in Seq(Events)
        /\ LastIs(Event("ReplayCompleted", plan.patch))'
        /\ \A p \in Patches :
             LastIs(Event("ReplayCompleted", p))' => p = plan.patch
    BY <1>17, <1>e, <1>n, LastOfAppend DEF Complete, Log, LastIs, Event, Return
  <2>2. LastIs(Event("SandboxStarted", plan.patch))
    BY <1>17 DEF Complete, Return, LogFollows, Running
  <2>3. AuditGrammar'
    BY <1>17, <1>e, <2>2, GrammarAppend DEF Complete, Event
  <2> QED
    BY <1>17, <2>1, <2>3, <1>p DEF Complete, Return, TypeOK, DiskFollows,
       LogFollows, VerdictAtRest, CompletedIsWhole, VerdictBacked, Steps,
       CheckedOut, Announced, Running, Patched, workspaces, manifests
<1>18. CASE UNCHANGED vars
  BY <1>18 DEF vars, call, workspaces, manifests, TypeOK, DiskFollows,
     LogFollows, VerdictAtRest, CompletedIsWhole, AuditGrammar, VerdictBacked,
     LastIs
<1> QED
  BY <1>1, <1>2, <1>3, <1>4, <1>5, <1>6, <1>7, <1>8, <1>9, <1>10, <1>11,
     <1>12, <1>13, <1>14, <1>15, <1>16, <1>17, <1>18
  DEF Next, Finished

\* The inductive invariant holds in every reachable state.
THEOREM RunInvariant == Spec => []RunInv
  BY RunInitial, RunStep, PTL DEF Spec

\* Every file of the run directory holds one of the values replay_patch writes.
THEOREM ReplayTypeCorrect == Spec => []TypeOK
<1>1. RunInv => TypeOK
  BY DEF RunInv
<1> QED
  BY <1>1, RunInvariant, PTL

\* A log that ends in ReplayCompleted vouches for the workspace, the patch and
\* both manifests, at every instant of any number of replays.
THEOREM CompletionVouches == Spec => []CompletedIsWhole
<1>1. RunInv => CompletedIsWhole
  BY DEF RunInv
<1> QED
  BY <1>1, RunInvariant, PTL

\* The audit log always follows the order load, start, outcome.
THEOREM LogIsReplayable == Spec => []AuditGrammar
<1>1. RunInv => AuditGrammar
  BY DEF RunInv
<1> QED
  BY <1>1, RunInvariant, PTL

\* What replay_patch returns is what is on disk and in the log.
THEOREM VerdictsBacked == Spec => []VerdictBacked
<1>1. RunInv => VerdictBacked
  BY DEF RunInv
<1> QED
  BY <1>1, RunInvariant, PTL
=============================================================================
