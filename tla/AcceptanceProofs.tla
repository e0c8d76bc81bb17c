--------------------------- MODULE AcceptanceProofs ---------------------------
(***************************************************************************)
(* Proofs about Acceptance, for any graph, batch, candidates, excerpts,    *)
(* interleaving with the writer and number of failures.                    *)
(***************************************************************************)
EXTENDS Acceptance, TLAPS

-----------------------------------------------------------------------------
(* mu.                                                                     *)

\* A group without diagnostics has one target, proposed without doubt, and the
\* target is a known entity of the new side and of the same kind.
LEMMA AcceptedGroup ==
  ASSUME NEW known, NEW cs, NEW old,
         GroupKinds(known, old, Group(cs, old)) = {}
  PROVE  /\ old \in known /\ SideOf(old) = "old"
         /\ \A c \in Group(cs, old) : c.confidence = "concrete"
         /\ \E t \in ConcreteTargets(Group(cs, old)) :
              /\ ConcreteTargets(Group(cs, old)) = {t}
              /\ t \in known /\ SideOf(t) = "new" /\ KindOf(t) = KindOf(old)
<1> DEFINE group == Group(cs, old)
           targets == ConcreteTargets(group)
           t == CHOOSE x \in targets : TRUE
<1>1. NonConcrete(group) = {} /\ old \in known /\ targets # {}
  BY DEF GroupKinds
<1>2. \A x, y \in targets : x = y
  BY <1>1 DEF GroupKinds
<1>3. Obstacle(known, old, t) = {}
  BY <1>1, <1>2 DEF GroupKinds
<1>4. t \in known /\ SideOf(old) = "old" /\ SideOf(t) = "new" /\ KindOf(old) = KindOf(t)
  BY <1>3 DEF Obstacle
<1>5. t \in targets
  BY <1>1
<1>6. targets = {t}
  BY <1>2, <1>5
<1>7. \A c \in group : c.confidence = "concrete"
  BY <1>1 DEF NonConcrete
<1> QED
  BY <1>1, <1>4, <1>5, <1>6, <1>7

\* What mu maps it maps to that target: try_new has nothing to refuse.
LEMMA Built ==
  ASSUME NEW known, NEW cs, NEW m, m = BuildMap(known, cs)
  PROVE  /\ m.asked = cs
         /\ \A old \in DOMAIN m.rewrites :
              /\ old \in known /\ SideOf(old) = "old"
              /\ \A c \in Group(cs, old) : c.confidence = "concrete"
              /\ ConcreteTargets(Group(cs, old)) = {m.rewrites[old]}
              /\ m.rewrites[old] \in known
              /\ SideOf(m.rewrites[old]) = "new" /\ KindOf(m.rewrites[old]) = KindOf(old)
         /\ TryNew(m)
<1>1. m.asked = cs
  BY DEF BuildMap
<1>2. m.rewrites = [old \in Accepted(known, cs) |->
                      CHOOSE t \in ConcreteTargets(Group(cs, old)) : TRUE]
  BY DEF BuildMap
<1>3. ASSUME NEW old \in DOMAIN m.rewrites
      PROVE  /\ old \in known /\ SideOf(old) = "old"
             /\ \A c \in Group(cs, old) : c.confidence = "concrete"
             /\ ConcreteTargets(Group(cs, old)) = {m.rewrites[old]}
             /\ m.rewrites[old] \in known
             /\ SideOf(m.rewrites[old]) = "new" /\ KindOf(m.rewrites[old]) = KindOf(old)
  <2>1. old \in Accepted(known, cs)
    BY <1>2
  <2>2. GroupKinds(known, old, Group(cs, old)) = {}
    BY <2>1 DEF Accepted
  <2>3. m.rewrites[old] = CHOOSE t \in ConcreteTargets(Group(cs, old)) : TRUE
    BY <1>2, <2>1
  <2> QED
    BY <2>2, <2>3, AcceptedGroup
<1>4. TryNew(m)
  BY <1>3 DEF TryNew
<1> QED
  BY <1>1, <1>3, <1>4

\* An old entity that mu leaves out has a note of one of the four kinds.
Kinds == {"MigrationMapAmbiguous", "MissingEndpoint", "MigrationMapConflict", "KindMismatch"}

LEMMA Left ==
  ASSUME NEW known, NEW cs, NEW m, m = BuildMap(known, cs),
         \A c \in cs : c.confidence \in {"concrete", "ambiguous", "missing"},
         NEW old \in Olds(cs) \ DOMAIN m.rewrites
  PROVE  \E n \in m.notes : n.old = old /\ n.kind \in Kinds
<1> DEFINE group == Group(cs, old)
<1>1. old \notin Accepted(known, cs)
  BY DEF BuildMap
<1>2. PICK k : k \in GroupKinds(known, old, group)
  BY <1>1 DEF Accepted
<1>3. NonConcrete(group) \subseteq {"MigrationMapAmbiguous", "MissingEndpoint"}
  BY DEF NonConcrete, Group
<1>4. \A t : Obstacle(known, old, t) \subseteq Kinds
  BY DEF Obstacle, Kinds
<1>5. k \in Kinds
  BY <1>2, <1>3, <1>4 DEF GroupKinds, Kinds
<1>6. Note(k, old, ConcreteTargets(group)) \in m.notes
  BY <1>2 DEF BuildMap
<1> QED
  BY <1>5, <1>6 DEF Note

-----------------------------------------------------------------------------
(* Types.                                                                  *)

Valids == {batch[k].id : k \in {j \in DOMAIN batch : batch[j].valid}}
Passed == {batch[k].id : k \in {j \in 1 .. at - 1 : batch[j].valid}}

\* What is stored was valid, and is the running batch's or is lost.
StoredKnown ==
  /\ DOMAIN stored \subseteq Valids
  /\ pc \in {"register", "list edges", "failed"} => DOMAIN stored \subseteq lost
  /\ pc = "list edges" => at = 1
  /\ pc = "specs" => Passed \subseteq DOMAIN stored /\ DOMAIN stored \subseteq lost \cup Passed
CurrentStored ==
  pc \in {"frontier", "risks", "obligations", "conclude"} => current \in DOMAIN stored
IType == TypeOK /\ StoredKnown /\ CurrentStored

LEMMA BatchSeq ==
  ASSUME batch \in Batches
  PROVE  Len(batch) \in Nat /\ DOMAIN batch = 1 .. Len(batch)
BY AcceptanceAssumption

LEMMA TypeInit == Init => IType
<1> SUFFICES ASSUME Init PROVE IType
  OBVIOUS
<1>1. Len(batch) \in Nat
  BY BatchSeq DEF Init
<1>2. DOMAIN stored = {} /\ DOMAIN rows = {} /\ lost = {} /\ listed = {}
  BY DEF Init
<1>3. TypeOK
  BY <1>1, <1>2, AcceptanceAssumption DEF Init, TypeOK
<1>4. StoredKnown /\ CurrentStored
  BY <1>2 DEF Init, StoredKnown, CurrentStored
<1> QED
  BY <1>3, <1>4 DEF IType

\* The writer.
LEMMA TypeWriter ==
  ASSUME IType, Writer PROVE IType'
<1>0. Len(batch) \in Nat /\ DOMAIN batch = 1 .. Len(batch)
  BY BatchSeq DEF IType, TypeOK
<1>1. /\ writes < MaxWrites /\ writes' = writes + 1 /\ pc \notin {"submitted", "stopped"}
      /\ UNCHANGED <<registering, pc, mu, judging, rows, report, faults>>
  BY DEF Writer, SaveCorr, SaveEdge, SaveEntity, Write
<1>2. /\ corrs \subseteq corrs' /\ edges \subseteq edges'
      /\ corrs' \subseteq FirstCorrs \cup NewCorrs /\ edges' \subseteq NewEdges
      /\ \A c \in corrs' : EndsOf(c) \subseteq DOMAIN owner'
  BY DEF Writer, SaveCorr, SaveEdge, SaveEntity, IType, TypeOK
<1>3. TypeOK'
  <2>1. writes' \in 0 .. MaxWrites
    <3>1. MaxWrites \in Nat /\ writes \in 0 .. MaxWrites
      BY AcceptanceAssumption DEF IType, TypeOK
    <3> QED BY <1>1, <3>1
  <2>2. listed' \subseteq corrs' \cup edges'
    <3>1. listed' = listed
      BY <1>1 DEF registering
    <3> QED BY <1>2, <3>1 DEF IType, TypeOK
  <2>3. UNCHANGED <<stored, batch, at, lost, pc, rows, faults>>
    BY <1>1 DEF registering
  <2> QED
    BY <1>2, <2>1, <2>2, <2>3 DEF IType, TypeOK
<1>4. StoredKnown' /\ CurrentStored'
  BY <1>1 DEF IType, StoredKnown, CurrentStored, Valids, Passed, registering, judging
<1> QED
  BY <1>3, <1>4 DEF IType

\* The registry's steps that save nothing.
LEMMA TypeLists ==
  ASSUME IType, ListCorrs \/ ListEdges \/ SkipInvalid \/ SaveFails \/ Registered \/ Again \/ GoOn
  PROVE  IType'
<1> USE DEF registering, graph, judging
<1>0. Len(batch) \in Nat /\ DOMAIN batch = 1 .. Len(batch) /\ at \in 1 .. Len(batch) + 1
  BY BatchSeq DEF IType, TypeOK
<1>1. CASE ListCorrs
  <2>1. TypeOK'
    <3>0. 1 \in 1 .. Len(batch) + 1
      BY <1>0
    <3>1. at' = 1 /\ batch' = batch
      BY <1>1 DEF ListCorrs
    <3>2. UNCHANGED <<graph, stored, lost, rows, writes, faults>>
      BY <1>1 DEF ListCorrs
    <3>3. listed' = corrs /\ pc' = "list edges"
      BY <1>1 DEF ListCorrs
    <3>4. /\ corrs' \subseteq FirstCorrs \cup NewCorrs /\ edges' \subseteq NewEdges
          /\ \A c \in corrs' : EndsOf(c) \subseteq DOMAIN owner'
      BY <3>2 DEF IType, TypeOK
    <3>5. batch' \in Batches /\ at' \in 1 .. Len(batch') + 1
      BY <3>0, <3>1 DEF IType, TypeOK
    <3>6. listed' \subseteq corrs' \cup edges'
      BY <3>2, <3>3
    <3>7. /\ DOMAIN rows' \subseteq DOMAIN stored' /\ lost' \subseteq DOMAIN stored'
          /\ DOMAIN stored' \subseteq Ids(batch')
          /\ writes' \in 0 .. MaxWrites /\ faults' \in 0 .. MaxFaults
      BY <3>1, <3>2 DEF IType, TypeOK
    <3> QED BY <3>3, <3>4, <3>5, <3>6, <3>7 DEF TypeOK
  <2>2. StoredKnown' /\ CurrentStored'
    BY <1>0, <1>1 DEF ListCorrs, IType, StoredKnown, CurrentStored, Valids
  <2> QED BY <2>1, <2>2 DEF IType
<1>2. CASE ListEdges
  <2>1. TypeOK'
    BY <1>0, <1>2 DEF ListEdges, IType, TypeOK
  <2>2. Passed = {} /\ Passed' = Passed
    <3>1. at = 1 /\ at' = at /\ batch' = batch
      BY <1>2 DEF ListEdges, IType, StoredKnown
    <3>2. 1 .. at - 1 = {} /\ 1 .. at' - 1 = {}
      BY <3>1
    <3> QED BY <3>2 DEF Passed
  <2>3. StoredKnown' /\ CurrentStored'
    BY <1>0, <1>2, <2>2 DEF ListEdges, IType, StoredKnown, CurrentStored, Valids
  <2> QED BY <2>1, <2>3 DEF IType
<1>3. CASE SkipInvalid
  <2>1. TypeOK'
    BY <1>0, <1>3 DEF SkipInvalid, IType, TypeOK
  <2>2. Passed' = Passed
    BY <1>0, <1>3 DEF SkipInvalid, Passed, Spec1
  <2>3. StoredKnown' /\ CurrentStored'
    BY <1>0, <1>3, <2>2 DEF SkipInvalid, IType, StoredKnown, CurrentStored, Valids
  <2> QED BY <2>1, <2>3 DEF IType
<1>4. CASE SaveFails
  <2>1. lost' = lost \cup Passed
    BY <1>4 DEF SaveFails, Passed
  <2>2. TypeOK'
    BY <1>0, <1>4, <2>1, AcceptanceAssumption DEF SaveFails, IType, TypeOK, StoredKnown
  <2>3. StoredKnown' /\ CurrentStored'
    BY <1>0, <1>4, <2>1 DEF SaveFails, IType, StoredKnown, CurrentStored, Valids
  <2> QED BY <2>2, <2>3 DEF IType
<1>5. CASE Registered
  <2>1. TypeOK'
    BY <1>0, <1>5 DEF Registered, IType, TypeOK
  <2>2. StoredKnown' /\ CurrentStored'
    BY <1>0, <1>5 DEF Registered, IType, StoredKnown, CurrentStored, Valids
  <2> QED BY <2>1, <2>2 DEF IType
<1>6. CASE Again
  <2>1. TypeOK'
    BY <1>0, <1>6 DEF Again, IType, TypeOK
  <2>2. StoredKnown' /\ CurrentStored'
    BY <1>0, <1>6 DEF Again, IType, StoredKnown, CurrentStored, Valids
  <2> QED BY <2>1, <2>2 DEF IType
<1>7. CASE GoOn
  <2>1. TypeOK'
    BY <1>0, <1>7 DEF GoOn, IType, TypeOK
  <2>2. StoredKnown' /\ CurrentStored'
    BY <1>0, <1>7 DEF GoOn, IType, StoredKnown, CurrentStored, Valids
  <2> QED BY <2>1, <2>2 DEF IType
<1> QED
  BY <1>1, <1>2, <1>3, <1>4, <1>5, <1>6, <1>7

LEMMA TypeRegister ==
  ASSUME IType, Register PROVE IType'
<1>0. Len(batch) \in Nat /\ DOMAIN batch = 1 .. Len(batch) /\ at \in 1 .. Len(batch)
  BY BatchSeq DEF IType, TypeOK, Register
<1>1. /\ pc = "specs" /\ pc' = pc /\ Spec1 = batch[at] /\ Spec1.valid /\ at' = at + 1
      /\ UNCHANGED <<graph, batch, listed, lost, mu, judging, rows, report, writes, faults>>
  BY DEF Register, Spec1
<1>2. DOMAIN stored' = DOMAIN stored \cup {Spec1.id}
  BY DEF Register
<1>3. Passed' = Passed \cup {Spec1.id}
  <2>1. 1 .. at' - 1 = (1 .. at - 1) \cup {at}
    BY <1>0, <1>1
  <2> QED BY <1>1, <2>1 DEF Passed
<1>4. Spec1.id \in Valids /\ Spec1.id \in Ids(batch)
  BY <1>0, <1>1 DEF Valids, Ids
<1>5. TypeOK'
  BY <1>0, <1>1, <1>2, <1>4 DEF IType, TypeOK, graph
<1>6. StoredKnown' /\ CurrentStored'
  BY <1>0, <1>1, <1>2, <1>3, <1>4 DEF IType, StoredKnown, CurrentStored, Valids
<1> QED
  BY <1>5, <1>6 DEF IType

\* The judging steps leave the rows and the registry alone.
LEMMA TypeJudge ==
  ASSUME IType, Judge PROVE IType'
<1>1. UNCHANGED <<graph, registering, writes, faults>>
  BY DEF Judge, BuildMigrationMap, Choose, ComputeFrontier, ClassifyRisks, Oblige, Conclude, Submit
<1>2. pc' \in {"choose", "frontier", "risks", "obligations", "conclude", "submitted"}
  <2>1. CASE \E cs \in Candidates, x \in Excerpts : BuildMigrationMap(cs, x)
    BY <2>1, Built DEF BuildMigrationMap
  <2>2. CASE ~ \E cs \in Candidates, x \in Excerpts : BuildMigrationMap(cs, x)
    BY <2>2 DEF Judge, Choose, ComputeFrontier, ClassifyRisks, Oblige, Conclude, Submit
  <2> QED BY <2>1, <2>2
<1>3. DOMAIN rows' \subseteq DOMAIN rows \cup {current} /\ (pc # "conclude" => rows' = rows)
  BY DEF Judge, BuildMigrationMap, Choose, ComputeFrontier, ClassifyRisks, Oblige, Conclude, Submit
<1>4. TypeOK'
  BY <1>1, <1>2, <1>3 DEF IType, TypeOK, CurrentStored, graph, registering
<1>5. CurrentStored'
  BY <1>1, <1>2 DEF IType, CurrentStored, Judge, BuildMigrationMap, Choose, ComputeFrontier,
     ClassifyRisks, Oblige, Conclude, Submit, registering, judging
<1>6. StoredKnown'
  BY <1>1, <1>2 DEF IType, StoredKnown, Valids, Passed, registering
<1> QED
  BY <1>4, <1>5, <1>6 DEF IType

\* Stuttering, and the finished program's step, change nothing.
LEMMA TypeStep ==
  ASSUME IType, [Next]_vars PROVE IType'
<1>1. CASE Writer
  BY <1>1, TypeWriter
<1>2. CASE Registry
  BY <1>2, TypeLists, TypeRegister DEF Registry
<1>3. CASE Judge
  BY <1>3, TypeJudge
<1>4. CASE UNCHANGED vars
  BY <1>4 DEF vars, graph, registering, judging, IType, TypeOK, StoredKnown, CurrentStored, Valids,
     Passed
<1> QED
  BY <1>1, <1>2, <1>3, <1>4 DEF Next, Finished

THEOREM TypeCorrect == Spec => []IType
<1>1. Init => IType
  BY TypeInit
<1>2. IType /\ [Next]_vars => IType'
  BY TypeStep
<1> QED
  BY <1>1, <1>2, PTL DEF Spec

\* The rows, the batch and the candidate's steps stay well-formed; no step
\* reaches "stopped", as try_new never refuses what build_migration_map makes.
THEOREM AcceptanceTypeCorrect == Spec => []TypeOK
<1>1. IType => TypeOK
  BY DEF IType
<1> QED
  BY <1>1, TypeCorrect, PTL

-----------------------------------------------------------------------------
(* The registry.                                                           *)

\* The rows and the batch, as a step other than Register leaves them.
LEMMA StoredKept ==
  ASSUME [Next]_vars
  PROVE  /\ batch' = batch /\ corrs \subseteq corrs' /\ edges \subseteq edges'
         /\ stored' = stored \/ Register
<1>1. CASE Writer
  BY <1>1 DEF Writer, SaveCorr, SaveEdge, SaveEntity, Write, registering
<1>2. CASE Registry
  BY <1>2 DEF Registry, ListCorrs, ListEdges, SkipInvalid, Register, SaveFails, Registered, Again,
     GoOn, registering, graph
<1>3. CASE Judge
  BY <1>3 DEF Judge, BuildMigrationMap, Choose, ComputeFrontier, ClassifyRisks, Oblige, Conclude,
     Submit, registering, graph
<1>4. CASE UNCHANGED vars
  BY <1>4 DEF vars, graph, registering
<1> QED
  BY <1>1, <1>2, <1>3, <1>4 DEF Next, Finished

\* The row of a spec.
LEMMA RowOf ==
  ASSUME NEW spec
  PROVE  /\ Row(spec).support = ToSet(spec.support) \cap listed
         /\ Row(spec).defined <=> Defined(spec)
BY DEF Row, Resolved

LEMMA SupportStep ==
  ASSUME IType, SupportKnown, [Next]_vars PROVE SupportKnown'
<1>1. batch' = batch /\ corrs \subseteq corrs' /\ edges \subseteq edges'
  BY StoredKept
<1>2. CASE stored' = stored
  BY <1>1, <1>2 DEF SupportKnown
<1>3. CASE Register
  <2>0. at \in DOMAIN batch
    BY <1>3, BatchSeq DEF IType, TypeOK, Register
  <2>1. stored' = [o \in DOMAIN stored \cup {Spec1.id} |->
                     IF o = Spec1.id THEN Row(Spec1) ELSE stored[o]]
    BY <1>3 DEF Register
  <2>2. SUFFICES ASSUME NEW o \in DOMAIN stored'
        PROVE  /\ stored'[o].support \subseteq corrs \cup edges
               /\ \E k \in DOMAIN batch :
                    /\ batch[k].id = o
                    /\ stored'[o].defined =>
                         batch[k].unsupported = {} /\ stored'[o].support = ToSet(batch[k].support)
    BY <1>1 DEF SupportKnown
  <2>3. CASE o # Spec1.id
    <3>1. o \in DOMAIN stored /\ stored'[o] = stored[o]
      BY <2>1, <2>3
    <3> QED BY <3>1 DEF SupportKnown
  <2>4. CASE o = Spec1.id
    <3>1. stored'[o] = Row(Spec1)
      BY <2>1, <2>4
    <3>2. stored'[o].support \subseteq listed
      BY <3>1, RowOf
    <3>3. stored'[o].defined =>
            Spec1.unsupported = {} /\ stored'[o].support = ToSet(Spec1.support)
      <4>1. Row(Spec1).defined => Spec1.unsupported = {} /\ ToSet(Spec1.support) \ listed = {}
        BY RowOf DEF Defined, Missing
      <4>2. ToSet(Spec1.support) \ listed = {} => Row(Spec1).support = ToSet(Spec1.support)
        BY RowOf
      <4> QED BY <3>1, <4>1, <4>2
    <3> QED BY <2>0, <2>4, <3>2, <3>3 DEF Spec1, IType, TypeOK
  <2> QED BY <2>3, <2>4
<1> QED
  BY <1>2, <1>3, StoredKept

\* An observation is stored with support that exists, and as defined only when
\* nothing its spec declares was dropped.
THEOREM SupportIsKnown == Spec => []SupportKnown
<1>1. Init => SupportKnown
  BY DEF Init, SupportKnown
<1>2. IType /\ SupportKnown /\ [Next]_vars => SupportKnown'
  BY SupportStep
<1> QED
  BY <1>1, <1>2, TypeCorrect, PTL DEF Spec

\* An observation stored as undefined has a diagnostic that makes a risk.
Noted(o) ==
  \E n \in registry : n.about = o /\ n.kind \in {"MissingSupport", "UnsupportedEvidence"}
NotedInv ==
  /\ pc = "specs" => \A o \in Passed : stored[o].defined \/ Noted(o)
  /\ pc \notin {"register", "list edges", "specs", "failed"} =>
       \A o \in DOMAIN stored \ lost : stored[o].defined \/ Noted(o)

LEMMA NotedRegister ==
  ASSUME IType, NotedInv, Register PROVE NotedInv'
<1>0. /\ Len(batch) \in Nat /\ DOMAIN batch = 1 .. Len(batch) /\ at \in 1 .. Len(batch)
      /\ pc = "specs" /\ pc' = pc /\ batch' = batch /\ at' = at + 1 /\ Spec1 = batch[at]
  BY BatchSeq DEF IType, TypeOK, Register, Spec1
<1>1. stored' = [o \in DOMAIN stored \cup {Spec1.id} |->
                   IF o = Spec1.id THEN Row(Spec1) ELSE stored[o]]
  BY DEF Register
<1>2. registry' = registry \cup Diagnose(Spec1)
  BY DEF Register
<1>3. Passed' \subseteq Passed \cup {Spec1.id}
  <2>1. 1 .. at' - 1 = (1 .. at - 1) \cup {at}
    BY <1>0
  <2> QED BY <1>0, <2>1 DEF Passed
<1>4. ASSUME NEW o \in Passed', o # Spec1.id PROVE stored'[o].defined \/ Noted(o)'
  <2>1. o \in Passed /\ o \in DOMAIN stored
    BY <1>0, <1>3, <1>4 DEF IType, StoredKnown
  <2>2. stored'[o] = stored[o]
    BY <1>1, <1>4, <2>1
  <2> QED BY <1>0, <1>2, <2>1, <2>2 DEF NotedInv, Noted
<1>5. ASSUME NEW o, o = Spec1.id PROVE stored'[o].defined \/ Noted(o)'
  <2>1. CASE Defined(Spec1)
    <3>1. stored'[o] = Row(Spec1)
      BY <1>1, <1>5
    <3>2. Row(Spec1).defined
      BY <2>1, RowOf
    <3> QED BY <3>1, <3>2
  <2>2. CASE Missing(Spec1) # {}
    <3>1. PICK x : x \in Missing(Spec1)
      BY <2>2
    <3>2. [kind |-> "MissingSupport", about |-> Spec1.id, item |-> x] \in registry'
      BY <1>2, <3>1 DEF Diagnose
    <3> QED BY <1>5, <3>2 DEF Noted
  <2>3. CASE Spec1.unsupported # {}
    <3>1. PICK x : x \in Spec1.unsupported
      BY <2>3
    <3>2. [kind |-> "UnsupportedEvidence", about |-> Spec1.id, item |-> x] \in registry'
      BY <1>2, <3>1 DEF Diagnose
    <3> QED BY <1>5, <3>2 DEF Noted
  <2> QED BY <2>1, <2>2, <2>3 DEF Defined
<1>6. \A o \in Passed' : stored'[o].defined \/ Noted(o)'
  BY <1>4, <1>5
<1> QED
  BY <1>0, <1>6 DEF NotedInv

LEMMA NotedStep ==
  ASSUME IType, NotedInv, [Next]_vars PROVE NotedInv'
<1>0. Len(batch) \in Nat /\ DOMAIN batch = 1 .. Len(batch) /\ at \in 1 .. Len(batch) + 1
  BY BatchSeq DEF IType, TypeOK
<1>1. CASE Writer
  <2>1. UNCHANGED <<stored, batch, at, registry, lost, pc>>
    BY <1>1 DEF Writer, SaveCorr, SaveEdge, SaveEntity, Write, registering
  <2>2. Passed' = Passed
    BY <2>1 DEF Passed
  <2> QED BY <2>1, <2>2 DEF NotedInv, Noted
<1>2. CASE Register
  BY <1>2, NotedRegister
<1>3. CASE ListCorrs \/ SaveFails \/ Again
  BY <1>3 DEF ListCorrs, SaveFails, Again, NotedInv
<1>4. CASE ListEdges
  <2>1. at = 1 /\ at' = at /\ pc' = "specs"
    BY <1>4 DEF ListEdges, IType, StoredKnown
  <2>2. 1 .. at' - 1 = {}
    BY <2>1
  <2> QED BY <2>1, <2>2 DEF NotedInv, Passed
<1>5. CASE SkipInvalid
  <2>1. /\ pc = "specs" /\ pc' = pc /\ stored' = stored /\ registry \subseteq registry'
        /\ batch' = batch /\ at' = at + 1 /\ at \in 1 .. Len(batch) /\ ~ batch[at].valid
    BY <1>0, <1>5 DEF SkipInvalid, Spec1
  <2>2. Passed' = Passed
    <3>1. 1 .. at' - 1 = (1 .. at - 1) \cup {at}
      BY <1>0, <2>1
    <3> QED BY <2>1, <3>1 DEF Passed
  <2> QED BY <2>1, <2>2 DEF NotedInv, Noted
<1>6. CASE Registered
  <2>1. /\ pc = "specs" /\ pc' = "mu" /\ UNCHANGED <<stored, registry>>
        /\ at = Len(batch) + 1 /\ lost' = lost \ Ids(batch)
    BY <1>0, <1>6 DEF Registered
  <2>2. Passed = Valids
    BY <1>0, <2>1 DEF Passed, Valids
  <2> QED BY <2>1, <2>2 DEF NotedInv, Noted, IType, StoredKnown
<1>7. CASE GoOn
  <2>1. pc = "failed" /\ pc' = "mu" /\ UNCHANGED <<stored, lost>>
    BY <1>7 DEF GoOn, registering
  <2> QED BY <2>1 DEF NotedInv, IType, StoredKnown
<1>8. CASE Judge
  <2>1. UNCHANGED <<stored, registry, lost>>
    BY <1>8 DEF Judge, BuildMigrationMap, Choose, ComputeFrontier, ClassifyRisks, Oblige, Conclude,
       Submit, registering
  <2>2. /\ pc \notin {"register", "list edges", "specs", "failed"}
        /\ pc' \notin {"register", "list edges", "specs", "failed"}
    BY <1>8 DEF Judge, BuildMigrationMap, Choose, ComputeFrontier, ClassifyRisks, Oblige, Conclude,
       Submit
  <2> QED BY <2>1, <2>2 DEF NotedInv, Noted
<1>9. CASE UNCHANGED vars
  <2>1. UNCHANGED <<stored, batch, at, registry, lost, pc>>
    BY <1>9 DEF vars, registering
  <2>2. Passed' = Passed
    BY <2>1 DEF Passed
  <2> QED BY <2>1, <2>2 DEF NotedInv, Noted
<1> QED
  BY <1>1, <1>2, <1>3, <1>4, <1>5, <1>6, <1>7, <1>8, <1>9 DEF Next, Registry, Finished

THEOREM UndefinedNoted == Spec => []NotedInv
<1>1. Init => NotedInv
  BY DEF Init, NotedInv
<1>2. IType /\ NotedInv /\ [Next]_vars => NotedInv'
  BY NotedStep
<1> QED
  BY <1>1, <1>2, TypeCorrect, PTL DEF Spec

-----------------------------------------------------------------------------
(* The map and the judging of an observation.                              *)

MapKnown ==
  \A old \in DOMAIN mu.rewrites :
    /\ old \in DOMAIN owner /\ SideOf(old) = "old"
    /\ Undoubted(old) /\ mu.rewrites[old] \in Proposed(old)
LeftNoted ==
  \A old \in Olds(mu.asked) \ DOMAIN mu.rewrites :
    \E n \in mu.notes : n.old = old /\ n.kind \in Kinds

\* What the later steps are computed from is what the earlier ones left.
Judging == {"risks", "obligations", "conclude"}
JudgeInv ==
  /\ Judged => risks = Classify(current, frontier.notes, registry, mu.notes, excerpt.features)
  /\ pc \in Judging =>
       /\ frontier.items \subseteq corrs \cup edges
       /\ \A n \in frontier.notes : n.kind \in {"MissingSupport", "MissingGraphEndpoint"}
       /\ \A e \in DOMAIN owner : owner[e] = seen[e] \/ owner[e] = NewOwner[e]
  /\ pc = "conclude" => prechecks = Prechecks(frontier.notes)

LEMMA MapBuilt ==
  ASSUME NEW cs \in Candidates, mu' = BuildMap(DOMAIN owner, cs), owner' = owner
  PROVE  MapKnown' /\ LeftNoted'
<1>1. mu'.asked = cs
  BY Built
<1>2. LeftNoted'
  <2>1. \A c \in cs : c.confidence \in {"concrete", "ambiguous", "missing"}
    BY AcceptanceAssumption
  <2> QED BY <1>1, <2>1, Left DEF LeftNoted
<1>3. ASSUME NEW old \in DOMAIN mu'.rewrites
      PROVE  /\ old \in DOMAIN owner /\ SideOf(old) = "old"
             /\ Undoubted(old)' /\ mu'.rewrites[old] \in Proposed(old)'
  <2>1. /\ old \in DOMAIN owner /\ SideOf(old) = "old"
        /\ \A c \in Group(cs, old) : c.confidence = "concrete"
        /\ ConcreteTargets(Group(cs, old)) = {mu'.rewrites[old]}
        /\ mu'.rewrites[old] \in DOMAIN owner
        /\ SideOf(mu'.rewrites[old]) = "new" /\ KindOf(mu'.rewrites[old]) = KindOf(old)
    BY <1>3, Built
  <2>2. Proposed(old)' = ConcreteTargets(Group(cs, old))
    BY <1>1, <2>1 DEF Proposed, ConcreteTargets
  <2> QED BY <1>1, <2>1, <2>2 DEF Undoubted
<1> QED
  BY <1>2, <1>3 DEF MapKnown

LEMMA MapKept ==
  ASSUME MapKnown, LeftNoted, mu' = mu, DOMAIN owner \subseteq DOMAIN owner'
  PROVE  MapKnown' /\ LeftNoted'
<1>1. \A old : Undoubted(old) => Undoubted(old)'
  BY DEF Undoubted, Proposed
<1>2. \A old : Proposed(old)' = Proposed(old)
  BY DEF Proposed
<1> QED
  BY <1>1, <1>2 DEF MapKnown, LeftNoted

LEMMA JudgeWriter ==
  ASSUME JudgeInv, Writer PROVE JudgeInv'
<1>1. UNCHANGED <<pc, mu, registry, current, excerpt, frontier, risks, owed, prechecks, seen>>
  BY DEF Writer, SaveCorr, SaveEdge, SaveEntity, Write, registering, judging
<1>2. corrs \subseteq corrs' /\ edges \subseteq edges'
  BY DEF Writer, SaveCorr, SaveEdge, SaveEntity
<1>3. \A e \in DOMAIN owner' :
        owner'[e] = NewOwner[e] \/ (e \in DOMAIN owner /\ owner'[e] = owner[e])
  BY DEF Writer, SaveCorr, SaveEdge, SaveEntity
<1> QED
  BY <1>1, <1>2, <1>3 DEF JudgeInv, Judged

LEMMA JudgeStep ==
  ASSUME IType, MapKnown, LeftNoted, JudgeInv, [Next]_vars
  PROVE  MapKnown' /\ LeftNoted' /\ JudgeInv'
<1> DEFINE Earlier == {"register", "list edges", "specs", "failed", "mu", "choose", "frontier"}
<1>1. CASE Writer
  <2>1. mu' = mu /\ DOMAIN owner \subseteq DOMAIN owner'
    BY <1>1 DEF Writer, SaveCorr, SaveEdge, SaveEntity, Write
  <2> QED BY <1>1, <2>1, JudgeWriter, MapKept
<1>2. CASE Registry
  <2>1. mu' = mu /\ owner' = owner /\ pc' \in Earlier
    BY <1>2 DEF Registry, ListCorrs, ListEdges, SkipInvalid, Register, SaveFails, Registered,
       Again, GoOn, graph
  <2> QED BY <2>1, MapKept DEF JudgeInv, Judged, Judging
<1>3. CASE \E cs \in Candidates, x \in Excerpts : BuildMigrationMap(cs, x)
  <2>1. PICK cs \in Candidates : mu' = BuildMap(DOMAIN owner, cs) /\ owner' = owner
    BY <1>3 DEF BuildMigrationMap, graph
  <2>2. pc' \notin Judging /\ ~ Judged'
    BY <1>3 DEF BuildMigrationMap, Judged, Judging
  <2> QED BY <2>1, <2>2, MapBuilt DEF JudgeInv, Judging
<1>4. CASE (\E o \in DOMAIN stored : Choose(o)) \/ (\E missing \in BOOLEAN : Submit(missing))
             \/ \E status \in {"accepted", "broken", "unknown"} : Conclude(status)
  <2>1. mu' = mu /\ owner' = owner /\ pc' \notin Judging /\ ~ Judged'
    BY <1>4 DEF Choose, Submit, Conclude, Judged, Judging, graph
  <2> QED BY <2>1, MapKept DEF JudgeInv, Judging
<1>5. CASE \E items, raced \in SUBSET (corrs \cup edges) : ComputeFrontier(items, raced)
  <2>1. PICK items, raced \in SUBSET (corrs \cup edges) : ComputeFrontier(items, raced)
    BY <1>5
  <2>2. /\ UNCHANGED <<mu, corrs, edges, owner>> /\ pc' = "risks" /\ seen' = owner
        /\ items \subseteq corrs \cup edges /\ frontier'.items = items
    BY <2>1 DEF ComputeFrontier, graph
  <2>3. \A n \in frontier'.notes : n.kind \in {"MissingSupport", "MissingGraphEndpoint"}
    BY <2>1 DEF ComputeFrontier
  <2> QED BY <2>2, <2>3, MapKept DEF JudgeInv, Judged
<1>6. CASE ClassifyRisks
  <2>1. /\ UNCHANGED <<mu, corrs, edges, owner, seen, current, excerpt, frontier, registry>>
        /\ pc = "risks" /\ pc' = "obligations"
        /\ risks' = Classify(current, frontier.notes, registry, mu.notes, excerpt.features)
    BY <1>6 DEF ClassifyRisks, graph, registering
  <2> QED BY <2>1, MapKept DEF JudgeInv, Judging
<1>7. CASE Oblige
  <2>1. /\ UNCHANGED <<mu, corrs, edges, owner, seen, current, excerpt, frontier, registry, risks>>
        /\ pc = "obligations" /\ pc' = "conclude" /\ prechecks' = Prechecks(frontier.notes)
    BY <1>7 DEF Oblige, graph, registering
  <2> QED BY <2>1, MapKept DEF JudgeInv, Judged, Judging
<1>8. CASE UNCHANGED vars
  <2>1. /\ UNCHANGED <<mu, corrs, edges, owner, seen, current, excerpt, frontier, registry, risks>>
        /\ UNCHANGED <<pc, prechecks>>
    BY <1>8 DEF vars, graph, registering, judging
  <2> QED BY <2>1, MapKept DEF JudgeInv, Judged
<1> QED
  BY <1>1, <1>2, <1>3, <1>4, <1>5, <1>6, <1>7, <1>8 DEF Next, Judge, Finished

THEOREM JudgedFromSteps == Spec => [](MapKnown /\ LeftNoted /\ JudgeInv)
<1>1. Init => MapKnown /\ LeftNoted /\ JudgeInv
  <2> SUFFICES ASSUME Init PROVE MapKnown /\ LeftNoted /\ JudgeInv
    OBVIOUS
  <2>1. mu.asked = {} /\ DOMAIN mu.rewrites = {}
    BY DEF Init, BuildMap, Accepted, Olds
  <2> QED BY <2>1 DEF MapKnown, LeftNoted, JudgeInv, Init, Judged, Judging, Olds
<1>2. IType /\ MapKnown /\ LeftNoted /\ JudgeInv /\ [Next]_vars
        => MapKnown' /\ LeftNoted' /\ JudgeInv'
  BY JudgeStep
<1> QED
  BY <1>1, <1>2, TypeCorrect, PTL DEF Spec

\* mu holds undoubted rewrites only, and what it leaves out is a risk, a
\* conflict or a kind mismatch.
THEOREM MapIsJustified == Spec => []MapJustified
<1>1. ASSUME MapKnown, LeftNoted, JudgeInv PROVE MapJustified
  <2> SUFFICES ASSUME Judged, NEW old \in Olds(mu.asked) \ DOMAIN mu.rewrites
      PROVE  \/ \E r \in risks : r.source = "migration_map" /\ r.item = old
             \/ \E n \in mu.notes : n.old = old /\ n.kind \in {"MigrationMapConflict", "KindMismatch"}
    BY <1>1 DEF MapJustified, MapKnown
  <2>1. PICK n \in mu.notes : n.old = old /\ n.kind \in Kinds
    BY <1>1 DEF LeftNoted
  <2>2. CASE n.kind \in {"MigrationMapAmbiguous", "MissingEndpoint"}
    <3> DEFINE reason == IF n.kind = "MigrationMapAmbiguous" THEN "migration_map_ambiguous"
                         ELSE "missing_endpoint"
    <3>1. Risk(reason, "migration_map", n.old) \in MigrationRisks(mu.notes)
      BY <2>1, <2>2 DEF MigrationRisks
    <3>2. Risk(reason, "migration_map", n.old) \in risks
      BY <1>1, <3>1 DEF JudgeInv, Classify
    <3> QED BY <2>1, <3>2 DEF Risk
  <2>3. CASE n.kind \in {"MigrationMapConflict", "KindMismatch"}
    BY <2>1, <2>3
  <2> QED BY <2>1, <2>2, <2>3 DEF Kinds
<1> QED
  BY <1>1, JudgedFromSteps, PTL

\* An observation stored as undefined has a risk when it is judged.
LEMMA Blocked ==
  ASSUME IType, NotedInv, JudgeInv PROVE UndefinedBlocked
<1> SUFFICES ASSUME Judged, ~ stored[current].defined, current \notin lost PROVE risks # {}
  BY DEF UndefinedBlocked
<1>1. current \in DOMAIN stored \ lost
  BY DEF IType, CurrentStored, Judged
<1>2. PICK n \in registry : n.about = current /\ n.kind \in {"MissingSupport", "UnsupportedEvidence"}
  BY <1>1 DEF NotedInv, Noted, Judged
<1>3. RegistryRisks(current, registry) # {}
  BY <1>2 DEF RegistryRisks
<1> QED
  BY <1>3 DEF JudgeInv, Classify

\* Undefined observations are blocked, unless their batch failed.
THEOREM UndefinedIsBlocked == Spec => []UndefinedBlocked
<1>1. IType /\ NotedInv /\ JudgeInv => UndefinedBlocked
  BY Blocked
<1> QED
  BY <1>1, TypeCorrect, UndefinedNoted, JudgedFromSteps, PTL

\* A gap the frontier met reaches the decision by two ways, and the two agree:
\* coverage_risk.rs makes it a risk, obligation.rs a pre-check Unknown.
GapsCarried ==
  pc = "conclude" => {r.item : r \in {x \in risks : x.source = "frontier"}} = prechecks

\* The frontier's gaps become risks and pre-check Unknowns alike.
THEOREM GapsAreCarried == Spec => []GapsCarried
<1>1. ASSUME JudgeInv PROVE GapsCarried
  <2> SUFFICES ASSUME pc = "conclude"
      PROVE  {r.item : r \in {x \in risks : x.source = "frontier"}} = prechecks
    BY DEF GapsCarried
  <2>1. /\ risks = Classify(current, frontier.notes, registry, mu.notes, excerpt.features)
        /\ \A n \in frontier.notes : n.kind \in {"MissingSupport", "MissingGraphEndpoint"}
        /\ prechecks = {n.item : n \in frontier.notes}
    BY <1>1 DEF JudgeInv, Judged, Judging, Prechecks
  <2>2. FrontierRisks(frontier.notes) =
          {Risk("missing_endpoint", "frontier", n.item) : n \in frontier.notes}
    BY <2>1 DEF FrontierRisks
  <2>3. \A r \in RegistryRisks(current, registry) \cup MigrationRisks(mu.notes)
                 \cup ExtractorRisks(excerpt.features) : r.source # "frontier"
    BY DEF RegistryRisks, MigrationRisks, ExtractorRisks, Risk
  <2>4. \A r \in FrontierRisks(frontier.notes) : r.source = "frontier"
    BY DEF FrontierRisks, Risk
  <2>5. {x \in risks : x.source = "frontier"} = FrontierRisks(frontier.notes)
    BY <2>1, <2>3, <2>4 DEF Classify
  <2>6. \A n : Risk("missing_endpoint", "frontier", n.item).item = n.item
    BY DEF Risk
  <2>7. {r.item : r \in FrontierRisks(frontier.notes)} = {n.item : n \in frontier.notes}
    BY <2>2, <2>6
  <2> QED BY <2>1, <2>5, <2>7
<1> QED
  BY <1>1, JudgedFromSteps, PTL

-----------------------------------------------------------------------------
(* What the route checker says.                                            *)

\* Its reasons are those it announces.
LEMMA AnswersDeclared ==
  ASSUME NEW r, NEW v \in CheckRoute(r)
  PROVE  /\ v.tag = "unknown" => v.reason \in UnknownReasons
         /\ v.tag = "broken" => v.reason \in BrokenReasons
<1>1. \A x : Unknown(x).tag = "unknown" /\ Unknown(x).reason = x
  BY DEF Unknown
<1>2. \A x : Broken(x).tag = "broken" /\ Broken(x).reason = x
  BY DEF Broken
<1>3. Pres.tag = "pres" /\ Migrated.tag = "migrated"
  BY DEF Pres, Migrated
<1> USE <1>1, <1>2, <1>3 DEF UnknownReasons, BrokenReasons
<1>4. ASSUME NEW x, NEW es, NEW n
      PROVE  /\ JudgeRewrites(x, es, n).tag = "unknown" =>
                  JudgeRewrites(x, es, n).reason \in UnknownReasons
             /\ JudgeRewrites(x, es, n).tag = "broken" =>
                  JudgeRewrites(x, es, n).reason \in BrokenReasons
  BY DEF JudgeRewrites
<1>5. /\ JudgeChange(r).tag = "unknown" => JudgeChange(r).reason \in UnknownReasons
      /\ JudgeChange(r).tag = "broken" => JudgeChange(r).reason \in BrokenReasons
  BY <1>4 DEF JudgeChange
<1> QED
  BY <1>5 DEF CheckRoute

\* describe and check agree: a verdict has no reason describe did not announce.
ReasonsDeclared ==
  pc = "conclude" =>
    \A x \in {y \in frontier.items : Base(y) = "correspondence"} :
      \A v \in HandleCheck(Request(x)).result :
        /\ v.tag = "unknown" => v.reason \in UnknownReasons
        /\ v.tag = "broken" => v.reason \in BrokenReasons

\* describe announces every reason check gives.
THEOREM ReasonsAreDeclared == Spec => []ReasonsDeclared
<1>1. ReasonsDeclared
  BY AnswersDeclared DEF ReasonsDeclared, HandleCheck
<1> QED
  BY <1>1, PTL

\* Migrated takes an excerpt without conflicts and a target of both endpoints.
LEMMA MigratedAnswer ==
  ASSUME NEW r, Migrated \in CheckRoute(r)
  PROVE  /\ r.excerpt.conflicts = {}
         /\ Len(r.endpoints) = 2
         /\ Targets(r.excerpt, r.endpoints[1]) # {} /\ Targets(r.excerpt, r.endpoints[2]) # {}
<1>1. (\A x : Unknown(x) # Migrated /\ Broken(x) # Migrated) /\ Pres # Migrated
  <2>1. \A x : Unknown(x).tag = "unknown" /\ Broken(x).tag = "broken"
    BY DEF Unknown, Broken
  <2>2. Pres.tag = "pres" /\ Migrated.tag = "migrated"
    BY DEF Pres, Migrated
  <2> QED BY <2>1, <2>2
<1>2. ValidShape(r) /\ JudgeChange(r) = Migrated
  BY <1>1 DEF CheckRoute
<1>3. ~ Ambiguous(r.excerpt) /\ JudgeRewrites(r.excerpt, r.endpoints, r.observation.new) = Migrated
  BY <1>1, <1>2 DEF JudgeChange
<1>4. Targets(r.excerpt, r.endpoints[1]) # {} /\ Targets(r.excerpt, r.endpoints[2]) # {}
  BY <1>1, <1>3 DEF JudgeRewrites
<1> QED
  BY <1>2, <1>3, <1>4 DEF Ambiguous, ValidShape

LEMMA MigratedItem ==
  ASSUME MapKnown, NEW x, Verdict(x) = Migrated
  PROVE  /\ mu.conflicts = {}
         /\ \A e \in EndsOf(x) : e \in Olds(mu.asked) /\ Undoubted(e)
<1> DEFINE r == Request(x)
<1>1. \A y : Unknown(y) # Migrated
  BY DEF Unknown, Migrated
<1>2. x \in DOMAIN Endpoints
  BY <1>1 DEF Verdict, Base, IsCorrespondence
<1>3. Migrated \in CheckRoute(r)
  <2>1. CheckRoute(r) # {} /\ Migrated = CHOOSE v \in CheckRoute(r) : TRUE
    <3>1. Base(x) = "correspondence"
      BY <1>2 DEF Base, IsCorrespondence
    <3>2. HandleCheck(r).result = CheckRoute(r)
      BY DEF HandleCheck
    <3>3. HandleCheck(r).error = {} => CheckRoute(r) # {}
      BY DEF HandleCheck
    <3> QED BY <1>1, <3>1, <3>2, <3>3 DEF Verdict
  <2> QED BY <2>1
<1>4. /\ r.endpoints = Endpoints[x] /\ r.excerpt.conflicts = mu.conflicts
      /\ r.excerpt.rewrites = {[kind |-> KindOf(e), old |-> e, new |-> mu.rewrites[e]] :
                                 e \in DOMAIN mu.rewrites}
  BY DEF Request
<1>5. /\ mu.conflicts = {} /\ Len(Endpoints[x]) = 2
      /\ Targets(r.excerpt, Endpoints[x][1]) # {} /\ Targets(r.excerpt, Endpoints[x][2]) # {}
  BY <1>3, <1>4, MigratedAnswer
<1>6. \A e : Targets(r.excerpt, e) # {} => e \in DOMAIN mu.rewrites
  BY <1>4 DEF Targets
<1>7. DOMAIN Endpoints[x] = 1 .. 2
  BY <1>2, <1>5, AcceptanceAssumption
<1>8. EndsOf(x) \subseteq {Endpoints[x][1], Endpoints[x][2]}
  BY <1>7 DEF EndsOf
<1>9. \A e \in EndsOf(x) : e \in DOMAIN mu.rewrites
  BY <1>5, <1>6, <1>8
<1>10. \A e \in DOMAIN mu.rewrites : Undoubted(e) /\ Proposed(e) # {}
  BY DEF MapKnown
<1>11. \A e : Proposed(e) # {} => e \in Olds(mu.asked)
  BY DEF Proposed, Group, Olds
<1> QED
  BY <1>5, <1>9, <1>10, <1>11

\* Migrated is said of correspondences with undoubted targets only.
THEOREM MigratedIsJustified == Spec => []MigratedJustified
<1>1. MapKnown => MigratedJustified
  BY MigratedItem DEF MigratedJustified
<1> QED
  BY <1>1, JudgedFromSteps, PTL

-----------------------------------------------------------------------------
(* Obligations.                                                            *)

LEMMA ObligeCovers ==
  ASSUME IType, JudgeInv, Oblige PROVE ObligationsCover'
<1>1. /\ UNCHANGED <<corrs, edges, owner, seen, frontier, mu, stored, current>>
      /\ pc \in Judging
      /\ owed' = GenerateObligations(corrs, owner, Edited, DOMAIN mu.rewrites,
                                     stored[current].support, frontier.items)
  BY DEF Oblige, graph, registering, Judging
<1> DEFINE items == frontier.items
<1>2. items \subseteq corrs \cup edges
  BY <1>1 DEF JudgeInv
<1>3. {o.item : o \in owed'} = items
  <2>1. \A x, k : Obligation(x, k).item = x
    BY DEF Obligation
  <2>2. \A o \in owed' : o.item \in items
    BY <1>1, <2>1 DEF GenerateObligations
  <2>3. \A x \in items : Obligation(x, Base(x)) \in owed'
    BY <1>1 DEF GenerateObligations
  <2> QED BY <2>1, <2>2, <2>3
<1>4. \A x \in items : Obligation(x, Base(x)) \in owed'
  BY <1>1 DEF GenerateObligations
<1>5. \A x \in items \cap stored[current].support : Obligation(x, "support") \in owed'
  BY <1>1 DEF GenerateObligations
<1>6. ASSUME NEW x \in items, Base(x) = "correspondence", NEW e \in EndsOf(x)
      PROVE  /\ e \in DOMAIN mu.rewrites => Obligation(x, "migration") \in owed'
             /\ seen[e] \in Edited /\ owner[e] = seen[e] => Obligation(x, "local") \in owed'
  <2>1. x \in DOMAIN Endpoints
    BY <1>6 DEF Base, IsCorrespondence
  <2>2. x \in corrs /\ e \in DOMAIN owner
    BY <1>2, <1>6, <2>1, AcceptanceAssumption DEF IType, TypeOK
  <2>3. Ends(corrs, x) = EndsOf(x)
    BY <2>2 DEF Ends
  <2> QED BY <1>1, <1>6, <2>2, <2>3 DEF GenerateObligations, InEdited
<1> QED
  BY <1>1, <1>3, <1>4, <1>5, <1>6 DEF ObligationsCover

LEMMA ObligationsStep ==
  ASSUME IType, JudgeInv, ObligationsCover, [Next]_vars PROVE ObligationsCover'
<1>1. CASE Writer
  <2>1. UNCHANGED <<pc, mu, stored, current, frontier, owed, seen>>
    BY <1>1 DEF Writer, SaveCorr, SaveEdge, SaveEntity, Write, registering, judging
  <2>2. CASE pc # "conclude"
    BY <2>1, <2>2 DEF ObligationsCover
  <2>3. CASE pc = "conclude"
    <3>1. ASSUME NEW x \in frontier.items, Base(x) = "correspondence", NEW e \in EndsOf(x),
                 owner'[e] = seen[e]
          PROVE  owner[e] = seen[e]
      <4>1. x \in corrs /\ e \in DOMAIN owner
        BY <2>3, <3>1, AcceptanceAssumption
           DEF IType, TypeOK, JudgeInv, Judging, Base, IsCorrespondence
      <4>2. owner[e] = seen[e] \/ owner[e] = NewOwner[e]
        BY <2>3, <4>1 DEF JudgeInv, Judging
      <4>3. owner'[e] = owner[e] \/ (owner'[e] = NewOwner[e] /\ owner[e] # NewOwner[e])
        BY <1>1, <4>1 DEF Writer, SaveCorr, SaveEdge, SaveEntity
      <4> QED BY <3>1, <4>2, <4>3
    <3> QED BY <2>1, <2>3, <3>1 DEF ObligationsCover
  <2> QED BY <2>2, <2>3
<1>2. CASE Registry
  <2>1. pc' # "conclude"
    BY <1>2 DEF Registry, ListCorrs, ListEdges, SkipInvalid, Register, SaveFails, Registered,
       Again, GoOn
  <2> QED BY <2>1 DEF ObligationsCover
<1>3. CASE Oblige
  BY <1>3, ObligeCovers
<1>4. CASE Judge /\ ~ Oblige
  <2>1. pc' # "conclude"
    BY <1>4, Built DEF Judge, BuildMigrationMap, Choose, ComputeFrontier, ClassifyRisks, Conclude,
       Submit
  <2> QED BY <2>1 DEF ObligationsCover
<1>5. CASE UNCHANGED vars
  <2>1. UNCHANGED <<pc, mu, stored, current, frontier, owed, seen, owner>>
    BY <1>5 DEF vars, graph, registering, judging
  <2> QED BY <2>1 DEF ObligationsCover
<1> QED
  BY <1>1, <1>2, <1>3, <1>4, <1>5 DEF Next, Finished

\* Every item of the frontier owes what its class owes.
THEOREM ObligationsAreCovered == Spec => []ObligationsCover
<1>1. Init => ObligationsCover
  BY DEF Init, ObligationsCover
<1>2. IType /\ JudgeInv /\ ObligationsCover /\ [Next]_vars => ObligationsCover'
  BY ObligationsStep
<1> QED
  BY <1>1, <1>2, TypeCorrect, JudgedFromSteps, PTL DEF Spec

-----------------------------------------------------------------------------
(* The report.                                                             *)

Early == {"register", "list edges", "specs", "failed", "mu"}
RowJust(o) ==
  /\ rows[o].status \in {"accepted", "broken", "unknown"}
  /\ rows[o].right => rows[o].status = Status(rows[o].items, rows[o].risks # {})
  /\ rows[o].risks = {} => stored[o].defined \/ o \in lost
ReportInv ==
  /\ pc \in Early => DOMAIN rows = {}
  /\ \A o \in DOMAIN rows : RowJust(o)
  /\ pc = "submitted" =>
       report.decision = IF Violation(rows, report.missing) = {} THEN Decision(rows) ELSE "none"

LEMMA ReportConclude ==
  ASSUME UndefinedBlocked, ReportInv, NEW status \in {"accepted", "broken", "unknown"},
         Conclude(status)
  PROVE  ReportInv'
<1> DEFINE items == {Verdict(x) : x \in frontier.items}
           row == [visibility |-> stored[current].visibility, items |-> items,
                   risks |-> risks, status |-> status,
                   right |-> status = Status(items, risks # {})]
<1>1. /\ pc = "conclude" /\ pc' = "choose" /\ UNCHANGED <<stored, lost, current, risks>>
      /\ rows' = [o \in DOMAIN rows \cup {current} |-> IF o # current THEN rows[o] ELSE row]
  BY DEF Conclude, registering, judging
<1>2. ASSUME NEW o \in DOMAIN rows', o # current PROVE RowJust(o)'
  <2>1. o \in DOMAIN rows /\ rows'[o] = rows[o]
    BY <1>1, <1>2
  <2> QED BY <1>1, <2>1 DEF ReportInv, RowJust
<1>3. ASSUME NEW o \in DOMAIN rows', o = current PROVE RowJust(o)'
  <2>1. rows'[o] = row
    BY <1>1, <1>3
  <2>2. /\ row.items = items /\ row.risks = risks /\ row.status = status
        /\ row.right = (status = Status(items, risks # {}))
    OBVIOUS
  <2> HIDE DEF row, items
  <2>3. risks = {} => stored[o].defined \/ o \in lost
    BY <1>1, <1>3 DEF UndefinedBlocked, Judged
  <2> QED BY <1>1, <2>1, <2>2, <2>3 DEF RowJust
<1> QED
  BY <1>1, <1>2, <1>3 DEF ReportInv, Early

LEMMA ReportStep ==
  ASSUME UndefinedBlocked, ReportInv, [Next]_vars PROVE ReportInv'
<1>1. CASE Writer
  <2>1. UNCHANGED <<pc, stored, lost, rows, report>>
    BY <1>1 DEF Writer, SaveCorr, SaveEdge, SaveEntity, Write, registering
  <2> QED BY <2>1 DEF ReportInv, RowJust
<1>2. CASE Registry
  <2>1. pc \in Early /\ pc' \in Early /\ rows' = rows
    BY <1>2 DEF Registry, ListCorrs, ListEdges, SkipInvalid, Register, SaveFails, Registered,
       Again, GoOn, Early
  <2> QED BY <2>1 DEF ReportInv, Early
<1>3. CASE \E status \in {"accepted", "broken", "unknown"} : Conclude(status)
  BY <1>3, ReportConclude
<1>4. CASE \E missing \in BOOLEAN : Submit(missing)
  <2>1. PICK missing \in BOOLEAN : Submit(missing)
    BY <1>4
  <2>2. UNCHANGED <<stored, lost, rows>> /\ pc' = "submitted"
    BY <2>1 DEF Submit, registering
  <2>3. /\ report'.missing = missing
        /\ report'.decision = IF Violation(rows, missing) = {} THEN Decision(rows) ELSE "none"
    BY <2>1 DEF Submit
  <2> QED BY <2>2, <2>3 DEF ReportInv, RowJust, Early
<1>5. CASE Judge /\ ~ (\E status \in {"accepted", "broken", "unknown"} : Conclude(status))
             /\ ~ (\E missing \in BOOLEAN : Submit(missing))
  <2>1. UNCHANGED <<stored, lost, rows>> /\ pc' \notin Early /\ pc' # "submitted"
    BY <1>5 DEF Judge, BuildMigrationMap, Choose, ComputeFrontier, ClassifyRisks, Oblige,
       registering, Early
  <2> QED BY <2>1 DEF ReportInv, RowJust
<1>6. CASE UNCHANGED vars
  <2>1. UNCHANGED <<pc, stored, lost, rows, report>>
    BY <1>6 DEF vars, registering
  <2> QED BY <2>1 DEF ReportInv, RowJust
<1> QED
  BY <1>1, <1>2, <1>3, <1>4, <1>5, <1>6 DEF Next, Finished

THEOREM ReportFromRows == Spec => []ReportInv
<1>1. Init => ReportInv
  BY DEF Init, ReportInv
<1>2. UndefinedBlocked /\ ReportInv /\ [Next]_vars => ReportInv'
  BY ReportStep
<1> QED
  BY <1>1, <1>2, UndefinedIsBlocked, PTL DEF Spec

\* What an accepting report was built from.
LEMMA AcceptedRows ==
  ASSUME ReportInv, pc = "submitted", report.decision = "accepted"
  PROVE  /\ ~ report.missing
         /\ \A o \in Visible(rows) : rows[o].status = "accepted"
         /\ \A o \in DOMAIN rows :
              rows[o].status = "accepted" => \A v \in rows[o].items : Accepting(v)
<1>1. Violation(rows, report.missing) = {} /\ Decision(rows) = "accepted"
  BY DEF ReportInv
<1>2. \A o \in Visible(rows) : rows[o].status = "accepted"
  BY <1>1 DEF Decision, Visible, ReportInv, RowJust
<1> QED
  BY <1>1, <1>2 DEF Violation

\* Whatever the caller hands in, an accepted report has no missing endpoint and
\* accepted visible rows only.
THEOREM ReportFailsClosedAlways == Spec => []ReportFailsClosed
<1>1. ReportInv => ReportFailsClosed
  BY AcceptedRows DEF ReportFailsClosed
<1> QED
  BY <1>1, ReportFromRows, PTL

\* With right statuses, acceptance means that every visible observation is
\* defined, free of risks and judged to hold.
THEOREM AcceptedIsCovered == Spec => []AcceptedMeansCovered
<1>1. ASSUME ReportInv PROVE AcceptedMeansCovered
  <2> SUFFICES ASSUME pc = "submitted", report.decision = "accepted",
                      \A p \in Visible(rows) : rows[p].right,
                      NEW o \in Visible(rows)
      PROVE  /\ stored[o].defined \/ o \in lost
             /\ rows[o].risks = {}
             /\ \A v \in rows[o].items : Accepting(v)
    BY DEF AcceptedMeansCovered
  <2>1. rows[o].status = "accepted" /\ RowJust(o)
    BY <1>1, AcceptedRows DEF ReportInv, Visible
  <2>2. Status(rows[o].items, rows[o].risks # {}) = "accepted"
    BY <2>1 DEF RowJust
  <2>3. rows[o].risks = {} /\ \A v \in rows[o].items : Accepting(v)
    BY <2>2 DEF Status
  <2> QED BY <2>1, <2>3 DEF RowJust
<1> QED
  BY <1>1, ReportFromRows, PTL
=============================================================================
