---------------------------- MODULE BlobStoreProofs ----------------------------
(***************************************************************************)
(* Proofs about BlobStore, for any number of processes, threads, contents, *)
(* failures and crashes: the directory of blobs implements the map of      *)
(* BlobMap, and blobs_written counts the files a process made.             *)
(***************************************************************************)
EXTENDS BlobStore, FiniteSetTheorems, TLAPS

Putting == {"put", "create", "fill", "persist", "record", "again"}

\* What a caller's step says of its call, and what it holds.
ControlOK ==
  \A c \in Callers :
    /\ pc[c] = "idle" => call[c] = NoCall
    /\ pc[c] # "idle" => call[c] \in Calls
    /\ pc[c] \in Putting => call[c].op = "put"
    /\ pc[c] \in {"get", "count"} => call[c].op = "get"
    /\ pc[c] = "has" => call[c].op = "has"
    /\ pc[c] \notin {"count", "return"} => result[c] = "none"
    /\ pc[c] = "count" => result[c] \in {"whole", "absent"}
    /\ pc[c] = "return" => result[c] # "none"
    /\ pc[c] = "persist" => temp[c] = "whole"

Inv == TypeOK /\ ControlOK

LEMMA InitInv == Init => Inv
BY BlobAssumption DEF Init, Inv, TypeOK, ControlOK, States, Zero, NoCall, Putting

LEMMA StepInv == Inv /\ [Next]_vars => Inv'
<1> USE BlobAssumption DEF Inv, TypeOK, ControlOK, States, Putting, Goto, Finish,
                           files, control, history
<1> SUFFICES ASSUME Inv, [Next]_vars PROVE Inv'
  OBVIOUS
<1>1. ASSUME NEW c \in Callers, NEW op \in Ops, NEW k \in Contents, Invoke(c, op, k)
      PROVE Inv'
  BY <1>1 DEF Invoke, Calls, Ops, NoCall
<1>2. ASSUME NEW c \in Callers, CheckTarget(c) PROVE Inv'
  <2>1. /\ pc[c] = "put"
        /\ UNCHANGED <<blob, temp, call, stats, maker, calls, faults>>
    BY <1>2 DEF CheckTarget
  <2>2. CASE Exists(call[c].of)
    <3>1. /\ pc' = [pc EXCEPT ![c] = "return"]
          /\ result' = [result EXCEPT ![c] = "ok"]
      BY <1>2, <2>2 DEF CheckTarget
    <3> QED
      BY <2>1, <3>1
  <2>3. CASE ~ Exists(call[c].of)
    <3>1. pc' = [pc EXCEPT ![c] = "create"] /\ result' = result
      BY <1>2, <2>3 DEF CheckTarget
    <3> QED
      BY <2>1, <3>1
  <2> QED
    BY <2>2, <2>3
<1>3. ASSUME NEW c \in Callers, CheckTargetErrs(c) PROVE Inv'
  BY <1>3 DEF CheckTargetErrs
<1>4. ASSUME NEW c \in Callers, CreateTemp(c) PROVE Inv'
  BY <1>4 DEF CreateTemp
<1>5. ASSUME NEW c \in Callers, FillTemp(c) PROVE Inv'
  BY <1>5 DEF FillTemp
<1>6. ASSUME NEW c \in Callers, Persist(c) PROVE Inv'
  <2>0. call[c] \in Calls /\ call[c].of \in Contents
    BY <1>6 DEF Persist, Calls
  <2>1. /\ pc[c] = "persist"
        /\ temp' = [temp EXCEPT ![c] = "none"]
        /\ UNCHANGED <<call, stats, calls, faults>>
    BY <1>6 DEF Persist
  <2>2. CASE Exists(call[c].of)
    <3>1. /\ pc' = [pc EXCEPT ![c] = "return"]
          /\ result' = [result EXCEPT ![c] = "ok"]
          /\ UNCHANGED <<blob, maker>>
      BY <1>6, <2>2 DEF Persist
    <3> QED
      BY <2>1, <3>1
  <2>3. CASE ~ Exists(call[c].of)
    <3>1. /\ pc' = [pc EXCEPT ![c] = "record"]
          /\ blob' = [blob EXCEPT ![call[c].of] = temp[c]]
          /\ maker' = [maker EXCEPT ![call[c].of] = @ \cup {c}]
          /\ UNCHANGED result
      BY <1>6, <2>3 DEF Persist
    <3> QED
      BY <2>0, <2>1, <3>1
  <2> QED
    BY <2>2, <2>3
<1>7. ASSUME NEW c \in Callers, RecordWrite(c) PROVE Inv'
  <2>1. stats' \in [Processes -> [hits : Nat, misses : Nat, written : Nat]]
    BY <1>7 DEF RecordWrite
  <2> QED
    BY <1>7, <2>1 DEF RecordWrite
<1>8. ASSUME NEW c \in Callers, PersistFails(c) PROVE Inv'
  BY <1>8 DEF PersistFails
<1>9. ASSUME NEW c \in Callers, CheckAgain(c) PROVE Inv'
  BY <1>9 DEF CheckAgain
<1>10. ASSUME NEW c \in Callers, CheckAgainErrs(c) PROVE Inv'
  BY <1>10 DEF CheckAgainErrs
<1>11. ASSUME NEW c \in Callers, Look(c) PROVE Inv'
  BY <1>11 DEF Look, Exists, Calls
<1>12. ASSUME NEW c \in Callers, Count(c) PROVE Inv'
  <2>1. stats' \in [Processes -> [hits : Nat, misses : Nat, written : Nat]]
    BY <1>12 DEF Count
  <2> QED
    BY <1>12, <2>1 DEF Count
<1>13. ASSUME NEW c \in Callers, Fail(c) PROVE Inv'
  BY <1>13 DEF Fail
<1>14. ASSUME NEW c \in Callers, Return(c) PROVE Inv'
  BY <1>14 DEF Return
<1>15. ASSUME NEW p \in Processes, Crash(p) PROVE Inv'
  BY <1>15 DEF Crash, Zero
<1>16. CASE UNCHANGED vars
  BY <1>16 DEF vars, Exists
<1> QED
  BY <1>1, <1>2, <1>3, <1>4, <1>5, <1>6, <1>7, <1>8, <1>9, <1>10, <1>11, <1>12, <1>13,
     <1>14, <1>15, <1>16 DEF Next, CallerStep, Finished

LEMMA Invariance == Spec => []Inv
BY InitInv, StepInv, PTL DEF Spec

\* The files, counters and steps of any store keep their types; the final path
\* of a content is absent or whole, never a part, whoever races or dies.
THEOREM BlobTypeCorrect == Spec => []TypeOK
BY Invariance, PTL DEF Inv

-----------------------------------------------------------------------------
(* The refinement.  A put takes effect when it finds the file or makes it, *)
(* a get or has when it looks; every other step of a call is a stutter.    *)

Stored == {k \in Contents : blob[k] = "whole"}
Outcome == [c \in Callers |-> Effect(c)]

LEMMA InitMap == Init => Map!Init
BY DEF Init, Map!Init, Effect, NoCall, Map!NoCall

LEMMA EffectIs ==
  ASSUME Inv, NEW c \in Callers
  PROVE  /\ result[c] = "whole" => Effect(c) = "found"
         /\ pc[c] = "record" => Effect(c) = "ok"
         /\ result[c] # "whole" /\ pc[c] # "record" => Effect(c) = result[c]
BY DEF Inv, ControlOK, TypeOK, Effect

LEMMA ExistsIs ==
  ASSUME Inv, NEW k \in Contents
  PROVE  Exists(k) = (k \in Stored)
BY DEF Inv, TypeOK, Exists, Stored

LEMMA StepMap == Inv /\ Inv' /\ [Next]_vars => [Map!Next]_(Map!vars)
<1> SUFFICES ASSUME Inv, Inv', [Next]_vars
             PROVE  Map!Next \/ UNCHANGED <<Stored, call, Outcome>>
  BY DEF Map!vars, Stored, Outcome
<1>a. \A c \in Callers :
        /\ (result[c] = "whole" => Effect(c) = "found")
        /\ (pc[c] = "record" => Effect(c) = "ok")
        /\ (result[c] # "whole" /\ pc[c] # "record" => Effect(c) = result[c])
  BY EffectIs
<1>b. \A c \in Callers :
        /\ (result'[c] = "whole" => Effect(c)' = "found")
        /\ (pc'[c] = "record" => Effect(c)' = "ok")
        /\ (result'[c] # "whole" /\ pc'[c] # "record" => Effect(c)' = result'[c])
  BY DEF Inv, ControlOK, TypeOK, Effect
<1>c. /\ pc \in [Callers -> States] /\ result \in [Callers -> {"none", "ok", "whole", "absent", "error"}]
      /\ call \in [Callers -> Calls \cup {NoCall}] /\ blob \in [Contents -> {"absent", "whole"}]
      /\ Home \in [Callers -> Processes]
  BY BlobAssumption DEF Inv, TypeOK
<1> USE DEF Goto, Finish, files, control, history, Stored, Outcome
\* A caller's step leaves the effect of every other caller's call alone.
<1>d. ASSUME NEW c \in Callers, NEW x, Effect(c)' = x,
             \A d \in Callers \ {c} : pc'[d] = pc[d] /\ result'[d] = result[d]
      PROVE  Outcome' = [Outcome EXCEPT ![c] = x]
  <2>1. \A d \in Callers \ {c} : Effect(d)' = Effect(d)
    BY <1>d DEF Effect
  <2> QED
    BY <2>1, <1>d
<1>1. ASSUME NEW c \in Callers, NEW op \in Ops, NEW k \in Contents, Invoke(c, op, k)
      PROVE  Map!Next
  <2>1. Effect(c) = "none" /\ Effect(c)' = "none"
    BY <1>a, <1>b, <1>c, <1>1 DEF Invoke, Inv, ControlOK, Ops
  <2>2. Outcome' = [Outcome EXCEPT ![c] = "none"]
    BY <1>c, <1>d, <1>1, <2>1 DEF Invoke
  <2>3. Outcome' = Outcome
    BY <2>1, <2>2
  <2>4. Stored' = Stored /\ call[c] = NoCall
    BY <1>1 DEF Invoke, Inv, ControlOK
  <2> QED
    BY <1>1, <2>3, <2>4 DEF Invoke, Map!Next, Map!Invoke, Map!Ops, Ops, Map!NoCall, NoCall
<1>2. ASSUME NEW c \in Callers, CheckTargetErrs(c)
      PROVE  UNCHANGED <<Stored, call, Outcome>>
  <2>1. Effect(c) = "none" /\ Effect(c)' = "none"
    BY <1>a, <1>b, <1>c, <1>2 DEF CheckTargetErrs, Inv, ControlOK, Putting
  <2>2. Outcome' = [Outcome EXCEPT ![c] = "none"]
    BY <1>c, <1>d, <1>2, <2>1 DEF CheckTargetErrs
  <2> QED
    BY <1>2, <2>1, <2>2 DEF CheckTargetErrs
<1>3. ASSUME NEW c \in Callers, CreateTemp(c)
      PROVE  UNCHANGED <<Stored, call, Outcome>>
  <2>1. Effect(c) = "none" /\ Effect(c)' = "none"
    BY <1>a, <1>b, <1>c, <1>3 DEF CreateTemp, Inv, ControlOK, Putting
  <2>2. Outcome' = [Outcome EXCEPT ![c] = "none"]
    BY <1>c, <1>d, <1>3, <2>1 DEF CreateTemp
  <2> QED
    BY <1>3, <2>1, <2>2 DEF CreateTemp
<1>4. ASSUME NEW c \in Callers, FillTemp(c)
      PROVE  UNCHANGED <<Stored, call, Outcome>>
  <2>1. Effect(c) = "none" /\ Effect(c)' = "none"
    BY <1>a, <1>b, <1>c, <1>4 DEF FillTemp, Inv, ControlOK, Putting
  <2>2. Outcome' = [Outcome EXCEPT ![c] = "none"]
    BY <1>c, <1>d, <1>4, <2>1 DEF FillTemp
  <2> QED
    BY <1>4, <2>1, <2>2 DEF FillTemp
<1>5. ASSUME NEW c \in Callers, PersistFails(c)
      PROVE  UNCHANGED <<Stored, call, Outcome>>
  <2>1. Effect(c) = "none" /\ Effect(c)' = "none"
    BY <1>a, <1>b, <1>c, <1>5 DEF PersistFails, Inv, ControlOK, Putting
  <2>2. Outcome' = [Outcome EXCEPT ![c] = "none"]
    BY <1>c, <1>d, <1>5, <2>1 DEF PersistFails
  <2> QED
    BY <1>5, <2>1, <2>2 DEF PersistFails
<1>6. ASSUME NEW c \in Callers, RecordWrite(c)
      PROVE  UNCHANGED <<Stored, call, Outcome>>
  <2>1. Effect(c) = "ok" /\ Effect(c)' = "ok"
    BY <1>a, <1>b, <1>c, <1>6 DEF RecordWrite, Inv, ControlOK, Putting
  <2>2. Outcome' = [Outcome EXCEPT ![c] = "ok"]
    BY <1>c, <1>d, <1>6, <2>1 DEF RecordWrite
  <2> QED
    BY <1>6, <2>1, <2>2 DEF RecordWrite
<1>7. ASSUME NEW c \in Callers, Count(c)
      PROVE  UNCHANGED <<Stored, call, Outcome>>
  <2>1. Effect(c)' = Effect(c)
    BY <1>a, <1>b, <1>c, <1>7 DEF Count, Inv, ControlOK
  <2>2. Outcome' = [Outcome EXCEPT ![c] = Effect(c)]
    BY <1>c, <1>d, <1>7, <2>1 DEF Count
  <2> QED
    BY <1>7, <2>1, <2>2 DEF Count
\* A put decided by the file that is there, or made now.
<1>p. ASSUME NEW c \in Callers, Effect(c) = "none", pc[c] \in Putting, call' = call,
             Stored' = Stored \cup {call[c].of},
             Outcome' = [Outcome EXCEPT ![c] = "ok"]
      PROVE  Map!Next
  <2>1. Map!Put(c)
    BY <1>p DEF Map!Put, Map!Decide, Map!NoCall, NoCall, Inv, ControlOK, Putting, Calls
  <2> QED
    BY <2>1 DEF Map!Next
<1>f. ASSUME NEW c \in Callers, Effect(c) = "none", pc[c] # "idle", call' = call,
             Stored' = Stored,
             Outcome' = [Outcome EXCEPT ![c] = "error"]
      PROVE  Map!Next
  <2>1. Map!Fail(c)
    BY <1>f DEF Map!Fail, Map!Decide, Map!NoCall, NoCall, Inv, ControlOK, Calls, Ops
  <2> QED
    BY <2>1 DEF Map!Next
<1>8. ASSUME NEW c \in Callers, CheckTarget(c)
      PROVE  Map!Next \/ UNCHANGED <<Stored, call, Outcome>>
  <2>1. pc[c] = "put" /\ call[c] \in Calls /\ call' = call /\ Stored' = Stored
    BY <1>8 DEF CheckTarget, Inv, ControlOK
  <2>2. Effect(c) = "none"
    BY <1>a, <2>1 DEF Inv, ControlOK
  <2>3. CASE Exists(call[c].of)
    <3>1. Effect(c)' = "ok"
      BY <1>b, <1>c, <1>8, <2>3 DEF CheckTarget
    <3>2. Outcome' = [Outcome EXCEPT ![c] = "ok"]
      BY <1>c, <1>d, <1>8, <2>3, <3>1 DEF CheckTarget
    <3>3. call[c].of \in Stored
      BY <2>1, <2>3, ExistsIs DEF Calls
    <3> QED
      BY <1>p, <2>1, <2>2, <3>2, <3>3 DEF Putting
  <2>4. CASE ~ Exists(call[c].of)
    <3>1. Effect(c)' = "none"
      BY <1>b, <1>c, <1>8, <2>2, <2>4 DEF CheckTarget, Inv, ControlOK
    <3>2. Outcome' = [Outcome EXCEPT ![c] = "none"]
      BY <1>c, <1>d, <1>8, <2>4, <3>1 DEF CheckTarget
    <3> QED
      BY <2>1, <2>2, <3>2
  <2> QED
    BY <2>3, <2>4
<1>9. ASSUME NEW c \in Callers, Persist(c)
      PROVE  Map!Next
  <2>1. pc[c] = "persist" /\ call[c] \in Calls /\ call' = call /\ temp[c] = "whole"
    BY <1>9 DEF Persist, Inv, ControlOK
  <2>2. Effect(c) = "none"
    BY <1>a, <2>1 DEF Inv, ControlOK
  <2>3. Effect(c)' = "ok" /\ \A d \in Callers \ {c} : pc'[d] = pc[d] /\ result'[d] = result[d]
    <3>1. CASE Exists(call[c].of)
      BY <1>b, <1>c, <1>9, <3>1 DEF Persist
    <3>2. CASE ~ Exists(call[c].of)
      BY <1>b, <1>c, <1>9, <3>2 DEF Persist
    <3> QED
      BY <3>1, <3>2
  <2>4. Outcome' = [Outcome EXCEPT ![c] = "ok"]
    BY <1>d, <2>3
  <2>5. Stored' = Stored \cup {call[c].of}
    <3>1. CASE Exists(call[c].of)
      BY <1>9, <2>1, <3>1, ExistsIs DEF Persist, Calls
    <3>2. CASE ~ Exists(call[c].of)
      BY <1>c, <1>9, <2>1, <3>2 DEF Persist, Calls
    <3> QED
      BY <3>1, <3>2
  <2> QED
    BY <1>p, <2>1, <2>2, <2>4, <2>5 DEF Putting
<1>10. ASSUME NEW c \in Callers, CheckAgain(c)
      PROVE  Map!Next
  <2>1. /\ pc[c] = "again" /\ call[c] \in Calls /\ call' = call /\ Stored' = Stored
        /\ result' = [result EXCEPT ![c] = IF Exists(call[c].of) THEN "ok" ELSE "error"]
        /\ pc' = [pc EXCEPT ![c] = "return"]
    BY <1>10 DEF CheckAgain, Inv, ControlOK
  <2>2. Effect(c) = "none"
    BY <1>a, <2>1 DEF Inv, ControlOK
  <2>3. CASE Exists(call[c].of)
    <3>1. Effect(c)' = "ok"
      BY <1>b, <1>c, <2>1, <2>3
    <3>2. Outcome' = [Outcome EXCEPT ![c] = "ok"]
      BY <1>c, <1>d, <2>1, <3>1
    <3>3. call[c].of \in Stored
      BY <2>1, <2>3, ExistsIs DEF Calls
    <3> QED
      BY <1>p, <2>1, <2>2, <3>2, <3>3 DEF Putting
  <2>4. CASE ~ Exists(call[c].of)
    <3>1. Effect(c)' = "error"
      BY <1>b, <1>c, <2>1, <2>4
    <3>2. Outcome' = [Outcome EXCEPT ![c] = "error"]
      BY <1>c, <1>d, <2>1, <3>1
    <3> QED
      BY <1>f, <2>1, <2>2, <3>2
  <2> QED
    BY <2>3, <2>4
<1>11. ASSUME NEW c \in Callers, CheckAgainErrs(c) \/ Fail(c)
      PROVE  Map!Next
  <2>1. /\ pc[c] \in {"again", "create", "fill", "get", "has"} /\ call' = call /\ Stored' = Stored
        /\ result' = [result EXCEPT ![c] = "error"]
        /\ pc' = [pc EXCEPT ![c] = "return"]
    BY <1>11 DEF CheckAgainErrs, Fail
  <2>2. Effect(c) = "none" /\ Effect(c)' = "error"
    BY <1>a, <1>b, <1>c, <2>1 DEF Inv, ControlOK
  <2>3. Outcome' = [Outcome EXCEPT ![c] = "error"]
    BY <1>c, <1>d, <2>1, <2>2
  <2> QED
    BY <1>f, <2>1, <2>2, <2>3
<1>12. ASSUME NEW c \in Callers, Look(c)
      PROVE  Map!Next
  <2>1. /\ call[c] \in Calls /\ call[c].op \in {"get", "has"} /\ call' = call /\ Stored' = Stored
        /\ result[c] = "none" /\ pc[c] \in {"get", "has"}
    BY <1>12 DEF Look, Inv, ControlOK
  <2>2. pc'[c] \in {"count", "return"} /\ \A d \in Callers \ {c} : pc'[d] = pc[d] /\ result'[d] = result[d]
    BY <1>c, <1>12 DEF Look
  <2>3. result'[c] = IF call[c].of \in Stored THEN "whole" ELSE "absent"
    BY <1>c, <1>12, <2>1, ExistsIs DEF Look, Calls
  <2>4. Effect(c) = "none" /\ Effect(c)' = IF call[c].of \in Stored THEN "found" ELSE "absent"
    BY <1>a, <1>b, <2>1, <2>2, <2>3
  <2>5. Outcome' = [Outcome EXCEPT ![c] = IF call[c].of \in Stored THEN "found" ELSE "absent"]
    BY <1>d, <2>2, <2>4
  <2>6. Map!Look(c)
    BY <2>1, <2>4, <2>5 DEF Map!Look, Map!Decide, Map!NoCall, Calls
  <2> QED
    BY <2>6 DEF Map!Next
<1>13. ASSUME NEW c \in Callers, Return(c)
      PROVE  Map!Next
  <2>1. Effect(c) # "none" /\ Effect(c)' = "none"
    BY <1>a, <1>b, <1>c, <1>13 DEF Return, Inv, ControlOK
  <2>2. Outcome' = [Outcome EXCEPT ![c] = "none"]
    BY <1>c, <1>d, <1>13, <2>1 DEF Return
  <2>3. Map!Respond(c)
    BY <1>13, <2>1, <2>2 DEF Map!Respond, Return, Map!NoCall, NoCall
  <2> QED
    BY <2>3 DEF Map!Next
<1>14. ASSUME NEW p \in Processes, Crash(p)
      PROVE  Map!Next
  <2> DEFINE gone == {c \in Callers : Home[c] = p}
  <2>1. \A c \in gone : Effect(c)' = "none"
    BY <1>14 DEF Crash, Effect
  <2>2. \A c \in Callers \ gone : Effect(c)' = Effect(c)
    BY <1>14 DEF Crash, Effect
  <2>3. Map!Abort(gone)
    BY <1>14, <2>1, <2>2 DEF Map!Abort, Crash, Map!NoCall, NoCall
  <2> QED
    BY <2>3 DEF Map!Next
<1>15. CASE UNCHANGED vars
  BY <1>15 DEF vars, Effect
<1> QED
  BY <1>1, <1>2, <1>3, <1>4, <1>5, <1>6, <1>7, <1>8, <1>9, <1>10, <1>11, <1>12, <1>13,
     <1>14, <1>15 DEF Next, CallerStep, Finished

\* fs.rs: the directory behaves as the map of the trait's contract, each put,
\* get and has in one instant, whatever races, failures and crashes there are.
THEOREM MapImplemented == Spec => ImplementsMap
<1>1. Spec => Map!Spec
  BY InitMap, StepMap, Invariance, PTL DEF Spec, Map!Spec
<1> QED
  BY <1>1 DEF ImplementsMap

-----------------------------------------------------------------------------
(* The counter of blobs.  A file has one maker, which is the caller whose  *)
(* persist found nothing; it owes its process one count until it records.  *)

MadeBy(p) == {k \in Contents : \E c \in maker[k] : Home[c] = p}
DueOf(p) == {c \in Callers : Home[c] = p /\ pc[c] = "record"}

CountOK ==
  /\ \A k \in Contents : maker[k] # {} => blob[k] = "whole"
  /\ \A k \in Contents : \A c, d \in maker[k] : c = d
  /\ \A p \in Processes :
       /\ IsFiniteSet(MadeBy(p)) /\ IsFiniteSet(DueOf(p))
       /\ Cardinality(MadeBy(p)) = stats[p].written + Cardinality(DueOf(p))

LEMMA InitCount == Init => CountOK
<1> SUFFICES ASSUME Init PROVE CountOK
  OBVIOUS
<1>1. \A p \in Processes : MadeBy(p) = {} /\ DueOf(p) = {} /\ stats[p].written = 0
  BY DEF Init, MadeBy, DueOf, Zero
<1> QED
  BY <1>1, FS_EmptySet DEF Init, CountOK

LEMMA StepCount == Inv /\ CountOK /\ [Next]_vars => CountOK'
<1> SUFFICES ASSUME Inv, CountOK, [Next]_vars PROVE CountOK'
  OBVIOUS
<1> USE BlobAssumption DEF Goto, Finish, files, control, history
<1>t. /\ pc \in [Callers -> States] /\ blob \in [Contents -> {"absent", "whole"}]
      /\ maker \in [Contents -> SUBSET Callers]
      /\ stats \in [Processes -> [hits : Nat, misses : Nat, written : Nat]]
      /\ Home \in [Callers -> Processes]
  BY DEF Inv, TypeOK
\* Steps that make no file, record none and end no recording.
<1>q. ASSUME blob' = blob, maker' = maker,
             \A c \in Callers : (pc'[c] = "record") <=> (pc[c] = "record"),
             \A p \in Processes : stats'[p].written = stats[p].written
      PROVE  CountOK'
  <2>1. \A p \in Processes : MadeBy(p)' = MadeBy(p)
    BY <1>q DEF MadeBy
  <2>2. \A p \in Processes : DueOf(p)' = DueOf(p)
    BY <1>q DEF DueOf
  <2> QED
    BY <1>q, <2>1, <2>2 DEF CountOK
<1>1. ASSUME NEW c \in Callers, NEW op \in Ops, NEW k \in Contents, Invoke(c, op, k)
      PROVE  CountOK'
  BY <1>t, <1>q, <1>1 DEF Invoke, Ops
<1>2. ASSUME NEW c \in Callers, CheckTarget(c)
      PROVE  CountOK'
  <2>1. blob' = blob /\ maker' = maker /\ stats' = stats
    BY <1>2 DEF CheckTarget
  <2>2. pc[c] = "put" /\ (pc' = [pc EXCEPT ![c] = "return"] \/ pc' = [pc EXCEPT ![c] = "create"])
    BY <1>2 DEF CheckTarget
  <2> QED
    BY <1>t, <1>q, <2>1, <2>2
<1>3. ASSUME NEW c \in Callers,
             \/ CheckTargetErrs(c) \/ CreateTemp(c) \/ FillTemp(c) \/ PersistFails(c)
             \/ CheckAgain(c) \/ CheckAgainErrs(c) \/ Look(c) \/ Fail(c) \/ Return(c)
      PROVE  CountOK'
  <2>1. blob' = blob /\ maker' = maker /\ stats' = stats
    BY <1>3 DEF CheckTargetErrs, CreateTemp, FillTemp, PersistFails, CheckAgain,
                CheckAgainErrs, Look, Fail, Return
  <2>2. pc[c] # "record" /\ \E next \in States \ {"record"} : pc' = [pc EXCEPT ![c] = next]
    BY <1>3 DEF CheckTargetErrs, CreateTemp, FillTemp, PersistFails, CheckAgain,
                CheckAgainErrs, Look, Fail, Return, States
  <2> QED
    BY <1>t, <1>q, <2>1, <2>2
<1>4. ASSUME NEW c \in Callers, Count(c)
      PROVE  CountOK'
  <2>1. \A p \in Processes : stats'[p].written = stats[p].written
    BY <1>t, <1>4 DEF Count
  <2> QED
    BY <1>t, <1>q, <1>4, <2>1 DEF Count
<1>5. ASSUME NEW c \in Callers, Persist(c)
      PROVE  CountOK'
  <2> DEFINE k == call[c].of
  <2>1. k \in Contents
    BY <1>5 DEF Persist, Inv, ControlOK, Putting, Calls
  <2>2. CASE Exists(k)
    <3>1. /\ blob' = blob /\ maker' = maker /\ stats' = stats
          /\ pc[c] = "persist" /\ pc' = [pc EXCEPT ![c] = "return"]
      BY <1>5, <2>2 DEF Persist
    <3> QED
      BY <1>t, <1>q, <3>1
  <2>3. CASE ~ Exists(k)
    <3> HIDE DEF k
    <3>1. /\ blob' = [blob EXCEPT ![k] = "whole"]
          /\ maker' = [maker EXCEPT ![k] = @ \cup {c}]
          /\ pc[c] = "persist" /\ pc' = [pc EXCEPT ![c] = "record"]
          /\ stats' = stats
      BY <1>5, <2>3 DEF Persist, Inv, ControlOK, k
    <3>2. maker[k] = {}
      BY <2>1, <2>3 DEF CountOK, Exists
    <3>3. /\ \A x \in Contents : maker'[x] # {} => blob'[x] = "whole"
          /\ \A x \in Contents : \A d, e \in maker'[x] : d = e
      BY <1>t, <2>1, <3>1, <3>2 DEF CountOK
    <3>4. /\ MadeBy(Home[c])' = MadeBy(Home[c]) \cup {k} /\ k \notin MadeBy(Home[c])
          /\ DueOf(Home[c])' = DueOf(Home[c]) \cup {c} /\ c \notin DueOf(Home[c])
      BY <1>t, <2>1, <3>1, <3>2 DEF MadeBy, DueOf
    <3>5. \A p \in Processes \ {Home[c]} : MadeBy(p)' = MadeBy(p) /\ DueOf(p)' = DueOf(p)
      BY <1>t, <2>1, <3>1, <3>2 DEF MadeBy, DueOf
    <3>6. ASSUME NEW p \in Processes
          PROVE  /\ IsFiniteSet(MadeBy(p)') /\ IsFiniteSet(DueOf(p)')
                 /\ Cardinality(MadeBy(p)') = stats'[p].written + Cardinality(DueOf(p)')
      <4>1. CASE p = Home[c]
        <5>1. /\ IsFiniteSet(MadeBy(p)) /\ IsFiniteSet(DueOf(p)) /\ stats[p].written \in Nat
              /\ Cardinality(MadeBy(p)) = stats[p].written + Cardinality(DueOf(p))
          BY <1>t DEF CountOK
        <5>2. /\ IsFiniteSet(MadeBy(p)') /\ Cardinality(MadeBy(p)') = Cardinality(MadeBy(p)) + 1
              /\ IsFiniteSet(DueOf(p)') /\ Cardinality(DueOf(p)') = Cardinality(DueOf(p)) + 1
          BY <3>4, <4>1, <5>1, FS_AddElement
        <5>3. Cardinality(DueOf(p)) \in Nat
          BY <5>1, FS_CardinalityType
        <5> QED
          BY <3>1, <5>1, <5>2, <5>3
      <4>2. CASE p # Home[c]
        BY <3>1, <3>5, <4>2 DEF CountOK
      <4> QED
        BY <4>1, <4>2
    <3> QED
      BY <3>3, <3>6 DEF CountOK
  <2> QED
    BY <2>2, <2>3
<1>6. ASSUME NEW c \in Callers, RecordWrite(c)
      PROVE  CountOK'
  <2>1. /\ blob' = blob /\ maker' = maker
        /\ pc[c] = "record" /\ pc' = [pc EXCEPT ![c] = "return"]
        /\ stats' = [stats EXCEPT ![Home[c]].written = @ + 1]
    BY <1>6 DEF RecordWrite
  <2>2. \A p \in Processes : MadeBy(p)' = MadeBy(p)
    BY <2>1 DEF MadeBy
  <2>3. ASSUME NEW p \in Processes
        PROVE  /\ IsFiniteSet(DueOf(p)')
               /\ Cardinality(MadeBy(p)) = stats'[p].written + Cardinality(DueOf(p)')
    <3>1. /\ IsFiniteSet(MadeBy(p)) /\ IsFiniteSet(DueOf(p)) /\ stats[p].written \in Nat
          /\ Cardinality(MadeBy(p)) = stats[p].written + Cardinality(DueOf(p))
      BY <1>t DEF CountOK
    <3>2. CASE p = Home[c]
      <4>1. stats'[p].written = stats[p].written + 1
        BY <1>t, <2>1, <3>2
      <4>2. c \in DueOf(p) /\ DueOf(p)' = DueOf(p) \ {c}
        BY <1>t, <2>1, <3>2 DEF DueOf
      <4>3. IsFiniteSet(DueOf(p)') /\ Cardinality(DueOf(p)') = Cardinality(DueOf(p)) - 1
        BY <3>1, <4>2, FS_RemoveElement
      <4>4. Cardinality(DueOf(p)) \in Nat
        BY <3>1, FS_CardinalityType
      <4> QED
        BY <3>1, <4>1, <4>3, <4>4
    <3>3. CASE p # Home[c]
      <4>1. stats'[p].written = stats[p].written
        BY <1>t, <2>1, <3>3
      <4>2. DueOf(p)' = DueOf(p)
        BY <1>t, <2>1, <3>3 DEF DueOf
      <4> QED
        BY <3>1, <4>1, <4>2
    <3> QED
      BY <3>2, <3>3
  <2>4. /\ \A k \in Contents : maker'[k] # {} => blob'[k] = "whole"
        /\ \A k \in Contents : \A d, e \in maker'[k] : d = e
    BY <2>1 DEF CountOK
  <2> QED
    BY <2>2, <2>3, <2>4 DEF CountOK
<1>7. ASSUME NEW q \in Processes, Crash(q)
      PROVE  CountOK'
  <2>1. /\ blob' = blob
        /\ maker' = [k \in Contents |-> {c \in maker[k] : Home[c] # q}]
        /\ pc' = [c \in Callers |-> IF Home[c] = q THEN "idle" ELSE pc[c]]
        /\ stats' = [stats EXCEPT ![q] = [hits |-> 0, misses |-> 0, written |-> 0]]
    BY <1>7 DEF Crash, Zero
  <2>2. /\ \A k \in Contents : maker'[k] # {} => blob'[k] = "whole"
        /\ \A k \in Contents : \A d, e \in maker'[k] : d = e
    BY <1>t, <2>1 DEF CountOK
  <2>3. MadeBy(q)' = {} /\ DueOf(q)' = {} /\ stats'[q].written = 0
    BY <1>t, <2>1 DEF MadeBy, DueOf
  <2>4. \A p \in Processes \ {q} :
          MadeBy(p)' = MadeBy(p) /\ DueOf(p)' = DueOf(p) /\ stats'[p] = stats[p]
    BY <1>t, <2>1 DEF MadeBy, DueOf
  <2>5. ASSUME NEW p \in Processes
        PROVE  /\ IsFiniteSet(MadeBy(p)') /\ IsFiniteSet(DueOf(p)')
               /\ Cardinality(MadeBy(p)') = stats'[p].written + Cardinality(DueOf(p)')
    <3>1. CASE p = q
      BY <2>3, <3>1, FS_EmptySet
    <3>2. CASE p # q
      BY <2>4, <3>2 DEF CountOK
    <3> QED
      BY <3>1, <3>2
  <2> QED
    BY <2>2, <2>5 DEF CountOK
<1>8. CASE UNCHANGED vars
  BY <1>q, <1>8 DEF vars
<1> QED
  BY <1>1, <1>2, <1>3, <1>4, <1>5, <1>6, <1>7, <1>8 DEF Next, CallerStep, Finished

LEMMA CountCounts == CountOK => WritesCounted
<1> SUFFICES ASSUME CountOK PROVE WritesCounted
  OBVIOUS
<1>1. ASSUME NEW k \in Contents
      PROVE  Cardinality(maker[k]) <= 1
  <2>1. CASE maker[k] = {}
    BY <2>1, FS_EmptySet
  <2>2. CASE maker[k] # {}
    <3>1. PICK c \in maker[k] : TRUE
      BY <2>2
    <3>2. maker[k] = {c}
      BY <3>1 DEF CountOK
    <3>3. Cardinality({c}) = 1
      BY FS_Singleton
    <3> QED
      BY <3>2, <3>3
  <2> QED
    BY <2>1, <2>2
<1> QED
  BY <1>1 DEF CountOK, WritesCounted, MadeBy, DueOf

\* stats.rs: a file is made by one put alone, and blobs_written is the number
\* of files the process made, short of those whose put has not recorded yet.
THEOREM WritesAreCounted == Spec => []WritesCounted
<1>1. Spec => []CountOK
  BY InitInv, InitCount, StepInv, StepCount, Invariance, PTL DEF Spec
<1> QED
  BY <1>1, CountCounts, PTL
=============================================================================
