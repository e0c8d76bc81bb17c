------------------------------ MODULE BlobStore -------------------------------
(***************************************************************************)
(* The content-addressed cache of blobs: `FsBlobStore` and its counters    *)
(* (crates/polyref-graph/src/blobstore/fs.rs, stats.rs), opened by several *)
(* processes on one directory and called by several threads of each.       *)
(*                                                                         *)
(* A step is one system call or one atomic counter, since nothing is       *)
(* locked.  A blob's path is its content's digest, so a file is named here *)
(* by the content it should have.                                          *)
(***************************************************************************)
EXTENDS Naturals, FiniteSets

CONSTANTS
  Processes, Callers, Contents,
  Home,      \* the process each caller is a thread of
  MaxCalls,  \* bound: calls begun
  MaxFaults  \* bound: failed system calls and crashes

ASSUME BlobAssumption ==
  /\ Home \in [Callers -> Processes]
  /\ MaxCalls \in Nat
  /\ MaxFaults \in Nat

VARIABLES
  blob,     \* what the final path of a content holds
  temp,     \* what a caller's NamedTempFile holds
  pc,       \* a caller's next step
  call,     \* what it asked for, as in BlobMap
  result,   \* what its call will return
  stats,    \* a process's AtomicCacheStats
  maker,    \* the caller whose persist made a content's file (history)
  calls,    \* calls begun (history)
  faults    \* failed system calls and crashes (history)

files == <<blob, temp>>
control == <<pc, call, result>>
history == <<maker, calls, faults>>
vars == <<files, control, stats, history>>

Ops == {"put", "get", "has"}
Calls == [op : Ops, of : Contents]
NoCall == [op |-> "none"]

Zero == [hits |-> 0, misses |-> 0, written |-> 0]
Exists(k) == blob[k] # "absent"

-----------------------------------------------------------------------------
(* Steps of a call.                                                        *)

Goto(c, next) == pc' = [pc EXCEPT ![c] = next]

Finish(c, answer) ==
  /\ Goto(c, "return")
  /\ result' = [result EXCEPT ![c] = answer]

Invoke(c, op, k) ==
  /\ pc[c] = "idle"
  /\ calls < MaxCalls
  /\ calls' = calls + 1
  /\ call' = [call EXCEPT ![c] = [op |-> op, of |-> k]]
  /\ Goto(c, op)
  /\ UNCHANGED <<files, result, stats, maker, faults>>

\* put: target.exists().
CheckTarget(c) ==
  /\ pc[c] = "put"
  /\ IF Exists(call[c].of)
     THEN Finish(c, "ok")
     ELSE Goto(c, "create") /\ UNCHANGED result
  /\ UNCHANGED <<files, call, stats, history>>

\* ... which takes any error for absence.
CheckTargetErrs(c) ==
  /\ pc[c] = "put"
  /\ faults < MaxFaults
  /\ faults' = faults + 1
  /\ Goto(c, "create")
  /\ UNCHANGED <<files, call, result, stats, maker, calls>>

\* put: create_dir_all(shard) and NamedTempFile::new_in.
CreateTemp(c) ==
  /\ pc[c] = "create"
  /\ temp' = [temp EXCEPT ![c] = "part"]
  /\ Goto(c, "fill")
  /\ UNCHANGED <<blob, call, result, stats, history>>

\* put: write_all and flush.
FillTemp(c) ==
  /\ pc[c] = "fill"
  /\ temp' = [temp EXCEPT ![c] = "whole"]
  /\ Goto(c, "persist")
  /\ UNCHANGED <<blob, call, result, stats, history>>

\* Seeded fault: persist replaces the file another put has made.
PersistClobbers(c) ==
  /\ pc[c] = "persist"
  /\ temp' = [temp EXCEPT ![c] = "none"]
  /\ blob' = [blob EXCEPT ![call[c].of] = temp[c]]
  /\ maker' = [maker EXCEPT ![call[c].of] = @ \cup {c}]
  /\ Goto(c, "record")
  /\ UNCHANGED <<call, result, stats, calls, faults>>

\* put: persist_noclobber makes the file, unless there is one.
Persist(c) ==
  /\ pc[c] = "persist"
  /\ temp' = [temp EXCEPT ![c] = "none"]
  /\ IF Exists(call[c].of)
     THEN Finish(c, "ok") /\ UNCHANGED <<blob, maker>>
     ELSE /\ blob' = [blob EXCEPT ![call[c].of] = temp[c]]
          /\ maker' = [maker EXCEPT ![call[c].of] = @ \cup {c}]
          /\ Goto(c, "record")
          /\ UNCHANGED result
  /\ UNCHANGED <<call, stats, calls, faults>>

RecordWrite(c) ==
  /\ pc[c] = "record"
  /\ stats' = [stats EXCEPT ![Home[c]].written = @ + 1]
  /\ Finish(c, "ok")
  /\ UNCHANGED <<files, call, history>>

\* persist_noclobber failed otherwise: the temp file goes, and target.exists()
\* is asked once more.
PersistFails(c) ==
  /\ pc[c] = "persist"
  /\ faults < MaxFaults
  /\ faults' = faults + 1
  /\ temp' = [temp EXCEPT ![c] = "none"]
  /\ Goto(c, "again")
  /\ UNCHANGED <<blob, call, result, stats, maker, calls>>

\* Seeded fault: any failure of persist is taken for a lost race.
CheckAgainTrusts(c) ==
  /\ pc[c] = "again"
  /\ Finish(c, "ok")
  /\ UNCHANGED <<files, call, stats, history>>

CheckAgain(c) ==
  /\ pc[c] = "again"
  /\ Finish(c, IF Exists(call[c].of) THEN "ok" ELSE "error")
  /\ UNCHANGED <<files, call, stats, history>>

CheckAgainErrs(c) ==
  /\ pc[c] = "again"
  /\ faults < MaxFaults
  /\ faults' = faults + 1
  /\ Finish(c, "error")
  /\ UNCHANGED <<files, call, stats, maker, calls>>

\* get and has: one read of the target.
Look(c) ==
  /\ pc[c] \in {"get", "has"}
  /\ result' = [result EXCEPT ![c] = IF Exists(call[c].of) THEN blob[call[c].of]
                                     ELSE "absent"]
  /\ Goto(c, IF pc[c] = "get" THEN "count" ELSE "return")
  /\ UNCHANGED <<files, call, stats, history>>

\* get: record_hit or record_miss.
Count(c) ==
  /\ pc[c] = "count"
  /\ stats' = IF result[c] = "absent"
              THEN [stats EXCEPT ![Home[c]].misses = @ + 1]
              ELSE [stats EXCEPT ![Home[c]].hits = @ + 1]
  /\ Goto(c, "return")
  /\ UNCHANGED <<files, call, result, history>>

\* Any system call but that of persist fails: `?`.
Fail(c) ==
  /\ pc[c] \in {"create", "fill", "get", "has"}
  /\ faults < MaxFaults
  /\ faults' = faults + 1
  /\ temp' = [temp EXCEPT ![c] = "none"]
  /\ Finish(c, "error")
  /\ UNCHANGED <<blob, call, stats, maker, calls>>

Return(c) ==
  /\ pc[c] = "return"
  /\ Goto(c, "idle")
  /\ call' = [call EXCEPT ![c] = NoCall]
  /\ result' = [result EXCEPT ![c] = "none"]
  /\ UNCHANGED <<files, stats, history>>

\* A process dies and its store is opened anew.  Its temp files stay under
\* names nobody asks for.
Crash(p) ==
  LET keep(f, dead) == [c \in Callers |-> IF Home[c] = p THEN dead ELSE f[c]]
  IN  /\ faults < MaxFaults
      /\ faults' = faults + 1
      /\ temp' = keep(temp, "none")
      /\ pc' = keep(pc, "idle")
      /\ call' = keep(call, NoCall)
      /\ result' = keep(result, "none")
      /\ stats' = [stats EXCEPT ![p] = Zero]
      /\ maker' = [k \in Contents |-> {c \in maker[k] : Home[c] # p}]
      /\ UNCHANGED <<blob, calls>>

-----------------------------------------------------------------------------
Init ==
  /\ blob = [k \in Contents |-> "absent"]
  /\ temp = [c \in Callers |-> "none"]
  /\ pc = [c \in Callers |-> "idle"]
  /\ call = [c \in Callers |-> NoCall]
  /\ result = [c \in Callers |-> "none"]
  /\ stats = [p \in Processes |-> Zero]
  /\ maker = [k \in Contents |-> {}]
  /\ calls = 0
  /\ faults = 0

CallerStep(c) ==
  \/ \E op \in Ops, k \in Contents : Invoke(c, op, k)
  \/ CheckTarget(c) \/ CheckTargetErrs(c) \/ CreateTemp(c) \/ FillTemp(c)
  \/ Persist(c) \/ RecordWrite(c) \/ PersistFails(c)
  \/ CheckAgain(c) \/ CheckAgainErrs(c)
  \/ Look(c) \/ Count(c)
  \/ Fail(c) \/ Return(c)

Finished == calls = MaxCalls /\ (\A c \in Callers : pc[c] = "idle") /\ UNCHANGED vars

Next == (\E c \in Callers : CallerStep(c)) \/ (\E p \in Processes : Crash(p)) \/ Finished

Spec == Init /\ [][Next]_vars

-----------------------------------------------------------------------------
States == {"idle", "put", "create", "fill", "persist", "record", "again",
           "get", "has", "count", "return"}

TypeOK ==
  /\ blob \in [Contents -> {"absent", "whole"}]
  /\ temp \in [Callers -> {"none", "part", "whole"}]
  /\ pc \in [Callers -> States]
  /\ call \in [Callers -> Calls \cup {NoCall}]
  /\ result \in [Callers -> {"none", "ok", "whole", "absent", "error"}]
  /\ stats \in [Processes -> [hits : Nat, misses : Nat, written : Nat]]
  /\ maker \in [Contents -> SUBSET Callers]
  /\ calls \in 0 .. MaxCalls
  /\ faults \in 0 .. MaxFaults

\* blobstore/fs.rs: whatever the race of puts, one of them alone makes a blob
\* and counts it: a process's blobs_written is the number of files it made,
\* but for those whose put has not returned.
WritesCounted ==
  /\ \A k \in Contents : Cardinality(maker[k]) <= 1
  /\ \A p \in Processes :
       LET made == {k \in Contents : \E c \in maker[k] : Home[c] = p}
           due == {c \in Callers : Home[c] = p /\ pc[c] = "record"}
       IN  Cardinality(made) = stats[p].written + Cardinality(due)

\* blobstore/mod.rs: the directory is a map that takes puts, gets and has at
\* one instant each, with every race, failure and crash.
Effect(c) ==
  CASE result[c] = "whole" -> "found"
    [] pc[c] = "record" -> "ok"
    [] OTHER -> result[c]

Map == INSTANCE BlobMap WITH
         stored <- {k \in Contents : blob[k] = "whole"},
         outcome <- [c \in Callers |-> Effect(c)]

ImplementsMap == Map!Spec
=============================================================================
