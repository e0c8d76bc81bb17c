-------------------------------- MODULE BlobMap --------------------------------
(***************************************************************************)
(* What a blob store promises (trait BlobStore, crates/polyref-graph/src/  *)
(* blobstore/mod.rs): a map from contents' digests to contents that only   *)
(* grows, whose calls take effect at one instant between call and return.  *)
(***************************************************************************)
CONSTANTS
  Callers,  \* threads that call
  Contents  \* a content and, SHA-256 being taken as injective, its key

VARIABLES
  stored,   \* contents the map holds
  call,     \* what each caller asked for last, [op, of]
  outcome   \* "none" before a call takes effect, then what it will return

vars == <<stored, call, outcome>>

Ops == {"put", "get", "has"}
Calls == [op : Ops, of : Contents]
NoCall == [op |-> "none"]

Outcomes == {"none", "ok", "found", "absent", "error"}

Invoke(c, op, k) ==
  /\ call[c] = NoCall
  /\ call' = [call EXCEPT ![c] = [op |-> op, of |-> k]]
  /\ UNCHANGED <<stored, outcome>>

\* The instant a call takes effect; one that fails has none.
Decide(c, result) ==
  /\ call[c] # NoCall
  /\ outcome[c] = "none"
  /\ outcome' = [outcome EXCEPT ![c] = result]
  /\ UNCHANGED call

Put(c) ==
  /\ call[c] # NoCall /\ call[c].op = "put"
  /\ Decide(c, "ok")
  /\ stored' = stored \cup {call[c].of}

Look(c) ==
  /\ call[c] # NoCall /\ call[c].op \in {"get", "has"}
  /\ Decide(c, IF call[c].of \in stored THEN "found" ELSE "absent")
  /\ UNCHANGED stored

Fail(c) == Decide(c, "error") /\ UNCHANGED stored

Respond(c) ==
  /\ outcome[c] # "none"
  /\ outcome' = [outcome EXCEPT ![c] = "none"]
  /\ call' = [call EXCEPT ![c] = NoCall]
  /\ UNCHANGED stored

\* A process dies: its calls end without an answer, in effect or not.
Abort(gone) ==
  /\ outcome' = [c \in Callers |-> IF c \in gone THEN "none" ELSE outcome[c]]
  /\ call' = [c \in Callers |-> IF c \in gone THEN NoCall ELSE call[c]]
  /\ UNCHANGED stored

Init ==
  /\ stored = {}
  /\ call = [c \in Callers |-> NoCall]
  /\ outcome = [c \in Callers |-> "none"]

Next ==
  \/ \E c \in Callers :
       \/ \E op \in Ops, k \in Contents : Invoke(c, op, k)
       \/ Put(c) \/ Look(c) \/ Fail(c) \/ Respond(c)
  \/ \E gone \in SUBSET Callers : Abort(gone)

Spec == Init /\ [][Next]_vars
=============================================================================
