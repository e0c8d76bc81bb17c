--------------------------- MODULE AdmissionControl ---------------------------
(***************************************************************************)
(* What a bounded pool of one plugin kind promises its callers, without    *)
(* processes, workers, condition variables or counters: ADR-007's per-kind *)
(* work queue in front of a fixed number of plugin processes.  PluginPool  *)
(* is shown to implement it.                                               *)
(***************************************************************************)
EXTENDS Naturals, FiniteSets

CONSTANTS Callers, MaxProcesses, QueueBound

VARIABLE phase  \* of each caller: "out", "asking", "queued" or "served"

In(p) == {c \in Callers : phase[c] = p}

Move(c, from, to) ==
  /\ phase[c] = from
  /\ phase' = [phase EXCEPT ![c] = to]

Busy == Cardinality(In("served")) = MaxProcesses

Ask(c) == Move(c, "out", "asking")

\* A slot is given to a call only while there is one to give.
Serve(c) ==
  /\ ~Busy
  /\ Move(c, "asking", "served") \/ Move(c, "queued", "served")

\* A call is made to wait, or turned away, only when every slot is serving
\* another call; it is turned away only when the queue is full as well, and
\* never once it has been queued.
Queue(c) ==
  /\ Busy
  /\ Cardinality(In("queued")) < QueueBound
  /\ Move(c, "asking", "queued")

TurnAway(c) ==
  /\ Busy
  /\ Cardinality(In("queued")) = QueueBound
  /\ Move(c, "asking", "out")

Leave(c) == Move(c, "served", "out")

Init == phase = [c \in Callers |-> "out"]

Next == \E c \in Callers :
  Ask(c) \/ Serve(c) \/ Queue(c) \/ TurnAway(c) \/ Leave(c)

Spec == Init /\ [][Next]_phase
=============================================================================
