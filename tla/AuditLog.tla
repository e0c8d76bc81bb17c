------------------------------- MODULE AuditLog -------------------------------
(***************************************************************************)
(* The append-only NDJSON audit log of one run: `AuditWriter` (audit/      *)
(* writer.rs), the writers `RunReportStore::append_audit_event` opens and  *)
(* drops (report_store.rs), and what `AuditReader` (audit/reader.rs) makes *)
(* of the file, in crates/polyref-graph/src.                               *)
(*                                                                         *)
(* A line is three pieces, because three places to cut it tell apart what  *)
(* the reader says: a strict prefix of the JSON object, the object without *)
(* its newline (which the reader accepts at the end of the file), and the  *)
(* whole line.  The process may die anywhere; what write(2) accepted stays *)
(* (nothing is fsynced, so this is a process crash, not a power cut).      *)
(***************************************************************************)
EXTENDS Naturals, FiniteSets, Sequences, SequencesExt

CONSTANTS
  Writers,      \* AuditWriter values that live at the same time
  MaxEvents,    \* bound: events appended, numbered as their append begins
  ShortWrites,  \* write(2) may accept a part of what it is given
  MaxFaults     \* bound: failed flushes and crashes

ASSUME AuditAssumption ==
  /\ ShortWrites \in BOOLEAN
  /\ MaxEvents \in Nat
  /\ MaxFaults \in Nat

VARIABLES
  file,   \* pieces of audit.ndjson
  buffer, \* each writer's BufWriter
  pc,     \* "ready", "flush" (in append) or "drop" (BufWriter's destructor)
  event,  \* the event of a writer's last append
  begun,  \* begun[e] is the writer whose append of event e began (history)
  acked,  \* events whose append returned Ok (history)
  tears,  \* times unwritten pieces were thrown away (history)
  short,  \* some write(2) accepted a part only (history)
  faults  \* failed flushes and crashes (bounded by MaxFaults)

writers == <<buffer, pc, event>>
history == <<begun, acked, tears, short, faults>>
vars == <<file, writers, history>>

Parts == {"open", "close", "newline"}
Pieces == [part : Parts, of : 1 .. MaxEvents]

Piece(p, e) == [part |-> p, of |-> e]
Line(e) == <<Piece("open", e), Piece("close", e), Piece("newline", e)>>

\* How much of `n` pieces one write(2) accepts.
Accepted(n) == IF ShortWrites THEN 1 .. n ELSE {n}

-----------------------------------------------------------------------------
(* AuditWriter.                                                            *)

Begin(w) ==
  /\ pc[w] = "ready"
  /\ Len(begun) < MaxEvents
  /\ begun' = Append(begun, w)
  /\ event' = [event EXCEPT ![w] = Len(begun')]

\* Seeded fault: a line left over from a failed append is written again whole.
AppendRewrites(w) ==
  /\ Begin(w)
  /\ buffer' = [buffer EXCEPT
                  ![w] = (IF @ = <<>> THEN <<>> ELSE Line(event[w]))
                           \o Line(Len(begun'))]
  /\ pc' = [pc EXCEPT ![w] = "flush"]
  /\ UNCHANGED <<file, acked, tears, short, faults>>

\* Seeded fault: the line overtakes what an earlier append left behind.
AppendAhead(w) ==
  /\ Begin(w)
  /\ buffer' = [buffer EXCEPT ![w] = Line(Len(begun')) \o @]
  /\ pc' = [pc EXCEPT ![w] = "flush"]
  /\ UNCHANGED <<file, acked, tears, short, faults>>

\* append up to flush: the line goes behind whatever an earlier append that
\* failed left in the BufWriter.
AppendEvent(w) ==
  /\ Begin(w)
  /\ buffer' = [buffer EXCEPT ![w] = @ \o Line(Len(begun'))]
  /\ pc' = [pc EXCEPT ![w] = "flush"]
  /\ UNCHANGED <<file, acked, tears, short, faults>>

\* Seeded fault: the newline is a write of its own.
WriteSplit(w) ==
  /\ pc[w] \in {"flush", "drop"}
  /\ buffer[w] # <<>>
  /\ \E n \in {1, 2} \cap 1 .. Len(buffer[w]) :
       /\ file' = file \o SubSeq(buffer[w], 1, n)
       /\ buffer' = [buffer EXCEPT ![w] = SubSeq(@, n + 1, Len(@))]
  /\ UNCHANGED <<pc, event, history>>

\* One write(2) of BufWriter::flush_buf, appended by O_APPEND.
Write(w) ==
  /\ pc[w] \in {"flush", "drop"}
  /\ buffer[w] # <<>>
  /\ \E n \in Accepted(Len(buffer[w])) :
       /\ file' = file \o SubSeq(buffer[w], 1, n)
       /\ buffer' = [buffer EXCEPT ![w] = SubSeq(@, n + 1, Len(@))]
       /\ short' = (short \/ n < Len(buffer[w]))
  /\ UNCHANGED <<pc, event, begun, acked, tears, faults>>

\* Seeded fault: append does not wait for the flush.
FlushedEarly(w) ==
  /\ pc[w] = "flush"
  /\ acked' = acked \cup {event[w]}
  /\ pc' = [pc EXCEPT ![w] = "ready"]
  /\ UNCHANGED <<file, buffer, event, begun, tears, short, faults>>

Flushed(w) ==
  /\ pc[w] = "flush"
  /\ buffer[w] = <<>>
  /\ acked' = acked \cup {event[w]}
  /\ pc' = [pc EXCEPT ![w] = "ready"]
  /\ UNCHANGED <<file, buffer, event, begun, tears, short, faults>>

\* A write(2) failed: append returns Err and the BufWriter keeps the rest.
FlushFails(w) ==
  /\ pc[w] = "flush"
  /\ buffer[w] # <<>>
  /\ faults < MaxFaults
  /\ faults' = faults + 1
  /\ pc' = [pc EXCEPT ![w] = "ready"]
  /\ UNCHANGED <<file, buffer, event, begun, acked, tears, short>>

\* The writer is dropped: BufWriter flushes once more.
Drop(w) ==
  /\ pc[w] = "ready"
  /\ buffer[w] # <<>>
  /\ pc' = [pc EXCEPT ![w] = "drop"]
  /\ UNCHANGED <<file, buffer, event, history>>

\* ... and a new one is opened in its place.
Reopen(w) ==
  /\ pc[w] = "drop"
  /\ buffer[w] = <<>>
  /\ pc' = [pc EXCEPT ![w] = "ready"]
  /\ UNCHANGED <<file, buffer, event, history>>

\* That flush failed too; the destructor has nobody to tell.
DropFails(w) ==
  /\ pc[w] = "drop"
  /\ buffer[w] # <<>>
  /\ faults < MaxFaults
  /\ faults' = faults + 1
  /\ tears' = tears + 1
  /\ buffer' = [buffer EXCEPT ![w] = <<>>]
  /\ pc' = [pc EXCEPT ![w] = "ready"]
  /\ UNCHANGED <<file, event, begun, acked, short>>

\* The process dies and a new one opens the log, whatever its last line is.
Crash ==
  /\ faults < MaxFaults
  /\ faults' = faults + 1
  /\ tears' = tears + 1
  /\ buffer' = [w \in Writers |-> <<>>]
  /\ pc' = [w \in Writers |-> "ready"]
  /\ UNCHANGED <<file, event, begun, acked, short>>

-----------------------------------------------------------------------------
(* AuditReader.                                                            *)

\* An event is read at position i when a whole object starts there and is a
\* line by itself: the last line needs no newline.  Any other line is an
\* error item, after which the reader goes on with the next line.
LineAt(i) ==
  /\ i < Len(file)
  /\ file[i].part = "open"
  /\ file[i + 1] = Piece("close", file[i].of)
  /\ i = 1 \/ file[i - 1].part = "newline"
  /\ i + 1 = Len(file) \/ file[i + 2].part = "newline"

\* The events a reader yields; it yields them in the order of their lines.
ReadBack == {file[i].of : i \in {j \in DOMAIN file : LineAt(j)}}

-----------------------------------------------------------------------------
Init ==
  /\ file = <<>>
  /\ buffer = [w \in Writers |-> <<>>]
  /\ pc = [w \in Writers |-> "ready"]
  /\ event = [w \in Writers |-> 0]
  /\ begun = <<>>
  /\ acked = {}
  /\ tears = 0
  /\ short = FALSE
  /\ faults = 0

WriterStep(w) ==
  \/ AppendEvent(w)
  \/ Write(w)
  \/ Flushed(w)
  \/ FlushFails(w)
  \/ Drop(w)
  \/ Reopen(w)
  \/ DropFails(w)

\* Every event has been appended and no writer holds anything.
Finished ==
  /\ Len(begun) = MaxEvents
  /\ \A w \in Writers : pc[w] = "ready" /\ buffer[w] = <<>>
  /\ UNCHANGED vars

Next == (\E w \in Writers : WriterStep(w)) \/ Crash \/ Finished

Spec == Init /\ [][Next]_vars

-----------------------------------------------------------------------------
TypeOK ==
  /\ file \in Seq(Pieces)
  /\ \A i, j \in DOMAIN file : file[i] = file[j] => i = j
  /\ buffer \in [Writers -> Seq(Pieces)]
  /\ pc \in [Writers -> {"ready", "flush", "drop"}]
  /\ event \in [Writers -> 0 .. Len(begun)]
  /\ begun \in Seq(Writers)
  /\ Len(begun) <= MaxEvents
  /\ acked \subseteq DOMAIN begun
  /\ tears \in 0 .. faults
  /\ short \in BOOLEAN
  /\ faults \in 0 .. MaxFaults

\* audit/mod.rs: per writer, a reader yields events in the order their appends
\* began, and none twice, however many short writes, failed flushes with
\* leftovers, other writers and crashes the file went through.
ReadInOrder ==
  \A i, j \in DOMAIN file :
    /\ LineAt(i) /\ LineAt(j)
    /\ i < j
    /\ begun[file[i].of] = begun[file[j].of]
    => file[i].of < file[j].of

Lost == acked \ ReadBack

\* Unless two writers met a short write, each tear costs the log at most one
\* event whose append returned Ok.
AckedLossBounded ==
  ~ short \/ Cardinality(ToSet(begun)) <= 1 => Cardinality(Lost) <= tears

\* writer.rs: writers of one process get atomic per-line appends.  While every
\* write(2) is whole no acknowledged event is lost, even when appends
\* interleave, some fail, and processes die.
InterleavedAppendsSafe == ~ short => Lost = {}
=============================================================================
