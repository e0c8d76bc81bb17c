---------------------------- MODULE AuditLogProofs ----------------------------
(***************************************************************************)
(* Proofs about AuditLog for every number of writers and events, with and  *)
(* without short writes, and for every number of failed flushes and        *)
(* crashes.                                                                *)
(***************************************************************************)
EXTENDS AuditLog, FiniteSetTheorems, FunctionTheorems, SequenceTheorems, TLAPS

-----------------------------------------------------------------------------
(* What the two actions that move pieces do to them.                        *)

\* TypeOK without the promise that no piece is in the file twice, which takes
\* the order of the pieces to prove, and with the fact that a flush is always
\* that of an append which began.
Typed ==
  /\ file \in Seq(Pieces)
  /\ buffer \in [Writers -> Seq(Pieces)]
  /\ pc \in [Writers -> {"ready", "flush", "drop"}]
  /\ event \in [Writers -> 0 .. Len(begun)]
  /\ \A w \in Writers : pc[w] = "flush" => event[w] # 0
  /\ begun \in Seq(Writers)
  /\ Len(begun) <= MaxEvents
  /\ acked \subseteq DOMAIN begun
  /\ tears \in 0 .. faults
  /\ short \in BOOLEAN
  /\ faults \in 0 .. MaxFaults

LEMMA Lengths ==
  ASSUME Typed, NEW w \in Writers
  PROVE  /\ Len(file) \in Nat /\ DOMAIN file = 1 .. Len(file)
         /\ Len(buffer[w]) \in Nat /\ DOMAIN buffer[w] = 1 .. Len(buffer[w])
         /\ Len(begun) \in Nat /\ DOMAIN begun = 1 .. Len(begun)
  BY LenProperties DEF Typed

LEMMA LinePieces ==
  ASSUME NEW e \in 1 .. MaxEvents
  PROVE  /\ Line(e) \in Seq(Pieces) /\ Len(Line(e)) = 3
         /\ Line(e)[1] = Piece("open", e)
         /\ Line(e)[2] = Piece("close", e)
         /\ Line(e)[3] = Piece("newline", e)
<1>1. \A p \in Parts : Piece(p, e) \in Pieces
  BY DEF Piece, Pieces
<1>2. Piece("open", e) \in Pieces /\ Piece("close", e) \in Pieces
      /\ Piece("newline", e) \in Pieces
  BY <1>1 DEF Parts
<1>3. QED
  BY <1>2 DEF Line

\* An append begins the next event and puts its line behind the buffer.
LEMMA AppendEffect ==
  ASSUME Typed, NEW w \in Writers, AppendEvent(w)
  PROVE  LET e == Len(begun) + 1
             n == Len(buffer[w])
         IN  /\ e \in 1 .. MaxEvents
             /\ begun' \in Seq(Writers) /\ Len(begun') = e /\ begun'[e] = w
             /\ \A d \in 1 .. Len(begun) : begun'[d] = begun[d]
             /\ event' = [event EXCEPT ![w] = e]
             /\ buffer' \in [Writers -> Seq(Pieces)]
             /\ \A v \in Writers \ {w} : buffer'[v] = buffer[v]
             /\ Len(buffer'[w]) = n + 3
             /\ \A k \in 1 .. n : buffer'[w][k] = buffer[w][k]
             /\ buffer'[w][n + 1] = Piece("open", e)
             /\ buffer'[w][n + 2] = Piece("close", e)
             /\ buffer'[w][n + 3] = Piece("newline", e)
<1> DEFINE e == Len(begun) + 1
           n == Len(buffer[w])
<1>1. Len(begun) \in Nat /\ n \in Nat /\ buffer[w] \in Seq(Pieces)
  BY Lengths DEF Typed
<1>2. /\ begun' = Append(begun, w) /\ Len(begun) < MaxEvents
      /\ event' = [event EXCEPT ![w] = Len(begun')]
      /\ buffer' = [buffer EXCEPT ![w] = @ \o Line(Len(begun'))]
  BY DEF AppendEvent, Begin
<1>3. /\ begun' \in Seq(Writers) /\ Len(begun') = e /\ begun'[e] = w
      /\ \A d \in 1 .. Len(begun) : begun'[d] = begun[d]
  BY <1>1, <1>2, AppendProperties DEF Typed
<1>4. e \in 1 .. MaxEvents
  BY <1>1, <1>2, AuditAssumption
<1>5. buffer'[w] = buffer[w] \o Line(e)
  BY <1>2, <1>3 DEF Typed
<1> HIDE DEF e, n
<1>6. /\ buffer'[w] \in Seq(Pieces)
      /\ Len(buffer'[w]) = Len(buffer[w]) + 3
      /\ \A k \in 1 .. Len(buffer[w]) + 3 : buffer'[w][k] =
           IF k <= Len(buffer[w]) THEN buffer[w][k]
           ELSE Line(e)[k - Len(buffer[w])]
  <2>1. Line(e) \in Seq(Pieces) /\ Len(Line(e)) = 3
    BY <1>4, LinePieces
  <2>2. /\ buffer[w] \o Line(e) \in Seq(Pieces)
        /\ Len(buffer[w] \o Line(e)) = Len(buffer[w]) + Len(Line(e))
        /\ \A k \in 1 .. Len(buffer[w]) + Len(Line(e)) :
             (buffer[w] \o Line(e))[k] =
               IF k <= Len(buffer[w]) THEN buffer[w][k]
               ELSE Line(e)[k - Len(buffer[w])]
    BY <1>1, <2>1, ConcatProperties
  <2>3. QED
    BY <1>5, <2>1, <2>2
<1>7. /\ \A k \in 1 .. n : buffer'[w][k] = buffer[w][k]
      /\ buffer'[w][n + 1] = Line(e)[1]
      /\ buffer'[w][n + 2] = Line(e)[2]
      /\ buffer'[w][n + 3] = Line(e)[3]
  <2>1. /\ n + 1 \in 1 .. n + 3 /\ n + 2 \in 1 .. n + 3 /\ n + 3 \in 1 .. n + 3
        /\ ~(n + 1 <= n) /\ ~(n + 2 <= n) /\ ~(n + 3 <= n)
        /\ (n + 1) - n = 1 /\ (n + 2) - n = 2 /\ (n + 3) - n = 3
        /\ \A k \in 1 .. n : k \in 1 .. n + 3 /\ k <= n
    BY <1>1
  <2>2. QED
    BY <1>6, <2>1 DEF n
<1>8. /\ buffer'[w][n + 1] = Piece("open", e)
      /\ buffer'[w][n + 2] = Piece("close", e)
      /\ buffer'[w][n + 3] = Piece("newline", e)
  BY <1>4, <1>7, LinePieces
<1>9. /\ buffer' \in [Writers -> Seq(Pieces)]
      /\ \A v \in Writers \ {w} : buffer'[v] = buffer[v]
  BY <1>2, <1>5, <1>6 DEF Typed
<1>10. event' = [event EXCEPT ![w] = e] /\ Len(buffer'[w]) = n + 3
  BY <1>2, <1>3, <1>6 DEF n
<1>11. QED
  BY <1>3, <1>4, <1>7, <1>8, <1>9, <1>10 DEF e, n

\* A write(2) moves the first pieces of a buffer to the end of the file.
LEMMA WriteEffect ==
  ASSUME Typed, NEW w \in Writers, Write(w)
  PROVE  \E n \in 1 .. Len(buffer[w]) :
           /\ file' \in Seq(Pieces) /\ Len(file') = Len(file) + n
           /\ \A i \in 1 .. Len(file) : file'[i] = file[i]
           /\ \A k \in 1 .. n : file'[Len(file) + k] = buffer[w][k]
           /\ buffer' \in [Writers -> Seq(Pieces)]
           /\ \A v \in Writers \ {w} : buffer'[v] = buffer[v]
           /\ Len(buffer'[w]) = Len(buffer[w]) - n
           /\ \A k \in 1 .. Len(buffer[w]) - n :
                buffer'[w][k] = buffer[w][k + n]
           /\ short' = (short \/ n < Len(buffer[w]))
<1>1. /\ Len(file) \in Nat /\ file \in Seq(Pieces)
      /\ buffer[w] \in Seq(Pieces) /\ Len(buffer[w]) \in Nat \ {0}
  BY Lengths, EmptySeq DEF Typed, Write
<1>2. PICK n \in Accepted(Len(buffer[w])) :
        /\ file' = file \o SubSeq(buffer[w], 1, n)
        /\ buffer' = [buffer EXCEPT ![w] = SubSeq(@, n + 1, Len(@))]
        /\ short' = (short \/ n < Len(buffer[w]))
  BY DEF Write
<1>3. n \in 1 .. Len(buffer[w])
  BY <1>1 DEF Accepted
<1>4. \A k \in 1 .. Len(buffer[w]) : buffer[w][k] \in Pieces
  BY <1>1, ElementOfSeq
<1> DEFINE b == buffer[w]
           m == Len(buffer[w])
           head == SubSeq(b, 1, n)
           rest == SubSeq(b, n + 1, m)
<1>5. b \in Seq(Pieces) /\ m \in Nat /\ n \in Int /\ 1 <= n /\ n <= m
      /\ \A k \in 1 .. m : b[k] \in Pieces
  BY <1>1, <1>3, <1>4
<1>6. buffer' = [buffer EXCEPT ![w] = rest] /\ file' = file \o head
  BY <1>2
<1> HIDE DEF b, m
<1>7. /\ head \in Seq(Pieces) /\ Len(head) = n
      /\ \A k \in 1 .. n : head[k] = b[k]
  <2>1. /\ SubSeq(b, 1, n) \in Seq(Pieces)
        /\ Len(SubSeq(b, 1, n)) = IF 1 <= n THEN n - 1 + 1 ELSE 0
        /\ \A k \in 1 .. n - 1 + 1 : SubSeq(b, 1, n)[k] = b[1 + k - 1]
    <3>1. 1 \in Int /\ n \in Int /\ \A k \in 1 .. n : b[k] \in Pieces
      BY <1>5
    <3>2. QED
      BY <3>1, SubSeqProperties
  <2>2. QED
    BY <1>5, <2>1
<1>8. /\ rest \in Seq(Pieces) /\ Len(rest) = m - n
      /\ \A k \in 1 .. m - n : rest[k] = b[k + n]
  <2>1. /\ SubSeq(b, n + 1, m) \in Seq(Pieces)
        /\ Len(SubSeq(b, n + 1, m)) =
             IF n + 1 <= m THEN m - (n + 1) + 1 ELSE 0
        /\ \A k \in 1 .. m - (n + 1) + 1 :
             SubSeq(b, n + 1, m)[k] = b[n + 1 + k - 1]
    <3>1. n + 1 \in Int /\ m \in Int /\ \A k \in n + 1 .. m : b[k] \in Pieces
      BY <1>5
    <3>2. QED
      BY <3>1, SubSeqProperties
  <2>2. /\ m - (n + 1) + 1 = m - n
        /\ \A k \in 1 .. m - n : n + 1 + k - 1 = k + n
        /\ ~(n + 1 <= m) => m - n = 0
    BY <1>5
  <2>3. Len(rest) = m - n
    BY <2>1, <2>2
  <2>4. \A k \in 1 .. m - n : rest[k] = b[k + n]
    BY <2>1, <2>2
  <2>5. QED
    BY <2>1, <2>3, <2>4
<1> HIDE DEF head, rest
<1>9. /\ file' \in Seq(Pieces) /\ Len(file') = Len(file) + n
      /\ \A i \in 1 .. Len(file) : file'[i] = file[i]
      /\ \A k \in 1 .. n : file'[Len(file) + k] = b[k]
  <2>1. /\ file \o head \in Seq(Pieces)
        /\ Len(file \o head) = Len(file) + Len(head)
        /\ \A i \in 1 .. Len(file) + Len(head) : (file \o head)[i] =
             IF i <= Len(file) THEN file[i] ELSE head[i - Len(file)]
    BY <1>1, <1>7, ConcatProperties
  <2>2. QED
    BY <1>1, <1>5, <1>6, <1>7, <2>1
<1>10. /\ buffer' \in [Writers -> Seq(Pieces)]
       /\ \A v \in Writers \ {w} : buffer'[v] = buffer[v]
       /\ buffer'[w] = rest
  BY <1>6, <1>8 DEF Typed
<1>11. QED
  BY <1>2, <1>3, <1>8, <1>9, <1>10 DEF b, m

\* The other steps write nothing; they may throw a buffer away.
Settles ==
  /\ file' = file /\ begun' = begun /\ short' = short
  /\ \A w \in Writers : buffer'[w] \in {buffer[w], <<>>}
  /\ \/ buffer' = buffer /\ tears' = tears
     \/ tears' = tears + 1

LEMMA StepCases ==
  ASSUME Typed, [Next]_vars
  PROVE  \/ \E w \in Writers : AppendEvent(w) \/ Write(w)
         \/ Settles
<1>1. ASSUME NEW w \in Writers,
             \/ Flushed(w) \/ FlushFails(w) \/ Drop(w) \/ Reopen(w)
      PROVE  Settles
  BY <1>1 DEF Flushed, FlushFails, Drop, Reopen, history, Settles
<1>2. ASSUME NEW w \in Writers, DropFails(w) PROVE Settles
  BY <1>2 DEF DropFails, Settles, Typed
<1>3. CASE Crash
  BY <1>3 DEF Crash, Settles
<1>4. CASE UNCHANGED vars
  BY <1>4 DEF vars, writers, history, Settles
<1>5. QED
  BY <1>1, <1>2, <1>3, <1>4 DEF Next, WriterStep, Finished

LEMMA NextTyped == Typed /\ [Next]_vars => Typed'
<1> SUFFICES ASSUME Typed, [Next]_vars PROVE Typed'
  OBVIOUS
<1>1. Len(begun) \in Nat /\ DOMAIN begun = 1 .. Len(begun)
  BY LenProperties DEF Typed
<1>2. ASSUME NEW w \in Writers, AppendEvent(w) PROVE Typed'
  <2>1. /\ begun' \in Seq(Writers) /\ Len(begun') = Len(begun) + 1
        /\ Len(begun) + 1 \in 1 .. MaxEvents
        /\ event' = [event EXCEPT ![w] = Len(begun) + 1]
        /\ buffer' \in [Writers -> Seq(Pieces)]
    BY <1>2, AppendEffect
  <2>2. event' \in [Writers -> 0 .. Len(begun')]
    BY <1>1, <2>1 DEF Typed
  <2>3. DOMAIN begun' = 1 .. Len(begun')
    BY <2>1, LenProperties
  <2>4. acked' \subseteq DOMAIN begun'
    BY <1>1, <1>2, <2>1, <2>3 DEF AppendEvent, Typed
  <2>5. /\ pc' \in [Writers -> {"ready", "flush", "drop"}]
        /\ \A v \in Writers : pc'[v] = "flush" => event'[v] # 0
    BY <1>1, <1>2, <2>1 DEF AppendEvent, Typed
  <2>6. Len(begun') <= MaxEvents
    BY <2>1
  <2>7. UNCHANGED <<file, tears, short, faults>>
    BY <1>2 DEF AppendEvent
  <2>8. QED
    BY <2>1, <2>2, <2>4, <2>5, <2>6, <2>7 DEF Typed
<1>3. ASSUME NEW w \in Writers, Write(w) PROVE Typed'
  <2>1. /\ file' \in Seq(Pieces)
        /\ buffer' \in [Writers -> Seq(Pieces)]
    BY <1>3, WriteEffect
  <2>2. short' \in BOOLEAN
    BY <1>3 DEF Write, Typed
  <2>3. UNCHANGED <<pc, event, begun, acked, tears, faults>>
    BY <1>3 DEF Write
  <2>4. QED
    BY <2>1, <2>2, <2>3 DEF Typed
<1>4. ASSUME NEW w \in Writers, Flushed(w) PROVE Typed'
  <2>1. acked' \subseteq DOMAIN begun
    BY <1>1, <1>4 DEF Flushed, Typed
  <2>2. QED
    BY <1>4, <2>1 DEF Flushed, Typed
<1>5. ASSUME NEW w \in Writers, FlushFails(w) PROVE Typed'
  BY <1>5, AuditAssumption DEF FlushFails, Typed
<1>6. ASSUME NEW w \in Writers, Drop(w) \/ Reopen(w) PROVE Typed'
  BY <1>6 DEF Drop, Reopen, history, Typed
<1>7. ASSUME NEW w \in Writers, DropFails(w) PROVE Typed'
  <2>1. buffer' \in [Writers -> Seq(Pieces)]
    BY <1>7, EmptySeq DEF DropFails, Typed
  <2>2. QED
    BY <1>7, <2>1, AuditAssumption DEF DropFails, Typed
<1>8. CASE Crash
  <2>1. buffer' \in [Writers -> Seq(Pieces)]
    BY <1>8, EmptySeq DEF Crash
  <2>2. QED
    BY <1>8, <2>1, AuditAssumption DEF Crash, Typed
<1>9. CASE UNCHANGED vars
  BY <1>9 DEF vars, writers, history, Typed
<1>10. QED
  BY <1>2, <1>3, <1>4, <1>5, <1>6, <1>7, <1>8, <1>9
  DEF Next, WriterStep, Finished

-----------------------------------------------------------------------------
(* The order of a writer's pieces: those in the file, then those in its     *)
(* buffer.                                                                  *)

\* The place of a piece in the log its writer meant to write.
Rank(p) ==
  3 * p.of + (IF p.part = "open" THEN 0 ELSE IF p.part = "close" THEN 1 ELSE 2)

FileBegun == \A i \in DOMAIN file : file[i].of \in DOMAIN begun

BufferOwn ==
  \A w \in Writers : \A k \in DOMAIN buffer[w] :
    buffer[w][k].of \in DOMAIN begun /\ begun[buffer[w][k].of] = w

FileRanked ==
  \A i, j \in DOMAIN file :
    i < j /\ begun[file[i].of] = begun[file[j].of] =>
      Rank(file[i]) < Rank(file[j])

BufferRanked ==
  \A w \in Writers : \A k, l \in DOMAIN buffer[w] :
    k < l => Rank(buffer[w][k]) < Rank(buffer[w][l])

BufferLater ==
  \A w \in Writers : \A i \in DOMAIN file, k \in DOMAIN buffer[w] :
    begun[file[i].of] = w => Rank(file[i]) < Rank(buffer[w][k])

OrderInv ==
  Typed /\ FileBegun /\ BufferOwn /\ FileRanked /\ BufferRanked /\ BufferLater

LEMMA Ranks ==
  /\ \A p \in Pieces : /\ Rank(p) \in Nat
                       /\ p.of \in Nat
                       /\ 3 * p.of <= Rank(p) /\ Rank(p) <= 3 * p.of + 2
  /\ \A e \in 1 .. MaxEvents :
       /\ Rank(Piece("open", e)) = 3 * e
       /\ Rank(Piece("close", e)) = 3 * e + 1
       /\ Rank(Piece("newline", e)) = 3 * e + 2
<1>1. \A p \in Pieces : p.of \in Nat
  BY AuditAssumption DEF Pieces
<1>2. \A e \in 1 .. MaxEvents : e \in Nat
  BY AuditAssumption
<1>3. \A p \in Pieces :
        Rank(p) \in {3 * p.of, 3 * p.of + 1, 3 * p.of + 2}
  BY <1>1 DEF Rank
<1>4. \A p \in Pieces : /\ Rank(p) \in Nat
                        /\ 3 * p.of <= Rank(p) /\ Rank(p) <= 3 * p.of + 2
  BY <1>1, <1>3
<1>5. \A e \in 1 .. MaxEvents :
        /\ Rank(Piece("open", e)) = 3 * e
        /\ Rank(Piece("close", e)) = 3 * e + 1
        /\ Rank(Piece("newline", e)) = 3 * e + 2
  BY <1>2 DEF Rank, Piece
<1>6. QED
  BY <1>1, <1>4, <1>5

LEMMA OrderAppend ==
  ASSUME OrderInv, NEW w \in Writers, AppendEvent(w)
  PROVE  FileBegun' /\ BufferOwn' /\ FileRanked' /\ BufferRanked' /\ BufferLater'
<1> DEFINE e == Len(begun) + 1
           n == Len(buffer[w])
           new == {n + 1, n + 2, n + 3}
<1>1. Typed /\ FileBegun /\ BufferOwn /\ FileRanked /\ BufferRanked /\ BufferLater
  BY DEF OrderInv
<1>2. /\ Len(file) \in Nat /\ DOMAIN file = 1 .. Len(file)
      /\ n \in Nat /\ Len(begun) \in Nat /\ DOMAIN begun = 1 .. Len(begun)
      /\ \A v \in Writers : /\ Len(buffer[v]) \in Nat
                            /\ DOMAIN buffer[v] = 1 .. Len(buffer[v])
  BY <1>1, Lengths
<1>3. /\ e \in 1 .. MaxEvents /\ begun' \in Seq(Writers)
      /\ Len(begun') = e /\ begun'[e] = w
      /\ \A d \in 1 .. Len(begun) : begun'[d] = begun[d]
      /\ buffer' \in [Writers -> Seq(Pieces)]
      /\ \A v \in Writers \ {w} : buffer'[v] = buffer[v]
      /\ Len(buffer'[w]) = n + 3
      /\ \A k \in 1 .. n : buffer'[w][k] = buffer[w][k]
      /\ buffer'[w][n + 1] = Piece("open", e)
      /\ buffer'[w][n + 2] = Piece("close", e)
      /\ buffer'[w][n + 3] = Piece("newline", e)
      /\ file' = file
  BY <1>1, AppendEffect DEF AppendEvent
<1>4. /\ DOMAIN begun' = 1 .. e
      /\ DOMAIN buffer'[w] = (1 .. n) \cup new
  <2>1. DOMAIN begun' = 1 .. Len(begun')
        /\ DOMAIN buffer'[w] = 1 .. Len(buffer'[w])
    BY <1>3, LenProperties
  <2>2. 1 .. n + 3 = (1 .. n) \cup {n + 1, n + 2, n + 3}
    BY <1>2
  <2>3. QED
    BY <1>3, <2>1, <2>2
<1>5. \A k \in new : /\ buffer'[w][k].of = e
                     /\ Rank(buffer'[w][k]) = 3 * e + (k - (n + 1))
  <2>1. /\ Piece("open", e).of = e /\ Piece("close", e).of = e
        /\ Piece("newline", e).of = e
    BY DEF Piece
  <2>2. /\ Rank(buffer'[w][n + 1]) = 3 * e
        /\ Rank(buffer'[w][n + 2]) = 3 * e + 1
        /\ Rank(buffer'[w][n + 3]) = 3 * e + 2
    BY <1>3, Ranks
  <2>3. e \in Nat
    BY <1>2
  <2>4. (n + 1) - (n + 1) = 0 /\ (n + 2) - (n + 1) = 1 /\ (n + 3) - (n + 1) = 2
        /\ 3 * e = 3 * e + 0
    BY <1>2, <2>3
  <2> HIDE DEF e, n
  <2>5. QED
    BY <1>3, <2>1, <2>2, <2>4
\* The new event comes after every earlier one.
<1>6. \A p \in Pieces : p.of \in DOMAIN begun =>
        /\ Rank(p) \in Nat /\ Rank(p) < 3 * e
        /\ p.of \in DOMAIN begun' /\ begun'[p.of] = begun[p.of]
  <2>1. \A p \in Pieces : p.of \in DOMAIN begun => p.of + 1 <= e /\ p.of \in 1 .. e
    BY <1>2
  <2>2. QED
    BY <1>2, <1>3, <1>4, <2>1, Ranks
<1>7. /\ \A i \in DOMAIN file : file[i] \in Pieces
      /\ \A v \in Writers : \A k \in DOMAIN buffer[v] : buffer[v][k] \in Pieces
  BY <1>1, <1>2, ElementOfSeq DEF Typed
<1> HIDE DEF e, n, new
<1>8. FileBegun' /\ FileRanked'
  BY <1>1, <1>3, <1>6, <1>7 DEF FileBegun, FileRanked
<1>9. BufferOwn'
  <2> SUFFICES ASSUME NEW v \in Writers, NEW k \in DOMAIN buffer'[v]
               PROVE  /\ buffer'[v][k].of \in DOMAIN begun'
                      /\ begun'[buffer'[v][k].of] = v
    BY DEF BufferOwn
  <2>1. CASE v # w \/ k \in 1 .. n
    <3>1. k \in DOMAIN buffer[v] /\ buffer'[v][k] = buffer[v][k]
      BY <1>2, <1>3, <2>1 DEF n
    <3>2. /\ buffer[v][k] \in Pieces /\ buffer[v][k].of \in DOMAIN begun
          /\ begun[buffer[v][k].of] = v
      BY <1>1, <1>7, <3>1 DEF BufferOwn
    <3>3. QED
      BY <1>6, <3>1, <3>2
  <2>2. CASE v = w /\ k \in new
    BY <1>2, <1>3, <1>4, <1>5, <2>2 DEF e
  <2>3. QED
    BY <1>4, <2>1, <2>2
<1>10. BufferRanked'
  <2> SUFFICES ASSUME NEW v \in Writers, NEW k \in DOMAIN buffer'[v],
                      NEW l \in DOMAIN buffer'[v], k < l
               PROVE  Rank(buffer'[v][k]) < Rank(buffer'[v][l])
    BY DEF BufferRanked
  <2>1. CASE v # w
    BY <1>1, <1>3, <2>1 DEF BufferRanked
  <2>2. CASE v = w /\ k \in 1 .. n /\ l \in 1 .. n
    BY <1>1, <1>2, <1>3, <2>2 DEF BufferRanked, n
  <2>3. CASE v = w /\ k \in 1 .. n /\ l \in new
    <3>1. Rank(buffer[w][k]) \in Nat /\ Rank(buffer[w][k]) < 3 * e
      BY <1>1, <1>2, <1>6, <1>7, <2>3 DEF BufferOwn, n
    <3>2. Rank(buffer'[w][l]) = 3 * e + (l - (n + 1)) /\ l - (n + 1) \in {0, 1, 2}
      BY <1>2, <1>5, <2>3 DEF new
    <3>3. e \in Nat /\ buffer'[w][k] = buffer[w][k]
      BY <1>2, <1>3, <2>3 DEF e
    <3>4. QED
      BY <2>3, <3>1, <3>2, <3>3
  <2>4. CASE v = w /\ k \in new /\ l \in new
    <3>1. e \in Nat
      BY <1>2 DEF e
    <3>2. QED
      BY <1>2, <1>5, <2>4, <3>1 DEF new
  <2>5. CASE v = w /\ k \in new /\ l \in 1 .. n
    BY <1>2, <2>5 DEF new
  <2>6. QED
    BY <1>4, <2>1, <2>2, <2>3, <2>4, <2>5
<1>11. BufferLater'
  <2> SUFFICES ASSUME NEW v \in Writers, NEW i \in DOMAIN file,
                      NEW k \in DOMAIN buffer'[v], begun'[file[i].of] = v
               PROVE  Rank(file[i]) < Rank(buffer'[v][k])
    BY <1>3 DEF BufferLater
  <2>1. file[i] \in Pieces /\ begun[file[i].of] = v
        /\ Rank(file[i]) \in Nat /\ Rank(file[i]) < 3 * e
    BY <1>1, <1>6, <1>7 DEF FileBegun
  <2>2. CASE v # w
    BY <1>1, <1>3, <2>1, <2>2 DEF BufferLater
  <2>3. CASE v = w /\ k \in 1 .. n
    BY <1>1, <1>2, <1>3, <2>1, <2>3 DEF BufferLater, n
  <2>4. CASE v = w /\ k \in new
    <3>1. Rank(buffer'[w][k]) = 3 * e + (k - (n + 1)) /\ k - (n + 1) \in {0, 1, 2}
      BY <1>2, <1>5, <2>4 DEF new
    <3>2. e \in Nat
      BY <1>2 DEF e
    <3>3. QED
      BY <2>1, <2>4, <3>1, <3>2
  <2>5. QED
    BY <1>4, <2>2, <2>3, <2>4
<1>12. QED
  BY <1>8, <1>9, <1>10, <1>11

LEMMA OrderWrite ==
  ASSUME OrderInv, NEW w \in Writers, Write(w)
  PROVE  FileBegun' /\ BufferOwn' /\ FileRanked' /\ BufferRanked' /\ BufferLater'
<1> DEFINE f == Len(file)
           m == Len(buffer[w])
<1>1. Typed /\ FileBegun /\ BufferOwn /\ FileRanked /\ BufferRanked /\ BufferLater
  BY DEF OrderInv
<1>2. /\ f \in Nat /\ DOMAIN file = 1 .. f
      /\ m \in Nat /\ DOMAIN buffer[w] = 1 .. m
      /\ begun' = begun
  BY <1>1, Lengths DEF Write
<1>3. PICK n \in 1 .. m :
        /\ file' \in Seq(Pieces) /\ Len(file') = f + n
        /\ \A i \in 1 .. f : file'[i] = file[i]
        /\ \A k \in 1 .. n : file'[f + k] = buffer[w][k]
        /\ buffer' \in [Writers -> Seq(Pieces)]
        /\ \A v \in Writers \ {w} : buffer'[v] = buffer[v]
        /\ Len(buffer'[w]) = m - n
        /\ \A k \in 1 .. m - n : buffer'[w][k] = buffer[w][k + n]
  BY <1>1, WriteEffect
<1>4. DOMAIN file' = 1 .. f + n /\ DOMAIN buffer'[w] = 1 .. m - n
  BY <1>3, LenProperties
<1> HIDE DEF f, m
\* What is at a position of the file and of a buffer after the write.
<1>5. ASSUME NEW i \in DOMAIN file'
      PROVE  \/ i \in DOMAIN file /\ file'[i] = file[i]
             \/ /\ i \notin DOMAIN file /\ i - f \in 1 .. n
                /\ i - f \in DOMAIN buffer[w] /\ file'[i] = buffer[w][i - f]
  <2>1. CASE i \in 1 .. f
    BY <1>2, <1>3, <2>1
  <2>2. CASE i \notin 1 .. f
    <3>1. i - f \in 1 .. n /\ i = f + (i - f) /\ 1 .. n \subseteq 1 .. m
      BY <1>2, <1>4, <2>2
    <3>2. QED
      BY <1>2, <1>3, <2>2, <3>1
  <2>3. QED
    BY <2>1, <2>2
<1>6. ASSUME NEW k \in DOMAIN buffer'[w]
      PROVE  /\ k + n \in DOMAIN buffer[w] /\ buffer'[w][k] = buffer[w][k + n]
             /\ \A l \in 1 .. n : l < k + n
  BY <1>2, <1>3, <1>4
<1>7. FileBegun'
  BY <1>1, <1>2, <1>5 DEF FileBegun, BufferOwn
<1>8. BufferOwn'
  <2> SUFFICES ASSUME NEW v \in Writers, NEW k \in DOMAIN buffer'[v]
               PROVE  /\ buffer'[v][k].of \in DOMAIN begun
                      /\ begun[buffer'[v][k].of] = v
    BY <1>2 DEF BufferOwn
  <2>1. CASE v = w
    BY <1>1, <1>6, <2>1 DEF BufferOwn
  <2>2. CASE v # w
    BY <1>1, <1>3, <2>2 DEF BufferOwn
  <2>3. QED
    BY <2>1, <2>2
<1>9. FileRanked'
  <2> SUFFICES ASSUME NEW i \in DOMAIN file', NEW j \in DOMAIN file', i < j,
                      begun[file'[i].of] = begun[file'[j].of]
               PROVE  Rank(file'[i]) < Rank(file'[j])
    BY <1>2 DEF FileRanked
  <2>1. CASE j \in DOMAIN file
    <3>1. i \in DOMAIN file
      BY <1>2, <1>4, <2>1
    <3>2. file'[i] = file[i] /\ file'[j] = file[j]
      BY <1>2, <1>3, <2>1, <3>1
    <3>3. QED
      BY <1>1, <2>1, <3>1, <3>2 DEF FileRanked
  <2>2. CASE j \notin DOMAIN file
    <3>1. j - f \in DOMAIN buffer[w] /\ file'[j] = buffer[w][j - f]
      BY <1>5, <2>2
    <3>2. begun[file'[j].of] = w
      BY <1>1, <3>1 DEF BufferOwn
    <3>3. CASE i \in DOMAIN file
      <4>1. file'[i] = file[i]
        BY <1>2, <1>3, <3>3
      <4>2. QED
        BY <1>1, <3>1, <3>2, <3>3, <4>1 DEF BufferLater
    <3>4. CASE i \notin DOMAIN file
      <4>1. i - f \in DOMAIN buffer[w] /\ file'[i] = buffer[w][i - f]
        BY <1>5, <3>4
      <4>2. i - f < j - f
        BY <1>2, <1>3, <1>4
      <4>3. QED
        BY <1>1, <3>1, <4>1, <4>2 DEF BufferRanked
    <3>5. QED
      BY <3>3, <3>4
  <2>3. QED
    BY <2>1, <2>2
<1>10. BufferRanked'
  <2> SUFFICES ASSUME NEW v \in Writers, NEW k \in DOMAIN buffer'[v],
                      NEW l \in DOMAIN buffer'[v], k < l
               PROVE  Rank(buffer'[v][k]) < Rank(buffer'[v][l])
    BY DEF BufferRanked
  <2>1. CASE v = w
    <3>1. k + n < l + n
      BY <1>2, <1>3, <1>4, <2>1
    <3>2. QED
      BY <1>1, <1>6, <2>1, <3>1 DEF BufferRanked
  <2>2. CASE v # w
    BY <1>1, <1>3, <2>2 DEF BufferRanked
  <2>3. QED
    BY <2>1, <2>2
<1>11. BufferLater'
  <2> SUFFICES ASSUME NEW v \in Writers, NEW i \in DOMAIN file',
                      NEW k \in DOMAIN buffer'[v], begun[file'[i].of] = v
               PROVE  Rank(file'[i]) < Rank(buffer'[v][k])
    BY <1>2 DEF BufferLater
  <2>1. CASE i \in DOMAIN file /\ v = w
    <3>1. file'[i] = file[i]
      BY <1>2, <1>3, <2>1
    <3>2. QED
      BY <1>1, <1>6, <2>1, <3>1 DEF BufferLater
  <2>2. CASE i \in DOMAIN file /\ v # w
    <3>1. file'[i] = file[i]
      BY <1>2, <1>3, <2>2
    <3>2. QED
      BY <1>1, <1>3, <2>2, <3>1 DEF BufferLater
  <2>3. CASE i \notin DOMAIN file
    <3>1. /\ i - f \in 1 .. n /\ i - f \in DOMAIN buffer[w]
          /\ file'[i] = buffer[w][i - f]
      BY <1>5, <2>3
    <3>2. v = w
      BY <1>1, <3>1 DEF BufferOwn
    <3>3. i - f < k + n
      BY <1>6, <3>1, <3>2
    <3>4. QED
      BY <1>1, <1>6, <3>1, <3>2, <3>3 DEF BufferRanked
  <2>4. QED
    BY <2>1, <2>2, <2>3
<1>12. QED
  BY <1>7, <1>8, <1>9, <1>10, <1>11

LEMMA OrderSettle ==
  ASSUME OrderInv, Settles
  PROVE  FileBegun' /\ BufferOwn' /\ FileRanked' /\ BufferRanked' /\ BufferLater'
<1>1. FileBegun /\ BufferOwn /\ FileRanked /\ BufferRanked /\ BufferLater
  BY DEF OrderInv
<1>2. file' = file /\ begun' = begun
  BY DEF Settles
<1>3. \A w \in Writers : \A k \in DOMAIN buffer'[w] :
        k \in DOMAIN buffer[w] /\ buffer'[w] = buffer[w]
  <2>1. DOMAIN <<>> = {}
    OBVIOUS
  <2>2. QED
    BY <2>1 DEF Settles
<1>4. FileBegun' /\ FileRanked'
  BY <1>1, <1>2 DEF FileBegun, FileRanked
<1>5. BufferOwn' /\ BufferRanked' /\ BufferLater'
  BY <1>1, <1>2, <1>3 DEF BufferOwn, BufferRanked, BufferLater
<1>6. QED
  BY <1>4, <1>5

LEMMA OrderInit == Init => OrderInv
<1> SUFFICES ASSUME Init PROVE OrderInv
  OBVIOUS
<1>1. Typed
  <2>1. <<>> \in Seq(Pieces) /\ <<>> \in Seq(Writers) /\ Len(<<>>) = 0
    BY EmptySeq
  <2>2. /\ file \in Seq(Pieces) /\ begun \in Seq(Writers)
        /\ buffer \in [Writers -> Seq(Pieces)]
    BY <2>1 DEF Init
  <2>3. /\ event \in [Writers -> 0 .. Len(begun)] /\ Len(begun) <= MaxEvents
        /\ tears \in 0 .. faults /\ faults \in 0 .. MaxFaults
    BY <2>1, AuditAssumption DEF Init
  <2>4. QED
    BY <2>2, <2>3 DEF Init, Typed
<1>2. DOMAIN file = {} /\ \A w \in Writers : DOMAIN buffer[w] = {}
  BY DEF Init
<1>3. QED
  BY <1>1, <1>2 DEF OrderInv, FileBegun, BufferOwn, FileRanked, BufferRanked,
                    BufferLater

LEMMA OrderNext == OrderInv /\ [Next]_vars => OrderInv'
<1> SUFFICES ASSUME OrderInv, [Next]_vars PROVE OrderInv'
  OBVIOUS
<1>1. Typed
  BY DEF OrderInv
<1>2. FileBegun' /\ BufferOwn' /\ FileRanked' /\ BufferRanked' /\ BufferLater'
  BY <1>1, StepCases, OrderAppend, OrderWrite, OrderSettle
<1>3. QED
  BY <1>1, <1>2, NextTyped DEF OrderInv

LEMMA OrderInvariant == Spec => []OrderInv
  BY OrderInit, OrderNext, PTL DEF Spec

\* The variables keep their types, and no piece of a line is ever written
\* twice, whatever part of it a write(2) accepted and whatever was left over.
THEOREM TypeCorrect == Spec => []TypeOK
<1>1. OrderInv => TypeOK
  <2> SUFFICES ASSUME OrderInv PROVE TypeOK
    OBVIOUS
  <2>1. Typed /\ FileRanked
    BY DEF OrderInv
  <2>2. ASSUME NEW i \in DOMAIN file, NEW j \in DOMAIN file,
               file[i] = file[j]
        PROVE  i = j
    <3>1. i \in Int /\ j \in Int /\ file[i] \in Pieces
      BY <2>1, LenProperties, ElementOfSeq DEF Typed
    <3>2. ~(Rank(file[i]) < Rank(file[j])) /\ ~(Rank(file[j]) < Rank(file[i]))
      BY <2>2, <3>1, Ranks
    <3>3. ~(i < j) /\ ~(j < i)
      BY <2>1, <2>2, <3>2 DEF FileRanked
    <3>4. QED
      BY <3>1, <3>3
  <2>3. QED
    BY <2>1, <2>2 DEF Typed, TypeOK
<1>2. QED
  BY <1>1, OrderInvariant, PTL

\* audit/mod.rs: a reader yields each writer's events in the order in which
\* their appends began, none twice, for any number of writers, short writes,
\* failed flushes whose leftovers go first, and crashes.
THEOREM PerWriterOrder == Spec => []ReadInOrder
<1>1. OrderInv => ReadInOrder
  <2> SUFFICES ASSUME OrderInv, NEW i \in DOMAIN file, NEW j \in DOMAIN file,
                      LineAt(i), LineAt(j), i < j,
                      begun[file[i].of] = begun[file[j].of]
               PROVE  file[i].of < file[j].of
    BY DEF ReadInOrder
  <2>1. Typed /\ FileRanked
    BY DEF OrderInv
  <2>2. file[i] \in Pieces /\ file[j] \in Pieces
    BY <2>1, LenProperties, ElementOfSeq DEF Typed
  <2>3. file[i].part = "open" /\ file[j].part = "open"
    BY DEF LineAt
  <2>4. Rank(file[i]) < Rank(file[j])
    BY <2>1 DEF FileRanked
  <2>5. /\ file[i].of \in Nat /\ file[j].of \in Nat
        /\ Rank(file[i]) = 3 * file[i].of /\ Rank(file[j]) = 3 * file[j].of
    BY <2>2, <2>3, Ranks DEF Rank
  <2>6. QED
    BY <2>4, <2>5
<1>2. QED
  BY <1>1, OrderInvariant, PTL

-----------------------------------------------------------------------------
(* What a process that dies leaves at the end of the file.  Two neighbours  *)
(* in the log continue each other, or the first ends a line and the second  *)
(* begins one; a neighbour that begins a line before the last one has ended *)
(* is a cut, and the line it begins is the one a reader loses.              *)

Continues(p, q) ==
  \/ p.part = "open" /\ q = Piece("close", p.of)
  \/ p.part = "close" /\ q = Piece("newline", p.of)

Follows(p, q) == Continues(p, q) \/ (p.part = "newline" /\ q.part = "open")
Cuts(p, q) == p.part # "newline" /\ q.part = "open"
Meets(p, q) == Continues(p, q) \/ q.part = "open"

\* A buffer holds lines: the end of one, then whole ones; and as long as the
\* file is empty, whole ones only.
BuffersWhole ==
  \A w \in Writers : Len(buffer[w]) > 0 =>
    /\ buffer[w][Len(buffer[w])].part = "newline"
    /\ \A k \in 1 .. Len(buffer[w]) - 1 : Follows(buffer[w][k], buffer[w][k + 1])
    /\ Len(file) = 0 => buffer[w][1].part = "open"

FileStarts == Len(file) > 0 => file[1].part = "open"

Has(s, p) == \E i \in DOMAIN s : s[i] = p

\* An acknowledged event is in the file to its last piece, and one that is
\* being flushed is there or on its way.
AckedWritten ==
  /\ \A e \in acked : Has(file, Piece("newline", e))
  /\ \A w \in Writers : pc[w] = "flush" =>
       \/ Has(file, Piece("newline", event[w]))
       \/ Has(buffer[w], Piece("newline", event[w]))

\* While every write(2) is whole, so is every line.
LinesWhole ==
  ~ short =>
    /\ \A i \in 1 .. Len(file) - 1 : Follows(file[i], file[i + 1])
    /\ Len(file) > 0 => file[Len(file)].part = "newline"
    /\ \A w \in Writers : Len(buffer[w]) > 0 => buffer[w][1].part = "open"

\* One writer has begun every append so far.
Solo == \A d, e \in DOMAIN begun : begun[d] = begun[e]

SoloMeets ==
  Solo =>
    /\ \A i \in 1 .. Len(file) - 1 : Meets(file[i], file[i + 1])
    /\ \A w \in Writers : Len(buffer[w]) > 0 /\ Len(file) > 0 =>
         Meets(file[Len(file)], buffer[w][1])

Breaks == {i \in 1 .. Len(file) - 1 : Cuts(file[i], file[i + 1])}

\* The last line is incomplete and nobody holds the rest of it.
Torn ==
  /\ Len(file) > 0
  /\ file[Len(file)].part # "newline"
  /\ \A w \in Writers : Len(buffer[w]) > 0 => buffer[w][1].part = "open"

TearsCut == Solo => Cardinality(Breaks) + (IF Torn THEN 1 ELSE 0) <= tears

LossInv ==
  /\ OrderInv
  /\ BuffersWhole
  /\ FileStarts
  /\ AckedWritten
  /\ LinesWhole
  /\ SoloMeets
  /\ TearsCut

\* The typing facts the lemmas below share.
LEMMA LossTypes ==
  ASSUME LossInv
  PROVE  /\ Typed /\ BufferOwn
         /\ Len(file) \in Nat /\ DOMAIN file = 1 .. Len(file)
         /\ Len(begun) \in Nat /\ DOMAIN begun = 1 .. Len(begun)
         /\ \A w \in Writers : /\ Len(buffer[w]) \in Nat
                               /\ DOMAIN buffer[w] = 1 .. Len(buffer[w])
<1>1. Typed /\ BufferOwn
  BY DEF LossInv, OrderInv
<1>2. QED
  BY <1>1, LenProperties DEF Typed

\* Two writers never both hold pieces while one has begun everything.
LEMMA SoloBuffers ==
  ASSUME LossInv, Solo, NEW v \in Writers, NEW w \in Writers,
         Len(buffer[v]) > 0, Len(buffer[w]) > 0
  PROVE  v = w
<1>1. 1 \in DOMAIN buffer[v] /\ 1 \in DOMAIN buffer[w]
  BY LossTypes
<1>2. QED
  BY <1>1, LossTypes DEF BufferOwn, Solo

LEMMA StartsOpen ==
  ASSUME NEW p, NEW q, Follows(p, q)
  PROVE  Meets(p, q) /\ ~Cuts(p, q)
  BY DEF Follows, Meets, Cuts, Continues, Piece

LEMMA BuffersAppend ==
  ASSUME LossInv, NEW w \in Writers, AppendEvent(w)
  PROVE  BuffersWhole'
<1> DEFINE e == Len(begun) + 1
           n == Len(buffer[w])
<1>1. Typed /\ BuffersWhole /\ n \in Nat
  BY LossTypes DEF LossInv
<1>2. /\ file' = file
      /\ \A v \in Writers \ {w} : buffer'[v] = buffer[v]
      /\ Len(buffer'[w]) = n + 3
      /\ \A k \in 1 .. n : buffer'[w][k] = buffer[w][k]
      /\ buffer'[w][n + 1] = Piece("open", e)
      /\ buffer'[w][n + 2] = Piece("close", e)
      /\ buffer'[w][n + 3] = Piece("newline", e)
  BY <1>1, AppendEffect DEF AppendEvent
<1>3. /\ n > 0 => /\ buffer[w][n].part = "newline"
                  /\ \A k \in 1 .. n - 1 : Follows(buffer[w][k], buffer[w][k + 1])
                  /\ Len(file) = 0 => buffer[w][1].part = "open"
  BY <1>1 DEF BuffersWhole
<1> HIDE DEF e, n
<1>4. buffer'[w][n + 3].part = "newline"
  BY <1>2 DEF Piece
<1>5. Len(file) = 0 => buffer'[w][1].part = "open"
  <2>1. CASE n = 0
    BY <1>2, <2>1 DEF Piece
  <2>2. CASE n > 0
    BY <1>1, <1>2, <1>3, <2>2
  <2>3. QED
    BY <1>1, <2>1, <2>2
<1>6. ASSUME NEW k \in 1 .. n + 2
      PROVE  Follows(buffer'[w][k], buffer'[w][k + 1])
  <2>1. CASE k \in 1 .. n - 1
    <3>1. k \in 1 .. n /\ k + 1 \in 1 .. n /\ n > 0
      BY <1>1, <2>1
    <3>2. QED
      BY <1>2, <1>3, <2>1, <3>1
  <2>2. CASE k = n
    <3>1. n > 0 /\ n \in 1 .. n
      BY <1>1, <2>2
    <3>2. buffer'[w][k].part = "newline"
      BY <1>2, <1>3, <2>2, <3>1
    <3>3. buffer'[w][k + 1].part = "open"
      BY <1>2, <2>2 DEF Piece
    <3>4. QED
      BY <3>2, <3>3 DEF Follows
  <2>3. CASE k = n + 1
    <3>1. k + 1 = n + 2
      BY <1>1, <2>3
    <3>2. QED
      BY <1>2, <2>3, <3>1 DEF Follows, Continues, Piece
  <2>4. CASE k = n + 2
    <3>1. k + 1 = n + 3
      BY <1>1, <2>4
    <3>2. QED
      BY <1>2, <2>4, <3>1 DEF Follows, Continues, Piece
  <2>5. QED
    BY <1>1, <2>1, <2>2, <2>3, <2>4
<1>7. Len(buffer'[w]) - 1 = n + 2
  BY <1>1, <1>2
<1>8. QED
  <2> SUFFICES ASSUME NEW v \in Writers, Len(buffer'[v]) > 0
               PROVE  /\ buffer'[v][Len(buffer'[v])].part = "newline"
                      /\ \A k \in 1 .. Len(buffer'[v]) - 1 :
                           Follows(buffer'[v][k], buffer'[v][k + 1])
                      /\ Len(file') = 0 => buffer'[v][1].part = "open"
    BY DEF BuffersWhole, Follows, Continues
  <2>1. CASE v = w
    <3>1. \A k \in 1 .. Len(buffer'[w]) - 1 :
            Follows(buffer'[w][k], buffer'[w][k + 1])
      BY <1>6, <1>7
    <3>2. buffer'[w][Len(buffer'[w])].part = "newline"
      BY <1>2, <1>4
    <3>3. QED
      BY <1>2, <1>5, <2>1, <3>1, <3>2
  <2>2. CASE v # w
    BY <1>1, <1>2, <2>2 DEF BuffersWhole
  <2>3. QED
    BY <2>1, <2>2

\* A write as the lemmas about cuts see it.
WroteFrom(w, n) ==
  /\ n \in 1 .. Len(buffer[w])
  /\ Len(file') = Len(file) + n
  /\ \A i \in 1 .. Len(file) : file'[i] = file[i]
  /\ \A k \in 1 .. n : file'[Len(file) + k] = buffer[w][k]
  /\ \A v \in Writers \ {w} : buffer'[v] = buffer[v]
  /\ Len(buffer'[w]) = Len(buffer[w]) - n
  /\ \A k \in 1 .. Len(buffer[w]) - n : buffer'[w][k] = buffer[w][k + n]
  /\ short' = (short \/ n < Len(buffer[w]))
  /\ begun' = begun /\ tears' = tears

LEMMA WriteIsFrom ==
  ASSUME LossInv, NEW w \in Writers, Write(w)
  PROVE  \E n \in 1 .. Len(buffer[w]) : WroteFrom(w, n)
<1>1. Typed
  BY LossTypes
<1>2. begun' = begun /\ tears' = tears
  BY DEF Write
<1>3. QED
  BY <1>1, <1>2, WriteEffect DEF WroteFrom

\* The end of the file after a write, and what its writer still holds.
LEMMA WriteEnds ==
  ASSUME LossInv, NEW w \in Writers, NEW n, WroteFrom(w, n)
  PROVE  LET f == Len(file)
             m == Len(buffer[w])
         IN  /\ f \in Nat /\ m \in Nat /\ n \in Nat /\ 1 <= n /\ n <= m
             /\ file'[Len(file')] = buffer[w][n]
             /\ n = m => buffer[w][n].part = "newline" /\ Len(buffer'[w]) = 0
             /\ n < m => /\ Len(buffer'[w]) > 0
                         /\ buffer'[w][1] = buffer[w][n + 1]
                         /\ Follows(buffer[w][n], buffer[w][n + 1])
             /\ \A i \in 1 .. f + n - 1 :
                  \/ /\ i < f /\ i \in 1 .. f - 1
                     /\ file'[i] = file[i] /\ file'[i + 1] = file[i + 1]
                  \/ /\ i = f /\ f > 0
                     /\ file'[i] = file[f] /\ file'[i + 1] = buffer[w][1]
                  \/ i > f /\ Follows(file'[i], file'[i + 1])
<1> DEFINE f == Len(file)
           m == Len(buffer[w])
<1>1. /\ f \in Nat /\ m \in Nat /\ n \in Nat /\ 1 <= n /\ n <= m
      /\ BuffersWhole
  BY LossTypes DEF WroteFrom, LossInv
<1>2. /\ buffer[w][m].part = "newline"
      /\ \A k \in 1 .. m - 1 : Follows(buffer[w][k], buffer[w][k + 1])
  BY <1>1 DEF BuffersWhole
<1>3. /\ Len(file') = f + n
      /\ \A i \in 1 .. f : file'[i] = file[i]
      /\ \A k \in 1 .. n : file'[f + k] = buffer[w][k]
      /\ Len(buffer'[w]) = m - n
      /\ \A k \in 1 .. m - n : buffer'[w][k] = buffer[w][k + n]
  BY DEF WroteFrom
<1> HIDE DEF f, m
<1>4. file'[Len(file')] = buffer[w][n]
  BY <1>1, <1>3
<1>5. n = m => buffer[w][n].part = "newline" /\ Len(buffer'[w]) = 0
  BY <1>1, <1>2, <1>3
<1>6. n < m => /\ Len(buffer'[w]) > 0
               /\ buffer'[w][1] = buffer[w][n + 1]
               /\ Follows(buffer[w][n], buffer[w][n + 1])
  <2> SUFFICES ASSUME n < m PROVE <1>6!2
    OBVIOUS
  <2>1. /\ 1 \in 1 .. m - n /\ n \in 1 .. m - 1 /\ 1 + n = n + 1 /\ m - n > 0
    BY <1>1
  <2>2. QED
    BY <1>2, <1>3, <2>1
<1>7. ASSUME NEW i \in 1 .. f + n - 1
      PROVE  \/ /\ i < f /\ i \in 1 .. f - 1
                /\ file'[i] = file[i] /\ file'[i + 1] = file[i + 1]
             \/ /\ i = f /\ f > 0
                /\ file'[i] = file[f] /\ file'[i + 1] = buffer[w][1]
             \/ i > f /\ Follows(file'[i], file'[i + 1])
  <2>1. CASE i < f
    <3>1. i \in 1 .. f - 1 /\ i \in 1 .. f /\ i + 1 \in 1 .. f
      BY <1>1, <2>1
    <3>2. QED
      BY <1>3, <2>1, <3>1
  <2>2. CASE i = f
    <3>1. i \in 1 .. f /\ f > 0 /\ 1 \in 1 .. n
      BY <1>1, <2>2
    <3>2. QED
      BY <1>3, <2>2, <3>1
  <2>3. CASE i > f
    <3>1. /\ i - f \in 1 .. n /\ i - f + 1 \in 1 .. n /\ i - f \in 1 .. m - 1
          /\ i = f + (i - f) /\ i + 1 = f + (i - f + 1)
      BY <1>1, <2>3
    <3>2. file'[i] = buffer[w][i - f] /\ file'[i + 1] = buffer[w][i - f + 1]
      BY <1>3, <3>1
    <3>3. QED
      BY <1>2, <2>3, <3>1, <3>2
  <2>4. QED
    BY <1>1, <2>1, <2>2, <2>3
<1>8. QED
  BY <1>1, <1>4, <1>5, <1>6, <1>7 DEF f, m

LEMMA NextBuffers ==
  ASSUME LossInv, [Next]_vars
  PROVE  BuffersWhole' /\ FileStarts'
<1>1. /\ Typed /\ BuffersWhole /\ FileStarts /\ Len(file) \in Nat
      /\ \A w \in Writers : Len(buffer[w]) \in Nat
  BY LossTypes DEF LossInv
<1>2. ASSUME NEW w \in Writers, AppendEvent(w)
      PROVE  BuffersWhole' /\ FileStarts'
  BY <1>1, <1>2, BuffersAppend DEF AppendEvent, FileStarts
<1>3. ASSUME NEW w \in Writers, Write(w)
      PROVE  BuffersWhole' /\ FileStarts'
  <2>1. PICK n : WroteFrom(w, n)
    BY <1>3, WriteIsFrom
  <2> DEFINE f == Len(file)
             m == Len(buffer[w])
  <2>2. /\ f \in Nat /\ m \in Nat /\ n \in Nat /\ 1 <= n /\ n <= m
        /\ Len(file') = f + n
        /\ \A i \in 1 .. f : file'[i] = file[i]
        /\ \A k \in 1 .. n : file'[f + k] = buffer[w][k]
        /\ \A v \in Writers \ {w} : buffer'[v] = buffer[v]
        /\ Len(buffer'[w]) = m - n
        /\ \A k \in 1 .. m - n : buffer'[w][k] = buffer[w][k + n]
    BY <2>1, WriteEnds DEF WroteFrom
  <2>3. /\ buffer[w][m].part = "newline"
        /\ \A k \in 1 .. m - 1 : Follows(buffer[w][k], buffer[w][k + 1])
        /\ f = 0 => buffer[w][1].part = "open"
    <3>1. Len(buffer[w]) > 0
      BY <2>2
    <3>2. QED
      BY <1>1, <3>1 DEF BuffersWhole
  <2> HIDE DEF f, m
  <2>4. FileStarts'
    <3>1. CASE f = 0
      <4>1. 1 \in 1 .. n /\ f + 1 = 1
        BY <2>2, <3>1
      <4>2. QED
        BY <2>2, <2>3, <3>1, <4>1 DEF FileStarts
    <3>2. CASE f > 0
      <4>1. 1 \in 1 .. f
        BY <2>2, <3>2
      <4>2. QED
        BY <1>1, <2>2, <3>2, <4>1 DEF FileStarts, f
    <3>3. QED
      BY <2>2, <3>1, <3>2
  <2>5. Len(file') # 0
    BY <2>2
  <2>6. ASSUME m - n > 0
        PROVE  /\ buffer'[w][m - n].part = "newline"
               /\ \A k \in 1 .. m - n - 1 : Follows(buffer'[w][k], buffer'[w][k + 1])
    <3>1. /\ m - n \in 1 .. m - n /\ m - n + n = m
      BY <2>2, <2>6
    <3>2. \A k \in 1 .. m - n - 1 :
            /\ k \in 1 .. m - n /\ k + 1 \in 1 .. m - n
            /\ k + n \in 1 .. m - 1 /\ (k + 1) + n = (k + n) + 1
      BY <2>2
    <3>3. QED
      BY <2>2, <2>3, <3>1, <3>2
  <2>7. BuffersWhole'
    <3> SUFFICES ASSUME NEW v \in Writers, Len(buffer'[v]) > 0
                 PROVE  /\ buffer'[v][Len(buffer'[v])].part = "newline"
                        /\ \A k \in 1 .. Len(buffer'[v]) - 1 :
                             Follows(buffer'[v][k], buffer'[v][k + 1])
      BY <2>5 DEF BuffersWhole, Follows, Continues
    <3>1. CASE v = w
      BY <2>2, <2>6, <3>1
    <3>2. CASE v # w
      BY <1>1, <2>2, <3>2 DEF BuffersWhole
    <3>3. QED
      BY <3>1, <3>2
  <2>8. QED
    BY <2>4, <2>7
<1>4. CASE Settles
  <2>1. Len(<<>>) = 0
    BY EmptySeq
  <2>2. \A w \in Writers : Len(buffer'[w]) > 0 => buffer'[w] = buffer[w]
    BY <1>4, <2>1 DEF Settles
  <2>3. file' = file
    BY <1>4 DEF Settles
  <2>4. QED
    BY <1>1, <2>2, <2>3 DEF BuffersWhole, FileStarts, Follows, Continues
<1>5. QED
  BY <1>1, <1>2, <1>3, <1>4, StepCases

LEMMA NextAcked ==
  ASSUME LossInv, [Next]_vars
  PROVE  AckedWritten'
<1>1. /\ Typed /\ AckedWritten /\ Len(file) \in Nat /\ DOMAIN file = 1 .. Len(file)
      /\ \A w \in Writers : /\ Len(buffer[w]) \in Nat
                            /\ DOMAIN buffer[w] = 1 .. Len(buffer[w])
  BY LossTypes DEF LossInv
<1>2. ASSUME NEW w \in Writers, AppendEvent(w) PROVE AckedWritten'
  <2> DEFINE e == Len(begun) + 1
             n == Len(buffer[w])
  <2>1. /\ file' = file /\ acked' = acked
        /\ \A v \in Writers \ {w} : /\ buffer'[v] = buffer[v]
                                    /\ event'[v] = event[v] /\ pc'[v] = pc[v]
        /\ event'[w] = e
        /\ buffer' \in [Writers -> Seq(Pieces)]
        /\ Len(buffer'[w]) = n + 3
        /\ buffer'[w][n + 3] = Piece("newline", e)
    <3>1. /\ file' = file /\ acked' = acked /\ pc' = [pc EXCEPT ![w] = "flush"]
      BY <1>2 DEF AppendEvent
    <3>2. /\ event' = [event EXCEPT ![w] = e]
          /\ buffer' \in [Writers -> Seq(Pieces)]
          /\ \A v \in Writers \ {w} : buffer'[v] = buffer[v]
          /\ Len(buffer'[w]) = n + 3
          /\ buffer'[w][n + 3] = Piece("newline", e)
      BY <1>1, <1>2, AppendEffect
    <3> HIDE DEF e, n
    <3>3. QED
      BY <1>1, <3>1, <3>2 DEF Typed
  <2>2. n + 3 \in DOMAIN buffer'[w]
    BY <1>1, <2>1, LenProperties
  <2>3. Has(buffer'[w], Piece("newline", event'[w]))
    BY <2>1, <2>2 DEF Has
  <2>4. \A d \in acked' : Has(file', Piece("newline", d))
    BY <1>1, <2>1 DEF AckedWritten
  <2>5. \A v \in Writers : pc'[v] = "flush" =>
          \/ Has(file', Piece("newline", event'[v]))
          \/ Has(buffer'[v], Piece("newline", event'[v]))
    BY <1>1, <2>1, <2>3 DEF AckedWritten
  <2>6. QED
    BY <2>4, <2>5 DEF AckedWritten, Has, Piece
<1>3. ASSUME NEW w \in Writers, Write(w) PROVE AckedWritten'
  <2>1. PICK n : WroteFrom(w, n)
    BY <1>3, WriteIsFrom
  <2> DEFINE f == Len(file)
             m == Len(buffer[w])
  <2>2. /\ f \in Nat /\ m \in Nat /\ n \in Nat /\ 1 <= n /\ n <= m
        /\ Len(file') = f + n
        /\ \A i \in 1 .. f : file'[i] = file[i]
        /\ \A k \in 1 .. n : file'[f + k] = buffer[w][k]
        /\ \A v \in Writers \ {w} : buffer'[v] = buffer[v]
        /\ Len(buffer'[w]) = m - n
        /\ \A k \in 1 .. m - n : buffer'[w][k] = buffer[w][k + n]
    BY <2>1, WriteEnds DEF WroteFrom
  <2>3. DOMAIN file' = 1 .. f + n /\ DOMAIN buffer'[w] = 1 .. m - n
    <3>1. file' \in Seq(Pieces) /\ buffer' \in [Writers -> Seq(Pieces)]
      BY <1>1, <1>3, WriteEffect
    <3>2. QED
      BY <2>2, <3>1, LenProperties
  <2>4. /\ DOMAIN file = 1 .. f /\ DOMAIN buffer[w] = 1 .. m
        /\ UNCHANGED <<pc, event, acked>>
    BY <1>1, <1>3 DEF Write
  <2> HIDE DEF f, m
  <2>5. ASSUME NEW p, Has(file, p) PROVE Has(file', p)
    <3>1. PICK i \in 1 .. f : file[i] = p
      BY <2>4, <2>5 DEF Has
    <3>2. i \in 1 .. f + n
      BY <2>2
    <3>3. QED
      BY <2>2, <2>3, <3>1, <3>2 DEF Has
  <2>6. ASSUME NEW p, Has(buffer[w], p) PROVE Has(file', p) \/ Has(buffer'[w], p)
    <3>1. PICK k \in 1 .. m : buffer[w][k] = p
      BY <2>4, <2>6 DEF Has
    <3>2. CASE k <= n
      <4>1. k \in 1 .. n /\ f + k \in 1 .. f + n
        BY <2>2, <3>2
      <4>2. QED
        BY <2>2, <2>3, <3>1, <4>1 DEF Has
    <3>3. CASE k > n
      <4>1. k - n \in 1 .. m - n /\ k - n + n = k
        BY <2>2, <3>3
      <4>2. QED
        BY <2>2, <2>3, <3>1, <4>1 DEF Has
    <3>4. QED
      BY <2>2, <3>2, <3>3
  <2>7. \A e \in acked' : Has(file', Piece("newline", e))
    BY <1>1, <2>4, <2>5 DEF AckedWritten
  <2>8. ASSUME NEW v \in Writers, pc'[v] = "flush"
        PROVE  \/ Has(file', Piece("newline", event'[v]))
               \/ Has(buffer'[v], Piece("newline", event'[v]))
    <3>1. \/ Has(file, Piece("newline", event[v]))
          \/ Has(buffer[v], Piece("newline", event[v]))
      BY <1>1, <2>4, <2>8 DEF AckedWritten
    <3>2. CASE v = w
      BY <2>4, <2>5, <2>6, <3>1, <3>2
    <3>3. CASE v # w
      BY <2>2, <2>4, <2>5, <3>1, <3>3
    <3>4. QED
      BY <3>2, <3>3
  <2>9. QED
    BY <2>7, <2>8 DEF AckedWritten, Has, Piece
<1>4. ASSUME NEW w \in Writers, Flushed(w) PROVE AckedWritten'
  <2>1. ~ Has(buffer[w], Piece("newline", event[w]))
    BY <1>4 DEF Flushed, Has
  <2>2. Has(file, Piece("newline", event[w]))
    BY <1>1, <1>4, <2>1 DEF Flushed, AckedWritten
  <2>3. QED
    BY <1>1, <1>4, <2>2 DEF Flushed, AckedWritten, Has, Piece, Typed
<1>5. ASSUME NEW w \in Writers,
             FlushFails(w) \/ Drop(w) \/ Reopen(w) \/ DropFails(w)
      PROVE  AckedWritten'
  <2>1. /\ file' = file /\ acked' = acked /\ event' = event
        /\ pc'[w] # "flush"
        /\ \A v \in Writers \ {w} : pc'[v] = pc[v] /\ buffer'[v] = buffer[v]
    BY <1>1, <1>5 DEF FlushFails, Drop, Reopen, DropFails, history, Typed
  <2>2. \A d \in acked' : Has(file', Piece("newline", d))
    BY <1>1, <2>1 DEF AckedWritten
  <2>3. \A v \in Writers : pc'[v] = "flush" =>
          \/ Has(file', Piece("newline", event'[v]))
          \/ Has(buffer'[v], Piece("newline", event'[v]))
    BY <1>1, <2>1 DEF AckedWritten
  <2>4. QED
    BY <2>2, <2>3 DEF AckedWritten, Has, Piece
<1>6. CASE Crash
  BY <1>1, <1>6 DEF Crash, AckedWritten, Has, Piece
<1>7. CASE UNCHANGED vars
  BY <1>1, <1>7 DEF vars, writers, history, AckedWritten, Has, Piece
<1>8. QED
  BY <1>2, <1>3, <1>4, <1>5, <1>6, <1>7 DEF Next, WriterStep, Finished

\* A buffer's first piece stays first, and a line put into an empty one
\* starts it.
LEMMA AppendFirst ==
  ASSUME LossInv, NEW w \in Writers, AppendEvent(w)
  PROVE  /\ UNCHANGED <<file, tears, short>>
         /\ \A v \in Writers :
              /\ Len(buffer[v]) > 0 =>
                   Len(buffer'[v]) > 0 /\ buffer'[v][1] = buffer[v][1]
              /\ Len(buffer'[v]) > 0 /\ ~(Len(buffer[v]) > 0) =>
                   buffer'[v][1].part = "open"
         /\ Solo' => Solo
<1>1. /\ Typed /\ Len(begun) \in Nat /\ DOMAIN begun = 1 .. Len(begun)
      /\ \A v \in Writers : Len(buffer[v]) \in Nat
  BY LossTypes
<1>2. UNCHANGED <<file, tears, short>>
  BY DEF AppendEvent
<1>3. /\ begun' \in Seq(Writers) /\ Len(begun') = Len(begun) + 1
      /\ \A d \in 1 .. Len(begun) : begun'[d] = begun[d]
      /\ \A v \in Writers \ {w} : buffer'[v] = buffer[v]
      /\ Len(buffer'[w]) = Len(buffer[w]) + 3
      /\ \A k \in 1 .. Len(buffer[w]) : buffer'[w][k] = buffer[w][k]
      /\ buffer'[w][Len(buffer[w]) + 1] = Piece("open", Len(begun) + 1)
  BY <1>1, AppendEffect
<1>4. Solo' => Solo
  <2>1. DOMAIN begun' = 1 .. Len(begun) + 1
    BY <1>3, LenProperties
  <2>2. \A d \in DOMAIN begun : d \in DOMAIN begun' /\ begun'[d] = begun[d]
    BY <1>1, <1>3, <2>1
  <2>3. QED
    BY <2>2 DEF Solo
<1>5. /\ Len(buffer[w]) > 0 =>
           Len(buffer'[w]) > 0 /\ buffer'[w][1] = buffer[w][1]
      /\ ~(Len(buffer[w]) > 0) => buffer'[w][1].part = "open"
  <2>1. CASE Len(buffer[w]) > 0
    BY <1>1, <1>3, <2>1
  <2>2. CASE Len(buffer[w]) = 0
    <3>1. buffer'[w][1] = Piece("open", Len(begun) + 1)
      BY <1>3, <2>2
    <3>2. QED
      BY <2>2, <3>1 DEF Piece
  <2>3. QED
    BY <1>1, <2>1, <2>2
<1>6. QED
  BY <1>2, <1>3, <1>4, <1>5

LEMMA SettleFirst ==
  ASSUME Settles
  PROVE  /\ file' = file /\ begun' = begun /\ short' = short
         /\ \A w \in Writers : Len(buffer'[w]) > 0 => buffer'[w] = buffer[w]
<1>1. Len(<<>>) = 0
  BY EmptySeq
<1>2. QED
  BY <1>1 DEF Settles

LEMMA NextLines ==
  ASSUME LossInv, [Next]_vars
  PROVE  LinesWhole'
<1>1. /\ Typed /\ LinesWhole /\ short \in BOOLEAN
  BY LossTypes DEF LossInv, Typed
<1>2. ASSUME NEW w \in Writers, AppendEvent(w) PROVE LinesWhole'
  BY <1>1, <1>2, AppendFirst DEF LinesWhole, Follows, Continues
<1>3. ASSUME NEW w \in Writers, Write(w) PROVE LinesWhole'
  <2> SUFFICES ASSUME ~ short'
               PROVE  /\ \A i \in 1 .. Len(file') - 1 : Follows(file'[i], file'[i + 1])
                      /\ Len(file') > 0 => file'[Len(file')].part = "newline"
                      /\ \A v \in Writers : Len(buffer'[v]) > 0 =>
                           buffer'[v][1].part = "open"
    BY DEF LinesWhole, Follows, Continues
  <2>1. PICK n : WroteFrom(w, n)
    BY <1>3, WriteIsFrom
  <2> DEFINE f == Len(file)
             m == Len(buffer[w])
  <2>2. /\ f \in Nat /\ m \in Nat /\ n \in Nat /\ 1 <= n /\ n <= m
        /\ Len(file') = f + n
        /\ file'[Len(file')] = buffer[w][n]
        /\ n = m => buffer[w][n].part = "newline" /\ Len(buffer'[w]) = 0
        /\ \A i \in 1 .. f + n - 1 :
             \/ /\ i < f /\ i \in 1 .. f - 1
                /\ file'[i] = file[i] /\ file'[i + 1] = file[i + 1]
             \/ /\ i = f /\ f > 0
                /\ file'[i] = file[f] /\ file'[i + 1] = buffer[w][1]
             \/ i > f /\ Follows(file'[i], file'[i + 1])
        /\ \A v \in Writers \ {w} : buffer'[v] = buffer[v]
    BY <2>1, WriteEnds DEF WroteFrom
  <2>3. ~ short /\ n = m
    <3>1. short' = (short \/ n < m)
      BY <2>1 DEF WroteFrom
    <3>2. ~ short /\ ~(n < m)
      BY <3>1, Zenon
    <3>3. QED
      BY <2>2, <3>2
  <2>4. /\ \A i \in 1 .. f - 1 : Follows(file[i], file[i + 1])
        /\ f > 0 => file[f].part = "newline"
        /\ \A v \in Writers : Len(buffer[v]) > 0 => buffer[v][1].part = "open"
    BY <1>1, <2>3 DEF LinesWhole
  <2>5. buffer[w][1].part = "open"
    BY <2>2, <2>4
  <2> HIDE DEF f, m
  <2>6. \A i \in 1 .. f + n - 1 : Follows(file'[i], file'[i + 1])
    BY <2>2, <2>4, <2>5 DEF Follows
  <2>7. \A v \in Writers : Len(buffer'[v]) > 0 => buffer'[v][1].part = "open"
    BY <2>2, <2>3, <2>4
  <2>8. QED
    BY <2>2, <2>3, <2>6, <2>7
<1>4. CASE Settles
  BY <1>1, <1>4, SettleFirst DEF LinesWhole, Follows, Continues
<1>5. QED
  BY <1>1, <1>2, <1>3, <1>4, StepCases

LEMMA NextSolo ==
  ASSUME LossInv, [Next]_vars
  PROVE  SoloMeets'
<1>1. /\ Typed /\ SoloMeets /\ Len(file) \in Nat
  BY LossTypes DEF LossInv
<1>2. ASSUME NEW w \in Writers, AppendEvent(w) PROVE SoloMeets'
  BY <1>1, <1>2, AppendFirst DEF SoloMeets, Meets, Continues
<1>3. ASSUME NEW w \in Writers, Write(w) PROVE SoloMeets'
  <2>1. PICK n : WroteFrom(w, n)
    BY <1>3, WriteIsFrom
  <2>2. Solo' => Solo
    BY <2>1 DEF WroteFrom, Solo
  <2> SUFFICES ASSUME Solo
               PROVE  /\ \A i \in 1 .. Len(file') - 1 : Meets(file'[i], file'[i + 1])
                      /\ \A v \in Writers : Len(buffer'[v]) > 0 =>
                           Meets(file'[Len(file')], buffer'[v][1])
    BY <2>2 DEF SoloMeets, Meets, Continues
  <2> DEFINE f == Len(file)
             m == Len(buffer[w])
  <2>3. /\ f \in Nat /\ m \in Nat /\ n \in Nat /\ 1 <= n /\ n <= m
        /\ Len(file') = f + n
        /\ file'[Len(file')] = buffer[w][n]
        /\ n = m => Len(buffer'[w]) = 0
        /\ n < m => /\ buffer'[w][1] = buffer[w][n + 1]
                    /\ Follows(buffer[w][n], buffer[w][n + 1])
        /\ \A i \in 1 .. f + n - 1 :
             \/ /\ i < f /\ i \in 1 .. f - 1
                /\ file'[i] = file[i] /\ file'[i + 1] = file[i + 1]
             \/ /\ i = f /\ f > 0
                /\ file'[i] = file[f] /\ file'[i + 1] = buffer[w][1]
             \/ i > f /\ Follows(file'[i], file'[i + 1])
        /\ \A v \in Writers \ {w} : buffer'[v] = buffer[v]
    BY <2>1, WriteEnds DEF WroteFrom
  <2>4. /\ Len(buffer[w]) > 0
        /\ \A i \in 1 .. f - 1 : Meets(file[i], file[i + 1])
        /\ f > 0 => Meets(file[f], buffer[w][1])
    BY <1>1, <2>3 DEF SoloMeets
  <2>5. ASSUME NEW v \in Writers, v # w
        PROVE  ~(Len(buffer'[v]) > 0)
    BY <2>3, <2>4, <2>5, SoloBuffers
  <2> HIDE DEF f, m
  <2>6. \A i \in 1 .. f + n - 1 : Meets(file'[i], file'[i + 1])
    BY <2>3, <2>4, StartsOpen
  <2>7. Len(buffer'[w]) > 0 => Meets(file'[Len(file')], buffer'[w][1])
    BY <2>3, StartsOpen
  <2>8. QED
    BY <2>3, <2>5, <2>6, <2>7
<1>4. CASE Settles
  <2>1. Solo' => Solo
    BY <1>4, SettleFirst DEF Solo
  <2>2. QED
    BY <1>1, <1>4, <2>1, SettleFirst DEF SoloMeets, Meets, Continues
<1>5. QED
  BY <1>1, <1>2, <1>3, <1>4, StepCases

LEMMA BreaksFinite ==
  ASSUME NEW s, NEW n \in Nat
  PROVE  LET B == {i \in 1 .. n - 1 : Cuts(s[i], s[i + 1])}
         IN  IsFiniteSet(B) /\ Cardinality(B) \in Nat
<1>1. IsFiniteSet(1 .. n - 1)
  BY FS_Interval
<1>2. {i \in 1 .. n - 1 : Cuts(s[i], s[i + 1])} \subseteq 1 .. n - 1
  OBVIOUS
<1>3. QED
  BY <1>1, <1>2, FS_Subset, FS_CardinalityType

LEMMA AtMostOneMore ==
  ASSUME NEW S, NEW T, NEW x, IsFiniteSet(S), T \subseteq S \cup {x}
  PROVE  Cardinality(T) <= Cardinality(S) + 1
<1>1. /\ Cardinality(S) \in Nat /\ IsFiniteSet(S \cup {x})
      /\ Cardinality(S \cup {x}) =
           IF x \in S THEN Cardinality(S) ELSE Cardinality(S) + 1
  BY FS_CardinalityType, FS_AddElement
<1>2. /\ Cardinality(T) \in Nat /\ Cardinality(S \cup {x}) \in Nat
      /\ Cardinality(T) <= Cardinality(S \cup {x})
  BY <1>1, FS_Subset, FS_CardinalityType
<1>3. Cardinality(S \cup {x}) <= Cardinality(S) + 1
  <2>1. CASE x \in S
    BY <1>1, <2>1
  <2>2. CASE x \notin S
    BY <1>1, <2>2
  <2>3. QED
    BY <2>1, <2>2
<1>4. QED
  BY <1>1, <1>2, <1>3

LEMMA NextTears ==
  ASSUME LossInv, [Next]_vars
  PROVE  TearsCut'
<1>1. /\ Typed /\ TearsCut /\ Len(file) \in Nat /\ tears \in Nat
      /\ \A v \in Writers : Len(buffer[v]) \in Nat
  BY LossTypes, AuditAssumption DEF LossInv, Typed
<1>2. IsFiniteSet(Breaks) /\ Cardinality(Breaks) \in Nat
  BY <1>1, BreaksFinite DEF Breaks
<1>3. ASSUME NEW w \in Writers, AppendEvent(w) PROVE TearsCut'
  <2>1. Breaks' = Breaks /\ tears' = tears /\ (Solo' => Solo)
    BY <1>3, AppendFirst DEF Breaks, Cuts
  <2>2. Torn' => Torn
    BY <1>3, AppendFirst DEF Torn
  <2>3. QED
    BY <1>1, <1>2, <2>1, <2>2 DEF TearsCut
<1>4. ASSUME NEW w \in Writers, Write(w) PROVE TearsCut'
  <2>1. PICK n : WroteFrom(w, n)
    BY <1>4, WriteIsFrom
  <2>2. Solo' => Solo
    BY <2>1 DEF WroteFrom, Solo
  <2> DEFINE f == Len(file)
             m == Len(buffer[w])
  <2>3. /\ f \in Nat /\ m \in Nat /\ n \in Nat /\ 1 <= n /\ n <= m
        /\ Len(file') = f + n
        /\ file'[Len(file')] = buffer[w][n]
        /\ n = m => buffer[w][n].part = "newline"
        /\ n < m => /\ Len(buffer'[w]) > 0
                    /\ buffer'[w][1] = buffer[w][n + 1]
                    /\ Follows(buffer[w][n], buffer[w][n + 1])
        /\ \A i \in 1 .. f + n - 1 :
             \/ /\ i < f /\ i \in 1 .. f - 1
                /\ file'[i] = file[i] /\ file'[i + 1] = file[i + 1]
             \/ /\ i = f /\ f > 0
                /\ file'[i] = file[f] /\ file'[i + 1] = buffer[w][1]
             \/ i > f /\ Follows(file'[i], file'[i + 1])
        /\ tears' = tears
    BY <2>1, WriteEnds DEF WroteFrom
  <2>4. Len(buffer[w]) > 0
    BY <2>3
  <2>5. ~ Torn'
    <3> SUFFICES ASSUME Torn' PROVE FALSE
      OBVIOUS
    <3>1. /\ buffer[w][n].part # "newline"
          /\ Len(buffer'[w]) > 0 => buffer'[w][1].part = "open"
      BY <2>3 DEF Torn
    <3>2. n < m
      BY <2>3, <3>1
    <3>3. Continues(buffer[w][n], buffer[w][n + 1])
      BY <2>3, <3>1, <3>2 DEF Follows
    <3>4. buffer[w][n + 1].part # "open"
      BY <3>3 DEF Continues, Piece
    <3>5. QED
      BY <2>3, <3>1, <3>2, <3>4
  <2>6. ASSUME Solo, NEW i \in 1 .. f + n - 1, Cuts(file'[i], file'[i + 1])
        PROVE  i \in Breaks \/ (i = f /\ Torn)
    <3>1. CASE i < f
      <4>1. i \in 1 .. f - 1 /\ file'[i] = file[i] /\ file'[i + 1] = file[i + 1]
        BY <2>3, <3>1
      <4>2. QED
        BY <2>6, <4>1 DEF Breaks
    <3>2. CASE i = f
      <4>1. f > 0 /\ file[f].part # "newline" /\ buffer[w][1].part = "open"
        BY <2>3, <2>6, <3>2 DEF Cuts
      <4>2. ASSUME NEW v \in Writers, Len(buffer[v]) > 0
            PROVE  buffer[v][1].part = "open"
        <5>1. v = w
          BY <2>4, <2>6, <4>2, SoloBuffers
        <5>2. QED
          BY <4>1, <5>1
      <4>3. QED
        BY <3>2, <4>1, <4>2 DEF Torn
    <3>3. CASE i > f
      BY <2>3, <2>6, <3>3, StartsOpen
    <3>4. QED
      BY <2>3, <3>1, <3>2, <3>3
  <2>7. Breaks' = {i \in 1 .. f + n - 1 : Cuts(file'[i], file'[i + 1])}
    BY <2>3 DEF Breaks, Cuts
  <2>8. IsFiniteSet(Breaks') /\ Cardinality(Breaks') \in Nat
    <3>1. Breaks' \subseteq 1 .. f + n - 1
      BY <2>7
    <3>2. IsFiniteSet(1 .. f + n - 1)
      <4>1. f + n - 1 \in Int
        BY <2>3
      <4>2. QED
        BY <4>1, FS_Interval
    <3>3. QED
      BY <3>1, <3>2, FS_Subset, FS_CardinalityType
  <2>9. ASSUME Solo
        PROVE  Cardinality(Breaks') <= Cardinality(Breaks) + (IF Torn THEN 1 ELSE 0)
    <3>1. CASE Torn
      <4>1. Breaks' \subseteq Breaks \cup {f}
        BY <2>6, <2>7, <2>9
      <4>2. Cardinality(Breaks') <= Cardinality(Breaks) + 1
        BY <1>2, <4>1, AtMostOneMore
      <4>3. QED
        BY <3>1, <4>2
    <3>2. CASE ~ Torn
      <4>1. Breaks' \subseteq Breaks
        BY <2>6, <2>7, <2>9, <3>2
      <4>2. Cardinality(Breaks') <= Cardinality(Breaks)
        BY <1>2, <4>1, FS_Subset
      <4>3. QED
        BY <1>2, <3>2, <4>2
    <3>3. QED
      BY <3>1, <3>2
  <2>10. QED
    BY <1>1, <1>2, <2>2, <2>3, <2>5, <2>8, <2>9 DEF TearsCut
<1>5. CASE Settles
  <2>1. Breaks' = Breaks
    BY <1>5, SettleFirst DEF Breaks, Cuts
  <2>2. Solo' => Solo
    BY <1>5, SettleFirst DEF Solo
  <2>3. CASE buffer' = buffer /\ tears' = tears
    <3>1. Torn' => Torn
      BY <1>5, <2>3, SettleFirst DEF Torn
    <3>2. QED
      BY <1>1, <1>2, <2>1, <2>2, <2>3, <3>1 DEF TearsCut
  <2>4. CASE tears' = tears + 1
    BY <1>1, <1>2, <2>1, <2>2, <2>4 DEF TearsCut
  <2>5. QED
    BY <1>5, <2>3, <2>4 DEF Settles
<1>6. QED
  BY <1>1, <1>3, <1>4, <1>5, StepCases

LEMMA LossInvariant == Spec => []LossInv
<1>1. Init => LossInv
  <2> SUFFICES ASSUME Init PROVE LossInv
    OBVIOUS
  <2>1. Len(file) = 0 /\ \A w \in Writers : Len(buffer[w]) = 0
    BY EmptySeq DEF Init
  <2>2. BuffersWhole /\ FileStarts /\ AckedWritten /\ SoloMeets
    BY <2>1 DEF Init, BuffersWhole, FileStarts, AckedWritten, SoloMeets
  <2>3. LinesWhole
    BY <2>1 DEF LinesWhole
  <2>4. TearsCut
    <3>1. Breaks = {} /\ ~ Torn
      BY <2>1 DEF Breaks, Torn
    <3>2. Cardinality(Breaks) = 0 /\ tears = 0
      BY <3>1, FS_EmptySet DEF Init
    <3>3. QED
      BY <3>1, <3>2 DEF TearsCut
  <2>5. OrderInv
    BY OrderInit
  <2>6. QED
    BY <2>2, <2>3, <2>4, <2>5 DEF LossInv
<1>2. LossInv /\ [Next]_vars => LossInv'
  <2> SUFFICES ASSUME LossInv, [Next]_vars PROVE LossInv'
    OBVIOUS
  <2>1. OrderInv'
    BY OrderNext DEF LossInv
  <2>2. QED
    BY <2>1, NextBuffers, NextAcked, NextLines, NextSolo, NextTears DEF LossInv
<1>3. QED
  BY <1>1, <1>2, PTL DEF Spec

-----------------------------------------------------------------------------
(* What a reader loses.                                                     *)

\* An acknowledged event is on three neighbouring places of the file, and is
\* read unless the line before it was cut.
LEMMA AckedPlace ==
  ASSUME LossInv, ~ short \/ Solo, NEW e \in acked
  PROVE  \E i \in DOMAIN file :
           /\ file[i].of = e
           /\ LineAt(i) \/ (i - 1 \in Breaks /\ short)
<1>1. /\ Len(file) \in Nat /\ DOMAIN file = 1 .. Len(file)
      /\ FileStarts /\ AckedWritten /\ LinesWhole /\ SoloMeets
      /\ short \in BOOLEAN
  BY LossTypes DEF LossInv, Typed
<1> DEFINE f == Len(file)
<1>2. \A i \in 1 .. f - 1 : /\ Meets(file[i], file[i + 1])
                            /\ ~ short => Follows(file[i], file[i + 1])
  <2>1. CASE ~ short
    BY <1>1, <2>1, StartsOpen DEF LinesWhole
  <2>2. CASE short
    BY <1>1, <2>2 DEF SoloMeets
  <2>3. QED
    BY <2>1, <2>2
<1>3. PICK j \in 1 .. f : file[j] = Piece("newline", e)
  BY <1>1 DEF AckedWritten, Has
<1>4. /\ j \in Nat /\ f \in Nat /\ f > 0 /\ file[1].part = "open"
      /\ file[j].part = "newline"
  BY <1>1, <1>3 DEF FileStarts, Piece
<1> HIDE DEF f
<1>5. j > 1 /\ file[j - 1] = Piece("close", e)
  <2>1. j # 1
    BY <1>4
  <2>2. j - 1 \in 1 .. f - 1 /\ (j - 1) + 1 = j
    BY <1>3, <1>4, <2>1
  <2>3. Meets(file[j - 1], file[j])
    BY <1>2, <2>2
  <2>4. /\ file[j - 1].part = "close"
        /\ Piece("newline", e) = Piece("newline", file[j - 1].of)
    BY <1>3, <2>3 DEF Meets, Continues, Piece
  <2>5. file[j - 1] \in Pieces
    <3>1. j - 1 \in 1 .. Len(file) /\ file \in Seq(Pieces)
      BY <2>2, LossTypes DEF f, Typed
    <3>2. QED
      BY <3>1, ElementOfSeq
  <2>6. QED
    BY <1>4, <2>1, <2>4, <2>5 DEF Piece, Pieces
<1>6. j > 2 /\ file[j - 2] = Piece("open", e)
  <2>1. file[j - 1].part = "close"
    BY <1>5 DEF Piece
  <2>2. j - 1 # 1
    BY <1>4, <2>1
  <2>3. j - 2 \in 1 .. f - 1 /\ (j - 2) + 1 = j - 1
    BY <1>3, <1>4, <1>5, <2>2
  <2>4. Meets(file[j - 2], file[j - 1])
    BY <1>2, <2>3
  <2>5. /\ file[j - 2].part = "open"
        /\ Piece("close", e) = Piece("close", file[j - 2].of)
    BY <1>5, <2>4 DEF Meets, Continues, Piece
  <2>6. file[j - 2] \in Pieces
    <3>1. j - 2 \in 1 .. Len(file) /\ file \in Seq(Pieces)
      BY <2>3, LossTypes DEF f, Typed
    <3>2. QED
      BY <3>1, ElementOfSeq
  <2>7. QED
    BY <1>4, <1>5, <2>2, <2>5, <2>6 DEF Piece, Pieces
<1> DEFINE i == j - 2
<1>7. /\ i \in DOMAIN file /\ i \in Nat /\ i < f
      /\ i + 1 = j - 1 /\ i + 2 = j
  BY <1>1, <1>3, <1>4, <1>6 DEF f
<1>8. /\ file[i].of = e /\ file[i].part = "open"
      /\ file[i + 1] = Piece("close", file[i].of)
      /\ file[i + 2].part = "newline"
  BY <1>4, <1>5, <1>6, <1>7 DEF Piece
<1> HIDE DEF i
<1>9. CASE i = 1 \/ file[i - 1].part = "newline"
  <2>1. LineAt(i)
    BY <1>7, <1>8, <1>9 DEF LineAt, f
  <2>2. QED
    BY <1>7, <1>8, <2>1
<1>10. CASE i # 1 /\ file[i - 1].part # "newline"
  <2>1. i - 1 \in 1 .. f - 1 /\ (i - 1) + 1 = i
    BY <1>1, <1>4, <1>7, <1>10
  <2>2. Cuts(file[i - 1], file[(i - 1) + 1])
    BY <1>8, <1>10, <2>1 DEF Cuts
  <2>3. i - 1 \in Breaks
    BY <2>1, <2>2 DEF Breaks, f
  <2>4. ~ short => FALSE
    BY <1>2, <2>1, <2>2, StartsOpen
  <2>5. QED
    BY <1>1, <1>7, <1>8, <2>3, <2>4
<1>11. QED
  BY <1>9, <1>10

\* A log all of whose events began in one writer.
LEMMA OneWriter ==
  ASSUME Typed, Cardinality(ToSet(begun)) <= 1
  PROVE  Solo
<1>1. IsFiniteSet(ToSet(begun)) /\ Cardinality(ToSet(begun)) \in Nat
  <2>1. Len(begun) \in Nat /\ DOMAIN begun = 1 .. Len(begun)
    BY LenProperties DEF Typed
  <2>2. IsFiniteSet(DOMAIN begun)
    BY <2>1, FS_Interval
  <2>3. ToSet(begun) = {begun[d] : d \in DOMAIN begun}
    BY DEF ToSet
  <2>4. IsFiniteSet({begun[d] : d \in DOMAIN begun})
    <3> DEFINE W == {begun[d] : d \in DOMAIN begun}
    <3>1. begun \in Surjection(DOMAIN begun, W)
      BY <2>1, ElementOfSeq DEF Surjection, Typed
    <3> HIDE DEF W
    <3>2. IsFiniteSet(W)
      BY <2>2, <3>1, FS_Surjection
    <3>3. QED
      BY <3>2 DEF W
  <2>5. QED
    BY <2>3, <2>4, FS_CardinalityType
<1>2. SUFFICES ASSUME NEW d \in DOMAIN begun, NEW e \in DOMAIN begun,
                      begun[d] # begun[e]
               PROVE  FALSE
  BY DEF Solo
<1>3. {begun[d], begun[e]} \subseteq ToSet(begun)
  BY DEF ToSet
<1>4. Cardinality({begun[d], begun[e]}) = 2
  <2>1. /\ IsFiniteSet({begun[d]}) /\ Cardinality({begun[d]}) = 1
        /\ begun[e] \notin {begun[d]}
        /\ {begun[d]} \cup {begun[e]} = {begun[d], begun[e]}
    BY <1>2, FS_Singleton
  <2>2. Cardinality({begun[d]} \cup {begun[e]}) = Cardinality({begun[d]}) + 1
    BY <2>1, FS_AddElement
  <2>3. QED
    BY <2>1, <2>2
<1>5. Cardinality({begun[d], begun[e]}) <= Cardinality(ToSet(begun))
  BY <1>1, <1>3, FS_Subset
<1>6. QED
  BY <1>1, <1>4, <1>5

\* With every write(2) whole, every acknowledged event is read.
LEMMA WholeWritesRead ==
  ASSUME LossInv, ~ short
  PROVE  Lost = {}
<1> SUFFICES ASSUME NEW e \in acked
             PROVE  e \in ReadBack
  BY DEF Lost
<1>1. PICK i \in DOMAIN file : file[i].of = e /\ (LineAt(i) \/ (i - 1 \in Breaks /\ short))
  BY AckedPlace
<1>2. QED
  BY <1>1 DEF ReadBack

\* What a log of one writer lost stands behind the places where a line was cut.
LEMMA SoloLoss ==
  ASSUME LossInv, Solo
  PROVE  Cardinality(Lost) <= tears
<1> DEFINE cut == {file[b + 1].of : b \in Breaks}
<1>1. /\ Len(file) \in Nat /\ tears \in Nat /\ TearsCut
  BY LossTypes, AuditAssumption DEF LossInv, Typed
<1>2. IsFiniteSet(Breaks) /\ Cardinality(Breaks) \in Nat
  BY <1>1, BreaksFinite DEF Breaks
<1>3. Lost \subseteq cut
  <2> SUFFICES ASSUME NEW e \in acked, e \notin ReadBack
               PROVE  e \in cut
    BY DEF Lost
  <2>1. PICK i \in DOMAIN file :
          file[i].of = e /\ (LineAt(i) \/ (i - 1 \in Breaks /\ short))
    BY AckedPlace
  <2>2. ~ LineAt(i)
    BY <2>1 DEF ReadBack
  <2>3. i - 1 \in Breaks /\ (i - 1) + 1 = i
    BY <2>1, <2>2, LossTypes DEF LossInv
  <2>4. QED
    BY <2>1, <2>3
<1>4. IsFiniteSet(cut) /\ Cardinality(cut) <= Cardinality(Breaks)
  <2> DEFINE behind == [b \in Breaks |-> file[b + 1].of]
  <2>1. behind \in Surjection(Breaks, cut)
    BY DEF Surjection
  <2> HIDE DEF behind, cut
  <2>2. QED
    BY <1>2, <2>1, FS_Surjection
<1> HIDE DEF cut
<1>5. /\ Cardinality(cut) \in Nat /\ Cardinality(Lost) \in Nat
      /\ Cardinality(Lost) <= Cardinality(cut)
  BY <1>3, <1>4, FS_Subset, FS_CardinalityType
<1>6. Cardinality(Breaks) <= tears
  <2>1. CASE Torn
    BY <1>1, <1>2, <2>1 DEF TearsCut
  <2>2. CASE ~ Torn
    BY <1>1, <1>2, <2>2 DEF TearsCut
  <2>3. QED
    BY <2>1, <2>2
<1>7. QED
  BY <1>1, <1>2, <1>4, <1>5, <1>6

\* audit/writer.rs: writers "get atomic per-line appends".  While every write(2) takes
\* all it is given, whatever else goes wrong - appends of several writers in
\* between, flushes that fail and leave their line in the BufWriter, writers
\* dropped with it, processes that die - every event whose append returned Ok
\* is read back.
THEOREM NoEventLost == Spec => []InterleavedAppendsSafe
<1>1. LossInv => InterleavedAppendsSafe
  BY WholeWritesRead DEF InterleavedAppendsSafe
<1>2. QED
  BY <1>1, LossInvariant, PTL

\* AuditWriter::append and AuditReader: the events a reader no longer sees
\* although their append returned Ok are at most as many as the times the
\* process died or a dropped writer's flush failed, for a log of one writer
\* however write(2) splits its lines, and for any number of writers while it
\* splits none.
THEOREM LossBounded == Spec => []AckedLossBounded
<1>1. LossInv => AckedLossBounded
  <2> SUFFICES ASSUME LossInv, ~ short \/ Cardinality(ToSet(begun)) <= 1
               PROVE  Cardinality(Lost) <= tears
    BY DEF AckedLossBounded
  <2>1. Typed /\ tears \in Nat
    BY LossTypes, AuditAssumption DEF LossInv, Typed
  <2>2. CASE ~ short
    <3>1. Cardinality(Lost) = 0
      BY <2>2, WholeWritesRead, FS_EmptySet
    <3>2. QED
      BY <2>1, <3>1
  <2>3. CASE Cardinality(ToSet(begun)) <= 1
    BY <2>1, <2>3, OneWriter, SoloLoss
  <2>4. QED
    BY <2>2, <2>3
<1>2. QED
  BY <1>1, LossInvariant, PTL

=============================================================================
