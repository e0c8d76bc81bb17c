--------------------------- MODULE PluginPoolProofs ---------------------------
(***************************************************************************)
(* Proofs about PluginPool for every number of callers and workers, every  *)
(* bound and every set of faults.                                          *)
(***************************************************************************)
EXTENDS PluginPool, FiniteSetTheorems, FunctionTheorems, SequenceTheorems,
        TLAPS

-----------------------------------------------------------------------------
(* Values the actions build have the right type.                           *)

LEMMA SpawnedType == Reaped \in PluginState /\ Spawned \in PluginState
<1>1. <<>> \in Seq(Requests) /\ <<>> \in Seq(Lines)
  BY EmptySeq
<1>2. QED
  BY <1>1 DEF Reaped, Spawned, PluginState

LEMMA FrontType ==
  ASSUME NEW S, NEW s \in Seq(S), s # <<>>
  PROVE  /\ Last(s) \in S
         /\ Front(s) \in Seq(S)
         /\ Len(Front(s)) = Len(s) - 1
         /\ \A i \in 1 .. Len(s) - 1 : Front(s)[i] = s[i]
<1> DEFINE n == Len(s) - 1
<1>1. Len(s) \in Nat \ {0} /\ n \in Nat
  BY EmptySeq
<1>2. \A i \in 1 .. Len(s) : s[i] \in S
  BY ElementOfSeq
<1>3. Last(s) \in S
  BY <1>1, <1>2 DEF Last
<1>4. \A i \in 1 .. n : s[i] \in S
  BY <1>1, <1>2
<1> HIDE DEF n
<1>5. /\ SubSeq(s, 1, n) \in Seq(S)
      /\ Len(SubSeq(s, 1, n)) = IF 1 <= n THEN n - 1 + 1 ELSE 0
      /\ \A i \in 1 .. n - 1 + 1 : SubSeq(s, 1, n)[i] = s[1 + i - 1]
  <2>1. 1 \in Int /\ n \in Int
    BY <1>1
  <2>2. QED
    BY <1>4, <2>1, SubSeqProperties
<1>6. /\ SubSeq(s, 1, n) \in Seq(S)
      /\ Len(SubSeq(s, 1, n)) = n
      /\ \A i \in 1 .. n : SubSeq(s, 1, n)[i] = s[i]
  BY <1>1, <1>5
<1>7. QED
  BY <1>3, <1>6, Zenon DEF Front, n

LEMMA PoppedType ==
  ASSUME TypeOK, NEW c \in Callers, held[c] \in Workers, Received(c)
  PROVE  /\ NextLine(c) \in Lines
         /\ Popped(c) \in PluginState
<1> DEFINE p == plugin[held[c]]
<1>1. p \in PluginState
  BY DEF TypeOK
<1>2. p.lines \in Seq(Lines) /\ p.lines # <<>>
  BY <1>1 DEF PluginState, Received
<1>3. Head(p.lines) \in Lines /\ Tail(p.lines) \in Seq(Lines)
  BY <1>2, HeadTailProperties
<1>4. NextLine(c) \in Lines
  BY <1>3 DEF NextLine
<1>5. Popped(c) \in PluginState
  <2> DEFINE t == Tail(p.lines)
             n == IF NextLine(c).kind = "oversized" THEN p.completed ELSE p.completed + 1
  <2>1. t \in Seq(Lines) /\ n \in Nat
    BY <1>1, <1>3 DEF PluginState
  <2>2. Popped(c) = [p EXCEPT !.lines = t, !.completed = n]
    BY <1>1 DEF Popped, PluginState
  <2> HIDE DEF t, n, p
  <2>3. QED
    BY <1>1, <2>1, <2>2 DEF PluginState
<1>6. QED
  BY <1>4, <1>5

LEMMA WritesType ==
  ASSUME TypeOK, NEW w \in Workers, NEW line \in Lines
  PROVE  /\ Writes(w, line) \in PluginState
         /\ Writes(w, line).inbox = plugin[w].inbox
         /\ Writes(w, line).proc = plugin[w].proc
<1> DEFINE p == plugin[w]
<1>1. p \in PluginState
  BY DEF TypeOK
<1>2. Append(p.lines, line) \in Seq(Lines)
  BY <1>1, AppendProperties DEF PluginState
<1>3. QED
  BY <1>1, <1>2 DEF Writes, PluginState

LEMMA RemainsType ==
  ASSUME TypeOK, NEW w \in Workers, NEW dead \in Remains(w)
  PROVE  dead \in PluginState /\ dead.proc = "exited"
<1>1. plugin[w] \in PluginState
  BY DEF TypeOK
<1>2. PICK kept \in SUBSET plugin[w].pipes :
        dead = [plugin[w] EXCEPT !.proc = "exited", !.pipes = kept]
  BY DEF Remains
<1>3. QED
  BY <1>1, <1>2 DEF PluginState

LEMMA ClosedType ==
  ASSUME TypeOK, NEW w \in Workers, ClosePipe(w)
  PROVE  \E p \in PluginState : /\ plugin' = [plugin EXCEPT ![w] = p]
                               /\ p.proc = plugin[w].proc
<1>1. plugin[w] \in PluginState
  BY DEF TypeOK
<1>2. PICK pipe \in plugin[w].pipes :
        plugin' = [plugin EXCEPT ![w].pipes = @ \ {pipe}]
  BY DEF ClosePipe
<1> DEFINE ps == plugin[w].pipes \ {pipe}
<1>3. ps \subseteq Pipes
  BY <1>1 DEF PluginState
<1>4. plugin' = [plugin EXCEPT ![w] = [plugin[w] EXCEPT !.pipes = ps]]
  BY <1>2 DEF TypeOK
<1> HIDE DEF ps
<1>5. /\ [plugin[w] EXCEPT !.pipes = ps] \in PluginState
      /\ [plugin[w] EXCEPT !.pipes = ps].proc = plugin[w].proc
  BY <1>1, <1>3 DEF PluginState
<1>6. QED
  BY <1>4, <1>5

LEMMA RequestTypes ==
  ASSUME TypeOK, NEW c \in Callers
  PROVE  /\ job[c] \in Jobs
         /\ job[c].req \in Requests
  BY DEF TypeOK, Jobs

LEMMA NotifyType ==
  ASSUME TypeOK, NotifyOne
  PROVE  woken' \subseteq Callers
  BY DEF TypeOK, NotifyOne, Waiters

LEMMA ReturnType ==
  ASSUME TypeOK, NEW c \in Callers, NEW kind \in {"answer"} \cup Failures,
         NEW r \in Requests, Return(c, kind, r)
  PROVE  /\ pc' \in [Callers -> {"idle", "acquire", "wait"} \cup Serving]
         /\ result' \in [Callers -> Results]
<1>1. [kind |-> kind, of |-> r] \in Results
  BY DEF Results
<1>2. QED
  BY <1>1 DEF TypeOK, Return

-----------------------------------------------------------------------------
(* Type correctness.  It is not inductive alone: what a caller writes to or *)
(* pushes back is a worker only because the states in which it does so are  *)
(* entered with one in hand.                                                *)

HoldsWorker == {"send", "write", "receive", "join", "release", "kill"}

HoldersHold == \A c \in Callers : pc[c] \in HoldsWorker => held[c] \in Workers

LEMMA InitType == Init => TypeOK /\ HoldersHold
<1> SUFFICES ASSUME Init PROVE TypeOK /\ HoldersHold
  OBVIOUS
<1>1. Jobs # {}
  <2>1. PICK r \in Requests, m \in Modes : TRUE
    BY PoolAssumption
  <2>2. [req |-> r, memoized |-> m] \in Jobs
    BY <2>1 DEF Jobs
  <2>3. QED
    BY <2>2
<1>2. (CHOOSE j \in Jobs : TRUE) \in Jobs
  BY <1>1
<1>3. job \in [Callers -> Jobs]
  BY <1>2 DEF Init
<1>4. result \in [Callers -> Results]
  BY <1>3 DEF Init, Jobs, Results
<1>5. idle \in Seq(Workers)
  BY EmptySeq DEF Init
<1>6. plugin \in [Workers -> PluginState]
  BY SpawnedType DEF Init
<1>7. HoldersHold
  BY DEF Init, HoldersHold, HoldsWorker
<1>8. QED
  BY <1>3, <1>4, <1>5, <1>6, <1>7, PoolAssumption DEF Init, TypeOK

LEMMA NextType == TypeOK /\ HoldersHold /\ [Next]_vars => TypeOK'
<1> SUFFICES ASSUME TypeOK, HoldersHold, [Next]_vars PROVE TypeOK'
  OBVIOUS
<1>1. ASSUME NEW c \in Callers, BeginCall(c) PROVE TypeOK'
  <2>2. PICK j \in Jobs :
          /\ job' = [job EXCEPT ![c] = j]
          /\ \/ \E line \in memo[c][j.req] :
                  IF Decodes(line, j.req)
                  THEN Return(c, "answer", line.of)
                  ELSE Return(c, "PluginFailure", j.req)
             \/ /\ pc' = [pc EXCEPT ![c] = "acquire"]
                /\ result' = [result EXCEPT ![c] = [kind |-> "none", of |-> j.req]]
    BY <1>1 DEF BeginCall
  <2>3. j.req \in Requests /\ memo[c][j.req] \subseteq Lines
    BY <2>2 DEF Jobs, TypeOK
  <2>4. job' \in [Callers -> Jobs]
    BY <2>2 DEF TypeOK
  <2>5. /\ pc' \in [Callers -> {"idle", "acquire", "wait"} \cup Serving]
        /\ result' \in [Callers -> Results]
    <3>1. ASSUME NEW line \in memo[c][j.req],
                 \/ Return(c, "answer", line.of)
                 \/ Return(c, "PluginFailure", j.req)
          PROVE  <2>5
      <4>1. line.of \in Requests
        BY <2>3 DEF Lines
      <4>2. QED
        BY <2>3, <3>1, <4>1, ReturnType DEF Failures
    <3>2. CASE /\ pc' = [pc EXCEPT ![c] = "acquire"]
               /\ result' = [result EXCEPT ![c] = [kind |-> "none", of |-> j.req]]
      BY <2>3, <3>2 DEF TypeOK, Results
    <3>3. QED
      BY <2>2, <3>1, <3>2
  <2>6. QED
    BY <1>1, <2>4, <2>5 DEF BeginCall, TypeOK, inner
<1>2. ASSUME NEW c \in Callers, TakeIdle(c) PROVE TypeOK'
  <2>1. Last(idle) \in Workers /\ Front(idle) \in Seq(Workers)
    BY <1>2, FrontType DEF TypeOK, TakeIdle
  <2>2. QED
    BY <1>2, <2>1 DEF TakeIdle, TypeOK, StillWaiting, Pred, Serving
<1>3. ASSUME NEW c \in Callers, ReserveSlot(c) PROVE TypeOK'
  BY <1>3 DEF ReserveSlot, TypeOK, StillWaiting, Pred, Serving
<1>4. ASSUME NEW c \in Callers, Refuse(c) PROVE TypeOK'
  BY <1>4, RequestTypes
    DEF Refuse, TypeOK, StillWaiting, Pred, Return, Results, Failures
<1>5. ASSUME NEW c \in Callers, Sleep(c) PROVE TypeOK'
  BY <1>5 DEF Sleep, TypeOK, StillWaiting, Pred
<1>6. ASSUME NEW c \in Callers, SpuriousWake(c) PROVE TypeOK'
  BY <1>6 DEF SpuriousWake, TypeOK, thread
<1>7. ASSUME NEW c \in Callers, SpawnWorker(c) PROVE TypeOK'
  BY <1>7, SpawnedType DEF SpawnWorker, TypeOK, inner, Serving
<1>8. ASSUME NEW c \in Callers, SpawnFails(c) PROVE TypeOK'
  BY <1>8, RequestTypes, NotifyType
    DEF SpawnFails, TypeOK, Return, Results, Failures, Pred
<1>9. ASSUME NEW c \in Callers,
             StillAlive(c) \/ SendFails(c) \/ BrokenPipe(c)
      PROVE  TypeOK'
  <2>1. CASE StillAlive(c) \/ SendFails(c)
    BY <2>1 DEF StillAlive, SendFails, TypeOK, inner, Serving
  <2>2. CASE BrokenPipe(c)
    BY <2>2, RequestTypes
      DEF BrokenPipe, FailCall, TypeOK, Results, Failures, inner, Serving
  <2>3. QED
    BY <1>9, <2>1, <2>2
<1>10. ASSUME NEW c \in Callers, Write(c) PROVE TypeOK'
  <2>1. plugin' \in [Workers -> PluginState]
    <3>1. \A w \in Workers :
            Append(plugin[w].inbox, job[c].req) \in Seq(Requests)
      BY RequestTypes, AppendProperties DEF TypeOK, PluginState
    <3>2. QED
      BY <1>10, <3>1 DEF Write, TypeOK, PluginState
  <2>2. QED
    BY <1>10, <2>1 DEF Write, TypeOK, inner, Serving
<1>11. ASSUME NEW c \in Callers, Received(c),
              plugin' = [plugin EXCEPT ![held[c]] = Popped(c)]
       PROVE  plugin' \in [Workers -> PluginState]
  BY <1>11, PoppedType DEF TypeOK
<1>12. ASSUME NEW c \in Callers, ReceiveAnswer(c) PROVE TypeOK'
  <2>0. Received(c) /\ held[c] \in Workers
    BY <1>12 DEF ReceiveAnswer, Received, HoldersHold, HoldsWorker
  <2>1. NextLine(c) \in Lines
    BY <2>0, PoppedType
  <2>2. memo' \in [Callers -> [Requests -> SUBSET Lines]]
    BY <1>12, <2>1, RequestTypes DEF ReceiveAnswer, TypeOK
  <2>3. result' \in [Callers -> Results]
    BY <1>12, <2>1 DEF ReceiveAnswer, TypeOK, Lines, Results
  <2>4. QED
    BY <1>11, <1>12, <2>2, <2>3
      DEF ReceiveAnswer, TypeOK, inner, Serving
<1>13. ASSUME NEW c \in Callers, ReceiveError(c) PROVE TypeOK'
  BY <1>11, <1>13, RequestTypes
    DEF ReceiveError, FailCall, TypeOK, Results, Failures, inner, Serving
<1>14. ASSUME NEW c \in Callers, AbandonWorker(c) PROVE TypeOK'
  BY <1>14, RequestTypes, SpawnedType
    DEF AbandonWorker, Return, TypeOK, Results, Failures, inner
<1>15. ASSUME NEW c \in Callers, TimeOut(c) PROVE TypeOK'
  <2>1. plugin' \in [Workers -> PluginState]
    <3>1. held[c] \in Workers
      BY <1>15 DEF TimeOut, HoldersHold, HoldsWorker
    <3>2. QED
      BY <1>15, <3>1, RemainsType DEF TimeOut, TypeOK
  <2>2. QED
    BY <1>15, <2>1, RequestTypes
      DEF TimeOut, FailCall, TypeOK, Results, Failures, inner, Serving
<1>16. ASSUME NEW c \in Callers, Disconnected(c) PROVE TypeOK'
  BY <1>16 DEF Disconnected, TypeOK, inner, Serving
<1>17. ASSUME NEW c \in Callers, JoinStderr(c) PROVE TypeOK'
  BY <1>17, RequestTypes
    DEF JoinStderr, FailCall, TypeOK, Results, Failures, inner, Serving
<1>18. ASSUME NEW c \in Callers, Release(c) PROVE TypeOK'
  <2>1. Append(idle, held[c]) \in Seq(Workers)
    <3>1. held[c] \in Workers
      BY <1>18 DEF Release, HoldersHold, HoldsWorker
    <3>2. QED
      BY <3>1, AppendProperties DEF TypeOK
  <2>2. QED
    BY <1>18, <2>1, NotifyType DEF Release, TypeOK
<1>19. ASSUME NEW c \in Callers, Recycle(c) PROVE TypeOK'
  BY <1>19 DEF Recycle, TypeOK, inner, Serving
<1>20. ASSUME NEW c \in Callers, Kill(c) PROVE TypeOK'
  BY <1>20, SpawnedType DEF Kill, TypeOK, inner, Serving
<1>21. ASSUME NEW c \in Callers, GiveBack(c) PROVE TypeOK'
  BY <1>21, NotifyType DEF GiveBack, TypeOK, Pred
<1>22. ASSUME NEW w \in Workers, Answer(w) PROVE TypeOK'
  <2>1. PICK line :
          /\ \E kind \in {"answer"} \cup (Faults \cap {"junk", "long", "oversized"}) :
               line = [kind |-> kind, of |-> Head(plugin[w].inbox)]
          /\ plugin' = [plugin EXCEPT
               ![w] = [Writes(w, line) EXCEPT !.inbox = Tail(@)]]
    BY <1>22 DEF Answer
  <2>2. plugin[w].inbox \in Seq(Requests)
    BY DEF TypeOK, PluginState
  <2>3. /\ Head(plugin[w].inbox) \in Requests
        /\ Tail(plugin[w].inbox) \in Seq(Requests)
    BY <1>22, <2>2, HeadTailProperties DEF Answer
  <2>4. line \in Lines
    BY <2>1, <2>3 DEF Lines
  <2>5. /\ Writes(w, line) \in PluginState
        /\ Writes(w, line).inbox = plugin[w].inbox
    BY <2>4, WritesType
  <2>6. [Writes(w, line) EXCEPT !.inbox = Tail(@)] \in PluginState
    BY <2>3, <2>5 DEF PluginState
  <2>7. QED
    BY <1>22, <2>1, <2>6 DEF Answer, TypeOK, thread, inner
<1>23. ASSUME NEW w \in Workers, ExtraLine(w) PROVE TypeOK'
  <2>1. PICK r \in Requests :
          plugin' = [plugin EXCEPT
                       ![w] = Writes(w, [kind |-> "answer", of |-> r])]
    BY <1>23 DEF ExtraLine
  <2>2. [kind |-> "answer", of |-> r] \in Lines
    BY DEF Lines
  <2>3. QED
    BY <1>23, <2>1, <2>2, WritesType DEF ExtraLine, TypeOK, thread, inner
<1>24. ASSUME NEW w \in Workers, Exit(w) \/ ClosePipe(w) PROVE TypeOK'
  <2>1. CASE Exit(w)
    <3>1. PICK dead \in Remains(w) : plugin' = [plugin EXCEPT ![w] = dead]
      BY <2>1 DEF Exit
    <3>2. dead \in PluginState
      BY <3>1, RemainsType
    <3>3. QED
      BY <2>1, <3>1, <3>2 DEF Exit, TypeOK, thread, inner
  <2>2. CASE ClosePipe(w)
    <3>1. PICK p \in PluginState : plugin' = [plugin EXCEPT ![w] = p]
      BY <2>2, ClosedType
    <3>2. QED
      BY <2>2, <3>1 DEF ClosePipe, TypeOK, thread, inner
  <2>3. QED
    BY <1>24, <2>1, <2>2
<1>25. CASE UNCHANGED vars
  BY <1>25 DEF TypeOK, vars, thread, inner
<1>26. QED
  BY <1>1, <1>2, <1>3, <1>4, <1>5, <1>6, <1>7, <1>8, <1>9, <1>10, <1>12,
     <1>13, <1>14, <1>15, <1>16, <1>17, <1>18, <1>19, <1>20, <1>21, <1>22,
     <1>23, <1>24, <1>25
  DEF Next, HostStep, Acquire, Receive, Settle, PluginStep

LEMMA NextHold == TypeOK /\ HoldersHold /\ [Next]_vars => HoldersHold'
<1> SUFFICES ASSUME TypeOK, HoldersHold, [Next]_vars PROVE HoldersHold'
  OBVIOUS
<1> USE DEF HoldersHold, HoldsWorker
<1>1. ASSUME NEW c \in Callers, BeginCall(c) PROVE HoldersHold'
  BY <1>1 DEF BeginCall, Return, TypeOK
<1>2. ASSUME NEW c \in Callers, Acquire(c) PROVE HoldersHold'
  <2>1. CASE TakeIdle(c)
    <3>1. Last(idle) \in Workers
      BY <2>1, FrontType DEF TypeOK, TakeIdle
    <3>2. QED
      BY <2>1, <3>1 DEF TakeIdle, TypeOK
  <2>2. QED
    BY <1>2, <2>1 DEF Acquire, ReserveSlot, Refuse, Sleep, Return, TypeOK
<1>3. ASSUME NEW c \in Callers, SpawnWorker(c) \/ SpawnFails(c)
      PROVE  HoldersHold'
  BY <1>3 DEF SpawnWorker, SpawnFails, Return, TypeOK
<1>4. ASSUME NEW c \in Callers,
             StillAlive(c) \/ SendFails(c) \/ Write(c) \/ BrokenPipe(c) \/ JoinStderr(c)
      PROVE  HoldersHold'
  BY <1>4 DEF StillAlive, SendFails, Write, BrokenPipe, JoinStderr, FailCall,
              TypeOK
<1>5. ASSUME NEW c \in Callers, Receive(c) PROVE HoldersHold'
  BY <1>5 DEF Receive, Received, ReceiveAnswer, ReceiveError, AbandonWorker,
              TimeOut, Disconnected, FailCall, Return, TypeOK
<1>6. ASSUME NEW c \in Callers, Settle(c) PROVE HoldersHold'
  BY <1>6 DEF Settle, Release, Recycle, Kill, GiveBack, TypeOK
<1>7. ASSUME NEW c \in Callers, SpuriousWake(c) PROVE HoldersHold'
  BY <1>7 DEF SpuriousWake, thread
<1>8. ASSUME NEW w \in Workers, PluginStep(w) PROVE HoldersHold'
  BY <1>8 DEF PluginStep, Answer, ExtraLine, Exit, ClosePipe, thread
<1>9. CASE UNCHANGED vars
  BY <1>9 DEF vars, thread
<1>10. QED
  BY <1>1, <1>2, <1>3, <1>4, <1>5, <1>6, <1>7, <1>8, <1>9
  DEF Next, HostStep

\* Every variable keeps its type, for every workload, bound and set of faults.
THEOREM TypeCorrect == Spec => []TypeOK
<1>1. Init => TypeOK /\ HoldersHold
  BY InitType
<1>2. TypeOK /\ HoldersHold /\ [Next]_vars => (TypeOK /\ HoldersHold)'
  BY NextType, NextHold
<1>3. QED
  BY <1>1, <1>2, PTL DEF Spec

-----------------------------------------------------------------------------
(* Counting callers.  Most steps neither enter nor leave the queue, nor     *)
(* take or give back a slot: they are quiet.                                *)

Quiet ==
  /\ Waiters' = Waiters
  /\ SlotHolders' = SlotHolders
  /\ UNCHANGED inner

LEMMA QuietSteps ==
  ASSUME TypeOK, NEW c \in Callers,
         \/ BeginCall(c) \/ SpawnWorker(c) \/ StillAlive(c) \/ SendFails(c)
         \/ Write(c) \/ BrokenPipe(c)
         \/ ReceiveAnswer(c) \/ ReceiveError(c) \/ TimeOut(c)
         \/ Disconnected(c) \/ JoinStderr(c) \/ Recycle(c) \/ Kill(c)
  PROVE  Quiet
<1>1. CASE BeginCall(c)
  BY <1>1 DEF BeginCall, Return, Quiet, Waiters, SlotHolders, Serving, TypeOK
<1>2. CASE SpawnWorker(c) \/ Write(c) \/ Recycle(c) \/ Kill(c)
  BY <1>2 DEF SpawnWorker, Write, Recycle, Kill, Quiet, Waiters, SlotHolders,
              Serving, TypeOK
<1>3. CASE StillAlive(c) \/ SendFails(c) \/ BrokenPipe(c) \/ TimeOut(c)
           \/ JoinStderr(c) \/ Disconnected(c)
  BY <1>3 DEF StillAlive, SendFails, BrokenPipe, TimeOut, JoinStderr,
              Disconnected, FailCall, Quiet,
              Waiters, SlotHolders, Serving, TypeOK
<1>4. CASE ReceiveAnswer(c) \/ ReceiveError(c)
  BY <1>4 DEF ReceiveAnswer, ReceiveError, Received, FailCall, Quiet,
              Waiters, SlotHolders, Serving, TypeOK
<1>5. QED
  BY <1>1, <1>2, <1>3, <1>4

LEMMA StepCases ==
  ASSUME TypeOK, [Next]_vars
  PROVE  \/ Quiet
         \/ \E c \in Callers :
              \/ TakeIdle(c) \/ ReserveSlot(c) \/ Refuse(c) \/ Sleep(c)
              \/ SpuriousWake(c) \/ SpawnFails(c) \/ AbandonWorker(c)
              \/ Release(c) \/ GiveBack(c)
<1>1. ASSUME NEW w \in Workers, PluginStep(w) PROVE Quiet
  BY <1>1 DEF PluginStep, Answer, ExtraLine, Exit, ClosePipe, thread, Quiet,
              Waiters, SlotHolders
<1>2. CASE UNCHANGED vars
  BY <1>2 DEF vars, thread, Quiet, Waiters, SlotHolders
<1>3. QED
  BY <1>1, <1>2, QuietSteps
  DEF Next, HostStep, Acquire, Receive, Settle

LEMMA Counts ==
  ASSUME TypeOK
  PROVE  /\ IsFiniteSet(Waiters) /\ Cardinality(Waiters) \in Nat
         /\ IsFiniteSet(SlotHolders) /\ Cardinality(SlotHolders) \in Nat
         /\ IsFiniteSet(woken) /\ Cardinality(woken) \in Nat
         /\ Len(idle) \in Nat
<1>1. Waiters \subseteq Callers /\ SlotHolders \subseteq Callers
  BY DEF Waiters, SlotHolders
<1>2. woken \subseteq Callers /\ idle \in Seq(Workers)
  BY DEF TypeOK
<1>3. QED
  BY <1>1, <1>2, PoolAssumption, FS_Subset, FS_CardinalityType, LenProperties

\* A caller moves to v: what becomes of the two sets that are counted.
LEMMA Moves ==
  ASSUME TypeOK, NEW c \in Callers, NEW v, pc' = [pc EXCEPT ![c] = v]
  PROVE  /\ v \in Serving => SlotHolders' = SlotHolders \cup {c}
         /\ v \notin Serving => SlotHolders' = SlotHolders \ {c}
         /\ v = "wait" => Waiters' = Waiters \cup {c}
         /\ v # "wait" => Waiters' = Waiters \ {c}
         /\ c \in SlotHolders <=> pc[c] \in Serving
         /\ c \in Waiters <=> pc[c] = "wait"
  BY DEF Waiters, SlotHolders, TypeOK

LEMMA SlotTaken ==
  ASSUME TypeOK, NEW c \in Callers, NEW v, pc' = [pc EXCEPT ![c] = v],
         v \in Serving, pc[c] \notin Serving
  PROVE  Cardinality(SlotHolders') = Cardinality(SlotHolders) + 1
<1>1. SlotHolders' = SlotHolders \cup {c} /\ c \notin SlotHolders
  BY Moves
<1>2. QED
  BY <1>1, Counts, FS_AddElement

LEMMA SlotGiven ==
  ASSUME TypeOK, NEW c \in Callers, NEW v, pc' = [pc EXCEPT ![c] = v],
         v \notin Serving, pc[c] \in Serving
  PROVE  Cardinality(SlotHolders') = Cardinality(SlotHolders) - 1
<1>1. SlotHolders' = SlotHolders \ {c} /\ c \in SlotHolders
  BY Moves
<1>2. QED
  BY <1>1, Counts, FS_RemoveElement

\* StillWaiting is what the queue counts once c is out of it.
LEMMA QueueLeft ==
  ASSUME TypeOK, QueueBounded, NEW c \in Callers, Contends(c)
  PROVE  /\ StillWaiting(c) = Cardinality(Waiters \ {c})
         /\ StillWaiting(c) \in Nat
         /\ StillWaiting(c) <= QueueBound
<1>1. CASE pc[c] = "wait"
  <2>1. c \in Waiters /\ waiting = Cardinality(Waiters) /\ waiting \in Nat
    BY <1>1 DEF Waiters, QueueBounded, TypeOK
  <2>2. /\ Cardinality(Waiters \ {c}) = Cardinality(Waiters) - 1
        /\ Cardinality(Waiters \ {c}) \in Nat
    BY <2>1, Counts, FS_RemoveElement, FS_CardinalityType
  <2>3. QED
    BY <1>1, <2>1, <2>2, PoolAssumption DEF StillWaiting, Pred, QueueBounded
<1>2. CASE pc[c] # "wait"
  <2>1. Waiters \ {c} = Waiters
    BY <1>2 DEF Waiters
  <2>2. QED
    BY <1>2, <2>1 DEF StillWaiting, QueueBounded, TypeOK
<1>3. QED
  BY <1>1, <1>2

-----------------------------------------------------------------------------
(* The mutex-protected counters against the callers they stand for.         *)

\* Whom the condvar has woken is still queued, and is counted in waiting.
WokenWait == woken \subseteq Waiters

\* What the theorems below share.  NoLostWakeup needs WokenWait (a waiter that
\* takes a worker is off woken as well); it and the two counters need
\* SlotsNotOversold and QueueBounded, since Pred stops at zero.
PoolInv ==
  /\ TypeOK
  /\ HoldersHold
  /\ WokenWait
  /\ QueueBounded
  /\ SlotsNotOversold
  /\ NoLostWakeup

LEMMA NotifyEffect ==
  ASSUME TypeOK, WokenWait, NotifyOne
  PROVE  /\ woken' \subseteq Waiters
         /\ \/ Waiters \ woken = {} /\ woken' = woken
            \/ /\ Waiters \ woken # {}
               /\ Cardinality(woken') = Cardinality(woken) + 1
<1>1. IsFiniteSet(woken)
  BY PoolAssumption, FS_Subset DEF TypeOK
<1>2. CASE Waiters \ woken = {}
  BY <1>2 DEF NotifyOne, WokenWait
<1>3. CASE Waiters \ woken # {}
  <2>1. PICK x \in Waiters \ woken : woken' = woken \cup {x}
    BY <1>3 DEF NotifyOne
  <2>2. Cardinality(woken \cup {x}) = Cardinality(woken) + 1
    BY <1>1, <2>1, FS_AddElement
  <2>3. QED
    BY <1>3, <2>1, <2>2 DEF WokenWait
<1>4. QED
  BY <1>2, <1>3

LEMMA InitPool == Init => PoolInv
<1> SUFFICES ASSUME Init PROVE PoolInv
  OBVIOUS
<1>1. TypeOK /\ HoldersHold
  BY InitType
<1>2. Waiters = {} /\ SlotHolders = {}
  BY DEF Init, Waiters, SlotHolders, Serving
<1>3. Cardinality(Waiters) = 0 /\ Cardinality(SlotHolders) = 0
  BY <1>2, FS_EmptySet
<1>4. Len(idle) = 0
  BY EmptySeq DEF Init
<1>5. QED
  BY <1>1, <1>2, <1>3, <1>4, PoolAssumption
  DEF PoolInv, Init, WokenWait, QueueBounded, SlotsNotOversold, NoLostWakeup

LEMMA NextQueue ==
  ASSUME PoolInv, [Next]_vars
  PROVE  WokenWait' /\ QueueBounded'
<1>1. TypeOK /\ QueueBounded /\ WokenWait
  BY DEF PoolInv
<1>2. CASE Quiet
  BY <1>1, <1>2 DEF Quiet, inner, WokenWait, QueueBounded
<1>3. ASSUME NEW c \in Callers, NEW v, v # "wait", Contends(c),
             pc' = [pc EXCEPT ![c] = v],
             waiting' = StillWaiting(c), woken' = woken \ {c}
      PROVE  WokenWait' /\ QueueBounded'
  <2>1. Waiters' = Waiters \ {c}
    BY <1>1, <1>3, Moves
  <2>2. QED
    BY <1>1, <1>3, <2>1, QueueLeft DEF WokenWait, QueueBounded
<1>4. ASSUME NEW c \in Callers, Sleep(c)
      PROVE  WokenWait' /\ QueueBounded'
  <2>1. Waiters' = (Waiters \ {c}) \cup {c}
    BY <1>1, <1>4, Moves DEF Sleep
  <2>2. Cardinality(Waiters') = Cardinality(Waiters \ {c}) + 1
    BY <1>1, <2>1, Counts, FS_AddElement, FS_RemoveElement
  <2>3. Contends(c) /\ waiting' = StillWaiting(c) + 1 /\ woken' = woken \ {c}
    BY <1>4 DEF Sleep
  <2>4. ~(StillWaiting(c) >= QueueBound)
    BY <1>4 DEF Sleep, QueueFull
  <2>5. QueueBounded'
    BY <1>1, <2>2, <2>3, <2>4, QueueLeft, PoolAssumption DEF QueueBounded
  <2>6. QED
    BY <1>1, <2>1, <2>3, <2>5 DEF WokenWait
<1>5. ASSUME NEW c \in Callers, SpuriousWake(c)
      PROVE  WokenWait' /\ QueueBounded'
  BY <1>1, <1>5
  DEF SpuriousWake, thread, Waiters, WokenWait, QueueBounded
<1>6. ASSUME NEW c \in Callers, SpawnFails(c) \/ Release(c) \/ GiveBack(c)
      PROVE  WokenWait' /\ QueueBounded'
  <2>1. /\ pc' = [pc EXCEPT ![c] = "idle"]
        /\ pc[c] # "wait"
        /\ waiting' = waiting
        /\ NotifyOne
    BY <1>6 DEF SpawnFails, Release, GiveBack, Return
  <2>2. Waiters' = Waiters
    BY <1>1, <2>1 DEF Waiters, TypeOK
  <2>3. QED
    BY <1>1, <2>1, <2>2, NotifyEffect DEF WokenWait, QueueBounded
<1>7. ASSUME NEW c \in Callers, AbandonWorker(c)
      PROVE  WokenWait' /\ QueueBounded'
  <2>1. Waiters' = Waiters
    BY <1>1, <1>7 DEF AbandonWorker, Received, Return, Waiters, TypeOK
  <2>2. QED
    BY <1>1, <1>7, <2>1 DEF AbandonWorker, inner, WokenWait, QueueBounded
<1>8. ASSUME NEW c \in Callers, TakeIdle(c) \/ ReserveSlot(c) \/ Refuse(c)
      PROVE  WokenWait' /\ QueueBounded'
  <2>1. CASE TakeIdle(c)
    BY <2>1, <1>3 DEF TakeIdle
  <2>2. CASE ReserveSlot(c)
    BY <2>2, <1>3 DEF ReserveSlot
  <2>3. CASE Refuse(c)
    BY <2>3, <1>3 DEF Refuse, Return
  <2>4. QED
    BY <1>8, <2>1, <2>2, <2>3
<1>9. QED
  BY <1>1, <1>2, <1>4, <1>5, <1>6, <1>7, <1>8, StepCases

\* What the step does to the number of idle workers, slots and their holders.
LEMMA NextSlots ==
  ASSUME PoolInv, [Next]_vars
  PROVE  SlotsNotOversold'
<1>1. /\ TypeOK
      /\ live_total \in Nat /\ live_total <= MaxProcesses
      /\ Len(idle) + Cardinality(SlotHolders) <= live_total
      /\ MaxProcesses \in Nat
  BY PoolAssumption DEF PoolInv, TypeOK, SlotsNotOversold
<1>2. CASE Quiet
  BY <1>1, <1>2 DEF Quiet, inner, SlotsNotOversold
<1>3. ASSUME NEW c \in Callers, TakeIdle(c) PROVE SlotsNotOversold'
  <2>1. Len(idle') = Len(idle) - 1 /\ live_total' = live_total
    BY <1>1, <1>3, FrontType DEF TakeIdle, TypeOK
  <2>2. /\ pc' = [pc EXCEPT ![c] = "send"]
        /\ pc[c] \notin Serving /\ "send" \in Serving
    BY <1>3 DEF TakeIdle, Contends, Serving
  <2>3. Cardinality(SlotHolders') = Cardinality(SlotHolders) + 1
    BY <1>1, <2>2, SlotTaken
  <2>4. QED
    BY <1>1, <2>1, <2>3, Counts DEF SlotsNotOversold
<1>4. ASSUME NEW c \in Callers, ReserveSlot(c) PROVE SlotsNotOversold'
  <2>1. /\ pc' = [pc EXCEPT ![c] = "spawn"]
        /\ pc[c] \notin Serving /\ "spawn" \in Serving
        /\ idle' = idle /\ live_total' = live_total + 1
        /\ live_total < MaxProcesses
    BY <1>4 DEF ReserveSlot, SlotFree, Contends, Serving
  <2>2. Cardinality(SlotHolders') = Cardinality(SlotHolders) + 1
    BY <1>1, <2>1, SlotTaken
  <2>3. QED
    BY <1>1, <2>1, <2>2, Counts DEF SlotsNotOversold
<1>5. ASSUME NEW c \in Callers, Refuse(c) \/ Sleep(c) \/ SpuriousWake(c)
      PROVE  SlotsNotOversold'
  <2>1. SlotHolders' = SlotHolders
    BY <1>1, <1>5 DEF Refuse, Sleep, SpuriousWake, Return, Contends, thread,
                      SlotHolders, Serving, TypeOK
  <2>2. idle' = idle /\ live_total' = live_total
    BY <1>5 DEF Refuse, Sleep, SpuriousWake
  <2>3. QED
    BY <1>1, <2>1, <2>2 DEF SlotsNotOversold
<1>6. ASSUME NEW c \in Callers,
             SpawnFails(c) \/ GiveBack(c) \/ AbandonWorker(c)
      PROVE  SlotsNotOversold'
  <2>1. /\ pc' = [pc EXCEPT ![c] = "idle"]
        /\ pc[c] \in Serving /\ "idle" \notin Serving
        /\ idle' = idle
    BY <1>6 DEF SpawnFails, GiveBack, AbandonWorker, Received, Return, inner,
                Serving
  <2>2. live_total' = live_total \/ live_total' = Pred(live_total)
    BY <1>6 DEF SpawnFails, GiveBack, AbandonWorker, inner
  <2>3. Cardinality(SlotHolders') = Cardinality(SlotHolders) - 1
    BY <1>1, <2>1, SlotGiven
  <2>4. live_total' <= live_total /\ live_total - 1 <= live_total'
    BY <1>1, <2>2 DEF Pred
  <2>5. live_total' \in Nat
    BY <1>1, <2>2 DEF Pred
  <2>6. QED
    BY <1>1, <2>1, <2>3, <2>4, <2>5, Counts DEF SlotsNotOversold
<1>7. ASSUME NEW c \in Callers, Release(c) PROVE SlotsNotOversold'
  <2>1. /\ pc' = [pc EXCEPT ![c] = "idle"]
        /\ pc[c] \in Serving /\ "idle" \notin Serving
        /\ live_total' = live_total
    BY <1>7 DEF Release, Serving
  <2>2. Cardinality(SlotHolders') = Cardinality(SlotHolders) - 1
    BY <1>1, <2>1, SlotGiven
  <2>3. held[c] \in Workers
    BY <1>7 DEF Release, PoolInv, HoldersHold, HoldsWorker
  <2>4. Len(idle') = Len(idle) + 1
    BY <1>1, <1>7, <2>3, AppendProperties DEF Release, TypeOK
  <2>5. QED
    BY <1>1, <2>1, <2>2, <2>4, Counts DEF SlotsNotOversold
<1>8. QED
  BY <1>1, <1>2, <1>3, <1>4, <1>5, <1>6, <1>7, StepCases

LEMMA NextWakeup ==
  ASSUME PoolInv, [Next]_vars
  PROVE  NoLostWakeup'
<1>1. /\ TypeOK /\ WokenWait
      /\ live_total \in Nat /\ live_total <= MaxProcesses
      /\ MaxProcesses \in Nat
      /\ Waiters \ woken # {} =>
           Len(idle) + (MaxProcesses - live_total) <= Cardinality(woken)
  BY PoolAssumption DEF PoolInv, TypeOK, SlotsNotOversold, NoLostWakeup
<1>2. CASE Quiet
  BY <1>1, <1>2 DEF Quiet, inner, NoLostWakeup
<1>3. ASSUME NEW c \in Callers, NEW v, v # "wait",
             pc' = [pc EXCEPT ![c] = v], woken' = woken \ {c},
             Len(idle') \in Nat, live_total' \in Nat,
             Len(idle') + (MaxProcesses - live_total')
               = Len(idle) + (MaxProcesses - live_total) - 1
      PROVE  NoLostWakeup'
  <2>1. Waiters' \ woken' # {} => Waiters \ woken # {}
    BY <1>1, <1>3, Moves
  <2>2. /\ Cardinality(woken') \in Nat
        /\ Cardinality(woken) - 1 <= Cardinality(woken')
    <3>1. CASE c \in woken
      <4>1. Cardinality(woken \ {c}) = Cardinality(woken) - 1
        BY <1>1, <3>1, Counts, FS_RemoveElement
      <4>2. Cardinality(woken \ {c}) \in Nat
        BY <1>1, Counts, FS_RemoveElement, FS_CardinalityType
      <4>3. QED
        BY <1>1, <1>3, <4>1, <4>2, Counts
    <3>2. CASE c \notin woken
      <4>1. woken' = woken
        BY <1>3, <3>2
      <4>2. QED
        BY <1>1, <4>1, Counts
    <3>3. QED
      BY <3>1, <3>2
  <2>3. QED
    BY <1>1, <1>3, <2>1, <2>2, Counts DEF NoLostWakeup
<1>4. ASSUME NEW c \in Callers, TakeIdle(c) PROVE NoLostWakeup'
  <2>1. /\ Len(idle') = Len(idle) - 1 /\ live_total' = live_total
        /\ Len(idle') \in Nat
    BY <1>1, <1>4, FrontType, LenProperties DEF TakeIdle, TypeOK
  <2>2. pc' = [pc EXCEPT ![c] = "send"] /\ woken' = woken \ {c}
    BY <1>4 DEF TakeIdle
  <2>3. Len(idle') + (MaxProcesses - live_total')
          = Len(idle) + (MaxProcesses - live_total) - 1
    BY <1>1, <2>1, Counts
  <2>4. QED
    BY <1>1, <1>3, <2>1, <2>2, <2>3
<1>5. ASSUME NEW c \in Callers, ReserveSlot(c) PROVE NoLostWakeup'
  <2>1. /\ idle' = idle /\ live_total' = live_total + 1
        /\ pc' = [pc EXCEPT ![c] = "spawn"] /\ woken' = woken \ {c}
    BY <1>5 DEF ReserveSlot
  <2>2. Len(idle') + (MaxProcesses - live_total')
          = Len(idle) + (MaxProcesses - live_total) - 1
    BY <1>1, <2>1, Counts
  <2>3. "spawn" # "wait" /\ Len(idle') \in Nat /\ live_total' \in Nat
    BY <1>1, <2>1, Counts
  <2>4. QED
    BY <1>3, <2>1, <2>2, <2>3
<1>6. ASSUME NEW c \in Callers, Refuse(c) \/ Sleep(c) PROVE NoLostWakeup'
  <2>1. /\ idle' = <<>> /\ live_total' = live_total
        /\ ~(live_total < MaxProcesses) /\ woken' = woken \ {c}
    BY <1>6 DEF Refuse, Sleep, SlotFree
  <2>2. Len(idle') = 0
    BY <2>1, EmptySeq
  <2>3. Cardinality(woken') \in Nat
    BY <1>1, <2>1, Counts, FS_RemoveElement, FS_CardinalityType
  <2>4. QED
    BY <1>1, <2>1, <2>2, <2>3 DEF NoLostWakeup
<1>7. ASSUME NEW c \in Callers, SpuriousWake(c) PROVE NoLostWakeup'
  <2>1. /\ woken' = woken \cup {c} /\ c \notin woken
        /\ Waiters' = Waiters /\ idle' = idle /\ live_total' = live_total
    BY <1>7 DEF SpuriousWake, thread, Waiters
  <2>2. Cardinality(woken') = Cardinality(woken) + 1
    BY <1>1, <2>1, Counts, FS_AddElement
  <2>3. QED
    BY <1>1, <2>1, <2>2, Counts DEF NoLostWakeup
<1>8. ASSUME NEW c \in Callers, SpawnFails(c) \/ Release(c) \/ GiveBack(c)
      PROVE  NoLostWakeup'
  <2>1. /\ pc' = [pc EXCEPT ![c] = "idle"] /\ pc[c] # "wait"
        /\ NotifyOne
    BY <1>8 DEF SpawnFails, Release, GiveBack, Return
  <2>2. Waiters' = Waiters
    BY <1>1, <2>1 DEF Waiters, TypeOK
  <2>3. /\ Len(idle') \in Nat /\ live_total' \in Nat
        /\ Len(idle') + (MaxProcesses - live_total')
             <= Len(idle) + (MaxProcesses - live_total) + 1
    <3>1. CASE Release(c)
      <4>1. held[c] \in Workers
        BY <3>1 DEF Release, PoolInv, HoldersHold, HoldsWorker
      <4>2. Len(idle') = Len(idle) + 1 /\ live_total' = live_total
        BY <1>1, <3>1, <4>1, AppendProperties DEF Release, TypeOK
      <4>3. QED
        BY <1>1, <4>2, Counts
    <3>2. CASE SpawnFails(c) \/ GiveBack(c)
      <4>1. idle' = idle /\ live_total' = Pred(live_total)
        BY <3>2 DEF SpawnFails, GiveBack
      <4>2. live_total' \in Nat /\ live_total - 1 <= live_total'
        BY <1>1, <4>1 DEF Pred
      <4>3. QED
        BY <1>1, <4>1, <4>2, Counts
    <3>3. QED
      BY <1>8, <3>1, <3>2
  <2>4. \/ Waiters \ woken = {} /\ woken' = woken
        \/ /\ Waiters \ woken # {}
           /\ Cardinality(woken') = Cardinality(woken) + 1
    BY <1>1, <2>1, NotifyEffect
  <2>5. QED
    BY <1>1, <2>2, <2>3, <2>4, Counts DEF NoLostWakeup
<1>9. ASSUME NEW c \in Callers, AbandonWorker(c) PROVE NoLostWakeup'
  <2>1. Waiters' = Waiters
    BY <1>1, <1>9 DEF AbandonWorker, Received, Return, Waiters, TypeOK
  <2>2. QED
    BY <1>1, <1>9, <2>1 DEF AbandonWorker, inner, NoLostWakeup
<1>10. QED
  BY <1>1, <1>2, <1>4, <1>5, <1>6, <1>7, <1>8, <1>9, StepCases

LEMMA PoolInvariant == Spec => []PoolInv
<1>1. PoolInv /\ [Next]_vars => PoolInv'
  <2> SUFFICES ASSUME PoolInv, [Next]_vars PROVE PoolInv'
    OBVIOUS
  <2>1. TypeOK /\ HoldersHold
    BY DEF PoolInv
  <2>2. TypeOK' /\ HoldersHold'
    BY <2>1, NextType, NextHold
  <2>3. QED
    BY <2>2, NextQueue, NextSlots, NextWakeup DEF PoolInv
<1>2. QED
  BY InitPool, <1>1, PTL DEF Spec

\* However calls interleave and whatever their plugins do, the pool never has
\* more slots in use than live_total says, nor live_total above max_processes:
\* acquire_worker's test of the bound is enough.
THEOREM NeverOversold == Spec => []SlotsNotOversold
<1>1. PoolInv => SlotsNotOversold
  BY DEF PoolInv
<1>2. QED
  BY <1>1, PoolInvariant, PTL

\* The waiting counter of PoolInner, which a waiter decrements only after it
\* has the mutex again, is the number of queued calls, at most queue_bound.
THEOREM QueueCounted == Spec => []QueueBounded
<1>1. PoolInv => QueueBounded
  BY DEF PoolInv
<1>2. QED
  BY <1>1, PoolInvariant, PTL

\* One notify_one per worker or slot given back is enough: no waiter sleeps
\* while there is a worker or slot that no woken waiter is on its way to.
THEOREM WakeupsSuffice == Spec => []NoLostWakeup
<1>1. PoolInv => NoLostWakeup
  BY DEF PoolInv
<1>2. QED
  BY <1>1, PoolInvariant, PTL

\* acquire_worker never answers Backpressure to a call it has let into the
\* queue: once out of the count, the call itself leaves a place free.
THEOREM QueuedIsAdmitted == Spec => WaitersAreServed
<1> DEFINE Served(c) == pc[c] = "wait" => pc'[c] \in {"wait", "send", "spawn"}
<1>1. PoolInv /\ [Next]_vars => [\A c \in Callers : Served(c)]_vars
  <2> SUFFICES ASSUME PoolInv, [Next]_vars, NEW c \in Callers, pc[c] = "wait"
               PROVE  pc'[c] \in {"wait", "send", "spawn"}
    OBVIOUS
  <2>1. TypeOK /\ QueueBounded
    BY DEF PoolInv
  <2>2. ASSUME NEW d \in Callers, Refuse(d) PROVE d # c
    <3> SUFFICES ASSUME d = c PROVE FALSE
      OBVIOUS
    <3>1. StillWaiting(c) = Pred(waiting) /\ StillWaiting(c) >= QueueBound
      BY <2>2 DEF Refuse, QueueFull, StillWaiting
    <3>2. c \in Waiters
      BY DEF Waiters
    <3>3. Cardinality(Waiters) # 0
      BY <2>1, <3>2, Counts, FS_EmptySet
    <3>4. QED
      BY <2>1, <3>1, <3>3, PoolAssumption DEF QueueBounded, Pred, TypeOK
  <2>3. CASE Quiet
    BY <2>3 DEF Quiet, Waiters
  <2>4. ASSUME NEW d \in Callers, Refuse(d) PROVE pc'[c] = "wait"
    BY <2>1, <2>2, <2>4 DEF Refuse, Return, TypeOK
  <2>5. ASSUME NEW d \in Callers, TakeIdle(d) \/ ReserveSlot(d) \/ Sleep(d)
        PROVE  pc'[c] \in {"wait", "send", "spawn"}
    BY <2>1, <2>5 DEF TakeIdle, ReserveSlot, Sleep, TypeOK
  <2>6. ASSUME NEW d \in Callers,
               \/ SpuriousWake(d) \/ SpawnFails(d) \/ AbandonWorker(d)
               \/ Release(d) \/ GiveBack(d)
        PROVE  pc'[c] = "wait"
    BY <2>1, <2>6 DEF SpuriousWake, SpawnFails, AbandonWorker, Received,
                      Release, GiveBack, Return, thread, TypeOK
  <2>7. QED
    BY <2>1, <2>3, <2>4, <2>5, <2>6, StepCases
<1>2. QED
  BY <1>1, PoolInvariant, PTL DEF Spec, WaitersAreServed

-----------------------------------------------------------------------------
(* The processes.  Each one belongs to a call that holds a slot or to the   *)
(* idle stack, so there are no more of them than slots in use.              *)

\* A caller that is not between acquire_worker and drop_worker or
\* release_worker holds nothing, so taking a worker never drops another one.
HandsEmpty ==
  \A c \in Callers : pc[c] \notin HoldsWorker => held[c] = NoWorker

Owned(w) ==
  \/ \E c \in Callers : held[c] = w
  \/ \E i \in DOMAIN idle : idle[i] = w

LEMMA NextHands == TypeOK /\ HandsEmpty /\ [Next]_vars => HandsEmpty'
<1> SUFFICES ASSUME TypeOK, HandsEmpty, [Next]_vars PROVE HandsEmpty'
  OBVIOUS
<1> USE DEF HandsEmpty, HoldsWorker
<1>1. ASSUME NEW c \in Callers, BeginCall(c) PROVE HandsEmpty'
  BY <1>1 DEF BeginCall, Return, TypeOK
<1>2. ASSUME NEW c \in Callers, Acquire(c) PROVE HandsEmpty'
  BY <1>2 DEF Acquire, Contends, TakeIdle, ReserveSlot, Refuse, Sleep, Return,
              TypeOK
<1>3. ASSUME NEW c \in Callers, SpawnWorker(c) \/ SpawnFails(c)
      PROVE  HandsEmpty'
  BY <1>3 DEF SpawnWorker, SpawnFails, Return, TypeOK
<1>4. ASSUME NEW c \in Callers,
             StillAlive(c) \/ SendFails(c) \/ Write(c) \/ BrokenPipe(c) \/ JoinStderr(c)
      PROVE  HandsEmpty'
  BY <1>4 DEF StillAlive, SendFails, Write, BrokenPipe, JoinStderr, FailCall,
              TypeOK
<1>5. ASSUME NEW c \in Callers, Receive(c) PROVE HandsEmpty'
  BY <1>5 DEF Receive, Received, ReceiveAnswer, ReceiveError, AbandonWorker,
              TimeOut, Disconnected, FailCall, Return, TypeOK
<1>6. ASSUME NEW c \in Callers, Settle(c) PROVE HandsEmpty'
  BY <1>6 DEF Settle, Release, Recycle, Kill, GiveBack, TypeOK
<1>7. ASSUME NEW c \in Callers, SpuriousWake(c) PROVE HandsEmpty'
  BY <1>7 DEF SpuriousWake, thread
<1>8. ASSUME NEW w \in Workers, PluginStep(w) PROVE HandsEmpty'
  BY <1>8 DEF PluginStep, Answer, ExtraLine, Exit, ClosePipe, thread
<1>9. CASE UNCHANGED vars
  BY <1>9 DEF vars, thread
<1>10. QED
  BY <1>1, <1>2, <1>3, <1>4, <1>5, <1>6, <1>7, <1>8, <1>9
  DEF Next, HostStep

\* Steps that leave every worker where it is and start no process.
Unmoved ==
  /\ held' = held /\ idle' = idle
  /\ \A w \in Workers :
       plugin[w].proc = "none" => plugin'[w].proc = "none" \/ Owned(w)

LEMMA UnmovedSteps ==
  ASSUME TypeOK, HoldersHold, [Next]_vars
  PROVE  \/ Unmoved
         \/ \E c \in Callers : \/ TakeIdle(c) \/ SpawnWorker(c)
                               \/ AbandonWorker(c) \/ Release(c) \/ Kill(c)
<1>1. ASSUME NEW c \in Callers, BeginCall(c) \/ ReserveSlot(c) \/ Refuse(c)
             \/ Sleep(c) \/ SpuriousWake(c) \/ SpawnFails(c) \/ StillAlive(c)
             \/ SendFails(c) \/ BrokenPipe(c) \/ Disconnected(c)
             \/ JoinStderr(c) \/ Recycle(c) \/ GiveBack(c)
      PROVE  Unmoved
  BY <1>1 DEF BeginCall, ReserveSlot, Refuse, Sleep, SpuriousWake, SpawnFails,
              StillAlive, SendFails, BrokenPipe, Disconnected, JoinStderr,
              Recycle, GiveBack, thread, inner, Unmoved
<1>2. ASSUME NEW c \in Callers, Write(c) \/ TimeOut(c) PROVE Unmoved
  <2>1. held[c] \in Workers
    BY <1>2 DEF Write, TimeOut, HoldersHold, HoldsWorker
  <2>2. \A w \in Workers : w # held[c] => plugin'[w] = plugin[w]
    BY <1>2 DEF Write, TimeOut, TypeOK
  <2>3. Owned(held[c])
    BY DEF Owned
  <2>4. QED
    BY <1>2, <2>2, <2>3 DEF Write, TimeOut, inner, Unmoved
<1>3. ASSUME NEW c \in Callers, ReceiveAnswer(c) \/ ReceiveError(c)
      PROVE  Unmoved
  <2>1. plugin' = [plugin EXCEPT ![held[c]] = Popped(c)] /\ held' = held
        /\ idle' = idle
    BY <1>3 DEF ReceiveAnswer, ReceiveError, inner
  <2>2. held[c] \in Workers
    BY <1>3 DEF ReceiveAnswer, ReceiveError, Received, HoldersHold, HoldsWorker
  <2>3. Popped(c).proc = plugin[held[c]].proc
    BY <2>2 DEF Popped, TypeOK, PluginState
  <2>4. QED
    BY <2>1, <2>2, <2>3 DEF Unmoved, TypeOK
<1>4. ASSUME NEW w \in Workers, PluginStep(w) PROVE Unmoved
  <2>1. held' = held /\ idle' = idle
    BY <1>4 DEF PluginStep, Answer, ExtraLine, Exit, ClosePipe, thread, inner
  <2>2. CASE Exit(w)
    <3>1. \A v \in Workers : v # w => plugin'[v] = plugin[v]
      BY <2>2 DEF Exit, TypeOK
    <3>2. QED
      BY <2>1, <2>2, <3>1 DEF Exit, Running, Unmoved
  <2>3. CASE Answer(w) \/ ExtraLine(w) \/ ClosePipe(w)
    <3>1. plugin[w] \in PluginState
      BY DEF TypeOK
    <3>2. PICK p : /\ plugin' = [plugin EXCEPT ![w] = p]
                   /\ p.proc = plugin[w].proc
      <4>1. CASE Answer(w) \/ ExtraLine(w)
        BY <3>1, <4>1 DEF Answer, ExtraLine, Writes, PluginState
      <4>2. CASE ClosePipe(w)
        BY <4>2, ClosedType
      <4>3. QED
        BY <2>3, <4>1, <4>2
    <3>3. \A v \in Workers : plugin'[v].proc = plugin[v].proc
      BY <3>2 DEF TypeOK
    <3>4. QED
      BY <2>1, <3>3 DEF Unmoved
  <2>4. QED
    BY <1>4, <2>2, <2>3 DEF PluginStep
<1>5. CASE UNCHANGED vars
  BY <1>5 DEF vars, thread, inner, Unmoved
<1>6. QED
  BY <1>1, <1>2, <1>3, <1>4, <1>5
  DEF Next, HostStep, Acquire, Receive, Settle

\* What the two theorems about processes share.
OwnerInv == TypeOK /\ HoldersHold /\ HandsEmpty /\ NoOrphans

LEMMA NextOwned ==
  ASSUME OwnerInv, [Next]_vars
  PROVE  NoOrphans'
<1>1. TypeOK /\ HoldersHold /\ HandsEmpty
  BY DEF OwnerInv
<1>2. \A w \in Workers : plugin[w].proc # "none" => Owned(w)
  BY DEF OwnerInv, NoOrphans, Owned
<1> SUFFICES ASSUME NEW w \in Workers, plugin'[w].proc # "none"
             PROVE  \/ \E c \in Callers : held'[c] = w
                    \/ \E i \in DOMAIN idle' : idle'[i] = w
  BY DEF NoOrphans
<1>3. CASE Unmoved
  BY <1>2, <1>3 DEF Unmoved, Owned
<1>4. ASSUME NEW c \in Callers, TakeIdle(c)
      PROVE  \/ \E d \in Callers : held'[d] = w
             \/ \E i \in DOMAIN idle' : idle'[i] = w
  <2>1. held[c] = NoWorker
    BY <1>1, <1>4 DEF TakeIdle, Contends, HandsEmpty, HoldsWorker
  <2>2. /\ idle \in Seq(Workers) /\ idle # <<>>
        /\ idle' = Front(idle) /\ held' = [held EXCEPT ![c] = Last(idle)]
        /\ plugin' = plugin
    BY <1>1, <1>4 DEF TakeIdle, TypeOK
  <2>3. /\ idle' \in Seq(Workers) /\ Len(idle') = Len(idle) - 1
        /\ \A i \in 1 .. Len(idle) - 1 : idle'[i] = idle[i]
    BY <2>2, FrontType
  <2>4. DOMAIN idle' = 1 .. Len(idle) - 1 /\ DOMAIN idle = 1 .. Len(idle)
        /\ Len(idle) \in Nat
    BY <2>2, <2>3, LenProperties
  <2>5. CASE \E d \in Callers : held[d] = w
    <3>1. PICK d \in Callers : held[d] = w
      BY <2>5
    <3>2. d # c
      BY <2>1, <3>1, PoolAssumption
    <3>3. QED
      BY <1>1, <2>2, <3>1, <3>2 DEF TypeOK
  <2>6. CASE \E i \in DOMAIN idle : idle[i] = w
    <3>1. PICK i \in 1 .. Len(idle) : idle[i] = w
      BY <2>4, <2>6
    <3>2. CASE i = Len(idle)
      BY <1>1, <2>2, <3>1, <3>2 DEF Last, TypeOK
    <3>3. CASE i # Len(idle)
      BY <2>3, <2>4, <3>1, <3>3
    <3>4. QED
      BY <3>2, <3>3
  <2>7. QED
    BY <1>2, <2>2, <2>5, <2>6 DEF Owned
<1>5. ASSUME NEW c \in Callers, SpawnWorker(c)
      PROVE  \/ \E d \in Callers : held'[d] = w
             \/ \E i \in DOMAIN idle' : idle'[i] = w
  <2>1. PICK v \in Workers : /\ plugin' = [plugin EXCEPT ![v] = Spawned]
                             /\ held' = [held EXCEPT ![c] = v]
    BY <1>5 DEF SpawnWorker
  <2>2. held[c] = NoWorker /\ idle' = idle
    BY <1>1, <1>5 DEF SpawnWorker, HandsEmpty, HoldsWorker, inner
  <2>3. CASE w = v
    BY <1>1, <2>1, <2>3 DEF TypeOK
  <2>4. CASE w # v
    <3>1. Owned(w)
      BY <1>1, <1>2, <2>1, <2>4 DEF TypeOK
    <3>2. QED
      BY <1>1, <2>1, <2>2, <3>1, PoolAssumption DEF Owned, TypeOK
  <2>5. QED
    BY <2>3, <2>4
<1>6. ASSUME NEW c \in Callers, AbandonWorker(c) \/ Kill(c)
      PROVE  \/ \E d \in Callers : held'[d] = w
             \/ \E i \in DOMAIN idle' : idle'[i] = w
  <2>1. /\ plugin' = [plugin EXCEPT ![held[c]] = Reaped]
        /\ held' = [held EXCEPT ![c] = NoWorker]
        /\ idle' = idle
    BY <1>6 DEF AbandonWorker, Kill, inner
  <2>2. w # held[c]
    BY <1>1, <2>1 DEF Reaped, TypeOK
  <2>3. Owned(w)
    BY <1>1, <1>2, <2>1, <2>2 DEF TypeOK
  <2>4. QED
    BY <1>1, <2>1, <2>2, <2>3 DEF Owned, TypeOK
<1>7. ASSUME NEW c \in Callers, Release(c)
      PROVE  \/ \E d \in Callers : held'[d] = w
             \/ \E i \in DOMAIN idle' : idle'[i] = w
  <2>1. /\ idle' = Append(idle, held[c])
        /\ held' = [held EXCEPT ![c] = NoWorker]
        /\ plugin' = plugin
        /\ held[c] \in Workers /\ idle \in Seq(Workers)
    BY <1>1, <1>7 DEF Release, HoldersHold, HoldsWorker, TypeOK
  <2>2. /\ DOMAIN idle = 1 .. Len(idle) /\ DOMAIN idle' = 1 .. Len(idle) + 1
        /\ Len(idle) \in Nat
        /\ \A i \in 1 .. Len(idle) : idle'[i] = idle[i]
        /\ idle'[Len(idle) + 1] = held[c]
    BY <2>1, AppendProperties, LenProperties
  <2>3. CASE w = held[c]
    BY <2>2, <2>3
  <2>4. CASE w # held[c]
    <3>1. Owned(w)
      BY <1>2, <2>1
    <3>2. CASE \E d \in Callers : held[d] = w
      BY <1>1, <2>1, <2>4, <3>2 DEF TypeOK
    <3>3. CASE \E i \in DOMAIN idle : idle[i] = w
      <4>1. PICK i \in 1 .. Len(idle) : idle[i] = w
        BY <2>2, <3>3
      <4>2. i \in DOMAIN idle' /\ idle'[i] = w
        BY <2>2, <4>1
      <4>3. QED
        BY <4>2
    <3>4. QED
      BY <3>1, <3>2, <3>3 DEF Owned
  <2>5. QED
    BY <2>3, <2>4
<1>8. QED
  BY <1>1, <1>3, <1>4, <1>5, <1>6, <1>7, UnmovedSteps

LEMMA OwnerInvariant == Spec => []OwnerInv
<1>1. Init => OwnerInv
  <2> SUFFICES ASSUME Init PROVE OwnerInv
    OBVIOUS
  <2>1. HandsEmpty /\ NoOrphans
    BY DEF Init, HandsEmpty, NoOrphans, Reaped
  <2>2. QED
    BY <2>1, InitType DEF OwnerInv
<1>2. OwnerInv /\ [Next]_vars => OwnerInv'
  BY NextType, NextHold, NextHands, NextOwned DEF OwnerInv
<1>3. QED
  BY <1>1, <1>2, PTL DEF Spec

\* Whichever way a call ends, its plugin process is reaped or handed on:
\* drop_worker, Drop and release_worker leave no process without an owner.
THEOREM NobodyOrphaned == Spec => []NoOrphans
<1>1. OwnerInv => NoOrphans
  BY DEF OwnerInv
<1>2. QED
  BY <1>1, OwnerInvariant, PTL

LEMMA OwnersCount ==
  ASSUME OwnerInv
  PROVE  Cardinality({w \in Workers : plugin[w].proc # "none"})
           <= Len(idle) + Cardinality(SlotHolders)
<1> DEFINE alive == {w \in Workers : plugin[w].proc # "none"}
           inHand == [c \in SlotHolders |-> held[c]]
           n == Len(idle)
<1>1. TypeOK /\ HandsEmpty
  BY DEF OwnerInv
<1>2. /\ IsFiniteSet(SlotHolders) /\ Cardinality(SlotHolders) \in Nat
      /\ n \in Nat /\ idle \in [1 .. n -> Workers]
  BY <1>1, Counts, LenProperties, ElementOfSeq DEF TypeOK
<1>3. /\ IsFiniteSet(Range(inHand)) /\ Cardinality(Range(inHand)) \in Nat
      /\ Cardinality(Range(inHand)) <= Cardinality(SlotHolders)
  <2>1. inHand \in [SlotHolders -> Workers \cup {NoWorker}]
    BY <1>1 DEF SlotHolders, TypeOK
  <2>2. inHand \in Surjection(SlotHolders, Range(inHand))
    BY <2>1, Fun_RangeProperties
  <2> HIDE DEF inHand
  <2>3. QED
    BY <1>2, <2>2, FS_Surjection, FS_CardinalityType
<1>4. /\ IsFiniteSet(Range(idle)) /\ Cardinality(Range(idle)) \in Nat
      /\ Cardinality(Range(idle)) <= n
  <2>1. IsFiniteSet(1 .. n) /\ Cardinality(1 .. n) = n
    <3> HIDE DEF n
    <3>1. 1 \in Int /\ n \in Int
      BY <1>2
    <3>2. /\ IsFiniteSet(1 .. n)
          /\ Cardinality(1 .. n) = IF 1 > n THEN 0 ELSE n - 1 + 1
      BY <3>1, FS_Interval
    <3>3. QED
      BY <1>2, <3>2
  <2>2. idle \in Surjection(1 .. n, Range(idle))
    BY <1>2, Fun_RangeProperties
  <2>3. QED
    BY <1>2, <2>1, <2>2, FS_Surjection, FS_CardinalityType
<1>5. alive \subseteq Range(inHand) \cup Range(idle)
  <2> SUFFICES ASSUME NEW w \in alive
               PROVE  w \in Range(inHand) \cup Range(idle)
    OBVIOUS
  <2>1. Owned(w) /\ w # NoWorker
    BY PoolAssumption DEF OwnerInv, NoOrphans, Owned
  <2>2. ASSUME NEW c \in Callers, held[c] = w PROVE w \in Range(inHand)
    <3>1. pc[c] \in HoldsWorker
      BY <1>1, <2>1, <2>2 DEF HandsEmpty
    <3>2. c \in SlotHolders
      BY <3>1 DEF HoldsWorker, SlotHolders, Serving
    <3>3. QED
      BY <2>2, <3>2 DEF Range
  <2>3. QED
    BY <2>1, <2>2 DEF Owned, Range
<1>6. /\ IsFiniteSet(Range(inHand) \cup Range(idle))
      /\ Cardinality(Range(inHand) \cup Range(idle))
           <= Cardinality(Range(inHand)) + Cardinality(Range(idle))
  <2>1. Cardinality(Range(inHand) \cap Range(idle)) \in Nat
    BY <1>3, FS_Intersection, FS_CardinalityType
  <2>2. /\ IsFiniteSet(Range(inHand) \cup Range(idle))
        /\ Cardinality(Range(inHand) \cup Range(idle))
             = Cardinality(Range(inHand)) + Cardinality(Range(idle))
                 - Cardinality(Range(inHand) \cap Range(idle))
    BY <1>3, <1>4, FS_Union
  <2> HIDE DEF inHand
  <2>3. QED
    BY <1>3, <1>4, <2>1, <2>2
<1>7. /\ Cardinality(alive) <= Cardinality(Range(inHand) \cup Range(idle))
      /\ Cardinality(alive) \in Nat
      /\ Cardinality(Range(inHand) \cup Range(idle)) \in Nat
  BY <1>5, <1>6, FS_Subset, FS_CardinalityType
<1> HIDE DEF inHand, n
<1>8. Cardinality(alive) <= n + Cardinality(SlotHolders)
  BY <1>2, <1>3, <1>4, <1>6, <1>7
<1>9. QED
  BY <1>8 DEF n

\* max_processes is what its documentation says: no more plugin processes
\* than that exist at once, those a failed call is still killing included.
THEOREM ProcessBound == Spec => []ProcessesBounded
<1>1. PoolInv /\ OwnerInv => ProcessesBounded
  <2> SUFFICES ASSUME PoolInv, OwnerInv PROVE ProcessesBounded
    OBVIOUS
  <2> DEFINE k == Cardinality({w \in Workers : plugin[w].proc # "none"})
  <2>1. k <= Len(idle) + Cardinality(SlotHolders)
    BY OwnersCount
  <2>2. TypeOK /\ SlotsNotOversold
    BY DEF PoolInv
  <2>3. k \in Nat
    BY PoolAssumption, FS_Subset, FS_CardinalityType
  <2>4. k <= MaxProcesses
    <3> HIDE DEF k
    <3>1. QED
      BY <2>1, <2>2, <2>3, Counts, PoolAssumption DEF SlotsNotOversold, TypeOK
  <2>5. QED
    BY <2>4 DEF ProcessesBounded
<1>2. QED
  BY <1>1, PoolInvariant, OwnerInvariant, PTL

-----------------------------------------------------------------------------
(* Plain calls lose no slot, and with them the pool is admission control.   *)

\* Only call_memoized drops a worker without giving its slot back.
LEMMA PlainCalls ==
  ASSUME Modes = {FALSE}, TypeOK, NEW c \in Callers
  PROVE  ~AbandonWorker(c)
<1>1. job[c] \in [req : Requests, memoized : {FALSE}]
  BY DEF TypeOK, Jobs
<1>2. job[c].memoized = FALSE
  BY <1>1
<1>3. QED
  BY <1>2 DEF AbandonWorker

LEMMA NextAccounted ==
  ASSUME Modes = {FALSE}, PoolInv, SlotsAccounted, [Next]_vars
  PROVE  SlotsAccounted'
<1>1. /\ TypeOK /\ live_total \in Nat
      /\ live_total = Len(idle) + Cardinality(SlotHolders)
  BY DEF PoolInv, TypeOK, SlotsAccounted
<1>2. /\ Cardinality(SlotHolders) \in Nat /\ Len(idle) \in Nat
      /\ Cardinality(SlotHolders') \in Nat
  BY <1>1, Counts, PoolAssumption, FS_Subset, FS_CardinalityType
  DEF SlotHolders
<1>3. CASE Quiet
  BY <1>1, <1>3 DEF Quiet, inner, SlotsAccounted
<1>4. ASSUME NEW c \in Callers, TakeIdle(c) PROVE SlotsAccounted'
  <2>1. Len(idle') = Len(idle) - 1 /\ live_total' = live_total
    BY <1>1, <1>4, FrontType DEF TakeIdle, TypeOK
  <2>2. /\ pc' = [pc EXCEPT ![c] = "send"]
        /\ pc[c] \notin Serving /\ "send" \in Serving
    BY <1>4 DEF TakeIdle, Contends, Serving
  <2>3. Cardinality(SlotHolders') = Cardinality(SlotHolders) + 1
    BY <1>1, <2>2, SlotTaken
  <2>4. QED
    BY <1>1, <1>2, <2>1, <2>3 DEF SlotsAccounted
<1>5. ASSUME NEW c \in Callers, ReserveSlot(c) PROVE SlotsAccounted'
  <2>1. /\ pc' = [pc EXCEPT ![c] = "spawn"]
        /\ pc[c] \notin Serving /\ "spawn" \in Serving
        /\ idle' = idle /\ live_total' = live_total + 1
    BY <1>5 DEF ReserveSlot, Contends, Serving
  <2>2. Cardinality(SlotHolders') = Cardinality(SlotHolders) + 1
    BY <1>1, <2>1, SlotTaken
  <2>3. QED
    BY <1>1, <1>2, <2>1, <2>2 DEF SlotsAccounted
<1>6. ASSUME NEW c \in Callers, Refuse(c) \/ Sleep(c) \/ SpuriousWake(c)
      PROVE  SlotsAccounted'
  <2>1. SlotHolders' = SlotHolders
    BY <1>1, <1>6 DEF Refuse, Sleep, SpuriousWake, Return, Contends, thread,
                      SlotHolders, Serving, TypeOK
  <2>2. idle' = idle /\ live_total' = live_total
    BY <1>6 DEF Refuse, Sleep, SpuriousWake
  <2>3. QED
    BY <1>1, <2>1, <2>2 DEF SlotsAccounted
<1>7. ASSUME NEW c \in Callers, SpawnFails(c) \/ GiveBack(c)
      PROVE  SlotsAccounted'
  <2>1. /\ pc' = [pc EXCEPT ![c] = "idle"]
        /\ pc[c] \in Serving /\ "idle" \notin Serving
        /\ idle' = idle /\ live_total' = Pred(live_total)
    BY <1>7 DEF SpawnFails, GiveBack, Return, Serving
  <2>2. Cardinality(SlotHolders') = Cardinality(SlotHolders) - 1
    BY <1>1, <2>1, SlotGiven
  <2>3. QED
    BY <1>1, <1>2, <2>1, <2>2 DEF SlotsAccounted, Pred
<1>8. ASSUME NEW c \in Callers, Release(c) PROVE SlotsAccounted'
  <2>1. /\ pc' = [pc EXCEPT ![c] = "idle"]
        /\ pc[c] \in Serving /\ "idle" \notin Serving
        /\ live_total' = live_total
    BY <1>8 DEF Release, Serving
  <2>2. Cardinality(SlotHolders') = Cardinality(SlotHolders) - 1
    BY <1>1, <2>1, SlotGiven
  <2>3. held[c] \in Workers
    BY <1>8 DEF Release, PoolInv, HoldersHold, HoldsWorker
  <2>4. Len(idle') = Len(idle) + 1
    BY <1>1, <1>8, <2>3, AppendProperties DEF Release, TypeOK
  <2>5. QED
    BY <1>1, <1>2, <2>1, <2>2, <2>4 DEF SlotsAccounted
<1>9. QED
  BY <1>1, <1>3, <1>4, <1>5, <1>6, <1>7, <1>8, StepCases, PlainCalls

\* A pool of plain calls never loses a slot: live_total is exactly the idle
\* workers and the calls that hold one, however the calls end.  The hypothesis
\* is needed, not convenient: PoolLostSlot shows a memoized call lose one.
THEOREM NoSlotLost == ASSUME Modes = {FALSE} PROVE Spec => []SlotsAccounted
<1>1. Init => SlotsAccounted
  <2> SUFFICES ASSUME Init PROVE SlotsAccounted
    OBVIOUS
  <2>1. SlotHolders = {}
    BY DEF Init, SlotHolders, Serving
  <2>2. Cardinality(SlotHolders) = 0 /\ Len(idle) = 0
    BY <2>1, FS_EmptySet, EmptySeq DEF Init
  <2>3. QED
    BY <2>2 DEF Init, SlotsAccounted
<1>2. PoolInv /\ SlotsAccounted /\ [Next]_vars => SlotsAccounted'
  BY NextAccounted
<1>3. QED
  BY <1>1, <1>2, PoolInvariant, PTL DEF Spec

-----------------------------------------------------------------------------
(* The refinement of AdmissionControl: what each step does to the phases.   *)

Phases == [c \in Callers |-> Phase(c)]

\* Phase(c) as a function of where the caller is.
PhaseAt(v) ==
  IF v \in Serving THEN "served"
  ELSE IF v = "wait" THEN "queued"
  ELSE IF v = "acquire" THEN "asking"
  ELSE "out"

LEMMA PhaseMoves ==
  ASSUME TypeOK, NEW c \in Callers, NEW v, pc' = [pc EXCEPT ![c] = v]
  PROVE  /\ Phases[c] = PhaseAt(pc[c])
         /\ Phases' = [Phases EXCEPT ![c] = PhaseAt(v)]
<1>1. \A d \in Callers : Phase(d)' = IF d = c THEN PhaseAt(v) ELSE Phase(d)
  BY DEF Phase, PhaseAt, TypeOK
<1>2. QED
  BY <1>1 DEF Phases, Phase, PhaseAt

LEMMA PhaseValues ==
  /\ PhaseAt("idle") = "out"
  /\ PhaseAt("acquire") = "asking"
  /\ PhaseAt("wait") = "queued"
  /\ \A v \in Serving : PhaseAt(v) = "served"
  BY DEF PhaseAt, Serving

LEMMA PhaseSets ==
  /\ {c \in Callers : Phases[c] = "served"} = SlotHolders
  /\ {c \in Callers : Phases[c] = "queued"} = Waiters
  BY DEF Phases, Phase, SlotHolders, Waiters, Serving

\* Steps by which no call changes its phase.
LEMMA PhaseKept ==
  ASSUME TypeOK, NEW c \in Callers,
         \/ SpuriousWake(c) \/ SpawnWorker(c) \/ StillAlive(c) \/ SendFails(c)
         \/ Write(c) \/ BrokenPipe(c)
         \/ ReceiveAnswer(c) \/ ReceiveError(c) \/ TimeOut(c)
         \/ Disconnected(c) \/ JoinStderr(c) \/ Recycle(c) \/ Kill(c)
  PROVE  Phases' = Phases
<1>1. \/ pc' = pc
      \/ \E v \in Serving : pc[c] \in Serving /\ pc' = [pc EXCEPT ![c] = v]
  BY DEF SpuriousWake, thread, SpawnWorker, StillAlive, SendFails, Write, BrokenPipe, ReceiveAnswer,
         ReceiveError, Received, TimeOut, Disconnected, JoinStderr, Recycle,
         Kill, FailCall, Serving
<1>2. CASE pc' = pc
  BY <1>2 DEF Phases, Phase
<1>3. ASSUME NEW v \in Serving, pc[c] \in Serving, pc' = [pc EXCEPT ![c] = v]
      PROVE  Phases' = Phases
  <2>1. PhaseAt(v) = Phases[c] /\ Phases' = [Phases EXCEPT ![c] = PhaseAt(v)]
    BY <1>1, <1>3, PhaseMoves, PhaseValues
  <2>2. QED
    BY <2>1 DEF Phases
<1>4. QED
  BY <1>1, <1>2, <1>3

\* A call ends: its slot is free, and it is out.
LEMMA PhaseLeft ==
  ASSUME TypeOK, NEW c \in Callers,
         SpawnFails(c) \/ Release(c) \/ GiveBack(c)
  PROVE  /\ Phases[c] = "served"
         /\ Phases' = [Phases EXCEPT ![c] = "out"]
<1>1. pc' = [pc EXCEPT ![c] = "idle"] /\ pc[c] \in Serving
  BY DEF SpawnFails, Release, GiveBack, Return, Serving
<1>2. /\ Phases[c] = PhaseAt(pc[c])
      /\ Phases' = [Phases EXCEPT ![c] = PhaseAt("idle")]
  BY <1>1, PhaseMoves
<1>3. PhaseAt(pc[c]) = "served" /\ PhaseAt("idle") = "out"
  BY <1>1, PhaseValues
<1>4. QED
  BY <1>2, <1>3

\* A call enters acquire_worker, or its memo store answers it.
LEMMA PhaseAsked ==
  ASSUME TypeOK, NEW c \in Callers, BeginCall(c)
  PROVE  \/ Phases' = Phases
         \/ Phases[c] = "out" /\ Phases' = [Phases EXCEPT ![c] = "asking"]
<1>1. pc[c] = "idle" /\ (pc' = [pc EXCEPT ![c] = "idle"] \/
                         pc' = [pc EXCEPT ![c] = "acquire"])
  BY DEF BeginCall, Return
<1>2. CASE pc' = [pc EXCEPT ![c] = "idle"]
  BY <1>1, <1>2 DEF Phases, Phase, TypeOK
<1>3. CASE pc' = [pc EXCEPT ![c] = "acquire"]
  <2>1. /\ Phases[c] = PhaseAt("idle")
        /\ Phases' = [Phases EXCEPT ![c] = PhaseAt("acquire")]
    BY <1>1, <1>3, PhaseMoves
  <2>2. QED
    BY <2>1, PhaseValues
<1>4. QED
  BY <1>1, <1>2, <1>3

\* An idle worker or a free slot is one no call holds.
LEMMA PhaseServed ==
  ASSUME PoolInv, NEW c \in Callers, TakeIdle(c) \/ ReserveSlot(c)
  PROVE  /\ Cardinality(SlotHolders) # MaxProcesses
         /\ Phases[c] \in {"asking", "queued"}
         /\ Phases' = [Phases EXCEPT ![c] = "served"]
<1>1. TypeOK /\ SlotsNotOversold
  BY DEF PoolInv
<1>2. Cardinality(SlotHolders) # MaxProcesses
  <2>1. CASE TakeIdle(c)
    <3>1. Len(idle) # 0
      BY <1>1, <2>1, EmptySeq DEF TakeIdle, TypeOK
    <3>2. QED
      BY <1>1, <3>1, Counts, PoolAssumption DEF SlotsNotOversold, TypeOK
  <2>2. CASE ReserveSlot(c)
    BY <1>1, <2>2, Counts, PoolAssumption
    DEF ReserveSlot, SlotFree, SlotsNotOversold, TypeOK
  <2>3. QED
    BY <2>1, <2>2
<1>3. PICK v \in {"send", "spawn"} : pc' = [pc EXCEPT ![c] = v]
  BY DEF TakeIdle, ReserveSlot
<1>4. pc[c] \in {"acquire", "wait"}
  BY DEF TakeIdle, ReserveSlot, Contends
<1>5. v \in Serving
  BY <1>3 DEF Serving
<1>6. /\ Phases[c] = PhaseAt(pc[c])
      /\ Phases' = [Phases EXCEPT ![c] = PhaseAt(v)]
  BY <1>1, <1>3, PhaseMoves
<1>7. PhaseAt(v) = "served" /\ PhaseAt(pc[c]) \in {"asking", "queued"}
  BY <1>4, <1>5, PhaseValues
<1>8. QED
  BY <1>2, <1>6, <1>7

\* A caller that found neither has found every slot with a call.
LEMMA AllServing ==
  ASSUME PoolInv, SlotsAccounted, idle = <<>>, ~SlotFree
  PROVE  Cardinality(SlotHolders) = MaxProcesses
<1>1. Len(idle) = 0
  BY EmptySeq
<1>2. QED
  BY <1>1, Counts, PoolAssumption
  DEF PoolInv, TypeOK, SlotsAccounted, SlotsNotOversold, SlotFree

LEMMA PhaseQueued ==
  ASSUME PoolInv, NEW c \in Callers, Sleep(c)
  PROVE  \/ Phases' = Phases
         \/ /\ Cardinality(Waiters) < QueueBound
            /\ Phases[c] = "asking"
            /\ Phases' = [Phases EXCEPT ![c] = "queued"]
<1>1. TypeOK /\ QueueBounded /\ pc' = [pc EXCEPT ![c] = "wait"]
      /\ ~(StillWaiting(c) >= QueueBound)
  BY DEF PoolInv, Sleep, QueueFull
<1>2. CASE pc[c] = "wait"
  BY <1>1, <1>2 DEF Phases, Phase, TypeOK
<1>3. CASE pc[c] = "acquire"
  <2>1. StillWaiting(c) = Cardinality(Waiters)
    BY <1>1, <1>3 DEF StillWaiting, QueueBounded
  <2>2. Cardinality(Waiters) < QueueBound
    BY <1>1, <2>1, Counts, PoolAssumption
  <2>3. /\ Phases[c] = PhaseAt("acquire")
        /\ Phases' = [Phases EXCEPT ![c] = PhaseAt("wait")]
    BY <1>1, <1>3, PhaseMoves
  <2>4. QED
    BY <2>2, <2>3, PhaseValues
<1>4. QED
  BY <1>2, <1>3 DEF Sleep, Contends

LEMMA PhaseRefused ==
  ASSUME PoolInv, NEW c \in Callers, Refuse(c)
  PROVE  /\ Cardinality(Waiters) = QueueBound
         /\ Phases[c] = "asking"
         /\ Phases' = [Phases EXCEPT ![c] = "out"]
<1>1. TypeOK /\ QueueBounded /\ pc' = [pc EXCEPT ![c] = "idle"]
      /\ StillWaiting(c) >= QueueBound
  BY DEF PoolInv, Refuse, Return, QueueFull
<1>2. pc[c] # "wait"
  <2> SUFFICES ASSUME pc[c] = "wait" PROVE FALSE
    OBVIOUS
  <2>1. c \in Waiters
    BY DEF Waiters
  <2>2. Cardinality(Waiters) # 0
    BY <1>1, <2>1, Counts, FS_EmptySet
  <2>3. StillWaiting(c) = Pred(waiting)
    BY DEF StillWaiting
  <2>4. QED
    BY <1>1, <2>2, <2>3, PoolAssumption DEF QueueBounded, Pred, TypeOK
<1>3. pc[c] = "acquire"
  BY <1>2 DEF Refuse, Contends
<1>4. Cardinality(Waiters) = QueueBound
  BY <1>1, <1>3, Counts, PoolAssumption DEF StillWaiting, QueueBounded, TypeOK
<1>5. QED
  BY <1>1, <1>3, <1>4, PhaseMoves, PhaseValues

\* acquire_worker, release_worker and drop_worker together are admission
\* control over max_processes slots and a queue of queue_bound: a plain call
\* is made to wait or turned away only when every slot is serving another one
\* (and every place in the queue taken), and a queued one is never turned away.
THEOREM PoolAdmits == ASSUME Modes = {FALSE} PROVE Spec => ImplementsAdmission
<1>1. Init => Admission!Init
  BY DEF Init, Admission!Init, Phase, Serving
<1>2. PoolInv /\ SlotsAccounted /\ [Next]_vars => [Admission!Next]_Phases
  <2> SUFFICES ASSUME PoolInv, SlotsAccounted, [Next]_vars, Phases' # Phases
               PROVE  Admission!Next
    OBVIOUS
  <2>1. TypeOK
    BY DEF PoolInv
  <2>2. /\ Admission!In("served") = SlotHolders
        /\ Admission!In("queued") = Waiters
        /\ \A S : Admission!Cardinality(S) = Cardinality(S)
    BY PhaseSets DEF Admission!In, Phases, Admission!Cardinality, Cardinality
  <2>3. ASSUME NEW c \in Callers, BeginCall(c) PROVE Admission!Ask(c)
    BY <2>1, <2>3, PhaseAsked DEF Admission!Ask, Admission!Move, Phases
  <2>4. ASSUME NEW c \in Callers, TakeIdle(c) \/ ReserveSlot(c)
        PROVE  Admission!Serve(c)
    BY <2>2, <2>4, PhaseServed
    DEF Admission!Serve, Admission!Busy, Admission!Move, Phases
  <2>5. ASSUME NEW c \in Callers, Refuse(c) PROVE Admission!TurnAway(c)
    <3>1. idle = <<>> /\ ~SlotFree
      BY <2>5 DEF Refuse
    <3>2. QED
      BY <2>2, <2>5, <3>1, AllServing, PhaseRefused
      DEF Admission!TurnAway, Admission!Busy, Admission!Move, Phases
  <2>6. ASSUME NEW c \in Callers, Sleep(c) PROVE Admission!Queue(c)
    <3>1. idle = <<>> /\ ~SlotFree
      BY <2>6 DEF Sleep
    <3>2. QED
      BY <2>2, <2>6, <3>1, AllServing, PhaseQueued
      DEF Admission!Queue, Admission!Busy, Admission!Move, Phases
  <2>7. ASSUME NEW c \in Callers, SpawnFails(c) \/ Release(c) \/ GiveBack(c)
        PROVE  Admission!Leave(c)
    BY <2>1, <2>7, PhaseLeft DEF Admission!Leave, Admission!Move, Phases
  <2>8. ASSUME NEW w \in Workers, PluginStep(w) PROVE FALSE
    BY <2>8 DEF PluginStep, Answer, ExtraLine, Exit, ClosePipe, thread,
                Phases, Phase
  <2>9. CASE UNCHANGED vars
    BY <2>9 DEF vars, thread, Phases, Phase
  <2>10. QED
    BY <2>1, <2>3, <2>4, <2>5, <2>6, <2>7, <2>8, <2>9, PhaseKept, PlainCalls
    DEF Next, HostStep, Acquire, Receive, Settle, Admission!Next
<1>3. [Admission!Next]_Phases
        <=> [Admission!Next]_[c \in Callers |-> Phase(c)]
  BY DEF Phases
<1>4. QED
  BY <1>1, <1>2, <1>3, PoolInvariant, NoSlotLost, PTL
  DEF Spec, ImplementsAdmission, Admission!Spec

-----------------------------------------------------------------------------
(* Answers.  A line is only taken as an answer when it carries the id of    *)
(* the request, and only such lines are stored in a memo.                   *)

IdsTellApart ==
  \A r, s \in Requests : RequestId[r] = RequestId[s] => r = s

\* What a call says about the last answer from the moment it is decoded, and
\* what the memo holds for a request, carry the id of the request.
AnswersCarryIds ==
  \A c \in Callers :
    pc[c] \in {"idle", "release", "kill", "giveBack"} /\ result[c].kind = "answer" =>
      RequestId[result[c].of] = RequestId[job[c].req]

MemoDecodes ==
  \A c \in Callers, r \in Requests : \A line \in memo[c][r] : Decodes(line, r)

AnswerInv == TypeOK /\ HoldersHold /\ AnswersCarryIds /\ MemoDecodes

\* Steps that decode nothing: the result of a call in these states is an
\* earlier one, kept with the call it is about, or says that the call failed.
Undecoded(c) ==
  /\ job' = job /\ memo' = memo
  /\ \A d \in Callers \ {c} : pc'[d] = pc[d] /\ result'[d] = result[d]
  /\ \/ result'[c].kind # "answer"
     \/ pc'[c] \notin {"idle", "release", "kill", "giveBack"}
     \/ result'[c] = result[c] /\ pc[c] \in {"idle", "release", "kill", "giveBack"}

LEMMA UndecodedSteps ==
  ASSUME TypeOK, NEW c \in Callers,
         HostStep(c) \/ SpuriousWake(c), ~ReceiveAnswer(c)
  PROVE  Undecoded(c)
<1>1. CASE Acquire(c) \/ SpuriousWake(c)
  BY <1>1 DEF Acquire, TakeIdle, ReserveSlot, Refuse, Sleep, SpuriousWake,
              Return, thread, Undecoded, TypeOK
<1>2. CASE SpawnWorker(c) \/ SpawnFails(c) \/ StillAlive(c) \/ SendFails(c)
           \/ Write(c) \/ BrokenPipe(c) \/ JoinStderr(c)
  BY <1>2 DEF SpawnWorker, SpawnFails, StillAlive, SendFails, Write, BrokenPipe,
              JoinStderr, FailCall, Return, Undecoded, TypeOK
<1>3. CASE Receive(c)
  BY <1>3 DEF Receive, Received, ReceiveError, AbandonWorker, TimeOut,
              Disconnected, FailCall, Return, Undecoded, TypeOK
<1>4. CASE Settle(c)
  BY <1>4 DEF Settle, Release, Recycle, Kill, GiveBack, Undecoded, TypeOK
<1>5. QED
  BY <1>1, <1>2, <1>3, <1>4 DEF HostStep

LEMMA NextAnswers ==
  ASSUME AnswerInv, [Next]_vars
  PROVE  AnswersCarryIds' /\ MemoDecodes'
<1>1. TypeOK /\ HoldersHold /\ AnswersCarryIds /\ MemoDecodes
  BY DEF AnswerInv
<1>2. ASSUME NEW c \in Callers, BeginCall(c)
      PROVE  AnswersCarryIds' /\ MemoDecodes'
  <2>1. MemoDecodes'
    BY <1>1, <1>2 DEF BeginCall, MemoDecodes, Decodes
  <2>2. PICK j \in Jobs :
          /\ job' = [job EXCEPT ![c] = j]
          /\ \/ \E line \in memo[c][j.req] :
                  IF Decodes(line, j.req)
                  THEN Return(c, "answer", line.of)
                  ELSE Return(c, "PluginFailure", j.req)
             \/ /\ pc' = [pc EXCEPT ![c] = "acquire"]
                /\ result' = [result EXCEPT ![c] = [kind |-> "none", of |-> j.req]]
    BY <1>2 DEF BeginCall
  <2>3. job'[c] = j /\ \A d \in Callers \ {c} : job'[d] = job[d]
    BY <1>1, <2>2 DEF TypeOK
  <2>4. CASE /\ pc' = [pc EXCEPT ![c] = "acquire"]
             /\ result' = [result EXCEPT ![c] = [kind |-> "none", of |-> j.req]]
    <3>1. AnswersCarryIds'
      BY <1>1, <2>3, <2>4 DEF AnswersCarryIds, TypeOK
    <3>2. QED
      BY <2>1, <3>1
  <2>5. ASSUME NEW line \in memo[c][j.req],
               IF Decodes(line, j.req)
               THEN Return(c, "answer", line.of)
               ELSE Return(c, "PluginFailure", j.req)
        PROVE  AnswersCarryIds' /\ MemoDecodes'
    <3>1. j.req \in Requests
      BY DEF Jobs
    <3>2. Decodes(line, j.req)
      BY <1>1, <3>1 DEF MemoDecodes
    <3>3. /\ result'[c] = [kind |-> "answer", of |-> line.of]
          /\ \A d \in Callers \ {c} :
               result'[d] = result[d] /\ pc'[d] = pc[d]
      BY <1>1, <2>5, <3>2 DEF Return, TypeOK
    <3>4. RequestId[result'[c].of] = RequestId[job'[c].req]
      BY <2>3, <3>2, <3>3 DEF Decodes
    <3>5. AnswersCarryIds'
      BY <1>1, <2>3, <3>3, <3>4 DEF AnswersCarryIds
    <3>6. QED
      BY <2>1, <3>5
  <2>6. QED
    BY <2>2, <2>4, <2>5
<1>3. ASSUME NEW c \in Callers, ReceiveAnswer(c)
      PROVE  AnswersCarryIds' /\ MemoDecodes'
  <2> DEFINE line == NextLine(c)
             r == job[c].req
  <2>1. /\ Decodes(line, r) /\ job' = job
        /\ memo' = IF job[c].memoized THEN [memo EXCEPT ![c][r] = {line}]
                                      ELSE memo
        /\ result' = [result EXCEPT ![c] = [kind |-> "answer", of |-> line.of]]
        /\ pc' = [pc EXCEPT ![c] = "release"]
    BY <1>3 DEF ReceiveAnswer
  <2>2. r \in Requests
    BY <1>1, RequestTypes
  <2> HIDE DEF line, r
  <2>3. MemoDecodes'
    <3>1. ASSUME NEW d \in Callers, NEW s \in Requests,
                 NEW l \in memo'[d][s]
          PROVE  Decodes(l, s)
      <4>1. \/ l \in memo[d][s]
            \/ s = r /\ l = line
        BY <1>1, <2>1, <2>2, <3>1 DEF TypeOK
      <4>2. QED
        BY <1>1, <2>1, <4>1 DEF MemoDecodes
    <3>2. QED
      BY <3>1 DEF MemoDecodes, Decodes
  <2>4. /\ result'[c].of = line.of
        /\ \A d \in Callers \ {c} : result'[d] = result[d] /\ pc'[d] = pc[d]
    BY <1>1, <2>1 DEF TypeOK
  <2>5. RequestId[result'[c].of] = RequestId[job'[c].req]
    BY <2>1, <2>4 DEF Decodes, r
  <2>6. AnswersCarryIds'
    BY <1>1, <2>1, <2>4, <2>5 DEF AnswersCarryIds
  <2>7. QED
    BY <2>3, <2>6
<1>4. ASSUME NEW c \in Callers, HostStep(c) \/ SpuriousWake(c),
             ~ReceiveAnswer(c)
      PROVE  AnswersCarryIds' /\ MemoDecodes'
  <2>1. Undecoded(c)
    BY <1>1, <1>4, UndecodedSteps
  <2>2. AnswersCarryIds'
    BY <1>1, <2>1 DEF Undecoded, AnswersCarryIds
  <2>3. MemoDecodes'
    BY <1>1, <2>1 DEF Undecoded, MemoDecodes, Decodes
  <2>4. QED
    BY <2>2, <2>3
<1>5. ASSUME thread' = thread PROVE AnswersCarryIds' /\ MemoDecodes'
  BY <1>1, <1>5 DEF thread, AnswersCarryIds, MemoDecodes, Decodes
<1>6. ASSUME NEW w \in Workers, PluginStep(w) PROVE thread' = thread
  BY <1>6 DEF PluginStep, Answer, ExtraLine, Exit, ClosePipe
<1>7. UNCHANGED vars => thread' = thread
  BY DEF vars
<1>8. QED
  BY <1>2, <1>3, <1>4, <1>5, <1>6, <1>7 DEF Next

\* However calls interleave, and whatever lines a worker brings from earlier
\* calls, what call returns as an answer, and what the memo store replays for
\* a request, was decoded against that request's own id.
THEOREM AnswersDecoded == Spec => [](AnswersCarryIds /\ MemoDecodes)
<1>1. Init => AnswerInv
  <2> SUFFICES ASSUME Init PROVE AnswerInv
    OBVIOUS
  <2>1. \A c \in Callers : result[c].kind = "none"
    BY DEF Init
  <2>2. AnswersCarryIds
    BY <2>1 DEF AnswersCarryIds
  <2>3. MemoDecodes
    BY DEF Init, MemoDecodes
  <2>4. QED
    BY <2>2, <2>3, InitType DEF AnswerInv
<1>2. AnswerInv /\ [Next]_vars => AnswerInv'
  BY NextType, NextHold, NextAnswers DEF AnswerInv
<1>3. AnswerInv => AnswersCarryIds /\ MemoDecodes
  BY DEF AnswerInv
<1>4. QED
  BY <1>1, <1>2, <1>3, PTL DEF Spec

\* When ids tell requests apart, a call that returned an answer returned the
\* answer to its own request: a line an earlier call left on the channel of a
\* reused worker is never mistaken for it.
THEOREM AnswersMatch ==
  ASSUME IdsTellApart PROVE Spec => []AnswersMatchRequests
<1>1. TypeOK /\ AnswersCarryIds => AnswersMatchRequests
  BY DEF TypeOK, Results, Jobs, AnswersCarryIds, AnswersMatchRequests,
         IdsTellApart
<1>2. QED
  BY <1>1, TypeCorrect, AnswersDecoded, PTL

\* A memo store replays for a request only what answered that request.
THEOREM MemoReplaysOwn == ASSUME IdsTellApart PROVE Spec => []MemoSound
<1>1. TypeOK /\ MemoDecodes => MemoSound
  BY DEF TypeOK, Lines, MemoDecodes, MemoSound, Decodes, IdsTellApart
<1>2. QED
  BY <1>1, TypeCorrect, AnswersDecoded, PTL

=============================================================================
