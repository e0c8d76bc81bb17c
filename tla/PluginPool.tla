------------------------------ MODULE PluginPool ------------------------------
(***************************************************************************)
(* The bounded pool of plugin processes of one plugin kind: `PluginPool`   *)
(* and `PluginWorker` in crates/polyref-checker-spi/src/host.rs, together  *)
(* with the memo store of memo.rs that `call_memoized` reads and fills.    *)
(*                                                                         *)
(* Host threads (Callers) share a mutex-protected PoolInner and a condvar. *)
(* Every critical section of the mutex is one action.  A plugin process is *)
(* an environment actor: it may answer, write lines nobody asked for, exit *)
(* or close a pipe at any moment, and leave a process behind that holds    *)
(* pipes open after it is gone, as far as Faults lets it.                  *)
(***************************************************************************)
EXTENDS Naturals, FiniteSets, Sequences, SequencesExt

CONSTANTS
  Callers,              \* host threads that call the pool
  Workers,              \* identities of plugin processes, reused once reaped
  NoWorker,             \* "this caller holds no PluginWorker"
  Requests,             \* requests whose payload passed encode_request_payload
  BlockingRequests,     \* those longer than what a stdin pipe holds unread
  Ids,                  \* JSON-RPC request ids
  RequestId,            \* the id a caller gave each request
  Modes,                \* {FALSE}: call, {TRUE}: call_memoized, or both
  Faults,               \* what plugins and the OS may do wrong
  MaxProcesses,         \* PluginPoolConfig.max_processes
  QueueBound,           \* PluginPoolConfig.queue_bound
  MaxRequestsPerWorker, \* PluginPoolConfig.max_requests_per_worker
  MaxLines              \* bound: unread lines an unasked plugin may pile up

FaultKinds ==
  {"spawn", "exit", "heir", "closePipe", "junk", "long", "oversized", "extra"}

\* PluginPool::new refuses a zero bound; the rest types the other constants.
ASSUME PoolAssumption ==
  /\ MaxProcesses \in Nat \ {0}
  /\ MaxRequestsPerWorker \in Nat \ {0}
  /\ QueueBound \in Nat
  /\ MaxLines \in Nat
  /\ IsFiniteSet(Callers)
  /\ IsFiniteSet(Workers)
  /\ NoWorker \notin Workers
  /\ Requests # {}
  /\ BlockingRequests \subseteq Requests
  /\ RequestId \in [Requests -> Ids]
  /\ Modes \in {{FALSE}, {TRUE}, BOOLEAN}
  /\ Faults \subseteq FaultKinds

VARIABLES
  pc,         \* where each caller is
  job,        \* the call a caller is making or made last
  result,     \* what that call returned, "none" before it does
  held,       \* the PluginWorker a caller owns
  memo,       \* each caller's PluginMemoStore (passed as &mut: never shared)
  idle,       \* PoolInner.workers, a LIFO Vec
  live_total, \* PoolInner.live_total
  waiting,    \* PoolInner.waiting
  woken,      \* waiters the condvar woke that have not relocked the mutex
  plugin      \* each process with the host's channel and counter for it

inner == <<idle, live_total, waiting, woken>>
thread == <<pc, job, result, held, memo>>
vars == <<thread, inner, plugin>>

-----------------------------------------------------------------------------
(* Values.                                                                 *)

\* One message of the stdout channel: a line the reader thread sent, or the
\* error it sends for a line over the payload limit before it stops.  "junk"
\* is every line decode_response_line refuses whatever the id (framing, JSON,
\* version, shape); "long" a valid one over the memo store's own limit.
Lines == [kind : {"answer", "long", "junk", "oversized"}, of : Requests]

Jobs == [req : Requests, memoized : Modes]

Failures == {"CheckerTimeout", "PluginFailure", "Backpressure"}
Results == [kind : {"none", "answer"} \cup Failures, of : Requests]

\* The pipes of a worker that are still in use: stdin while somebody could
\* read it, stdout and stderr while the host's reader thread for them runs,
\* that is while somebody could write to them.
Pipes == {"stdin", "stdout", "stderr"}

PluginState ==
  [proc : {"none", "running", "exited"}, pipes : SUBSET Pipes,
   inbox : Seq(Requests), lines : Seq(Lines), completed : Nat]

Reaped == [proc |-> "none", pipes |-> {}, inbox |-> <<>>, lines |-> <<>>,
           completed |-> 0]
Spawned == [Reaped EXCEPT !.proc = "running", !.pipes = Pipes]

\* Seeded fault: any well-formed response is taken, whatever its id.
DecodesAnyId(line, r) == line.kind \in {"answer", "long"}

\* decode_response_line: the line is well formed and carries the request's id.
Decodes(line, r) ==
  /\ line.kind \in {"answer", "long"}
  /\ RequestId[line.of] = RequestId[r]

\* PluginMemoStore::insert refuses a response over its limit.
Storable(line) == line.kind # "long"

\* saturating_sub(1)
Pred(n) == IF n = 0 THEN 0 ELSE n - 1

Waiters == {c \in Callers : pc[c] = "wait"}

\* Callers whose call holds one of the MaxProcesses slots.
Serving == {"spawn", "send", "write", "receive", "join", "release", "kill",
            "giveBack"}
SlotHolders == {c \in Callers : pc[c] \in Serving}

-----------------------------------------------------------------------------
(* Starting and finishing a call.                                          *)

\* The call returns `kind` about request `r` to its caller.
Return(c, kind, r) ==
  /\ pc' = [pc EXCEPT ![c] = "idle"]
  /\ result' = [result EXCEPT ![c] = [kind |-> kind, of |-> r]]

MemoHit(c, j) == j.memoized /\ memo[c][j.req] # {}

\* call / call_memoized up to acquire_worker.  A memo hit is decoded and
\* returned without touching the pool.
BeginCall(c) ==
  /\ pc[c] = "idle"
  /\ \E j \in Jobs :
       /\ job' = [job EXCEPT ![c] = j]
       /\ \/ /\ MemoHit(c, j)
             /\ \E line \in memo[c][j.req] :
                  IF Decodes(line, j.req)
                  THEN Return(c, "answer", line.of)
                  ELSE Return(c, "PluginFailure", j.req)
          \/ /\ ~MemoHit(c, j)
             /\ pc' = [pc EXCEPT ![c] = "acquire"]
             /\ result' = [result EXCEPT ![c] = [kind |-> "none", of |-> j.req]]
  /\ UNCHANGED <<held, memo, inner, plugin>>

-----------------------------------------------------------------------------
(* acquire_worker: one pass of its loop under the mutex.  A caller enters  *)
(* it fresh, or again when the condvar wakes it, and then first takes      *)
(* itself off the waiting count.                                           *)

Contends(c) == pc[c] = "acquire" \/ (pc[c] = "wait" /\ c \in woken)

StillWaiting(c) == IF pc[c] = "wait" THEN Pred(waiting) ELSE waiting

\* Seeded faults: both bounds off by one.
SlotFreeOffByOne == live_total <= MaxProcesses
QueueFullOffByOne(queued) == queued > QueueBound

SlotFree == live_total < MaxProcesses
QueueFull(queued) == queued >= QueueBound

\* Seeded fault: nobody is notified.
NotifyNobody == woken' = woken

\* Condvar::notify_one: some sleeping waiter, if there is one, is woken.
NotifyOne ==
  IF Waiters \ woken = {}
  THEN woken' = woken
  ELSE \E x \in Waiters \ woken : woken' = woken \cup {x}

TakeIdle(c) ==
  /\ Contends(c)
  /\ idle # <<>>
  /\ held' = [held EXCEPT ![c] = Last(idle)]
  /\ idle' = Front(idle)
  /\ waiting' = StillWaiting(c)
  /\ woken' = woken \ {c}
  /\ pc' = [pc EXCEPT ![c] = "send"]
  /\ UNCHANGED <<job, result, memo, live_total, plugin>>

ReserveSlot(c) ==
  /\ Contends(c)
  /\ idle = <<>>
  /\ SlotFree
  /\ live_total' = live_total + 1
  /\ waiting' = StillWaiting(c)
  /\ woken' = woken \ {c}
  /\ pc' = [pc EXCEPT ![c] = "spawn"]
  /\ UNCHANGED <<job, result, held, memo, idle, plugin>>

\* Seeded fault: the queue bound is tested before the slots are.
RefuseFirst(c) ==
  /\ Contends(c)
  /\ QueueFull(StillWaiting(c))
  /\ waiting' = StillWaiting(c)
  /\ woken' = woken \ {c}
  /\ Return(c, "Backpressure", job[c].req)
  /\ UNCHANGED <<job, held, memo, idle, live_total, plugin>>

Refuse(c) ==
  /\ Contends(c)
  /\ idle = <<>>
  /\ ~SlotFree
  /\ QueueFull(StillWaiting(c))
  /\ waiting' = StillWaiting(c)
  /\ woken' = woken \ {c}
  /\ Return(c, "Backpressure", job[c].req)
  /\ UNCHANGED <<job, held, memo, idle, live_total, plugin>>

Sleep(c) ==
  /\ Contends(c)
  /\ idle = <<>>
  /\ ~SlotFree
  /\ ~QueueFull(StillWaiting(c))
  /\ waiting' = StillWaiting(c) + 1
  /\ woken' = woken \ {c}
  /\ pc' = [pc EXCEPT ![c] = "wait"]
  /\ UNCHANGED <<job, result, held, memo, idle, live_total, plugin>>

\* Condvar::wait may return without a notification.
SpuriousWake(c) ==
  /\ pc[c] = "wait"
  /\ c \notin woken
  /\ woken' = woken \cup {c}
  /\ UNCHANGED <<thread, idle, live_total, waiting, plugin>>

Acquire(c) == TakeIdle(c) \/ ReserveSlot(c) \/ Refuse(c) \/ Sleep(c)

-----------------------------------------------------------------------------
(* PluginWorker::spawn, outside the mutex, in the slot just reserved.      *)

SpawnWorker(c) ==
  /\ pc[c] = "spawn"
  /\ \E w \in Workers :
       /\ plugin[w].proc = "none"
       /\ plugin' = [plugin EXCEPT ![w] = Spawned]
       /\ held' = [held EXCEPT ![c] = w]
  /\ pc' = [pc EXCEPT ![c] = "send"]
  /\ UNCHANGED <<job, result, memo, inner>>

\* Seeded fault: the slot is given back without a notification.
SpawnFailsSilently(c) ==
  /\ pc[c] = "spawn"
  /\ "spawn" \in Faults
  /\ live_total' = Pred(live_total)
  /\ Return(c, "PluginFailure", job[c].req)
  /\ UNCHANGED <<job, held, memo, idle, waiting, woken, plugin>>

\* worker_spawn_failed gives the slot back.
SpawnFails(c) ==
  /\ pc[c] = "spawn"
  /\ "spawn" \in Faults
  /\ live_total' = Pred(live_total)
  /\ NotifyOne
  /\ Return(c, "PluginFailure", job[c].req)
  /\ UNCHANGED <<job, held, memo, idle, waiting, plugin>>

-----------------------------------------------------------------------------
(* PluginWorker::call_raw and the decoding of its answer.                  *)

\* The call failed with a live PluginWorker in hand: drop_worker comes next.
FailCall(c, kind) ==
  /\ pc' = [pc EXCEPT ![c] = "kill"]
  /\ result' = [result EXCEPT ![c] = [kind |-> kind, of |-> job[c].req]]

Running(w) == plugin[w].proc = "running"

PipeOpen(w, pipe) == pipe \in plugin[w].pipes

\* try_wait finds the process running ...
StillAlive(c) ==
  /\ pc[c] = "send"
  /\ Running(held[c])
  /\ pc' = [pc EXCEPT ![c] = "write"]
  /\ UNCHANGED <<job, result, held, memo, inner, plugin>>

\* ... or gone: the error says how long its stderr was, and waits for it.
SendFails(c) ==
  /\ pc[c] = "send"
  /\ ~Running(held[c])
  /\ pc' = [pc EXCEPT ![c] = "join"]
  /\ UNCHANGED <<job, result, held, memo, inner, plugin>>

\* write_all and flush.  There is no deadline on them: a request longer than
\* the pipe holds is only written when somebody reads it (see Fairness).
Write(c) ==
  /\ pc[c] = "write"
  /\ PipeOpen(held[c], "stdin")
  /\ plugin' = [plugin EXCEPT ![held[c]].inbox = Append(@, job[c].req)]
  /\ pc' = [pc EXCEPT ![c] = "receive"]
  /\ UNCHANGED <<job, result, held, memo, inner>>

\* The write hits a broken pipe: the process exited since, or closed its
\* stdin and lives on.  `?` leaves without asking for stderr.
BrokenPipe(c) ==
  /\ pc[c] = "write"
  /\ ~PipeOpen(held[c], "stdin")
  /\ FailCall(c, "PluginFailure")
  /\ UNCHANGED <<job, held, memo, inner, plugin>>

NextLine(c) == Head(plugin[held[c]].lines)

\* recv_timeout returned a message: it is off the channel, and counted as a
\* completed request when it is a line.
Received(c) ==
  /\ pc[c] = "receive"
  /\ plugin[held[c]].lines # <<>>

Popped(c) ==
  [plugin[held[c]] EXCEPT !.lines = Tail(@),
     !.completed = IF NextLine(c).kind = "oversized" THEN @ ELSE @ + 1]

\* The memo accepts the answer, or this is a plain call with no memo.
Keeps(c) == job[c].memoized => Storable(NextLine(c))

ReceiveAnswer(c) ==
  /\ Received(c)
  /\ Decodes(NextLine(c), job[c].req)
  /\ Keeps(c)
  /\ plugin' = [plugin EXCEPT ![held[c]] = Popped(c)]
  /\ memo' = IF job[c].memoized
             THEN [memo EXCEPT ![c][job[c].req] = {NextLine(c)}]
             ELSE memo
  /\ result' = [result EXCEPT
                  ![c] = [kind |-> "answer", of |-> NextLine(c).of]]
  /\ pc' = [pc EXCEPT ![c] = "release"]
  /\ UNCHANGED <<job, held, inner>>

\* call: every failed answer ends in drop_worker.  call_memoized gets there
\* only when call_raw itself failed, on the reader thread's error.
ReceiveError(c) ==
  /\ Received(c)
  /\ \/ NextLine(c).kind = "oversized"
     \/ ~job[c].memoized /\ ~Decodes(NextLine(c), job[c].req)
  /\ plugin' = [plugin EXCEPT ![held[c]] = Popped(c)]
  /\ FailCall(c, "PluginFailure")
  /\ UNCHANGED <<job, held, memo, inner>>

\* Seeded faults: a PluginWorker without Drop; the response is stored before
\* it is decoded.
AbandonWorkerUnreaped(c) ==
  /\ Received(c)
  /\ job[c].memoized
  /\ NextLine(c).kind # "oversized"
  /\ ~(Decodes(NextLine(c), job[c].req) /\ Keeps(c))
  /\ plugin' = [plugin EXCEPT ![held[c]] = Popped(c)]
  /\ held' = [held EXCEPT ![c] = NoWorker]
  /\ Return(c, "PluginFailure", job[c].req)
  /\ UNCHANGED <<job, memo, inner>>

AbandonWorkerStored(c) ==
  /\ Received(c)
  /\ job[c].memoized
  /\ NextLine(c).kind # "oversized"
  /\ ~(Decodes(NextLine(c), job[c].req) /\ Keeps(c))
  /\ plugin' = [plugin EXCEPT ![held[c]] = Reaped]
  /\ held' = [held EXCEPT ![c] = NoWorker]
  /\ memo' = [memo EXCEPT ![c][job[c].req] = {NextLine(c)}]
  /\ Return(c, "PluginFailure", job[c].req)
  /\ UNCHANGED <<job, inner>>

\* call_memoized leaves by `?` when the answer does not decode or the memo
\* refuses it.  Drop kills the process; live_total keeps counting it and
\* nobody is notified.
AbandonWorker(c) ==
  /\ Received(c)
  /\ job[c].memoized
  /\ NextLine(c).kind # "oversized"
  /\ ~(Decodes(NextLine(c), job[c].req) /\ Keeps(c))
  /\ plugin' = [plugin EXCEPT ![held[c]] = Reaped]
  /\ held' = [held EXCEPT ![c] = NoWorker]
  /\ Return(c, "PluginFailure", job[c].req)
  /\ UNCHANGED <<job, memo, inner>>

\* What a process that dies leaves behind: no open pipe, unless another
\* process inherited some of them.
Remains(w) ==
  {[plugin[w] EXCEPT !.proc = "exited", !.pipes = kept] :
     kept \in IF "heir" \in Faults THEN SUBSET plugin[w].pipes ELSE {{}}}

\* The deadline passed with nothing on the channel: the process is killed.
TimeOut(c) ==
  /\ pc[c] = "receive"
  /\ plugin[held[c]].lines = <<>>
  /\ \E dead \in Remains(held[c]) :
       plugin' = [plugin EXCEPT ![held[c]] = dead]
  /\ FailCall(c, "CheckerTimeout")
  /\ UNCHANGED <<job, held, memo, inner>>

\* The reader thread is gone: nobody can write to stdout any more.
Disconnected(c) ==
  /\ pc[c] = "receive"
  /\ plugin[held[c]].lines = <<>>
  /\ ~PipeOpen(held[c], "stdout")
  /\ pc' = [pc EXCEPT ![c] = "join"]
  /\ UNCHANGED <<job, result, held, memo, inner, plugin>>

\* stderr_len joins the stderr reader, without a deadline: it ends at its cap
\* or when nobody holds stderr open, which the exit of the process alone does
\* not bring about.
JoinStderr(c) ==
  /\ pc[c] = "join"
  /\ ~PipeOpen(held[c], "stderr")
  /\ FailCall(c, "PluginFailure")
  /\ UNCHANGED <<job, held, memo, inner, plugin>>

Receive(c) ==
  \/ ReceiveAnswer(c)
  \/ ReceiveError(c)
  \/ AbandonWorker(c)
  \/ TimeOut(c)
  \/ Disconnected(c)

-----------------------------------------------------------------------------
(* Giving the worker or its slot back.                                     *)

WornOut(w) == plugin[w].completed >= MaxRequestsPerWorker

\* release_worker
Release(c) ==
  /\ pc[c] = "release"
  /\ ~WornOut(held[c])
  /\ idle' = Append(idle, held[c])
  /\ NotifyOne
  /\ held' = [held EXCEPT ![c] = NoWorker]
  /\ pc' = [pc EXCEPT ![c] = "idle"]
  /\ UNCHANGED <<job, result, memo, live_total, waiting, plugin>>

\* Seeded fault: the slot is given back here and by drop_worker again.
RecycleGivesBackTwice(c) ==
  /\ pc[c] = "release"
  /\ WornOut(held[c])
  /\ live_total' = Pred(live_total)
  /\ pc' = [pc EXCEPT ![c] = "kill"]
  /\ UNCHANGED <<job, result, held, memo, idle, waiting, woken, plugin>>

\* release_or_recycle_worker turns to drop_worker.
Recycle(c) ==
  /\ pc[c] = "release"
  /\ WornOut(held[c])
  /\ pc' = [pc EXCEPT ![c] = "kill"]
  /\ UNCHANGED <<job, result, held, memo, inner, plugin>>

\* drop_worker: kill_and_wait before the mutex is taken ...
Kill(c) ==
  /\ pc[c] = "kill"
  /\ plugin' = [plugin EXCEPT ![held[c]] = Reaped]
  /\ held' = [held EXCEPT ![c] = NoWorker]
  /\ pc' = [pc EXCEPT ![c] = "giveBack"]
  /\ UNCHANGED <<job, result, memo, inner>>

\* Seeded fault: the process is killed and live_total keeps counting it.
GiveBackForgotten(c) ==
  /\ pc[c] = "giveBack"
  /\ NotifyOne
  /\ pc' = [pc EXCEPT ![c] = "idle"]
  /\ UNCHANGED <<job, result, held, memo, idle, live_total, waiting,
                 plugin>>

\* ... then the slot is given back under it.
GiveBack(c) ==
  /\ pc[c] = "giveBack"
  /\ live_total' = Pred(live_total)
  /\ NotifyOne
  /\ pc' = [pc EXCEPT ![c] = "idle"]
  /\ UNCHANGED <<job, result, held, memo, idle, waiting, plugin>>

Settle(c) == Release(c) \/ Recycle(c) \/ Kill(c) \/ GiveBack(c)

-----------------------------------------------------------------------------
(* The plugin processes.                                                   *)

\* A line over the payload limit ends the reader thread of stdout.
Writes(w, line) ==
  [plugin[w] EXCEPT !.lines = Append(@, line),
     !.pipes = IF line.kind = "oversized" THEN @ \ {"stdout"} ELSE @]

\* The plugin, or what it left behind, answers the oldest request written to
\* it, well or badly.
Answer(w) ==
  /\ PipeOpen(w, "stdout")
  /\ plugin[w].inbox # <<>>
  /\ \E kind \in {"answer"} \cup (Faults \cap {"junk", "long", "oversized"}) :
       LET line == [kind |-> kind, of |-> Head(plugin[w].inbox)]
       IN plugin' = [plugin EXCEPT
                       ![w] = [Writes(w, line) EXCEPT !.inbox = Tail(@)]]
  /\ UNCHANGED <<thread, inner>>

\* With nothing to do it writes a line nobody asked for.
ExtraLine(w) ==
  /\ "extra" \in Faults
  /\ PipeOpen(w, "stdout")
  /\ plugin[w].inbox = <<>>
  /\ Len(plugin[w].lines) < MaxLines
  /\ \E r \in Requests :
       plugin' = [plugin EXCEPT
                    ![w] = Writes(w, [kind |-> "answer", of |-> r])]
  /\ UNCHANGED <<thread, inner>>

Exit(w) ==
  /\ "exit" \in Faults
  /\ Running(w)
  /\ \E dead \in Remains(w) : plugin' = [plugin EXCEPT ![w] = dead]
  /\ UNCHANGED <<thread, inner>>

\* A pipe is closed, by the plugin or by the last one it left it to, or the
\* stderr reader reaches its cap.
ClosePipe(w) ==
  /\ "closePipe" \in Faults
  /\ \E pipe \in plugin[w].pipes :
       plugin' = [plugin EXCEPT ![w].pipes = @ \ {pipe}]
  /\ UNCHANGED <<thread, inner>>

PluginStep(w) == Answer(w) \/ ExtraLine(w) \/ Exit(w) \/ ClosePipe(w)

-----------------------------------------------------------------------------
(* The specification.                                                      *)

Init ==
  /\ pc = [c \in Callers |-> "idle"]
  /\ job = [c \in Callers |-> CHOOSE j \in Jobs : TRUE]
  /\ result = [c \in Callers |-> [kind |-> "none", of |-> job[c].req]]
  /\ held = [c \in Callers |-> NoWorker]
  /\ memo = [c \in Callers |-> [r \in Requests |-> {}]]
  /\ idle = <<>>
  /\ live_total = 0
  /\ waiting = 0
  /\ woken = {}
  /\ plugin = [w \in Workers |-> Reaped]

HostStep(c) ==
  \/ Acquire(c)
  \/ SpawnWorker(c)
  \/ SpawnFails(c)
  \/ StillAlive(c)
  \/ SendFails(c)
  \/ Write(c)
  \/ BrokenPipe(c)
  \/ Receive(c)
  \/ JoinStderr(c)
  \/ Settle(c)

Next ==
  \/ \E c \in Callers : BeginCall(c) \/ HostStep(c) \/ SpuriousWake(c)
  \/ \E w \in Workers : PluginStep(w)

\* A call that only others can end, and need not: the request it writes fills
\* the pipe and nobody reads it, or it waits for a stderr somebody holds open.
Hung(c) ==
  \/ /\ pc[c] = "write"
     /\ job[c].req \in BlockingRequests
     /\ PipeOpen(held[c], "stdin")
  \/ /\ pc[c] = "join"
     /\ PipeOpen(held[c], "stderr")

\* The OS schedules every host thread: a step that needs only the host is
\* eventually taken.  Nothing more: neither the mutex nor the condvar serves
\* in order, callers may call for ever or not at all, a plugin need not do
\* anything (so a write that overflows the pipe is no fair step), and a
\* spurious wake-up need never come.
FairStep(c) == HostStep(c) /\ ~Hung(c)

Fairness == \A c \in Callers : WF_vars(FairStep(c))

Spec == Init /\ [][Next]_vars
FairSpec == Spec /\ Fairness

-----------------------------------------------------------------------------
(* What the pool must guarantee.                                           *)

TypeOK ==
  /\ pc \in [Callers -> {"idle", "acquire", "wait"} \cup Serving]
  /\ job \in [Callers -> Jobs]
  /\ result \in [Callers -> Results]
  /\ held \in [Callers -> Workers \cup {NoWorker}]
  /\ memo \in [Callers -> [Requests -> SUBSET Lines]]
  /\ idle \in Seq(Workers)
  /\ live_total \in Nat
  /\ waiting \in Nat
  /\ woken \subseteq Callers
  /\ plugin \in [Workers -> PluginState]

\* live_total, read and written in five critical sections of different calls,
\* never says less than the slots in use (idle workers and calls that hold
\* one) and never passes max_processes: the pool is not oversold.
SlotsNotOversold ==
  /\ Len(idle) + Cardinality(SlotHolders) <= live_total
  /\ live_total <= MaxProcesses

\* The other direction: no slot is lost.  It holds for plain calls only (see
\* AbandonWorker), so only runs without memoized calls check it.
SlotsAccounted == live_total = Len(idle) + Cardinality(SlotHolders)

\* "the maximum number of concurrent plugin process calls": never more than
\* max_processes plugin processes exist, those being killed included.
ProcessesBounded ==
  Cardinality({w \in Workers : plugin[w].proc # "none"}) <= MaxProcesses

\* waiting, decremented by the waiter only after it relocks the mutex, counts
\* exactly the calls queued and respects queue_bound through every barging
\* call and spurious wake-up.
QueueBounded ==
  /\ waiting = Cardinality(Waiters)
  /\ waiting <= QueueBound

\* No process is left behind: one that has not been reaped belongs to a call
\* or to the idle stack, whichever way the call that used it ended.
NoOrphans ==
  \A w \in Workers : plugin[w].proc # "none" =>
    \/ \E c \in Callers : held[c] = w
    \/ \E i \in DOMAIN idle : idle[i] = w

\* No wake-up is lost: while some waiter still sleeps, every idle worker and
\* every free slot has a woken waiter on its way to it.  notify_one is sent
\* once per worker or slot given back, and a barging caller may take what a
\* woken waiter was woken for.
NoLostWakeup ==
  Waiters \ woken # {} =>
    Len(idle) + (MaxProcesses - live_total) <= Cardinality(woken)

\* When ids tell requests apart, a call that returned an answer returned the
\* answer to its own request, whatever lines other calls left on the channel
\* of the worker it got and whatever its memo store replayed.
AnswersMatchRequests ==
  \A c \in Callers :
    pc[c] \in {"idle", "release"} /\ result[c].kind = "answer" =>
      result[c].of = job[c].req

\* A memo store never replays a response that does not decode for its key.
MemoSound ==
  \A c \in Callers, r \in Requests : \A line \in memo[c][r] :
    Decodes(line, r) /\ line.of = r

\* A call admitted to the queue is never refused afterwards: it leaves the
\* queue with a worker or with a slot, however often it has to wait again
\* because other calls overtook it.
WaitersAreServed ==
  [][\A c \in Callers :
       pc[c] = "wait" => pc'[c] \in {"wait", "send", "spawn"}]_vars

\* The pool implements admission control over its slots: a call waits or is
\* refused only when max_processes other calls hold one.  A slot is in service
\* from the moment acquire_worker grants it until the worker is back on the
\* idle stack or off live_total.  For plain calls only, like SlotsAccounted.
Phase(c) ==
  IF pc[c] \in Serving THEN "served"
  ELSE IF pc[c] = "wait" THEN "queued"
  ELSE IF pc[c] = "acquire" THEN "asking"
  ELSE "out"

Admission == INSTANCE AdmissionControl
  WITH phase <- [c \in Callers |-> Phase(c)]

ImplementsAdmission == Admission!Spec

\* The call of d gets an idle worker or a slot.
Admitted(d) == pc[d] \notin Serving /\ pc'[d] \in Serving

\* Nobody waits for ever on a plugin, a join or a wake-up.  A call that was
\* given a worker or a slot returns, however many other calls compete; a call
\* that was not returns too unless others are admitted in its stead again and
\* again, for which neither std::sync::Mutex nor Condvar gives it a claim.
\* Nothing is promised when some call is Hung for ever: the slot it holds
\* may be the only one.
ReturnsUnlessOvertaken ==
  \/ \E c \in Callers : <>[]Hung(c)
  \/ \A c \in Callers :
       /\ pc[c] \in Serving ~> pc[c] = "idle"
       /\ \/ []<>(pc[c] = "idle")
          \/ []<><<\E d \in Callers \ {c} : Admitted(d)>>_vars

=============================================================================
