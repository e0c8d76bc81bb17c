# A TLA+ verification of polyRef

polyRef decides whether a candidate migration of a polyglot repository keeps its
observations: it loads the old and the patched tree, extracts a graph of
artifacts, entities, correspondences and build edges, computes which of them an
edit affects for each observation, asks checker plugins about those, and
assembles a fail-closed report.  This directory models the parts of it where
order, failure, capacity and concurrency decide whether it is right, checks them
with TLC on small instances and proves the main invariants for every instance
with TLAPS.

Paths below are relative to the repository; `host.rs` is
`crates/polyref-checker-spi/src/host.rs`.

## 1. The system

### Components

| Component | State | Operations | Hard behaviour | What makes it correct |
| --- | --- | --- | --- | --- |
| Plugin pool (`host.rs`: `PluginPool`, `PluginWorker`) | `workers` (LIFO), `live_total`, `waiting` under a mutex and a condvar; one channel and two reader threads per process | `call`, `call_memoized`, acquire / release / recycle / drop | barging callers, spurious wake-ups, failures between reserving a slot and giving it back, stale lines on a reused channel | never more than `max_processes` processes, no slot lost, no wake-up lost, the queue bounded, every call given a worker or slot returns, an answer belongs to its request |
| Plugin memo store (`memo.rs`) | map from key to response bytes | `get`, `insert` | responses stored before or after they are validated | a replayed response decodes for its key |
| Single call (`host.rs`: `run_plugin_request_line`) | two pipes, a reader thread, a child, a deadline | one request, one answer | pipe capacity, exit / end of file / deadline races | bounded time, no truncated answer, no process left after an overrun |
| Audit log (`polyref-graph/src/audit`) | `audit.ndjson`, a `BufWriter` per writer | `append`, drop, reopen, read | torn lines, leftovers after a failed flush, writers side by side | a tear costs at most the line it tears |
| Report store (`report_store.rs`) | the run directory | `create_run`, `append_audit_event`, atomic writes | crash between files | see replay |
| Loader replay (`polyref-loader/src/replay.rs`, `checkout.rs`, `manifest.rs`) | `workspace/old`, `workspace/new`, `candidate.patch`, two manifests, the log | `replay_patch` | any of some fourteen disk writes fails, or the process dies between two; a second replay over what is there | the log never vouches for what the disk does not hold |
| Sandbox (`sandbox.rs`) | none | builds a profile, runs a backend | — | only its outcome matters to the replay |
| Graph store (`store.rs`) | SQLite tables for artifacts, entities, correspondences, build edges, observations, runs | upserts, lists | lists are separate queries; multi-row saves; an entity saved again moves to another artifact | foreign keys; a correspondence whole or not at all |
| Extractors (`plugins/extractor-openapi`, `extractor-typescript`) | none | one file, one answer | remote references behind cycles, dynamic routes, shadowed handlers | everything not understood is declared; the builder accepts what they emit |
| Graph builder (`builder.rs`) | two tables of facts for one build | extractor bundles to rows | a bad fact in a later bundle after earlier rows were saved; facts that disagree across files; the build run again | correspondences backed by both their facts, on one side; a failed build leaves a prefix a retry completes |
| Migration map builder (`migration_map.rs`) | none of its own | candidates to rewrites | conflicting, vague, ill-kinded candidates | no doubtful rewrite in mu, no silent omission |
| Observation registry (`observation_registry.rs`) | observation rows | a batch of specs to rows | rows saved between its two lists, a batch cut short, repeated ids | stored support exists; a row stored as undefined blocks acceptance unless its batch failed |
| Blob store (`blobstore/`) | content-addressed files, counters | `put`, `get`, `contains` | racing puts of one content by threads and processes, failing and interrupted file operations | a map from digests to contents, never half written; counters add up |
| Frontier (`polyref-frontier/src/closure.rs`) | none (indexes of the listed rows) | `compute_frontier` | cyclic graphs, worklist order, rows saved during the load | the frontier is required(o) as the code has it, and holds all affected support |
| Coverage risk (`coverage_risk.rs`) and obligations (`polyref-engine/src/obligation.rs`) | none | diagnostics to risks; frontier items to obligations | the graph read again after the frontier; two functions that sift the same diagnostics | nothing unvalidated is accepted |
| Report assembly (`polyref-core/src/report.rs`) | none | `assemble` | statuses and flags a caller got wrong; held-out observations | fail-closed decision |
| Route checker (`plugins/checker-route`) | none | `describe`, `check` | the order of its verdicts, the excerpt of mu | Migrated only with sound targets for both ends; no reason it did not announce |
| Identifiers, canonical JSON, isolation profiles, schemas | none | parse and print | — | string functions, covered by unit tests |

### How they interact

The loader fills a run directory and logs to it through the report store.  The
builder writes extractor facts into the graph store; the migration-map builder
and the registry read and extend it; the frontier lists it, obligation
generation lists it again, and nothing holds a lock or a transaction across two
of these.  The steps are library functions: the caller that strings them
together (Layer 6 in `docs/architecture.md`) is not in the repository yet.
Checkers are plugin processes: every call goes through the pool, or through the single-call
primitive that `run_plugin_call` exposes.  Threads share only the pool's mutex,
the store's connection mutex and the files of a run directory.

## 2. What is modelled, module by module

A variable, action or operator has the name of the field, function or method it
stands for wherever TLA+ allows it, and `PROJECT.json` ("map") gives the lines.
Definitions whose comment begins with "Seeded fault" are not part of any
specification: each is the plausible bug by which a property is shown to be
able to fail.

### `PluginPool` (with `MCPluginPool`, `PluginPoolProofs`)

Callers are host threads, Workers identities of plugin processes.  `inner` is
`PoolInner` with the condvar's set of woken waiters; `pc` is where a thread is
between its critical sections.  Each pass of `acquire_worker`'s loop under the
mutex is one action (`TakeIdle`, `ReserveSlot`, `Refuse`, `Sleep`);
`Condvar::wait` may wake without a notification (`SpuriousWake`); everything
outside the mutex — spawn, write, receive, kill — is an action of its own, so
that other threads run in between.  `drop_worker` is two: `Kill` before the
mutex, `GiveBack` under it.  `call_memoized`'s `?` exits are `AbandonWorker`.

A plugin process is an environment actor: it may answer the oldest request it
was written, well or badly, write a line nobody asked for, exit, close any of
its pipes, or leave a process behind that holds some of them open after it is
gone (`Remains`) and writes on, as far as the constant `Faults` lets it.
`pipes` has the pipes of a worker that are still in use; a reader thread ends,
and its join with it, when its pipe leaves that set.  `call_raw` is taken apart
accordingly: `try_wait` (`StillAlive`, `SendFails`), the write (`Write`,
`BrokenPipe`), the channel (`Receive`), and the join of the stderr reader that
two of its exits make without a deadline (`JoinStderr`).  The bytes
of a line are abstracted to what `decode_response_line`, the reader thread and
the memo store tell apart: `answer`, `long` (valid, but over the memo's limit),
`junk`, `oversized`.  Callers call without end; nothing bounds their number of
calls.

### `AdmissionControl`

The abstract specification of a pool: a call is served, made to wait or turned
away, the latter two only when every slot serves another call, the last only
when the queue is full too, and never once queued.  `PluginPool` implements it
under the mapping `phase <- Phase(c)`; `ImplementsAdmission` is that statement.

### `PluginCall` (with `PluginCallProofs`)

`run_plugin_request_line`: the write of the request, the two polls of the
deadline loop, kill, join and the verdict; `read_capped` in its thread; the
plugin with two pipes of `PipeCapacity` units.  Time is abstracted to "the
deadline may pass at any poll".  The plugin may close either pipe early
(`listening`, `speaking`), and may start a process that inherits its stdout and
outlives it (`heir`): end of file is when neither holds the pipe.  `Liberties`
says which of this a run allows.  stderr's reader, the same code, is left out.

### `AuditLog` (with `AuditLogProofs`)

A line is three pieces — a proper prefix of the object, its end, the newline —
because cuts at these places are what the reader tells apart.  `AppendEvent`,
`Write`, `Flushed`, `FlushFails` are `AuditWriter::append` with `BufWriter`'s
flush; `Drop` / `Reopen` / `DropFails` are `append_audit_event`'s writer going
out of scope; `Crash` is the death of the process.  `LineAt` and `ReadBack` are
what `AuditReader` yields: a place of the file is a line it accepts or not, and
an accepted line is its event.

### `ReplayRun` (with `MCReplayRun`, `ReplayRunProofs`)

The variables are the files of a run directory.  Each disk write of
`replay_patch` is one action, and `Fail` lets every step return early with
nothing undone; a crash needs no action because the disk it leaves is the disk
of some reachable state.  The caller may replay again, with another patch or
commit, into what is there.

### `Frontier` (with `MCFrontier`, `FrontierProofs`)

The four tables as sets of rows; the writer's four saves with their foreign
keys; `GraphIndexes::load` as four steps, since each list query takes the
connection's lock for itself; then `compute_frontier` with each turn of its
worklists as an action in any order.  The alternation of the two loops of
`reachable_items` and its `added` flag are part of that abstraction: they fix
an order, and the model allows every order.  `Required` says by least closed
sets, without worklists, what the code's comments (`closure.rs:369-375`) call
required(o); `Affected` is the support in the affected frontier as
`docs/architecture.md:44-48` defines it, from the paths of that text.
`FrontierExact` relates the result to both.  It does not claim the document's
required(o), which is larger: see "What the modelling met besides".  The ids of
correspondences and edges carry a digest of what they name, so that saving such
a row again is a rewrite with itself and no action.  An entity's id does not: saving it again may
move it to another artifact (`Moves`, counted in `moves`), and the two
properties about races speak of loads without a move.

### `BlobStore`, `BlobMap` (with `MCBlobStore`, `BlobStoreProofs`)

One step per file operation of `FsBlobStore` (`exists`, the temporary file's
creation and filling, `persist_noclobber`, the second `exists`, `read`) and per
counter, for threads of several processes on one directory.  Each may fail, and
a process may die between any two: its temporary file stays, its counters go.
`Path::exists` answers "no" to a file it cannot look at, and so does its action.
`BlobMap` is what the trait promises: a map that only grows, whose calls take
effect at one instant between call and return.  `BlobStore` implements it under
`stored <- {k : blob[k] = "whole"}`; the instant of a put is finding the file or
making it.

### `Extract`, `GraphStore`, `GraphIngest` (with `MCGraphIngest`, `GraphIngestProofs`)

`Extract` is what the two extractor plugins make of a file, as operators: its
entities, facts, unsupported features and refusals, from documents already
scanned into operations, references, declarators and exports.  `GraphStore` is
the tables a build writes with the statements on them; a statement whose foreign
key fails is not allowed.  `GraphIngest` is `build_extractor_graph`: each row
saved for itself, facts collected under their keys, then each correspondence in
a transaction of four statements.  Any save may fail (`Stop`), and the caller
may build again from the same bundles or others; some bundles are those of a
plugin that is not in the tree and answers badly.

### `Ids`, `MigrationMap`, `RouteCheck`, `Coverage`, `Acceptance` (with `MCAcceptance`, `AcceptanceProofs`)

`MigrationMap`, `RouteCheck` and `Coverage` are pure functions of the code as
operators: `build_migration_map` with `try_new`; `check_route`;
`classify_coverage_risk`, `generate_obligations` and the pre-check Unknowns.
`Ids` is what they read off an id.  `Acceptance` composes them into the judging
of one candidate: `register_observations` (two lists, then a save per spec, each
of which may fail), mu, then for each observation frontier, risks, obligations
and a row of the report, and `assemble`.  Every step reads the graph for itself
and a writer saves rows in between.  The frontier's contents are the subject of
`Frontier`; here `ComputeFrontier` may yield any items of the graph, with the
diagnostics they entail.

The caller is not in the repository.  `Choose`, `Request`, `Verdict`, `Status`,
`Conclude`, `Again` and `GoOn` stand for it and are marked external; `Conclude`
may give any status, right or wrong, and `Submit` any `missing_endpoint_unknown`,
because `assemble` is written to distrust them.  `right` remembers whether the
status was the one `docs/architecture.md` defines.

## 3. What the runs check

| Run | Question | Bounds and why they are enough |
| --- | --- | --- |
| `PoolContention` | no slot lost or oversold, at most `max_processes` processes, the queue counted and bounded, a queued call never refused, `AdmissionControl` implemented | 4 callers that call without end, 2 slots, queue of 1, 3 process identities: two served, one queued, one turned away at the same time, and one identity more than slots so that a third process would be seen |
| `PoolProtocol` | answers match requests, memo sound, no orphan, never oversold | 2 callers on one worker, two requests, plain and memoized calls, every plugin fault: enough for one call's leftovers, or those of a process left behind, to meet the next call |
| `PoolLiveness` | every call given a worker or slot returns, the others unless overtaken again and again; no notification wasted | 3 callers that call without end, 1 slot, queue of 2: two sleepers at once with a third that barges, for ever if it likes; a request longer than the pipe, and every fault that can make a call wait; no symmetry (liveness) |
| `PoolLostSlot` (violation) | do calls return, unless overtaken, when memoized answers may be malformed? | 2 callers, 1 slot |
| `CallDeadline` | bounded time, answers whole, overruns killed | request of exactly the pipe's capacity; outputs from nothing to twice the limit, so below, at and past the cap, by the plugin or a process it leaves behind |
| `CallPipeDeadlock` (violation) | does a call return for a longer request and a plugin that streams? | pipes of 2, request of 6: both pipes and the unit in the plugin's hand are full with one to go |
| `AuditAppends` | order per writer, loss bounded by tears, none lost while writes are whole | 2 writers, symmetric in their actions, 4 events, 2 failures or crashes, short writes: a leftover, a tear and the lines that follow, from the same writer or the other |
| `ReplayRerun` | the log vouches for the directory, its grammar, verdicts backed | 3 replays of 2 patches on 2 commits, symmetric: a success, a denial and a failure in every order over each other's files |
| `FrontierLoad` | the worklists give required(o) as the code has it, all affected support is in it, race harmless, idempotent, diagnostics only from the race | every graph of 3 artifacts, 2 entities, a correspondence and 2 edges (chains, cycles, self-loops), one edited artifact, one rewritten entity, a correspondence and an edge as support; two rows saved during the load, so that one may name the other, which was not listed; symmetric in the artifacts not edited |
| `BlobRaces` | the store is a map; counters exact; nothing half written | 3 threads in 2 processes, 2 contents, 4 calls, 2 failures or crashes: three puts of one content at once with a get, within and between processes |
| `GraphIngest` | a failed build leaves a prefix; a retry converges; correspondences whole, justified, of one side; extractors and builder agree; remote references noted | 17 inputs of 14 files and 6 answers of another plugin: agreeing, conflicting, duplicated, dynamic, shadowed, each kind of refusal; 2 builds, one of them cut anywhere |
| `Acceptance` | from registration to report nothing dropped or doubted is lost | a route and its handler on both sides, 4 batches (missing, repeated, unsupported, invalid, re-registered), 6 sets of candidates (good, partial, conflicting, vague, ill-kinded, reversed), 7 excerpts (unchanged, renamed, refuted, invalid, unsupported); one row saved and one save failed anywhere |

Bounds in the models are named: `MaxCalls` (of `BlobStore`), `MaxLines` (unread lines an unasked
plugin piles up), `MaxOutput`, `MaxFaults`, `MaxReplays`, `MaxWrites`,
`MaxEvents`, `MaxBuilds`.  Only `CallPipeDeadlock` has
deadlock checking off: there the system really stops.

### What the violation runs found

- **A memoized call can lose its slot** (`PoolLostSlot`, `host.rs:568`).
  `call_memoized` leaves through `?` when the answer does not decode or the memo
  refuses it; the worker is dropped, `live_total` keeps counting it and nobody
  is notified.  When the last slot is gone, every later call sleeps for ever.
  `SlotsAccounted` and `ImplementsAdmission` therefore speak of plain calls.
- **The deadline does not cover the write** (`CallPipeDeadlock`, `host.rs:757`;
  the pool has the same order at `host.rs:896`): the whole request is written
  before the readers and the clock start.

### What the modelling met besides

None of these has a run of its own; each is a reading of the code that a module
keeps, and that a property is worded around.

Processes and files:
- **A queued call may be overtaken for ever.**  A woken waiter loops back to
  `wait` when a caller that came later took the worker or slot first
  (`host.rs:587-615`), and neither `std::sync::Mutex` nor `Condvar` serves in
  order.  With callers that keep calling, weak fairness of the host threads does
  not prevent that this goes on for ever; TLC finds that behaviour when the
  property's last disjunct is left out.  `ReturnsUnlessOvertaken` therefore
  promises a return to every call that was given a worker or slot, and to the
  others unless calls are admitted in their stead infinitely often.
- **A call may hang in `stderr_len`.**  When the channel is closed
  (`host.rs:915`), or `try_wait` finds the process gone (`host.rs:893`),
  `call_raw` joins the stderr reader before anything is killed and without a
  deadline (`ADR-002:7` promises one).  A plugin that closed only its stdout, or
  a process it left behind, may hold stderr open for as long as it likes; the
  call then keeps its slot.  Like a write nobody reads, this is named (`Hung`)
  and excepted: the property says nothing of behaviours in which some call is
  hung for ever.
- A process that a plugin leaves behind with its stdout open holds the call for as
  long as it likes, deadline or not: `join_reader` follows the kill
  (`host.rs:785`) and waits for end of file.  `CallReturns` is worded around it.
- A torn line costs two events, not one: the next append continues it, and the
  reader drops both (`audit/writer.rs:84`).  The bound that holds is
  `AckedLossBounded`: at most one *acknowledged* event per tear, as the torn one
  was not.
- `manifest.json` and its mirror differ after a failure between their two renames
  (`CompletedIsWhole` shows that the log then does not end in `ReplayCompleted`).
- `exists()` takes a file it cannot look at for an absent one (`blobstore/fs.rs:94`);
  the put then goes on and `persist_noclobber` settles it.

The graph:
- **The document's required(o) is larger than the code's.**
  `docs/architecture.md:50-62` requires the correspondences and build edges
  traversed on the way from *any* touched entity to the support, touched through
  mu included.  `seed_build_closure` (`closure.rs:377-409`) takes build edges
  outside the support only downstream of an *edited artifact*, and nothing takes
  a correspondence outside the support.  In the instance of `FrontierLoad`: let
  n2 be rewritten by mu and owned by a2, which is not edited, e1 lead from a2 to
  a3, and e2, in the support, leave a3.  The document requires e1 and e2, the
  frontier has e2 alone.  The same holds of edges behind a correspondence, so
  that an intermediate step may pass unvalidated, which the document means to
  exclude.  What holds, and is checked and proved, is that no element of the
  *support* is left out that a path from a touched entity reaches (`Affected`),
  and that the code computes its own rule exactly.
- An edited artifact without known entities touches nothing: its downstream
  build edges are required, and the support correspondence they lead to is not.
- An entity's id has no content hash: building a changed file moves its entities
  to the new artifact and leaves rows of what the file no longer has.
- The builder takes a bundle's `repo_side` and a fact's entity as they are given;
  "side-local" (`builder.rs:6`) therefore holds for facts about entities of their
  own bundle, which is how `CorrespondencesJustified` states it.
- The extractors emit routes with empty literals, and the builder refuses such a
  key (`builder.rs:354`): one of them fails the whole build.
- Files outside `old/` and `new/`, bare names or `src/`, are of the old side and
  have the paths of files in `old/` (`extractor-openapi/src/lib.rs:365`,
  `extractor-typescript/src/lib.rs:439`): two files may have one artifact path.

The decision:
- An observation with an invalid id is dropped (`observation_registry.rs:116`)
  with a diagnostic that makes no coverage risk, and has no row: it blocks nothing.  With no observation stored
  acceptance is vacuous.  `UndefinedBlocked` and `AcceptedMeansCovered` speak of
  stored rows.
- `defined_semantics` is stored and read by nobody.  An undefined observation is
  blocked by the registry's *diagnostics*, which a batch that fails half way
  drops (`observation_registry.rs:145`): `UndefinedBlocked` and
  `AcceptedMeansCovered` except observations of such a batch (`lost`).
- `generate_obligations` reads the graph again: of an entity that moved since the
  frontier was computed it may see the new artifact, and not that the old one was
  edited.  `ObligationsCover` excepts such entities.
- Conflicts and kind mismatches of mu raise no risk (`coverage_risk.rs:159`).
  `MapJustified` shows that their entities have no rewrite; with conflicts the
  checker then answers `migration_map_ambiguous`, with a mismatch
  `missing_endpoint`, and only if the observation changed: `check_route` returns
  Pres for an unchanged observation before it consults mu (`lib.rs:74`).
- `entity_matches_observation` compares paths with `contains`: a route whose id
  contains the new path passes for it.
- The decision is over visible observations; a held-out one takes no part, but
  refuses the report when it is accepted with an item that is not.
- `docs/layer-0-core-ir.md:143` has `assemble` reject invalid ids and call it the
  only constructor; it checks no ids, and the report derives Deserialize.

### Fairness

Safety properties are checked without fairness.  `PluginPool!FairSpec` has weak
fairness of each caller's own steps: the operating system schedules host
threads, a mutex that is free again and again is eventually granted to a thread
that stays ready for it, `kill` and `wait` end, and the deadline passes —
`TimeOut` is one of these steps.  Nothing is assumed of the order in which mutex
and condvar serve, so a call may be overtaken for ever.  Plugins owe nothing:
writing a request that does not fit the stdin pipe (`BlockingRequests`), and
joining a stderr somebody holds open, are no fair steps (`FairStep`), since they
depend on others; a spurious wake-up never has to come, and callers need not
call.  `PoolLiveness` has only a blocking request; its behaviours are those of a
request that fits, which is merely fairer, and for one that fits `Hung` can only
hold of a join for ever.
`PluginCall!FairSpec` is the same for its host and reader thread, and
only when `Streams` says so does the plugin read, write and exit: in
`CallPipeDeadlock` a *cooperative* plugin deadlocks with the host.

## 4. What is proved

TLAPS checks these for every value of the constants that satisfies the named
`ASSUME`s (positive bounds, finite sets of callers and workers, ids typed; model
values distinct); none depends on the instances above.  Two groups of theorems
about the pool have a hypothesis besides, named there.
The type invariants of the modules proved about, and `WaitersAreServed` (which
`ImplementsAdmission` entails), are theorems and not part of a run.

**`PluginPoolProofs`.**  `TypeCorrect`, `NeverOversold` (`SlotsNotOversold`),
`QueueCounted` (`QueueBounded`), `WakeupsSuffice` (`NoLostWakeup`),
`QueuedIsAdmitted` (`WaitersAreServed`), `NobodyOrphaned` (`NoOrphans`) and
`ProcessBound` (`ProcessesBounded`).  The inductive invariant `PoolInv` joins
the three counting properties to two facts about control: `HoldersHold` (a
caller between acquiring and giving back holds a worker exactly where its `pc`
says) and `WokenWait` (only waiters are woken).  They are needed together:
`NoLostWakeup` compares `live_total` and the idle stack with the woken waiters,
so a step is only seen to preserve it when `live_total` cannot underflow, which
is `SlotsNotOversold`, and when `waiting` is exact, which is `QueueBounded`.
The cardinality lemmas say what adding or removing one caller does to the sets
that are counted.  `OwnerInv` (`HandsEmpty`, `NoOrphans`) follows each process
from spawn to reap; with distinct holders it gives an injection from processes
to slots and so `ProcessBound`.  Note that `NeverOversold` and `NobodyOrphaned`
hold for memoized calls as well: the lost slot is leaked, never oversold.

On that rest two groups more.
- `NoSlotLost` (`SlotsAccounted`) and `PoolAdmits` (`ImplementsAdmission`), under
  the hypothesis `Modes = {FALSE}`: only plain calls.  It is needed, as
  `PoolLostSlot` shows a memoized call lose a slot.  Without a lost slot
  `live_total = max_processes` means that every slot is idle or serves, and
  `TakeIdle` goes before `Sleep` and `Refuse`, so each step that queues or
  refuses a call happens when every slot serves another: the guard of the
  abstract action.  `PhaseMoves` says how a step of one `pc` changes the phases;
  one lemma per group of steps maps it to `AdmissionControl`.
- `AnswersDecoded`, for any constants: a call returns only a line with its
  request's id, and the memo of a request holds only lines that decode for it
  (`AnswerInv`).  `AnswersMatch` (`AnswersMatchRequests`) and `MemoReplaysOwn`
  (`MemoSound`) add the hypothesis `IdsTellApart`, that two requests have two
  ids: the id is all `decode_response_line` compares, and the caller chooses it.

**`PluginCallProofs`.**  `CallInv` adds to `TypeOK` the conservation of units
(`Conserved`: written = in the pipe + read), what the reader's end implies
(`ReaderEnds`) and what the host may conclude (`HostKnows`).  From it
`CallTypeCorrect`, `AnswersWhole` and `OverrunsKilled`.

**`AuditLogProofs`.**  For any number of writers, failures and crashes.
`OrderInv` numbers the pieces of the log each writer meant to write (`Rank`)
and says that the file has a writer's pieces in that order, its buffer too, and
that the buffer's come after the file's; from it `TypeCorrect` (no piece is in
the file twice) and `PerWriterOrder` (`ReadInOrder`).  `LossInv` adds how lines
are cut: buffers hold the end of a line and then whole ones (`BuffersWhole`); an
acknowledged event's last piece is in the file (`AckedWritten`); while no write
was short all lines are whole (`LinesWhole`), which gives `NoEventLost`
(`InterleavedAppendsSafe`); and with one writer the lines broken off in the
file, and one more if the last is torn with nobody holding its rest, are no more
than the tears (`TearsCut`).  The line of an event that is acknowledged and not read stands
right behind a line broken off (`AckedPlace`), so there are no more such events
than breaks: `LossBounded` (`AckedLossBounded`).

**`ReplayRunProofs`.**  `RunInv` ties the disk to the step replay_patch is at
(`DiskFollows`), the log's tail to it (`LogFollows`) and the last verdict to
both while no replay runs (`VerdictAtRest`).  From it `ReplayTypeCorrect`,
`CompletionVouches`, `LogIsReplayable` and `VerdictsBacked`.

**`FrontierProofs`.**  `FrontierInv` is the conjunction of `TypeOK` and
- `LoadInv`: the store is well-formed and has one row per id, what was listed is
  within it, and each table listed holds the rows of the load's start;
- `RegionInv`: what the search reached lies in every set that contains the
  touched entities and is a union of components (`RegionSound`), each item has a
  reached end (`ItemsSound`), and what is off the worklist has its neighbours
  reached (`RegionClosed`), so an empty worklist makes the region the component;
- `WalksInv`: the same two halves for the backward and the forward walk;
- `EntriesInv`: what each phase has put in the frontier so far.

`FrontierTypeCorrect` follows from it, and `ClosureExact` with the lemma that
a union of components is closed under the document's paths, so that all affected
support is among what the code requires (`AffectedRequired`).  `LoadMissesNothing`
adds that what is required only grows with the rows (`RequiredMonotone`);
`ClosureIdempotent` that adding a build edge on a path to the support anchors
nothing new (`RequiredIdempotent`, which needs one row per id);
`DiagnosticsFromRaces` that the rows of the start have their endpoints among
those listed.  The proofs assume typed, disjoint ids (`FrontierAssumption`) and
rest on the foreign keys the store enforces; nothing bounds the graph or the
number of concurrent saves.

**`BlobStoreProofs`.**  `Inv` is `TypeOK` with `ControlOK` (what a caller at each
step holds and will answer).  `BlobTypeCorrect` follows; `MapImplemented` maps
the initial state and every step to a step of `BlobMap` or a stutter, one lemma
per step of a call; `WritesAreCounted` adds that a content has at most one maker
and that each file a living process made is recorded or about to be.

**`GraphIngestProofs`.**  For any files, any answers, valid or not, any inputs
and any number of builds and faults.  `Inv` is the conjunction of
- `ControlInv` (the phases), `RowsInv` (correspondences in the tables are whole
  and their entities known) and `TxInv` (how far `save_correspondence` has come,
  and what the open transaction shares with the tables): from them `TypeCorrect` and
  `StoredWhole` (`CorrespondencesWhole`);
- `PrefixInv`, what is stored of the bundles passed and of the one being read:
  `PrefixLeft` (`FailureLeavesPrefix`);
- `FactsInv`, that each entry of the two tables of facts comes from a valid fact
  of a bundle passed, and each fact passed has its entry, and `CorrsInv`, which
  ties correspondences to facts: `PairsJustified` (`CorrespondencesJustified`);
- `LatestInv`, that a row is that of the last bundle which has it: with the
  others `BuildRepeatable` (`RetryConverges`).

`ExtractorsAccepted` (`ExtractedAccepted`) joins to it that bundles of the
in-tree extractors are acceptable in every state (`InTreeAcceptable`).
`RemoteRefsDeclared` (`RemoteRefsNoted`) needs what the walk through a document's
components computes for every document: `RefsLeastClosed`, that it ends with the
least closed set, by induction on its turns.  The library's induction theorems
cannot be used (they take an operator), so `Induct` states induction over the
naturals for a set, from `WFMin`; `WalkExists` shows that the recursive function
exists.  Assumed are inputs that name answers (`IngestAssumption`), that a hash
and a language determine what is read, and that documents are finite
(`FilesAssumption`).

**`AcceptanceProofs`.**  Invariants in layers, each proved with those below it:
- `IType`: `TypeOK`; what is stored came from a valid spec, and is either passed
  by the running batch or lost with a failed one (`StoredKnown`);
- `SupportKnown`, inductive with it; `NotedInv`: what is stored as undefined and
  is not lost has a diagnostic that makes a risk;
- `MapKnown` and `LeftNoted`: mu against the candidates and the graph as it grows
  (from lemmas `AcceptedGroup`, `Built`, `Left` about `build_migration_map`), and
  `JudgeInv`: risks, frontier and pre-checks are functions of what the earlier
  steps left, and an entity's owner is that of the frontier's time or its newer
  one;
- `ObligationsCover`; `ReportInv`: a row without risks is defined or lost, and a
  report is what `assemble` makes of the rows.

From them every property of the run, and two statements about single functions
that need no state: every reason `check` gives is one `describe` announces
(`ReasonsAreDeclared`), and the gaps a frontier met become coverage risks and
pre-check Unknowns alike (`GapsAreCarried`).  `AcceptanceTypeCorrect` contains that
`pc` is never "stopped", so that `MigrationMap::try_new` refuses nothing
`build_migration_map` makes.  Assumed are well-formed ids (a correspondence's
endpoints are entities, edges and correspondences are told apart), foreign keys
that hold at the start, and the three confidences a candidate may have.

**Only model-checked.**  Liveness: `ReturnsUnlessOvertaken` and `CallReturns`, since
fairness and ENABLED are beyond the prover.  Every other property of a passing
run is a theorem.

## 5. What is not modelled

Byte-level framing, JSON and schema validation, the parsing and printing of
identifiers, canonical JSON, the text scanners inside the extractors, isolation
profiles and sandbox command lines: functions of strings without state, which
the unit tests reach.  SHA-256 is taken as injective.  Losing power (nothing is
fsynced) is not a crash of the process and is left out.  Two replays at once in
one directory, and two processes on one SQLite file, are not done by the code.
Of the graph store, migrations, provenance, runs and parse reports, lookups and
counts; of the report, evidence, hashes and provenance: data no modelled step
reads.

## 6. Plan

1. `PluginPool` with `AdmissionControl`, `PluginCall` — done.
2. `AuditLog`, `ReplayRun` — done; `ReplayRun` takes lines as whole, which
   `AuditLog` qualifies.
3. `Frontier` — done: modelled, checked, and its five properties proved.
4. `BlobStore` over `BlobMap` — done: modelled, checked, and proved.
5. `Extract`, `GraphStore`, `GraphIngest` — done: modelled, checked, and proved.
6. `MigrationMap`, `RouteCheck`, `Coverage`, `Acceptance` — done: modelled,
   checked, and its properties proved.
7. The properties of `AuditLog`, and the refinement of `AdmissionControl` with
   the answers of `PluginPool` — done: proved.
8. Still to do: the parts of liveness that are safety, as theorems about
   `PluginCall` (whatever the host waits for, a step of its own or of what holds
   its pipes ends the wait); lemmas about the operators of `Extract` and
   `MigrationMap` over sequences, by the induction of `GraphIngestProofs`.
