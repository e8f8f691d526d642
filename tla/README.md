# A verification of zeus/valet, mausoleum, and the ritz build

This directory holds TLA+ models of three parts of the repository:

* the path that serves HTTP: valet's event loop, and the shared-memory rings over
  which it proxies requests to zeus workers;
* the transaction manager of the database mausoleum, and its storage engine;
* how the ritz compiler's driver turns sources into binaries: the store of compiled
  modules that all builds on a machine share, the driver that decides what need not be
  built again, the signatures by which the compiler decides the same for one module, the
  move checker, and where the emitter drops what a function owns.

TLC checks the models on small instances; TLAPS proves the properties that matter most
for every size. `PROJECT.json` lists the runs, the mutants, the map from every definition
to the lines it stands for, the hazards, the findings and the theorems.

Paths below are relative to `src/projects/`.

    tlc  -config MCZeusRingOverload.cfg ZeusRing   one run (the .cfg names are in the table of runs)
    tlc  -config MCBuildDriver.cfg MCBuildDriver   with constants that a .cfg cannot write
    tlapm ZeusRingProofs.tla                  one proof module

## 1. Inventory

### How the parts fit together

    clients ── TCP ──> valet (one thread)                    nexus (one zeus worker)
                        task server / io_uring                worker loop
                        connection handler, one per task      handler, one request at a time
                              │                                       │
                              └── request ring, response ring, ───────┘
                                  arena partitions, futex word
                                  (shared memory, made by the zeus daemon)

    build.py (a process per build, test runner or worktree)
        hash sources ── up to date? ── return the binary
              │ no
        per module: key ── cas.py: look up / lock, compile, store ── objects shared by all
              │                             │
              │                       ritz0: skip? resolve, check (moves), emit (drops)
        link, write the manifest

| Part | State | Operations | Interacts by |
|---|---|---|---|
| ritzlib async task server (`ritz/ritzlib/async/tasks.ritz`) | pool of 256 task slots, ids, `active_count`; limits | accept, spawn, poll, wake, complete, idle check; two accept loops | calls the handler of a task; SQEs and CQEs |
| ritzlib io_uring (`ritz/ritzlib/uring.ritz`) | submission and completion rings | get an SQE, submit, peek and advance CQEs | the kernel |
| valet connection handlers (`valet/lib/valet.ritz`) | per task: `handler_state`, read and write buffers, heap buffer, TLS state | one call per wake-up: receive, parse, answer, proxy, send, close | arms one operation and returns, or returns "done" |
| valet zeus proxy (`valet/src/main.ritz`) | per task: request id, claimed slot, deadline | submit a request, poll for its response, give up | zeus client library |
| zeus client library (`zeus/lib/zeus_client.ritz`) | producer side of the request ring, consumer side of the response ring | peek a slot, submit, peek a response, sweep | shared memory, `FUTEX_WAKE` |
| control block, rings, futex (`zeus/lib/control.ritz`, `ring.ritz`, `futex.ritz`) | four indices, futex word, worker state, slots | full/empty tests, spin then wait, signal | shared memory |
| zeus worker context (`zeus/lib/worker.ritz`), nexus loop (`nexus/src/main.ritz`) | current request | poll, begin, fill, commit, acknowledge | shared memory, `FUTEX_WAIT` |
| zeus daemon, hot reload (`zeus/src/main.ritz`, `zeus/lib/daemon.ritz`, `hotreload.ritz`) | worker slots, pids | create regions, fork, watch, drain, replace | signals, shared memory |
| mausoleum transactions (`mausoleum/lib/txn.ritz`) | open and committed transactions, ids, counters | begin, commit, abort, is a version visible | its own log |
| mausoleum storage engine (`storage.ritz`, `buffer_pool.ritz`, `wal.ritz`, `recovery.ritz`) | frames, LRU list, pins; log buffer; next id; data file, log file, metadata file | open with recovery, fetch, allocate, log, unpin, begin/commit/abort, flush, checkpoint, close | files |
| mausoleum documents, indexes, queries, server | B-tree, collections | insert, query | storage engine; its own async server |
| harland (`harland/kernel/src`) | tasks, channels, capability tables, memory, drivers | system calls | hardware |
| http, cryptosec, squeeze | protocol and codec state of one connection or buffer | pure or sequential functions | calls |
| tome, goliath, spectree | a store | commands, one at a time | calls, sockets |
| artifact store (`ritz/cas.py`) | objects by key, their times, a lock file per key | look up, lock, compile, store, touch, copy, collect | one directory, `flock`, `rename`, `unlink`; any number of processes |
| build driver (`ritz/build.py`) | per tree: binary, manifest, memos of import closures | hash sources, test for up to date, find keys, compile, link, write the manifest | the artifact store; the compiler as a subprocess |
| ritz0 driver, signature cache and import resolver (`ritz/ritz0/ritz0.py`, `emitter/fn_cache.py`, `import_resolver.py`) | per source: a signature; per compile: files read, places missed | skip or resolve, hash, emit, write, save; delete the signatures of importers | files; any number of compiles of one source |
| import cache (`ritz/cache.py`) | parsed imports, a database of them | scan, merge, save | files |
| move checker (`ritz/ritz0/move_checker.py`) | per binding: moved, or which fields are; loop frames | check a function statement by statement | marks on the syntax tree that the emitter reads |
| emitter (`ritz/ritz0/emitter_llvmlite.py`) | drop scopes, drop flags, field flags (and types, values, blocks) | emit a function | LLVM IR |
| ritz (front end, self-hosted compiler), ritz-lsp, ritzunit, rzsh, browser (tempest, iris, lexis, sage, prism), angelo, indium, spire, tools | sequential programs | | |

### Which behaviours are hard

* **Two processes on shared memory.** Valet and the worker share rings without
  a lock. Publication, the futex protocol, and the rule "the response to the
  n-th request is the n-th response" all depend on the order of single stores.
* **Slot-direct consumption.** Valet's tasks do not read the response ring as a
  FIFO: each polls the slot it claimed, and the read index is moved later, by a
  *sweep*. Responses can be taken before the worker has published its index, or
  never (deadline, client gone).
* **Three things with different lifetimes share one slot number**: a request
  slot, an arena partition and a response slot.
* **Completions arrive by number.** An SQE names a descriptor and a task id; by
  the time the kernel takes the SQE or the loop reaps the CQE, both can belong
  to another connection.
* **Everything is bounded**: 256 tasks, 256 queue entries, rings of 256, a
  connection limit.
* **Crashes and replacement** of workers (daemon), of a database (mausoleum): what is in the
  file is a prefix of what was written, cut anywhere, and recovery has to tell what was committed.
* **A cache between clients and a file** (mausoleum's frames): pins, evictions, dirty pages, and
  flushes of which some pages fail.
* **Many builds on one store.** They race for the same key, and fail or are killed
  between any two steps. A lock file is removed while others wait for its lock, and
  `flock` locks the inode, not the name. A collector deletes objects meanwhile.
* **Facts that outlive their moment.** A hash, a memo, a key, a manifest are read
  when the sources may have changed since, or half of the work they describe is done.
* **What is not there is an input too.** Which file an import means depends on the places
  where nothing was found, and on which directory is found to be the project's root.
* **What a path did, decided before it runs.** The move checker and the emitter look at
  a program once; which values are still owned depends on branches, on how often a loop
  ran and how it was left, and on fields moved out one by one.

`PROJECT.json` lists each hazard at its line with the properties that cover it,
or the reason none does yet.

### What makes each part correct

* Rings: no request is lost, duplicated or reordered; a response is not
  overwritten before it was taken; the client gets its own answer; the worker
  wakes up; with both sides running every request is answered.
* Task server and handlers: a slot is not recycled with I/O outstanding; no task
  waits for nothing; a connection sees and sends only its own bytes; the server
  goes on accepting; counters and per-slot resources follow the connections.
* Daemon (planned): one consumer per ring; a dead worker is replaced and what it
  had not acknowledged is answered once.
* Mausoleum transactions: no transaction sees what another, still open, did; what
  it sees it goes on seeing; its view is the commits before its snapshot (which the
  code does not keep, see the findings).
* Artifact store: one process builds a key at a time, an object is not replaced, a hit
  can be read, and nobody waits for ever for a lock.
* Build driver: what is up to date by its manifest was linked from the current sources;
  an object under a key is what that key's sources compile to.
* Signature cache: "Skipped" leaves what a compile would write, and a source for which
  nothing changed is skipped, whatever other compiles of it do.
* Move checker: no path of an accepted function uses what it moved, and a rejected
  one has a path that does. Emitter: every value is consumed once on every path.
* Mausoleum storage engine: a page reads as last written, a pinned one stays where it is; what a
  flush settled survives a crash; after a crash exactly the committed transactions are there
  (which the code does not keep, see section 5; recovery does select the right ones).
* Harland IPC and capabilities (planned): messages in order, no access by a
  handle after its close or revocation, rights only shrink.

## 2. The modules

    RequestService            what the proxy promises: requests, answers, no rings
        ^ refines
    ZeusRing                  valet and one worker on shared memory
    ZeusRingRefinement        the mapping from ZeusRing to RequestService
    ZeusRingProofs            theorems about ZeusRing, that it implements RequestService

    TaskServer                the task server, the handlers and io_uring
    TaskServerProofs          theorems about TaskServer

    MausoleumTxn              ids, snapshots, visibility
    MausoleumTxnProofs        theorems about MausoleumTxn

    PageStore                 what the storage engine promises of pages
        ^ refines
    MausoleumStorage          pool, log, recovery, metadata, and crashes
    MCMausoleumStorage        what its behaviours may spend, for TLC
    MausoleumStorageProofs    theorems about MausoleumStorage, that it implements PageStore

    ArtifactStore             the shared store, its locks and its collector
    ArtifactStoreProofs       theorems about ArtifactStore
    BuildDriver               builds on the store (taken as ArtifactStore promises)
    MCBuildDriver             its import graph and contents for TLC
    BuildDriverProofs         theorems about BuildDriver

    SigCache                  signatures of sources, compiles that skip or compile
    MCSigCache                its files, imports and modes for TLC
    SigCacheProofs            theorems about SigCache

    MoveChecker               programs, the checker's verdict, what their paths do
    MoveCheckerProofs         theorems about MoveChecker
        ^ extends
    Drops                     the drops of the emitter along the paths of the accepted ones
    MCDrops                   the places of a binding for TLC

A `.cfg` gives a specification its constants directly; only the four `MC` modules define
constants that a `.cfg` cannot write (functions, records and sequences). Definitions marked `Mutant:` in the modules
are plausible bugs that `PROJECT.json` pairs with the property that notices them.
The specifications do not use them.

### ZeusRing

Two processes on one region. An action is one access to shared memory that the
other side can see; all that a process does between two such accesses is part of
one of them. Stores become visible in program order, which is what
`zeus/lib/zeus_client.ritz:862-865` assumes of x86.

| State | In the code |
|---|---|
| `req_write_idx`, `req_read_idx`, `resp_write_idx`, `resp_read_idx`, `req_futex`, `state` | the `ControlBlock` (`control.ritz`); the indices only grow and are masked to a slot |
| `req_ring`, `resp_ring` | `RequestSlot.id`; `ResponseSlot.id` and its `RESP_FLAG_COMPLETE` |
| `arena` | for every slot's partition, whose bytes it holds: a request's or a response's |
| `ready`, `vpc` | the READY tasks that this pass of `task_server_poll_tasks` has not reached; where valet's thread is in the handler |
| `handler_state`, `claimed_slot`, `request_id`, `answer` | per task: `CONN_STATE_*`, the `ProxyState`, whose bytes are in the send buffer |
| `wpc`, `current_val`, `current_req_idx`, `path` | where the worker's thread is, `spin_wait_request`'s copy of the futex word, `worker.current_req_idx`, the bytes the handler read |

Valet's side: `NewPass` begins a pass over the pool; `ProxyRingFull`,
`ProxyUnavailable`, `ProxyReject` and `ProxyClaim` are the ways
`handle_zeus_proxy` can go before it publishes; `SubmitPublish`, `SignalBump`,
`SignalWake`, `ProxyArm` (or `ProxyArmFails`) are its stores afterwards. `PeekHit`,
`PeekMiss`, `PeekGiveUp`, `Sweep`, `SweepDone`, `CopyResponse` and `CopyFails`
are `handle_zeus_proxy_continuation`. The worker's side follows
`spin_wait_request` (`SpinHit` to `FutexTimeout`), `worker_poll_request`, and
nexus's handling of one request from `BeginResponse` to `SetRunning`.

Left out: the response futex, on which nobody waits in this proxy; `SHUTDOWN`;
bytes other than whose they are; the FIFO calls of the client library that valet
does not use.

`RequestService` is the same system with a queue, a set of executed requests and
a pending request per task. `ZeusRingRefinement` maps the region to it: a request
leaves the queue when its response is flagged complete (not when its index is
committed), and is collected when its task has copied the partition.

### TaskServer

One thread, the kernel beside it. `tasks` is the pool (`id`, `state`, `fd`,
`io_result`, and of the handler `handler_state` and whether to keep the connection);
`big` the heap buffer `g_bigbufs` of a slot; `tls_data` whether a `TlsTaskData`
is mapped for it; `sq`, `inflight`, `cq` the operations queued, in the kernel and
completed; `sock` the connection behind a descriptor; `read_buf`, `write_buf`
whose bytes a slot's buffers hold. `RecvFresh` to `SendDone` are the branches of
`valet_handle_connection`, `TlsInit` to `TlsSendDone` those of
`valet_handle_tls_connection`; each includes the `task_complete` that follows a
"done". `Enter`, `Submit`, `Return`, `ReapAccept`, `ReapTimeout`, `ReapTask` and
`Turn` are the two accept loops, `task_server_run` or, with `Multishot`,
`task_server_run_multishot`. The remaining actions are the kernel's:
operations complete at any time, in any order, wholly, in part or with an error.

Parsing, routing and the proxy are choices between their outcomes. `inflight` is
a set of operations, so two that are equal in every field would be one; that
needs two equal operations of one task at a time and can arise only in the modes
where `IOEndsFirst` fails (SEND_ZC, TLS; section 5).
The idle timer is never armed
(`task_server_submit_idle_timeout` returns at once, `tasks.ritz:574-577`); its completion can
be "reaped" only through a task that was given the timer's number for its id.

### MausoleumTxn

The manager keeps no rows: `txn_is_visible` is handed the two ids of a version.
`active_txns`, `next_txn_id`, `commit_ts`, `active_count`, `committed_txns` and
`committed_count` are `TxnManager`; `written` and `delete_ts` are the rows of a
client, whose versions are named by their writer's id; `fate` is history, for the
properties. `Begin`, `BeginFails`, `Commit`, `Abort` are `txn_begin`, `txn_commit`
and `txn_abort` with every outcome of the log.

### MausoleumStorage

One process at a time on one directory, with one thread in the engine. What the process has
written stays when it dies, what it keeps in memory does not; it may die between any two
system calls.

| State | In the code |
|---|---|
| `file`, `log`, `meta` | the three files of the directory: per page the version of its bytes, the records, `StorageMeta.next_txn_id` |
| `cache`, `lru`, `next_page_id` | the frames in use and `BufferPool`'s hash table, the LRU list, the next page's number |
| `buffer` | `WalWriter`'s buffer |
| `next_txn_id`, `current_txn` | the fields of `Storage` |
| `phase`, `todo`, `failed`, `redo` | where the process is: opening, open; what is left of the call it is in; pages this flush could not write; how much of the log the redo pass has read |
| `held` | the pins that clients hold |
| `settled`, `wrote`, `acked`, `ended`, `logFailed` | history, for the properties |

`OpenNew`, `Open`, `RedoPage` and `RedoEnd` are `storage_open` with `recovery_recover`: the
passes over the log are functions of the file (`Readable`, `Committed`, `Redoable`), each
image applied is a step. `FetchHit`, `FetchMiss`, `Alloc`, `AllocFails`, `AllocLog`,
`Update` and `Release` are what clients do with pages, each with the frame it takes, the
page it evicts and the write of that page. `BeginTxn`, `CommitTxn`, `CommitFlush` and
`AbortTxn` append a record. `Flush`, `Checkpoint` and `Close` put the system calls they
consist of on `todo`; `FlushLog`, `FlushPage`, `FlushDone`, `CheckpointRecord`, `WriteMeta` and
`Closed` take them off. `CommitTxn` leaves the flush of its record as a step, so that a
crash can come between.

The bytes of a page are the number of the write that made them. A record is one part, a
page's record two, its header and its image, because the log's buffer can fill up between
them; a crash can leave the file with one and not the other (`Torn`). A client writes a page only
while it has it pinned, as the B-tree and the collections do. Only the first
write to the log that fails may leave a part of the buffer behind (`Short`), which keeps the log
finite.

`PageStore` has two variables, what a fetch of each page gives and what it was at the last
flush that reported success. The mapping's `Content` is a page's frame if it has one and
the file otherwise, so the refinement says that eviction and reading back change nothing,
and that crash and recovery take back only writes after the last flush. The second is all that the servers rely on:
they call `storage_flush` after every insert, update and delete
(`mausoleum/src/main.ritz:541`, `server_async.ritz:427`). What the log adds is in
`OnlyCommittedRedone` and `AckedAreRedone`, which speak of what recovery finds in the log,
under the conditions without which they are false (section 5).

### ArtifactStore

Any number of calls of `get_or_build`, one per process or thread at a time. An action is
one system call on the shared directory. `pc`, `key`, `out` say where a call is, for what,
and whether its build succeeded; `fd` is the inode of the lock file it has open,
`lockFile` the inode that the lock file's name leads to (or none), `holder` who holds an
inode's `flock`: names and inodes are kept apart because `cas.py` unlinks the lock file
while others have it open. `stored` and `mtime` are the objects and their ages as ranks;
`gcList` is what a collection decided to delete and has not deleted yet. `raced` is
history, for the properties: the keys whose object was collected while a call for them
was under way. In that case, and in no other, the code builds again what another build
has stored, or a hit's copy fails.

`Request` is the look without the lock, `Open`, `Flock`, `Recheck`, `Compile`, `Put`,
`Unlink`, `Unlock` the call after a miss, `Touch` and `Copy` a hit, `Fail` an exception of
`build_fn` or of the store's write, `Die` a kill at any point, `GcScan` and `GcDelete` the
collector. The entry's metadata and the `.ll` beside it are written with the object and
never looked for; they are left out, and so are the memos, which are in `BuildDriver`.

### BuildDriver

`compile_binary` of one binary of modules `1..N`, by any number of builds, each in its
`Tree`. Per tree: `src` (what each file contains), `memo` (`closure_memo_get` and
`_put`), `bin`, `manifest` and `tmp` (the manifest before its rename). Per build: `pc`,
`at` (the module in hand), `prov` (the hashes it began with), `key`, `made` (objects to
link), `failed`, `rec`. `store` holds pairs of a key and an object; an object is a record
of what it was compiled from, so that "the right object" can be said. The actions follow
the code: `HashSource`, `FastPath` (`binary_is_up_to_date`), `FindKey`, `MemoPut`,
`Lookup`, `Copy`, `Compile`, `Put`, `GiveUp`, `LinkBegin`, `LinkEnd`, `LinkFails`,
`HashBinary`, `WriteTmp`, `Replace`; around them `Killed`, `Edit`, `Evict`, `EvictMemo`.

The compiler's identity, flags and profile are inputs of a key beside the sources; they
do not change between the builds of the model and are part of a content. The import graph
is a constant: an edit changes bodies and interfaces and not who imports whom. `Lookup`
takes from `ArtifactStore` that two builds do not compile one key at a time.

### SigCache

`compile_file`, by any number of compiles at a time, of any sources. A file is a directory
and a module, `<<"app", "main">>`. `files` holds the texts, `marked` the directories
with a `.git` or a `ritzlib`, `stamp` and `written` the modification times, `output` what
each output was compiled from, `sig` the signature (`.ritz.sig`) of each source. Per
compile: `job` (source, output, mode, and the text it read), `seen` (the signature it read
last), `read` (`processed_files`, with what was in them), `todo` (imports on the
resolver's stack), `missed` (`missed_candidates`), `hashes` (`import_hashes`).

`Begin` reads the source and compares times; `ReadPrior`, `CheckSource` (which reads the
signature a second time), `Skip` and `Decline` are the fast path; `ResolveImport` is
`_process_import` for one import, `HashImports` is `build_import_hashes`, `Invalidate` the
reading of the old signature and the deletion of those of importers, `Truncate` and `Write`
the output, `Save` the new signature. `Fail` is every error path before the output, `Kill`
a kill anywhere, and so between the output and the signature; `Edit`, `Mark` and
`RemoveOutput` are the programmer. A mode is what `_compile_mode` collects: flags, source
roots, project root, `RITZ_PATH`. `Compiled` is what an output is determined by (source, mode,
texts read), and `Build` the one that a compile of the present files would give: `Reached` is
defined as the least set closed under imports, not as the resolver's walk.

`settled` is history: the compiles that must be skipped, since nothing they depend on
changed. Looking for the old signature, comparing and deleting are one action; a file
is read, and looked for, in one action with what follows.

### MoveChecker and Drops

`MoveChecker`'s behaviours are programs that grow: a state is a function body of at
most `MaxSize` statements (or a part of one), and TLC visits every one. `Accepted` is the checker,
definition by definition: scopes, `save_states` and `restore_states` by name,
the merges after branches, matches and loops (at most eight passes), and the rule that
nothing after a leaving statement is looked at. `UsesMoved` runs the body along every path.
The checker keeps a state and a set of field paths per binding; the model has one set of
places, with `<<>>` for the binding itself, and `VarInfo`'s state `MOVED` is `<<>>` in it.
A binding is a name with the depth of its scope, which tells apart those in scope at a time;
`_snapshot` keys by the binding's identity, and the model pops the environments of breaks
and continues as they leave a scope, so nothing is left to confuse.

Statements nest, so the checker is a function by the depth of nesting: `Check[d]` gives
each statement nested at most `d` deep its function from environments to results, and takes
`Check[d - 1]` for the blocks within (`Check[0]` judges statements without blocks). `Run` is
the same for paths. A `while` goes back to its head at most `MaxTurns` times; that bound
is the model's, and the theorems hold for every value of it.

`Drops` runs what the emitter emits for the accepted bodies. `Marks` is what it reads off
the program (`field_moves`, and the assignments that the checker marked
`reowns_field`); the machine holds, per binding, the parts it owns and the flags that are
set, and the stack of drop scopes. `twice` and `leak` record a part consumed twice, and
a part lost without having been consumed.

## 3. The runs

| Run | Instance | Shows |
|---|---|---|
| `answered` | 2 tasks, rings of 4, 5 requests, none given up on | `AckedIsAnswered`, `AnswerIsOwn`; refinement of `RequestService`, its fairness included; no deadlock |
| `overload` | 2 tasks, rings of 2, 5 requests, 1 given up on | `TypeOK`, `NoLostWakeup`, `HandlerReadsItsRequest`, `ResponseKept`; no deadlock |
| `full_pool` | 2 tasks, rings of 2 | `AckedIsAnswered` violated |
| `tasks` | 2 slots, 2 queue entries, 3 descriptors, 2 connections; HTTP, single accept | `IOEndsFirst`, `WaitingHasOp`, `ReadsOwnBytes`, `SendsOwnBytes`, `AcceptArmed`, `BigIsOwn` |
| `modes` | 2 slots, 2 queue entries, 3 connections; TLS, multishot, limit 2, timer's number 3 | `TypeOK`, `ConnectionsCounted`, `TlsFreed` |
| `txn` | 3 slots, committed list of 1, 4 ids | `NoDirtyView`, `NoFutureRead`, `NothingVanishes` |
| `storage` | 2 frames, 3 pages, a log buffer of 2 parts, a table of 2; nine budgets of up to 3 processes, 4 writes, 2 pins, 2 transactions, 1 checkpoint, failing flushes or log writes | `TypeOK`, `PinnedStay`, `OnlyCommittedRedone`, `AckedAreRedone`, refinement of `PageStore` |
| `store` | 3 processes, 1 key, 4 inodes | `SingleFlight`, `NeverRewritten`, `HitsAreReadable`, `CallsReturn`; no deadlock |
| `build` | 2 builds in 2 trees, the sources of one edited, 2 modules (2 imports 1), 3 contents, 2 edits or evictions | `TypeOK`, `UpToDateIsFresh`, `StoreSound`, `KeysAreCurrent`, `ReturnsFresh`; no deadlock |
| `sig` | 2 compiles at a time and 3 in all of 2 sources (one imports the other), 3 modes, 3 outputs; 4 paths in 3 directories, 2 edits | `TypeOK`, `SkippedIsFresh`, `SigVouches`, `SettledSkips` |
| `moves` | bodies of at most 5 statements, 2 names, a binding with a field that has a field | `Sound`, `Precise`, `ConsumedOnce` |
| `moves_reown` | the same with assignments in an `if` without an else | `Sound` violated |

**Bounds.** `MaxRequests`, `MaxAbandoned`, `MaxAccepted`, `MaxIds`, `MaxEvents`, `MaxEdits`,
`MaxCompiles`, `MaxSize`, `MaxPages`, `Budgets` and `MaxTurns` are the only bounds that the
code does not have; each is a guard of the action that counts, but for `MaxTurns`, which
ends the turns of a loop where programs run. `NTasks`, `Capacity`, `SqEntries`, `NTxns`,
`CommittedCapacity`, `NumFrames`, `BufferParts`, `TableSize` and `MaxObjects` are sizes of
the code, small here. They are large enough that every case occurs: in `answered` five requests wrap a ring of four, so partitions and slots are reused
while their former tasks still copy or send; in `overload` both rings fill up behind a dead
response; in `tasks` two queue entries are fewer than two tasks and an accept can ask for,
a slot and a descriptor are used by two connections, and a body or a large response
takes two operations; in `modes` ids reach the timer's number and the limit turns a
connection away; in `txn` a slot is used again, the committed list overflows, and a
fourth id sees three earlier ones end in any way. In `storage` two frames are fewer than
three pages, so pages are evicted, dirty or not, read again and found all pinned; a buffer of
two parts splits a page's record whenever anything is before it, and a crash between the
two writes tears it; a third process recovers from what the second did with the first one's log.
A behaviour spends one budget, for all of them at once would be too many states: each has what
one mechanism needs. In `store` one process builds, one waits
on the inode that is about to lose its name and one comes after the unlink, and
the fourth inode is the name's when all three hold another; `MaxObjects = 0` makes the
one key's object old enough to be collected at any time, as if the rest of the store were
newer. In `build` two events are an edit that is undone, or an edit and an eviction; content
`"b"` differs from the first in its body only, `"c"` in its interface too and does not
compile. In `sig` two edits are a file that appears where an import was missed and goes again,
or a library that stops importing another while that one changes; three compiles are two
modes of one source side by side and one that is skipped or must not be. In `moves` five statements are a loop around an if/else with a statement in each
branch and one more, or a move, a partial give-back and a use around a branch; bindings are
declared in inner blocks only, since one of the function's own block is as good as a second
parameter. Two turns are one more than a path needs to meet what a loop moves
(`MoveCheckerPrecise`). That gives 2.05 million states. What is proved (section 4) does not
depend on the bounds.

`answered` takes fewer tasks than ring slots because the property is false otherwise,
which is the finding of `full_pool`. The default is 256 tasks (`MAX_TASKS`) and rings of
256. `AnswerIsOwn` alone also holds with a request given up on (checked with 1 task, rings
of 2, 7 requests and 1 given up on; 1/2/6/2; 2/3/6/1); `AckedIsAnswered` does not, because
of the dead response described in section 5.

`moves` takes bodies without an assignment inside an `if` that has no else (the finding of
`moves_reown`), without an inner declaration of a name in scope (`Shadowing`), and without
an if/else or a match all of whose branches leave, after which the code is dead
(`AllLeave`). Section 5 says what happens with them.

**Fairness.** `FairSpec` has weak fairness of valet's steps together and of the
worker's steps together: both are processes that the operating system schedules,
each a thread with one next step. Nothing is assumed of the clients, nor of
the futex timeout: the worker's wakeups come from valet's bump and wake alone.
`NewPass` is a step of valet since a waiting task has always re-armed its NOP.
Within valet's fairness a task may lose to others only until the pass is over, since
a pass visits every READY task once.
`ArtifactStore`'s `FairSpec` has weak fairness of each process's steps, since it is
scheduled, and strong fairness of its `Flock`: the kernel queues those who wait for a lock
and grants it to each in its turn. Compilations end (clang has a time limit, and ritz0 is a
sequential program); requests, failures, kills and collections are not assumed to happen.
`CallsReturn` needs the strong fairness: a lock is free and taken again any number of times.

**Deadlock** is checked in the runs of `ZeusRing`. It is not in those of
`TaskServer`, where the server may stop (`phase = "stopped"`, the shutdown hook or a
failed wait) or wait for clients beyond `MaxAccepted`, nor in those of
`MausoleumTxn`, where ids run out and rows are all written, nor in those of `MCDrops`, where
a body stops growing at `MaxSize`, nor in `sig`, where edits and compiles run out, nor in
`storage`, where processes and pages run out. It is in
`store` and `build`.

## 4. What is proved

TLAPS checks the theorems for every value of the constants that satisfies the
modules' assumptions, which ask only for natural numbers, at least one task or
slot, truth values, and, where values of several kinds meet, the sets they come from and
that `None` and the like are not among them.

**ZeusRing** (`ZeusRingProofs`): `TypeCorrect`, `NoWakeupIsLost`,
`HandlerIsolation`, `ResponsesAreKept`, all from `Invariance`: `IInv` is `TypeOK` and

* `RequestRingInv`: the ring holds at most `Capacity` requests, one less while valet
  is about to publish, and the request being handled is its head. `ReqFull` was
  tested before the claim, and only the worker moves the read index meanwhile.
* `FutexInv`: why no wakeup is lost. If the worker is about to sleep with an
  up-to-date copy of the futex word and there is a request, valet has published and not
  yet bumped, so it is still to wake. `NoLostWakeup` is not inductive without
  this step before the sleep, nor without `current_val <= req_futex`.
* `PartitionInv`: requests submitted and not handled have their own bytes in their
  partitions. It needs `RequestRingInv`: numbers less than `Capacity` apart have
  different slots (lemma `SlotsDiffer`).
* `ResponseRingInv`: a slot with an id lies between the read and the write index, or is
  being written; so the slot `BeginResponse` re-initialises has none.

These hold with full rings, requests given up on and more tasks than slots.

**Answers** (`ZeusRingProofs`, second part): `AckedRequestsAreAnswered` and `AnswersAreOwn`, from
`Pairing`, under `Roomy`: fewer tasks than slots, and no request given up on. Both parts of
`Roomy` are needed, as `full_pool` and the dead response of section 5 show. `IInv`
says nothing of which task a response is for; `PairInv` is `IInv`'s companion and pairs,
by slot, the requests that are not yet swept with tasks and responses:

* `InStep`: the two write indices move together, and at most `NTasks + 1` requests are
  unswept. So `worker_begin_response` never finds its ring full, which is what
  `AckedIsAnswered` needs, and no slot is claimed while its response is being copied.
* `OwnersInv`, `IdsInv`, `ResponsesInv`: each request whose response was not taken has one
  task that waits for it with its id and slot, and an answered one has its bytes in its partition.
* `OrderInv` and `HeadInv` justify the bound of `InStep`. Responses can be taken
  out of turn, and these are not swept before their elders are. But a pass polls the tasks in
  the order of the pool: the task that took a later response is polled *after* the one that
  still waits (`After`), so it cannot send another request before the sweep. The untaken and the
  taken requests thus have tasks of their own, except for the head, which may have been taken
  before its commit; a pigeonhole argument over the tasks gives `NTasks + 1`.
* `AnswersInv`: while a task copies, its partition is out of the writers' reach.

**Refinement** (`ZeusRingProofs`, last part): `ProxyImplementsService`, that `Spec` implements
the safety part of `RequestService` under `Roomy`. There is one step per action; `RefInv` adds to
the above that ids are distinct and ascending (`FreshInv`) and that valet's thread is
in some task's handler when it is not polling. The queue is a filter over a
range of sequence numbers, so most of the work is in lemmas on how that filter changes when a request is
published or answered.

**TaskServer** (`TaskServerProofs`): `ServerTypeCorrect`, `NoTaskSleepsForever`,
`TasksOutliveTheirIO` (without SEND_ZC and TLS) and `ServerKeepsAccepting` (without
multishot accept), from `ServerInvariance`: `TypeOK /\ Rest` where `Rest` says that
operations are numbered by ids already given out (`Numbered`) and well formed, that live
tasks have ids of their own (`Ids`), that operations belong to waiting tasks (`Owned`)
and are in one of the three places, once (`Once`), that only accepts are queued while
completions are reaped (`Reaping`, so the accept finds an SQE), and that what waits has
an operation (`Awake`). `Owned` alone is not inductive: when a completion wakes a task,
`Once` is what says no other operation of that task remains. Two of
the theorems carry `next_id <= TimeoutUd`, that is fewer than 2^31 connections, after which a
task's id is the timer's number and its completions go to `task_server_check_idle`.
`NoTaskSleepsForever` is stated for both handlers and both loops, and so is
`ServerCountsConnections`, in all modes, from `TypeOK` alone. `ServerFreesTls` needs that
with TLS no task is ever in a state of the HTTP handler (`TlsInv`), and that the idle
timer ends no task: it frees the slot and leaves the TLS state mapped, so there is no `idle_timeout` or no
task has the timer's number yet.

Whose bytes are in the buffers (without SEND_ZC and TLS) is `BuffersInvariance`, and from it
`HandlersReadTheirOwn`, `ConnectionsAreSentTheirOwn` and `HeapBuffersAreOwn`. A buffer belongs to
a slot, a connection is known by its descriptor, and both are used again; so none of the
three is inductive. `Bytes` has, on top of `Rest`:

* `FdsOwn`: a live task's descriptor is its own and open, and so is the one that an
  accept has returned and nobody has reaped. This is why closing one task's connection leaves
  `Peer` of the others, and a completion still to be reaped, alone.
* `OpsOwn`: while a task waits, its operation names its slot and its connection, in the queue as a
  descriptor and in the kernel as what was behind it (`Submit`), and it `Suits` what the handler
  will take its completion for: a send is of what was written for the peer, a task in `RECV` without
  a heap buffer waits for a recv into its read buffer. A completion with bytes in it has
  filled the buffer (`Received`), and the task is READY with them (`ReadOwn`).
* `BigOwn`: a heap buffer is the connection's, but for one that a new task finds in its slot and
  drops before it looks at it (`RecvFresh`, the repository's `TASK_IO_FRESH`).

Lemma `HttpHandlerStep` reduces the twelve branches of the HTTP handler to two: an operation is armed
on buffers that have just been made to suit it, or the connection ends.

**MausoleumTxn** (`MausoleumTxnProofs`): `OpenAreCounted`, `ViewsAreClean`
(from `ReadsAreClean` and `DeletesAreClean`), `ReadsComeFromThePast`, `ViewsAreStable`, from `TxnInvariance`. Its
heart is `Counters`, `commit_ts + active_count <= next_txn_id`: snapshots count commits and
ids count transactions, and every commit to come has its id already. Hence a snapshot
never exceeds the ids given out, and what it admits began earlier. `OpenTxns` gives every
open transaction an id of its own and `History` ties `fate` to the manager, so that
the scan over the slots finds an open writer.

**ArtifactStore** (`ArtifactStoreProofs`): `StoreSingleFlight`, `StoreNeverRewritten`,
`StoreHitsAreReadable`, from `StoreInvariant`. Two calls that build one key each hold a
lock, so they hold different inodes (`Holds`, `Opened`). At most one of the two is the inode
that the lock file's name leads to; the other is an orphan, and a name is unlinked only once
the object is there (`Orphans`). So the holder of an orphan finds the object when it
looks again, and does not build (`Misses`); a call that was told of a hit has one
(`Sees`). Each of the three may fail for a key whose object was collected under a call, and
for no other (`Quiet`).

**BuildDriver** (`BuildDriverProofs`): `BuildTypeCorrect`, `BuildUpToDateIsFresh`,
`BuildStoreSound`, `BuildKeysAreCurrent`, `BuildReturnsFresh`, from `BuildInvariant`, for
any trees, import graph, contents, edits and evictions, assuming `Quiet`: each build
has a tree of its own, which nobody edits meanwhile (section 5 says
what happens otherwise). The parts of the invariant speak of all sources rather than
of a moment: sources with a stored key compile to its object (lemma `KeyNamesInputs`: a key
names all that the compiler reads); sources with a memo's contents have its key
(`MemoOK`); a manifest's binary is the image of the sources it names, whatever is in the
tree (`RecOK`). Of a running build, `Hashed`, `Keyed`, `Made` and `Written` say what it has
found out so far about sources that do not change under it.

**SigCache** (`SigCacheProofs`): `SigTypeCorrect`, `SignaturesVouch`, `SkipsAreFresh` and
`SettledAreSkipped`, from `SigInvariant`, for any files, imports, modes, outputs and number of compiles, assuming
`Careful`: files change only between compiles, an edit gives its file the time of the edit,
and every mode names its project root. A signature cannot know whether it is out of date, so
the invariant speaks of what it records. `Evidence` says that the recorded texts are all and
only what the source leads to as long as the recorded misses are missing, both as a property of
the record alone; lemma `EvidenceHolds` says that when texts and misses still hold, a compile
would read just these files. `Partly` is the same for a compile that is still resolving
(what it read is within every closed set, and each of its imports is left to do or leads to
what was read), and lemmas `PartlyBegins`, `PartlyGoesOn` and `PartlyEnds` carry it from the
source to the signature. The fast path reads two signatures, and the one whose source hash it
checks is not the one whose imports it checks; that the source is the recorded one
follows from `TimesTell`, an output not older than its source has its text.

`SettledAreSkipped` is the converse, that what is up to date is skipped, and has an
invariant of its own on top, `SInv`. A recorded miss could come to exist although the
source compiles to the same, if the record held more misses than it must. `Tight` says that
it does not: each comes before a hit of an import of something that was read. So
a file that appears there would be read instead of the hit (`StillMissing`), and `Build` would
change. Two compiles of a source that read the same therefore record the same misses
(`SameMisses`), which is why a save finds the old entries comparable and keeps them
(`SettledIsKept`); that it compares with the signature that is there, and not with an older one,
is `Spares`. The first of the places that exist is found by well-founded induction
(`LeastNat`, `FirstHit`).

**MausoleumStorage** (`MausoleumStorageProofs`): `StorageTypeCorrect`, `PinnedPagesStay`,
`OnlyCommittedAreRedone`, `CommittedAreRedone` and `StorageImplementsPageStore`, for any number of
frames, pages, parts of the log's buffer and places of the analysis, and any budgets. `IInv` is, with
`TypeOK`:

* `PoolInv`: the pins of a frame are those that clients hold, a frame's page has a number below the
  next one's, and so has every page of the file once it is open. `TypeOK` says that the
  LRU list has just the pages without a pin, once each; `PinnedStay` needs both, since a victim comes
  from that list. The lemmas `Unlinked` and `Linked` are what `lru_remove` and `lru_add`
  do to it.
* `DiskInv`: settled versions are in the file, a frame is never older than the file, and it has the
  file's bytes unless it is dirty. This is what makes an eviction that writes, and one that need not,
  invisible (`EvictedContent`), and what the refinement rests on.
* `PhaseInv`: what is in memory when nothing runs, and what a call in progress has left to do.
* `PartsInv`: a commit record is of a transaction that was told to commit, an image of a page that was
  written. It holds of the buffer as of the file, whatever of it a crash or a short write
  leaves, so `OnlyCommittedRedone` follows with failed writes and torn records included.
* `LogInv`, as long as no write to the log failed: the log with the buffer behind it (`Full`) has the
  transactions whole. Every part is of an id that some process has given out (`UsedInv`, in the order
  of processes and ids); the open transaction has its begin first and then its pages
  (`Running`), one whose commit has returned its begin, its pages and its commit, all
  within the file (`Finished`, `AckedInv`); images come in the order of the writes (`Ordered`).
  `AckedAreRedone` is not inductive: it speaks of logs without a torn record, and one record's
  half may be in the file while the other is in the buffer. What a crash cuts off is behind the part where every
  acknowledged commit ends, so `Finished` stays.

`FinishedIsCommitted` is the step from there to the analysis: if no id was given twice, the commit
is the last part of its id, and when its begin came there was a place in the table, since one
that is not full at the end of the log was not full before. `StorageImplementsPageStore` assumes
`EvictionsWork`, no budget with the fault `"evict"`: with it the refinement is false, as section 5 says.
`SizeOf`, which is a `CHOOSE` of a least number, and `Readable`, the first part of the log that is not
sound, need that a set of numbers has a least element; lemma `LeastNat` derives it from the
library's well-founded induction, without an operator parameter.

**MoveChecker** (`MoveCheckerProofs`): `MoveCheckerSound` and `MoveCheckerPrecise`, for programs of any
size, any names and places and loops that run any number of times. A program is a tree, and
the prover has no induction over trees; but the specification writes a program statement by
statement, so the induction is over its steps. The invariant, `Judgement`, is that every
block of every statement that is still open is `Judged`, that is, of the checker's function
and the paths' (a block's meanings, from environments that bind the names in scope):

* `Foreseen`: if the checker reports nothing from an environment, no path from there goes
  wrong, nor one from where less is moved, and what a path ends with the checker has moved. `Sound` is this of
  the body. "Where less is moved" is what a branch or a second iteration needs.
* `Witnessed`: the checker begins a block with the union of what several paths moved. If it
  reports an error there, or has something moved at an end, a break or a continue, some path from
  one of those environments has the error or the move. `Precise` is this of the body; it is not inductive when
  it speaks of one path.
* `Steady`: from where less is moved the checker reports no more, and its result lacks at most
  what was lacking at first. This is why loops settle. The first pass adds to the head
  what comes back to it; the second begins with more, and by `Steady` adds only what it began with more,
  which is in its head already (`LoopMeaning`). So two of the eight passes change anything, and "8 passes is plenty"
  (`move_checker.py:743`) is true.
* `Grows`: what stands inside an `if` without an else gives nothing back, so that
  the branch's end has moved at least what the path around it has.

There is a lemma for each construct (`JudgedSequel`, `JudgedEnclosed`, `PlaceJudged`, `LetJudged`, `ExitJudged`,
`IfJudged`, `IfElseJudged`, `MatchJudged`, `LoopJudged`) and one for each action. `RestoreSaved` and `MergeSaved` are what
`save_states` and `restore_states` do where no name is declared again: going back, and the union.
The assumptions are the cases in which the code is wrong or the question is void, all of which
TLC exhibits (section 5): `~LoneReowns` (the finding of `moves_reown`), `~Shadowing` (states saved by name)
and, for `Precise` alone, `~AllLeave` (code after an if/else or a match all of whose branches leave is dead)
and `MaxTurns >= 1` (a move found in the next iteration needs one). The functions `Check`,
`Run`, `After` and `Passes` are defined by recursion, which in TLA+ is a `CHOOSE`; that they
satisfy their equations follows, without an induction theorem, from `LeastNat`.
TLC cannot check the invariant itself, which quantifies over all environments; it
checks `Sound` and `Precise`.

**Only model-checked**: the fairness of `RequestService` in the refinement;
liveness (`RequestService`'s, `CallsReturn`), which is out of the prover's reach, as are `ENABLED`
and induction over recursively defined data; and `ConsumedOnce`, since `Drops` walks syntax trees
with `RECURSIVE` operators. No other module has one.

## 5. Findings

Each has a run in which TLC violates what a comment of the repository says.

* `full_pool`: when the response ring looks full, nexus acknowledges the request
  unanswered, and from then on responses land one slot off their task's. With as many tasks
  as slots this happens without any failure, because a task can take its response, and
  sweep, before the worker has committed it.
* `moves_reown`: after an `if` without an else the checker goes on with the state of the
  branch. `eat(x)`, `if c { x = mk() }`, `eat(x)` is accepted.
  `docs/LANGUAGE_SPEC.md:2369-2370` says that such a binding "counts as moved".

Other divergences, which a reader can reproduce with constants of the models:

* A response whose task gave up stops the sweep for good (`ZeusRing`, 1 task, rings of 2,
  1 request given up on: `DeadHeadHarmless`).
* The second completion of a SEND_ZC is taken for that of the next recv (`TaskServer`, 1
  slot, 2 queue entries, 2 descriptors, 2 connections, `UseSendZc`: `IOEndsFirst`).
* A TLS connection ends with its close_notify still queued, while its slot and descriptor
  are freed (the same with `Tls`: `IOEndsFirst`).
* A multishot accept that ends with a connection is not armed again (the same with
  `Multishot`: `AcceptArmed`).
* An aborted transaction's versions become visible (`MausoleumTxn`, 2 slots, committed list
  of 2, 4 ids: `SeesOnlySnapshot`).
* Recovery writes every image it redoes to a page it allocates, not to the one the image is of
  (`recovery.ritz:356`). A committed page that a crash has taken is not restored, and each time
  the storage is opened the data file gets all of them once more. `wal.ritz:6` says that
  "Crash recovery replays committed transactions from the log" (`MausoleumStorage`,
  one budget of 2 processes, 2 writes and 1 transaction: `CommitsSurvive`).
* Nothing is ever undone: there is no undo pass (`recovery.ritz:8` names one), and an abort writes a
  record and leaves the pages as the transaction left them (`wal.ritz:5`: "Transactions
  can be rolled back by replaying undo records").
* `next_txn_id` reaches the file at a checkpoint, a close and the next open only. After a crash ids are
  given again, and a commit of the second bearer makes recovery redo the images of
  the first, which never committed (`MausoleumStorage`: `OnlyCommittedRedone` without
  `IdsOnce`). `recovery.ritz:11-12` says that only committed transactions' changes are visible after
  recovery.
* The log is never cut, and the analysis has 256 places, which ids keep once they have them:
  later transactions of a long log are not redone (`MausoleumStorage`, one budget of 3
  transactions: `AckedAreRedone` without `TableHasRoom`).
* A crash between the two writes of a page's record makes the records that later processes append
  unreadable, and their commits are not redone (`MausoleumStorage`, a buffer of 3 parts, one budget of 2 processes,
  3 writes, 3 transactions and 1 checkpoint: `AckedAreRedone` without `Torn`).
* A commit reports success whatever became of its record: `wal_write_commit` ignores its
  flush (`wal.ritz:320`) and `storage_commit_txn` ignores `wal_write_commit`
  (`storage.ritz:354`). The servers ignore what `storage_flush` returns, so an insert is
  acknowledged that was not written (`MausoleumStorage`: `AckedAreRedone` without `logFailed`).
* An eviction ignores a write-back that failed, and the page's bytes are gone
  (`buffer_pool.ritz:266`; `MausoleumStorage`, a budget whose faults have `"evict"`:
  `ImplementsPageStore`).
* A crash between the creation and the first write of the metadata leaves an empty file, with which
  the storage cannot be opened any more (neither `OpenNew` nor `Open` is enabled with `meta = 0`).
* Two builds of one tree share the temporary manifest and the binary's path, so one can
  record the hash of a binary that the other is linking (`BuildDriver` with one tree for
  both builds: `UpToDateIsFresh`). `cache.py:101-102` says why its own temporary files
  do not share a name.
* The key of an object is made from the sources as they were, the object from the sources as
  they are when the compiler reads them again. A source saved between the two puts the new
  source's object into the shared store under the old source's key, for every worktree
  (`BuildDriver`, `EditsAnytime`, 1 event: `UpToDateIsFresh`). `build.py:1590-1591` says that a
  hit is "an object compiled from exactly this source and import closure". Hashing first
  is "the safe direction" for the manifest (`build.py:1520-1522`); for the store it is not.
* In the same way ritz0 hashes the imports after it has read them: a source saved between the
  two is vouched for by a signature whose output does not have it (`SigCache`, `EditsAnytime`:
  `SigVouches`). `ritz0.py:212-213` says that the hashes are taken "so the sig vouches for the
  sources this .ll was actually built from".
* A compile without `--project-root` looks for the root upwards from its source, and neither
  the mode nor the misses record what it found: after `git init` or a new `ritzlib` in a
  nearer directory imports lead elsewhere, and the source is skipped (`SigCache`, modes
  `Found` and invocations `FoundInvocations` of `MCSigCache`: `SkippedIsFresh`).
  `ritz0.py:51-57` says that the mode covers the import roots "as ImportResolver resolves
  them". `build.py` always names the root; whoever runs ritz0 himself need not.
* `check_source_hash` reads the signature a second time, so the source is compared with one
  signature and its imports with another. If a source comes back with an older time and
  another compile of it saves in between, an output of other sources is skipped (`SigCache`,
  `OldTimes`: `SkippedIsFresh`).
* `_process_import` looks for a circular import after it has returned for every file that was
  processed before, so the error is never raised (`import_resolver.py:838-844`).
* `save_states` goes by name, and the outer scope's state of a name overrides the inner
  one's: an inner `x` that was moved counts as owned after a branch that returns
  (`MoveChecker` with `Shadowing` and 6 statements: `Sound`). After an if/else or a match
  all of whose branches leave, moves of a branch count in the dead code (`AllLeave`:
  `Precise`).
* `cache.py` merges the whole in-memory database of imports into the file's in
  `_save_imports_db`, although the comment at `cache.py:103-106` says that a save merges only
  the entries this process changed; this is not modelled.

## 6. Not modelled

`PROJECT.json` lists every component with its status. Most of the repository's Python is the
translation of syntax trees by sequential functions whose only state is the tree (parser,
type checker, specialisation, the emitter's types and values): there is no protocol in it
for a model checker to explore, and the map's share of the lines is low for that reason.
The browser's pipeline, codecs and cryptography are the same kind of code. Harland's
scheduler runs nothing yet: its timer is disabled (`harland/kernel/src/sched/mod.ritz:400`).
A crash of a worker and the daemon are in the plan.

Of what is modelled: `ArtifactStore` leaves out the metadata beside an object; `BuildDriver`
the test runner, packages, library targets and changes of the import graph; `SigCache`
dependency namespaces, the second spelling of a candidate (`foo.bar.ritz`), the metadata
cache (which `compile_file` turns off), and a signature that cannot be read or written;
`MausoleumStorage` a crash of the machine (nothing is ever synced, `storage.ritz:135`), a page or a
header of which a part is written, INSERT records, `recovery_checkpoint` and the flush of one page,
which nothing calls, checksums, LSNs and log segments;
`MoveChecker`
borrows, types and temporaries; `Drops` temporaries, the payload of a matched enum, and the
order in which the bindings of a scope drop.

## 7. Plan

1. `ZeusDaemon`: spawn, watch, stop and hot reload of workers; composed with the rings
   for a worker that dies between commit and acknowledgement, and for the window in which
   two workers share a region. Abstract specification: `RequestService` with a server that
   can restart.
2. The database: `MausoleumStorage` composed with `MausoleumTxn`, then the B-tree, whose
   splits write several pages before one flush. Abstract specification: a map from keys to the
   versions of the acknowledged writes.
3. `HarlandIpc` and `HarlandCap`: channels, capability tables, derivation and revocation.
4. The compiler: temporaries and matched payloads in `Drops`; borrows in `MoveChecker`; the
   import cache with several processes; changes of the import graph in `BuildDriver`.
5. Proofs: the invariants of 1; `ConsumedOnce`, with the emitter's walks as functions by depth, as
   `MoveChecker`'s are.
6. Several valet processes on one ring (`valet_run`, `valet.ritz:1797`), and HTTP/2 streams.
