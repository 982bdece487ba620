# Verification of sotgraph

sotgraph keeps a graph of a repository's symbols in one SQLite database under
`.sot/`, keeps it in step with the working tree while editors, git, a watcher,
hooks and command-line runs work side by side, lets an external engine index
part of it, and issues receipts about changes. This directory models the parts
whose correctness depends on interleavings, failures, order and the combination
of partial facts. TLC checks the models on small instances; TLAPS proves the
properties listed under "What is proved" for every instance.

Paths below are relative to `src/src/sot_graph/`.

## The system

| Part | State it keeps | Operations | What is hard | What makes it correct |
|---|---|---|---|---|
| Write lock (`locking.py`) | a flock on `.sot/write.lock`, a per-process registry with nesting depth | `acquire`, `release`, reset after fork | threads and processes, fork sharing a descriptor, deletion of the lock file, death | one holder, on the live file; exact nesting; no leaked flock; `acquire` returns |
| Reconciler (`reconciler.py`) | none of its own; jobs and parse results in memory | `reconcile`, `reconcile_path`, `reconcile_paths` | parses without a lock, publishes under it; files change meanwhile; transactions fail | rows describe the file they name; no older parse wins; a clean summary means in sync; convergence |
| Extractor (`extractor.py`) | none | `parse_file_graph` | reads a file twice | hash and graph of the same content |
| Graph store (`db.py`) | journal, nodes, edges, parked references, provider ledger | `commit_file_batch`, `delete_path`, resolution, orphan sweep, rehome, ledger operations | references of other files outlive what they point at; separate lock sections | rows come from references; none is lost, doubled or left dangling |
| Watch loop (`watcher.py`) | snapshot, batch, deferred paths | poll or watchfiles loop, debounce, retry | busy locks, changes while a batch runs | nothing that changed is forgotten |
| Watcher daemon (`watcher.py`) | pid and log files | start, stop, status | check and spawn are not atomic | at most one, and it is known |
| Query-time freshness (`freshness.py`, `cbm.py`, `graphstore.py`) | pid lock of the detached run, the published snapshot | probe, fast tier, spawn, inline reconcile, engine index, publish, purge | stale probe, duplicate spawns, two stores of different age, engines side by side | what is called current is current; the views converge |
| Engine daemon (`engine_daemon.py`) | socket and pid file, one engine on a pipe | call, spawn, serve, restart, idle exit | two clients spawn, files of a dead daemon, late answers | an answer belongs to its request; every call returns; every daemon leaves that no hanging engine keeps |
| Managed runtime (`providers/managed.py`, `runtime.py`) | ownership manifest, ready marker, execution lock | prepare, query, sync, quarantine | death in the middle of a sync, late writers, tampering | queries go to a complete index nobody writes; a quarantine stays |
| Artifact store (`providers/artifacts.py`, `bootstrap.py`) | digest directories, pointer, write lock | import, promote, uninstall, resolve, bootstrap | death between staging, rename and pointer; reads outside the lock | a digest appears once and whole; the pointer names an installed one |
| Assurance decisions (`assurance/state.py`, `resolution.py`) | none | `decide`, `safe_commit_verdict`, test reports and their echo | merging partial facts, unsaid counts | never more certain than the facts; failures block |
| Assurance evidence (`assurance/receipts.py` and others) | receipts | scope receipt, diff receipt | collected step by step from a graph that moves | an absence is real; what breaks a caller does not pass; a finished change is closed |
| Trust verifier (`verifier.py`) | none; edits rows at query time | verify, rehome | moves while a parse is in flight | a hit exists where it says |
| Importers, adapters, services, vendored extractors | derived data | translate, rank, format | mostly sequential | - |

How they interact. Every writer (command line, watcher, hook, MCP server,
freshness gate) creates a `Reconciler` on the same database. Phase A (scan, hash,
parse) takes no lock. Phase B takes the write lock, checks each parsed file
against the disk again, and commits under a compare-and-swap of the journal's
generation. Deletions, resolution of references and the orphan sweep take the
same lock, `reconcile` once for all of them, `reconcile_path` and
`reconcile_paths` once for each. The watch loop calls `reconcile_paths` with what
changed; a lock that stays busy for 10 s is an exception, `LockBusy`. A query
probes the index before it answers and reconciles a few files itself or starts a
detached reconcile. A reconcile lets the engine index what it can, through the
engine daemon; the engine's binary comes from the artifact store, and a managed
engine works in a profile of its own. Receipts read disk and graph while all of
that goes on, and hand their facts to the reducers.

## The modules

| Module | Models | Composes with |
|---|---|---|
| `Mutex` | the abstract promise of the lock: a re-entrant mutex whose holder may die | implemented by `WriteLock` |
| `WriteLock` | `locking.py` on POSIX | - |
| `Publication` | `reconciler.py` with the journal side of `db.py` and the two reads of `extractor.py` | uses the lock as a mutex (`gate`) |
| `Watcher` | the loops of `watcher.py` over `reconcile_paths` | takes `Publication`'s outcomes for one path |
| `GraphStore` | edges and parked references of `db.py` | one step per locked operation; looks into what `Publication` treats as a value |
| `Freshness` | `freshness.py`, `reconcile_dispatch` of `cbm.py`, the views of `graphstore.py` | takes a builtin reconcile of one path as a step |
| `EngineDaemon` | `engine_daemon.py`, client and daemon | - |
| `SealedIndex` | what a managed profile promises of its index | implemented by `ManagedRuntime` |
| `ManagedRuntime` | `providers/managed.py` over the manifest of `providers/runtime.py` | - |
| `Registry` | what the artifact store promises about an artifact name | implemented by `ArtifactStore` |
| `ArtifactStore` | `providers/artifacts.py` with `providers/bootstrap.py` | - |
| `Verdicts` | the pure reducers of `assurance/` | extended by `Receipts` |
| `Receipts` | scope and diff receipts, collected while the graph moves | takes publish, resolve and sweep of one reference as steps |

Each `MC...` module gives the sets TLC needs; each `...Proofs` module extends the
module it is about. `WriteLockProofs` extends two, `WriteLock` and `Watcher`,
which is why the watch loop's `WatchInit`, `WatchNext`, `WatchSpec`,
`WatchFairSpec`, `WatchTypeOK` and `watchVars` carry their prefix, and
`ReceiptsProofs` holds the proofs about `Verdicts` as well. Operators whose names
begin with `Mutant` are wrong variants of the definition that follows them, one
for each property: with the variant in place TLC must find the property violated.

### WriteLock

A process is its pid, its threads, its copy of `_HELD_LOCKS` (`registry`) with
`_REGISTRY_PID`, and `guard`, the thread inside `_REGISTRY_GUARD`. A lock file
is an inode; `path` is the inode the path names now. flock belongs to an open
file description, shared over fork, so `refs[p]` is the set of processes with a
descriptor of p's description and `flocked` the set of locked ones.

`acquire()` is `Request`, then under the guard `Nest` or `HeldElsewhere` or
`Open`, `Flock` or `FlockBusy`, `Register` or `Orphaned` (the verification of
`_fd_guards_live_path` and what follows its failure), then `Retry` or `GiveUp`
at the deadline. `release()` is `Release`, or `ReleaseInherited` for an object
copied from the parent. `Start`, `Fork`, `Crash`, `Unlink` and `Tick` are the
environment.

Assumed: a pid is not reused while descriptors of its former owner are open;
the lock file is not deleted while somebody is inside the lock (nothing in the
repository deletes it; an `rm -rf .sot` under a running writer is outside what
flock can protect); one lock path per process.

### Publication

`disk` and `stamp` are the files and their mtimes, `journal` the `file_journal`
rows, `graph` the content the node and edge rows were extracted from. A writer
is `pc` (list, scan, parse, publish, sweep, prune), `mode` (`reconcile`, forced,
or `reconcile_path`), and a stage per file: listed, stated, hashing, job, read,
parsed, fresh, missing, doomed. `record` is the `ParseJob` and later the
`ParseResult`, `prior` the row it was made with, `current` and `known` the sets
the deletion sweep compares. Each read of the disk is a step of its own, so files
change between stat, hash, the read of the bytes, the extractor's second read,
the check of phase B and the commit. So is each read of the journal:
`reconcile_path` reads the row before it stats the file (`StartPath`), a scan
caches all rows after it listed the files (`CacheJournal`) and looks a path without
a cached row up again after its stat (`LookUp`, `reconciler.py:393`), so that a
job can have an mtime that is older than its generation. `seen` in a record and in
a row is history: the mtime of the file when the hashed bytes were read.

Abstractions: a transaction is one step; contents are model values with equal
hash and size exactly when equal; no two edits of one file share an mtime; the
tolerance of 2 s in phase B's mtime comparison is a free choice (`Fresh` and
`Conflict` are both enabled for a changed file with the parsed hash); janitors
after a publication do not touch the journal and are left to `GraphStore`; a
broken worker pool is a failed window. `SweepBusy`, `DeleteBusy` and `GateBusy`
are lock timeouts, `CommitFails` a failed transaction, `Crash` a kill; together
they are bounded by `MaxFaults`.

### Watcher

One loop over either backend. `current` is the poll loop's snapshot, `events` what
watchfiles has not returned yet, `batch` and `deferred` the two sets of paths the
loop carries. `Read` fixes what one `reconcile_path` sees, then exactly one
outcome follows, each with the condition the code has for it (`Unchanged`,
`Publish`, `Conflict`, `Remove`, `RemoveBusy`, `PublishBusy`, `Unreadable`, and
`Raises`, the `except Exception: continue` of `reconcile_paths`: an error of the
database while a path's rows are read, deleted or replaced loses the path without
deferring it). `EndBatch`, `JanitorBusy` and `JanitorRaises` are the janitors,
`RetryDeferred` and `StopRetrying` the short retries of the carry-over. `failed`
is history, how the last attempt at a file went; `GaveUp` lists the ways to forget
one: the lock was busy while it was to be published, it was unreadable, something
raised, or it came and went unseen. `busy` is another process that keeps the lock
beyond the timeout.

### GraphStore

`indexed[f]` is what the rows of f were made from: the symbols it defines and
the references it makes, each with its relation, its name and the module it
named. `edges` and `pending` are the two tables. `Publish` is
`commit_file_batch`, `Remove` is `delete_path` with its requeue, `Resolve` is
`resolve_all_pending_edges`, `Sweep` is `cleanup_orphan_edges`. `Target` is the
precedence of the resolution pass, priorities 2 to 5, as one chain: re-exported
by the module, defined in the module, imported by the caller, in the caller's
directory, unique in the project, the module itself. A writer that published
owes `Resolve` and then `Sweep`; `Interrupt` is a kill or a busy lock between
them. `linked` and `cut` are history: the references that were ever attached
since their file was published, and those of them whose symbol a publication
dropped.

Left out: receivers with the method tables (priorities 0 and 1), edges inside a
file, names that are prefixes of other dotted names, the `AMBIGUOUS` label, and
the source symbol of a reference (each counts for the file node).

### Freshness

A version of a file is its mtime, 0 is "no file" or "no row"; `text` says which
versions have the same content, so that a file can be touched or set back. `sot` is
what `sot.db` has, `live` the engine's own store, `published` the copy under
`.sot/cbm/`. `Snapshot` is `find_cbm_db`, `View` the newest-wins rule of the
views, `Modified`, `Deleted` and `Unindexed` the three answers of
`staleness_probe`. `Reconciled` is what `reconcile_path` leaves: with an equal hash
the row stays, its old mtime with it. A query goes `Ask`, `ProbeStore` (which
chooses the fast tier or an inline reconcile), `FastPath` once per path and
`FastEnds` (a deletion or an old snapshot asks for a background run), `LockHeld`
or `SpawnReconcile` and `WriteLockFile`, and `Answer`, with `says` as its claim. A
reconcile (inline in a query, or of a detached worker) is `IndexReads` and
`IndexCommits`, `Publish`, `Cover`, `FillGap` per path, `Purge` and, where the
engine is unavailable, `Builtin`. Nothing keeps engines apart: two reconciles index
side by side, `IndexRetries` turns to a cold spawn while the daemon's engine goes
on, and the engine of a killed worker goes on too; `late` is what such engines have
read and may still commit (`LateCommits`), and `overlapped` says that an engine
began to index while another was at it. `Restore` gives a file an older mtime, as a
restored backup does; `WorkerDies` ends a worker; `IndexFails` and the failing
branches of the other steps are the code's own.
`calm` is history: whether since the probe nobody else wrote and nothing failed.

Two properties have a named exception. `CurrentBarringRaces` compares contents, and
leaves out an envelope of the fast tier about an `Overtaken` file: one whose row in
`sot.db` is older than the snapshot's, which the file was set back to. An inline
reconcile has no exception. `SnapshotNeverGoesBack` ends where engines index side by
side, because the older one may commit last; `Converges` holds there too.

Left out: a probe or a store that raises (the envelope then claims nothing), the
ages of snapshot and pid lock as times (either may be found too old at any
moment), and schemas.

### EngineDaemon

`sock` and `pidfile` are the two files, as the daemon they lead to. A client is
in `connect`, `reply`, then `probe`, `pid`, `write`, `await` when it has to spawn;
`attempt` counts its two rounds. A daemon is in `boot`, `bind`, `start`, `serve`,
`handle`, `restart`, `wait` or in its `finally`. `session` is the child: `todo`
is what was written to it, `out` the pipe back, `held` the lines that
`readline()` took off the pipe but nobody looked at. `Execute` and `Chatter` are
the engine, `EngineDies` and `DaemonDies` kills; a client whose patience ends
leaves its connection behind in `backlog`. `jammed` is an engine that hangs in the
middle of a line or stops reading (`EngineJams`), in a call or in a handshake. A
daemon at such a point is `Blocked`: neither `readline()` (`engine_daemon.py:248`)
nor the write (`235`) has a deadline, so it has no step until the engine gets on
(`EngineUnjams`) or is killed (`JammedDies`). `NoCommand` is a daemon that finds no
engine to run and leaves through its `finally`.

Left out: pings and refused tools, which change nothing, and the probes'
connections, which send nothing. `executed` counts the engines of daemons only,
not the client's fallback to a cold spawn.

### ManagedRuntime

`manifest` is the state the ownership manifest records, `marker` is
`managed-ready.json`, `config` the engine's config store, `index` what the engine
has built, `orphan` a writer a broken dispatch may have left behind, `tampered`
a profile whose directories are no longer as created. An instance is `call` and
`pc` plus what it has read: `prepare()` walks from `init` through `set`, `get`
and `prove` to the marker; `query()` runs its guard (`GuardStatus`,
`GuardMarker`, `GuardConfig`) once before the lock and once under it, passes
`gate`, and dispatches over `mcp` or `cli`; `sync()` is
`begin`, `index`, `run`, `bind`, `commit`, `complete`. `Crash` kills an instance
at any point; `OrphanWrites` is the left-over writer. Used from one thread per
instance.

### ArtifactStore

For one artifact name: `dir[d]` is the digest directory (absent, whole with the
pin's manifest, "strange" when it is whole with another engine commit's, or damaged
from outside; that `partial` never appears is part of the invariant),
`pointer` the promoted digest, `lock` the `_mutation()` lock. `import` is
`LockImport`, `Exists` (which refuses other bytes and another manifest,
`artifacts.py:381`), `MakeStage`, `Copy`, `WriteManifest`, `Install`; `importOther`
is an import with a manifest that is not the pin's;
`promote` is `LockPromote`, `Verify`, `Flip`; `resolve` is `ReadPointer` and
`CheckTarget`; `uninstall` resolves, takes the lock (`LockUninstall`), resolves
again and does `Unlink`. `bootstrap` is
an import and a promotion in two lock sections. `Stops` is a kill, a failed
system call or a refusal at any step: the lock goes with the process, the stage
directory stays behind. `SpoilSource` and `MendSource` are the local binary
changing, `Damage` an installed file changing.

### Verdicts and Receipts

`Verdicts` has the reducers with their data cut down to what they ask: `Calls` is
the condition of each status in `decide()`, `Decide` picks the gravest, `Valid`
and `Failed` are `validate_test_results`, `Canonical` is `canonical_test_results`,
`Binding` is how a pre-receipt fits the diff, `SafeCommit` is
`safe_commit_verdict`.

`Receipts` collects their facts. `base`, `disk` and `journal` are the content of
each file at HEAD, now, and in the graph; `ref[f]` is the caller's reference:
none, parked, or an edge. A scope receipt is `CompileUniverse`,
`ResolveIdentity`, `CheckCited`, `MeasureCoverage` and `MintScope`, which asks
`GateBlocked`; a diff receipt is `AnalyzeDiff`, `CollectDangling`, `CheckChanged`
and `MintDiff`, with a pre-receipt and a test report perhaps.
`Edit`, `Publish`, `Resolve` and `Sweep` may fall between any two of these.
`steady` is history: the files to which nothing happened since the collection
began. `Measured`, `FloorMet`, `ManifestErrors` and `Dangling` are the code's own
conditions.

Assumed: one symbol; the provider ledger is empty; no collection meets its cap;
no storage call fails (`Verdicts` has those facts as free values).

## The runs

| Run | Shows | Instance |
|---|---|---|
| `WriteLock` | `TypeOK`, `MutualExclusion`, `HolderGuardsPath`, `DepthCountsBlocks`, `NoLeakedFlock`, `OnlyOwnerUnlocks`, `ImplementsMutex`, `AcquireReturns` | 2 processes of 2 threads, 3 inodes, nesting 2 |
| `Publication` | `TypeOK`, `StampVouches`, `NeverGoesBack`, `CleanRunIsInSync`, `Converges` | 2 writers of which 1 runs `--force` and the other `reconcile_path`, 1 file, 2 contents, 2 edits, 1 fault |
| `Watcher` | `WatchTypeOK`, `NothingForgotten`, `PollingCatchesUp` | 2 files, 3 edits, 2 faults, both backends |
| `WatcherDrops` | violation of `BusyPathsAreDeferred` | as `Watcher` |
| `GraphStore` | `TypeOK`, `RowsAreReferences`, `OneRowPerReference`, `NoDanglingAtRest`, `LinksAreKept` | hub, library and caller, 2 writers, 6 publications or deletions, 2 interruptions |
| `ManagedRuntime` | `TypeOK`, `ServedFromCompleteIndex`, `ImplementsSealedIndex` | 2 instances, 3 config changes, 3 faults |
| `EngineDaemon` | `TypeOK`, `AnswersAreOwn`, `ReplaysAreBounded`, `CallsReturn`, `DaemonsLeave` | 2 clients of 1 call, 2 daemons, 1 fault |
| `EngineDaemonNoise` | violation of `NoiseIsSkipped` | 1 client, 1 daemon |
| `Freshness` | `TypeOK`, `CurrentBarringRaces`, `SnapshotNeverGoesBack`, `Converges` | 1 file of the engine, 1 gap file, 1 query that takes either tier, 1 detached worker, 3 edits, 1 fault |
| `Receipts` | `TypeOK`, `AbsenceIsReal`, `NoKnownCallerIsLeft`, `Closes` | the defining file, 2 callers of which 1 untracked, 2 edits |
| `ReceiptsEcho` | violation of `FailureClaimsBlock` | 1 caller, 1 edit, reports: none, or one failure without `ran` |
| `ArtifactStore` | `TypeOK`, `ImplementsRegistry`, `NeverWedged` | 3 processes, 2 digests, 2 manifests, 2 calls beside the bootstraps, 2 faults |

Why these bounds are enough to be interesting.

- The lock: three inodes let the file be deleted twice while two contenders hold
  different old ones; with two processes one can be the parent of the other; two
  threads and depth 2 are what re-entrance distinguishes.
- Publication: rows of different files do not interact apart from the window they
  share, so one file is checked with two writers. Two edits allow change and
  change back around a parse; one fault falls anywhere; a forced run of the index's
  first generation overlaps the other writer's runs, and its `reconcile_path` falls
  between the stat and the late look-up of a scan. Contents are
  interchangeable, so `MCSpec` fixes the first one. The theorems cover the rest.
- Watcher: one file can be in flight while the other waits, deferred or not; two
  faults are a removal that raises and a janitor that does.
- GraphStore: the hub both re-exports the symbol and defines it in another
  version, the library defines it or not, the caller names the hub, the library or
  nothing, so all priorities are taken, or imports the library beside a symbol of
  it, so that two imports can meet at one file node; six publications delete and
  recreate the target after it was linked. The two writers are symmetric.
- ManagedRuntime: one instance syncs while the other's query is between guard and
  lock; three faults are a timeout, a left-over writer and a death. The
  instances are symmetric.
- EngineDaemon: two daemons are enough for one to take the other's socket; one
  call each makes both attempts and both tries of each happen; the one fault is a
  kill, a failed start or an engine that hangs.
- Freshness: one path the engine owns and one it does not; a fast tier of one
  path overflows with two; the query's inline reconcile overlaps the worker, and
  both index at once; three edits are two versions and the return to the first,
  which is what an overtaken row takes (without its exception
  `CurrentBarringRaces` is violated within these bounds).
- Receipts: an edit of the symbol and one of a caller, in either order, around
  every step of a collection; the untracked caller is the one no diff shows.
- ArtifactStore: the pinned digest is bootstrapped again and again while the
  others import, promote and uninstall both digests; two faults are, for
  example, a kill with a stage directory left and a damaged file.

All bounds are constants, and the theorems do not depend on them.

`CHECK_DEADLOCK FALSE` is set where the bounded environment ends and the system
then rests: both `Watcher` and both `EngineDaemon` runs, `WriteLock`,
`Publication` and `GraphStore`. In `ManagedRuntime`, `Freshness`, `Receipts` and
`ArtifactStore` somebody can always start another call, and deadlock is checked.

### Fairness

- `WriteLock`: strong fairness of a thread's steps inside `acquire()`, because
  it polls and sleeps: the guard is free again and again, not for good. Weak
  fairness of the clock. A forked child whose guard was held at the fork waits
  forever (`GhostGuard`); the property excludes it.
- `Publication`: weak fairness of a running operation. Strong fairness of
  starting a `reconcile`: the system claims freshness only as long as full
  reconciles are run again and again (by hooks, by the watcher, by queries), and
  one is possible only while that writer is idle. No fairness of edits or faults.
- `Watcher`: weak fairness of the loop and of the other lock holder letting go.
- `EngineDaemon`: weak fairness of the steps of a running client, each of whose
  waits has a deadline, and of a running daemon, whose waits have one except behind
  an engine that hangs: a `Blocked` daemon has no step that fairness could demand.
  None of the engine and of whoever kills it. `CallsReturn` needs no more, because
  the client's own deadlines end its call; `DaemonsLeave` says that at the end only
  blocked daemons are there.
- `Freshness`: weak fairness of queries and of reconciles under way; strong
  fairness of a snapshot being found old, because it is with time, and of the
  spawn, which is possible only between two runs.
- `Receipts`: weak fairness of the reconciler's steps and of a collection; strong
  fairness of taking a plain diff receipt (of no prediction and no report), which
  is possible only between collections.
- `ArtifactStore`: weak fairness of running processes, of the bootstrap (every
  reconcile without an engine tries one) and of a good source coming back.
- `GraphStore` and `ManagedRuntime` state no liveness.

### What the violations show

- `WatcherDrops`: `reconcile_path` turns `LockBusy` at publication into
  `"error"`, so the path is not deferred and its change is forgotten
  (`reconciler.py:542`), against `reconciler.py:566` and `watcher.py:75`.
- `EngineDaemonNoise`: `_read_response` waits with `select()` on the pipe but
  reads through a buffered reader. When a line of noise and the answer arrive
  together, the answer stays in the buffer, where `select()` never looks: the call
  waits out its 600 s (`engine_daemon.py:244`, against the comment at `254`).
- `ReceiptsEcho`: a report `{"failed": 1}` is valid and blocks, but its canonical
  echo states `ran` 0 and is invalid; the verdict becomes `warn`
  (`assurance/resolution.py:879`, against `929` and `1074`).

### Seen without a run

What the models or the reading showed and no run of its own asserts:

- The extractor opens the file again after it was hashed. A file changed and
  changed back around that read is published with the hash of one content and
  the graph of another (`extractor.py:217`); `CleanRunIsInSync` leaves it out by
  asking that the files rest.
- The sweep of `reconcile` compares the known paths with a scan made before the
  parse and removes the rows of a file that another writer published in between
  (`reconciler.py:779`); a later reconcile restores them (`Converges`).
- `LockBusy` at the janitors' gate is not caught and ends the watch loop
  (`reconciler.py:590`, against `watcher.py:10`), and so does an error of the
  janitors; the `Watcher` properties exclude a dead loop.
- Any other error of a removal than `LockBusy` is swallowed after the poll loop's
  snapshot moved on (`reconciler.py:583`): the deletion is forgotten until a full
  reconcile. `NothingForgotten` names it (`raised`).
- An import attached to a file node is requeued with its module when that file
  is deleted; the module is then no longer of the project, so the same reconcile
  prunes the row as external (`db.py:1982`, after `1107` and `1177`), and nothing
  is left to attach when the file comes back. `LinksAreKept` is about symbols.
- The repository's `README.md` (lines 116 and 523) speaks of `BEGIN IMMEDIATE`;
  the transactions are the default deferred ones of the Python driver. The write
  lock, not SQLite, keeps writers apart.
- Managed runtime: `_guard_ready` runs without the lock (`managed.py:238`), so a
  query beside a sync can quarantine a sound profile (`400`-`402`, against
  `25`-`26`). A timed-out MCP query does not quarantine, though the docstring
  says any timed-out dispatch does. A `sync()` before the first `prepare()`, or a
  death inside `_create`, leaves a namespace directory that `initialize()` then
  always rejects.
- Engine daemon: after two timed-out tries the engine lives on and the next
  request goes to one that is still busy; a daemon's `finally` unlinks files of
  another daemon; a stale pid file whose pid is in use again blocks the spawn.
- Publication: a job made with a late look-up may put an older mtime into the row
  of newer bytes (`reconciler.py:393`), so a row's mtime can go back though what it
  was read from does not. The next probe sees a differing mtime and nothing worse.
- Freshness: two queries can both pass the pid-lock check and spawn. A reconcile
  under way with an older snapshot can purge rows a query has refreshed before
  the query reads them (`cbm.py:617`), which is the race `CurrentBarringRaces`
  excludes; what the views show can go back there until the next probe. A failed
  publish is not disclosed in the envelope. Reconciles that publish at once share
  one temporary file (`cbm.py:210`).
- Freshness: a file set back to the content of its row in `sot.db`, while the
  snapshot has the version in between, is `unchanged` for `reconcile_path`
  (`reconciler.py:538`) and keeps its older mtime. The fast tier then answers
  "fresh" and the views serve the snapshot, against `freshness.py:291` ("the
  refreshed paths immediately outrank the (older) CBM snapshot"). It is the
  exception `Overtaken`; the next index run repairs it.
- Freshness: a file the engine does not index that is touched without a change of
  content keeps the old mtime in its row for the same reason, so the probe calls it
  modified, and every query reconciles it, until its content changes or a builtin
  reconcile runs. What is served is right, which is why `Converges` compares
  contents.
- Receipts: with ten or more files, one stale file outside the cited paths can
  hide a caller and the receipt is still assured (the coverage floor is 0.9;
  against `receipts.py:423`-`431`). That is why `AbsenceIsReal` asks for fewer than
  ten files, and why it and `NoKnownCallerIsLeft` name `parked` and `cut` callers:
  parked references do not enter the scope verdict, and a caller whose edge was
  swept is known to nobody. A diff with a deleted file is never closed.
- Artifact store: an installed digest that was damaged can be neither uninstalled
  nor imported again; the store works again once another digest is promoted
  (`NeverWedged` excludes it). When the pinned bytes were imported with the manifest
  of another engine commit, every bootstrap is refused (`artifacts.py:381`) until
  somebody promotes the digest by hand (`NeverWedged` names it too). An uninstall is
  undone by the next bootstrap.

## What is proved

Assumptions are the named ASSUMEs of the modules (bounds are numbers, special
values are distinct, `GraphStore` keeps one reference per relation and name as
the primary key of `pending_edges` does, and an import without a module, which is
a relative one that leaves the root (`extractor.py:310`), is not one of its own
file), and that a step of the model is atomic.

`WriteLockProofs`, for any processes, threads, inodes and nesting: `TypeOK`,
`MutualExclusion`, `HolderGuardsPath`, `DepthCountsBlocks`, `NoLeakedFlock`,
`OnlyOwnerUnlocks` and `ImplementsMutex`. Exclusion alone is not inductive: it
needs that flocks of one inode exclude each other (`FlockExclusive`), that an
attempt between open and verification owns the guard (`AttemptOwnsGuard`), that
a holder has its registry entry and a flock on the live inode
(`HolderIsRegistered`), that registry entries and flocks have holders
(`RegisteredIsHeld`, `FlockIsRegistered`) and that dead processes have nothing
(`DeadIsClean`). Two holders then lock the same inode, and the kernel admits
one. The refinement maps the owner to the only holder and shows every step to be
one of `Mutex` or a stutter.

`WriteLockProofs` also has the watch loop, for any files, edits and faults:
`WatchTypeOK` and `NothingForgotten`. The property is not inductive because it
does not say what the loop has in hand. `Past` says that no snapshot is later than
the last edit, so an edit differs from all of them; `AtWork` that a batch is worked
off before the loop sleeps, and that a path that changed after it was read will be
noticed, or came and went unseen; `Unseen` what a file marked so looks like. A path
that is dropped after an error is in neither, and is what `GaveUp` is for.

`PublicationProofs`, for any writers, files and contents: `TypeOK`,
`StampVouches`, `NeverGoesBack` and `CleanRunIsInSync`. The invariant follows an
mtime: a record is never newer than the file, and if it still has the file's
mtime, then what was hashed, and once parsed what was extracted, is the file's
content (`Honest`); rows inherit this from the record they are made of
(`HonestRow`). An edit breaks every equality because its mtime is new. For
`NeverGoesBack` a second invariant (`Order`) says that the generation a record
would replace is not ahead of the journal, and if it is the journal's, the bytes
of the row were not read later than the record's own; the stat does not come into
it, which may be older than the row in hand (`LookUp`). A commit raises the
generation, so every other record of that file has lost its race. Only a deletion
restarts generations, hence the set `pruned`. For `CleanRunIsInSync` a third
(`Calm`) speaks of the operations nothing changed under. If one is steady, all
that run are (`Together`), so whatever any of them publishes or deletes agrees
with the disk and what is in sync stays so (`SyncKept`). What a steady writer read
is still so (`ReadNow`), and until it counts a failure it has in hand every file
that is not in sync: an existing one at some stage before its commit, a deleted
one among the known paths (`Sees`). At the end of its sweep nothing is left in
hand.

`GraphStoreProofs`, for any files, symbols, contents and writers: `TypeOK`,
`RowsAreReferences`, `OneRowPerReference`, `NoDanglingAtRest` and `LinksAreKept`,
and `TargetIsUnique`, the resolver's contract never to pick one of several.
`LinksAreKept` needs most: an edge without its node is accounted for in `cut`
(`DeadIsCut`), a reference to a symbol has one row (`SymbolHasOneRow`), and a
reference that was attached is parked by name alone (`OnceLinkedIsPlain`), so the
external rule cannot prune it. For `OneRowPerReference` there remain the file nodes:
an import of a symbol that its module does not define falls back on the module's
file node and takes its name there. It meets no parked import of the module
itself, because a file node is never ambiguous and the same pass attaches that
import to the same node (`ImportOfFileIsFound`), unless it stands in the file itself
and names no module (`SelfImportsAreHinted`).

`FreshnessProofs`, for any files, queries, detached reconciles, edits and faults:
`TypeOK`, `CurrentBarringRaces` and `SnapshotNeverGoesBack`. The stores and the
engines left alone know nothing later than the disk (`Older`) and the engine
nothing but its own files (`EngineOnly`). Until engines index side by side, one at
a time has something to commit, left alone or not (`Single`), and what it has read
is not older than what it replaces (`Ahead`); reconciles publish the engine's
store as it is, so the snapshot does not go back either. For what a query claims,
`Knows` says what an undisturbed one knows at each point of its way: in the fast
tier every file outside the paths still to treat is right (`FastDone`), and each
step of an inline reconcile leaves one more store as the next one needs it
(`RunDone`).

`EngineDaemonProofs`, for any clients, daemons, calls and faults: `TypeOK`,
`AnswersAreOwn` and `ReplaysAreBounded`. Ids grow within a session, so a line with
the id that is waited for answers the request being served and no late one
(`IdsGrow`). A request is with one daemon, once, and only moves forward there,
from the queue over the service to the pipe (`PlaceInv`, `OnceInv`). The bound is
then a budget: what engines have run, the tries left where the request is now,
and the attempts the client has not made never exceed four, two attempts of the
client times two tries of the daemon (`BudgetInv`).

`ManagedRuntimeProofs`, for any instances and faults: `TypeOK`,
`ServedFromCompleteIndex` and `ImplementsSealedIndex`. A READY manifest with a
vouching marker means a complete index without a left-over writer (`Healthy`); at
most one profile object owns an open sync (`OneOwner`); who is inside the lock's
section holds it (`Placed`);
`InSync`, `Preparing` and `Reading` say what each call may conclude from what it
read. What a guard reads before the lock may be stale when it is used, so only the
second guard, under the lock, carries the property.

`ArtifactStoreProofs`, for any processes and digests: `TypeOK` and
`ImplementsRegistry`. The invariant is the lock holder's knowledge (`LockInv`):
who works inside has the lock, an installed stage is whole, the digest to be
promoted is there, the digest to be unlinked is the selected one and the one
asked for. Under the mapping, `Install` is the registry's `Install`, `Flip` its
`Select`, `Unlink` its `Deselect`; every other step of a process waits.

`ReceiptsProofs` begins with the reducers, for all facts, reports and counts:
`WorseFactsNoLighterStatus` (facts at least as bad in every field never get a
lighter status), `AssuredIsEarned` (`decide()` gives `ASSURED_WITHIN_SCOPE`
exactly to the facts that are listed there, one by one), `PassNeedsAssurance`, and
`EchoOfValidReport`, which says exactly which valid reports survive their echo;
the case it leaves out is the one `ReceiptsEcho` shows.

Its second part is about collection, for any callers, edits and reports: `TypeOK`,
`AbsenceIsReal` and `NoKnownCallerIsLeft`. `References` says that a published
caller has a reference or was cut; `ScopeReads` and `DiffReads` say, for each step
of a collection, what the findings so far know of the files that stood still. A
finding about a file is only used while the file is in `steady`, so every
disturbance either leaves the finding true or takes the file out.
`FloorIsExhaustion` is the arithmetic: below ten files one stale file misses the
floor of nine tenths.

### Only model-checked

Every safety property and every action property of a passing run is proved. The
liveness properties are not (`AcquireReturns`, `Converges` of `Publication` and of
`Freshness`, `PollingCatchesUp`, `CallsReturn`, `DaemonsLeave`, `Closes`,
`NeverWedged`): liveness under fairness and ENABLED are out of the prover's reach.
So is what a recursive definition computes for every input; the modules use no
recursion.

## Not modelled, and the plan

Would come next, in this order:

1. `ProviderLedger`: runs, supersession, outcomes out of order (`db.py:3167`);
   `Receipts` takes it as empty.
2. Receipts of several targets, caps and truncation, storage errors and the
   receipt store (`assurance/receipts.py:871`-`1175`).
3. The watcher daemon's life cycle (`watcher.py:647`).
4. `rehome_file_atomically` (`db.py:1208`) as an action of `Publication` and
   `GraphStore`, and with it the trust verifier; receivers in `GraphStore`.

Theorems still worth proving: the lemmas on `Target` as statements of their own
(each priority of the resolution pass, not only that the choice is unique), and
what the reducers of `Verdicts` promise beyond monotony.

Not planned: `_vendor/` (third-party), the command line, the MCP service,
ranking, packing and rendering (they read the index and format; most of the
repository's lines are theirs), importers and language extraction and the provider
adapters (translation of data with little state of their own), subprocess control
(its outcomes are the timeouts and failures of the modules that call it), the
Windows backend of the lock, and service installation. Power loss is outside
every model: the code does not sync its files, and the kills modelled are of
processes.
