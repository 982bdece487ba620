----------------------------- MODULE Freshness -----------------------------
(***************************************************************************)
(* What a query sees: src/sot_graph/freshness.py (the staleness gate of a  *)
(* query), src/sot_graph/cbm.py (reconcile_dispatch, which lets the engine *)
(* index, publishes its store and hands paths over to it) and the views of *)
(* src/sot_graph/graphstore.py, which give every path to the newer of the  *)
(* engine's snapshot and sot.db.  The inner workings of a builtin reconcile*)
(* are in module Publication, those of the engine's daemon in EngineDaemon.*)
(***************************************************************************)
EXTENDS Naturals, FiniteSets

CONSTANTS
    Files,        \* the supported files
    EngineFiles,  \* those the engine indexes; the others are gaps
    Queries,      \* processes that call ensure_fresh
    Workers,      \* detached reconciles; bound: no more than these at a time
    NoWorker,     \* reconcile-bg.lock does not exist
    FastMax,      \* _FAST_TIER_MAX_PATHS
    MaxEdits,     \* bound: edits and deletions of files
    MaxFaults     \* bound: failures, kills and restored files

ASSUME FilesAssumption == IsFiniteSet(Files) /\ EngineFiles \subseteq Files
ASSUME ActorsAssumption == Queries \cap Workers = {} /\ NoWorker \notin Workers
ASSUME BoundsAssumption == FastMax \in Nat /\ MaxEdits \in Nat /\ MaxFaults \in Nat

Actors == Queries \cup Workers

\* A version of a file is named by its mtime; 0 is no file, no row. What is in it is
\* in text: versions of a file can have the same content.
Versions == 0..MaxEdits

VARIABLES
    disk,      \* disk[f]: the version on disk
    now,       \* the latest mtime given
    restored,  \* a file came back with an older mtime
    text,      \* text[f][v]: the first version with the content of version v; 0: no such v
    sot,       \* sot[f]: the version of f's rows in sot.db
    live,      \* the engine's store: the versions it indexed, or NoStore
    published, \* .sot/cbm/published.db, a copy of it, or NoStore
    late,      \* what engines read whose reconcile has died or turned to another engine
    overlapped,\* an engine began to index while another did
    lockfile,  \* the process reconcile-bg.lock names
    qpc,       \* qpc[q]: where query q is
    says,      \* says[q]: the serving status of its envelope
    calm,      \* calm[q]: since q probed, nobody else wrote and nothing failed
    child,     \* child[q]: the reconcile q spawned
    rpc,       \* rpc[a]: where a's reconcile is
    todo,      \* todo[a]: paths a still has to treat
    covered,   \* covered[a]: the engine's paths, as a's reconcile read them
    copy,      \* copy[a]: what the engine read for a, until a has published
    bad,       \* bad[a]: a path of a's reconcile failed, or was deleted in q's probe
    faults

NoStore == [f \in Files |-> 0]

stores == <<sot, live, published>>
engines == <<late, overlapped>>
world  == <<disk, now, restored, text>>
query  == <<qpc, says, calm, child>>
run    == <<rpc, todo, covered, copy, bad>>
vars == <<stores, engines, world, lockfile, query, run, faults>>

QueryPoints == {"idle", "probe", "fast", "lock", "write", "run", "read"}
RunPoints == {"none", "index", "indexing", "publish", "cover", "gap", "purge", "builtin"}
Statuses == {"none", "fresh", "stale", "skipped_fresh", "success", "failed"}

\* The type invariant of the module.
TypeOK ==
    /\ disk \in [Files -> Versions] /\ now \in Versions /\ restored \in BOOLEAN
    /\ text \in [Files -> [Versions -> Versions]]
    /\ sot \in [Files -> Versions] /\ live \in [Files -> Versions]
    /\ published \in [Files -> Versions]
    /\ late \subseteq [Files -> Versions] /\ overlapped \in BOOLEAN
    /\ lockfile \in Workers \cup {NoWorker}
    /\ qpc \in [Queries -> QueryPoints] /\ says \in [Queries -> Statuses]
    /\ calm \in [Queries -> BOOLEAN] /\ child \in [Queries -> Workers \cup {NoWorker}]
    /\ rpc \in [Actors -> RunPoints]
    /\ todo \in [Actors -> SUBSET Files] /\ covered \in [Actors -> SUBSET EngineFiles]
    /\ copy \in [Actors -> [Files -> Versions]] /\ bad \in [Actors -> BOOLEAN]
    /\ faults \in 0..MaxFaults

Init ==
    /\ disk = [f \in Files |-> 0] /\ now = 0 /\ restored = FALSE
    /\ text = [f \in Files |-> [v \in Versions |-> 0]]
    /\ sot = [f \in Files |-> 0] /\ live = NoStore /\ published = NoStore
    /\ late = {} /\ overlapped = FALSE
    /\ lockfile = NoWorker
    /\ qpc = [q \in Queries |-> "idle"] /\ says = [q \in Queries |-> "none"]
    /\ calm = [q \in Queries |-> FALSE] /\ child = [q \in Queries |-> NoWorker]
    /\ rpc = [a \in Actors |-> "none"]
    /\ todo = [a \in Actors |-> {}] /\ covered = [a \in Actors |-> {}]
    /\ copy = [a \in Actors |-> NoStore] /\ bad = [a \in Actors |-> FALSE]
    /\ faults = 0

-----------------------------------------------------------------------------
(* What readers see *)

\* find_cbm_db: the published copy, else the engine's own store.
Snapshot == IF published # NoStore THEN published ELSE live

\* Mutant: the snapshot wins whatever its age.
MutantEngineFirst(f) == IF Snapshot[f] = 0 THEN sot[f] ELSE Snapshot[f]

\* Newest wins: sot.db owns a path the engine does not cover, or covers with an
\* older mtime.
View(f) == IF Snapshot[f] = 0 \/ sot[f] > Snapshot[f] THEN sot[f] ELSE Snapshot[f]

\* staleness_probe.
Modified == {f \in Files : disk[f] # 0 /\ View(f) \notin {0, disk[f]}}
Deleted == {f \in Files : disk[f] = 0 /\ View(f) # 0}
Unindexed == {f \in Files : disk[f] # 0 /\ View(f) = 0}
Changed == Modified \cup Deleted \cup Unindexed

\* Versions of f with the same content, or no file and no row.
Same(f, v, w) == v = w \/ (0 \notin {v, w} /\ text[f][v] = text[f][w])

\* f's rows after reconcile_path: none of a file that is gone; those there are, with
\* the mtime they have, when the hash is the same; else the file's.
Reconciled(f) == IF Same(f, sot[f], disk[f]) THEN sot[f] ELSE disk[f]

-----------------------------------------------------------------------------
(* Parts of steps *)

Fault == faults < MaxFaults /\ faults' = faults + 1

QueryTo(q, where) == qpc' = [qpc EXCEPT ![q] = where]

RunTo(a, where) == rpc' = [rpc EXCEPT ![a] = where]

\* a wrote a store: what others probed is no longer what they will read.
Stir(a) == calm' = [q \in Queries |-> calm[q] /\ q = a]

\* A failure of a's own.
Upset(a) == calm' = [q \in Queries |-> calm[q] /\ q # a]

-----------------------------------------------------------------------------
(* ensure_fresh *)

Ask(q) ==
    /\ qpc[q] = "idle"
    /\ QueryTo(q, "probe")
    /\ UNCHANGED <<stores, engines, world, lockfile, says, calm, child, run, faults>>

\* Fresh: answer. Blocking: reconcile inline. Not blocking: the fast tier on what
\* changed.
ProbeStore(q) ==
    /\ qpc[q] = "probe"
    /\ calm' = [calm EXCEPT ![q] = TRUE]
    /\ \/ /\ Changed = {}
          /\ says' = [says EXCEPT ![q] = "skipped_fresh"]
          /\ QueryTo(q, "read")
          /\ UNCHANGED <<rpc, todo, bad>>
       \/ /\ QueryTo(q, "run")                   \* force also when nothing changed
          /\ RunTo(q, "index")
          /\ bad' = [bad EXCEPT ![q] = FALSE]
          /\ UNCHANGED <<says, todo>>
       \/ /\ Changed # {}
          /\ bad' = [bad EXCEPT ![q] = Deleted # {}]
          /\ QueryTo(q, "fast")
          /\ IF Cardinality(Changed) <= FastMax
             THEN /\ todo' = [todo EXCEPT ![q] = Changed]
                  /\ says' = [says EXCEPT ![q] = IF Deleted = {} THEN "fresh" ELSE "stale"]
             ELSE says' = [says EXCEPT ![q] = "stale"] /\ UNCHANGED todo
          /\ UNCHANGED rpc
    /\ UNCHANGED <<stores, engines, world, lockfile, child, covered, copy, faults>>

\* fast_tier_reconcile, one path: a deferred or unreadable one is not counted.
FastPath(q) ==
    /\ qpc[q] = "fast"
    /\ \E f \in todo[q] :
          /\ todo' = [todo EXCEPT ![q] = @ \ {f}]
          /\ \/ sot' = [sot EXCEPT ![f] = Reconciled(f)] /\ Stir(q) /\ UNCHANGED faults
             \/ Fault /\ Upset(q) /\ UNCHANGED sot
    /\ UNCHANGED <<live, published, engines, world, lockfile, qpc, says, child, rpc, covered, copy, bad>>

\* The deep refresh is due by the snapshot's age, or because something was deleted.
FastEnds(q, due) ==
    /\ qpc[q] = "fast" /\ todo[q] = {}
    /\ QueryTo(q, IF due \/ bad[q] THEN "lock" ELSE "read")
    /\ UNCHANGED <<stores, engines, world, lockfile, says, calm, child, run, faults>>

\* spawn_background_reconcile: not while a live process holds a young lock.
LockHeld(q) ==
    /\ qpc[q] = "lock"
    /\ lockfile # NoWorker /\ rpc[lockfile] # "none"
    /\ QueryTo(q, "read")
    /\ UNCHANGED <<stores, engines, world, lockfile, says, calm, child, run, faults>>

\* No lock, a dead holder, or one older than the TTL; the spawn may fail.
SpawnReconcile(q) ==
    /\ qpc[q] = "lock"
    /\ \/ \E w \in Workers :
             /\ rpc[w] = "none"
             /\ RunTo(w, "index")
             /\ bad' = [bad EXCEPT ![w] = FALSE]
             /\ child' = [child EXCEPT ![q] = w]
             /\ QueryTo(q, "write")
       \/ /\ \A w \in Workers : rpc[w] # "none"
          /\ QueryTo(q, "read")
          /\ UNCHANGED <<rpc, bad, child>>
    /\ UNCHANGED <<stores, engines, world, lockfile, says, calm, todo, covered, copy, faults>>

WriteLockFile(q) ==
    /\ qpc[q] = "write"
    /\ lockfile' = child[q]
    /\ child' = [child EXCEPT ![q] = NoWorker]
    /\ QueryTo(q, "read")
    /\ UNCHANGED <<stores, engines, world, says, calm, run, faults>>

\* The query itself opens the store and answers from its views.
Answer(q) ==
    /\ qpc[q] = "read"
    /\ QueryTo(q, "idle")
    /\ says' = [says EXCEPT ![q] = "none"]
    /\ calm' = [calm EXCEPT ![q] = FALSE]
    /\ UNCHANGED <<stores, engines, world, lockfile, child, run, faults>>

-----------------------------------------------------------------------------
(* reconcile_dispatch, in a query or detached *)

\* run_index: the engine reads the files. Another one may be at it: a cold spawn
\* beside a daemon's session, two daemons, the engine of a reconcile that died.
IndexReads(a) ==
    /\ rpc[a] = "index"
    /\ copy' = [copy EXCEPT ![a] = [f \in Files |-> IF f \in EngineFiles THEN disk[f] ELSE 0]]
    /\ overlapped' = (overlapped \/ late # {} \/ \E b \in Actors : rpc[b] = "indexing")
    /\ RunTo(a, "indexing")
    /\ UNCHANGED <<stores, late, world, lockfile, query, todo, covered, bad, faults>>

\* The engine's transaction ends: its store is what it read.
IndexCommits(a) ==
    /\ rpc[a] = "indexing"
    /\ live' = copy[a]
    /\ RunTo(a, "publish")
    /\ Stir(a)
    /\ UNCHANGED <<sot, published, engines, world, lockfile, qpc, says, child, todo, covered,
                   copy, bad, faults>>

\* daemon_tool_call came back without an answer: a cold spawn, while the daemon's
\* engine goes on.
IndexRetries(a) ==
    /\ rpc[a] = "indexing"
    /\ Fault
    /\ late' = late \cup {copy[a]}
    /\ copy' = [copy EXCEPT ![a] = NoStore]
    /\ RunTo(a, "index")
    /\ UNCHANGED <<stores, overlapped, world, lockfile, query, todo, covered, bad>>

\* An engine nobody waits for gets there after all.
LateCommits ==
    \E store \in late :
        /\ live' = store
        /\ late' = late \ {store}
        /\ calm' = [q \in Queries |-> FALSE]
        /\ UNCHANGED <<sot, published, overlapped, world, lockfile, qpc, says, child, run, faults>>

\* Unavailable, failed or timed out: the builtin extractor does everything.
IndexFails(a) ==
    /\ rpc[a] \in {"index", "indexing"}
    /\ Fault
    /\ copy' = [copy EXCEPT ![a] = NoStore]
    /\ RunTo(a, "builtin")
    /\ Upset(a)
    /\ UNCHANGED <<stores, engines, world, lockfile, qpc, says, child, todo, covered, bad>>

\* Mutant: a published store is not replaced.
MutantPublishOnce(a) ==
    /\ rpc[a] = "publish"
    /\ published' = (IF published = NoStore THEN live ELSE published)
    /\ Stir(a)
    /\ copy' = [copy EXCEPT ![a] = NoStore]
    /\ RunTo(a, "cover")
    /\ UNCHANGED <<sot, live, engines, world, lockfile, qpc, says, child, todo, covered, bad, faults>>

\* Mutant: what a's engine indexed is published, not the engine's store as it is.
MutantPublishOwn(a) ==
    /\ rpc[a] = "publish"
    /\ published' = copy[a]
    /\ Stir(a)
    /\ copy' = [copy EXCEPT ![a] = NoStore]
    /\ RunTo(a, "cover")
    /\ UNCHANGED <<sot, live, engines, world, lockfile, qpc, says, child, todo, covered, bad, faults>>

\* publish_store: an atomic copy of the engine's store, or the previous one stays.
Publish(a) ==
    /\ rpc[a] = "publish"
    /\ \/ published' = live /\ Stir(a) /\ UNCHANGED faults
       \/ Fault /\ Upset(a) /\ UNCHANGED published
    /\ copy' = [copy EXCEPT ![a] = NoStore]
    /\ RunTo(a, "cover")
    /\ UNCHANGED <<sot, live, engines, world, lockfile, qpc, says, child, todo, covered, bad>>

\* Mutant: the scan is taken for the coverage.
MutantCoverScan(a) ==
    /\ rpc[a] = "cover"
    /\ covered' = [covered EXCEPT ![a] = {f \in Files : disk[f] # 0}]
    /\ todo' = [todo EXCEPT ![a] = {f \in Files : disk[f] # 0 /\ Snapshot[f] = 0}]
    /\ RunTo(a, "gap")
    /\ UNCHANGED <<stores, engines, world, lockfile, query, copy, bad, faults>>

\* The paths the snapshot covers, and the gaps of the scan.
Cover(a) ==
    /\ rpc[a] = "cover"
    /\ covered' = [covered EXCEPT ![a] = {f \in Files : Snapshot[f] # 0}]
    /\ todo' = [todo EXCEPT ![a] = {f \in Files : disk[f] # 0 /\ Snapshot[f] = 0}]
    /\ RunTo(a, "gap")
    /\ UNCHANGED <<stores, engines, world, lockfile, query, copy, bad, faults>>

FillGap(a) ==
    /\ rpc[a] = "gap"
    /\ \E f \in todo[a] :
          /\ todo' = [todo EXCEPT ![a] = @ \ {f}]
          /\ \/ sot' = [sot EXCEPT ![f] = Reconciled(f)] /\ Stir(a) /\ UNCHANGED <<bad, faults>>
             \/ /\ Fault /\ Upset(a)
                /\ bad' = [bad EXCEPT ![a] = TRUE]
                /\ UNCHANGED sot
    /\ UNCHANGED <<live, published, engines, world, lockfile, qpc, says, child, rpc, covered, copy>>

GapsFilled(a) ==
    /\ rpc[a] = "gap" /\ todo[a] = {}
    /\ todo' = [todo EXCEPT ![a] = {f \in Files : sot[f] # 0}]
    /\ RunTo(a, "purge")
    /\ UNCHANGED <<stores, engines, world, lockfile, query, covered, copy, bad, faults>>

\* Rows of a path that is covered or gone are deleted; an exception is ignored.
Purge(a) ==
    /\ rpc[a] = "purge"
    /\ \E f \in todo[a] :
          /\ todo' = [todo EXCEPT ![a] = @ \ {f}]
          /\ \/ /\ f \in covered[a] \/ disk[f] = 0
                /\ \/ sot' = [sot EXCEPT ![f] = 0] /\ Stir(a) /\ UNCHANGED faults
                   \/ Fault /\ Upset(a) /\ UNCHANGED sot
             \/ /\ f \notin covered[a] /\ disk[f] # 0
                /\ UNCHANGED <<sot, calm, faults>>
    /\ UNCHANGED <<live, published, engines, world, lockfile, qpc, says, child, rpc, covered, copy, bad>>

\* The builtin reconcile; a failed path is counted.
Builtin(a) ==
    /\ rpc[a] = "builtin"
    /\ \/ sot' = disk /\ UNCHANGED <<bad, faults>>
       \/ /\ Fault
          /\ \E f \in Files : sot' = [disk EXCEPT ![f] = sot[f]]
          /\ bad' = [bad EXCEPT ![a] = TRUE]
    /\ Stir(a)
    /\ RunTo(a, "purge")
    /\ UNCHANGED <<live, published, engines, world, lockfile, qpc, says, child, todo, covered, copy>>

\* The summary; only the inline caller reads it.
EndRun(a) ==
    /\ rpc[a] = "purge" /\ todo[a] = {}
    /\ RunTo(a, "none")
    /\ covered' = [covered EXCEPT ![a] = {}]
    /\ bad' = [bad EXCEPT ![a] = FALSE]
    /\ IF a \in Queries
       THEN /\ says' = [says EXCEPT ![a] = IF bad[a] THEN "failed" ELSE "success"]
            /\ QueryTo(a, "read")
       ELSE UNCHANGED <<says, qpc>>
    /\ UNCHANGED <<stores, engines, world, lockfile, calm, child, todo, copy, faults>>

\* A detached reconcile is killed; its lock file stays, and its engine goes on.
WorkerDies(w) ==
    /\ rpc[w] # "none"
    /\ Fault
    /\ late' = late \cup (IF rpc[w] = "indexing" THEN {copy[w]} ELSE {})
    /\ RunTo(w, "none")
    /\ todo' = [todo EXCEPT ![w] = {}] /\ covered' = [covered EXCEPT ![w] = {}]
    /\ copy' = [copy EXCEPT ![w] = NoStore] /\ bad' = [bad EXCEPT ![w] = FALSE]
    /\ UNCHANGED <<stores, overlapped, world, lockfile, query>>

-----------------------------------------------------------------------------
(* The user *)

\* New content, or what an earlier version had: a touch, a revert.
Edit(f) ==
    /\ now < MaxEdits
    /\ now' = now + 1
    /\ disk' = [disk EXCEPT ![f] = now']
    /\ \E v \in 1..now' :
          /\ v = now' \/ text[f][v] = v
          /\ text' = [text EXCEPT ![f][now'] = v]
    /\ calm' = [q \in Queries |-> FALSE]
    /\ UNCHANGED <<stores, engines, restored, lockfile, qpc, says, child, run, faults>>

Delete(f) ==
    /\ now < MaxEdits
    /\ disk[f] # 0
    /\ now' = now + 1
    /\ disk' = [disk EXCEPT ![f] = 0]
    /\ calm' = [q \in Queries |-> FALSE]
    /\ UNCHANGED <<stores, engines, restored, text, lockfile, qpc, says, child, run, faults>>

\* cp -p, mv of a backup: a version, and its mtime, come back; counted as a fault.
Restore(f) ==
    /\ Fault
    /\ \E v \in 1..now :
          /\ text[f][v] # 0 /\ disk[f] > v
          /\ disk' = [disk EXCEPT ![f] = v]
    /\ restored' = TRUE
    /\ calm' = [q \in Queries |-> FALSE]
    /\ UNCHANGED <<stores, engines, now, text, lockfile, qpc, says, child, run>>

QueryStep(q) ==
    \/ Ask(q) \/ ProbeStore(q) \/ FastPath(q) \/ (\E due \in BOOLEAN : FastEnds(q, due))
    \/ LockHeld(q) \/ SpawnReconcile(q) \/ WriteLockFile(q) \/ Answer(q)

RunStep(a) ==
    \/ IndexReads(a) \/ IndexCommits(a) \/ IndexRetries(a) \/ IndexFails(a)
    \/ Publish(a) \/ Cover(a) \/ FillGap(a) \/ GapsFilled(a) \/ Purge(a) \/ Builtin(a) \/ EndRun(a)

Next ==
    \/ \E q \in Queries : QueryStep(q)
    \/ \E a \in Actors : RunStep(a)
    \/ LateCommits
    \/ \E w \in Workers : WorkerDies(w)
    \/ \E f \in Files : Edit(f) \/ Delete(f) \/ Restore(f)

\* Queries keep coming, what runs goes on, and the snapshot gets old.
Fairness ==
    /\ \A q \in Queries : WF_vars(QueryStep(q)) /\ SF_vars(FastEnds(q, TRUE))
    /\ \A a \in Actors : WF_vars(RunStep(a))
    /\ \A q \in Queries : SF_vars(SpawnReconcile(q))

Spec == Init /\ [][Next]_vars /\ Fairness

-----------------------------------------------------------------------------
(* Properties *)

SaysCurrent(q) == qpc[q] = "read" /\ says[q] \in {"fresh", "skipped_fresh", "success"}

\* Queries see what is in f, or that it is gone.
Right(f) == Same(f, View(f), disk[f])

\* f was set back to what its rows in sot.db have, while the engine had a version
\* between the two: reconcile_path leaves the rows with their old mtime, and the
\* snapshot outranks them.
Overtaken(f) == sot[f] # 0 /\ sot[f] < Snapshot[f] /\ Same(f, sot[f], disk[f])

\* As long as nobody else writes, nothing fails and no mtime has gone back, an
\* envelope that calls the answer current is right about every file: whichever
\* of the two stores owns it, touched or not, in the fast tier and after an inline
\* reconcile. The one exception is the fast tier's.
CurrentBarringRaces ==
    ~restored => \A q \in Queries : SaysCurrent(q) /\ calm[q] =>
        \A f \in Files : Right(f) \/ (says[q] = "fresh" /\ Overtaken(f))

\* The published snapshot never shows an older version than it did unless engines
\* indexed side by side: reconciles that overlap otherwise, die or turn to another
\* engine publish the engine's store as it is, not as they indexed it.
SnapshotNeverGoesBack ==
    [][~restored' /\ ~overlapped' =>
          \A f \in Files : published'[f] = 0 \/ published'[f] >= published[f]]_vars

\* When the edits and failures end, queries see what is on disk and go on seeing it:
\* of deleted files too, of touched and reverted ones, of those with an older mtime
\* than the snapshot's, and after engines that indexed side by side.
Converges == <>[](\A f \in Files : Right(f))
=============================================================================
