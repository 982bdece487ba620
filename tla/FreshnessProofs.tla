--------------------------- MODULE FreshnessProofs ---------------------------
(***************************************************************************)
(* Proofs about Freshness, for any number of files, queries, detached      *)
(* reconciles, edits and faults: TypeOK, CurrentBarringRaces and           *)
(* SnapshotNeverGoesBack.                                                  *)
(***************************************************************************)
EXTENDS Freshness, TLAPS

\* The engine knows its own files only.
EngineOnly ==
    \A f \in Files \ EngineFiles :
        /\ live[f] = 0 /\ published[f] = 0 /\ \A a \in Actors : copy[a][f] = 0
        /\ \A store \in late : store[f] = 0

\* No store knows a version before it is given, nor, while no mtime goes back, one
\* later than the file's.
NotAhead(v, f) == v <= now /\ (~restored /\ disk[f] # 0 => v <= disk[f])

Older ==
    \A f \in Files :
        /\ disk[f] <= now
        /\ NotAhead(sot[f], f) /\ NotAhead(live[f], f) /\ NotAhead(published[f], f)
        /\ \A a \in Actors : NotAhead(copy[a][f], f)
        /\ \A store \in late : NotAhead(store[f], f)

\* Until engines overlap, one indexes at a time, of a reconcile or left over, and what
\* it read is no older than the store it replaces and the copy that is published.
Single ==
    ~overlapped =>
        /\ \A a, b \in Actors : rpc[a] = "indexing" /\ rpc[b] = "indexing" => a = b
        /\ \A a \in Actors : rpc[a] = "indexing" => late = {}
        /\ \A s, t \in late : s = t

NotBehind(v, f) == v = 0 \/ (v >= live[f] /\ v >= published[f])

Ahead ==
    ~restored /\ ~overlapped => \A f \in Files :
        /\ live[f] = 0 \/ live[f] >= published[f]
        /\ \A a \in Actors : rpc[a] = "indexing" => NotBehind(copy[a][f], f)
        /\ \A store \in late : NotBehind(store[f], f)

StoreInv == EngineOnly /\ Older /\ Single /\ Ahead

-----------------------------------------------------------------------------
(* What a query that nobody disturbs knows *)

\* The version the engine's index should have of f.
Indexable(f) == IF f \in EngineFiles THEN disk[f] ELSE 0

\* A query reconciles in "run" only, and goes through the fast tier as "fresh" or
\* "stale" since its probe. The builtin extractor follows a failure.
Phases(q) ==
    /\ rpc[q] # "none" => qpc[q] = "run"
    /\ qpc[q] \in {"fast", "lock", "write"} => says[q] \in {"fresh", "stale"}
    /\ rpc[q] = "builtin" => ~calm[q]

\* The fast tier is right outside the paths it still has to treat, or overtaken.
FastDone(q) ==
    says[q] = "fresh" /\ qpc[q] \in {"fast", "lock", "write"} =>
        /\ \A f \in todo[q] : disk[f] # 0
        /\ \A f \in Files \ todo[q] : Right(f) \/ Overtaken(f)
        /\ qpc[q] # "fast" => todo[q] = {}

\* How far an inline reconcile has come: the engine's store, its copy, the coverage
\* with the gaps, and the rows that are to go.
RunDone(q) ==
    /\ rpc[q] = "indexing" => \A f \in Files : copy[q][f] = Indexable(f)
    /\ rpc[q] \in {"publish", "cover", "gap", "purge"} => \A f \in Files : live[f] = Indexable(f)
    /\ rpc[q] \in {"cover", "gap", "purge"} => \A f \in Files : published[f] = Indexable(f)
    /\ rpc[q] \in {"gap", "purge"} => \A f \in Files :
         /\ f \in covered[q] <=> f \in EngineFiles /\ disk[f] # 0
         /\ f \notin EngineFiles /\ disk[f] # 0 =>
               Same(f, sot[f], disk[f]) \/ (rpc[q] = "gap" /\ f \in todo[q])
    /\ rpc[q] = "purge" => \A f \in Files \ todo[q] :
         f \in covered[q] \/ disk[f] = 0 => sot[f] = 0

Current(q) == \A f \in Files : Right(f) \/ (says[q] = "fresh" /\ Overtaken(f))

Knows(q) ==
    calm[q] /\ ~restored => FastDone(q) /\ RunDone(q) /\ (SaysCurrent(q) => Current(q))

KnowInv == \A q \in Queries : Phases(q) /\ Knows(q)

IInv == TypeOK /\ StoreInv /\ KnowInv

-----------------------------------------------------------------------------
USE FilesAssumption, ActorsAssumption, BoundsAssumption

StoresTyped ==
    /\ disk \in [Files -> Versions] /\ now \in Versions /\ restored \in BOOLEAN
    /\ text \in [Files -> [Versions -> Versions]]
    /\ sot \in [Files -> Versions] /\ live \in [Files -> Versions]
    /\ published \in [Files -> Versions]
    /\ late \subseteq [Files -> Versions] /\ overlapped \in BOOLEAN

QueriesTyped ==
    /\ lockfile \in Workers \cup {NoWorker}
    /\ qpc \in [Queries -> QueryPoints] /\ says \in [Queries -> Statuses]
    /\ calm \in [Queries -> BOOLEAN] /\ child \in [Queries -> Workers \cup {NoWorker}]

RunsTyped ==
    /\ rpc \in [Actors -> RunPoints]
    /\ todo \in [Actors -> SUBSET Files] /\ covered \in [Actors -> SUBSET EngineFiles]
    /\ copy \in [Actors -> [Files -> Versions]] /\ bad \in [Actors -> BOOLEAN]

LEMMA PartsAreTyped ==
    /\ TypeOK <=> StoresTyped /\ QueriesTyped /\ RunsTyped /\ faults \in 0..MaxFaults
    /\ (TypeOK <=> StoresTyped /\ QueriesTyped /\ RunsTyped /\ faults \in 0..MaxFaults)'
  BY DEF TypeOK, StoresTyped, QueriesTyped, RunsTyped

\* The versions in sot.db and on disk.
LEMMA RowsTyped ==
    ASSUME StoresTyped
    PROVE  /\ sot \in [Files -> Versions] /\ disk \in [Files -> Versions]
           /\ 0 \in Versions /\ now \in 0..MaxEdits
  BY DEF StoresTyped, Versions

LEMMA FaultTyped == ASSUME faults \in 0..MaxFaults, Fault PROVE faults' \in 0..MaxFaults
  BY DEF Fault

LEMMA StirTyped == ASSUME NEW a, Stir(a) \/ Upset(a) PROVE calm' \in [Queries -> BOOLEAN]
  BY DEF Stir, Upset

\* The queries' steps keep the types.
LEMMA QueryStepTyped == ASSUME TypeOK, NEW q \in Queries, QueryStep(q) PROVE TypeOK'
<1> USE PartsAreTyped
<1>1. q \in Actors /\ Queries \subseteq Actors /\ Workers \subseteq Actors
  BY DEF Actors
<1>2. CASE Ask(q)
  BY <1>2 DEF Ask, QueryTo, stores, engines, world, run, StoresTyped, QueriesTyped, RunsTyped, QueryPoints
<1>3. CASE ProbeStore(q)
  <2>1. Changed \subseteq Files
    BY DEF Changed, Modified, Deleted, Unindexed
  <2>2. calm' \in [Queries -> BOOLEAN]
    BY <1>3 DEF ProbeStore, QueriesTyped
  <2>3. qpc' \in [Queries -> QueryPoints]
    BY <1>3 DEF ProbeStore, QueryTo, QueriesTyped, QueryPoints
  <2>4. says' \in [Queries -> Statuses]
    BY <1>3 DEF ProbeStore, QueriesTyped, Statuses
  <2>5. rpc' \in [Actors -> RunPoints] /\ bad' \in [Actors -> BOOLEAN]
    BY <1>1, <1>3 DEF ProbeStore, RunTo, RunsTyped, RunPoints
  <2>6. todo' \in [Actors -> SUBSET Files]
    BY <1>1, <1>3, <2>1 DEF ProbeStore, RunsTyped
  <2> QED
    BY <1>3, <2>2, <2>3, <2>4, <2>5, <2>6 DEF ProbeStore, stores, engines, world,
       StoresTyped, QueriesTyped, RunsTyped
<1>4. CASE FastPath(q)
  <2>1. calm' \in [Queries -> BOOLEAN] /\ faults' \in 0..MaxFaults
    BY <1>4, StirTyped, FaultTyped DEF FastPath
  <2>2. todo' \in [Actors -> SUBSET Files] /\ sot' \in [Files -> Versions]
    BY <1>1, <1>4, RowsTyped DEF FastPath, Reconciled, RunsTyped
  <2> QED
    BY <1>4, <2>1, <2>2 DEF FastPath, engines, world, StoresTyped, QueriesTyped, RunsTyped
<1>5. CASE \E due \in BOOLEAN : FastEnds(q, due)
  BY <1>5 DEF FastEnds, QueryTo, stores, engines, world, run,
     StoresTyped, QueriesTyped, RunsTyped, QueryPoints
<1>6. CASE LockHeld(q)
  BY <1>6 DEF LockHeld, QueryTo, stores, engines, world, run,
     StoresTyped, QueriesTyped, RunsTyped, QueryPoints
<1>7. CASE SpawnReconcile(q)
  <2>1. qpc' \in [Queries -> QueryPoints] /\ child' \in [Queries -> Workers \cup {NoWorker}]
    BY <1>7 DEF SpawnReconcile, QueryTo, QueriesTyped, QueryPoints
  <2>2. rpc' \in [Actors -> RunPoints] /\ bad' \in [Actors -> BOOLEAN]
    BY <1>1, <1>7 DEF SpawnReconcile, RunTo, RunsTyped, RunPoints
  <2> QED
    BY <1>7, <2>1, <2>2 DEF SpawnReconcile, stores, engines, world, StoresTyped, QueriesTyped, RunsTyped
<1>8. CASE WriteLockFile(q)
  BY <1>8 DEF WriteLockFile, QueryTo, stores, engines, world, run,
     StoresTyped, QueriesTyped, RunsTyped, QueryPoints
<1>9. CASE Answer(q)
  BY <1>9 DEF Answer, QueryTo, stores, engines, world, run,
     StoresTyped, QueriesTyped, RunsTyped, QueryPoints, Statuses
<1> QED BY <1>2, <1>3, <1>4, <1>5, <1>6, <1>7, <1>8, <1>9 DEF QueryStep

\* What a reconcile takes for covered is the engine's.
LEMMA SnapshotFacts ==
    ASSUME StoresTyped, EngineOnly
    PROVE  /\ Snapshot \in [Files -> Versions]
           /\ {f \in Files : Snapshot[f] # 0} \subseteq EngineFiles
  BY DEF StoresTyped, EngineOnly, Snapshot

\* The reconciles' steps keep the types.
LEMMA RunStepTyped ==
    ASSUME TypeOK, EngineOnly, NEW a \in Actors, RunStep(a) PROVE TypeOK'
<1> USE PartsAreTyped
<1>1. 0 \in Versions
  BY DEF Versions
<1>2. NoStore \in [Files -> Versions]
  BY <1>1 DEF NoStore
<1>3. CASE IndexReads(a)
  <2>1. [f \in Files |-> IF f \in EngineFiles THEN disk[f] ELSE 0] \in [Files -> Versions]
    BY <1>1 DEF StoresTyped
  <2>2. copy' \in [Actors -> [Files -> Versions]]
    BY <1>3, <2>1 DEF IndexReads, RunsTyped
  <2> QED
    BY <1>3, <2>2 DEF IndexReads, RunTo, stores, engines, world, query,
       StoresTyped, QueriesTyped, RunsTyped, RunPoints
<1>4. CASE IndexCommits(a)
  BY <1>2, <1>4, StirTyped DEF IndexCommits, RunTo, engines, world,
     StoresTyped, QueriesTyped, RunsTyped, RunPoints
<1>5. CASE IndexFails(a)
  BY <1>2, <1>5, StirTyped, FaultTyped DEF IndexFails, RunTo, stores, engines, world,
     StoresTyped, QueriesTyped, RunsTyped, RunPoints
<1>6. CASE Publish(a)
  <2>1. calm' \in [Queries -> BOOLEAN] /\ faults' \in 0..MaxFaults
    BY <1>6, StirTyped, FaultTyped DEF Publish
  <2> QED
    BY <1>2, <1>6, <2>1 DEF Publish, RunTo, engines, world, StoresTyped, QueriesTyped, RunsTyped,
       RunPoints
<1>7. CASE Cover(a)
  <2>1. covered' \in [Actors -> SUBSET EngineFiles] /\ todo' \in [Actors -> SUBSET Files]
    BY <1>7, SnapshotFacts DEF Cover, RunsTyped
  <2> QED
    BY <1>7, <2>1 DEF Cover, RunTo, stores, engines, world, query,
       StoresTyped, QueriesTyped, RunsTyped, RunPoints
<1>8. CASE FillGap(a)
  <2>1. calm' \in [Queries -> BOOLEAN] /\ faults' \in 0..MaxFaults
    BY <1>8, StirTyped, FaultTyped DEF FillGap
  <2>2. todo' \in [Actors -> SUBSET Files]
    BY <1>8 DEF FillGap, RunsTyped
  <2>3. sot' \in [Files -> Versions]
    BY <1>8, RowsTyped DEF FillGap, Reconciled, RunsTyped
  <2>4. bad' \in [Actors -> BOOLEAN]
    BY <1>8 DEF FillGap, RunsTyped
  <2> QED
    BY <1>8, <2>1, <2>2, <2>3, <2>4 DEF FillGap, engines, world, StoresTyped, QueriesTyped, RunsTyped
<1>9. CASE GapsFilled(a)
  BY <1>9 DEF GapsFilled, RunTo, stores, engines, world, query,
     StoresTyped, QueriesTyped, RunsTyped, RunPoints
<1>10. CASE Purge(a)
  <2>1. calm' \in [Queries -> BOOLEAN] /\ faults' \in 0..MaxFaults
    BY <1>10, StirTyped, FaultTyped DEF Purge, QueriesTyped
  <2>2. todo' \in [Actors -> SUBSET Files] /\ sot' \in [Files -> Versions]
    BY <1>1, <1>10, RowsTyped DEF Purge, RunsTyped
  <2> QED
    BY <1>10, <2>1, <2>2 DEF Purge, engines, world, StoresTyped, QueriesTyped, RunsTyped
<1>11. CASE Builtin(a)
  <2>1. calm' \in [Queries -> BOOLEAN] /\ faults' \in 0..MaxFaults
    BY <1>11, StirTyped, FaultTyped DEF Builtin
  <2>2. bad' \in [Actors -> BOOLEAN] /\ sot' \in [Files -> Versions]
    BY <1>11, RowsTyped DEF Builtin, RunsTyped
  <2> QED
    BY <1>11, <2>1, <2>2 DEF Builtin, RunTo, engines, world,
       StoresTyped, QueriesTyped, RunsTyped, RunPoints
<1>12. CASE EndRun(a)
  <2>1. says' \in [Queries -> Statuses] /\ qpc' \in [Queries -> QueryPoints]
    BY <1>12 DEF EndRun, QueryTo, QueriesTyped, QueryPoints, Statuses
  <2>2. covered' \in [Actors -> SUBSET EngineFiles]
    BY <1>12 DEF EndRun, RunsTyped
  <2> QED
    BY <1>12, <2>1, <2>2 DEF EndRun, RunTo, stores, engines, world,
       StoresTyped, QueriesTyped, RunsTyped, RunPoints
<1>13. CASE IndexRetries(a)
  <2>1. late' \subseteq [Files -> Versions] /\ copy' \in [Actors -> [Files -> Versions]]
    BY <1>2, <1>13 DEF IndexRetries, StoresTyped, RunsTyped
  <2>2. rpc' \in [Actors -> RunPoints] /\ faults' \in 0..MaxFaults
    BY <1>13, FaultTyped DEF IndexRetries, RunTo, RunsTyped, RunPoints
  <2> QED
    BY <1>13, <2>1, <2>2 DEF IndexRetries, stores, world, query,
       StoresTyped, QueriesTyped, RunsTyped
<1> QED
  BY <1>3, <1>4, <1>5, <1>6, <1>7, <1>8, <1>9, <1>10, <1>11, <1>12, <1>13 DEF RunStep

\* And so do engines left over, kills and the user.
LEMMA OtherStepTyped ==
    ASSUME TypeOK
    PROVE  /\ LateCommits => TypeOK'
           /\ \A w \in Workers : WorkerDies(w) => TypeOK'
           /\ \A f \in Files : Edit(f) \/ Delete(f) \/ Restore(f) => TypeOK'
<1> USE PartsAreTyped
<1>1. ASSUME NEW w \in Workers, WorkerDies(w) PROVE TypeOK'
  <2>1. w \in Actors /\ NoStore \in [Files -> Versions]
    BY DEF Actors, NoStore, Versions
  <2>2. late' \subseteq [Files -> Versions]
    BY <1>1, <2>1 DEF WorkerDies, StoresTyped, RunsTyped
  <2>3. RunsTyped'
    BY <1>1, <2>1 DEF WorkerDies, RunTo, RunsTyped, RunPoints
  <2> QED
    BY <1>1, <2>2, <2>3, FaultTyped DEF WorkerDies, stores, world, query,
       StoresTyped, QueriesTyped
<1>2. ASSUME NEW f \in Files, Edit(f) \/ Delete(f) \/ Restore(f) PROVE TypeOK'
  <2>1. StoresTyped'
    <3>1. CASE Edit(f)
      <4>1. now' \in Versions /\ now' = now + 1 /\ 1..now' \subseteq Versions
        BY <3>1 DEF Edit, StoresTyped, Versions
      <4>2. PICK v \in 1..now' : text' = [text EXCEPT ![f][now'] = v]
        BY <3>1 DEF Edit
      <4>3. text' \in [Files -> [Versions -> Versions]]
        BY <4>1, <4>2 DEF StoresTyped
      <4> QED BY <3>1, <4>1, <4>3 DEF Edit, stores, engines, StoresTyped
    <3>2. CASE Delete(f)
      <4>1. now' \in Versions /\ 0 \in Versions
        BY <3>2, RowsTyped DEF Delete, Versions
      <4> QED BY <3>2, <4>1 DEF Delete, stores, engines, StoresTyped
    <3>3. CASE Restore(f)
      <4>1. \A v \in 1..now : v \in Versions
        BY DEF StoresTyped, Versions
      <4> QED BY <3>3, <4>1 DEF Restore, stores, engines, StoresTyped
    <3> QED BY <1>2, <3>1, <3>2, <3>3
  <2>2. faults' \in 0..MaxFaults
    BY <1>2, FaultTyped DEF Edit, Delete, Restore
  <2> QED BY <1>2, <2>1, <2>2 DEF Edit, Delete, Restore, run, QueriesTyped, RunsTyped
<1>3. ASSUME LateCommits PROVE TypeOK'
  BY <1>3 DEF LateCommits, world, run, StoresTyped, QueriesTyped, RunsTyped
<1> QED BY <1>1, <1>2, <1>3

LEMMA TypeStep == ASSUME TypeOK, EngineOnly, Next PROVE TypeOK'
  BY QueryStepTyped, RunStepTyped, OtherStepTyped DEF Next

-----------------------------------------------------------------------------
(* The stores *)

\* The steps that write sot.db, or nothing: what is written is the disk's version or
\* none, and nobody begins to index.
Settles ==
    /\ UNCHANGED <<live, published, engines, world>>
    /\ \A f \in Files : sot'[f] \in {sot[f], disk[f], 0}
    /\ \A a \in Actors : copy'[a] \in {copy[a], NoStore}
    /\ \A a \in Actors : rpc'[a] = "indexing" => rpc[a] = "indexing"

LEMMA QueriesSettle == ASSUME TypeOK, NEW q \in Queries, QueryStep(q) PROVE Settles
<1> USE PartsAreTyped
<1>1. q \in Actors /\ Workers \subseteq Actors
  BY DEF Actors
<1>2. CASE Ask(q) \/ (\E due \in BOOLEAN : FastEnds(q, due)) \/ LockHeld(q) \/ WriteLockFile(q)
           \/ Answer(q)
  BY <1>2 DEF Ask, FastEnds, LockHeld, WriteLockFile, Answer, stores, run, Settles
<1>3. CASE ProbeStore(q)
  BY <1>1, <1>3 DEF ProbeStore, RunTo, RunsTyped, stores, Settles
<1>4. CASE FastPath(q)
  BY <1>4 DEF FastPath, Reconciled, StoresTyped, Settles
<1>5. CASE SpawnReconcile(q)
  BY <1>1, <1>5 DEF SpawnReconcile, RunTo, RunsTyped, stores, Settles
<1> QED BY <1>2, <1>3, <1>4, <1>5 DEF QueryStep

LEMMA RunsSettle ==
    ASSUME TypeOK, NEW a \in Actors
    PROVE  /\ IndexFails(a) \/ Cover(a) \/ FillGap(a) \/ GapsFilled(a) => Settles
           /\ Purge(a) \/ Builtin(a) \/ EndRun(a) => Settles
           /\ Publish(a) /\ UNCHANGED published => Settles
<1> USE PartsAreTyped
<1>1. ASSUME NEW where \in RunPoints \ {"indexing"}, RunTo(a, where)
      PROVE  \A b \in Actors : rpc'[b] = "indexing" => rpc[b] = "indexing"
  BY <1>1 DEF RunTo, RunsTyped
<1>2. ASSUME Cover(a) \/ GapsFilled(a) \/ EndRun(a) PROVE Settles
  BY <1>1, <1>2 DEF Cover, GapsFilled, EndRun, RunPoints, stores, Settles
<1>3. ASSUME IndexFails(a) PROVE Settles
  BY <1>1, <1>3 DEF IndexFails, RunPoints, RunsTyped, stores, Settles
<1>4. ASSUME Publish(a), UNCHANGED published PROVE Settles
  BY <1>1, <1>4 DEF Publish, RunPoints, Settles
<1>5. ASSUME FillGap(a) PROVE Settles
  BY <1>5 DEF FillGap, Reconciled, StoresTyped, Settles
<1>6. ASSUME Purge(a) PROVE Settles
  BY <1>6 DEF Purge, StoresTyped, Settles
<1>7. ASSUME Builtin(a) PROVE Settles
  <2>1. \A f \in Files : sot'[f] \in {sot[f], disk[f]}
    BY <1>7 DEF Builtin, StoresTyped
  <2> QED BY <1>1, <1>7, <2>1 DEF Builtin, RunPoints, Settles
<1> QED BY <1>2, <1>3, <1>4, <1>5, <1>6, <1>7

\* a's reconcile leaves its engine to itself.
Abandons(a) ==
    /\ UNCHANGED <<stores, overlapped, world>>
    /\ rpc[a] = "indexing" /\ late' = late \cup {copy[a]}
    /\ \A b \in Actors : copy'[b] \in {copy[b], NoStore}
    /\ \A b \in Actors : rpc'[b] = "indexing" => rpc[b] = "indexing" /\ b # a

LEMMA DeathsSettle ==
    ASSUME TypeOK, NEW w \in Workers, WorkerDies(w) PROVE Settles \/ Abandons(w)
<1> USE PartsAreTyped
<1>1. w \in Actors
  BY DEF Actors
<1>2. /\ \A b \in Actors : copy'[b] \in {copy[b], NoStore}
      /\ \A b \in Actors : rpc'[b] = "indexing" => rpc[b] = "indexing" /\ b # w
  BY <1>1 DEF WorkerDies, RunTo, RunsTyped
<1>3. UNCHANGED <<stores, overlapped, world>>
  BY DEF WorkerDies
<1>4. CASE rpc[w] = "indexing"
  BY <1>2, <1>3, <1>4 DEF WorkerDies, Abandons
<1>5. CASE rpc[w] # "indexing"
  <2>1. late' = late
    BY <1>5 DEF WorkerDies
  <2> QED BY <1>2, <1>3, <2>1 DEF stores, engines, Settles
<1> QED BY <1>4, <1>5

LEMMA RetriesAbandon ==
    ASSUME TypeOK, NEW a \in Actors, IndexRetries(a) PROVE Abandons(a)
  BY PartsAreTyped DEF IndexRetries, RunTo, RunsTyped, Abandons

\* What the stores hold are versions.
LEMMA VersionsAreNumbers ==
    ASSUME StoresTyped, RunsTyped
    PROVE  /\ now \in Nat
           /\ \A f \in Files :
                 /\ disk[f] \in Nat /\ sot[f] \in Nat /\ live[f] \in Nat /\ published[f] \in Nat
                 /\ \A a \in Actors : copy[a][f] \in Nat
                 /\ \A store \in late : store[f] \in Nat
<1>1. Versions \subseteq Nat
  BY DEF Versions
<1>2. /\ disk \in [Files -> Versions] /\ sot \in [Files -> Versions]
      /\ live \in [Files -> Versions] /\ published \in [Files -> Versions]
      /\ now \in Versions /\ late \subseteq [Files -> Versions]
  BY DEF StoresTyped
<1>3. copy \in [Actors -> [Files -> Versions]]
  BY DEF RunsTyped
<1> QED BY <1>1, <1>2, <1>3

\* No rows, and no store.
LEMMA NoneIsOld ==
    ASSUME StoresTyped, RunsTyped, NEW f \in Files PROVE NotAhead(0, f) /\ NotBehind(0, f)
  BY VersionsAreNumbers DEF NotAhead, NotBehind

\* The bounds of f move only with the disk, the clock and the stores.
LEMMA SameBounds ==
    ASSUME UNCHANGED <<disk, now, restored>>, NEW v, NEW f
    PROVE  /\ NotAhead(v, f)' <=> NotAhead(v, f)
           /\ UNCHANGED <<live, published>> => (NotBehind(v, f)' <=> NotBehind(v, f))
  BY DEF NotAhead, NotBehind

LEMMA SettlingKeepsStores == ASSUME TypeOK, StoreInv, Settles PROVE StoreInv'
<1> USE PartsAreTyped
<1>1. \A f \in Files : NoStore[f] = 0
  BY DEF NoStore
<1>2. \A f \in Files : \A a \in Actors : copy'[a][f] \in {copy[a][f], 0}
  BY <1>1 DEF Settles
<1>3. UNCHANGED <<live, published, late, overlapped, disk, now, restored>>
  BY DEF Settles, engines, world
<1>4. EngineOnly'
  BY <1>2, <1>3 DEF StoreInv, EngineOnly
<1>5. Older'
  <2> SUFFICES ASSUME NEW f \in Files
               PROVE  /\ disk[f] <= now
                      /\ NotAhead(sot'[f], f) /\ NotAhead(live[f], f) /\ NotAhead(published[f], f)
                      /\ \A a \in Actors : NotAhead(copy'[a][f], f)
                      /\ \A store \in late : NotAhead(store[f], f)
    BY <1>3, SameBounds DEF Older, NotAhead
  <2>1. sot'[f] \in {sot[f], disk[f], 0}
    BY DEF Settles
  <2>2. NotAhead(0, f) /\ NotAhead(disk[f], f)
    BY NoneIsOld, VersionsAreNumbers DEF NotAhead, StoreInv, Older
  <2> QED BY <1>2, <2>1, <2>2 DEF StoreInv, Older
<1>6. Single'
  BY <1>3 DEF StoreInv, Single, Settles
<1>7. Ahead'
  BY <1>2, <1>3 DEF StoreInv, Ahead, NotBehind, Settles
<1> QED BY <1>4, <1>5, <1>6, <1>7 DEF StoreInv

LEMMA AbandoningKeepsStores ==
    ASSUME TypeOK, StoreInv, NEW a \in Actors, Abandons(a) PROVE StoreInv'
<1> USE PartsAreTyped
<1>1. \A f \in Files : NoStore[f] = 0
  BY DEF NoStore
<1>2. \A f \in Files : \A b \in Actors : copy'[b][f] \in {copy[b][f], 0}
  BY <1>1 DEF Abandons
<1>3. /\ UNCHANGED <<sot, live, published, overlapped, disk, now, restored>>
      /\ rpc[a] = "indexing" /\ late' = late \cup {copy[a]}
      /\ \A b \in Actors : rpc'[b] = "indexing" => rpc[b] = "indexing" /\ b # a
  BY DEF Abandons, stores, world
<1>4. EngineOnly'
  BY <1>2, <1>3 DEF StoreInv, EngineOnly
<1>5. Older'
  <2> SUFFICES ASSUME NEW f \in Files
               PROVE  /\ \A b \in Actors : NotAhead(copy'[b][f], f)
                      /\ \A store \in late' : NotAhead(store[f], f)
    BY <1>3 DEF StoreInv, Older, NotAhead
  <2> QED BY <1>2, <1>3, NoneIsOld DEF StoreInv, Older
<1>6. Single'
  BY <1>3 DEF StoreInv, Single
<1>7. Ahead'
  <2> SUFFICES ASSUME ~restored, ~overlapped, NEW f \in Files
               PROVE  /\ live[f] = 0 \/ live[f] >= published[f]
                      /\ \A b \in Actors : rpc'[b] = "indexing" => NotBehind(copy'[b][f], f)
                      /\ \A store \in late' : NotBehind(store[f], f)
    BY <1>3 DEF Ahead, NotBehind
  <2> QED BY <1>2, <1>3, NoneIsOld DEF StoreInv, Ahead
<1> QED BY <1>4, <1>5, <1>6, <1>7 DEF StoreInv

LEMMA IndexReadsKeepsStores ==
    ASSUME TypeOK, StoreInv, NEW a \in Actors, IndexReads(a) PROVE StoreInv'
<1> USE PartsAreTyped, VersionsAreNumbers
<1>1. UNCHANGED <<sot, live, published, late, disk, now, restored>>
  BY DEF IndexReads, stores, world
<1>2. rpc'[a] = "indexing" /\ \A b \in Actors \ {a} : rpc'[b] = rpc[b]
  BY DEF IndexReads, RunTo, RunsTyped
<1>3. ~overlapped' => ~overlapped /\ late = {} /\ \A b \in Actors : rpc[b] # "indexing"
  BY DEF IndexReads
<1>4. /\ \A b \in Actors \ {a} : copy'[b] = copy[b]
      /\ \A f \in Files : copy'[a][f] = IF f \in EngineFiles THEN disk[f] ELSE 0
  BY DEF IndexReads, RunsTyped
<1>5. EngineOnly'
  BY <1>1, <1>4 DEF StoreInv, EngineOnly
<1>6. Older'
  BY <1>1, <1>4 DEF StoreInv, Older, NotAhead
<1>7. Single'
  BY <1>1, <1>2, <1>3 DEF Single
<1>8. Ahead'
  <2> SUFFICES ASSUME ~restored, ~overlapped', NEW f \in Files
               PROVE  /\ live[f] = 0 \/ live[f] >= published[f]
                      /\ NotBehind(copy'[a][f], f)
    BY <1>1, <1>2, <1>3 DEF Ahead, NotBehind
  <2> QED BY <1>3, <1>4 DEF StoreInv, Ahead, NotBehind, Older, NotAhead
<1> QED BY <1>5, <1>6, <1>7, <1>8 DEF StoreInv

\* The engine's store becomes what the only engine that indexes, if it is, has read.
LEMMA NewStoreKeepsStores ==
    ASSUME TypeOK, StoreInv, NEW store \in [Files -> Versions],
           \/ \E a \in Actors : rpc[a] = "indexing" /\ store = copy[a] /\ rpc'[a] # "indexing"
                                /\ late' = late
           \/ store \in late /\ late' = late \ {store},
           \A b \in Actors : rpc'[b] = "indexing" => rpc[b] = "indexing",
           live' = store, UNCHANGED <<sot, published, copy, overlapped, disk, now, restored>>
    PROVE  StoreInv'
<1> USE PartsAreTyped, VersionsAreNumbers
<1>1. late' \subseteq late
  OBVIOUS
<1>2. \A f \in Files : NotAhead(store[f], f) /\ (f \notin EngineFiles => store[f] = 0)
  BY DEF StoreInv, Older, EngineOnly
<1>3. ~overlapped => late' = {} /\ \A b \in Actors : rpc'[b] # "indexing"
  BY DEF StoreInv, Single
<1>4. ~restored /\ ~overlapped => \A f \in Files : NotBehind(store[f], f)
  BY DEF StoreInv, Ahead
<1>5. EngineOnly'
  BY <1>1, <1>2 DEF StoreInv, EngineOnly
<1>6. Older'
  BY <1>1, <1>2 DEF StoreInv, Older, NotAhead
<1>7. Single'
  BY <1>3 DEF Single
<1>8. Ahead'
  BY <1>3, <1>4 DEF Ahead, NotBehind
<1> QED BY <1>5, <1>6, <1>7, <1>8 DEF StoreInv

LEMMA IndexCommitsKeepsStores ==
    ASSUME TypeOK, StoreInv, NEW a \in Actors, IndexCommits(a) PROVE StoreInv'
<1>1. /\ rpc[a] = "indexing" /\ rpc'[a] = "publish" /\ live' = copy[a]
      /\ \A b \in Actors \ {a} : rpc'[b] = rpc[b]
  BY PartsAreTyped DEF IndexCommits, RunTo, RunsTyped
<1>2. UNCHANGED <<sot, published, copy, late, overlapped, disk, now, restored>>
  BY DEF IndexCommits, engines, world
<1>3. copy[a] \in [Files -> Versions]
  BY PartsAreTyped DEF RunsTyped
<1> QED BY <1>1, <1>2, <1>3, NewStoreKeepsStores

LEMMA LateCommitsKeepsStores == ASSUME TypeOK, StoreInv, LateCommits PROVE StoreInv'
<1>1. PICK store \in late : live' = store /\ late' = late \ {store}
  BY DEF LateCommits
<1>2. UNCHANGED <<sot, published, copy, rpc, overlapped, disk, now, restored>>
  BY DEF LateCommits, run, world
<1>3. store \in [Files -> Versions]
  BY PartsAreTyped DEF StoresTyped
<1> QED BY <1>1, <1>2, <1>3, NewStoreKeepsStores

LEMMA PublishKeepsStores ==
    ASSUME TypeOK, StoreInv, NEW a \in Actors, Publish(a), published' = live PROVE StoreInv'
<1> USE PartsAreTyped, VersionsAreNumbers
<1>1. UNCHANGED <<sot, live, late, overlapped, disk, now, restored>>
  BY DEF Publish, engines, world
<1>2. \A b \in Actors : rpc'[b] = "indexing" => rpc[b] = "indexing" /\ copy'[b] = copy[b]
  BY DEF Publish, RunTo, RunsTyped
<1>3. \A f \in Files : \A b \in Actors : copy'[b][f] \in {copy[b][f], 0}
  BY DEF Publish, RunsTyped, NoStore
<1>4. EngineOnly'
  BY <1>1, <1>3 DEF StoreInv, EngineOnly
<1>5. Older'
  <2> SUFFICES ASSUME NEW f \in Files PROVE \A b \in Actors : NotAhead(copy'[b][f], f)
    BY <1>1 DEF StoreInv, Older, NotAhead
  <2> QED BY <1>3, NoneIsOld DEF StoreInv, Older
<1>6. Single'
  BY <1>1, <1>2 DEF StoreInv, Single
<1>7. Ahead'
  BY <1>1, <1>2 DEF StoreInv, Ahead, NotBehind
<1> QED BY <1>4, <1>5, <1>6, <1>7 DEF StoreInv

\* The user: a new version is later than all there are; an old one ends the order.
LEMMA UserKeepsStores ==
    ASSUME TypeOK, StoreInv, NEW f \in Files, Edit(f) \/ Delete(f) \/ Restore(f) PROVE StoreInv'
<1> USE PartsAreTyped, VersionsAreNumbers
<1>1. UNCHANGED <<sot, live, published, late, overlapped, copy, rpc>>
  BY DEF Edit, Delete, Restore, stores, engines, run
<1>2. EngineOnly' /\ Single'
  BY <1>1 DEF StoreInv, EngineOnly, Single
<1>3. restored' \/ UNCHANGED restored
  BY DEF Edit, Delete, Restore
<1>4. Ahead'
  BY <1>1, <1>3 DEF StoreInv, Ahead, NotBehind
<1>5. CASE Restore(f)
  <2>1. restored' /\ now' = now
    BY <1>5 DEF Restore
  <2>2. \A g \in Files : disk'[g] <= now
    BY <1>5 DEF Restore, StoresTyped, StoreInv, Older
  <2>3. Older'
    BY <1>1, <2>1, <2>2 DEF StoreInv, Older, NotAhead
  <2> QED BY <1>2, <1>4, <2>3 DEF StoreInv
<1>6. CASE Edit(f) \/ Delete(f)
  <2>1. /\ now' = now + 1 /\ restored' = restored
        /\ \A g \in Files : disk'[g] = disk[g] \/ disk'[g] = 0 \/ disk'[g] = now + 1
    BY <1>6 DEF Edit, Delete, StoresTyped
  <2>2. ASSUME NEW g \in Files, NEW v \in Nat, NotAhead(v, g) PROVE NotAhead(v, g)'
    BY <2>1, <2>2 DEF NotAhead
  <2>3. \A g \in Files : disk'[g] <= now'
    BY <2>1 DEF StoreInv, Older
  <2>4. Older'
    BY <1>1, <2>2, <2>3 DEF StoreInv, Older
  <2> QED BY <1>2, <1>4, <2>4 DEF StoreInv
<1> QED BY <1>5, <1>6

LEMMA StoreStep == ASSUME TypeOK, StoreInv, Next PROVE StoreInv'
<1>1. ASSUME NEW a \in Actors, RunStep(a) PROVE StoreInv'
  <2>1. CASE IndexReads(a)
    BY <2>1, IndexReadsKeepsStores
  <2>2. CASE IndexCommits(a)
    BY <2>2, IndexCommitsKeepsStores
  <2>3. CASE Publish(a) /\ published' = live
    BY <2>3, PublishKeepsStores
  <2>4. CASE \/ IndexFails(a) \/ Cover(a) \/ FillGap(a) \/ GapsFilled(a) \/ Purge(a)
             \/ Builtin(a) \/ EndRun(a)
    <3>1. Settles
      BY <2>4, RunsSettle
    <3> QED BY <3>1, SettlingKeepsStores
  <2>5. CASE Publish(a) /\ UNCHANGED published
    BY <2>5, RunsSettle, SettlingKeepsStores
  <2>6. Publish(a) => published' = live \/ UNCHANGED published
    BY DEF Publish
  <2>7. CASE IndexRetries(a)
    BY <2>7, RetriesAbandon, AbandoningKeepsStores
  <2> QED BY <1>1, <2>1, <2>2, <2>3, <2>4, <2>5, <2>6, <2>7 DEF RunStep
<1>2. ASSUME NEW w \in Workers, WorkerDies(w) PROVE StoreInv'
  <2>1. w \in Actors
    BY DEF Actors
  <2> QED BY <1>2, <2>1, DeathsSettle, SettlingKeepsStores, AbandoningKeepsStores
<1> QED
  BY <1>1, <1>2, QueriesSettle, SettlingKeepsStores, LateCommitsKeepsStores, UserKeepsStores
  DEF Next

-----------------------------------------------------------------------------
(* The queries *)

\* What q remembers.
Own(q) ==
    /\ qpc'[q] = qpc[q] /\ says'[q] = says[q]
    /\ rpc'[q] = rpc[q] /\ todo'[q] = todo[q] /\ covered'[q] = covered[q]
    /\ copy'[q] = copy[q] /\ bad'[q] = bad[q]

\* q notices nothing, or is no longer calm.
Apart(q) ==
    /\ Own(q)
    /\ ~calm'[q] \/ (calm'[q] = calm[q] /\ UNCHANGED <<stores, world>>)

LEMMA OtherQueries ==
    ASSUME TypeOK, NEW q \in Queries, NEW p \in Queries \ {q}, QueryStep(p)
    PROVE  Apart(q)
<1> USE PartsAreTyped
<1>1. p \in Actors /\ q \in Actors /\ q \notin Workers /\ Workers \subseteq Actors
  BY DEF Actors
<1>2. CASE Ask(p) \/ (\E due \in BOOLEAN : FastEnds(p, due)) \/ LockHeld(p) \/ WriteLockFile(p)
           \/ Answer(p)
  BY <1>2 DEF Ask, FastEnds, LockHeld, WriteLockFile, Answer, QueryTo, QueriesTyped, run,
     Own, Apart
<1>3. CASE ProbeStore(p)
  <2>1. qpc'[q] = qpc[q] /\ says'[q] = says[q] /\ calm'[q] = calm[q]
    BY <1>3 DEF ProbeStore, QueryTo, QueriesTyped
  <2>2. rpc'[q] = rpc[q] /\ bad'[q] = bad[q]
    BY <1>1, <1>3 DEF ProbeStore, RunTo, RunsTyped
  <2>3. todo'[q] = todo[q]
    BY <1>1, <1>3 DEF ProbeStore, RunsTyped
  <2>4. UNCHANGED <<stores, world, covered, copy>>
    BY <1>3 DEF ProbeStore
  <2> QED BY <2>1, <2>2, <2>3, <2>4 DEF Own, Apart
<1>4. CASE FastPath(p)
  BY <1>1, <1>4 DEF FastPath, Stir, Upset, QueriesTyped, RunsTyped, stores, Own, Apart
<1>5. CASE SpawnReconcile(p)
  BY <1>1, <1>5 DEF SpawnReconcile, QueryTo, RunTo, QueriesTyped, RunsTyped, Own, Apart
<1> QED BY <1>2, <1>3, <1>4, <1>5 DEF QueryStep

LEMMA OtherRuns ==
    ASSUME TypeOK, NEW q \in Queries, NEW a \in Actors \ {q}, RunStep(a)
    PROVE  Apart(q)
<1> USE PartsAreTyped
<1>1. q \in Actors
  BY DEF Actors
<1>2. CASE IndexReads(a) \/ IndexRetries(a) \/ Cover(a) \/ GapsFilled(a)
  BY <1>1, <1>2 DEF IndexReads, IndexRetries, Cover, GapsFilled, RunTo, query, RunsTyped, Own, Apart
<1>3. CASE IndexCommits(a)
  BY <1>1, <1>3 DEF IndexCommits, RunTo, Stir, RunsTyped, Own, Apart
<1>4. CASE IndexFails(a)
  BY <1>1, <1>4 DEF IndexFails, RunTo, Upset, QueriesTyped, RunsTyped, Own, Apart
<1>5. CASE Publish(a)
  BY <1>1, <1>5 DEF Publish, RunTo, Stir, Upset, QueriesTyped, RunsTyped, stores, Own, Apart
<1>6. CASE FillGap(a)
  BY <1>1, <1>6 DEF FillGap, Stir, Upset, QueriesTyped, RunsTyped, stores, Own, Apart
<1>7. CASE Purge(a)
  BY <1>1, <1>7 DEF Purge, Stir, Upset, QueriesTyped, RunsTyped, stores, Own, Apart
<1>8. CASE Builtin(a)
  BY <1>1, <1>8 DEF Builtin, RunTo, Stir, RunsTyped, Own, Apart
<1>9. CASE EndRun(a)
  <2>1. qpc'[q] = qpc[q] /\ says'[q] = says[q]
    BY <1>9 DEF EndRun, QueryTo, QueriesTyped
  <2>2. rpc'[q] = rpc[q] /\ covered'[q] = covered[q] /\ bad'[q] = bad[q]
    BY <1>1, <1>9 DEF EndRun, RunTo, RunsTyped
  <2>3. UNCHANGED <<stores, world, calm, todo, copy>>
    BY <1>9 DEF EndRun
  <2> QED BY <2>1, <2>2, <2>3 DEF Own, Apart
<1> QED BY <1>2, <1>3, <1>4, <1>5, <1>6, <1>7, <1>8, <1>9 DEF RunStep

LEMMA DeathsAndUsers ==
    ASSUME TypeOK, NEW q \in Queries,
           \/ LateCommits
           \/ \E w \in Workers : WorkerDies(w)
           \/ \E f \in Files : Edit(f) \/ Delete(f) \/ Restore(f)
    PROVE  Apart(q)
<1> USE PartsAreTyped
<1>1. q \in Actors /\ q \notin Workers
  BY DEF Actors
<1>2. CASE \E w \in Workers : WorkerDies(w)
  <2>1. PICK w \in Workers : WorkerDies(w)
    BY <1>2
  <2>2. q # w
    BY <1>1
  <2>3. UNCHANGED <<stores, world, qpc, says, calm>>
    BY <2>1 DEF WorkerDies, query
  <2>4. rpc'[q] = rpc[q] /\ todo'[q] = todo[q] /\ covered'[q] = covered[q]
    BY <1>1, <2>1, <2>2 DEF WorkerDies, RunTo, RunsTyped
  <2>5. copy'[q] = copy[q] /\ bad'[q] = bad[q]
    BY <1>1, <2>1, <2>2 DEF WorkerDies, RunsTyped
  <2> QED BY <2>3, <2>4, <2>5 DEF Own, Apart
<1>3. CASE \E f \in Files : Edit(f) \/ Delete(f) \/ Restore(f)
  BY <1>3 DEF Edit, Delete, Restore, run, Own, Apart
<1>4. CASE LateCommits
  BY <1>4 DEF LateCommits, run, Own, Apart
<1> QED BY <1>2, <1>3, <1>4

\* A step that leaves the stores alone leaves the views alone.
LEMMA SameViews ==
    ASSUME UNCHANGED <<stores, world>>, NEW f
    PROVE  /\ View(f)' = View(f) /\ disk'[f] = disk[f] /\ Indexable(f)' = Indexable(f)
           /\ Same(f, sot[f], disk[f])' <=> Same(f, sot[f], disk[f])
           /\ Right(f)' <=> Right(f)
           /\ Overtaken(f)' <=> Overtaken(f)
  BY DEF stores, world, View, Snapshot, Indexable, Same, Right, Overtaken

\* Such a step leaves q what it knows.
LEMMA ApartKnows ==
    ASSUME NEW q, calm[q] \in BOOLEAN, Phases(q), Knows(q), Apart(q)
    PROVE  Phases(q)' /\ Knows(q)'
<1>1. Phases(q)'
  BY DEF Phases, Apart, Own
<1>2. CASE ~calm'[q]
  BY <1>1, <1>2 DEF Knows
<1>3. CASE calm'[q] = calm[q] /\ UNCHANGED <<stores, world>>
  <2>1. UNCHANGED <<sot, live, published, disk, restored>>
    BY <1>3 DEF stores, engines, world
  <2>2. \A f \in Files :
          /\ Right(f)' <=> Right(f)
          /\ Overtaken(f)' <=> Overtaken(f)
          /\ Same(f, sot[f], disk[f])' <=> Same(f, sot[f], disk[f])
          /\ Indexable(f)' = Indexable(f)
    BY <1>3, SameViews
  <2>3. /\ FastDone(q)' <=> FastDone(q)
        /\ RunDone(q)' <=> RunDone(q)
        /\ SaysCurrent(q)' <=> SaysCurrent(q)
    BY <2>1, <2>2 DEF FastDone, RunDone, SaysCurrent, Apart, Own
  <2>4. Current(q)' <=> Current(q)
    BY <2>1, <2>2 DEF Current, Apart, Own
  <2> QED BY <1>1, <1>3, <2>1, <2>3, <2>4 DEF Knows
<1> QED BY <1>1, <1>2, <1>3 DEF Apart

\* What the gate finds nothing about is as on disk.
LEMMA ProbedFiles ==
    ASSUME NEW f \in Files, f \notin Changed
    PROVE  Right(f)
  BY DEF Changed, Modified, Deleted, Unindexed, Right, Same

\* Rows of the version on disk are what the views show: no snapshot is newer.
LEMMA FreshRows ==
    ASSUME StoresTyped', Older', ~restored', NEW f \in Files, disk'[f] # 0, sot'[f] = disk'[f]
    PROVE  View(f)' = disk'[f]
<1>1. /\ Snapshot'[f] \in Nat /\ sot'[f] \in Nat
      /\ Snapshot'[f] <= disk'[f]
  <2>1. live'[f] \in Nat /\ published'[f] \in Nat /\ sot'[f] \in Nat
    BY DEF StoresTyped, Versions
  <2>2. live'[f] <= disk'[f] /\ published'[f] <= disk'[f]
    BY DEF Older, NotAhead
  <2> QED BY <2>1, <2>2 DEF Snapshot
<1> QED BY <1>1 DEF View

\* Rows that have what is on disk are what the views show, or are overtaken.
LEMMA EqualRows ==
    ASSUME StoresTyped', NEW f \in Files, Same(f, sot[f], disk[f])', disk'[f] # 0
    PROVE  Right(f)' \/ Overtaken(f)'
<1>1. Snapshot'[f] \in Nat /\ sot'[f] \in Nat /\ sot'[f] # 0
  <2>1. live'[f] \in Nat /\ published'[f] \in Nat /\ sot'[f] \in Nat
    BY DEF StoresTyped, Versions
  <2>2. sot'[f] # 0
    BY DEF Same
  <2> QED BY <2>1, <2>2 DEF Snapshot
<1>2. CASE Snapshot'[f] = 0 \/ sot'[f] >= Snapshot'[f]
  <2>1. View(f)' = sot'[f]
    BY <1>1, <1>2 DEF View
  <2> QED BY <2>1 DEF Right
<1>3. CASE sot'[f] < Snapshot'[f]
  BY <1>1, <1>3 DEF Overtaken
<1> QED BY <1>1, <1>2, <1>3

\* reconcile_path leaves a file right, or overtaken.
LEMMA ReconciledFile ==
    ASSUME StoresTyped', Older', ~restored', UNCHANGED <<disk, text>>,
           NEW f \in Files, disk[f] # 0, sot'[f] = Reconciled(f)
    PROVE  Right(f)' \/ Overtaken(f)'
<1>1. CASE Same(f, sot[f], disk[f])
  <2>1. Same(f, sot[f], disk[f])'
    BY <1>1 DEF Reconciled, Same
  <2> QED BY <2>1, EqualRows
<1>2. CASE ~Same(f, sot[f], disk[f])
  <2>1. View(f)' = disk'[f]
    BY <1>2, FreshRows DEF Reconciled
  <2> QED BY <2>1 DEF Right, Same
<1> QED BY <1>1, <1>2

LEMMA QueryKnows ==
    ASSUME TypeOK, TypeOK', StoreInv', NEW q \in Queries, Phases(q), Knows(q), QueryStep(q)
    PROVE  Phases(q)' /\ Knows(q)'
<1> USE PartsAreTyped
<1>1. q \in Actors /\ q \notin Workers
  BY DEF Actors
<1>2. rpc[q] # "none" => qpc[q] = "run"
  BY DEF Phases
\* In its own steps q has no reconcile, so only the fast tier and the answer count.
<1>3. ASSUME rpc'[q] \in {"none", "index"} PROVE RunDone(q)' /\ rpc'[q] # "builtin"
  BY <1>3 DEF RunDone
<1>4. CASE Ask(q)
  <2>1. rpc[q] = "none" /\ rpc'[q] = "none" /\ qpc'[q] = "probe"
    BY <1>2, <1>4 DEF Ask, QueryTo, QueriesTyped, run
  <2> QED BY <1>3, <2>1 DEF Phases, Knows, FastDone, SaysCurrent
<1>5. CASE ProbeStore(q)
  <2>1. rpc[q] = "none" /\ UNCHANGED <<stores, world>>
    BY <1>2, <1>5 DEF ProbeStore
  <2>2. ASSUME Changed = {}, says'[q] = "skipped_fresh", qpc'[q] = "read", rpc' = rpc
        PROVE  Phases(q)' /\ Knows(q)'
    <3>1. Current(q)'
      BY <2>1, <2>2, ProbedFiles, SameViews DEF Current
    <3> QED BY <1>3, <2>1, <2>2, <3>1 DEF Phases, Knows, FastDone
  <2>3. ASSUME qpc'[q] = "run", rpc'[q] = "index"
        PROVE  Phases(q)' /\ Knows(q)'
    BY <1>3, <2>3 DEF Phases, Knows, FastDone, SaysCurrent
  <2>4. ASSUME qpc'[q] = "fast", rpc' = rpc,
               \/ says'[q] = "stale"
               \/ Deleted = {} /\ says'[q] = "fresh" /\ todo'[q] = Changed
        PROVE  Phases(q)' /\ Knows(q)'
    <3>1. CASE says'[q] = "stale"
      BY <1>3, <2>1, <2>4, <3>1 DEF Phases, Knows, FastDone, SaysCurrent
    <3>2. CASE Deleted = {} /\ says'[q] = "fresh" /\ todo'[q] = Changed
      <4>1. \A f \in todo'[q] : disk'[f] # 0
        BY <2>1, <3>2, SameViews DEF Changed, Modified, Unindexed
      <4>2. \A f \in Files \ todo'[q] : Right(f)'
        BY <2>1, <3>2, ProbedFiles, SameViews
      <4>3. FastDone(q)'
        BY <2>4, <4>1, <4>2 DEF FastDone
      <4> QED BY <1>3, <2>1, <2>4, <3>2, <4>3 DEF Phases, Knows, SaysCurrent
    <3> QED BY <2>4, <3>1, <3>2
  <2>5. \/ Changed = {} /\ says'[q] = "skipped_fresh" /\ qpc'[q] = "read" /\ rpc' = rpc
        \/ qpc'[q] = "run" /\ rpc'[q] = "index"
        \/ /\ qpc'[q] = "fast" /\ rpc' = rpc
           /\ \/ says'[q] = "stale"
              \/ Deleted = {} /\ says'[q] = "fresh" /\ todo'[q] = Changed
    <3>1. CASE /\ Changed = {}
               /\ says' = [says EXCEPT ![q] = "skipped_fresh"]
               /\ QueryTo(q, "read")
               /\ UNCHANGED <<rpc, todo, bad>>
      BY <3>1 DEF QueryTo, QueriesTyped
    <3>2. CASE QueryTo(q, "run") /\ RunTo(q, "index")
      BY <1>1, <3>2 DEF QueryTo, RunTo, QueriesTyped, RunsTyped
    <3>3. CASE /\ QueryTo(q, "fast") /\ UNCHANGED rpc
               /\ \/ /\ todo' = [todo EXCEPT ![q] = Changed]
                     /\ says' = [says EXCEPT ![q] = IF Deleted = {} THEN "fresh" ELSE "stale"]
                  \/ says' = [says EXCEPT ![q] = "stale"]
      <4>1. qpc'[q] = "fast" /\ rpc' = rpc
        BY <3>3 DEF QueryTo, QueriesTyped
      <4>2. \/ todo'[q] = Changed /\ says'[q] = IF Deleted = {} THEN "fresh" ELSE "stale"
            \/ says'[q] = "stale"
        BY <1>1, <3>3 DEF QueriesTyped, RunsTyped
      <4> QED BY <4>1, <4>2
    <3> QED BY <1>5, <3>1, <3>2, <3>3 DEF ProbeStore
  <2> QED BY <2>2, <2>3, <2>4, <2>5
<1>6. CASE FastPath(q)
  <2>1. /\ qpc[q] = "fast" /\ qpc'[q] = "fast" /\ says'[q] = says[q]
        /\ rpc[q] = "none" /\ rpc'[q] = "none"
    BY <1>2, <1>6 DEF FastPath
  <2>2. CASE ~calm'[q]
    BY <2>1, <2>2 DEF Phases, Knows
  <2>3. CASE calm'[q]
    <3>1. PICK f \in todo[q] :
             /\ todo' = [todo EXCEPT ![q] = @ \ {f}]
             /\ \/ sot' = [sot EXCEPT ![f] = Reconciled(f)] /\ Stir(q)
                \/ Upset(q)
      BY <1>6 DEF FastPath
    <3>2. sot' = [sot EXCEPT ![f] = Reconciled(f)] /\ calm[q]
      BY <2>3, <3>1 DEF Stir, Upset
    <3>3. todo'[q] = todo[q] \ {f} /\ f \in Files
      BY <1>1, <3>1 DEF RunsTyped
    <3>4. UNCHANGED <<live, published, disk, text, restored>>
      BY <1>6 DEF FastPath, engines, world
    <3>5. ASSUME ~restored', says'[q] = "fresh" PROVE FastDone(q)'
      <4>1. /\ \A g \in todo[q] : disk[g] # 0
            /\ \A g \in Files \ todo[q] : Right(g) \/ Overtaken(g)
        BY <2>1, <3>2, <3>4, <3>5 DEF Knows, FastDone
      <4>2. Right(f)' \/ Overtaken(f)'
        <5>1. sot'[f] = Reconciled(f)
          BY <3>2, <3>3 DEF StoresTyped
        <5> QED BY <3>1, <3>3, <3>4, <3>5, <4>1, <5>1, ReconciledFile DEF StoreInv
      <4>3. ASSUME NEW g \in Files \ {f}
            PROVE  /\ Right(g)' <=> Right(g)
                   /\ Overtaken(g)' <=> Overtaken(g)
        <5>1. sot'[g] = sot[g]
          BY <3>2 DEF StoresTyped
        <5> QED BY <3>4, <5>1 DEF Right, Overtaken, Same, View, Snapshot
      <4> QED BY <2>1, <3>3, <3>4, <4>1, <4>2, <4>3 DEF FastDone
    <3>6. FastDone(q)' \/ restored'
      BY <3>5 DEF FastDone
    <3> QED BY <1>3, <2>1, <3>6 DEF Phases, Knows, SaysCurrent
  <2> QED BY <2>2, <2>3
\* The way from the fast tier to the answer.
<1>7. ASSUME UNCHANGED <<stores, world>>, qpc[q] \in {"fast", "lock", "write"},
             qpc'[q] \in {"lock", "write", "read"}, says' = says, calm' = calm, todo' = todo,
             rpc'[q] = rpc[q], qpc[q] = "fast" => todo[q] = {}
      PROVE  Phases(q)' /\ Knows(q)'
  <2>1. rpc'[q] = "none" /\ says'[q] \in {"fresh", "stale"}
    BY <1>2, <1>7 DEF Phases
  <2>2. restored' = restored
    BY <1>7 DEF engines, world
  <2>3. ASSUME says'[q] = "fresh", calm'[q], ~restored' PROVE todo'[q] = {} /\ Current(q)'
    <3>1. todo[q] = {} /\ \A f \in Files : Right(f) \/ Overtaken(f)
      BY <1>7, <2>2, <2>3 DEF Knows, FastDone
    <3>2. \A f \in Files : Right(f)' \/ Overtaken(f)'
      BY <1>7, <3>1, SameViews
    <3> QED BY <1>7, <2>3, <3>1, <3>2 DEF Current
  <2>4. calm'[q] /\ ~restored' => FastDone(q)'
    BY <1>7, <2>3 DEF FastDone, Current
  <2>5. calm'[q] /\ ~restored' => (SaysCurrent(q)' => Current(q)')
    BY <2>1, <2>3 DEF SaysCurrent
  <2> QED BY <1>3, <2>1, <2>4, <2>5 DEF Phases, Knows
<1>8. CASE \E due \in BOOLEAN : FastEnds(q, due)
  <2>1. qpc[q] = "fast" /\ todo[q] = {} /\ qpc'[q] \in {"lock", "read"}
    BY <1>8 DEF FastEnds, QueryTo, QueriesTyped
  <2> QED BY <1>7, <1>8, <2>1 DEF FastEnds, run
<1>9. CASE LockHeld(q) \/ WriteLockFile(q)
  <2>1. qpc[q] \in {"lock", "write"} /\ qpc'[q] = "read"
    BY <1>9 DEF LockHeld, WriteLockFile, QueryTo, QueriesTyped
  <2> QED BY <1>7, <1>9, <2>1 DEF LockHeld, WriteLockFile, run
<1>10. CASE SpawnReconcile(q)
  <2>1. qpc[q] = "lock" /\ qpc'[q] \in {"write", "read"}
    BY <1>10 DEF SpawnReconcile, QueryTo, QueriesTyped
  <2>2. rpc'[q] = rpc[q]
    BY <1>1, <1>10 DEF SpawnReconcile, RunTo, RunsTyped
  <2> QED BY <1>7, <1>10, <2>1, <2>2 DEF SpawnReconcile
<1>11. CASE Answer(q)
  <2>1. /\ rpc[q] = "none" /\ rpc'[q] = "none" /\ qpc'[q] = "idle"
        /\ ~calm'[q]
    BY <1>2, <1>11 DEF Answer, QueryTo, QueriesTyped, run
  <2> QED BY <2>1 DEF Phases, Knows
<1> QED BY <1>4, <1>5, <1>6, <1>8, <1>9, <1>10, <1>11 DEF QueryStep

\* A reconcile of q's own: q stays in "run" and learns what it wrote.
LEMMA RunKnows ==
    ASSUME TypeOK, NEW q \in Queries, Phases(q), Knows(q), RunStep(q)
    PROVE  Phases(q)' /\ Knows(q)'
<1> USE PartsAreTyped
<1>1. q \in Actors
  BY DEF Actors
<1>2. rpc[q] # "none" => qpc[q] = "run"
  BY DEF Phases
<1>3. calm[q] /\ ~restored => RunDone(q)
  BY DEF Knows
<1>4. ASSUME rpc[q] # "none", qpc'[q] = qpc[q], rpc'[q] = "builtin" => ~calm'[q],
             calm'[q] /\ ~restored' => RunDone(q)'
      PROVE  Phases(q)' /\ Knows(q)'
  BY <1>2, <1>4 DEF Phases, Knows, FastDone, SaysCurrent
<1>5. ASSUME UNCHANGED disk, NEW f PROVE Indexable(f)' = Indexable(f)
  BY <1>5 DEF Indexable
<1>6. CASE IndexReads(q)
  <2>1. /\ rpc[q] = "index" /\ rpc'[q] = "indexing" /\ qpc' = qpc /\ disk' = disk
        /\ \A f \in Files : copy'[q][f] = Indexable(f)
    BY <1>1, <1>6 DEF IndexReads, RunTo, RunsTyped, engines, world, query, Indexable
  <2> QED BY <1>4, <1>5, <2>1 DEF RunDone
<1>7. CASE IndexCommits(q)
  <2>1. /\ rpc[q] = "indexing" /\ rpc'[q] = "publish" /\ qpc' = qpc /\ live' = copy[q]
        /\ UNCHANGED <<disk, restored>> /\ (calm'[q] => calm[q])
    BY <1>1, <1>7 DEF IndexCommits, RunTo, RunsTyped, Stir, engines, world
  <2>2. calm'[q] /\ ~restored' => \A f \in Files : live'[f] = Indexable(f)
    BY <1>3, <2>1 DEF RunDone
  <2> QED BY <1>4, <1>5, <2>1, <2>2 DEF RunDone
<1>8. CASE IndexFails(q)
  <2>1. rpc[q] # "none" /\ rpc'[q] = "builtin" /\ qpc' = qpc /\ ~calm'[q]
    BY <1>1, <1>8 DEF IndexFails, RunTo, RunsTyped, Upset
  <2> QED BY <1>4, <2>1
<1>9. CASE Publish(q)
  <2>1. /\ rpc[q] = "publish" /\ rpc'[q] = "cover" /\ qpc' = qpc
        /\ UNCHANGED <<disk, restored, live>>
    BY <1>1, <1>9 DEF Publish, RunTo, RunsTyped, engines, world
  <2>2. calm'[q] => calm[q] /\ published' = live
    BY <1>9 DEF Publish, Stir, Upset
  <2>3. calm'[q] /\ ~restored' => \A f \in Files : live[f] = Indexable(f)
    BY <1>3, <2>1, <2>2 DEF RunDone
  <2> QED BY <1>4, <1>5, <2>1, <2>2, <2>3 DEF RunDone
<1>10. CASE Cover(q)
  <2>1. /\ rpc[q] = "cover" /\ rpc'[q] = "gap" /\ qpc' = qpc /\ calm' = calm
        /\ UNCHANGED <<disk, restored, live, published, sot>>
        /\ covered'[q] = {f \in Files : Snapshot[f] # 0}
        /\ todo'[q] = {f \in Files : disk[f] # 0 /\ Snapshot[f] = 0}
    BY <1>1, <1>10 DEF Cover, RunTo, RunsTyped, engines, world, stores, query
  <2>2. ASSUME calm'[q], ~restored' PROVE RunDone(q)'
    <3>1. \A f \in Files : live[f] = Indexable(f) /\ published[f] = Indexable(f)
      BY <1>3, <2>1, <2>2 DEF RunDone
    <3>2. \A f \in Files : Snapshot[f] = Indexable(f)
      BY <3>1 DEF Snapshot
    <3>3. \A f \in Files :
            /\ f \in covered'[q] <=> f \in EngineFiles /\ disk[f] # 0
            /\ f \notin EngineFiles /\ disk[f] # 0 => f \in todo'[q]
      BY <2>1, <3>2 DEF Indexable
    <3> QED BY <1>5, <2>1, <3>1, <3>3 DEF RunDone
  <2> QED BY <1>4, <2>1, <2>2
<1>11. CASE FillGap(q)
  <2>1. /\ rpc[q] = "gap" /\ rpc'[q] = "gap" /\ qpc' = qpc
        /\ UNCHANGED <<disk, text, restored, live, published, covered>>
    BY <1>11 DEF FillGap, engines, world
  <2>2. PICK f \in todo[q] :
          /\ todo' = [todo EXCEPT ![q] = @ \ {f}]
          /\ \/ sot' = [sot EXCEPT ![f] = Reconciled(f)] /\ Stir(q)
             \/ Upset(q)
    BY <1>11 DEF FillGap
  <2>3. todo'[q] = todo[q] \ {f} /\ f \in Files
    BY <1>1, <2>2 DEF RunsTyped
  <2>4. ASSUME calm'[q], ~restored' PROVE RunDone(q)'
    <3>1. calm[q] /\ sot' = [sot EXCEPT ![f] = Reconciled(f)]
      BY <2>2, <2>4 DEF Stir, Upset
    <3>2. RunDone(q)
      BY <1>3, <2>1, <2>4, <3>1
    <3>3. sot'[f] = Reconciled(f) /\ \A g \in Files \ {f} : sot'[g] = sot[g]
      BY <2>3, <3>1 DEF StoresTyped
    <3>4. Same(f, sot[f], disk[f])'
      BY <2>1, <3>3 DEF Reconciled, Same
    <3>5. \A g \in Files \ {f} : Same(g, sot[g], disk[g])' <=> Same(g, sot[g], disk[g])
      BY <2>1, <3>3 DEF Same
    <3> QED BY <1>5, <2>1, <2>3, <3>2, <3>3, <3>4, <3>5 DEF RunDone
  <2> QED BY <1>4, <2>1, <2>4
<1>12. CASE GapsFilled(q)
  <2>1. /\ rpc[q] = "gap" /\ todo[q] = {} /\ rpc'[q] = "purge" /\ qpc' = qpc /\ calm' = calm
        /\ UNCHANGED <<disk, text, restored, live, published, sot, covered>>
        /\ todo'[q] = {f \in Files : sot[f] # 0}
    BY <1>1, <1>12 DEF GapsFilled, RunTo, RunsTyped, engines, world, stores, query
  <2>2. \A f \in Files : Same(f, sot[f], disk[f])' <=> Same(f, sot[f], disk[f])
    BY <2>1 DEF Same
  <2>3. calm'[q] /\ ~restored' => RunDone(q)'
    BY <1>3, <1>5, <2>1, <2>2 DEF RunDone
  <2> QED BY <1>4, <2>1, <2>3
<1>13. CASE Purge(q)
  <2>1. /\ rpc[q] = "purge" /\ rpc'[q] = "purge" /\ qpc' = qpc
        /\ UNCHANGED <<disk, text, restored, live, published, covered>>
    BY <1>13 DEF Purge, engines, world
  <2>2. PICK f \in todo[q] :
          /\ todo' = [todo EXCEPT ![q] = @ \ {f}]
          /\ \/ (f \in covered[q] \/ disk[f] = 0) /\ sot' = [sot EXCEPT ![f] = 0] /\ Stir(q)
             \/ Upset(q)
             \/ f \notin covered[q] /\ disk[f] # 0 /\ UNCHANGED <<sot, calm>>
    BY <1>13 DEF Purge
  <2>3. todo'[q] = todo[q] \ {f} /\ f \in Files
    BY <1>1, <2>2 DEF RunsTyped
  <2>4. ASSUME calm'[q], ~restored' PROVE RunDone(q)'
    <3>1. calm[q] /\ RunDone(q)
      BY <1>3, <2>1, <2>2, <2>4 DEF Stir, Upset
    <3>2. CASE (f \in covered[q] \/ disk[f] = 0) /\ sot' = [sot EXCEPT ![f] = 0]
      <4>1. sot'[f] = 0 /\ \A g \in Files \ {f} : sot'[g] = sot[g]
        BY <2>3, <3>2 DEF StoresTyped
      <4>2. \A g \in Files \ {f} : Same(g, sot[g], disk[g])' <=> Same(g, sot[g], disk[g])
        BY <2>1, <4>1 DEF Same
      <4> QED BY <1>5, <2>1, <2>3, <3>1, <3>2, <4>1, <4>2 DEF RunDone
    <3>3. CASE f \notin covered[q] /\ disk[f] # 0 /\ UNCHANGED sot
      <4>1. \A g \in Files : Same(g, sot[g], disk[g])' <=> Same(g, sot[g], disk[g])
        BY <2>1, <3>3 DEF Same
      <4> QED BY <1>5, <2>1, <2>3, <3>1, <3>3, <4>1 DEF RunDone
    <3> QED BY <2>2, <2>4, <3>2, <3>3 DEF Upset
  <2> QED BY <1>4, <2>1, <2>4
<1>14. CASE Builtin(q)
  <2>1. /\ rpc[q] = "builtin" /\ rpc'[q] = "purge" /\ qpc' = qpc
        /\ (calm'[q] => calm[q])
    BY <1>1, <1>14 DEF Builtin, RunTo, RunsTyped, Stir
  <2> QED BY <1>4, <2>1 DEF Phases
<1>15. CASE EndRun(q)
  <2>1. /\ rpc[q] = "purge" /\ todo[q] = {} /\ rpc'[q] = "none" /\ qpc'[q] = "read"
        /\ calm' = calm /\ UNCHANGED <<stores, world>>
    BY <1>1, <1>15 DEF EndRun, RunTo, QueryTo, QueriesTyped, RunsTyped
  <2>2. ASSUME calm'[q], ~restored' PROVE Current(q)'
    <3>1. RunDone(q)
      BY <1>3, <2>1, <2>2 DEF engines, world
    <3>2. \A f \in Files : Snapshot[f] = Indexable(f)
      BY <2>1, <3>1 DEF RunDone, Snapshot
    <3>3. \A f \in Files : f \in covered[q] \/ disk[f] = 0 => sot[f] = 0
      BY <2>1, <3>1 DEF RunDone
    <3>4. \A f \in Files :
            /\ f \in covered[q] <=> f \in EngineFiles /\ disk[f] # 0
            /\ f \notin EngineFiles /\ disk[f] # 0 => Same(f, sot[f], disk[f])
      BY <2>1, <3>1 DEF RunDone
    <3>5. \A f \in Files : disk[f] \in Nat
      BY DEF StoresTyped, Versions
    <3>6. ASSUME NEW f \in Files PROVE Right(f)
      <4>1. CASE f \notin EngineFiles /\ disk[f] # 0
        BY <3>2, <3>4, <4>1 DEF Right, View, Indexable
      <4>2. CASE f \in EngineFiles \/ disk[f] = 0
        BY <3>2, <3>3, <3>4, <3>5, <4>2 DEF Right, Same, View, Indexable
      <4> QED BY <4>1, <4>2
    <3> QED BY <2>1, <3>6, SameViews DEF Current
  <2> QED BY <2>1, <2>2 DEF Phases, Knows, FastDone, RunDone
<1>16. CASE IndexRetries(q)
  <2>1. rpc[q] = "indexing" /\ rpc'[q] = "index" /\ qpc' = qpc
    BY <1>1, <1>16 DEF IndexRetries, RunTo, RunsTyped, query
  <2> QED BY <1>4, <2>1 DEF RunDone
<1> QED
  BY <1>6, <1>7, <1>8, <1>9, <1>10, <1>11, <1>12, <1>13, <1>14, <1>15, <1>16 DEF RunStep

LEMMA KnowStep == ASSUME TypeOK, TypeOK', StoreInv', KnowInv, Next PROVE KnowInv'
<1> SUFFICES ASSUME NEW q \in Queries PROVE Phases(q)' /\ Knows(q)'
  BY DEF KnowInv
<1>1. Phases(q) /\ Knows(q) /\ calm[q] \in BOOLEAN
  BY DEF KnowInv, TypeOK
<1>2. CASE Apart(q)
  BY <1>1, <1>2, ApartKnows
<1>3. CASE \E p \in Queries : QueryStep(p)
  BY <1>1, <1>2, <1>3, OtherQueries, QueryKnows
<1>4. CASE \E a \in Actors : RunStep(a)
  BY <1>1, <1>2, <1>4, OtherRuns, RunKnows
<1>5. CASE \/ LateCommits
           \/ \E w \in Workers : WorkerDies(w)
           \/ \E f \in Files : Edit(f) \/ Delete(f) \/ Restore(f)
  BY <1>2, <1>5, DeathsAndUsers
<1> QED BY <1>3, <1>4, <1>5 DEF Next

LEMMA InitHolds == Init => IInv
<1> SUFFICES ASSUME Init PROVE IInv
  OBVIOUS
<1>1. TypeOK
  <2>1. 0 \in Versions /\ NoStore \in [Files -> Versions]
    BY DEF Versions, NoStore
  <2>2. StoresTyped
    BY <2>1 DEF Init, StoresTyped
  <2>3. QueriesTyped
    BY DEF Init, QueriesTyped, QueryPoints, Statuses
  <2>4. RunsTyped
    BY <2>1 DEF Init, RunsTyped, RunPoints
  <2> QED BY <2>2, <2>3, <2>4, PartsAreTyped DEF Init
<1>2. StoreInv
  BY DEF Init, StoreInv, EngineOnly, Older, NotAhead, Single, Ahead, NotBehind, NoStore
<1>3. KnowInv
  BY DEF Init, KnowInv, Phases, Knows, Actors
<1> QED BY <1>1, <1>2, <1>3 DEF IInv

LEMMA NextKeeps == IInv /\ [Next]_vars => IInv'
<1> SUFFICES ASSUME IInv, [Next]_vars PROVE IInv'
  OBVIOUS
<1>1. CASE Next
  <2>1. TypeOK' /\ StoreInv'
    BY <1>1, TypeStep, StoreStep DEF IInv, StoreInv
  <2> QED BY <1>1, <2>1, KnowStep DEF IInv
<1>2. CASE UNCHANGED vars
  <2>1. UNCHANGED <<disk, now, restored, text, sot, live, published, late, overlapped, lockfile, qpc, says, calm, child,
                    rpc, todo, covered, copy, bad, faults>>
    BY <1>2 DEF vars, stores, engines, world, query, run
  <2>2. TypeOK'
    BY <2>1 DEF IInv, TypeOK
  <2>3. StoreInv'
    BY <2>1 DEF IInv, StoreInv, EngineOnly, Older, NotAhead, Single, Ahead, NotBehind
  <2>4. KnowInv'
    <3> SUFFICES ASSUME NEW q \in Queries PROVE Phases(q)' /\ Knows(q)'
      BY DEF KnowInv
    <3>1. Apart(q)
      BY <1>2, <2>1 DEF Apart, Own, stores, engines, world
    <3> QED BY <3>1, ApartKnows DEF IInv, KnowInv, TypeOK
  <2> QED BY <2>2, <2>3, <2>4 DEF IInv
<1> QED BY <1>1, <1>2

-----------------------------------------------------------------------------
(* The theorems *)

\* The inductive invariant: types; no store ahead of the disk; no engine's work behind
\* what is published, until two index side by side; and what every undisturbed query
\* knows where it is.
THEOREM Invariance == Spec => []IInv
  BY InitHolds, NextKeeps, PTL DEF Spec

\* The variables of queries, reconciles and stores have the types they should: in
\* particular a reconcile covers files of the engine only.
THEOREM TypeCorrect == Spec => []TypeOK
<1>1. IInv => TypeOK
  BY DEF IInv
<1> QED BY <1>1, Invariance, PTL

\* ensure_fresh: an envelope that calls the answer current is right about every file,
\* however many files, queries and reconciles there are, unless somebody else writes,
\* something fails or an mtime goes back after its probe; but for the fast tier's
\* files whose unchanged rows an older content in the snapshot outranks.
THEOREM CurrentAnswers == Spec => []CurrentBarringRaces
<1>1. IInv => CurrentBarringRaces
  BY DEF IInv, KnowInv, Knows, Current, CurrentBarringRaces
<1> QED BY <1>1, Invariance, PTL

\* publish_store: until two engines index side by side, the published snapshot never
\* goes back to an older version of a file, however reconciles overlap, turn to another
\* engine, die or fail.
THEOREM SnapshotsNeverGoBack == Spec => SnapshotNeverGoesBack
<1> DEFINE Forward ==
      ~restored' /\ ~overlapped' =>
          \A f \in Files : published'[f] = 0 \/ published'[f] >= published[f]
<1>1. ASSUME IInv, [Next]_vars PROVE [Forward]_vars
  <2> USE PartsAreTyped
  <2>1. \A f \in Files : published[f] \in Nat /\ published[f] >= published[f]
    BY <1>1 DEF IInv, StoresTyped, Versions
  <2>2. ASSUME UNCHANGED published PROVE Forward
    BY <2>1, <2>2
  <2>3. ASSUME NEW a \in Actors, RunStep(a) PROVE Forward
    <3>1. CASE Publish(a)
      <4>1. /\ UNCHANGED <<restored, overlapped>>
            /\ published' = live \/ published' = published
        BY <3>1 DEF Publish, engines, world
      <4>2. ~restored /\ ~overlapped => \A f \in Files : live[f] = 0 \/ live[f] >= published[f]
        BY <1>1 DEF IInv, StoreInv, Ahead
      <4> QED BY <2>2, <4>1, <4>2
    <3>2. CASE ~Publish(a)
      <4>1. UNCHANGED published
        BY <2>3, <3>2 DEF RunStep, IndexReads, IndexCommits, IndexRetries, IndexFails, Cover,
           FillGap, GapsFilled, Purge, Builtin, EndRun, stores
      <4> QED BY <2>2, <4>1
    <3> QED BY <3>1, <3>2
  <2>4. ASSUME NEW q \in Queries, QueryStep(q) PROVE Forward
    BY <1>1, <2>2, <2>4, QueriesSettle DEF IInv, Settles
  <2>5. ASSUME NEW w \in Workers, WorkerDies(w) PROVE Forward
    BY <2>2, <2>5 DEF WorkerDies, stores
  <2>6. ASSUME LateCommits PROVE Forward
    BY <2>2, <2>6 DEF LateCommits
  <2>7. ASSUME NEW f \in Files, Edit(f) \/ Delete(f) \/ Restore(f) PROVE Forward
    BY <2>2, <2>7 DEF Edit, Delete, Restore, stores
  <2> QED BY <1>1, <2>3, <2>4, <2>5, <2>6, <2>7 DEF Next
<1>2. IInv /\ [Next]_vars => [Forward]_vars
  BY <1>1
<1> QED BY <1>2, Invariance, PTL DEF Spec, SnapshotNeverGoesBack
=============================================================================
