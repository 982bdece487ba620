----------------------------- MODULE Publication -----------------------------
(***************************************************************************)
(* Two-phase publication of src/sot_graph/reconciler.py: several processes *)
(* scan, hash and parse files with no lock (phase A) and publish what they *)
(* parsed under the project write lock (phase B) while the files are being *)
(* edited, deleted and recreated.                                          *)
(*                                                                         *)
(* The write lock is the mutex that module WriteLock implements: `gate` is *)
(* its owner.  A SQLite transaction is one step.                           *)
(***************************************************************************)
EXTENDS Naturals, FiniteSets

CONSTANTS
    Writers,        \* processes or threads with a Reconciler on one database
    Files,          \* supported paths inside the root
    Contents,       \* what a file can hold; equal contents have equal hashes
    Absent,         \* no such file; nothing extracted
    NoRow,          \* no file_journal row
    NoRecord,       \* no ParseJob or ParseResult of a file
    Free,           \* nobody holds .sot/write.lock
    MaxEdits,       \* bound: changes to the files
    MaxFaults,      \* bound: kills, failed transactions and lock timeouts
    Forcers,        \* bound: the writers that run `reconcile --force`
    Callers,        \* bound: the writers that run reconcile_path
    MaxGeneration   \* bound: `reconcile --force` starts below it; 0: never

ASSUME BoundsAssumption ==
    MaxEdits \in Nat /\ MaxFaults \in Nat /\ MaxGeneration \in Nat
ASSUME DistinctAssumption ==
    /\ Absent \notin Contents
    /\ Free \notin Writers
    /\ NoRow \notin [sha : Contents, stamp : Nat, generation : Nat, seen : Nat]
    /\ NoRecord \notin [sha : Contents \cup {Absent}, stamp : Nat, base : Nat,
                        graph : Contents \cup {Absent}, seen : Nat]

VARIABLES
    disk,       \* disk[f]: the file's content now
    stamp,      \* stamp[f]: its mtime, later for every change
    edits,      \* changes so far
    faults,     \* kills, failed transactions and lock timeouts so far
    journal,    \* journal[f]: the file_journal row
    graph,      \* graph[f]: the content its node and edge rows were extracted from
    gate,       \* the holder of the write lock
    pc,         \* pc[w]: where writer w is
    mode,       \* mode[w]: the operation it runs
    stage,      \* stage[w][f]: how far it got with file f
    record,     \* record[w][f]: its ParseJob, then ParseResult
    prior,      \* prior[w][f]: the journal row it read first
    current,    \* current[w]: current_paths, the files its scan found
    known,      \* known[w]: _known_abs_paths, read after the scan
    clean,      \* clean[w]: its run counted no failure and no conflict
    calm,       \* history: nothing changed since it and all it overlapped began
    pruned      \* history: the paths whose row was ever deleted

db == <<journal, graph, pruned>>
files == <<disk, stamp, edits>>
run == <<mode, prior, current, calm>>
vars == <<files, faults, db, gate, pc, stage, record, known, clean, run>>

Stages == {"none", "listed", "stated", "hashing", "job", "read", "parsed", "fresh",
           "missing", "doomed"}

\* seen is history: the mtime the file had when the hashed bytes were read.
Rows == [sha : Contents, stamp : Nat, generation : Nat, seen : Nat]
Records == [sha : Contents \cup {Absent}, stamp : Nat, base : Nat,
            graph : Contents \cup {Absent}, seen : Nat]

\* One type invariant of the module.
TypeOK ==
    /\ disk \in [Files -> Contents \cup {Absent}]
    /\ stamp \in [Files -> Nat]
    /\ edits \in Nat /\ faults \in Nat
    /\ journal \in [Files -> Rows \cup {NoRow}]
    /\ graph \in [Files -> Contents \cup {Absent}]
    /\ gate \in Writers \cup {Free}
    /\ pc \in [Writers -> {"idle", "list", "scan", "parse", "publish", "sweep", "prune"}]
    /\ mode \in [Writers -> {"path", "reconcile", "force"}]
    /\ stage \in [Writers -> [Files -> Stages]]
    /\ record \in [Writers -> [Files -> Records \cup {NoRecord}]]
    /\ prior \in [Writers -> [Files -> Rows \cup {NoRow}]]
    /\ current \in [Writers -> SUBSET Files]
    /\ known \in [Writers -> SUBSET Files]
    /\ clean \in [Writers -> BOOLEAN]
    /\ calm \in [Writers -> BOOLEAN]
    /\ pruned \in SUBSET Files

\* An index that was never built over files that were there before.
Init ==
    /\ disk \in [Files -> Contents]
    /\ stamp = [f \in Files |-> 0]
    /\ edits = 0 /\ faults = 0
    /\ journal = [f \in Files |-> NoRow]
    /\ graph = [f \in Files |-> Absent]
    /\ gate = Free
    /\ pc = [w \in Writers |-> "idle"]
    /\ mode = [w \in Writers |-> "path"]
    /\ stage = [w \in Writers |-> [f \in Files |-> "none"]]
    /\ record = [w \in Writers |-> [f \in Files |-> NoRecord]]
    /\ prior = [w \in Writers |-> [f \in Files |-> NoRow]]
    /\ current = [w \in Writers |-> {}]
    /\ known = [w \in Writers |-> {}]
    /\ clean = [w \in Writers |-> TRUE]
    /\ calm = [w \in Writers |-> TRUE]
    /\ pruned = {}

OnDisk == {f \in Files : disk[f] # Absent}
Journaled == {f \in Files : journal[f] # NoRow}
Generation(row) == IF row = NoRow THEN 0 ELSE row.generation
Active == {w \in Writers : pc[w] # "idle"}

\* Files w has at one of these stages.
At(w, stages) == {f \in Files : stage[w][f] \in stages}

Move(w, f, to) == stage' = [stage EXCEPT ![w][f] = to]
Drop(w, f) ==
    /\ Move(w, f, "none")
    /\ record' = [record EXCEPT ![w][f] = NoRecord]
GoTo(w, where) == pc' = [pc EXCEPT ![w] = where]

\* A failure or a conflict is counted; reconcile_path counts nothing.
Dirty(w) == clean' = [clean EXCEPT ![w] = mode[w] = "path"]

\* Something goes wrong that the program does not control.
Fault ==
    /\ faults < MaxFaults
    /\ faults' = faults + 1

\* The operation returns or raises; what it had in memory is gone.
Leave(w) ==
    /\ GoTo(w, "idle")
    /\ stage' = [stage EXCEPT ![w] = [f \in Files |-> "none"]]
    /\ record' = [record EXCEPT ![w] = [f \in Files |-> NoRecord]]
    /\ prior' = [prior EXCEPT ![w] = [f \in Files |-> NoRow]]
    /\ current' = [current EXCEPT ![w] = {}]
    /\ known' = [known EXCEPT ![w] = {}]
    /\ mode' = [mode EXCEPT ![w] = "path"]
    /\ clean' = [clean EXCEPT ![w] = TRUE]
    /\ calm' = [calm EXCEPT ![w] = TRUE]

-----------------------------------------------------------------------------
(* The files and the operating system.                                     *)

\* A file is created, edited or deleted.  No two changes share an mtime.
Edit(f, content) ==
    /\ edits < MaxEdits
    /\ disk[f] # content
    /\ disk' = [disk EXCEPT ![f] = content]
    /\ edits' = edits + 1
    /\ stamp' = [stamp EXCEPT ![f] = edits']
    /\ calm' = [w \in Writers |-> pc[w] = "idle"]
    /\ UNCHANGED <<faults, db, gate, pc, stage, record, known, clean, mode, prior, current>>

\* A process is killed: its lock is released, an open transaction rolled back.
Crash(w) ==
    /\ Fault
    /\ pc[w] # "idle"
    /\ gate' = IF gate = w THEN Free ELSE gate
    /\ Leave(w)
    /\ UNCHANGED <<files, db>>

-----------------------------------------------------------------------------
(* Phase A, no lock held.                                                  *)

Begin(w, m, listed, where, rows) ==
    /\ pc[w] = "idle"
    /\ GoTo(w, where)
    /\ mode' = [mode EXCEPT ![w] = m]
    /\ stage' = [stage EXCEPT ![w] = [f \in Files |-> IF f \in listed THEN "listed" ELSE "none"]]
    /\ prior' = [prior EXCEPT ![w] = rows]
    /\ current' = [current EXCEPT ![w] = listed]
    /\ clean' = [clean EXCEPT ![w] = TRUE]
    /\ calm' = [calm EXCEPT ![w] = \A v \in Active : calm[v]]
    /\ UNCHANGED <<files, faults, db, gate, record, known>>

\* The rows of some paths, as the journal has them now.
RowsOf(paths) == [f \in Files |-> IF f \in paths THEN journal[f] ELSE NoRow]

\* reconcile(): the scan lists the supported files.
StartReconcile(w) == Begin(w, "reconcile", OnDisk, "list", RowsOf({}))

\* reconcile(force=True), of an index that has rows: without rows it is the same.
StartForce(w) ==
    /\ w \in Forcers /\ Journaled # {}
    /\ \A f \in Journaled : journal[f].generation < MaxGeneration
    /\ Begin(w, "force", OnDisk, "list", RowsOf({}))

\* reconcile_path(): an event names one path, and its row is read before its stat.
StartPath(w, f) ==
    /\ w \in Callers
    /\ Begin(w, "path", {f}, "scan", RowsOf({f}))

\* The scan is over: the whole journal is read into journal_cache.
CacheJournal(w) ==
    /\ pc[w] = "list"
    /\ prior' = [prior EXCEPT ![w] = RowsOf(current[w])]
    /\ GoTo(w, "scan")
    /\ UNCHANGED <<files, faults, db, gate, stage, record, known, clean, mode, current, calm>>

\* The ParseJob of f: its size and mtime, and the generation of the row in hand.
Job(w, f) ==
    [sha |-> Absent, stamp |-> stamp[f], base |-> Generation(prior[w][f]), graph |-> Absent,
     seen |-> 0]

\* The same size and mtime are not trusted: the hash is compared.
Compares(w, row, mtime) == mode[w] = "reconcile" /\ row # NoRow /\ row.stamp = mtime

\* A listed file is stated; of one without a cached row the row is read after that.
Stat(w, f) ==
    /\ pc[w] = "scan"
    /\ stage[w][f] = "listed"
    /\ disk[f] # Absent
    /\ record' = [record EXCEPT ![w][f] = Job(w, f)]
    /\ Move(w, f, IF mode[w] # "path" /\ prior[w][f] = NoRow THEN "stated"
                  ELSE IF Compares(w, prior[w][f], stamp[f]) THEN "hashing" ELSE "job")
    /\ UNCHANGED <<files, faults, db, gate, pc, known, clean, run>>

\* journal_cache.get(path) or get_file_journal(path): the row is younger than the
\* mtime that goes with it.
LookUp(w, f) ==
    /\ pc[w] = "scan"
    /\ stage[w][f] = "stated"
    /\ prior' = [prior EXCEPT ![w][f] = journal[f]]
    /\ record' = [record EXCEPT ![w][f].base = Generation(journal[f])]
    /\ Move(w, f, IF Compares(w, journal[f], record[w][f].stamp) THEN "hashing" ELSE "job")
    /\ UNCHANGED <<files, faults, db, gate, pc, known, clean, mode, current, calm>>

\* A path that is not there is deleted; a file the scan had listed counts as failed.
StatMissing(w, f) ==
    /\ pc[w] = "scan"
    /\ stage[w][f] = "listed"
    /\ disk[f] = Absent
    /\ Move(w, f, IF mode[w] = "path" THEN "doomed" ELSE "none")
    /\ Dirty(w)
    /\ UNCHANGED <<files, faults, db, gate, pc, record, known, run>>

HashUnchanged(w, f) ==
    /\ pc[w] = "scan"
    /\ stage[w][f] = "hashing"
    /\ disk[f] \in {prior[w][f].sha, Absent}
    /\ Drop(w, f)
    /\ clean' = [clean EXCEPT ![w] = clean[w] /\ disk[f] # Absent]
    /\ UNCHANGED <<files, faults, db, gate, pc, known, run>>

HashChanged(w, f) ==
    /\ pc[w] = "scan"
    /\ stage[w][f] = "hashing"
    /\ disk[f] \notin {prior[w][f].sha, Absent}
    /\ Move(w, f, "job")
    /\ UNCHANGED <<files, faults, db, gate, pc, record, known, clean, run>>

\* Mutant: no known paths, so the sweep has nothing to prune.
MutantNothingKnown(w) ==
    /\ pc[w] = "scan"
    /\ At(w, {"listed", "stated", "hashing"}) = {}
    /\ GoTo(w, "parse")
    /\ UNCHANGED <<files, faults, db, gate, stage, record, known, clean, run>>

\* All jobs are known: reconcile() needs the journal it read no more, and reads
\* the known paths before it parses.
EndScan(w) ==
    /\ pc[w] = "scan"
    /\ At(w, {"listed", "stated", "hashing"}) = {}
    /\ known' = [known EXCEPT ![w] = IF mode[w] = "path" THEN {} ELSE Journaled]
    /\ prior' = IF mode[w] = "path" THEN prior
                ELSE [prior EXCEPT ![w] = [f \in Files |-> NoRow]]
    /\ GoTo(w, "parse")
    /\ UNCHANGED <<files, faults, db, gate, stage, record, clean, mode, current, calm>>

\* Mutant: a file that cannot be read hashes to the empty string and goes on.
MutantReadEmpty(w, f) ==
    /\ pc[w] = "parse"
    /\ stage[w][f] = "job"
    /\ record' = [record EXCEPT ![w][f].sha = disk[f]]
    /\ Move(w, f, "read")
    /\ UNCHANGED <<files, faults, db, gate, pc, known, clean, run>>

\* parse_file_graph reads the bytes it hashes.
ReadBytes(w, f) ==
    /\ pc[w] = "parse"
    /\ stage[w][f] = "job"
    /\ disk[f] # Absent
    /\ record' = [record EXCEPT ![w][f] = [@ EXCEPT !.sha = disk[f], !.seen = stamp[f]]]
    /\ Move(w, f, "read")
    /\ UNCHANGED <<files, faults, db, gate, pc, known, clean, run>>

\* The worker's stat finds no file (a `missing:` error).
ReadMissing(w, f) ==
    /\ pc[w] = "parse"
    /\ stage[w][f] = "job"
    /\ disk[f] = Absent
    /\ Move(w, f, "missing")
    /\ UNCHANGED <<files, faults, db, gate, pc, record, known, clean, run>>

\* The file went between the worker's stat and its read: the parse failed.
ReadFailed(w, f) ==
    /\ pc[w] = "parse"
    /\ stage[w][f] = "job"
    /\ disk[f] = Absent
    /\ Drop(w, f)
    /\ Dirty(w)
    /\ UNCHANGED <<files, faults, db, gate, pc, known, run>>

\* The language extractor opens the file again; when it cannot, the base file
\* node is all there is.
Extract(w, f) ==
    /\ pc[w] = "parse"
    /\ stage[w][f] = "read"
    /\ record' = [record EXCEPT ![w][f].graph = disk[f]]
    /\ Move(w, f, "parsed")
    /\ UNCHANGED <<files, faults, db, gate, pc, known, clean, run>>

\* The missing file is looked for once more before its rows are deleted.
ConfirmMissing(w, f) ==
    /\ pc[w] = "parse"
    /\ stage[w][f] = "missing"
    /\ disk[f] = Absent
    /\ Move(w, f, "doomed")
    /\ UNCHANGED <<files, faults, db, gate, pc, record, known, clean, run>>

MissingIsBack(w, f) ==
    /\ pc[w] = "parse"
    /\ stage[w][f] = "missing"
    /\ disk[f] # Absent
    /\ Drop(w, f)
    /\ Dirty(w)
    /\ UNCHANGED <<files, faults, db, gate, pc, known, run>>

-----------------------------------------------------------------------------
(* Deletions and phase B, under the write lock.                            *)

\* delete_path in one transaction: node, edge and journal rows go.
DeleteRows(f) ==
    /\ journal' = [journal EXCEPT ![f] = NoRow]
    /\ graph' = [graph EXCEPT ![f] = Absent]
    /\ pruned' = IF journal[f] = NoRow THEN pruned ELSE pruned \cup {f}

\* A missing path loses its rows as soon as the lock is free.
DeleteDoomed(w, f) ==
    /\ pc[w] = "parse"
    /\ stage[w][f] = "doomed"
    /\ gate = Free
    /\ DeleteRows(f)
    /\ Drop(w, f)
    /\ UNCHANGED <<files, faults, gate, pc, known, clean, run>>

\* LockBusy while deleting: it propagates and ends the operation.
DeleteBusy(w) ==
    /\ pc[w] = "parse"
    /\ At(w, {"doomed"}) # {}
    /\ gate # Free
    /\ Fault
    /\ Leave(w)
    /\ UNCHANGED <<files, db, gate>>

\* reconcile_path: the parsed hash is the one of the row read first.
SameAsPrior(w, f) == prior[w][f] # NoRow /\ prior[w][f].sha = record[w][f].sha

Unchanged(w, f) ==
    /\ pc[w] = "parse"
    /\ mode[w] = "path"
    /\ stage[w][f] = "parsed"
    /\ SameAsPrior(w, f)
    /\ Drop(w, f)
    /\ UNCHANGED <<files, faults, db, gate, pc, known, clean, run>>

\* A window of jobs is parsed and there is something to publish.
WindowParsed(w) ==
    /\ pc[w] = "parse"
    /\ At(w, {"parsed"}) # {}
    /\ At(w, {"read", "missing", "doomed"}) = {}
    /\ mode[w] = "path" => ~\E f \in At(w, {"parsed"}) : SameAsPrior(w, f)

\* Mutant: what _commit_batch raises is caught and not counted.
MutantFailureNotCounted(w) ==
    /\ GoTo(w, "parse")
    /\ stage' = [stage EXCEPT ![w] = [f \in Files |-> IF @[f] = "job" THEN "job" ELSE "none"]]
    /\ record' = [record EXCEPT ![w] =
                     [f \in Files |-> IF stage[w][f] = "job" THEN @[f] ELSE NoRecord]]
    /\ UNCHANGED clean

\* What _commit_batch raises is caught: every file of the window failed.
WindowFailed(w) ==
    /\ GoTo(w, "parse")
    /\ stage' = [stage EXCEPT ![w] = [f \in Files |-> IF @[f] = "job" THEN "job" ELSE "none"]]
    /\ record' = [record EXCEPT ![w] =
                     [f \in Files |-> IF stage[w][f] = "job" THEN @[f] ELSE NoRecord]]
    /\ Dirty(w)

EnterGate(w) ==
    /\ WindowParsed(w)
    /\ gate = Free
    /\ gate' = w
    /\ GoTo(w, "publish")
    /\ UNCHANGED <<files, faults, db, stage, record, known, clean, run>>

GateBusy(w) ==
    /\ WindowParsed(w)
    /\ gate # Free
    /\ Fault
    /\ WindowFailed(w)
    /\ UNCHANGED <<files, db, gate, known, run>>

\* The file still has the parsed hash, size and, within 2 s, mtime.
Fresh(w, f) ==
    /\ pc[w] = "publish"
    /\ stage[w][f] = "parsed"
    /\ disk[f] = record[w][f].sha
    /\ Move(w, f, "fresh")
    /\ UNCHANGED <<files, faults, db, gate, pc, record, known, clean, run>>

\* The file changed since phase A.  A changed file with the parsed hash is fresh
\* or a conflict: how long ago the change was decides.
Conflict(w, f) ==
    /\ pc[w] = "publish"
    /\ stage[w][f] = "parsed"
    /\ disk[f] # record[w][f].sha \/ stamp[f] # record[w][f].stamp
    /\ Drop(w, f)
    /\ Dirty(w)
    /\ UNCHANGED <<files, faults, db, gate, pc, known, run>>

\* Mutant: no compare-and-swap.
MutantNoCas(w, f) == TRUE

\* commit_file_batch compares and swaps the generation the job was made with.
Unraced(w, f) == Generation(journal[f]) = record[w][f].base

\* Mutant: the row gets the mtime of the moment of the commit.
MutantRow(w, f) ==
    [sha |-> record[w][f].sha, stamp |-> stamp[f],
     generation |-> Generation(journal[f]) + 1, seen |-> record[w][f].seen]

\* The row a record leaves, with the mtime taken before the parse.
Row(w, f) ==
    [sha |-> record[w][f].sha, stamp |-> record[w][f].stamp,
     generation |-> Generation(journal[f]) + 1, seen |-> record[w][f].seen]

\* commit_file_batch: one transaction for the fresh records that lost no race.
Commit(w) ==
    /\ pc[w] = "publish"
    /\ At(w, {"parsed"}) = {}
    /\ LET won == {f \in At(w, {"fresh"}) : Unraced(w, f)} IN
           /\ journal' = [f \in Files |-> IF f \in won THEN Row(w, f) ELSE journal[f]]
           /\ graph' = [f \in Files |-> IF f \in won THEN record[w][f].graph ELSE graph[f]]
           /\ IF won = At(w, {"fresh"}) THEN UNCHANGED clean ELSE Dirty(w)
    /\ stage' = [stage EXCEPT ![w] = [f \in Files |-> IF @[f] = "fresh" THEN "none" ELSE @[f]]]
    /\ record' = [record EXCEPT ![w] =
                     [f \in Files |-> IF stage[w][f] = "fresh" THEN NoRecord ELSE @[f]]]
    /\ gate' = Free
    /\ GoTo(w, "parse")
    /\ UNCHANGED <<files, faults, pruned, known, run>>

\* The database raises: the transaction is rolled back.
CommitFails(w) ==
    /\ pc[w] = "publish"
    /\ At(w, {"parsed"}) = {} /\ At(w, {"fresh"}) # {}
    /\ Fault
    /\ WindowFailed(w)
    /\ gate' = Free
    /\ UNCHANGED <<files, db, known, run>>

\* Nothing is left to parse or publish.
EndParse(w) ==
    /\ pc[w] = "parse"
    /\ At(w, Stages \ {"none"}) = {}
    /\ IF mode[w] = "path"
       THEN Leave(w)
       ELSE GoTo(w, "sweep") /\ UNCHANGED <<stage, record, known, clean, run>>
    /\ UNCHANGED <<files, faults, db, gate>>

\* The deletion sweep holds the lock once for all its paths.
EnterSweep(w) ==
    /\ pc[w] = "sweep"
    /\ gate = Free
    /\ gate' = w
    /\ GoTo(w, "prune")
    /\ UNCHANGED <<files, faults, db, stage, record, known, clean, run>>

SweepBusy(w) ==
    /\ pc[w] = "sweep"
    /\ gate # Free
    /\ Fault
    /\ Leave(w)
    /\ UNCHANGED <<files, db, gate>>

\* A known path the scan did not find loses its rows, one transaction per path.
Prune(w, f) ==
    /\ pc[w] = "prune"
    /\ f \in known[w] \ current[w]
    /\ DeleteRows(f)
    /\ known' = [known EXCEPT ![w] = @ \ {f}]
    /\ UNCHANGED <<files, faults, gate, pc, stage, record, clean, run>>

EndSweep(w) ==
    /\ pc[w] = "prune"
    /\ known[w] \subseteq current[w]
    /\ gate' = Free
    /\ Leave(w)
    /\ UNCHANGED <<files, faults, db>>

-----------------------------------------------------------------------------

Parsing(w, f) ==
    \/ Stat(w, f) \/ StatMissing(w, f) \/ LookUp(w, f) \/ HashUnchanged(w, f)
    \/ HashChanged(w, f) \/ ReadBytes(w, f) \/ ReadMissing(w, f) \/ ReadFailed(w, f) \/ Extract(w, f)
    \/ ConfirmMissing(w, f) \/ MissingIsBack(w, f) \/ Unchanged(w, f)

Publishing(w) ==
    \/ CacheJournal(w) \/ EndScan(w) \/ DeleteBusy(w)
    \/ \E f \in Files : DeleteDoomed(w, f) \/ Fresh(w, f) \/ Conflict(w, f) \/ Prune(w, f)
    \/ EnterGate(w) \/ GateBusy(w) \/ Commit(w) \/ EndParse(w)
    \/ EnterSweep(w) \/ SweepBusy(w) \/ EndSweep(w)

Next ==
    \/ \E f \in Files, c \in Contents \cup {Absent} : Edit(f, c)
    \/ \E w \in Writers :
           \/ StartReconcile(w) \/ StartForce(w) \/ Crash(w)
           \/ Publishing(w) \/ CommitFails(w)
           \/ \E f \in Files : StartPath(w, f) \/ Parsing(w, f)

Spec == Init /\ [][Next]_vars

\* A running operation takes its next step, and `sotgraph reconcile` is run again
\* and again (the watcher's full pass, a hook, a query's freshness gate).
Fairness ==
    \A w \in Writers :
        /\ WF_vars(Publishing(w) \/ \E f \in Files : Parsing(w, f))
        /\ SF_vars(StartReconcile(w))

FairSpec == Spec /\ Fairness

-----------------------------------------------------------------------------
(* Properties.                                                             *)

\* staleness_probe trusts size and mtime alone: a row with the mtime of the file
\* names the hash of what the file holds, and the graph rows come from it.
StampVouches ==
    \A f \in Journaled :
        journal[f].stamp = stamp[f] => journal[f].sha = disk[f] /\ graph[f] = disk[f]

\* A publication replaces nothing that was read from a later state of the file,
\* whatever row its job was made with, as long as no deletion restarted the
\* generations of the path.  (The mtime in the row may go back: LookUp.)
NeverGoesBack ==
    [][\A f \in Files \ pruned :
           journal[f] # NoRow /\ journal'[f] # NoRow => journal'[f].seen >= journal[f].seen]_vars

InSync(f) ==
    IF disk[f] = Absent THEN journal[f] = NoRow
    ELSE journal[f] # NoRow /\ journal[f].sha = disk[f] /\ graph[f] = disk[f]

\* A reconcile() that reports no failure and no conflict leaves every file
\* indexed as it is on disk, whatever ran beside it, when no file changed since
\* the first of the runs it overlapped with began.
CleanRunIsInSync ==
    [][\A w \in Writers :
           pc[w] = "prune" /\ pc'[w] = "idle" /\ faults' = faults /\ clean[w] /\ calm[w]
               => \A f \in Files : InSync(f)]_vars

\* Once the files stop changing the index agrees with them for good.
Converges == <>[](\A f \in Files : InSync(f))

=============================================================================
