--------------------------- MODULE PublicationProofs ---------------------------
(***************************************************************************)
(* What a journal row vouches for, for any writers, files and contents.    *)
(* IInv follows an mtime from the moment a writer reads it: a record that  *)
(* still has the file's mtime has its hash and, once extracted, its graph, *)
(* because every later edit gave the file a later mtime; the row the       *)
(* record leaves inherits that.  Order is about publications that race,    *)
(* Calm about operations under which no file changes.                      *)
(***************************************************************************)
EXTENDS Publication, TLAPS

Underway == {"stated", "hashing", "job", "missing", "read", "parsed", "fresh"}

\* The record w has of f was made no later than the file's last change, and if
\* the file did not change since, it is about the file's content.
Honest(w, f) ==
    stage[w][f] \in Underway =>
        /\ record[w][f] \in Records
        /\ record[w][f].stamp <= stamp[f]
        /\ stage[w][f] \in {"read", "parsed", "fresh"} =>
               /\ record[w][f].sha \in Contents
               /\ record[w][f].seen <= stamp[f]
               /\ record[w][f].stamp = stamp[f] => record[w][f].sha = disk[f]
        /\ stage[w][f] \in {"parsed", "fresh"} =>
               (record[w][f].stamp = stamp[f] => record[w][f].graph = disk[f])

\* The same of the rows of f.
HonestRow(f) ==
    journal[f] # NoRow =>
        /\ journal[f].stamp <= stamp[f] /\ journal[f].seen <= stamp[f]
        /\ journal[f].stamp = stamp[f] => journal[f].sha = disk[f] /\ graph[f] = disk[f]

IInv ==
    /\ TypeOK
    /\ \A f \in Files : stamp[f] <= edits
    /\ \A w \in Writers, f \in Files : Honest(w, f)
    /\ \A f \in Files : HonestRow(f)

-----------------------------------------------------------------------------
(* Steps that publish nothing.                                             *)

\* A step that changes no file and no row, and each record of which is untouched
\* or honest, preserves the invariant.
LEMMA QuietStep ==
    ASSUME IInv, TypeOK', UNCHANGED <<disk, stamp, edits, journal, graph>>,
           \A v \in Writers, g \in Files :
               \/ stage'[v][g] = stage[v][g] /\ record'[v][g] = record[v][g]
               \/ Honest(v, g)'
    PROVE  IInv'
    <1>1. \A v \in Writers, g \in Files : Honest(v, g)'
        <2> SUFFICES ASSUME NEW v \in Writers, NEW g \in Files PROVE Honest(v, g)'
            OBVIOUS
        <2>1. CASE stage'[v][g] = stage[v][g] /\ record'[v][g] = record[v][g]
            BY <2>1 DEF IInv, Honest
        <2> QED BY <2>1
    <1>2. \A g \in Files : HonestRow(g)' /\ stamp'[g] <= edits'
        BY DEF IInv, HonestRow
    <1> QED BY <1>1, <1>2 DEF IInv

\* An operation that ends takes its records with it.
LEMMA LeaveIsQuiet ==
    ASSUME TypeOK, NEW w \in Writers, Leave(w)
    PROVE  /\ pc' \in [Writers -> {"idle", "list", "scan", "parse", "publish", "sweep", "prune"}]
           /\ mode' \in [Writers -> {"path", "reconcile", "force"}]
           /\ stage' \in [Writers -> [Files -> Stages]]
           /\ record' \in [Writers -> [Files -> Records \cup {NoRecord}]]
           /\ prior' \in [Writers -> [Files -> Rows \cup {NoRow}]]
           /\ current' \in [Writers -> SUBSET Files] /\ known' \in [Writers -> SUBSET Files]
           /\ clean' \in [Writers -> BOOLEAN] /\ calm' \in [Writers -> BOOLEAN]
           /\ \A v \in Writers, g \in Files :
                  \/ stage'[v][g] = stage[v][g] /\ record'[v][g] = record[v][g]
                  \/ Honest(v, g)'
    BY DEF TypeOK, Leave, GoTo, Stages, Honest, Underway

\* Kills, busy locks and the end of an operation preserve the invariant.
LEMMA LeavingStep ==
    ASSUME IInv, NEW w \in Writers,
           \/ Crash(w) \/ DeleteBusy(w) \/ SweepBusy(w) \/ EndSweep(w)
           \/ EndParse(w) /\ mode[w] = "path"
    PROVE  IInv'
    <1>1. Leave(w) /\ UNCHANGED <<disk, stamp, edits, journal, graph, pruned>>
        BY DEF Crash, DeleteBusy, SweepBusy, EndSweep, EndParse, files, db
    <1>2. gate' \in Writers \cup {Free} /\ faults' \in Nat
        BY DEF Crash, DeleteBusy, SweepBusy, EndSweep, EndParse, Fault, IInv, TypeOK
    <1>3. TypeOK'
        BY <1>1, <1>2, LeaveIsQuiet DEF IInv, TypeOK
    <1> QED BY <1>1, <1>3, LeaveIsQuiet, QuietStep DEF IInv

\* Rows of the journal, and none for the other paths.
LEMMA RowsOfType ==
    ASSUME TypeOK, NEW paths
    PROVE  /\ RowsOf(paths) \in [Files -> Rows \cup {NoRow}]
           /\ \A f \in Files : RowsOf(paths)[f] \in {journal[f], NoRow}
    BY DEF RowsOf, TypeOK

\* Steps that change only where a writer is, and read no file, preserve the invariant.
LEMMA GoingStep ==
    ASSUME IInv, NEW w \in Writers,
           \/ CacheJournal(w) \/ EndScan(w) \/ EnterGate(w) \/ EnterSweep(w)
           \/ EndParse(w) /\ mode[w] # "path"
    PROVE  IInv'
    <1>1. UNCHANGED <<disk, stamp, edits, journal, graph, pruned, stage, record, faults, mode,
                      current, clean, calm>>
        BY DEF CacheJournal, EndScan, EnterGate, EnterSweep, EndParse, files, db, run
    <1>2. /\ gate' \in Writers \cup {Free}
          /\ pc' \in [Writers -> {"idle", "list", "scan", "parse", "publish", "sweep", "prune"}]
          /\ prior' \in [Writers -> [Files -> Rows \cup {NoRow}]]
          /\ known' \in [Writers -> SUBSET Files]
        <2>1. CASE EndScan(w)
            <3>1. known' \in [Writers -> SUBSET Files]
                BY <2>1 DEF EndScan, Journaled, IInv, TypeOK
            <3>2. prior' \in [Writers -> [Files -> Rows \cup {NoRow}]]
                BY <2>1 DEF EndScan, IInv, TypeOK
            <3> QED BY <2>1, <3>1, <3>2 DEF EndScan, GoTo, IInv, TypeOK
        <2>2. CASE EnterGate(w) \/ EnterSweep(w)
            BY <2>2 DEF EnterGate, EnterSweep, run, GoTo, IInv, TypeOK
        <2>3. CASE EndParse(w) /\ mode[w] # "path"
            BY <2>3 DEF EndParse, run, GoTo, IInv, TypeOK
        <2>4. CASE CacheJournal(w)
            <3>1. RowsOf(current[w]) \in [Files -> Rows \cup {NoRow}]
                BY RowsOfType DEF IInv
            <3>2. prior' \in [Writers -> [Files -> Rows \cup {NoRow}]]
                BY <2>4, <3>1 DEF CacheJournal, IInv, TypeOK
            <3> QED BY <2>4, <3>2 DEF CacheJournal, GoTo, IInv, TypeOK
        <2> QED BY <2>1, <2>2, <2>3, <2>4
    <1>3. TypeOK'
        BY <1>1, <1>2 DEF IInv, TypeOK
    <1> QED BY <1>1, <1>3, QuietStep

\* A counted failure is a Boolean.
LEMMA DirtyIsBoolean ==
    ASSUME TypeOK, NEW w \in Writers, Dirty(w)
    PROVE  clean' \in [Writers -> BOOLEAN]
    BY DEF TypeOK, Dirty

\* Giving up a file preserves the invariant.
LEMMA DropStep ==
    ASSUME IInv, NEW w \in Writers, NEW f \in Files,
           \/ HashUnchanged(w, f) \/ ReadFailed(w, f) \/ MissingIsBack(w, f)
           \/ Unchanged(w, f) \/ Conflict(w, f)
    PROVE  IInv'
    <1>1. /\ Drop(w, f)
          /\ UNCHANGED <<disk, stamp, edits, journal, graph, pruned, faults, gate, pc, known, mode,
                         prior, current, calm>>
        BY DEF HashUnchanged, ReadFailed, MissingIsBack, Unchanged, Conflict, files, db, run
    <1>2. clean' \in [Writers -> BOOLEAN]
        BY DirtyIsBoolean
        DEF HashUnchanged, ReadFailed, MissingIsBack, Unchanged, Conflict, IInv, TypeOK
    <1>3. /\ stage' \in [Writers -> [Files -> Stages]]
          /\ record' \in [Writers -> [Files -> Records \cup {NoRecord}]]
        BY <1>1 DEF Drop, Move, Stages, IInv, TypeOK
    <1>4. TypeOK'
        BY <1>1, <1>2, <1>3 DEF IInv, TypeOK
    <1>5. \A v \in Writers, g \in Files :
              \/ stage'[v][g] = stage[v][g] /\ record'[v][g] = record[v][g]
              \/ Honest(v, g)'
        BY <1>1 DEF Drop, Move, Honest, Underway, IInv, TypeOK
    <1> QED BY <1>1, <1>4, <1>5, QuietStep

\* A file moving on with the record it has preserves the invariant.
LEMMA MoveStep ==
    ASSUME IInv, NEW w \in Writers, NEW f \in Files,
           \/ StatMissing(w, f) \/ HashChanged(w, f) \/ ReadMissing(w, f)
           \/ ConfirmMissing(w, f) \/ Fresh(w, f)
    PROVE  IInv'
    <1>1. UNCHANGED <<disk, stamp, edits, journal, graph, pruned, faults, gate, pc, known, mode,
                      prior, current, calm, record>>
        BY DEF StatMissing, HashChanged, ReadMissing, ConfirmMissing, Fresh, files, db, run
    <1>2. clean' \in [Writers -> BOOLEAN]
        BY DirtyIsBoolean
        DEF StatMissing, HashChanged, ReadMissing, ConfirmMissing, Fresh, IInv, TypeOK
    <1>3. PICK to \in Stages :
              /\ Move(w, f, to)
              /\ \/ to \notin Underway
                 \/ to \in {"job", "missing"} /\ stage[w][f] \in Underway
                 \/ to = "fresh" /\ stage[w][f] = "parsed"
        BY DEF StatMissing, HashChanged, ReadMissing, ConfirmMissing, Fresh, Underway, Stages
    <1>4. stage' \in [Writers -> [Files -> Stages]]
        BY <1>3 DEF Move, IInv, TypeOK
    <1>5. TypeOK'
        BY <1>1, <1>2, <1>4 DEF IInv, TypeOK
    <1>6. /\ stage'[w][f] = to
          /\ \A v \in Writers, g \in Files :
                 v # w \/ g # f => stage'[v][g] = stage[v][g] /\ record'[v][g] = record[v][g]
        BY <1>1, <1>3 DEF Move, IInv, TypeOK
    <1>7. Honest(w, f)'
        BY <1>1, <1>3, <1>6 DEF Honest, Underway, IInv
    <1> QED BY <1>1, <1>5, <1>6, <1>7, QuietStep

\* Starting an operation preserves the invariant.
LEMMA BeginStep ==
    ASSUME IInv, NEW w \in Writers, NEW m \in {"path", "reconcile", "force"},
           NEW listed \in SUBSET Files, NEW where \in {"list", "scan"}, NEW paths,
           Begin(w, m, listed, where, RowsOf(paths))
    PROVE  IInv'
    <1>1. UNCHANGED <<disk, stamp, edits, journal, graph, pruned, faults, gate, record, known>>
        BY DEF Begin, files, db
    <1>2. /\ pc' \in [Writers -> {"idle", "list", "scan", "parse", "publish", "sweep", "prune"}]
          /\ mode' \in [Writers -> {"path", "reconcile", "force"}]
          /\ current' \in [Writers -> SUBSET Files]
        BY DEF Begin, GoTo, IInv, TypeOK
    <1>3. clean' \in [Writers -> BOOLEAN] /\ calm' \in [Writers -> BOOLEAN]
        BY DEF Begin, IInv, TypeOK
    <1>4. prior' \in [Writers -> [Files -> Rows \cup {NoRow}]]
        BY RowsOfType DEF Begin, IInv, TypeOK
    <1>5. stage' \in [Writers -> [Files -> Stages]]
        BY DEF Begin, IInv, TypeOK, Stages
    <1>6. TypeOK'
        BY <1>1, <1>2, <1>3, <1>4, <1>5 DEF IInv, TypeOK
    <1>7. \A v \in Writers, g \in Files :
              \/ stage'[v][g] = stage[v][g] /\ record'[v][g] = record[v][g]
              \/ Honest(v, g)'
        BY <1>1 DEF Begin, Honest, Underway, IInv, TypeOK
    <1> QED BY <1>1, <1>6, <1>7, QuietStep

\* A window that failed takes its records with it.
LEMMA WindowFailedStep ==
    ASSUME IInv, NEW w \in Writers, GateBusy(w) \/ CommitFails(w)
    PROVE  IInv'
    <1>1. /\ WindowFailed(w)
          /\ UNCHANGED <<disk, stamp, edits, journal, graph, pruned, known, mode, prior, current,
                         calm>>
        BY DEF GateBusy, CommitFails, files, db, run
    <1>2. /\ gate' \in Writers \cup {Free} /\ faults' \in Nat
          /\ pc' \in [Writers -> {"idle", "list", "scan", "parse", "publish", "sweep", "prune"}]
        <2>1. gate \in Writers \cup {Free} /\ faults \in Nat
            BY DEF IInv, TypeOK
        <2>2. pc \in [Writers -> {"idle", "list", "scan", "parse", "publish", "sweep", "prune"}]
            BY DEF IInv, TypeOK
        <2>3. Fault /\ gate' \in {gate, Free}
            BY DEF GateBusy, CommitFails
        <2>4. gate' \in Writers \cup {Free} /\ faults' \in Nat
            BY <2>1, <2>3 DEF Fault
        <2>5. pc' \in [Writers -> {"idle", "list", "scan", "parse", "publish", "sweep", "prune"}]
            BY <1>1, <2>2 DEF WindowFailed, GoTo
        <2> QED BY <2>4, <2>5
    <1>3. clean' \in [Writers -> BOOLEAN]
        BY <1>1, DirtyIsBoolean DEF WindowFailed, IInv
    <1>4. /\ stage' \in [Writers -> [Files -> Stages]]
          /\ record' \in [Writers -> [Files -> Records \cup {NoRecord}]]
        BY <1>1 DEF WindowFailed, Stages, IInv, TypeOK
    <1>5. TypeOK'
        BY <1>1, <1>2, <1>3, <1>4 DEF IInv, TypeOK
    <1>6. \A v \in Writers, g \in Files :
              \/ stage'[v][g] = stage[v][g] /\ record'[v][g] = record[v][g]
              \/ Honest(v, g)'
        BY <1>1 DEF WindowFailed, Honest, Underway, IInv, TypeOK
    <1> QED BY <1>1, <1>5, <1>6, QuietStep

-----------------------------------------------------------------------------
(* Steps that read the disk.                                               *)

\* The job takes the mtime the file has now.
LEMMA StatStep ==
    ASSUME IInv, NEW w \in Writers, NEW f \in Files, Stat(w, f)
    PROVE  IInv'
    <1>1. UNCHANGED <<disk, stamp, edits, journal, graph, pruned, faults, gate, pc, known, clean,
                      mode, prior, current, calm>>
        BY DEF Stat, files, db, run
    <1>2. Generation(prior[w][f]) \in Nat
        BY DEF Generation, Rows, IInv, TypeOK
    <1>3. Job(w, f) \in Records /\ Job(w, f).stamp = stamp[f]
        BY <1>2 DEF Job, Records, IInv, TypeOK
    <1>4. /\ record' \in [Writers -> [Files -> Records \cup {NoRecord}]]
          /\ stage' \in [Writers -> [Files -> Stages]]
        BY <1>3 DEF Stat, Move, Stages, IInv, TypeOK
    <1>5. TypeOK'
        BY <1>1, <1>4 DEF IInv, TypeOK
    <1>6. /\ record'[w][f] = Job(w, f) /\ stage'[w][f] \in {"stated", "hashing", "job"}
          /\ \A v \in Writers, g \in Files :
                 v # w \/ g # f => stage'[v][g] = stage[v][g] /\ record'[v][g] = record[v][g]
        BY DEF Stat, Move, IInv, TypeOK
    <1>7. Honest(w, f)'
        BY <1>1, <1>3, <1>6 DEF Honest, IInv, TypeOK
    <1> QED BY <1>1, <1>5, <1>6, <1>7, QuietStep

\* A record with another graph is a record.
LEMMA ExtractedRecord ==
    ASSUME NEW r \in Records, NEW c \in Contents \cup {Absent}
    PROVE  /\ [r EXCEPT !.graph = c] \in Records
           /\ [r EXCEPT !.graph = c].graph = c
           /\ [r EXCEPT !.graph = c].sha = r.sha
           /\ [r EXCEPT !.graph = c].stamp = r.stamp
           /\ [r EXCEPT !.graph = c].seen = r.seen
           /\ [r EXCEPT !.graph = c].base = r.base
    BY DEF Records

\* The row that is looked up after the stat changes the generation only.
LEMMA LookUpStep ==
    ASSUME IInv, NEW w \in Writers, NEW f \in Files, LookUp(w, f)
    PROVE  IInv'
    <1> DEFINE new == [record[w][f] EXCEPT !.base = Generation(journal[f])]
    <1>1. UNCHANGED <<disk, stamp, edits, journal, graph, pruned, faults, gate, pc, known, clean,
                      mode, current, calm>>
        BY DEF LookUp, files, db
    <1>2. stage[w][f] = "stated" /\ record[w][f] \in Records /\ record[w][f].stamp <= stamp[f]
        BY DEF LookUp, Underway, Honest, IInv
    <1>3. Generation(journal[f]) \in Nat
        BY DEF Generation, Rows, IInv, TypeOK
    <1>4. new \in Records /\ new.stamp = record[w][f].stamp
        BY <1>2, <1>3 DEF Records
    <1>5. record' = [record EXCEPT ![w] = [record[w] EXCEPT ![f] = new]]
        BY DEF LookUp
    <1> HIDE DEF new
    <1>6. /\ record' \in [Writers -> [Files -> Records \cup {NoRecord}]]
          /\ record'[w][f] = new
          /\ \A v \in Writers, g \in Files :
                 v # w \/ g # f => record'[v][g] = record[v][g]
        BY <1>4, <1>5 DEF IInv, TypeOK
    <1>7. /\ stage' \in [Writers -> [Files -> Stages]]
          /\ stage'[w][f] \in {"hashing", "job"}
          /\ \A v \in Writers, g \in Files :
                 v # w \/ g # f => stage'[v][g] = stage[v][g]
        BY DEF LookUp, Move, Stages, IInv, TypeOK
    <1>8. prior' \in [Writers -> [Files -> Rows \cup {NoRow}]]
        BY DEF LookUp, IInv, TypeOK
    <1>9. TypeOK'
        BY <1>1, <1>6, <1>7, <1>8 DEF IInv, TypeOK
    <1>10. Honest(w, f)'
        BY <1>1, <1>2, <1>4, <1>6, <1>7 DEF Honest
    <1> QED BY <1>1, <1>6, <1>7, <1>9, <1>10, QuietStep

\* The hash, and later the graph, are of what the file holds now: if its mtime
\* is still the job's, so it was at the stat.
LEMMA ReadStep ==
    ASSUME IInv, NEW w \in Writers, NEW f \in Files, ReadBytes(w, f) \/ Extract(w, f)
    PROVE  IInv'
    <1> DEFINE old == record[w][f]
               hashed == [old EXCEPT !.sha = disk[f], !.seen = stamp[f]]
               extracted == [old EXCEPT !.graph = disk[f]]
               Becomes(new, to) ==
                   /\ record' = [record EXCEPT ![w] = [record[w] EXCEPT ![f] = new]]
                   /\ stage' = [stage EXCEPT ![w] = [stage[w] EXCEPT ![f] = to]]
    <1>1. UNCHANGED <<disk, stamp, edits, journal, graph, pruned, faults, gate, pc, known, clean,
                      mode, prior, current, calm>>
        BY DEF ReadBytes, Extract, files, db, run
    <1>2. stage[w][f] \in Underway /\ old \in Records /\ old.stamp <= stamp[f]
        BY DEF ReadBytes, Extract, Underway, Honest, IInv
    <1>3. disk[f] \in Contents \cup {Absent} /\ stamp[f] \in Nat
        BY DEF IInv, TypeOK
    <1>4. /\ hashed \in Records /\ hashed.sha = disk[f] /\ hashed.stamp = old.stamp
          /\ hashed.seen = stamp[f]
          /\ extracted \in Records /\ extracted.graph = disk[f] /\ extracted.sha = old.sha
          /\ extracted.stamp = old.stamp /\ extracted.seen = old.seen
        <2>1. /\ hashed \in Records /\ hashed.sha = disk[f] /\ hashed.stamp = old.stamp
              /\ hashed.seen = stamp[f]
            BY <1>2, <1>3 DEF Records
        <2>2. /\ extracted \in Records /\ extracted.graph = disk[f] /\ extracted.sha = old.sha
              /\ extracted.stamp = old.stamp /\ extracted.seen = old.seen
            BY <1>2, <1>3, ExtractedRecord
        <2> QED BY <2>1, <2>2
    <1>5. \/ stage[w][f] = "job" /\ disk[f] # Absent /\ Becomes(hashed, "read")
          \/ stage[w][f] = "read" /\ Becomes(extracted, "parsed")
        BY DEF ReadBytes, Extract, Move
    <1> HIDE DEF hashed, extracted
    <1>6. ASSUME NEW new \in Records, NEW to \in Stages, Becomes(new, to)
          PROVE  /\ record'[w][f] = new /\ stage'[w][f] = to
                 /\ \A v \in Writers, g \in Files :
                        v # w \/ g # f => stage'[v][g] = stage[v][g] /\ record'[v][g] = record[v][g]
                 /\ record' \in [Writers -> [Files -> Records \cup {NoRecord}]]
                 /\ stage' \in [Writers -> [Files -> Stages]]
        <2>1. /\ record \in [Writers -> [Files -> Records \cup {NoRecord}]]
              /\ stage \in [Writers -> [Files -> Stages]]
            BY DEF IInv, TypeOK
        <2>2. /\ [record[w] EXCEPT ![f] = new] \in [Files -> Records \cup {NoRecord}]
              /\ [stage[w] EXCEPT ![f] = to] \in [Files -> Stages]
            BY <2>1
        <2> QED BY <1>6, <2>1, <2>2
    <1>7. CASE stage[w][f] = "job" /\ disk[f] # Absent /\ Becomes(hashed, "read")
        <2>1. "read" \in Stages
            BY DEF Stages
        <2>2. TypeOK'
            BY <1>1, <1>4, <1>6, <1>7, <2>1 DEF IInv, TypeOK
        <2>3. Honest(w, f)'
            <3>1. /\ record'[w][f] = hashed /\ stage'[w][f] = "read"
                  /\ hashed.sha \in Contents /\ hashed.seen = stamp[f]
                BY <1>3, <1>4, <1>6, <1>7, <2>1
            <3>2. stamp[f] <= stamp[f]
                BY <1>3
            <3> QED BY <1>1, <1>2, <1>4, <3>1, <3>2 DEF Honest
        <2> QED BY <1>1, <1>4, <1>6, <1>7, <2>1, <2>2, <2>3, QuietStep
    <1>8. CASE stage[w][f] = "read" /\ Becomes(extracted, "parsed")
        <2>1. "parsed" \in Stages
            BY DEF Stages
        <2>2. TypeOK'
            BY <1>1, <1>4, <1>6, <1>8, <2>1 DEF IInv, TypeOK
        <2>3. /\ old.sha \in Contents /\ old.seen <= stamp[f]
              /\ old.stamp = stamp[f] => old.sha = disk[f]
            BY <1>2, <1>8 DEF Honest, IInv
        <2>4. record'[w][f] = extracted /\ stage'[w][f] = "parsed"
            BY <1>4, <1>6, <1>8, <2>1
        <2>5. Honest(w, f)'
            BY <1>1, <1>2, <1>4, <2>3, <2>4 DEF Honest
        <2> QED BY <1>1, <1>4, <1>6, <1>8, <2>1, <2>2, <2>5, QuietStep
    <1> QED BY <1>5, <1>7, <1>8

-----------------------------------------------------------------------------
(* Steps that change files or rows.                                        *)

\* A change gives the file an mtime nothing was recorded with.
LEMMA EditStep ==
    ASSUME IInv, NEW f \in Files, NEW content \in Contents \cup {Absent}, Edit(f, content)
    PROVE  IInv'
    <1>1. /\ UNCHANGED <<faults, journal, graph, pruned, gate, pc, stage, record, known, clean,
                         mode, prior, current>>
          /\ disk' = [disk EXCEPT ![f] = content]
          /\ edits' = edits + 1
          /\ stamp' = [stamp EXCEPT ![f] = edits']
        BY DEF Edit, db
    <1>2. calm' \in [Writers -> BOOLEAN]
        BY DEF Edit
    <1>3. TypeOK'
        BY <1>1, <1>2 DEF IInv, TypeOK
    <1>4. /\ stamp'[f] > stamp[f]
          /\ \A g \in Files : stamp'[g] <= edits'
          /\ \A g \in Files \ {f} : stamp'[g] = stamp[g] /\ disk'[g] = disk[g]
        BY <1>1 DEF IInv, TypeOK
    <1>5. ASSUME NEW w \in Writers, NEW g \in Files PROVE Honest(w, g)'
        <2>1. CASE g = f
            <3>1. record[w][f] \in Records =>
                      record[w][f].stamp \in Nat /\ record[w][f].seen \in Nat
                BY DEF Records
            <3> QED BY <1>1, <1>4, <2>1, <3>1 DEF Honest, IInv, TypeOK
        <2>2. CASE g # f
            BY <1>1, <1>4, <2>2 DEF Honest, IInv
        <2> QED BY <2>1, <2>2
    <1>6. ASSUME NEW g \in Files PROVE HonestRow(g)'
        <2>1. CASE g = f
            <3>1. journal[f] # NoRow => journal[f].stamp \in Nat /\ journal[f].seen \in Nat
                BY DEF Rows, IInv, TypeOK
            <3> QED BY <1>1, <1>4, <2>1, <3>1 DEF HonestRow, IInv, TypeOK
        <2>2. CASE g # f
            BY <1>1, <1>4, <2>2 DEF HonestRow, IInv
        <2> QED BY <2>1, <2>2
    <1> QED BY <1>3, <1>4, <1>5, <1>6 DEF IInv

\* Deleted rows vouch for nothing.
LEMMA DeleteStep ==
    ASSUME IInv, NEW w \in Writers, NEW f \in Files, DeleteDoomed(w, f) \/ Prune(w, f)
    PROVE  IInv'
    <1>1. /\ UNCHANGED <<disk, stamp, edits, faults, gate, pc, clean, mode, prior, current, calm>>
          /\ DeleteRows(f)
        BY DEF DeleteDoomed, Prune, files, run
    <1>2. /\ journal' \in [Files -> Rows \cup {NoRow}]
          /\ graph' \in [Files -> Contents \cup {Absent}]
          /\ pruned' \in SUBSET Files
        BY <1>1 DEF DeleteRows, IInv, TypeOK
    <1>3. /\ stage' \in [Writers -> [Files -> Stages]]
          /\ record' \in [Writers -> [Files -> Records \cup {NoRecord}]]
          /\ known' \in [Writers -> SUBSET Files]
        <2>1. CASE DeleteDoomed(w, f)
            BY <2>1 DEF DeleteDoomed, Drop, Move, Stages, IInv, TypeOK
        <2>2. CASE Prune(w, f)
            BY <2>2 DEF Prune, IInv, TypeOK
        <2> QED BY <2>1, <2>2
    <1>4. TypeOK'
        BY <1>1, <1>2, <1>3 DEF IInv, TypeOK
    <1>5. ASSUME NEW v \in Writers, NEW g \in Files PROVE Honest(v, g)'
        <2>1. \/ stage'[v][g] = "none"
              \/ stage'[v][g] = stage[v][g] /\ record'[v][g] = record[v][g]
            <3>1. CASE DeleteDoomed(w, f)
                BY <3>1 DEF DeleteDoomed, Drop, Move, IInv, TypeOK
            <3>2. CASE Prune(w, f)
                BY <3>2 DEF Prune
            <3> QED BY <3>1, <3>2
        <2> QED BY <1>1, <2>1 DEF Honest, Underway, IInv
    <1>6. ASSUME NEW g \in Files PROVE HonestRow(g)'
        BY <1>1 DEF DeleteRows, HonestRow, IInv, TypeOK
    <1> QED BY <1>1, <1>4, <1>5, <1>6 DEF IInv

\* A published row inherits what its record says.
LEMMA CommitStep ==
    ASSUME IInv, NEW w \in Writers, Commit(w)
    PROVE  IInv'
    <1> DEFINE won == {f \in At(w, {"fresh"}) : Unraced(w, f)}
    <1>1. /\ UNCHANGED <<disk, stamp, edits, faults, pruned, known, mode, prior, current, calm>>
          /\ gate' = Free /\ GoTo(w, "parse")
          /\ journal' = [f \in Files |-> IF f \in won THEN Row(w, f) ELSE journal[f]]
          /\ graph' = [f \in Files |-> IF f \in won THEN record[w][f].graph ELSE graph[f]]
          /\ UNCHANGED clean \/ Dirty(w)
        BY DEF Commit, files, run
    <1>2. \A f \in won : /\ f \in Files /\ stage[w][f] = "fresh"
                         /\ record[w][f] \in Records /\ record[w][f].sha \in Contents
                         /\ record[w][f].stamp <= stamp[f] /\ record[w][f].seen <= stamp[f]
                         /\ record[w][f].stamp = stamp[f] =>
                                record[w][f].sha = disk[f] /\ record[w][f].graph = disk[f]
        BY DEF At, Honest, Underway, IInv
    <1> HIDE DEF won
    <1>3. ASSUME NEW f \in won
          PROVE  /\ Row(w, f) \in Rows
                 /\ Row(w, f).sha = record[w][f].sha /\ Row(w, f).stamp = record[w][f].stamp
                 /\ Row(w, f).seen = record[w][f].seen
        <2>1. Generation(journal[f]) + 1 \in Nat
            BY <1>2 DEF Generation, Rows, IInv, TypeOK
        <2> QED BY <1>2, <2>1 DEF Row, Rows, Records
    <1>4. /\ journal' \in [Files -> Rows \cup {NoRow}]
          /\ graph' \in [Files -> Contents \cup {Absent}]
        BY <1>1, <1>2, <1>3 DEF Records, IInv, TypeOK
    <1>5. /\ stage' \in [Writers -> [Files -> Stages]]
          /\ record' \in [Writers -> [Files -> Records \cup {NoRecord}]]
        BY DEF Commit, Stages, IInv, TypeOK
    <1>6. /\ pc' \in [Writers -> {"idle", "list", "scan", "parse", "publish", "sweep", "prune"}]
          /\ gate' \in Writers \cup {Free}
        BY <1>1 DEF GoTo, IInv, TypeOK
    <1>7. clean' \in [Writers -> BOOLEAN]
        BY <1>1, DirtyIsBoolean DEF IInv, TypeOK
    <1>8. TypeOK'
        BY <1>1, <1>4, <1>5, <1>6, <1>7 DEF IInv, TypeOK
    <1>9. ASSUME NEW v \in Writers, NEW g \in Files PROVE Honest(v, g)'
        <2>1. \/ stage'[v][g] = "none"
              \/ stage'[v][g] = stage[v][g] /\ record'[v][g] = record[v][g]
            BY DEF Commit, IInv, TypeOK
        <2> QED BY <1>1, <2>1 DEF Honest, Underway, IInv
    <1>10. ASSUME NEW g \in Files PROVE HonestRow(g)'
        <2>1. CASE g \in won
            BY <1>1, <1>2, <1>3, <2>1 DEF HonestRow
        <2>2. CASE g \notin won
            BY <1>1, <2>2 DEF HonestRow, IInv
        <2> QED BY <2>1, <2>2
    <1> QED BY <1>1, <1>8, <1>9, <1>10 DEF IInv

-----------------------------------------------------------------------------
(* Theorems.                                                               *)

\* Nothing is recorded at the start.
LEMMA InitIInv == Init => IInv
    <1> SUFFICES ASSUME Init PROVE IInv
        OBVIOUS
    <1>1. TypeOK
        BY DEF Init, TypeOK, Stages
    <1>2. \A w \in Writers, f \in Files : Honest(w, f)
        BY DEF Init, Honest, Underway
    <1>3. \A f \in Files : HonestRow(f) /\ stamp[f] <= edits
        BY DEF Init, HonestRow
    <1> QED BY <1>1, <1>2, <1>3 DEF IInv

\* The invariant holds in every reachable state.
THEOREM Invariance == Spec => []IInv
    <1>1. ASSUME IInv, Next PROVE IInv'
        <2>1. ASSUME NEW w \in Writers, StartReconcile(w) \/ StartForce(w) PROVE IInv'
            <3>1. PICK m \in {"path", "reconcile", "force"}, listed \in SUBSET Files :
                      Begin(w, m, listed, "list", RowsOf({}))
                BY <2>1 DEF StartReconcile, StartForce, OnDisk
            <3> QED BY <1>1, <3>1, BeginStep
        <2>2. ASSUME NEW w \in Writers, NEW f \in Files, StartPath(w, f) PROVE IInv'
            BY <1>1, <2>2, BeginStep DEF StartPath
        <2>3. ASSUME NEW w \in Writers, NEW f \in Files, Parsing(w, f) PROVE IInv'
            BY <1>1, <2>3, DropStep, MoveStep, StatStep, LookUpStep, ReadStep DEF Parsing
        <2>4. ASSUME NEW w \in Writers, Publishing(w) PROVE IInv'
            BY <1>1, <2>4, DeleteStep, LeavingStep, GoingStep, WindowFailedStep, DropStep,
               MoveStep, CommitStep DEF Publishing
        <2> QED BY <1>1, <2>1, <2>2, <2>3, <2>4, EditStep, LeavingStep, WindowFailedStep DEF Next
    <1>2. ASSUME IInv, UNCHANGED vars PROVE IInv'
        <2>1. TypeOK'
            BY <1>2 DEF vars, files, db, run, IInv, TypeOK
        <2> QED BY <1>2, <2>1, QuietStep DEF vars, files, db
    <1> QED BY InitIInv, <1>1, <1>2, PTL DEF Spec

\* Type correctness of the publication protocol.
THEOREM TypeCorrect == Spec => []TypeOK
    BY Invariance, PTL DEF IInv

\* A row with the mtime of its file names the hash of what the file holds, and the
\* graph rows come from it, whoever edits and publishes meanwhile.
THEOREM StampsVouch == Spec => []StampVouches
    <1>1. IInv => StampVouches
        BY DEF IInv, HonestRow, StampVouches, Journaled
    <1> QED BY Invariance, <1>1, PTL

-----------------------------------------------------------------------------
(* Publications never go back.  The generation a record would replace is one *)
(* the journal had before its bytes were read: either the journal has moved  *)
(* on, and the record loses the race, or its row was not read later.         *)

Hashed == {"read", "parsed", "fresh"}

Earlier(w, f) ==
    f \notin pruned =>
        /\ Generation(prior[w][f]) <= Generation(journal[f])
        /\ stage[w][f] \in Underway =>
               /\ record[w][f].base <= Generation(journal[f])
               /\ /\ stage[w][f] \in Hashed
                  /\ record[w][f].base = Generation(journal[f]) /\ journal[f] # NoRow
                  => journal[f].seen <= record[w][f].seen

Order == \A w \in Writers, f \in Files : Earlier(w, f)

\* What a step that publishes and deletes nothing does to one record.
Follows(w, f) ==
    /\ \/ prior'[w][f] = prior[w][f]
       \/ prior'[w][f] \in {journal[f], NoRow}
    /\ \/ stage'[w][f] \notin Underway
       \/ /\ stage[w][f] \in Underway
          /\ record'[w][f].base = record[w][f].base
          /\ stage'[w][f] \in Hashed =>
                 \/ stage[w][f] \in Hashed /\ record'[w][f].seen = record[w][f].seen
                 \/ record'[w][f].seen = stamp[f]
       \/ /\ stage'[w][f] \in Underway \ Hashed
          /\ record'[w][f].base \in {Generation(prior[w][f]), Generation(journal[f])}

\* A generation is a number, 0 where there is no row.
LEMMA GenerationType ==
    ASSUME NEW r \in Rows \cup {NoRow}
    PROVE  Generation(r) \in Nat /\ Generation(NoRow) = 0
    BY DEF Generation, Rows

\* Steps that publish and delete nothing keep the order.
LEMMA FollowingKeepsOrder ==
    ASSUME IInv, Order, UNCHANGED <<journal, pruned>>,
           \A v \in Writers, g \in Files : Follows(v, g)
    PROVE  Order'
    <1> SUFFICES ASSUME NEW w \in Writers, NEW f \in Files, f \notin pruned
                 PROVE  Earlier(w, f)'
        BY DEF Order, Earlier
    <1>1. Earlier(w, f) /\ Follows(w, f) /\ HonestRow(f)
        BY DEF Order, IInv
    <1>2. /\ Generation(journal[f]) \in Nat /\ Generation(prior[w][f]) \in Nat
          /\ Generation(NoRow) = 0
        BY GenerationType DEF IInv, TypeOK
    <1>3. Generation(prior'[w][f]) <= Generation(journal[f])
        BY <1>1, <1>2 DEF Follows, Earlier
    <1>4. ASSUME stage'[w][f] \in Underway
          PROVE  /\ record'[w][f].base <= Generation(journal[f])
                 /\ /\ stage'[w][f] \in Hashed
                    /\ record'[w][f].base = Generation(journal[f]) /\ journal[f] # NoRow
                    => journal[f].seen <= record'[w][f].seen
        BY <1>1, <1>2, <1>4 DEF Follows, Earlier, HonestRow
    <1> QED BY <1>3, <1>4 DEF Earlier, Generation

\* Edits and steps that change only where a writer is keep the order.
LEMMA WaitingKeepsOrder ==
    ASSUME IInv, Order,
           \/ \E f \in Files, content \in Contents \cup {Absent} : Edit(f, content)
           \/ \E w \in Writers : \/ EnterGate(w) \/ EnterSweep(w)
                                 \/ CacheJournal(w) \/ EndScan(w)
                                 \/ EndParse(w) /\ mode[w] # "path"
    PROVE  Order'
    <1>1. UNCHANGED <<journal, pruned, stage, record>>
        BY DEF Edit, EnterGate, EnterSweep, CacheJournal, EndScan, EndParse, files, db, run
    <1>2. \A v \in Writers, g \in Files : prior'[v][g] \in {prior[v][g], journal[g], NoRow}
        <2>1. ASSUME NEW w \in Writers, EndScan(w)
              PROVE  \A v \in Writers, g \in Files : prior'[v][g] \in {prior[v][g], NoRow}
            BY <2>1 DEF EndScan, IInv, TypeOK
        <2>2. ASSUME UNCHANGED prior
              PROVE  \A v \in Writers, g \in Files : prior'[v][g] \in {prior[v][g], NoRow}
            BY <2>2
        <2>3. ASSUME NEW w \in Writers, CacheJournal(w)
              PROVE  \A v \in Writers, g \in Files :
                         prior'[v][g] \in {prior[v][g], journal[g], NoRow}
            BY <2>3, RowsOfType DEF CacheJournal, IInv, TypeOK
        <2> QED BY <2>1, <2>2, <2>3 DEF Edit, EnterGate, EnterSweep, EndParse, run
    <1>3. \A v \in Writers, g \in Files : Follows(v, g)
        BY <1>1, <1>2 DEF Follows
    <1> QED BY <1>1, <1>3, FollowingKeepsOrder

\* Operations that end or begin keep the order.
LEMMA EndsKeepOrder ==
    ASSUME IInv, Order, NEW w \in Writers,
           \/ Crash(w) \/ DeleteBusy(w) \/ SweepBusy(w) \/ EndSweep(w)
           \/ EndParse(w) /\ mode[w] = "path"
           \/ \E m \in {"path", "reconcile", "force"}, listed \in SUBSET Files,
                 where \in {"list", "scan"}, paths \in SUBSET Files :
                 Begin(w, m, listed, where, RowsOf(paths))
    PROVE  Order'
    <1>1. UNCHANGED <<journal, pruned>>
        BY DEF Crash, DeleteBusy, SweepBusy, EndSweep, EndParse, Begin, files, db
    <1>2. Leave(w) \/ \E m \in {"path", "reconcile", "force"}, listed \in SUBSET Files,
                           where \in {"list", "scan"}, paths \in SUBSET Files :
                           Begin(w, m, listed, where, RowsOf(paths))
        BY DEF Crash, DeleteBusy, SweepBusy, EndSweep, EndParse
    <1>3. \A g \in Files : /\ stage'[w][g] \notin Underway
                           /\ prior'[w][g] \in {journal[g], NoRow}
        <2>1. CASE Leave(w)
            BY <2>1 DEF Leave, Underway, IInv, TypeOK
        <2>2. ASSUME NEW m, NEW listed, NEW where, NEW paths,
                     Begin(w, m, listed, where, RowsOf(paths))
              PROVE  \A g \in Files : /\ stage'[w][g] \notin Underway
                                      /\ prior'[w][g] \in {journal[g], NoRow}
            BY <2>2, RowsOfType DEF Begin, Underway, IInv, TypeOK
        <2> QED BY <1>2, <2>1, <2>2
    <1>4. \A v \in Writers \ {w}, g \in Files :
              /\ stage'[v][g] = stage[v][g] /\ record'[v][g] = record[v][g]
              /\ prior'[v][g] = prior[v][g]
        BY <1>2 DEF Leave, Begin, IInv, TypeOK
    <1>5. \A v \in Writers, g \in Files : Follows(v, g)
        BY <1>3, <1>4 DEF Follows
    <1> QED BY <1>1, <1>5, FollowingKeepsOrder

\* Steps of phase A keep the order.
LEMMA ParsingKeepsOrder ==
    ASSUME IInv, Order, NEW w \in Writers, NEW f \in Files,
           Parsing(w, f) \/ Fresh(w, f) \/ Conflict(w, f)
    PROVE  Order'
    <1>1. /\ UNCHANGED <<journal, pruned>>
          /\ \A v \in Writers, g \in Files : prior'[v][g] \in {prior[v][g], journal[g]}
        <2>1. CASE LookUp(w, f)
            BY <2>1 DEF LookUp, db, IInv, TypeOK
        <2>2. CASE ~LookUp(w, f)
            <3>1. UNCHANGED <<journal, pruned, prior>>
                BY <2>2 DEF Parsing, Stat, StatMissing, HashUnchanged, HashChanged, ReadBytes,
                   ReadMissing, ReadFailed, Extract, ConfirmMissing, MissingIsBack, Unchanged,
                   Fresh, Conflict, db, run
            <3> QED BY <3>1
        <2> QED BY <2>1, <2>2
    <1>2. \A v \in Writers, g \in Files :
              v # w \/ g # f => stage'[v][g] = stage[v][g] /\ record'[v][g] = record[v][g]
        <2>1. CASE ReadBytes(w, f) \/ Extract(w, f)
            BY <2>1 DEF ReadBytes, Extract, Move, IInv, TypeOK
        <2>2. CASE Stat(w, f) \/ LookUp(w, f)
            BY <2>2 DEF Stat, LookUp, Move, IInv, TypeOK
        <2>3. CASE StatMissing(w, f) \/ HashChanged(w, f) \/ ReadMissing(w, f)
                   \/ ConfirmMissing(w, f) \/ Fresh(w, f)
            BY <2>3 DEF StatMissing, HashChanged, ReadMissing, ConfirmMissing, Fresh, Move, IInv,
               TypeOK
        <2>4. CASE HashUnchanged(w, f) \/ ReadFailed(w, f) \/ MissingIsBack(w, f)
                   \/ Unchanged(w, f) \/ Conflict(w, f)
            BY <2>4 DEF HashUnchanged, ReadFailed, MissingIsBack, Unchanged, Conflict, Drop, Move,
               IInv, TypeOK
        <2> QED BY <2>1, <2>2, <2>3, <2>4 DEF Parsing
    <1>3. \/ stage'[w][f] \notin Underway
          \/ /\ stage[w][f] \in Underway
             /\ record'[w][f].base = record[w][f].base
             /\ stage'[w][f] \in Hashed =>
                    \/ stage[w][f] \in Hashed /\ record'[w][f].seen = record[w][f].seen
                    \/ record'[w][f].seen = stamp[f]
          \/ /\ stage'[w][f] \in Underway \ Hashed
             /\ record'[w][f].base \in {Generation(prior[w][f]), Generation(journal[f])}
        <2>1. CASE ReadBytes(w, f) \/ Extract(w, f)
            <3>1. /\ stage[w][f] \in Underway /\ record[w][f] \in Records
                  /\ disk[f] \in Contents \cup {Absent} /\ stamp[f] \in Nat
                BY <2>1 DEF ReadBytes, Extract, Underway, Honest, IInv, TypeOK
            <3>2. PICK new :
                      /\ \/ new = [record[w][f] EXCEPT !.sha = disk[f], !.seen = stamp[f]]
                         \/ /\ new = [record[w][f] EXCEPT !.graph = disk[f]]
                            /\ stage[w][f] = "read"
                      /\ record' = [record EXCEPT ![w] = [record[w] EXCEPT ![f] = new]]
                BY <2>1 DEF ReadBytes, Extract
            <3>3. record'[w][f] = new
                BY <3>2 DEF IInv, TypeOK
            <3>4. /\ new.base = record[w][f].base
                  /\ \/ new.seen = stamp[f]
                     \/ new.seen = record[w][f].seen /\ stage[w][f] \in Hashed
                BY <3>1, <3>2 DEF Records, Hashed
            <3> QED BY <3>1, <3>3, <3>4
        <2>2. CASE Stat(w, f)
            <3>1. /\ stage'[w][f] \in {"stated", "hashing", "job"}
                  /\ record'[w][f] = Job(w, f)
                BY <2>2 DEF Stat, Move, IInv, TypeOK
            <3> QED BY <3>1 DEF Job, Underway, Hashed
        <2>5. CASE LookUp(w, f)
            <3>1. record[w][f] \in Records /\ Generation(journal[f]) \in Nat
                BY <2>5, GenerationType DEF LookUp, Underway, Honest, IInv, TypeOK
            <3>2. PICK new :
                      /\ new = [record[w][f] EXCEPT !.base = Generation(journal[f])]
                      /\ record' = [record EXCEPT ![w] = [record[w] EXCEPT ![f] = new]]
                BY <2>5 DEF LookUp
            <3>3. record'[w][f] = new
                BY <3>2 DEF IInv, TypeOK
            <3>4. new.base = Generation(journal[f])
                BY <3>1, <3>2 DEF Records
            <3>5. stage'[w][f] \in {"hashing", "job"}
                BY <2>5 DEF LookUp, Move, IInv, TypeOK
            <3> QED BY <3>3, <3>4, <3>5 DEF Underway, Hashed
        <2>3. CASE StatMissing(w, f) \/ HashChanged(w, f) \/ ReadMissing(w, f)
                   \/ ConfirmMissing(w, f) \/ Fresh(w, f)
            BY <2>3 DEF StatMissing, HashChanged, ReadMissing, ConfirmMissing, Fresh, Move,
               Underway, Hashed, IInv, TypeOK
        <2>4. CASE HashUnchanged(w, f) \/ ReadFailed(w, f) \/ MissingIsBack(w, f)
                   \/ Unchanged(w, f) \/ Conflict(w, f)
            BY <2>4 DEF HashUnchanged, ReadFailed, MissingIsBack, Unchanged, Conflict, Drop, Move,
               Underway, IInv, TypeOK
        <2> QED BY <2>1, <2>2, <2>3, <2>4, <2>5 DEF Parsing
    <1>4. \A v \in Writers, g \in Files : Follows(v, g)
        BY <1>1, <1>2, <1>3 DEF Follows
    <1> QED BY <1>1, <1>4, FollowingKeepsOrder

\* Failed windows keep the order.
LEMMA FailuresKeepOrder ==
    ASSUME IInv, Order, NEW w \in Writers, GateBusy(w) \/ CommitFails(w)
    PROVE  Order'
    <1>1. WindowFailed(w) /\ UNCHANGED <<journal, pruned, prior>>
        BY DEF GateBusy, CommitFails, db, run
    <1>2. \A v \in Writers, g \in Files :
              \/ stage'[v][g] \notin Underway
              \/ stage'[v][g] = stage[v][g] /\ record'[v][g] = record[v][g]
        BY <1>1 DEF WindowFailed, Underway, IInv, TypeOK
    <1>3. \A v \in Writers, g \in Files : Follows(v, g)
        BY <1>1, <1>2 DEF Follows
    <1> QED BY <1>1, <1>3, FollowingKeepsOrder

\* A deletion keeps the order: it restarts the generations of a pruned path only.
LEMMA DeletionsKeepOrder ==
    ASSUME IInv, Order, NEW w \in Writers, NEW f \in Files, DeleteDoomed(w, f) \/ Prune(w, f)
    PROVE  Order'
    <1>1. /\ UNCHANGED prior
          /\ journal' = [journal EXCEPT ![f] = NoRow]
          /\ pruned' = IF journal[f] = NoRow THEN pruned ELSE pruned \cup {f}
        BY DEF DeleteDoomed, Prune, DeleteRows, run
    <1>2. \A g \in Files : g \notin pruned' => g \notin pruned /\ journal'[g] = journal[g]
        BY <1>1 DEF IInv, TypeOK
    <1>3. \A v \in Writers, g \in Files :
              \/ stage'[v][g] \notin Underway
              \/ stage'[v][g] = stage[v][g] /\ record'[v][g] = record[v][g]
        <2>1. CASE DeleteDoomed(w, f)
            BY <2>1 DEF DeleteDoomed, Drop, Move, Underway, IInv, TypeOK
        <2>2. CASE Prune(w, f)
            BY <2>2 DEF Prune
        <2> QED BY <2>1, <2>2
    <1>4. ASSUME NEW v \in Writers, NEW g \in Files, g \notin pruned' PROVE Earlier(v, g)'
        <2>1. Earlier(v, g) /\ g \notin pruned /\ journal'[g] = journal[g]
            BY <1>2, <1>4 DEF Order
        <2> QED BY <1>1, <1>3, <2>1 DEF Earlier, Generation
    <1> QED BY <1>4 DEF Order, Earlier

\* A transaction replaces a row by one that is not older, and moves every other
\* record of the file out of the race.
LEMMA CommitsKeepOrder ==
    ASSUME IInv, Order, NEW w \in Writers, Commit(w)
    PROVE  /\ Order'
           /\ \A f \in Files \ pruned :
                  journal[f] # NoRow /\ journal'[f] # NoRow => journal'[f].seen >= journal[f].seen
    <1> DEFINE won == {f \in At(w, {"fresh"}) : Unraced(w, f)}
    <1>1. /\ UNCHANGED <<pruned, prior>>
          /\ journal' = [f \in Files |-> IF f \in won THEN Row(w, f) ELSE journal[f]]
        BY DEF Commit, run
    <1>2. \A f \in won : /\ stage[w][f] = "fresh" /\ record[w][f] \in Records
                         /\ Generation(journal[f]) = record[w][f].base
        BY DEF At, Unraced, Honest, Underway, IInv
    <1> HIDE DEF won
    <1>3. \A f \in Files : journal[f] \in Rows \cup {NoRow} /\ Generation(journal[f]) \in Nat
        BY GenerationType DEF IInv, TypeOK
    <1>4. \A f \in won \cap Files :
              /\ journal'[f] # NoRow
              /\ journal'[f].seen = record[w][f].seen
              /\ Generation(journal[f])' = Generation(journal[f]) + 1
        <2> SUFFICES ASSUME NEW f \in won \cap Files
                     PROVE  /\ journal'[f] # NoRow
                            /\ journal'[f].seen = record[w][f].seen
                            /\ Generation(journal[f])' = Generation(journal[f]) + 1
            OBVIOUS
        <2>1. journal'[f] = Row(w, f)
            BY <1>1
        <2>2. journal'[f] \in Rows
            <3>1. record[w][f].sha \in Contents
                BY <1>2 DEF Honest, Underway, IInv, At
            <3> QED BY <1>2, <1>3, <2>1, <3>1 DEF Row, Rows, Records
        <2>3. journal'[f] # NoRow
            BY <2>2, DistinctAssumption DEF Rows
        <2> QED BY <2>1, <2>3 DEF Row, Generation
    <1>5. \A f \in Files \ won : journal'[f] = journal[f]
        BY <1>1
    <1>6. \A v \in Writers, g \in Files :
              \/ stage'[v][g] \notin Underway
              \/ stage'[v][g] = stage[v][g] /\ record'[v][g] = record[v][g]
        BY DEF Commit, Underway, IInv, TypeOK
    <1>7. ASSUME NEW v \in Writers, NEW g \in Files, g \notin pruned PROVE Earlier(v, g)'
        <2>1. Earlier(v, g) /\ Generation(prior[v][g]) \in Nat
            BY GenerationType DEF Order, IInv, TypeOK
        <2>2. stage[v][g] \in Underway => record[v][g].base \in Nat
            BY DEF Honest, Records, IInv
        <2>3. CASE g \in won
            <3>1. /\ Generation(journal[g])' = Generation(journal[g]) + 1
                  /\ Generation(journal[g]) \in Nat
                BY <1>3, <1>4, <2>3
            <3>2. Generation(prior[v][g])' = Generation(prior[v][g])
                BY <1>1 DEF Generation
            <3> QED BY <1>6, <1>7, <2>1, <2>2, <3>1, <3>2 DEF Earlier
        <2>4. CASE g \notin won
            BY <1>1, <1>5, <1>6, <1>7, <2>1, <2>4 DEF Earlier, Generation
        <2> QED BY <2>3, <2>4
    <1>8. Order'
        BY <1>1, <1>7 DEF Order, Earlier
    <1>9. ASSUME NEW f \in Files \ pruned, journal[f] # NoRow, journal'[f] # NoRow
          PROVE  journal'[f].seen >= journal[f].seen
        <2>1. journal[f].seen \in Nat
            BY <1>3, <1>9 DEF Rows
        <2>2. CASE f \in won
            <3>1. journal[f].seen <= record[w][f].seen
                BY <1>2, <1>9, <2>2 DEF Order, Earlier, Underway, Hashed
            <3>2. record[w][f].seen \in Nat
                BY <1>2, <2>2 DEF Records
            <3> QED BY <1>4, <2>1, <2>2, <3>1, <3>2
        <2>3. CASE f \notin won
            BY <1>5, <2>1, <2>3
        <2> QED BY <2>2, <2>3
    <1> QED BY <1>8, <1>9

\* Nothing is recorded at the start.
LEMMA InitOrder == Init => Order
    BY DEF Init, Order, Earlier, Generation, Underway

\* As long as no deletion restarted the generations of a path, no publication
\* replaces what was read from a later state of the file: the row a job was made
\* with, even when it was looked up after the stat, is older than the bytes.
THEOREM PublicationsNeverGoBack == Spec => NeverGoesBack
    <1> DEFINE Forward ==
            \A f \in Files \ pruned :
                journal[f] # NoRow /\ journal'[f] # NoRow => journal'[f].seen >= journal[f].seen
    <1>1. ASSUME IInv, journal' = journal PROVE Forward
        <2>1. \A f \in Files : journal[f] # NoRow => journal[f].seen \in Nat
            BY <1>1 DEF IInv, TypeOK, Rows
        <2> QED BY <1>1, <2>1
    <1>2. ASSUME IInv, NEW w \in Writers, NEW f \in Files, DeleteDoomed(w, f) \/ Prune(w, f)
          PROVE  Forward
        <2>1. \A g \in Files : journal[g] # NoRow => journal[g].seen \in Nat
            BY <1>2 DEF IInv, TypeOK, Rows
        <2>2. \A g \in Files : journal'[g] \in {journal[g], NoRow}
            <3>1. journal' = [journal EXCEPT ![f] = NoRow]
                BY <1>2 DEF DeleteDoomed, Prune, DeleteRows
            <3> QED BY <1>2, <3>1 DEF IInv, TypeOK
        <2>3. \A g \in Files : journal'[g] # NoRow => journal'[g] = journal[g]
            BY <2>2
        <2> QED BY <2>1, <2>3
    <1>3. ASSUME IInv, Order, Next PROVE Order' /\ Forward
        <2>1. ASSUME NEW w \in Writers,
                     StartReconcile(w) \/ StartForce(w) \/ \E f \in Files : StartPath(w, f)
              PROVE  Order' /\ Forward
            <3>1. \E m \in {"path", "reconcile", "force"}, listed \in SUBSET Files :
                      \E where \in {"list", "scan"}, paths \in SUBSET Files :
                          Begin(w, m, listed, where, RowsOf(paths))
                BY <2>1 DEF StartReconcile, StartForce, StartPath, OnDisk
            <3> QED BY <1>1, <1>3, <3>1, EndsKeepOrder DEF Begin, db
        <2>2. ASSUME NEW w \in Writers, NEW f \in Files,
                     Parsing(w, f) \/ Fresh(w, f) \/ Conflict(w, f)
              PROVE  Order' /\ Forward
            <3>1. journal' = journal
                BY <2>2 DEF Parsing, LookUp, Stat, StatMissing, HashUnchanged, HashChanged, ReadBytes,
                   ReadMissing, ReadFailed, Extract, ConfirmMissing, MissingIsBack, Unchanged,
                   Fresh, Conflict, db
            <3> QED BY <1>1, <1>3, <2>2, <3>1, ParsingKeepsOrder
        <2>3. ASSUME NEW w \in Writers, GateBusy(w) \/ CommitFails(w) PROVE Order' /\ Forward
            BY <1>1, <1>3, <2>3, FailuresKeepOrder DEF GateBusy, CommitFails, db
        <2>4. ASSUME NEW w \in Writers, Commit(w) PROVE Order' /\ Forward
            BY <1>3, <2>4, CommitsKeepOrder
        <2>5. ASSUME NEW w \in Writers, NEW f \in Files, DeleteDoomed(w, f) \/ Prune(w, f)
              PROVE  Order' /\ Forward
            BY <1>2, <1>3, <2>5, DeletionsKeepOrder
        <2>6. ASSUME NEW w \in Writers,
                     \/ Crash(w) \/ DeleteBusy(w) \/ SweepBusy(w) \/ EndSweep(w)
                     \/ EndParse(w) /\ mode[w] = "path"
              PROVE  Order' /\ Forward
            BY <1>1, <1>3, <2>6, EndsKeepOrder
            DEF Crash, DeleteBusy, SweepBusy, EndSweep, EndParse, db
        <2>7. ASSUME \/ \E f \in Files, content \in Contents \cup {Absent} : Edit(f, content)
                     \/ \E w \in Writers : \/ EnterGate(w) \/ EnterSweep(w)
                                           \/ CacheJournal(w) \/ EndScan(w)
                                           \/ EndParse(w) /\ mode[w] # "path"
              PROVE  Order' /\ Forward
            BY <1>1, <1>3, <2>7, WaitingKeepsOrder
            DEF Edit, EnterGate, EnterSweep, CacheJournal, EndScan, EndParse, db
        <2> QED BY <1>3, <2>1, <2>2, <2>3, <2>4, <2>5, <2>6, <2>7 DEF Next, Publishing
    <1>4. ASSUME Order, UNCHANGED vars PROVE Order'
        BY <1>4 DEF vars, db, run, Order, Earlier, Generation
    <1> HIDE DEF Forward
    <1>5. IInv /\ Order /\ [Next]_vars => Order' /\ [Forward]_vars
        BY <1>3, <1>4
    <1>6. Spec => [][Forward]_vars
        BY Invariance, InitOrder, <1>5, PTL DEF Spec
    <1> QED BY <1>6 DEF NeverGoesBack, Forward

-----------------------------------------------------------------------------
(* A clean reconcile() leaves the index in sync.  While the files rest, what *)
(* a writer read stays true, so every publication and deletion keeps what is *)
(* in sync in sync; and the writer still has in hand every file that is not. *)

\* The operation of w runs, and nothing changed since it, and every operation
\* it overlapped with, began.
Steady(w) == pc[w] # "idle" /\ calm[w]

\* Beside a steady operation all operations are.
Together == \A v, w \in Writers : pc[v] # "idle" /\ Steady(w) => calm[v]

\* What a steady operation read about f is still so.
ReadNow(w, f) ==
    /\ prior[w][f] # NoRow /\ prior[w][f].stamp = stamp[f] /\ disk[f] # Absent => InSync(f)
    /\ stage[w][f] = "hashing" =>
           pc[w] # "list" /\ prior[w][f] # NoRow /\ prior[w][f].stamp = stamp[f]
    /\ stage[w][f] \in Underway => record[w][f].stamp = stamp[f]
    /\ stage[w][f] \in {"missing", "doomed"} => disk[f] = Absent

\* A steady reconcile() with no failure yet has f in hand unless f is in sync.
Sees(w, f) ==
    /\ disk[f] # Absent /\ clean[w] =>
           InSync(f) \/ stage[w][f] \in {"listed"} \cup (Underway \ {"missing"})
    /\ disk[f] = Absent /\ pc[w] \notin {"list", "scan"} => InSync(f) \/ f \in known[w]

Watches(w) ==
    /\ pc[w] \in {"sweep", "prune"} => mode[w] # "path" /\ \A f \in Files : stage[w][f] = "none"
    /\ Steady(w) =>
           /\ \A f \in Files : ReadNow(w, f)
           /\ mode[w] # "path" => current[w] = OnDisk /\ \A f \in Files : Sees(w, f)

Calm == Together /\ \A w \in Writers : Watches(w)

\* The step is not one of v.
Bystander(v) ==
    /\ pc'[v] = pc[v] /\ mode'[v] = mode[v] /\ stage'[v] = stage[v] /\ record'[v] = record[v]
    /\ prior'[v] = prior[v] /\ current'[v] = current[v] /\ known'[v] = known[v]
    /\ clean'[v] = clean[v] /\ calm'[v] = calm[v]

\* What is in sync stays in sync.
SyncKept == \A f \in Files : InSync(f) => InSync(f)'

\* A step of a running writer keeps the invariant when it keeps what is in sync,
\* and the writer's own part of it.
LEMMA OneWriterStep ==
    ASSUME Calm, NEW w \in Writers, UNCHANGED <<disk, stamp>>, pc[w] # "idle",
           \A v \in Writers \ {w} : Bystander(v),
           pc'[w] = "idle" \/ calm'[w] = calm[w],
           Steady(w) => SyncKept,
           Watches(w)'
    PROVE  Calm'
    <1>1. Together'
        BY DEF Calm, Together, Steady, Bystander
    <1>2. ASSUME NEW v \in Writers, v # w PROVE Watches(v)'
        <2>1. Watches(v) /\ Bystander(v)
            BY <1>2 DEF Calm
        <2>2. ASSUME Steady(v)'
              PROVE  /\ \A f \in Files : ReadNow(v, f)'
                     /\ mode'[v] # "path" =>
                            (current[v] = OnDisk)' /\ \A f \in Files : Sees(v, f)'
            <3>1. Steady(v) /\ Steady(w)
                BY <2>1, <2>2 DEF Bystander, Steady, Calm, Together
            <3>2. ASSUME NEW f \in Files PROVE ReadNow(v, f)' /\ (mode[v] # "path" => Sees(v, f)')
                <4>1. ReadNow(v, f) /\ (InSync(f) => InSync(f)')
                    BY <2>1, <3>1 DEF Watches, SyncKept
                <4>2. ReadNow(v, f)'
                    BY <2>1, <4>1 DEF ReadNow, Bystander
                <4>3. ASSUME mode[v] # "path" PROVE Sees(v, f)'
                    BY <2>1, <3>1, <4>1, <4>3 DEF Watches, Sees, Bystander
                <4> QED BY <4>2, <4>3
            <3>3. mode'[v] # "path" => (current[v] = OnDisk)'
                BY <2>1, <3>1 DEF Watches, Bystander, OnDisk
            <3> QED BY <2>1, <3>2, <3>3 DEF Bystander
        <2>3. pc'[v] \in {"sweep", "prune"} =>
                  mode'[v] # "path" /\ \A f \in Files : stage'[v][f] = "none"
            BY <2>1 DEF Watches, Bystander
        <2> QED BY <2>2, <2>3 DEF Watches
    <1> QED BY <1>1, <1>2 DEF Calm

\* A writer that has left watches nothing.
LEMMA LeavingWatchesNothing ==
    ASSUME IInv, NEW w \in Writers, Leave(w)
    PROVE  /\ pc'[w] = "idle" /\ Watches(w)'
           /\ \A v \in Writers \ {w} : Bystander(v)
    BY DEF Leave, GoTo, Watches, Steady, Bystander, IInv, TypeOK

\* Operations that end, whatever the reason, keep the invariant.
LEMMA EndsKeepCalm ==
    ASSUME IInv, Calm, NEW w \in Writers,
           \/ Crash(w) \/ DeleteBusy(w) \/ SweepBusy(w) \/ EndSweep(w)
           \/ EndParse(w) /\ mode[w] = "path"
    PROVE  Calm'
    <1>1. /\ Leave(w) /\ pc[w] # "idle"
          /\ UNCHANGED <<disk, stamp, journal, graph>>
        BY DEF Crash, DeleteBusy, SweepBusy, EndSweep, EndParse, files, db
    <1>2. SyncKept
        BY <1>1 DEF SyncKept, InSync
    <1> QED BY <1>1, <1>2, LeavingWatchesNothing, OneWriterStep

\* A step about one file keeps the invariant when what the writer then has of
\* the file is so.
LEMMA OneFileStep ==
    ASSUME Calm, NEW w \in Writers, NEW f \in Files,
           UNCHANGED <<disk, stamp, pc, mode, prior, current, known, calm>>,
           pc[w] \in {"scan", "parse", "publish"},
           \A v \in Writers \ {w} :
               stage'[v] = stage[v] /\ record'[v] = record[v] /\ clean'[v] = clean[v],
           \A g \in Files \ {f} : stage'[w][g] = stage[w][g] /\ record'[w][g] = record[w][g],
           mode[w] # "path" /\ clean'[w] => clean[w],
           Steady(w) => /\ SyncKept /\ ReadNow(w, f)'
                        /\ mode[w] # "path" => Sees(w, f)'
    PROVE  Calm'
    <1>1. \A v \in Writers \ {w} : Bystander(v)
        BY DEF Bystander
    <1>2. ASSUME Steady(w)
          PROVE  /\ \A g \in Files : ReadNow(w, g)'
                 /\ mode[w] # "path" =>
                        (current[w] = OnDisk)' /\ \A g \in Files : Sees(w, g)'
        <2>1. Watches(w)
            BY DEF Calm
        <2>2. ASSUME NEW g \in Files, g # f
              PROVE  ReadNow(w, g)' /\ (mode[w] # "path" => Sees(w, g)')
            <3>1. ReadNow(w, g) /\ (InSync(g) => InSync(g)')
                BY <1>2, <2>1 DEF Watches, SyncKept
            <3>2. stage'[w][g] = stage[w][g] /\ record'[w][g] = record[w][g]
                BY <2>2
            <3>3. ReadNow(w, g)'
                BY <3>1, <3>2 DEF ReadNow
            <3>4. ASSUME mode[w] # "path" PROVE Sees(w, g)'
                BY <1>2, <2>1, <3>1, <3>2, <3>4 DEF Watches, Sees
            <3> QED BY <3>3, <3>4
        <2>3. mode[w] # "path" => (current[w] = OnDisk)'
            BY <1>2, <2>1 DEF Watches, OnDisk
        <2> QED BY <1>2, <2>2, <2>3
    <1>3. Watches(w)'
        BY <1>2 DEF Watches, Steady
    <1> QED BY <1>1, <1>2, <1>3, OneWriterStep

\* A file moves to another stage, and no other file does.
LEMMA OneFileMoves ==
    ASSUME IInv, NEW w \in Writers, NEW f \in Files, NEW to, Move(w, f, to)
    PROVE  /\ stage'[w][f] = to
           /\ \A g \in Files \ {f} : stage'[w][g] = stage[w][g]
           /\ \A v \in Writers \ {w} : stage'[v] = stage[v]
    BY DEF Move, IInv, TypeOK

\* The same of a record.
LEMMA OneRecordChanges ==
    ASSUME IInv, NEW w \in Writers, NEW f \in Files, NEW new,
           record' = [record EXCEPT ![w] = [record[w] EXCEPT ![f] = new]]
    PROVE  /\ record'[w][f] = new
           /\ \A g \in Files \ {f} : record'[w][g] = record[w][g]
           /\ \A v \in Writers \ {w} : record'[v] = record[v]
    BY DEF IInv, TypeOK

\* A counted failure is one of its own writer.
LEMMA OneWriterIsDirty ==
    ASSUME IInv, NEW w \in Writers, Dirty(w)
    PROVE  clean'[w] = (mode[w] = "path") /\ \A v \in Writers \ {w} : clean'[v] = clean[v]
    BY DEF Dirty, IInv, TypeOK

\* Stating a file: an mtime equal to the row's is the row's.
LEMMA StatKeepsCalm ==
    ASSUME IInv, Calm, NEW w \in Writers, NEW f \in Files, Stat(w, f)
    PROVE  Calm'
    <1>1. /\ UNCHANGED <<disk, stamp, journal, graph, pc, mode, prior, current, known, calm, clean>>
          /\ pc[w] = "scan" /\ stage[w][f] = "listed" /\ disk[f] # Absent
        BY DEF Stat, files, db, run
    <1>2. PICK to \in {"stated", "hashing", "job"} :
              /\ Move(w, f, to)
              /\ to = "hashing" => prior[w][f] # NoRow /\ prior[w][f].stamp = stamp[f]
        BY DEF Stat, Compares
    <1>3. /\ stage'[w][f] = to /\ record'[w][f] = Job(w, f)
          /\ \A g \in Files \ {f} : stage'[w][g] = stage[w][g] /\ record'[w][g] = record[w][g]
          /\ \A v \in Writers \ {w} : stage'[v] = stage[v] /\ record'[v] = record[v]
        <2>1. record' = [record EXCEPT ![w] = [record[w] EXCEPT ![f] = Job(w, f)]]
            BY DEF Stat
        <2>2. /\ record'[w][f] = Job(w, f)
              /\ \A g \in Files \ {f} : record'[w][g] = record[w][g]
              /\ \A v \in Writers \ {w} : record'[v] = record[v]
            BY <2>1, OneRecordChanges
        <2> QED BY <1>2, <2>2, OneFileMoves
    <1>4. SyncKept
        BY <1>1 DEF SyncKept, InSync
    <1>5. ASSUME Steady(w)
          PROVE  ReadNow(w, f)' /\ (mode[w] # "path" => Sees(w, f)')
        <2>1. ReadNow(w, f) /\ (InSync(f) => InSync(f)')
            BY <1>4, <1>5 DEF Calm, Watches, SyncKept
        <2>2. Job(w, f).stamp = stamp[f]
            BY DEF Job
        <2>3. ReadNow(w, f)'
            BY <1>1, <1>2, <1>3, <2>1, <2>2 DEF ReadNow
        <2>4. Sees(w, f)'
            BY <1>1, <1>2, <1>3 DEF Sees, Underway
        <2> QED BY <2>3, <2>4
    <1> QED BY <1>1, <1>3, <1>4, <1>5, OneFileStep

\* A step that changes of a steady writer only what it has read of the journal
\* keeps the invariant when the new rows are the journal's, none, or the old ones.
LEMMA RowsAreNow ==
    ASSUME IInv, NEW w \in Writers, NEW g \in Files, ReadNow(w, g),
           UNCHANGED <<disk, stamp, journal, graph>>,
           prior'[w][g] \in {prior[w][g], journal[g], NoRow},
           stage'[w][g] = stage[w][g], record'[w][g] = record[w][g], stage[w][g] # "hashing"
    PROVE  ReadNow(w, g)'
    <1>1. HonestRow(g) /\ (InSync(g)' = InSync(g))
        BY DEF IInv, InSync
    <1>2. prior'[w][g] # NoRow /\ prior'[w][g].stamp = stamp[g] /\ disk[g] # Absent => InSync(g)
        BY <1>1 DEF HonestRow, InSync, ReadNow
    <1> QED BY <1>1, <1>2 DEF ReadNow

\* Looking the row up after the stat.
LEMMA LookUpKeepsCalm ==
    ASSUME IInv, Calm, NEW w \in Writers, NEW f \in Files, LookUp(w, f)
    PROVE  Calm'
    <1> DEFINE new == [record[w][f] EXCEPT !.base = Generation(journal[f])]
    <1>1. /\ UNCHANGED <<disk, stamp, journal, graph, pc, mode, current, known, calm, clean>>
          /\ pc[w] = "scan" /\ stage[w][f] = "stated"
        BY DEF LookUp, files, db
    <1>2. record[w][f] \in Records /\ Generation(journal[f]) \in Nat
        BY <1>1, GenerationType DEF IInv, Honest, Underway, TypeOK
    <1>3. new.stamp = record[w][f].stamp
        BY <1>2 DEF Records
    <1>4. PICK to \in {"hashing", "job"} :
              /\ Move(w, f, to)
              /\ to = "hashing" => journal[f] # NoRow /\ journal[f].stamp = record[w][f].stamp
        BY DEF LookUp, Compares
    <1>5. record' = [record EXCEPT ![w] = [record[w] EXCEPT ![f] = new]]
        BY DEF LookUp
    <1> HIDE DEF new
    <1>6. /\ stage'[w][f] = to /\ record'[w][f] = new
          /\ \A g \in Files \ {f} : stage'[w][g] = stage[w][g] /\ record'[w][g] = record[w][g]
          /\ \A v \in Writers \ {w} : stage'[v] = stage[v] /\ record'[v] = record[v]
        <2>1. /\ record'[w][f] = new
              /\ \A g \in Files \ {f} : record'[w][g] = record[w][g]
              /\ \A v \in Writers \ {w} : record'[v] = record[v]
            BY <1>5, OneRecordChanges
        <2> QED BY <1>4, <2>1, OneFileMoves
    <1>7. /\ prior'[w][f] = journal[f]
          /\ \A g \in Files \ {f} : prior'[w][g] = prior[w][g]
          /\ \A v \in Writers \ {w} : prior'[v] = prior[v]
        BY DEF LookUp, IInv, TypeOK
    <1>8. \A v \in Writers \ {w} : Bystander(v)
        BY <1>1, <1>6, <1>7 DEF Bystander
    <1>9. SyncKept /\ \A g \in Files : InSync(g)' = InSync(g)
        BY <1>1 DEF SyncKept, InSync
    <1>10. ASSUME Steady(w)
           PROVE  /\ \A g \in Files : ReadNow(w, g)'
                  /\ mode[w] # "path" =>
                         (current[w] = OnDisk)' /\ \A g \in Files : Sees(w, g)'
        <2>1. Watches(w)
            BY DEF Calm
        <2>2. \A g \in Files : ReadNow(w, g) /\ (mode[w] # "path" => Sees(w, g))
            BY <1>10, <2>1 DEF Watches
        <2>3. ReadNow(w, f)'
            <3>1. HonestRow(f) /\ record[w][f].stamp = stamp[f]
                BY <1>1, <2>2 DEF IInv, ReadNow, Underway
            <3>2. journal[f] # NoRow /\ journal[f].stamp = stamp[f] /\ disk[f] # Absent => InSync(f)
                BY <3>1 DEF HonestRow, InSync
            <3>3. to = "hashing" => journal[f] # NoRow /\ journal[f].stamp = stamp[f]
                BY <1>4, <3>1
            <3> QED BY <1>1, <1>3, <1>6, <1>7, <1>9, <3>1, <3>2, <3>3 DEF ReadNow
        <2>4. \A g \in Files \ {f} : ReadNow(w, g)'
            BY <1>1, <1>6, <1>7, <1>9, <2>2 DEF ReadNow
        <2>5. ASSUME mode[w] # "path", NEW g \in Files PROVE Sees(w, g)'
            <3>1. Sees(w, g) /\ (InSync(g)' = InSync(g))
                BY <1>9, <2>2, <2>5
            <3>2. CASE g = f
                BY <1>1, <1>6, <3>2 DEF Sees, Underway
            <3>3. CASE g # f
                <4>1. stage'[w][g] = stage[w][g]
                    BY <1>6, <3>3
                <4> QED BY <1>1, <3>1, <4>1 DEF Sees
            <3> QED BY <3>2, <3>3
        <2>6. mode[w] # "path" => (current[w] = OnDisk)'
            BY <1>1, <1>10, <2>1 DEF Watches, OnDisk
        <2> QED BY <2>3, <2>4, <2>5, <2>6
    <1>11. Watches(w)'
        BY <1>1, <1>10 DEF Watches, Steady
    <1> QED BY <1>1, <1>8, <1>9, <1>11, OneWriterStep

\* Reading the journal once the files are listed.
LEMMA CachingKeepsCalm ==
    ASSUME IInv, Calm, NEW w \in Writers, CacheJournal(w)
    PROVE  Calm'
    <1>1. /\ UNCHANGED <<disk, stamp, journal, graph, stage, record, known, clean, mode, current,
                        calm>>
          /\ pc[w] = "list"
        BY DEF CacheJournal, files, db
    <1>2. /\ pc'[w] = "scan"
          /\ \A g \in Files : prior'[w][g] \in {journal[g], NoRow}
        BY RowsOfType DEF CacheJournal, GoTo, IInv, TypeOK
    <1>3. \A v \in Writers \ {w} : Bystander(v)
        BY <1>1 DEF CacheJournal, GoTo, Bystander, IInv, TypeOK
    <1>4. SyncKept /\ \A g \in Files : InSync(g)' = InSync(g)
        BY <1>1 DEF SyncKept, InSync
    <1>5. Watches(w)
        BY DEF Calm
    <1>6. ASSUME Steady(w)
          PROVE  /\ \A g \in Files : ReadNow(w, g)'
                 /\ mode[w] # "path" =>
                        (current[w] = OnDisk)' /\ \A g \in Files : Sees(w, g)'
        <2>1. ASSUME NEW g \in Files
              PROVE  ReadNow(w, g)' /\ (mode[w] # "path" => Sees(w, g)')
            <3>1. ReadNow(w, g) /\ stage[w][g] # "hashing"
                BY <1>1, <1>5, <1>6 DEF Watches, ReadNow
            <3>2. ReadNow(w, g)'
                BY <1>1, <1>2, <3>1, RowsAreNow
            <3>3. ASSUME mode[w] # "path" PROVE Sees(w, g)'
                <4>1. Sees(w, g)
                    BY <1>5, <1>6, <3>3 DEF Watches
                <4> QED BY <1>1, <1>2, <1>4, <4>1 DEF Sees
            <3> QED BY <3>2, <3>3
        <2>2. mode[w] # "path" => (current[w] = OnDisk)'
            BY <1>1, <1>5, <1>6 DEF Watches, OnDisk
        <2> QED BY <2>1, <2>2
    <1>7. Watches(w)'
        BY <1>1, <1>2, <1>6 DEF Watches, Steady
    <1> QED BY <1>1, <1>3, <1>4, <1>7, OneWriterStep

\* A file moving on with the record it has.
LEMMA MovesKeepCalm ==
    ASSUME IInv, Calm, NEW w \in Writers, NEW f \in Files,
           \/ StatMissing(w, f) \/ HashChanged(w, f) \/ ReadMissing(w, f)
           \/ ConfirmMissing(w, f) \/ Fresh(w, f)
    PROVE  Calm'
    <1>1. /\ UNCHANGED <<disk, stamp, journal, graph, pc, mode, prior, current, known, calm, record>>
          /\ pc[w] \in {"scan", "parse", "publish"}
        BY DEF StatMissing, HashChanged, ReadMissing, ConfirmMissing, Fresh, files, db, run
    <1>2. PICK to :
              /\ Move(w, f, to)
              /\ \/ disk[f] = Absent /\ to \in {"none", "doomed"}
                 \/ disk[f] = Absent /\ to = "missing" /\ stage[w][f] = "job"
                 \/ to \in {"job", "fresh"} /\ stage[w][f] \in {"hashing", "parsed"}
        BY DEF StatMissing, HashChanged, ReadMissing, ConfirmMissing, Fresh
    <1>3. /\ stage'[w][f] = to
          /\ \A g \in Files \ {f} : stage'[w][g] = stage[w][g]
          /\ \A v \in Writers \ {w} : stage'[v] = stage[v]
        BY <1>2, OneFileMoves
    <1>4. /\ mode[w] # "path" /\ clean'[w] => clean[w]
          /\ \A v \in Writers \ {w} : clean'[v] = clean[v]
        BY OneWriterIsDirty DEF StatMissing, HashChanged, ReadMissing, ConfirmMissing, Fresh
    <1>5. SyncKept
        BY <1>1 DEF SyncKept, InSync
    <1>6. ASSUME Steady(w)
          PROVE  ReadNow(w, f)' /\ (mode[w] # "path" => Sees(w, f)')
        <2>1. ReadNow(w, f) /\ (InSync(f) => InSync(f)')
            BY <1>5, <1>6 DEF Calm, Watches, SyncKept
        <2>2. ReadNow(w, f)'
            BY <1>1, <1>2, <1>3, <2>1 DEF ReadNow, Underway
        <2>3. ASSUME mode[w] # "path" PROVE Sees(w, f)'
            <3>1. Sees(w, f)
                BY <1>6, <2>3 DEF Calm, Watches
            <3> QED BY <1>1, <1>2, <1>3, <1>4, <2>1, <2>3, <3>1 DEF Sees, Underway
        <2> QED BY <2>2, <2>3
    <1> QED BY <1>1, <1>3, <1>4, <1>5, <1>6, OneFileStep

\* Reading the bytes of a file, and extracting from them, keeps the job's mtime.
LEMMA ReadsKeepCalm ==
    ASSUME IInv, Calm, NEW w \in Writers, NEW f \in Files, ReadBytes(w, f) \/ Extract(w, f)
    PROVE  Calm'
    <1>1. /\ UNCHANGED <<disk, stamp, journal, graph, pc, mode, prior, current, known, calm, clean>>
          /\ pc[w] = "parse" /\ stage[w][f] \in {"job", "read"}
        BY DEF ReadBytes, Extract, files, db, run
    <1>2. record[w][f] \in Records
        BY <1>1 DEF IInv, Honest, Underway
    <1>3. PICK new :
              /\ new \in {[record[w][f] EXCEPT !.sha = disk[f], !.seen = stamp[f]],
                          [record[w][f] EXCEPT !.graph = disk[f]]}
              /\ record' = [record EXCEPT ![w] = [record[w] EXCEPT ![f] = new]]
        BY DEF ReadBytes, Extract
    <1>4. PICK to \in {"read", "parsed"} : Move(w, f, to)
        BY DEF ReadBytes, Extract
    <1>5. new.stamp = record[w][f].stamp
        BY <1>2, <1>3 DEF Records
    <1>6. /\ stage'[w][f] = to /\ record'[w][f] = new
          /\ \A g \in Files \ {f} : stage'[w][g] = stage[w][g] /\ record'[w][g] = record[w][g]
          /\ \A v \in Writers \ {w} : stage'[v] = stage[v] /\ record'[v] = record[v]
        <2>1. /\ record'[w][f] = new
              /\ \A g \in Files \ {f} : record'[w][g] = record[w][g]
              /\ \A v \in Writers \ {w} : record'[v] = record[v]
            BY <1>3, OneRecordChanges
        <2> QED BY <1>4, <2>1, OneFileMoves
    <1>7. SyncKept
        BY <1>1 DEF SyncKept, InSync
    <1>8. ASSUME Steady(w)
          PROVE  ReadNow(w, f)' /\ (mode[w] # "path" => Sees(w, f)')
        <2>1. ReadNow(w, f) /\ (InSync(f) => InSync(f)')
            BY <1>7, <1>8 DEF Calm, Watches, SyncKept
        <2>2. record'[w][f].stamp = stamp[f]
            BY <1>1, <1>5, <1>6, <2>1 DEF ReadNow, Underway
        <2>3. ReadNow(w, f)'
            BY <1>1, <1>4, <1>6, <2>1, <2>2 DEF ReadNow
        <2>4. ASSUME mode[w] # "path" PROVE Sees(w, f)'
            <3>1. Sees(w, f)
                BY <1>8, <2>4 DEF Calm, Watches
            <3> QED BY <1>1, <1>4, <1>6, <2>1, <3>1 DEF Sees, Underway
        <2> QED BY <2>3, <2>4
    <1> QED BY <1>1, <1>6, <1>7, <1>8, OneFileStep

\* A file is given up when it is in sync, or its failure is counted, or it is a
\* path of reconcile_path.
LEMMA DropsKeepCalm ==
    ASSUME IInv, Calm, NEW w \in Writers, NEW f \in Files,
           \/ HashUnchanged(w, f) \/ ReadFailed(w, f) \/ MissingIsBack(w, f)
           \/ Unchanged(w, f) \/ Conflict(w, f)
    PROVE  Calm'
    <1>1. /\ UNCHANGED <<disk, stamp, journal, graph, pc, mode, prior, current, known, calm>>
          /\ pc[w] \in {"scan", "parse", "publish"} /\ Drop(w, f)
        BY DEF HashUnchanged, ReadFailed, MissingIsBack, Unchanged, Conflict, files, db, run
    <1>2. /\ stage'[w][f] = "none"
          /\ \A g \in Files \ {f} : stage'[w][g] = stage[w][g] /\ record'[w][g] = record[w][g]
          /\ \A v \in Writers \ {w} : stage'[v] = stage[v] /\ record'[v] = record[v]
        BY <1>1, OneFileMoves, OneRecordChanges DEF Drop
    <1>3. /\ mode[w] # "path" /\ clean'[w] => clean[w] /\ HashUnchanged(w, f) /\ disk[f] # Absent
          /\ \A v \in Writers \ {w} : clean'[v] = clean[v]
        <2>1. CASE HashUnchanged(w, f)
            BY <2>1 DEF HashUnchanged, IInv, TypeOK
        <2>2. CASE ReadFailed(w, f) \/ MissingIsBack(w, f) \/ Conflict(w, f)
            BY <2>2, OneWriterIsDirty DEF ReadFailed, MissingIsBack, Conflict
        <2>3. CASE Unchanged(w, f)
            BY <2>3 DEF Unchanged
        <2> QED BY <2>1, <2>2, <2>3
    <1>4. SyncKept
        BY <1>1 DEF SyncKept, InSync
    <1>5. ASSUME Steady(w)
          PROVE  ReadNow(w, f)' /\ (mode[w] # "path" => Sees(w, f)')
        <2>1. ReadNow(w, f) /\ (InSync(f) => InSync(f)')
            BY <1>4, <1>5 DEF Calm, Watches, SyncKept
        <2>2. ReadNow(w, f)'
            BY <1>1, <1>2, <2>1 DEF ReadNow, Underway
        <2>3. ASSUME mode[w] # "path" PROVE Sees(w, f)'
            <3>1. Sees(w, f)
                BY <1>5, <2>3 DEF Calm, Watches
            <3>2. clean'[w] => InSync(f)'
                BY <1>3, <2>1, <2>3 DEF HashUnchanged, ReadNow
            <3> QED BY <1>1, <2>1, <3>1, <3>2 DEF Sees
        <2> QED BY <2>2, <2>3
    <1> QED BY <1>1, <1>2, <1>3, <1>4, <1>5, OneFileStep

\* The rows of a file that is not there go: it is in sync, and no other file is
\* concerned.
LEMMA DeletionsKeepSync ==
    ASSUME IInv, NEW f \in Files, DeleteRows(f), disk' = disk, disk[f] = Absent
    PROVE  InSync(f)' /\ SyncKept
    <1>1. journal'[f] = NoRow
        BY DEF DeleteRows, IInv, TypeOK
    <1>2. \A g \in Files \ {f} : journal'[g] = journal[g] /\ graph'[g] = graph[g]
        BY DEF DeleteRows, IInv, TypeOK
    <1>3. InSync(f)'
        BY <1>1 DEF InSync
    <1>4. \A g \in Files \ {f} : InSync(g) => InSync(g)'
        BY <1>2 DEF InSync
    <1> QED BY <1>3, <1>4 DEF SyncKept

\* A doomed file of a steady operation is still not there.
LEMMA DoomedKeepCalm ==
    ASSUME IInv, Calm, NEW w \in Writers, NEW f \in Files, DeleteDoomed(w, f)
    PROVE  Calm'
    <1>1. /\ UNCHANGED <<disk, stamp, pc, mode, prior, current, known, calm, clean>>
          /\ pc[w] = "parse" /\ stage[w][f] = "doomed" /\ Drop(w, f) /\ DeleteRows(f)
        BY DEF DeleteDoomed, files, run
    <1>2. /\ stage'[w][f] = "none"
          /\ \A g \in Files \ {f} : stage'[w][g] = stage[w][g] /\ record'[w][g] = record[w][g]
          /\ \A v \in Writers \ {w} : stage'[v] = stage[v] /\ record'[v] = record[v]
        BY <1>1, OneFileMoves, OneRecordChanges DEF Drop
    <1>3. ASSUME Steady(w)
          PROVE  SyncKept /\ ReadNow(w, f)' /\ (mode[w] # "path" => Sees(w, f)')
        <2>1. disk[f] = Absent
            BY <1>1, <1>3 DEF Calm, Watches, ReadNow
        <2>2. SyncKept /\ InSync(f)'
            BY <1>1, <2>1, DeletionsKeepSync
        <2>3. ReadNow(w, f)'
            BY <1>1, <1>2, <2>1 DEF ReadNow, Underway
        <2>4. Sees(w, f)'
            BY <1>1, <2>1, <2>2 DEF Sees
        <2> QED BY <2>2, <2>3, <2>4
    <1> QED BY <1>1, <1>2, <1>3, OneFileStep

\* What a steady sweep prunes is not there: its scan found all that is.
LEMMA PrunesKeepCalm ==
    ASSUME IInv, Calm, NEW w \in Writers, NEW f \in Files, Prune(w, f)
    PROVE  Calm'
    <1>1. /\ UNCHANGED <<disk, stamp, pc, stage, record, clean, mode, prior, current, calm>>
          /\ pc[w] = "prune" /\ f \in known[w] \ current[w] /\ DeleteRows(f)
        BY DEF Prune, files, run
    <1>2. /\ \A g \in Files \ {f} : g \in known[w] => g \in known'[w]
          /\ \A v \in Writers \ {w} : known'[v] = known[v]
        BY DEF Prune, IInv, TypeOK
    <1>3. \A v \in Writers \ {w} : Bystander(v)
        BY <1>1, <1>2 DEF Bystander
    <1>4. Watches(w) /\ mode[w] # "path"
        BY <1>1 DEF Calm, Watches
    <1>5. ASSUME Steady(w)
          PROVE  SyncKept /\ InSync(f)'
        <2>1. disk[f] = Absent
            BY <1>1, <1>4, <1>5 DEF Watches, OnDisk
        <2> QED BY <1>1, <2>1, DeletionsKeepSync
    <1>6. ASSUME Steady(w)
          PROVE  /\ \A g \in Files : ReadNow(w, g)' /\ Sees(w, g)'
                 /\ (current[w] = OnDisk)'
        <2>1. ASSUME NEW g \in Files PROVE ReadNow(w, g)' /\ Sees(w, g)'
            <3>1. ReadNow(w, g) /\ Sees(w, g) /\ (InSync(g) => InSync(g)')
                BY <1>4, <1>5, <1>6 DEF Watches, SyncKept
            <3>2. ReadNow(w, g)'
                BY <1>1, <3>1 DEF ReadNow
            <3>3. Sees(w, g)'
                BY <1>1, <1>2, <1>5, <1>6, <3>1 DEF Sees
            <3> QED BY <3>2, <3>3
        <2>2. (current[w] = OnDisk)'
            BY <1>1, <1>4, <1>6 DEF Watches, OnDisk
        <2> QED BY <2>1, <2>2
    <1>7. Watches(w)'
        BY <1>1, <1>4, <1>6 DEF Watches, Steady
    <1> QED BY <1>1, <1>3, <1>5, <1>7, OneWriterStep

\* The end of the scan reads the known paths: all that have a row.
LEMMA ScanEndKeepsCalm ==
    ASSUME IInv, Calm, NEW w \in Writers, EndScan(w)
    PROVE  Calm'
    <1>1. /\ UNCHANGED <<disk, stamp, journal, graph, stage, record, clean, mode, current, calm>>
          /\ pc[w] = "scan" /\ At(w, {"listed", "stated", "hashing"}) = {}
        BY DEF EndScan, files, db
    <1>2. /\ pc'[w] = "parse"
          /\ known'[w] = IF mode[w] = "path" THEN {} ELSE Journaled
          /\ \A g \in Files : prior'[w][g] \in {prior[w][g], NoRow}
        BY DEF EndScan, GoTo, IInv, TypeOK
    <1>3. \A v \in Writers \ {w} : Bystander(v)
        BY <1>1 DEF EndScan, GoTo, Bystander, IInv, TypeOK
    <1>4. SyncKept
        BY <1>1 DEF SyncKept, InSync
    <1>5. ASSUME Steady(w)
          PROVE  /\ \A g \in Files : ReadNow(w, g)'
                 /\ mode[w] # "path" =>
                        (current[w] = OnDisk)' /\ \A g \in Files : Sees(w, g)'
        <2>1. Watches(w)
            BY DEF Calm
        <2>2. ASSUME NEW g \in Files
              PROVE  ReadNow(w, g)' /\ (mode[w] # "path" => Sees(w, g)')
            <3>1. ReadNow(w, g) /\ (InSync(g) => InSync(g)')
                BY <1>4, <1>5, <2>1 DEF Watches, SyncKept
            <3>2. stage[w][g] \notin {"listed", "hashing"}
                BY <1>1 DEF At
            <3>3. ReadNow(w, g)'
                BY <1>1, <1>2, <3>1, <3>2 DEF ReadNow
            <3>4. ASSUME mode[w] # "path" PROVE Sees(w, g)'
                <4>1. Sees(w, g)
                    BY <1>5, <2>1, <3>4 DEF Watches
                <4>2. disk[g] = Absent => InSync(g) \/ g \in known'[w]
                    BY <1>2, <3>4 DEF InSync, Journaled
                <4> QED BY <1>1, <3>1, <4>1, <4>2 DEF Sees
            <3> QED BY <3>3, <3>4
        <2>3. mode[w] # "path" => (current[w] = OnDisk)'
            BY <1>1, <1>5, <2>1 DEF Watches, OnDisk
        <2> QED BY <2>2, <2>3
    <1>6. Watches(w)'
        BY <1>1, <1>2, <1>5 DEF Watches, Steady
    <1> QED BY <1>1, <1>3, <1>4, <1>6, OneWriterStep

\* Entering the gate and the sweep, and the end of the parses of a reconcile(),
\* which has no file in hand any more.
LEMMA GoingKeepsCalm ==
    ASSUME IInv, Calm, NEW w \in Writers,
           EnterGate(w) \/ EnterSweep(w) \/ (EndParse(w) /\ mode[w] # "path")
    PROVE  Calm'
    <1>1. UNCHANGED <<disk, stamp, journal, graph, stage, record, known, clean, mode, prior,
                      current, calm>>
        BY DEF EnterGate, EnterSweep, EndParse, files, db, run
    <1>2. PICK where \in {"publish", "sweep", "prune"} :
              /\ GoTo(w, where)
              /\ pc[w] \in {"parse", "sweep"}
              /\ where = "sweep" => mode[w] # "path" /\ At(w, Stages \ {"none"}) = {}
              /\ where = "prune" => pc[w] = "sweep"
        BY DEF EnterGate, EnterSweep, EndParse, WindowParsed
    <1>3. pc'[w] = where /\ \A v \in Writers \ {w} : Bystander(v)
        BY <1>1, <1>2 DEF GoTo, Bystander, IInv, TypeOK
    <1>4. SyncKept
        BY <1>1 DEF SyncKept, InSync
    <1>5. Watches(w)
        BY DEF Calm
    <1>6. where \in {"sweep", "prune"} => mode[w] # "path" /\ \A f \in Files : stage[w][f] = "none"
        BY <1>2, <1>5 DEF Watches, At, IInv, TypeOK
    <1>7. ASSUME Steady(w)
          PROVE  /\ \A g \in Files : ReadNow(w, g)'
                 /\ mode[w] # "path" =>
                        (current[w] = OnDisk)' /\ \A g \in Files : Sees(w, g)'
        <2>1. ASSUME NEW g \in Files
              PROVE  ReadNow(w, g)' /\ (mode[w] # "path" => Sees(w, g)')
            <3>1. ReadNow(w, g) /\ (InSync(g) => InSync(g)')
                BY <1>4, <1>5, <1>7 DEF Watches, SyncKept
            <3>2. ReadNow(w, g)'
                BY <1>1, <1>2, <1>3, <3>1 DEF ReadNow
            <3>3. ASSUME mode[w] # "path" PROVE Sees(w, g)'
                <4>1. Sees(w, g)
                    BY <1>5, <1>7, <3>3 DEF Watches
                <4> QED BY <1>1, <1>2, <3>1, <4>1 DEF Sees
            <3> QED BY <3>2, <3>3
        <2>2. mode[w] # "path" => (current[w] = OnDisk)'
            BY <1>1, <1>5, <1>7 DEF Watches, OnDisk
        <2> QED BY <2>1, <2>2
    <1>8. Watches(w)'
        BY <1>1, <1>2, <1>3, <1>6, <1>7 DEF Watches, Steady
    <1>9. pc[w] # "idle"
        BY <1>2
    <1> QED BY <1>1, <1>3, <1>4, <1>8, <1>9, OneWriterStep

\* A window that failed is counted.
LEMMA FailuresKeepCalm ==
    ASSUME IInv, Calm, NEW w \in Writers, GateBusy(w) \/ CommitFails(w)
    PROVE  Calm'
    <1>1. /\ WindowFailed(w) /\ pc[w] \in {"parse", "publish"}
          /\ UNCHANGED <<disk, stamp, journal, graph, known, mode, prior, current, calm>>
        BY DEF GateBusy, WindowParsed, CommitFails, files, db, run
    <1>2. pc'[w] = "parse" /\ clean'[w] = (mode[w] = "path")
        BY <1>1, OneWriterIsDirty DEF WindowFailed, GoTo, IInv, TypeOK
    <1>3. \A g \in Files :
              \/ stage'[w][g] = "none"
              \/ stage'[w][g] = stage[w][g] /\ record'[w][g] = record[w][g]
        BY <1>1 DEF WindowFailed, IInv, TypeOK
    <1>4. \A v \in Writers \ {w} : Bystander(v)
        BY <1>1, OneWriterIsDirty DEF WindowFailed, GoTo, Bystander, IInv, TypeOK
    <1>5. SyncKept
        BY <1>1 DEF SyncKept, InSync
    <1>6. ASSUME Steady(w)
          PROVE  /\ \A g \in Files : ReadNow(w, g)'
                 /\ mode[w] # "path" =>
                        (current[w] = OnDisk)' /\ \A g \in Files : Sees(w, g)'
        <2>1. Watches(w)
            BY DEF Calm
        <2>2. ASSUME NEW g \in Files
              PROVE  ReadNow(w, g)' /\ (mode[w] # "path" => Sees(w, g)')
            <3>1. ReadNow(w, g) /\ (InSync(g) => InSync(g)')
                BY <1>5, <1>6, <2>1 DEF Watches, SyncKept
            <3>2. ReadNow(w, g)'
                BY <1>1, <1>2, <1>3, <3>1 DEF ReadNow, Underway
            <3>3. ASSUME mode[w] # "path" PROVE Sees(w, g)'
                <4>1. Sees(w, g)
                    BY <1>6, <2>1, <3>3 DEF Watches
                <4> QED BY <1>1, <1>2, <3>1, <3>3, <4>1 DEF Sees
            <3> QED BY <3>2, <3>3
        <2>3. mode[w] # "path" => (current[w] = OnDisk)'
            BY <1>1, <1>6, <2>1 DEF Watches, OnDisk
        <2> QED BY <2>2, <2>3
    <1>7. Watches(w)'
        BY <1>1, <1>2, <1>6 DEF Watches, Steady
    <1> QED BY <1>1, <1>4, <1>5, <1>7, OneWriterStep

\* The row of a fresh record is a row, with the record's hash and mtime.
LEMMA FreshRow ==
    ASSUME IInv, NEW w \in Writers, NEW f \in Files, stage[w][f] = "fresh"
    PROVE  /\ Row(w, f) # NoRow
           /\ Row(w, f).sha = record[w][f].sha
           /\ record[w][f].stamp = stamp[f] =>
                  record[w][f].sha = disk[f] /\ record[w][f].graph = disk[f] /\ disk[f] # Absent
    <1>1. Honest(w, f)
        BY DEF IInv
    <1>2. /\ record[w][f] \in Records /\ record[w][f].sha \in Contents
          /\ record[w][f].stamp = stamp[f] =>
                 record[w][f].sha = disk[f] /\ record[w][f].graph = disk[f]
        BY <1>1 DEF Honest, Underway
    <1>3. Generation(journal[f]) + 1 \in Nat
        BY DEF Generation, Rows, IInv, TypeOK
    <1>4. Row(w, f) \in Rows
        BY <1>2, <1>3 DEF Row, Rows, Records
    <1>5. Row(w, f) # NoRow
        BY <1>4, DistinctAssumption DEF Rows
    <1> QED BY <1>2, <1>5, DistinctAssumption DEF Row

\* A steady transaction publishes what is on disk, and counts what it does not
\* publish.
LEMMA CommitsKeepCalm ==
    ASSUME IInv, Calm, NEW w \in Writers, Commit(w)
    PROVE  Calm'
    <1> DEFINE won == {f \in At(w, {"fresh"}) : Unraced(w, f)}
    <1>1. /\ UNCHANGED <<disk, stamp, known, mode, prior, current, calm>>
          /\ pc[w] = "publish" /\ GoTo(w, "parse")
          /\ journal' = [f \in Files |-> IF f \in won THEN Row(w, f) ELSE journal[f]]
          /\ graph' = [f \in Files |-> IF f \in won THEN record[w][f].graph ELSE graph[f]]
          /\ IF won = At(w, {"fresh"}) THEN UNCHANGED clean ELSE Dirty(w)
        BY DEF Commit, files, run
    <1>2. \A f \in won : f \in Files /\ stage[w][f] = "fresh"
        BY DEF At
    <1>3. mode[w] # "path" /\ clean'[w] => clean[w] /\ won = At(w, {"fresh"})
        BY <1>1, OneWriterIsDirty
    <1>4. \A v \in Writers \ {w} : clean'[v] = clean[v]
        BY <1>1, OneWriterIsDirty
    <1> HIDE DEF won
    <1>5. pc'[w] = "parse" /\ \A v \in Writers \ {w} : pc'[v] = pc[v]
        BY <1>1 DEF GoTo, IInv, TypeOK
    <1>6. \A g \in Files :
              \/ stage'[w][g] = "none" /\ stage[w][g] = "fresh"
              \/ stage'[w][g] = stage[w][g] /\ record'[w][g] = record[w][g]
        BY DEF Commit, IInv, TypeOK
    <1>7. \A v \in Writers \ {w} : stage'[v] = stage[v] /\ record'[v] = record[v]
        BY DEF Commit, IInv, TypeOK
    <1>8. \A v \in Writers \ {w} : Bystander(v)
        BY <1>1, <1>4, <1>5, <1>7 DEF Bystander
    <1>9. ASSUME Steady(w), NEW f \in won PROVE InSync(f)'
        <2>1. f \in Files /\ stage[w][f] = "fresh" /\ record[w][f].stamp = stamp[f]
            BY <1>2, <1>9 DEF Calm, Watches, ReadNow, Underway
        <2>2. journal'[f] = Row(w, f) /\ graph'[f] = record[w][f].graph
            BY <1>1, <1>9, <2>1
        <2> QED BY <1>1, <2>1, <2>2, FreshRow DEF InSync
    <1>10. ASSUME Steady(w) PROVE SyncKept
        <2>1. \A f \in Files \ won : InSync(f) => InSync(f)'
            BY <1>1 DEF InSync
        <2> QED BY <1>9, <1>10, <2>1 DEF SyncKept
    <1>11. ASSUME Steady(w)
          PROVE  /\ \A g \in Files : ReadNow(w, g)'
                 /\ mode[w] # "path" =>
                        (current[w] = OnDisk)' /\ \A g \in Files : Sees(w, g)'
        <2>1. Watches(w)
            BY DEF Calm
        <2>2. ASSUME NEW g \in Files
              PROVE  ReadNow(w, g)' /\ (mode[w] # "path" => Sees(w, g)')
            <3>1. ReadNow(w, g) /\ (InSync(g) => InSync(g)')
                BY <1>10, <1>11, <2>1 DEF Watches, SyncKept
            <3>2. ReadNow(w, g)'
                BY <1>1, <1>5, <1>6, <3>1 DEF ReadNow, Underway
            <3>3. ASSUME mode[w] # "path" PROVE Sees(w, g)'
                <4>1. Sees(w, g)
                    BY <1>11, <2>1, <3>3 DEF Watches
                <4>2. clean'[w] /\ stage[w][g] = "fresh" => InSync(g)'
                    BY <1>3, <1>9, <1>11, <3>3 DEF At
                <4> QED BY <1>1, <1>3, <1>6, <3>1, <3>3, <4>1, <4>2 DEF Sees
            <3> QED BY <3>2, <3>3
        <2>3. mode[w] # "path" => (current[w] = OnDisk)'
            BY <1>1, <1>11, <2>1 DEF Watches, OnDisk
        <2> QED BY <2>2, <2>3
    <1>12. Watches(w)'
        BY <1>1, <1>5, <1>11 DEF Watches, Steady
    <1> QED BY <1>1, <1>8, <1>10, <1>12, OneWriterStep

\* An operation that begins is steady if all that run are, and has seen nothing
\* but the journal: a row with the file's mtime is in sync with it.
LEMMA BeginningsKeepCalm ==
    ASSUME IInv, Calm, NEW w \in Writers, NEW m \in {"path", "reconcile", "force"},
           NEW listed \in SUBSET Files, NEW where \in {"list", "scan"}, NEW paths,
           Begin(w, m, listed, where, RowsOf(paths)), m # "path" => listed = OnDisk
    PROVE  Calm'
    <1>1. UNCHANGED <<disk, stamp, journal, graph, record, known>> /\ pc[w] = "idle"
        BY DEF Begin, files, db
    <1>2. /\ pc'[w] = where /\ mode'[w] = m /\ current'[w] = listed
          /\ calm'[w] = \A v \in Active : calm[v]
          /\ \A g \in Files : /\ stage'[w][g] = IF g \in listed THEN "listed" ELSE "none"
                              /\ prior'[w][g] \in {journal[g], NoRow}
        BY RowsOfType DEF Begin, GoTo, IInv, TypeOK
    <1>3. \A v \in Writers \ {w} : Bystander(v)
        BY <1>1 DEF Begin, GoTo, Bystander, IInv, TypeOK
    <1>4. \A g \in Files : InSync(g)' = InSync(g)
        BY <1>1 DEF InSync
    <1>5. Together'
        <2>1. ASSUME NEW v \in Writers, NEW u \in Writers, pc'[v] # "idle", Steady(u)'
              PROVE  calm'[v]
            <3>1. CASE u = w
                <4>1. \A x \in Active : calm[x]
                    BY <1>2, <2>1, <3>1 DEF Steady
                <4>2. CASE v = w
                    BY <2>1, <3>1, <4>2 DEF Steady
                <4>3. CASE v # w
                    BY <1>3, <2>1, <4>1, <4>3 DEF Bystander, Active
                <4> QED BY <4>2, <4>3
            <3>2. CASE u # w
                <4>1. Steady(u) /\ \A x \in Active : calm[x]
                    BY <1>3, <2>1, <3>2 DEF Calm, Together, Steady, Bystander, Active
                <4>2. CASE v = w
                    BY <1>2, <4>1, <4>2
                <4>3. CASE v # w
                    BY <1>3, <2>1, <4>1, <4>3 DEF Bystander, Active
                <4> QED BY <4>2, <4>3
            <3> QED BY <3>1, <3>2
        <2> QED BY <2>1 DEF Together
    <1>6. ASSUME NEW v \in Writers, v # w PROVE Watches(v)'
        <2>1. Watches(v) /\ Bystander(v)
            BY <1>3, <1>6 DEF Calm
        <2>2. \A g \in Files : ReadNow(v, g)' = ReadNow(v, g) /\ Sees(v, g)' = Sees(v, g)
            BY <1>1, <1>4, <2>1 DEF ReadNow, Sees, Bystander
        <2>3. (current[v] = OnDisk)' = (current[v] = OnDisk) /\ Steady(v)' = Steady(v)
            BY <1>1, <2>1 DEF OnDisk, Steady, Bystander
        <2> QED BY <2>1, <2>2, <2>3 DEF Watches, Bystander
    <1>7. Watches(w)'
        <2>1. ASSUME NEW g \in Files PROVE ReadNow(w, g)'
            <3>1. HonestRow(g)
                BY DEF IInv
            <3>2. journal[g] # NoRow /\ journal[g].stamp = stamp[g] /\ disk[g] # Absent => InSync(g)
                BY <3>1 DEF HonestRow, InSync
            <3> QED BY <1>1, <1>2, <1>4, <3>2 DEF ReadNow, Underway
        <2>2. ASSUME m # "path", NEW g \in Files PROVE Sees(w, g)'
            BY <1>1, <1>2, <2>2 DEF Sees, OnDisk
        <2>3. m # "path" => (current[w] = OnDisk)'
            BY <1>1, <1>2 DEF OnDisk
        <2> QED BY <1>2, <2>1, <2>2, <2>3 DEF Watches
    <1> QED BY <1>5, <1>6, <1>7 DEF Calm

\* A change leaves no running operation steady.
LEMMA EditsKeepCalm ==
    ASSUME IInv, Calm, NEW f \in Files, NEW content \in Contents \cup {Absent}, Edit(f, content)
    PROVE  Calm'
    <1>1. UNCHANGED <<pc, mode, stage>>
        BY DEF Edit
    <1>2. \A v \in Writers : ~Steady(v)'
        BY <1>1 DEF Edit, Steady
    <1> QED BY <1>1, <1>2 DEF Calm, Together, Watches

\* Every step keeps the invariant.
LEMMA StepsKeepCalm ==
    ASSUME IInv, Calm, Next
    PROVE  Calm'
    <1>1. ASSUME NEW w \in Writers,
                 StartReconcile(w) \/ StartForce(w) \/ \E f \in Files : StartPath(w, f)
          PROVE  Calm'
        <2>1. PICK m \in {"path", "reconcile", "force"}, listed \in SUBSET Files,
                   where \in {"list", "scan"}, paths \in SUBSET Files :
                  Begin(w, m, listed, where, RowsOf(paths)) /\ (m # "path" => listed = OnDisk)
            <3>1. OnDisk \in SUBSET Files /\ {} \in SUBSET Files
                BY DEF OnDisk
            <3>2. CASE StartReconcile(w) \/ StartForce(w)
                BY <3>1, <3>2 DEF StartReconcile, StartForce
            <3>3. ASSUME NEW f \in Files, StartPath(w, f)
                  PROVE  Begin(w, "path", {f}, "scan", RowsOf({f}))
                BY <3>3 DEF StartPath
            <3>4. \A f \in Files : {f} \in SUBSET Files
                OBVIOUS
            <3> QED BY <1>1, <3>2, <3>3, <3>4
        <2> QED BY <2>1, BeginningsKeepCalm
    <1>2. ASSUME NEW w \in Writers, NEW f \in Files,
                 \/ Parsing(w, f) \/ Fresh(w, f) \/ Conflict(w, f)
                 \/ DeleteDoomed(w, f) \/ Prune(w, f)
          PROVE  Calm'
        BY <1>2, StatKeepsCalm, LookUpKeepsCalm, MovesKeepCalm, ReadsKeepCalm, DropsKeepCalm, DoomedKeepCalm,
           PrunesKeepCalm DEF Parsing
    <1>3. ASSUME NEW w \in Writers,
                 \/ Crash(w) \/ CommitFails(w) \/ CacheJournal(w) \/ EndScan(w) \/ DeleteBusy(w) \/ EnterGate(w)
                 \/ GateBusy(w) \/ Commit(w) \/ EndParse(w) \/ EnterSweep(w) \/ SweepBusy(w)
                 \/ EndSweep(w)
          PROVE  Calm'
        BY <1>3, EndsKeepCalm, CachingKeepsCalm, ScanEndKeepsCalm, GoingKeepsCalm, FailuresKeepCalm, CommitsKeepCalm
    <1> QED BY <1>1, <1>2, <1>3, EditsKeepCalm DEF Next, Publishing

\* Nothing runs at the start.
LEMMA InitCalm == Init => Calm
    BY DEF Init, Calm, Together, Steady, Watches

\* Only the end of its sweep takes a writer out of the sweep without a fault.
LEMMA OnlySweepsEnd ==
    ASSUME IInv, Next, NEW w \in Writers, pc[w] = "prune", pc'[w] = "idle", faults' = faults
    PROVE  EndSweep(w)
    <1>1. ~Fault
        BY DEF Fault, IInv, TypeOK
    <1>2. ASSUME NEW v \in Writers,
                 NEW where \in {"list", "scan", "parse", "publish", "sweep", "prune"},
                 GoTo(v, where)
          PROVE  FALSE
        BY <1>2 DEF GoTo, IInv, TypeOK
    <1>3. ASSUME NEW v \in Writers, Leave(v) PROVE v = w
        BY <1>3 DEF Leave, GoTo, IInv, TypeOK
    <1>4. pc' # pc
        OBVIOUS
    <1>5. ASSUME NEW v \in Writers, Publishing(v) PROVE EndSweep(w)
        <2>1. CASE CacheJournal(v) \/ EndScan(v) \/ EnterGate(v) \/ Commit(v) \/ EnterSweep(v)
            BY <1>2, <2>1 DEF CacheJournal, EndScan, EnterGate, Commit, EnterSweep
        <2>2. CASE DeleteBusy(v) \/ GateBusy(v) \/ SweepBusy(v)
            BY <1>1, <2>2 DEF DeleteBusy, GateBusy, SweepBusy
        <2>3. CASE \E f \in Files : DeleteDoomed(v, f) \/ Fresh(v, f) \/ Conflict(v, f) \/ Prune(v, f)
            BY <1>4, <2>3 DEF DeleteDoomed, Fresh, Conflict, Prune
        <2>4. CASE EndParse(v)
            BY <1>2, <1>3, <2>4 DEF EndParse
        <2>5. CASE EndSweep(v)
            BY <1>3, <2>5 DEF EndSweep
        <2> QED BY <1>5, <2>1, <2>2, <2>3, <2>4, <2>5 DEF Publishing
    <1>6. ASSUME NEW v \in Writers, NEW f \in Files, Parsing(v, f) PROVE FALSE
        BY <1>4, <1>6 DEF Parsing, LookUp, Stat, StatMissing, HashUnchanged, HashChanged, ReadBytes,
           ReadMissing, ReadFailed, Extract, ConfirmMissing, MissingIsBack, Unchanged
    <1>7. ASSUME NEW v \in Writers,
                 \/ StartReconcile(v) \/ StartForce(v) \/ Crash(v) \/ CommitFails(v)
                 \/ \E f \in Files : StartPath(v, f)
          PROVE  FALSE
        BY <1>1, <1>2, <1>7 DEF StartReconcile, StartForce, StartPath, Begin, Crash, CommitFails
    <1>8. ASSUME NEW f \in Files, NEW content, Edit(f, content) PROVE FALSE
        BY <1>4, <1>8 DEF Edit
    <1> QED BY <1>5, <1>6, <1>7, <1>8 DEF Next

\* A steady sweep without failure that has nothing left to prune leaves every
\* file in sync.
LEMMA SweptIsInSync ==
    ASSUME IInv, Calm, NEW w \in Writers, EndSweep(w), clean[w], calm[w]
    PROVE  \A f \in Files : InSync(f)
    <1>1. pc[w] = "prune" /\ known[w] \subseteq current[w] /\ Steady(w)
        BY DEF EndSweep, Steady
    <1>2. current[w] = OnDisk /\ \A f \in Files : Sees(w, f) /\ stage[w][f] = "none"
        BY <1>1 DEF Calm, Watches
    <1>3. ASSUME NEW f \in Files PROVE InSync(f)
        <2>1. disk[f] = Absent => f \notin known[w]
            BY <1>1, <1>2 DEF OnDisk
        <2> QED BY <1>1, <1>2, <2>1 DEF Sees, Underway
    <1> QED BY <1>3

\* A reconcile() that counted no failure and no conflict leaves every file
\* indexed as it is on disk, whatever other writers did meanwhile, when no file
\* changed since the first operation it overlapped with began.
THEOREM CleanRunsAreInSync == Spec => CleanRunIsInSync
    <1> DEFINE InSyncAfter ==
            \A w \in Writers :
                pc[w] = "prune" /\ pc'[w] = "idle" /\ faults' = faults /\ clean[w] /\ calm[w]
                    => \A f \in Files : InSync(f)
    <1>1. ASSUME IInv, Calm, Next PROVE InSyncAfter
        BY <1>1, OnlySweepsEnd, SweptIsInSync
    <1>2. ASSUME Calm, UNCHANGED vars PROVE Calm'
        BY <1>2 DEF vars, files, db, run, Calm, Together, Watches, Steady, ReadNow, Sees, InSync,
           OnDisk
    <1> HIDE DEF InSyncAfter
    <1>3. IInv /\ Calm /\ [Next]_vars => Calm' /\ [InSyncAfter]_vars
        BY <1>1, <1>2, StepsKeepCalm
    <1>4. Spec => [][InSyncAfter]_vars
        BY Invariance, InitCalm, <1>3, PTL DEF Spec
    <1> QED BY <1>4 DEF CleanRunIsInSync, InSyncAfter
=============================================================================
