------------------------------- MODULE Watcher -------------------------------
(***************************************************************************)
(* The watch loop of src/sot_graph/watcher.py (_run_polling and            *)
(* _run_watchfiles) over reconcile_paths of src/sot_graph/reconciler.py:   *)
(* which changed files it remembers until their state is in the index,     *)
(* while another process may hold the write lock past the 10 s timeout.    *)
(***************************************************************************)
EXTENDS Naturals

CONSTANTS
    Files,      \* watched paths
    Absent,     \* no file; no rows
    NoPath,     \* reconcile_paths is between two paths
    MaxEdits,   \* bound: changes to the files
    MaxFaults   \* bound: long lock holders, unreadable files, database errors

ASSUME BoundsAssumption == MaxEdits \in Nat /\ MaxFaults \in Nat
ASSUME PathsAssumption == Absent \notin Nat /\ NoPath \notin Files

VARIABLES
    backend,    \* "poll" or "watchfiles"
    disk,       \* disk[f]: the mtime of f, a new one for each change
    edits,      \* changes so far
    faults,     \* faults so far
    busy,       \* another process keeps the write lock past the timeout
    current,    \* current[f]: f as the poll loop's last snapshot showed it
    events,     \* files with change events watchfiles has not returned yet
    batch,      \* changed paths to reconcile
    deferred,   \* LockBusy carry-over
    target,     \* the path reconcile_path works on
    seen,       \* the state of `path` that it read
    published,  \* reconcile_paths changed the index
    indexed,    \* indexed[f]: the state of f its rows were made from
    failed,     \* history: why the last attempt at f may have to be repeated
    at

files == <<disk, edits, events>>
task == <<target, seen>>
watchVars ==
    <<backend, files, faults, busy, current, batch, deferred, task, published, indexed, failed, at>>

States == Nat \cup {Absent}

\* One type invariant of the module.
WatchTypeOK ==
    /\ backend \in {"poll", "watchfiles"}
    /\ disk \in [Files -> States] /\ current \in [Files -> States]
    /\ indexed \in [Files -> States]
    /\ events \in SUBSET Files
    /\ edits \in Nat /\ faults \in Nat
    /\ busy \in BOOLEAN /\ published \in BOOLEAN
    /\ batch \in SUBSET Files /\ deferred \in SUBSET Files
    /\ target \in Files \cup {NoPath}
    /\ seen \in States
    /\ failed \in [Files -> {"no", "unreadable", "busy", "raised", "unseen"}]
    /\ at \in {"sleep", "debounce", "batch", "retry", "dead"}

\* The loop starts over an index that is up to date.
WatchInit ==
    /\ backend \in {"poll", "watchfiles"}
    /\ disk \in [Files -> {0, Absent}]
    /\ current = disk /\ indexed = disk
    /\ edits = 0 /\ faults = 0 /\ events = {}
    /\ busy = FALSE /\ published = FALSE
    /\ batch = {} /\ deferred = {}
    /\ target = NoPath /\ seen = Absent
    /\ failed = [f \in Files |-> "no"]
    /\ at = "sleep"

-----------------------------------------------------------------------------
(* The files and the other holders of the lock.                            *)

Change(f, state) ==
    /\ edits < MaxEdits
    /\ edits' = edits + 1
    /\ disk' = [disk EXCEPT ![f] = state]
    /\ events' = IF backend = "watchfiles" THEN events \cup {f} ELSE {}
    /\ UNCHANGED <<backend, faults, busy, current, batch, deferred, task, published, indexed,
                   failed, at>>

Write(f) == Change(f, edits + 1)
Delete(f) == disk[f] # Absent /\ Change(f, Absent)

\* A CLI migration or a provider sync holds the lock longer than the timeout.
HoldLong ==
    /\ ~busy /\ faults < MaxFaults
    /\ faults' = faults + 1
    /\ busy' = TRUE
    /\ UNCHANGED <<backend, files, current, batch, deferred, task, published, indexed, failed, at>>

LetGo ==
    /\ busy
    /\ busy' = FALSE
    /\ UNCHANGED <<backend, files, faults, current, batch, deferred, task, published, indexed,
                   failed, at>>

-----------------------------------------------------------------------------
(* Noticing changes.                                                       *)

\* What a snapshot differs in, or the next set of events.
Changed == IF backend = "poll" THEN {f \in Files : current[f] # disk[f]} ELSE events

\* They are taken: the snapshot becomes the current one.
Take ==
    /\ current' = IF backend = "poll" THEN disk ELSE current
    /\ events' = {}

\* Mutant: the carry-over waits for the next change.
MutantWakeOnChange ==
    /\ at = "sleep"
    /\ Changed # {}
    /\ batch' = Changed \cup deferred
    /\ deferred' = {}
    /\ Take
    /\ at' = IF backend = "poll" THEN "debounce" ELSE "batch"
    /\ published' = FALSE
    /\ UNCHANGED <<backend, disk, edits, faults, busy, task, indexed, failed>>

\* The loop has something to do.  The poll loop looks every interval and sees
\* its carry-over; watchfiles.watch() returns only when a file changed.
Wake ==
    /\ at = "sleep"
    /\ Changed # {} \/ (backend = "poll" /\ deferred # {})
    /\ batch' = Changed \cup deferred
    /\ deferred' = {}
    /\ Take
    /\ at' = IF backend = "poll" THEN "debounce" ELSE "batch"
    /\ published' = FALSE
    /\ UNCHANGED <<backend, disk, edits, faults, busy, task, indexed, failed>>

\* Another snapshot while debouncing finds more changes.
Fold ==
    /\ at = "debounce"
    /\ Changed # {}
    /\ batch' = batch \cup Changed
    /\ Take
    /\ UNCHANGED <<backend, disk, edits, faults, busy, deferred, task, published, indexed, failed,
                   at>>

\* No snapshot showed a change for debounce_ms.
Quiet ==
    /\ at = "debounce"
    /\ at' = "batch"
    /\ UNCHANGED <<backend, files, faults, busy, current, batch, deferred, task, published,
                   indexed, failed>>

-----------------------------------------------------------------------------
(* reconcile_paths, one reconcile_path at a time.                          *)

\* The path is looked at: it is missing, or it is read and parsed.
Read(f) ==
    /\ at = "batch" /\ target = NoPath
    /\ f \in batch
    /\ target' = f
    /\ seen' = disk[f]
    /\ batch' = batch \ {f}
    /\ UNCHANGED <<backend, files, faults, busy, current, deferred, published, indexed, failed, at>>

\* reconcile_path returned or raised.
Done ==
    /\ target' = NoPath
    /\ seen' = Absent
    /\ UNCHANGED <<backend, files, busy, current, batch, at>>

Outcome(why) == failed' = [failed EXCEPT ![target] = why]

\* A file was read that the poll loop's last snapshot had missed.
ReadOutcome ==
    Outcome(IF backend = "poll" /\ current[target] = Absent THEN "unseen" ELSE "no")

\* "unchanged": the row has the parsed hash.
Unchanged ==
    /\ target # NoPath
    /\ seen # Absent /\ indexed[target] = seen
    /\ ReadOutcome
    /\ UNCHANGED <<faults, deferred, published, indexed>>
    /\ Done

\* "indexed": the file is still the one that was parsed.
Publish ==
    /\ target # NoPath
    /\ seen # Absent /\ indexed[target] # seen
    /\ ~busy
    /\ disk[target] = seen
    /\ indexed' = [indexed EXCEPT ![target] = seen]
    /\ published' = TRUE
    /\ ReadOutcome
    /\ UNCHANGED <<faults, deferred>>
    /\ Done

\* "conflict": it changed in the meantime; nothing is published, yet it counts.
Conflict ==
    /\ target # NoPath
    /\ seen # Absent /\ indexed[target] # seen
    /\ ~busy
    /\ disk[target] # seen
    /\ published' = TRUE
    /\ ReadOutcome
    /\ UNCHANGED <<faults, deferred, indexed>>
    /\ Done

\* The file was missing, or went before it was parsed: "deleted".
Missing == target # NoPath /\ (seen = Absent \/ disk[target] = Absent)

Remove ==
    /\ Missing
    /\ ~busy
    /\ indexed' = [indexed EXCEPT ![target] = Absent]
    /\ published' = TRUE
    /\ Outcome("no")
    /\ UNCHANGED <<faults, deferred>>
    /\ Done

\* Mutants: a path that meets a busy lock is skipped; it is deferred after it was
\* left.
MutantRemoveBusySkips ==
    /\ Missing
    /\ busy
    /\ Outcome("no")
    /\ UNCHANGED <<faults, deferred, published, indexed>>
    /\ Done

MutantDeferLate ==
    /\ Missing
    /\ busy
    /\ Outcome("no")
    /\ UNCHANGED <<faults, published, indexed>>
    /\ Done
    /\ deferred' = deferred \cup {target'}

\* LockBusy while deleting rows reaches reconcile_paths: the path is deferred.
RemoveBusy ==
    /\ Missing
    /\ busy
    /\ deferred' = deferred \cup {target}
    /\ Outcome("no")
    /\ UNCHANGED <<faults, published, indexed>>
    /\ Done

\* LockBusy while publishing is caught inside reconcile_path: "error".
PublishBusy ==
    /\ target # NoPath
    /\ seen # Absent /\ indexed[target] # seen
    /\ busy
    /\ Outcome("busy")
    /\ UNCHANGED <<faults, deferred, published, indexed>>
    /\ Done

\* The file cannot be read or parsed, or _commit_batch raises: "error".
Unreadable ==
    /\ target # NoPath
    /\ seen # Absent
    /\ faults < MaxFaults
    /\ faults' = faults + 1
    /\ Outcome("unreadable")
    /\ UNCHANGED <<deferred, published, indexed>>
    /\ Done

\* Anything but LockBusy, an error of the database above all, is swallowed by
\* reconcile_paths: the path is skipped, whether its rows were to be read, deleted
\* or replaced.
Raises ==
    /\ target # NoPath
    /\ faults < MaxFaults
    /\ faults' = faults + 1
    /\ Outcome("raised")
    /\ UNCHANGED <<deferred, published, indexed>>
    /\ Done

\* All paths are done, and the janitors ran if anything was published.
EndBatch ==
    /\ at = "batch" /\ target = NoPath /\ batch = {}
    /\ published => ~busy
    /\ at' = IF backend = "poll" /\ deferred # {} THEN "retry" ELSE "sleep"
    /\ published' = FALSE
    /\ UNCHANGED <<backend, files, faults, busy, current, batch, deferred, task, indexed, failed>>

\* LockBusy from the janitors' gate is caught nowhere: the loop ends.
JanitorBusy ==
    /\ at = "batch" /\ target = NoPath /\ batch = {}
    /\ published /\ busy
    /\ at' = "dead"
    /\ UNCHANGED <<backend, files, faults, busy, current, batch, deferred, task, published,
                   indexed, failed>>

\* Nor is an error of the janitors themselves.
JanitorRaises ==
    /\ at = "batch" /\ target = NoPath /\ batch = {}
    /\ published /\ faults < MaxFaults
    /\ faults' = faults + 1
    /\ at' = "dead"
    /\ UNCHANGED <<backend, files, busy, current, batch, deferred, task, published, indexed,
                   failed>>

\* The poll loop retries deferred paths for 0.2 s, then sleeps with them.
RetryDeferred ==
    /\ at = "retry"
    /\ batch' = deferred
    /\ deferred' = {}
    /\ at' = "batch"
    /\ UNCHANGED <<backend, files, faults, busy, current, task, published, indexed, failed>>

StopRetrying ==
    /\ at = "retry"
    /\ at' = "sleep"
    /\ UNCHANGED <<backend, files, faults, busy, current, batch, deferred, task, published,
                   indexed, failed>>

Loop ==
    \/ Wake \/ Fold \/ Quiet
    \/ (\E f \in Files : Read(f)) \/ Unchanged \/ Publish \/ Conflict
    \/ Remove \/ RemoveBusy \/ PublishBusy
    \/ EndBatch \/ JanitorBusy \/ RetryDeferred \/ StopRetrying

WatchNext ==
    \/ \E f \in Files : Write(f) \/ Delete(f)
    \/ HoldLong \/ LetGo
    \/ Loop \/ Unreadable \/ Raises \/ JanitorRaises

WatchSpec == WatchInit /\ [][WatchNext]_watchVars

\* The loop runs, and whoever holds the lock lets go of it.
WatchFairness == WF_watchVars(Loop) /\ WF_watchVars(LetGo)
WatchFairSpec == WatchSpec /\ WatchFairness

-----------------------------------------------------------------------------
(* Properties.                                                             *)

InSync(f) == indexed[f] = disk[f]

\* The loop will look at f again.
Remembers(f) == f \in Changed \cup batch \cup deferred \cup {target}

\* The last attempt at f ended in "error" or raised; or the poll loop's last
\* snapshot missed f, and f came, was read and went again before the next one.
GaveUp(f) ==
    \/ failed[f] \in {"unreadable", "busy", "raised"}
    \/ failed[f] = "unseen" /\ disk[f] = Absent

\* While the loop lives, a file that is not indexed as it is on disk is
\* remembered unless it gave the file up: a failed removal, too, is forgotten.
NothingForgotten ==
    at # "dead" => \A f \in Files : InSync(f) \/ Remembers(f) \/ GaveUp(f)

\* The poll loop catches up with the disk once the files rest, apart from the
\* files it gave up and unless it died.
PollingCatchesUp ==
    backend = "poll" => <>[](at = "dead" \/ \A f \in Files : InSync(f) \/ GaveUp(f))

\* "LockBusy paths are DEFERRED, never dropped."
BusyPathsAreDeferred ==
    at # "dead" => \A f \in Files :
        InSync(f) \/ Remembers(f) \/ (GaveUp(f) /\ failed[f] # "busy")

=============================================================================
