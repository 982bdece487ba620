------------------------ MODULE ManagedRuntimeProofs ------------------------
(***************************************************************************)
(* Proofs about ManagedRuntime, for every number of instances, of changes  *)
(* to the config store and of faults: TypeOK, ServedFromCompleteIndex and  *)
(* the refinement of SealedIndex, from one inductive invariant.            *)
(***************************************************************************)
EXTENDS ManagedRuntime, TLAPS

Clean == index = "complete" /\ ~orphan

Vouched == marker # NoMarker /\ marker.project

\* Before prepare() has made the profile nothing native has run.
Unborn ==
    manifest = "none" =>
        /\ index = "none" /\ ~orphan /\ marker = NoMarker
        /\ \A i \in Instances :
              /\ ~owner[i]
              /\ pc[i] \in {"idle", "init", "lock", "status"}
              /\ pc[i] = "lock" => call[i] # "prepare"

\* A healthy profile has no sync under way, no writer left, and what its
\* marker vouches for is whole.
Healthy ==
    manifest = "READY" =>
        /\ ~orphan /\ \A i \in Instances : ~owner[i]
        /\ Vouched => Clean

\* An open sync is one instance's.
OneOwner ==
    manifest = "SYNCING" => \A i, j \in Instances : owner[i] /\ owner[j] => i = j

LockedPoints == {"verdict", "set", "get", "prove", "gate", "begin", "index", "run", "bind",
                 "commit", "complete", "mcp", "cli"}

SyncPoints == {"index", "run", "bind", "commit", "complete"}

\* Where an instance stands tells that it holds the lock, and what call it is in.
Placed ==
    \A i \in Instances :
        /\ pc[i] \in LockedPoints => lock = i
        /\ pc[i] \in {"mcp", "cli"} => call[i] = "query"
        /\ pc[i] \in SyncPoints \cup {"begin"} => call[i] = "sync"
        /\ pc[i] \in {"status", "marker", "config", "gate"} =>
              call[i] = "query" \/ (call[i] = "sync" /\ lock = i)
        /\ pc[i] = "lock" => call[i] \in {"prepare", "query", "sync"}
        /\ pc[i] = "init" => call[i] = "prepare"
        /\ good[i] => pc[i] = "complete"

\* Inside a sync that nobody has sealed: the index is whole from its receipt on.
InSync ==
    \A i \in Instances : pc[i] \in SyncPoints =>
        /\ manifest \in {"SYNCING", "QUARANTINED"}
        /\ manifest = "SYNCING" =>
              /\ owner[i]
              /\ orphan => pc[i] = "complete" /\ ~good[i]
              /\ pc[i] \in {"bind", "commit"} => Clean
              /\ pc[i] = "complete" /\ good[i] => Clean

\* prepare() has the namespace to itself and writes the first marker.
Preparing ==
    \A i \in Instances :
        /\ pc[i] \in {"set", "get", "prove"} => marker = NoMarker
        /\ pc[i] = "prove" => seen[i] \in Markers /\ ~seen[i].project
        /\ pc[i] = "config" => seen[i] \in Markers

\* A query under the lock: what its guard has read is true of the index.
Reading ==
    \A i \in Instances : lock = i /\ call[i] = "query" =>
        /\ pc[i] = "marker" /\ Vouched => Clean
        /\ pc[i] = "config" /\ seen[i].project => Clean
        /\ pc[i] \in {"gate", "mcp", "cli"} => Clean

IInv == /\ TypeOK /\ Unborn /\ Healthy /\ OneOwner /\ Placed /\ InSync /\ Preparing /\ Reading
-----------------------------------------------------------------------------
USE InstancesAssumption, BoundsAssumption, MarkerAssumption

\* Going somewhere, returning, failing and quarantining keep the types.
LEMMA PartsAreTyped ==
    ASSUME TypeOK, NEW i \in Instances
    PROVE  /\ \A where \in Points : GoTo(i, where) => pc' \in [Instances -> Points]
           /\ Return(i) =>
                 /\ pc' \in [Instances -> Points]
                 /\ call' \in [Instances -> {"none", "prepare", "query", "sync"}]
                 /\ seen' \in [Instances -> Markers \cup {NoMarker}]
                 /\ good' \in [Instances -> BOOLEAN]
                 /\ lock' \in Instances \cup {NoOne}
           /\ Fault => faults' \in Nat
           /\ Quarantine(i) =>
                 /\ ns' \in BOOLEAN /\ marker' \in Markers \cup {NoMarker}
                 /\ manifest' \in {"none", "READY", "SYNCING", "QUARANTINED"}
                 /\ owner' \in [Instances -> BOOLEAN]
    <1>1. ASSUME NEW where \in Points, GoTo(i, where) PROVE pc' \in [Instances -> Points]
        BY <1>1 DEF GoTo, TypeOK
    <1>2. ASSUME Return(i)
          PROVE  /\ pc' \in [Instances -> Points]
                 /\ call' \in [Instances -> {"none", "prepare", "query", "sync"}]
                 /\ seen' \in [Instances -> Markers \cup {NoMarker}]
                 /\ good' \in [Instances -> BOOLEAN]
                 /\ lock' \in Instances \cup {NoOne}
        BY <1>2 DEF Return, GoTo, TypeOK, Points
    <1>3. ASSUME Fault PROVE faults' \in Nat
        BY <1>3 DEF Fault, TypeOK
    <1>4. ASSUME Quarantine(i)
          PROVE  /\ ns' \in BOOLEAN /\ marker' \in Markers \cup {NoMarker}
                 /\ manifest' \in {"none", "READY", "SYNCING", "QUARANTINED"}
                 /\ owner' \in [Instances -> BOOLEAN]
        BY <1>4 DEF Quarantine, TypeOK
    <1> QED BY <1>1, <1>2, <1>3, <1>4

\* Every step keeps the types.
LEMMA TypeStep == ASSUME TypeOK, Next PROVE TypeOK'
    <1>1. ASSUME NEW i \in Instances, StartPrepare(i) PROVE TypeOK'
        BY <1>1, PartsAreTyped DEF StartPrepare, TypeOK, profile, native, local, Points, Markers
    <1>2. ASSUME NEW i \in Instances, StartQuery(i) PROVE TypeOK'
        BY <1>2, PartsAreTyped DEF StartQuery, TypeOK, profile, native, local, Points, Markers
    <1>3. ASSUME NEW i \in Instances, StartSync(i) PROVE TypeOK'
        BY <1>3, PartsAreTyped DEF StartSync, TypeOK, profile, native, local, Points, Markers
    <1>4. ASSUME NEW i \in Instances, Initialize(i) PROVE TypeOK'
        <2>1. CASE GoTo(i, "lock")
            <3>1. "lock" \in Points
                BY DEF Points
            <3>2. pc' \in [Instances -> Points]
                BY <2>1, <3>1, PartsAreTyped
            <3> QED BY <1>4, <2>1, <3>2 DEF Initialize, GoTo, Return, TypeOK, profile, native, local
        <2>2. CASE Return(i) /\ UNCHANGED profile
            BY <1>4, <2>2, PartsAreTyped DEF Initialize, TypeOK, profile, native
        <2> QED BY <1>4, <2>1, <2>2 DEF Initialize
    <1>5. ASSUME NEW i \in Instances, Lock(i) PROVE TypeOK'
        BY <1>5, PartsAreTyped DEF Lock, TypeOK, profile, native, local, Points, Markers
    <1>6. ASSUME NEW i \in Instances, Verdict(i) PROVE TypeOK'
        BY <1>6, PartsAreTyped DEF Verdict, TypeOK, profile, native, local, Points, Markers
    <1>7. ASSUME NEW i \in Instances, SetConfig(i) PROVE TypeOK'
        <2>1. [version |-> config.version + 1, off |-> TRUE] \in [version : Nat, off : BOOLEAN]
            BY DEF TypeOK
        <2>3. config' \in [version : Nat, off : BOOLEAN]
            BY <1>7, <2>1 DEF SetConfig, TypeOK
        <2>2. pc' \in [Instances -> Points]
            BY <1>7, PartsAreTyped DEF SetConfig, Points
        <2> QED BY <1>7, <2>3, <2>2 DEF SetConfig, TypeOK, profile, local
    <1>8. ASSUME NEW i \in Instances, GetConfig(i) PROVE TypeOK'
        BY <1>8, PartsAreTyped DEF GetConfig, TypeOK, profile, native, local, Points, Markers
    <1>9. ASSUME NEW i \in Instances, PrepareFails(i) PROVE TypeOK'
        BY <1>9, PartsAreTyped DEF PrepareFails, TypeOK, profile, native, local, Points, Markers
    <1>10. ASSUME NEW i \in Instances, WriteMarker(i) PROVE TypeOK'
        BY <1>10, PartsAreTyped DEF WriteMarker, TypeOK, profile, native, local, Points, Markers
    <1>11. ASSUME NEW i \in Instances, GuardStatus(i) PROVE TypeOK'
        BY <1>11, PartsAreTyped DEF GuardStatus, TypeOK, profile, native, local, Points, Markers
    <1>12. ASSUME NEW i \in Instances, GuardMarker(i) PROVE TypeOK'
        BY <1>12, PartsAreTyped DEF GuardMarker, TypeOK, profile, native, local, Points, Markers
    <1>13. ASSUME NEW i \in Instances, GuardConfig(i) PROVE TypeOK'
        BY <1>13, PartsAreTyped DEF GuardConfig, TypeOK, profile, native, local, Points, Markers
    <1>14. ASSUME NEW i \in Instances, Gate(i) PROVE TypeOK'
        BY <1>14, PartsAreTyped DEF Gate, TypeOK, profile, native, local, Points, Markers
    <1>15. ASSUME NEW i \in Instances, McpAnswers(i) PROVE TypeOK'
        BY <1>15, PartsAreTyped DEF McpAnswers, TypeOK, profile, native, local, Points, Markers
    <1>16. ASSUME NEW i \in Instances, McpFails(i) PROVE TypeOK'
        BY <1>16, PartsAreTyped DEF McpFails, TypeOK, profile, native, local, Points, Markers
    <1>17. ASSUME NEW i \in Instances, CliAnswers(i) PROVE TypeOK'
        BY <1>17, PartsAreTyped DEF CliAnswers, TypeOK, profile, native, local, Points, Markers
    <1>18. ASSUME NEW i \in Instances, CliTimesOut(i) PROVE TypeOK'
        BY <1>18, PartsAreTyped DEF CliTimesOut, TypeOK, profile, native, local, Points, Markers
    <1>19. ASSUME NEW i \in Instances, BeginSync(i) PROVE TypeOK'
        <2>1. manifest' \in {"none", "READY", "SYNCING", "QUARANTINED"} /\ owner' \in [Instances
            -> BOOLEAN]
            BY <1>19 DEF BeginSync, TypeOK
        <2> QED BY <1>19, <2>1, PartsAreTyped DEF BeginSync, TypeOK, native, local, Points
    <1>20. ASSUME NEW i \in Instances, Index(i) PROVE TypeOK'
        BY <1>20, PartsAreTyped DEF Index, TypeOK, profile, native, local, Points, Markers
    <1>21. ASSUME NEW i \in Instances, IndexRefused(i) PROVE TypeOK'
        BY <1>21, PartsAreTyped DEF IndexRefused, TypeOK, profile, native, local, Points, Markers
    <1>22. ASSUME NEW i \in Instances, Indexed(i) PROVE TypeOK'
        BY <1>22, PartsAreTyped DEF Indexed, TypeOK, profile, native, local, Points, Markers
    <1>23. ASSUME NEW i \in Instances, IndexFails(i) PROVE TypeOK'
        <2>1. orphan' \in BOOLEAN
            BY <1>23 DEF IndexFails, TypeOK
        <2> QED BY <1>23, <2>1, PartsAreTyped DEF IndexFails, TypeOK, profile, local, Points
    <1>24. ASSUME NEW i \in Instances, Bind(i) PROVE TypeOK'
        BY <1>24, PartsAreTyped DEF Bind, TypeOK, profile, native, local, Points, Markers
    <1>25. ASSUME NEW i \in Instances, BindFails(i) PROVE TypeOK'
        BY <1>25, PartsAreTyped DEF BindFails, TypeOK, profile, native, local, Points, Markers
    <1>26. ASSUME NEW i \in Instances, BindRaises(i) PROVE TypeOK'
        BY <1>26, PartsAreTyped DEF BindRaises, TypeOK, profile, native, local, Points, Markers
    <1>27. ASSUME NEW i \in Instances, CommitBinding(i) PROVE TypeOK'
        BY <1>27, PartsAreTyped DEF CommitBinding, TypeOK, profile, native, local, Points, Markers
    <1>28. ASSUME NEW i \in Instances, CommitFails(i) PROVE TypeOK'
        BY <1>28, PartsAreTyped DEF CommitFails, TypeOK, profile, native, local, Points, Markers
    <1>29. ASSUME NEW i \in Instances, CompleteSync(i) PROVE TypeOK'
        BY <1>29, PartsAreTyped DEF CompleteSync, TypeOK, profile, native, local, Points, Markers
    <1>30. ASSUME NEW i \in Instances, Crash(i) PROVE TypeOK'
        <2>1. ns' \in BOOLEAN /\ orphan' \in BOOLEAN /\ owner' \in [Instances -> BOOLEAN]
            BY <1>30 DEF Crash, TypeOK
        <2> QED BY <1>30, <2>1, PartsAreTyped DEF Crash, TypeOK
    <1>31. CASE OrphanWrites
        BY <1>31 DEF OrphanWrites, TypeOK, profile, native, local, Fault
    <1>32. CASE ConfigChanges
        BY <1>32 DEF ConfigChanges, TypeOK, profile, native, local, Fault
    <1>33. CASE Tamper
        BY <1>33 DEF Tamper, TypeOK, profile, native, local, Fault
    <1> QED BY <1>1, <1>2, <1>3, <1>4, <1>5, <1>6, <1>7, <1>8, <1>9, <1>10, <1>11, <1>12, <1>13,
        <1>14, <1>15, <1>16, <1>17, <1>18, <1>19, <1>20, <1>21, <1>22, <1>23, <1>24, <1>25,
            <1>26, <1>27, <1>28, <1>29, <1>30, <1>31, <1>32, <1>33 DEF Next

-----------------------------------------------------------------------------
\* Leaving is harmless: the one who returns takes its claims with it, also when
\* it lets the sync it opened stand.
LEMMA Leaving ==
    ASSUME IInv, TypeOK', NEW i \in Instances, Return(i),
           UNCHANGED <<manifest, marker, index, orphan, owner>>
    PROVE  IInv'
    BY DEF GoTo, Return, TypeOK, IInv, Unborn, Healthy, OneOwner, LockedPoints, SyncPoints,
        Placed, InSync, Preparing, Reading, Vouched, Clean

\* So is sealing the profile on the way out.
LEMMA Sealing ==
    ASSUME IInv, TypeOK', NEW i \in Instances, Quarantine(i), Return(i),
           UNCHANGED <<index, orphan>>
    PROVE  IInv'
    <1>1. CASE manifest = "none"
        BY <1>1, Leaving DEF Quarantine, IInv, TypeOK
    <1>2. CASE manifest # "none"
        BY <1>2 DEF GoTo, Return, Quarantine, TypeOK, IInv, Unborn, Healthy, OneOwner,
            LockedPoints, SyncPoints, Placed, InSync, Preparing, Reading, Vouched, Clean
    <1> QED BY <1>1, <1>2

LEMMA InductiveStep == ASSUME IInv, TypeOK', Next PROVE IInv'
    <1>1. ASSUME NEW i \in Instances, StartPrepare(i) PROVE IInv'
        BY <1>1 DEF StartPrepare, GoTo, Return, Quarantine, Derived, profile, native, local,
            TypeOK, IInv, Unborn, Healthy, OneOwner, LockedPoints, SyncPoints, Placed, InSync,
            Preparing, Reading, Vouched, Clean
    <1>2. ASSUME NEW i \in Instances, StartQuery(i) PROVE IInv'
        BY <1>2 DEF StartQuery, GoTo, Return, Quarantine, Derived, profile, native, local,
            TypeOK, IInv, Unborn, Healthy, OneOwner, LockedPoints, SyncPoints, Placed, InSync,
            Preparing, Reading, Vouched, Clean
    <1>3. ASSUME NEW i \in Instances, StartSync(i) PROVE IInv'
        BY <1>3 DEF StartSync, GoTo, Return, Quarantine, Derived, profile, native, local,
            TypeOK, IInv, Unborn, Healthy, OneOwner, LockedPoints, SyncPoints, Placed, InSync,
            Preparing, Reading, Vouched, Clean
    <1>4. ASSUME NEW i \in Instances, Initialize(i) PROVE IInv'
        <2>1. CASE Return(i) /\ UNCHANGED profile
            BY <1>4, <2>1, Leaving DEF Initialize, profile, native
        <2>2. CASE /\ manifest = "none" /\ manifest' = "READY"
                   /\ GoTo(i, "lock") /\ UNCHANGED <<marker, lock, local>>
            BY <1>4, <2>2 DEF Initialize, GoTo, native, local, TypeOK, IInv, Unborn, Healthy,
                OneOwner, LockedPoints, SyncPoints, Placed, InSync, Preparing, Reading, Vouched,
                Clean
        <2>3. CASE Launchable(i) /\ GoTo(i, "lock") /\ UNCHANGED <<profile, lock, local>>
            <3>1. manifest # "none"
                BY <2>3 DEF Launchable, Derived
            <3> QED BY <1>4, <2>3, <3>1 DEF Initialize, GoTo, profile, native, local, TypeOK,
                IInv, Unborn, Healthy, OneOwner, LockedPoints, SyncPoints, Placed, InSync,
                Preparing, Reading, Vouched, Clean
        <2> QED BY <1>4, <2>1, <2>2, <2>3 DEF Initialize
    <1>5. ASSUME NEW i \in Instances, Lock(i) PROVE IInv'
        BY <1>5 DEF Lock, GoTo, Return, Quarantine, Derived, profile, native, local, TypeOK,
            IInv, Unborn, Healthy, OneOwner, LockedPoints, SyncPoints, Placed, InSync,
            Preparing, Reading, Vouched, Clean
    <1>6. ASSUME NEW i \in Instances, Verdict(i) PROVE IInv'
        BY <1>6 DEF Verdict, GoTo, Return, Quarantine, Derived, profile, native, local, TypeOK,
            IInv, Unborn, Healthy, OneOwner, LockedPoints, SyncPoints, Placed, InSync,
            Preparing, Reading, Vouched, Clean
    <1>7. ASSUME NEW i \in Instances, SetConfig(i) PROVE IInv'
        BY <1>7 DEF SetConfig, GoTo, Return, Quarantine, Derived, profile, native, local,
            TypeOK, IInv, Unborn, Healthy, OneOwner, LockedPoints, SyncPoints, Placed, InSync,
            Preparing, Reading, Vouched, Clean
    <1>8. ASSUME NEW i \in Instances, GetConfig(i) PROVE IInv'
        <2>1. seen'[i] = [fp |-> config.version, project |-> FALSE] /\ seen'[i] \in Markers
            BY <1>8 DEF GetConfig, IInv, TypeOK, Markers
        <2>2. \A j \in Instances : j # i => pc'[j] = pc[j] /\ seen'[j] = seen[j]
            BY <1>8 DEF GetConfig, GoTo, IInv, TypeOK
        <2>3. Preparing'
            BY <1>8, <2>1, <2>2 DEF GetConfig, GoTo, profile, native, TypeOK, IInv, Preparing
        <2>4. Reading'
            BY <1>8, <2>2 DEF GetConfig, GoTo, profile, native, TypeOK, IInv, Reading, Vouched,
                Clean
        <2>5. pc' = [pc EXCEPT ![i] = "prove"] /\ pc[i] = "get" /\ manifest # "none"
            BY <1>8 DEF GetConfig, GoTo, Launchable, Derived
        <2>6. Unborn' /\ Healthy' /\ OneOwner'
            BY <1>8, <2>5 DEF GetConfig, profile, native, TypeOK, IInv, Unborn, Healthy,
                OneOwner, Vouched, Clean
        <2>7. Placed'
            BY <1>8, <2>5 DEF GetConfig, profile, native, TypeOK, IInv, LockedPoints, SyncPoints,
                Placed
        <2>8. InSync'
            BY <1>8, <2>5 DEF GetConfig, profile, native, TypeOK, IInv, SyncPoints, InSync, Clean
        <2> QED BY <2>3, <2>4, <2>6, <2>7, <2>8 DEF IInv
    <1>9. ASSUME NEW i \in Instances, PrepareFails(i) PROVE IInv'
        BY <1>9, Sealing DEF PrepareFails, native
    <1>10. ASSUME NEW i \in Instances, WriteMarker(i) PROVE IInv'
        BY <1>10 DEF WriteMarker, GoTo, Return, Quarantine, Derived, profile, native, local,
            TypeOK, IInv, Unborn, Healthy, OneOwner, LockedPoints, SyncPoints, Placed, InSync,
            Preparing, Reading, Vouched, Clean
    <1>11. ASSUME NEW i \in Instances, GuardStatus(i) PROVE IInv'
        <2>1. CASE Quarantine(i) /\ Return(i)
            BY <1>11, <2>1, Sealing DEF GuardStatus, native
        <2>2. CASE Return(i) /\ UNCHANGED <<profile, owner>>
            BY <1>11, <2>2, Leaving DEF GuardStatus, native, profile
        <2>3. CASE Derived(i) = "READY" /\ GoTo(i, "marker") /\ UNCHANGED <<profile, owner,
            lock, local>>
            <3>1. manifest = "READY"
                BY <2>3 DEF Derived
            <3> QED BY <1>11, <2>3, <3>1 DEF GuardStatus, GoTo, profile, native, local, TypeOK,
                IInv, Unborn, Healthy, OneOwner, LockedPoints, SyncPoints, Placed, InSync,
                Preparing, Reading, Vouched, Clean
        <2> QED BY <1>11, <2>1, <2>2, <2>3 DEF GuardStatus
    <1>12. ASSUME NEW i \in Instances, GuardMarker(i) PROVE IInv'
        BY <1>12 DEF GuardMarker, GoTo, Return, Quarantine, Derived, profile, native, local,
            TypeOK, IInv, Unborn, Healthy, OneOwner, LockedPoints, SyncPoints, Placed, InSync,
            Preparing, Reading, Vouched, Clean
    <1>13. ASSUME NEW i \in Instances, GuardConfig(i) PROVE IInv'
        <2>1. CASE Quarantine(i) /\ Return(i)
            BY <1>13, <2>1, Sealing DEF GuardConfig, native
        <2>2. CASE Return(i) /\ UNCHANGED <<profile, owner>>
            BY <1>13, <2>2, Leaving DEF GuardConfig, native, profile
        <2>3. CASE /\ call[i] = "query" => seen[i].project
                   /\ GoTo(i, IF lock = i THEN "gate" ELSE "lock")
                   /\ UNCHANGED <<profile, owner, lock, local>>
            BY <1>13, <2>3 DEF GuardConfig, GoTo, profile, native, local, TypeOK, IInv, Unborn,
                Healthy, OneOwner, LockedPoints, SyncPoints, Placed, InSync, Preparing, Reading,
                Vouched, Clean
        <2> QED BY <1>13, <2>1, <2>2, <2>3 DEF GuardConfig
    <1>14. ASSUME NEW i \in Instances, Gate(i) PROVE IInv'
        <2>1. CASE Return(i)
            BY <1>14, <2>1, Leaving DEF Gate, profile, native
        <2>2. CASE GoTo(i, IF call[i] = "sync" THEN "begin" ELSE "mcp") /\ UNCHANGED <<lock, local>>
            BY <1>14, <2>2 DEF Gate, GoTo, profile, native, local, TypeOK, IInv, Unborn,
                Healthy, OneOwner, LockedPoints, SyncPoints, Placed, InSync, Preparing, Reading,
                Vouched, Clean
        <2>3. CASE call[i] = "query" /\ GoTo(i, "cli") /\ UNCHANGED <<lock, local>>
            BY <1>14, <2>3 DEF Gate, GoTo, profile, native, local, TypeOK, IInv, Unborn,
                Healthy, OneOwner, LockedPoints, SyncPoints, Placed, InSync, Preparing, Reading,
                Vouched, Clean
        <2> QED BY <1>14, <2>1, <2>2, <2>3 DEF Gate
    <1>15. ASSUME NEW i \in Instances, McpAnswers(i) PROVE IInv'
        BY <1>15, Leaving DEF McpAnswers, profile, native
    <1>16. ASSUME NEW i \in Instances, McpFails(i) PROVE IInv'
        <2>1. CASE Return(i)
            BY <1>16, <2>1, Leaving DEF McpFails, profile, native
        <2>2. CASE GoTo(i, "cli") /\ UNCHANGED <<lock, local>>
            BY <1>16, <2>2 DEF McpFails, GoTo, Return, Quarantine, Derived, profile, native,
                local, TypeOK, IInv, Unborn, Healthy, OneOwner, LockedPoints, SyncPoints,
                    Placed, InSync, Preparing, Reading, Vouched, Clean
        <2> QED BY <1>16, <2>1, <2>2 DEF McpFails
    <1>17. ASSUME NEW i \in Instances, CliAnswers(i) PROVE IInv'
        BY <1>17, Leaving DEF CliAnswers, profile, native
    <1>18. ASSUME NEW i \in Instances, CliTimesOut(i) PROVE IInv'
        BY <1>18, Sealing DEF CliTimesOut, native
    <1>19. ASSUME NEW i \in Instances, BeginSync(i) PROVE IInv'
        BY <1>19 DEF BeginSync, GoTo, Return, Quarantine, Derived, profile, native, local,
            TypeOK, IInv, Unborn, Healthy, OneOwner, LockedPoints, SyncPoints, Placed, InSync,
            Preparing, Reading, Vouched, Clean
    <1>20. ASSUME NEW i \in Instances, Index(i) PROVE IInv'
        BY <1>20 DEF Index, GoTo, Return, Quarantine, Derived, profile, native, local, TypeOK,
            IInv, Unborn, Healthy, OneOwner, LockedPoints, SyncPoints, Placed, InSync,
            Preparing, Reading, Vouched, Clean
    <1>21. ASSUME NEW i \in Instances, IndexRefused(i) PROVE IInv'
        BY <1>21 DEF IndexRefused, GoTo, Return, Quarantine, Derived, profile, native, local,
            TypeOK, IInv, Unborn, Healthy, OneOwner, LockedPoints, SyncPoints, Placed, InSync,
            Preparing, Reading, Vouched, Clean
    <1>22. ASSUME NEW i \in Instances, Indexed(i) PROVE IInv'
        BY <1>22 DEF Indexed, GoTo, Return, Quarantine, Derived, profile, native, local, TypeOK,
            IInv, Unborn, Healthy, OneOwner, LockedPoints, SyncPoints, Placed, InSync,
            Preparing, Reading, Vouched, Clean
    <1>23. ASSUME NEW i \in Instances, IndexFails(i) PROVE IInv'
        BY <1>23 DEF IndexFails, GoTo, Return, Quarantine, Derived, profile, native, local,
            TypeOK, IInv, Unborn, Healthy, OneOwner, LockedPoints, SyncPoints, Placed, InSync,
            Preparing, Reading, Vouched, Clean
    <1>24. ASSUME NEW i \in Instances, Bind(i) PROVE IInv'
        BY <1>24 DEF Bind, GoTo, Return, Quarantine, Derived, profile, native, local, TypeOK,
            IInv, Unborn, Healthy, OneOwner, LockedPoints, SyncPoints, Placed, InSync,
            Preparing, Reading, Vouched, Clean
    <1>25. ASSUME NEW i \in Instances, BindFails(i) PROVE IInv'
        BY <1>25 DEF BindFails, GoTo, Return, Quarantine, Derived, profile, native, local,
            TypeOK, IInv, Unborn, Healthy, OneOwner, LockedPoints, SyncPoints, Placed, InSync,
            Preparing, Reading, Vouched, Clean
    <1>26. ASSUME NEW i \in Instances, BindRaises(i) PROVE IInv'
        BY <1>26, Leaving DEF BindRaises, profile, native
    <1>27. ASSUME NEW i \in Instances, CommitBinding(i) PROVE IInv'
        BY <1>27 DEF CommitBinding, GoTo, Return, Quarantine, Derived, profile, native, local,
            TypeOK, IInv, Unborn, Healthy, OneOwner, LockedPoints, SyncPoints, Placed, InSync,
            Preparing, Reading, Vouched, Clean
    <1>28. ASSUME NEW i \in Instances, CommitFails(i) PROVE IInv'
        BY <1>28 DEF CommitFails, GoTo, Return, Quarantine, Derived, profile, native, local,
            TypeOK, IInv, Unborn, Healthy, OneOwner, LockedPoints, SyncPoints, Placed, InSync,
            Preparing, Reading, Vouched, Clean
    <1>29. ASSUME NEW i \in Instances, CompleteSync(i) PROVE IInv'
        <2>1. CASE ~(manifest = "SYNCING" /\ owner[i])
            BY <1>29, <2>1, Sealing DEF CompleteSync, native
        <2>2. CASE manifest = "SYNCING" /\ owner[i]
            <3>1. good[i] => Clean
                BY <1>29, <2>2 DEF CompleteSync, IInv, InSync, SyncPoints
            <3>2. manifest' = "READY" => Clean
                BY <1>29, <2>2, <3>1 DEF CompleteSync
            <3> QED BY <1>29, <2>2, <3>2 DEF CompleteSync, GoTo, Return, native, TypeOK, IInv,
                Unborn, Healthy, OneOwner, LockedPoints, SyncPoints, Placed, InSync, Preparing,
                Reading, Vouched, Clean
        <2> QED BY <2>1, <2>2
    <1>30. ASSUME NEW i \in Instances, Crash(i) PROVE IInv'
        BY <1>30 DEF Crash, GoTo, Return, Quarantine, Derived, profile, native, local, TypeOK,
            IInv, Unborn, Healthy, OneOwner, LockedPoints, SyncPoints, Placed, InSync,
            Preparing, Reading, Vouched, Clean
    <1>31. CASE OrphanWrites
        BY <1>31 DEF OrphanWrites, GoTo, Return, Quarantine, Derived, profile, native, local,
            TypeOK, IInv, Unborn, Healthy, OneOwner, LockedPoints, SyncPoints, Placed, InSync,
            Preparing, Reading, Vouched, Clean
    <1>32. CASE ConfigChanges
        BY <1>32 DEF ConfigChanges, GoTo, Return, Quarantine, Derived, profile, native, local,
            TypeOK, IInv, Unborn, Healthy, OneOwner, LockedPoints, SyncPoints, Placed, InSync,
            Preparing, Reading, Vouched, Clean
    <1>33. CASE Tamper
        BY <1>33 DEF Tamper, GoTo, Return, Quarantine, Derived, profile, native, local, TypeOK,
            IInv, Unborn, Healthy, OneOwner, LockedPoints, SyncPoints, Placed, InSync,
            Preparing, Reading, Vouched, Clean
    <1> QED BY <1>1, <1>2, <1>3, <1>4, <1>5, <1>6, <1>7, <1>8, <1>9, <1>10, <1>11, <1>12, <1>13,
        <1>14, <1>15, <1>16, <1>17, <1>18, <1>19, <1>20, <1>21, <1>22, <1>23, <1>24, <1>25,
            <1>26, <1>27, <1>28, <1>29, <1>30, <1>31, <1>32, <1>33 DEF Next

\* The invariant holds throughout.
LEMMA Invariance == Spec => []IInv
    <1>1. Init => IInv
        <2> SUFFICES ASSUME Init PROVE IInv
            OBVIOUS
        <2>1. config \in [version : Nat, off : BOOLEAN]
            BY DEF Init
        <2>2. TypeOK
            BY <2>1 DEF Init, TypeOK, Points
        <2> QED BY <2>2 DEF Init, TypeOK, Points, IInv, Unborn, Healthy, OneOwner, LockedPoints,
            SyncPoints, Placed, InSync, Preparing, Reading, Vouched, Clean
    <1>2. IInv /\ [Next]_vars => IInv'
        <2> SUFFICES ASSUME IInv, [Next]_vars PROVE IInv'
            OBVIOUS
        <2>1. CASE Next
            BY <2>1, TypeStep, InductiveStep DEF IInv
        <2>2. CASE UNCHANGED vars
            BY <2>2 DEF vars, profile, native, local, TypeOK, IInv, Unborn, Healthy, OneOwner,
                LockedPoints, SyncPoints, Placed, InSync, Preparing, Reading, Vouched, Clean
        <2> QED BY <2>1, <2>2
    <1> QED BY <1>1, <1>2, PTL DEF Spec

-----------------------------------------------------------------------------
(* What the runs check, for every value of the constants. *)

\* Types: prepare, query, sync and quarantine never write an unknown state.
THEOREM TypeCorrect == Spec => []TypeOK
    <1>1. IInv => TypeOK
        BY DEF IInv
    <1> QED BY <1>1, Invariance, PTL

\* A query is dispatched only to an index a whole sync has built and no
\* left-over writer can touch.
THEOREM QueriesSeeCompleteIndex == Spec => []ServedFromCompleteIndex
    <1>1. IInv => ServedFromCompleteIndex
        BY DEF ServedFromCompleteIndex, Serving, IInv, Unborn, Healthy, OneOwner, LockedPoints,
            SyncPoints, Placed, InSync, Preparing, Reading, Vouched, Clean
    <1> QED BY <1>1, Invariance, PTL

-----------------------------------------------------------------------------
(* The refinement. *)

\* The steps that SealedIndex does not see.
LEMMA Hidden ==
    ASSUME NEW i \in Instances,
           \/ StartPrepare(i) \/ StartQuery(i) \/ StartSync(i) \/ Lock(i) \/ Verdict(i)
           \/ SetConfig(i) \/ GetConfig(i) \/ GuardMarker(i) \/ Gate(i) \/ McpAnswers(i)
           \/ McpFails(i) \/ CliAnswers(i) \/ IndexRefused(i) \/ IndexFails(i) \/ Bind(i)
           \/ BindFails(i) \/ BindRaises(i) \/ CommitFails(i) \/ Crash(i)
    PROVE  UNCHANGED <<manifest, index, marker>>
    <1>1. CASE StartPrepare(i)
        BY <1>1 DEF StartPrepare, profile, native
    <1>2. CASE StartQuery(i)
        BY <1>2 DEF StartQuery, profile, native
    <1>3. CASE StartSync(i)
        BY <1>3 DEF StartSync, profile, native
    <1>4. CASE Lock(i)
        BY <1>4 DEF Lock, profile, native
    <1>5. CASE Verdict(i)
        BY <1>5 DEF Verdict, profile, native
    <1>6. CASE SetConfig(i)
        BY <1>6 DEF SetConfig, profile, native
    <1>7. CASE GetConfig(i)
        BY <1>7 DEF GetConfig, profile, native
    <1>8. CASE GuardMarker(i)
        BY <1>8 DEF GuardMarker, profile, native
    <1>9. CASE Gate(i)
        BY <1>9 DEF Gate, profile, native
    <1>10. CASE McpAnswers(i)
        BY <1>10 DEF McpAnswers, profile, native
    <1>11. CASE McpFails(i)
        BY <1>11 DEF McpFails, profile, native
    <1>12. CASE CliAnswers(i)
        BY <1>12 DEF CliAnswers, profile, native
    <1>13. CASE IndexRefused(i)
        BY <1>13 DEF IndexRefused, profile, native
    <1>14. CASE IndexFails(i)
        BY <1>14 DEF IndexFails, profile, native
    <1>15. CASE Bind(i)
        BY <1>15 DEF Bind, profile, native
    <1>16. CASE BindFails(i)
        BY <1>16 DEF BindFails, profile, native
    <1>17. CASE BindRaises(i)
        BY <1>17 DEF BindRaises, profile, native
    <1>18. CASE CommitFails(i)
        BY <1>18 DEF CommitFails, profile, native
    <1>19. CASE Crash(i)
        BY <1>19 DEF Crash, profile, native
    <1> QED BY <1>1, <1>2, <1>3, <1>4, <1>5, <1>6, <1>7, <1>8, <1>9, <1>10, <1>11, <1>12, <1>13,
        <1>14, <1>15, <1>16, <1>17, <1>18, <1>19

\* Every step maps to a step of SealedIndex or to a stutter.
LEMMA StepRefines ==
    ASSUME IInv, Next
    PROVE  [Sealed!Next]_(Sealed!vars)
    <1>1. ASSUME UNCHANGED <<manifest, index, marker>> PROVE [Sealed!Next]_(Sealed!vars)
        BY <1>1 DEF Sealed!vars
    <1>2. ASSUME NEW i \in Instances, Quarantine(i), UNCHANGED index
          PROVE  [Sealed!Next]_(Sealed!vars)
        BY <1>2 DEF Quarantine, Sealed!Next, Sealed!Seal, Sealed!vars
    <1>3. ASSUME NEW i \in Instances, Initialize(i) PROVE [Sealed!Next]_(Sealed!vars)
        BY <1>1, <1>3 DEF Initialize, profile, native, Derived, Launchable, Sealed!Next,
                Sealed!Create, Sealed!vars
    <1>4. ASSUME NEW i \in Instances, PrepareFails(i) PROVE [Sealed!Next]_(Sealed!vars)
        BY <1>2, <1>4 DEF PrepareFails, native
    <1>5. ASSUME NEW i \in Instances, WriteMarker(i) PROVE [Sealed!Next]_(Sealed!vars)
        BY <1>5 DEF WriteMarker, native, IInv, TypeOK, Preparing, Sealed!vars
    <1>6. ASSUME NEW i \in Instances, GuardStatus(i) PROVE [Sealed!Next]_(Sealed!vars)
        BY <1>1, <1>2, <1>6 DEF GuardStatus, profile, native
    <1>7. ASSUME NEW i \in Instances, GuardConfig(i) PROVE [Sealed!Next]_(Sealed!vars)
        BY <1>1, <1>2, <1>7 DEF GuardConfig, profile, native
    <1>8. ASSUME NEW i \in Instances, CliTimesOut(i) PROVE [Sealed!Next]_(Sealed!vars)
        BY <1>2, <1>8 DEF CliTimesOut, native
    <1>9. ASSUME NEW i \in Instances, BeginSync(i) PROVE [Sealed!Next]_(Sealed!vars)
        BY <1>1, <1>9 DEF BeginSync, native, Derived, Sealed!Next, Sealed!Open, Sealed!Seal,
                Sealed!vars
    <1>10. ASSUME NEW i \in Instances, Index(i) PROVE [Sealed!Next]_(Sealed!vars)
        BY <1>10 DEF Index, profile, IInv, InSync, SyncPoints, Sealed!Next, Sealed!Work, Sealed!vars
    <1>11. ASSUME NEW i \in Instances, Indexed(i) PROVE [Sealed!Next]_(Sealed!vars)
        BY <1>11 DEF Indexed, profile, IInv, InSync, SyncPoints, Sealed!Next, Sealed!Work,
                Sealed!vars
    <1>12. ASSUME NEW i \in Instances, CommitBinding(i) PROVE [Sealed!Next]_(Sealed!vars)
        <2>1. [fp |-> config.version, project |-> TRUE] \in Markers
            BY DEF IInv, TypeOK, Markers
        <2>2. marker' # NoMarker /\ marker'.project
            BY <1>12, <2>1 DEF CommitBinding
        <2>3. manifest \in {"SYNCING", "QUARANTINED"} /\ (manifest = "SYNCING" => index = "complete")
            BY <1>12 DEF CommitBinding, IInv, InSync, SyncPoints, Clean
        <2> QED BY <1>12, <2>2, <2>3 DEF CommitBinding, native, Sealed!Next, Sealed!Vouch, Sealed!vars
    <1>13. ASSUME NEW i \in Instances, CompleteSync(i) PROVE [Sealed!Next]_(Sealed!vars)
        BY <1>2, <1>13 DEF CompleteSync, native, IInv, InSync, SyncPoints, Clean, Sealed!Next,
                Sealed!Close, Sealed!Seal, Sealed!vars
    <1>14. CASE OrphanWrites
        BY <1>14 DEF OrphanWrites, profile, TypeOK, IInv, Unborn, Healthy, Sealed!Next,
            Sealed!Create, Sealed!Open, Sealed!Work, Sealed!Vouch, Sealed!Close, Sealed!Seal,
            Sealed!vars
    <1>15. CASE ConfigChanges \/ Tamper
        BY <1>1, <1>15 DEF ConfigChanges, Tamper, profile, native
    <1> QED BY <1>1, Hidden, <1>3, <1>4, <1>5, <1>6, <1>7, <1>8, <1>9, <1>10, <1>11, <1>12,
        <1>13, <1>14, <1>15 DEF Next

\* The managed profile implements SealedIndex: content changes only inside a
\* declared sync or behind a seal, and nothing opens a sealed profile again.
THEOREM Refinement == Spec => ImplementsSealedIndex
    <1>1. Init => Sealed!Init
        BY DEF Init, Sealed!Init
    <1>2. IInv /\ [Next]_vars => [Sealed!Next]_(Sealed!vars)
        <2>1. CASE Next
            BY <2>1, StepRefines
        <2>2. CASE UNCHANGED vars
            BY <2>2 DEF vars, profile, native, Sealed!vars
        <2> QED BY <2>1, <2>2
    <1> QED BY <1>1, <1>2, Invariance, PTL DEF Spec, Sealed!Spec, ImplementsSealedIndex

=============================================================================
