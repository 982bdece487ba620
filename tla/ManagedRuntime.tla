--------------------------- MODULE ManagedRuntime ---------------------------
(***************************************************************************)
(* One managed engine profile: src/sot_graph/providers/runtime.py (the     *)
(* ownership manifest of a private namespace) and                          *)
(* src/sot_graph/providers/managed.py (prepare, sync and query over it).   *)
(* Several instances, each in a process of its own, work on one namespace; *)
(* native processes time out, die and leave writers behind.                *)
(***************************************************************************)
EXTENDS Naturals

CONSTANTS
    Instances,   \* ManagedNativeRuntime objects of one namespace
    NoOne,       \* nobody holds the execution lock
    NoMarker,    \* managed-ready.json does not exist
    MaxChanges,  \* bound: versions of the engine's config store
    MaxFaults    \* bound: timeouts, crashes, tampering, failed writes

ASSUME InstancesAssumption == NoOne \notin Instances
ASSUME BoundsAssumption == MaxChanges \in Nat /\ MaxFaults \in Nat

Markers == [fp : Nat, project : BOOLEAN]

ASSUME MarkerAssumption == NoMarker \notin Markers

VARIABLES
    ns,        \* the namespace directory exists
    manifest,  \* "none", or the state the ownership manifest records
    marker,    \* managed-ready.json: the config fingerprint and whether a project is bound
    config,    \* the engine's config store: its version and whether auto_watch is off
    tampered,  \* the profile's directories or its UI seed are not as created
    index,     \* the engine's index of the repository: "none", "partial", "complete"
    orphan,    \* an index dispatch ended without a terminal receipt: a writer may live on
    lock,      \* execution.lock
    call,      \* call[i]: the public operation i is in
    pc,        \* pc[i]: where in it
    owner,     \* owner[i]: the profile object's _syncing
    seen,      \* seen[i]: the marker i's guard read
    good,      \* good[i]: the sync is still on its way to success
    faults

profile == <<ns, manifest, marker>>
native  == <<config, index, orphan>>
local   == <<call, seen, good>>
vars == <<profile, native, tampered, lock, local, pc, owner, faults>>

Points == {"idle", "init", "lock", "status", "marker", "config", "gate", "verdict", "set", "get",
           "prove", "begin", "index", "run", "bind", "commit", "complete", "mcp", "cli"}

\* The type invariant of the module.
TypeOK ==
    /\ ns \in BOOLEAN /\ tampered \in BOOLEAN /\ orphan \in BOOLEAN
    /\ manifest \in {"none", "READY", "SYNCING", "QUARANTINED"}
    /\ marker \in Markers \cup {NoMarker}
    /\ config \in [version : Nat, off : BOOLEAN]
    /\ index \in {"none", "partial", "complete"}
    /\ lock \in Instances \cup {NoOne}
    /\ call \in [Instances -> {"none", "prepare", "query", "sync"}]
    /\ pc \in [Instances -> Points]
    /\ owner \in [Instances -> BOOLEAN]
    /\ seen \in [Instances -> Markers \cup {NoMarker}]
    /\ good \in [Instances -> BOOLEAN]
    /\ faults \in Nat

Init ==
    /\ ns = FALSE /\ manifest = "none" /\ marker = NoMarker
    /\ config = [version |-> 0, off |-> FALSE]
    /\ tampered = FALSE /\ index = "none" /\ orphan = FALSE
    /\ lock = NoOne
    /\ call = [i \in Instances |-> "none"] /\ pc = [i \in Instances |-> "idle"]
    /\ owner = [i \in Instances |-> FALSE]
    /\ seen = [i \in Instances |-> NoMarker] /\ good = [i \in Instances |-> FALSE]
    /\ faults = 0

-----------------------------------------------------------------------------
(* Parts of steps *)

GoTo(i, where) == pc' = [pc EXCEPT ![i] = where]

Fault == faults < MaxFaults /\ faults' = faults + 1

\* The operation returns; `with self._locked()` lets go of what it holds.
Return(i) ==
    /\ GoTo(i, "idle")
    /\ call' = [call EXCEPT ![i] = "none"]
    /\ seen' = [seen EXCEPT ![i] = NoMarker]
    /\ good' = [good EXCEPT ![i] = FALSE]
    /\ lock' = IF lock = i THEN NoOne ELSE lock

\* profile.quarantine: refused only without a manifest. Nothing leads back.
Quarantine(i) ==
    /\ manifest' = IF manifest = "none" THEN "none" ELSE "QUARANTINED"
    /\ owner' = [owner EXCEPT ![i] = IF manifest = "none" THEN owner[i] ELSE FALSE]
    /\ UNCHANGED <<ns, marker>>

\* _derived_state for i: a sync somebody else owns counts as interrupted.
Derived(i) ==
    CASE manifest = "QUARANTINED"              -> "QUARANTINED"
      [] manifest = "SYNCING" /\ ~owner[i]     -> "QUARANTINED"
      [] manifest = "none"                     -> "UNINITIALIZED"
      [] OTHER                                 -> IF tampered THEN "TAMPERED" ELSE manifest

\* environment(): what a native process is launched with, or a refusal.
Launchable(i) == Derived(i) \in {"READY", "SYNCING"}

-----------------------------------------------------------------------------
(* prepare() *)

StartPrepare(i) ==
    /\ pc[i] = "idle"
    /\ call' = [call EXCEPT ![i] = "prepare"]
    /\ GoTo(i, "init")
    /\ UNCHANGED <<profile, native, tampered, lock, owner, seen, good, faults>>

\* initialize(): create the profile, or reuse it.
Initialize(i) ==
    /\ pc[i] = "init"
    /\ \/ /\ manifest = "none" /\ ~ns
          /\ ns' = TRUE /\ manifest' = "READY"
          /\ GoTo(i, "lock")
          /\ UNCHANGED <<marker, lock, local>>
       \/ /\ Launchable(i)
          /\ GoTo(i, "lock")
          /\ UNCHANGED <<profile, lock, local>>
       \/ /\ IF manifest = "none" THEN ns ELSE ~Launchable(i)
          /\ Return(i)
          /\ UNCHANGED profile
    /\ UNCHANGED <<native, tampered, owner, faults>>

\* _locked(): opening the lock file makes the namespace directory.
Lock(i) ==
    /\ pc[i] = "lock"
    /\ ns' = TRUE
    /\ \/ /\ lock = NoOne
          /\ lock' = i
          /\ GoTo(i, IF call[i] = "prepare" THEN "verdict" ELSE "status")
          /\ UNCHANGED local
       \/ /\ lock # NoOne
          /\ Return(i)
    /\ UNCHANGED <<manifest, marker, native, tampered, owner, faults>>

\* A valid marker makes prepare() idempotent; otherwise both gates come first.
Verdict(i) ==
    /\ pc[i] = "verdict"
    /\ \/ Return(i)
       \/ /\ marker = NoMarker
          /\ GoTo(i, "set")
          /\ UNCHANGED <<lock, local>>
    /\ UNCHANGED <<profile, native, tampered, owner, faults>>

\* `config set auto_watch false`; rc = 0 does not prove that it did anything.
SetConfig(i) ==
    /\ pc[i] = "set" /\ Launchable(i)
    /\ config.version < MaxChanges
    /\ config' \in {config, [version |-> config.version + 1, off |-> TRUE]}
    /\ GoTo(i, "get")
    /\ UNCHANGED <<profile, index, orphan, tampered, lock, local, owner, faults>>

\* `config get` and the persisted row both say false; the store is fingerprinted.
GetConfig(i) ==
    /\ pc[i] = "get" /\ Launchable(i)
    /\ config.off
    /\ seen' = [seen EXCEPT ![i] = [fp |-> config.version, project |-> FALSE]]
    /\ GoTo(i, "prove")
    /\ UNCHANGED <<profile, native, tampered, lock, call, good, owner, faults>>

\* A launch is refused, a receipt is bad or late, a proof or the marker fails.
PrepareFails(i) ==
    /\ pc[i] \in {"set", "get", "prove"}
    /\ \/ pc[i] \in {"set", "get"} /\ ~Launchable(i) /\ UNCHANGED faults
       \/ pc[i] = "get" /\ ~config.off /\ UNCHANGED faults
       \/ Fault
    /\ Quarantine(i)
    /\ Return(i)
    /\ UNCHANGED <<native, tampered>>

WriteMarker(i) ==
    /\ pc[i] = "prove"
    /\ marker' = seen[i]
    /\ Return(i)
    /\ UNCHANGED <<ns, manifest, native, tampered, owner, faults>>

-----------------------------------------------------------------------------
(* _guard_ready: three reads, first without the lock (query only), then under it *)

StartQuery(i) ==
    /\ pc[i] = "idle"
    /\ call' = [call EXCEPT ![i] = "query"]
    /\ GoTo(i, "status")
    /\ UNCHANGED <<profile, native, tampered, lock, owner, seen, good, faults>>

GuardStatus(i) ==
    /\ pc[i] = "status"
    /\ \/ /\ Derived(i) = "READY"
          /\ GoTo(i, "marker")
          /\ UNCHANGED <<profile, owner, lock, local>>
       \/ /\ Derived(i) = "TAMPERED"
          /\ Quarantine(i)
          /\ Return(i)
       \/ /\ Derived(i) \notin {"READY", "TAMPERED"}
          /\ Return(i)
          /\ UNCHANGED <<profile, owner>>
    /\ UNCHANGED <<native, tampered, faults>>

GuardMarker(i) ==
    /\ pc[i] = "marker"
    /\ \/ /\ marker # NoMarker
          /\ seen' = [seen EXCEPT ![i] = marker]
          /\ GoTo(i, "config")
          /\ UNCHANGED <<lock, call, good>>
       \/ /\ marker = NoMarker
          /\ Return(i)
    /\ UNCHANGED <<profile, native, tampered, owner, faults>>

\* A changed config store is quarantined, also by the guard outside the lock.
GuardConfig(i) ==
    /\ pc[i] = "config"
    /\ \/ /\ seen[i].fp # config.version
          /\ Quarantine(i)
          /\ Return(i)
       \/ /\ seen[i].fp = config.version
          /\ call[i] = "query" /\ ~seen[i].project
          /\ Return(i)
          /\ UNCHANGED <<profile, owner>>
       \/ /\ seen[i].fp = config.version
          /\ call[i] = "query" => seen[i].project
          /\ GoTo(i, IF lock = i THEN "gate" ELSE "lock")
          /\ UNCHANGED <<profile, owner, lock, local>>
    /\ UNCHANGED <<native, tampered, faults>>

\* The exact-compatibility gate re-hashes the executable; it may refuse.
Gate(i) ==
    /\ pc[i] = "gate"
    /\ \/ Return(i)
       \/ /\ GoTo(i, IF call[i] = "sync" THEN "begin" ELSE "mcp")
          /\ UNCHANGED <<lock, local>>
       \/ /\ call[i] = "query"                       \* SOT_ENGINE_TRANSPORT=cli
          /\ GoTo(i, "cli")
          /\ UNCHANGED <<lock, local>>
    /\ UNCHANGED <<profile, native, tampered, owner, faults>>

-----------------------------------------------------------------------------
(* query(): one MCP attempt, then the command line *)

McpAnswers(i) ==
    /\ pc[i] = "mcp" /\ Launchable(i)
    /\ Return(i)
    /\ UNCHANGED <<profile, native, tampered, owner, faults>>

\* Whatever went wrong, a deadline included: refuse (strict) or fall back (auto).
McpFails(i) ==
    /\ pc[i] = "mcp"
    /\ \/ ~Launchable(i) /\ UNCHANGED faults
       \/ Fault
    /\ \/ Return(i)
       \/ /\ GoTo(i, "cli")
          /\ UNCHANGED <<lock, local>>
    /\ UNCHANGED <<profile, native, tampered, owner>>

\* An answer or a bad receipt; a refused launch.
CliAnswers(i) ==
    /\ pc[i] = "cli"
    /\ Return(i)
    /\ UNCHANGED <<profile, native, tampered, owner, faults>>

CliTimesOut(i) ==
    /\ pc[i] = "cli" /\ Launchable(i)
    /\ Fault
    /\ Quarantine(i)
    /\ Return(i)
    /\ UNCHANGED <<native, tampered>>

-----------------------------------------------------------------------------
(* sync() *)

StartSync(i) ==
    /\ pc[i] = "idle"
    /\ call' = [call EXCEPT ![i] = "sync"]
    /\ GoTo(i, "lock")
    /\ UNCHANGED <<profile, native, tampered, lock, owner, seen, good, faults>>

\* Mutant: begin_sync persists the derived state instead of refusing it.
MutantBeginSyncPersistsDerived(i) ==
    /\ pc[i] = "begin"
    /\ manifest' = IF Derived(i) = "READY" THEN "SYNCING" ELSE Derived(i)
    /\ owner' = [owner EXCEPT ![i] = Derived(i) = "READY"]
    /\ IF Derived(i) = "READY" THEN GoTo(i, "index") /\ UNCHANGED <<lock, local>> ELSE Return(i)
    /\ UNCHANGED <<ns, marker, native, tampered, faults>>

BeginSync(i) ==
    /\ pc[i] = "begin"
    /\ \/ /\ Derived(i) = "READY"
          /\ manifest' = "SYNCING"
          /\ owner' = [owner EXCEPT ![i] = TRUE]
          /\ GoTo(i, "index")
          /\ UNCHANGED <<lock, local>>
       \/ /\ Derived(i) = "TAMPERED"
          /\ manifest' = "QUARANTINED"
          /\ Return(i)
          /\ UNCHANGED owner
       \/ /\ Derived(i) \notin {"READY", "TAMPERED"}
          /\ Return(i)
          /\ UNCHANGED <<manifest, owner>>
    /\ UNCHANGED <<ns, marker, native, tampered, faults>>

\* The native index starts to rewrite what earlier syncs built.
Index(i) ==
    /\ pc[i] = "index" /\ Launchable(i)
    /\ index' = "partial"
    /\ GoTo(i, "run")
    /\ UNCHANGED <<profile, config, orphan, tampered, lock, local, owner, faults>>

IndexRefused(i) ==
    /\ pc[i] = "index" /\ ~Launchable(i)
    /\ GoTo(i, "complete")
    /\ UNCHANGED <<profile, native, tampered, lock, local, owner, faults>>

\* A plain receipt with status = indexed.
Indexed(i) ==
    /\ pc[i] = "run"
    /\ index' = "complete"
    /\ GoTo(i, "bind")
    /\ UNCHANGED <<profile, config, orphan, tampered, lock, local, owner, faults>>

\* No such receipt; a late one leaves the end of the writer unknown.
IndexFails(i) ==
    /\ pc[i] = "run"
    /\ Fault
    /\ orphan' \in {orphan, TRUE}
    /\ GoTo(i, "complete")
    /\ UNCHANGED <<profile, config, index, tampered, lock, local, owner>>

\* list_projects names exactly this repository, and the receipt agrees.
Bind(i) ==
    /\ pc[i] = "bind" /\ Launchable(i)
    /\ GoTo(i, "commit")
    /\ UNCHANGED <<profile, native, tampered, lock, local, owner, faults>>

BindFails(i) ==
    /\ pc[i] = "bind"
    /\ \/ ~Launchable(i) /\ UNCHANGED faults
       \/ Fault
    /\ GoTo(i, "complete")
    /\ UNCHANGED <<profile, native, tampered, lock, local, owner>>

\* The argument file cannot be made: the exception leaves sync() half done.
BindRaises(i) ==
    /\ pc[i] = "bind"
    /\ Fault
    /\ Return(i)
    /\ UNCHANGED <<profile, native, tampered, owner>>

\* The marker is bound to the config store as it is after the index.
CommitBinding(i) ==
    /\ pc[i] = "commit"
    /\ marker' = [fp |-> config.version, project |-> TRUE]
    /\ good' = [good EXCEPT ![i] = TRUE]
    /\ GoTo(i, "complete")
    /\ UNCHANGED <<ns, manifest, native, tampered, lock, call, seen, owner, faults>>

CommitFails(i) ==
    /\ pc[i] = "commit"
    /\ Fault
    /\ GoTo(i, "complete")
    /\ UNCHANGED <<profile, native, tampered, lock, local, owner>>

\* Mutant: a sync that has no receipt, but no tampering either, ends READY.
MutantCompleteIgnoresReceipt(i) ==
    /\ pc[i] = "complete"
    /\ IF manifest = "SYNCING" /\ owner[i]
       THEN /\ manifest' = IF tampered THEN "QUARANTINED" ELSE "READY"
            /\ owner' = [owner EXCEPT ![i] = FALSE]
            /\ UNCHANGED <<ns, marker>>
       ELSE Quarantine(i)
    /\ Return(i)
    /\ UNCHANGED <<native, tampered, faults>>

\* Mutant: complete_sync does not look at the manifest it replaces.
MutantCompleteReopens(i) ==
    /\ pc[i] = "complete"
    /\ manifest' = IF good[i] /\ ~tampered THEN "READY" ELSE "QUARANTINED"
    /\ owner' = [owner EXCEPT ![i] = FALSE]
    /\ Return(i)
    /\ UNCHANGED <<ns, marker, native, tampered, faults>>

\* complete_sync, or the quarantine that follows its refusal.
CompleteSync(i) ==
    /\ pc[i] = "complete"
    /\ \/ /\ manifest = "SYNCING" /\ owner[i]
          /\ manifest' = IF good[i] /\ ~tampered THEN "READY" ELSE "QUARANTINED"
          /\ owner' = [owner EXCEPT ![i] = FALSE]
          /\ UNCHANGED <<ns, marker>>
       \/ /\ ~(manifest = "SYNCING" /\ owner[i])
          /\ Quarantine(i)
    /\ Return(i)
    /\ UNCHANGED <<native, tampered, faults>>

-----------------------------------------------------------------------------
(* The environment *)

\* The process dies at any point; a running index may outlive it.
Crash(i) ==
    /\ pc[i] # "idle" \/ owner[i]
    /\ Fault
    /\ owner' = [owner EXCEPT ![i] = FALSE]
    /\ orphan' \in {orphan, (orphan \/ pc[i] = "run")}
    /\ ns' \in {ns, (ns \/ pc[i] = "init")}           \* between _create's directories and manifest
    /\ Return(i)
    /\ UNCHANGED <<manifest, marker, config, index, tampered>>

\* The writer nobody waits for goes on.
OrphanWrites ==
    /\ orphan
    /\ index' = "partial"
    /\ UNCHANGED <<profile, config, orphan, tampered, lock, local, pc, owner, faults>>

\* A native process that is alive touches its config store: a checkpoint, or a real change.
NativeAlive == orphan \/ \E i \in Instances : pc[i] \in {"run", "mcp", "cli"}

ConfigChanges ==
    /\ NativeAlive
    /\ config.version < MaxChanges
    /\ \E off \in BOOLEAN : config' = [version |-> config.version + 1, off |-> off]
    /\ UNCHANGED <<profile, index, orphan, tampered, lock, local, pc, owner, faults>>

Tamper ==
    /\ manifest # "none"
    /\ ~tampered
    /\ Fault
    /\ tampered' = TRUE
    /\ UNCHANGED <<profile, native, lock, local, pc, owner>>

Next ==
    \/ \E i \in Instances :
         \/ StartPrepare(i) \/ StartQuery(i) \/ StartSync(i)
         \/ Initialize(i) \/ Lock(i) \/ Verdict(i) \/ SetConfig(i) \/ GetConfig(i)
         \/ PrepareFails(i) \/ WriteMarker(i)
         \/ GuardStatus(i) \/ GuardMarker(i) \/ GuardConfig(i) \/ Gate(i)
         \/ McpAnswers(i) \/ McpFails(i) \/ CliAnswers(i) \/ CliTimesOut(i)
         \/ BeginSync(i) \/ Index(i) \/ IndexRefused(i) \/ Indexed(i) \/ IndexFails(i)
         \/ Bind(i) \/ BindFails(i) \/ BindRaises(i) \/ CommitBinding(i) \/ CommitFails(i)
         \/ CompleteSync(i) \/ Crash(i)
    \/ OrphanWrites \/ ConfigChanges \/ Tamper

Spec == Init /\ [][Next]_vars

-----------------------------------------------------------------------------
(* Properties *)

\* A query that may start a native process, its guard passed under the lock.
Serving(i) == call[i] = "query" /\ pc[i] \in {"gate", "mcp", "cli"}

\* A query is dispatched only to an index a whole sync has built and that no
\* writer left over from a broken sync can touch, whatever died in between.
ServedFromCompleteIndex ==
    \A i \in Instances : Serving(i) => index = "complete" /\ ~orphan

\* Refinement: the manifest is the phase, the marker's project the vouching.
Sealed == INSTANCE SealedIndex WITH
              phase <- manifest, content <- index,
              vouched <- marker # NoMarker /\ marker.project

\* The profile keeps the promise of SealedIndex: content changes only inside a
\* sync or behind a quarantine, a sync ends well only with complete content, and
\* a quarantine is for ever.
ImplementsSealedIndex == Sealed!Spec
=============================================================================
