--------------------------- MODULE ArtifactStore ----------------------------
(***************************************************************************)
(* The digest-addressed engine store of                                    *)
(* src/sot_graph/providers/artifacts.py for one artifact name, and the     *)
(* bootstrap of providers/bootstrap.py over it, run by several processes   *)
(* that may be killed at any step while source binaries change under them. *)
(*                                                                         *)
(* Refusals of the permission, ownership and schema checks end a call like *)
(* a failed system call: both are Stops.                                   *)
(***************************************************************************)
EXTENDS Naturals

CONSTANTS
    Procs,     \* processes using the store
    Setup,     \* the one that bootstraps again whenever it is idle
    Pin,       \* the digest engine_pins.json pins for it
    Digests,   \* digests of the builds there are
    NoDigest,  \* no pointer file
    NoOne,     \* write.lock is free
    MaxCalls,  \* bound: calls of the other processes
    MaxFaults  \* bound: kills, failed system calls, damage, changed sources

ASSUME NamesAssumption == NoDigest \notin Digests /\ NoOne \notin Procs
ASSUME SetupAssumption == Setup \in Procs /\ Pin \in Digests
ASSUME BoundsAssumption == MaxCalls \in Nat /\ MaxFaults \in Nat

VARIABLES
    dir,      \* dir[d]: store/<name>/<d>: "absent", "partial", "whole" with the pin's
              \* manifest, "strange" with another commit's, or "damaged"
    pointer,  \* pointers/<name>: the promoted digest, or NoDigest
    source,   \* source[d]: the bytes of the local binary meant to be d: "good" or "bad"
    lock,     \* write.lock
    call,     \* call[p]: the public operation p is in
    want,     \* want[p]: the digest it is about
    pc,       \* pc[p]: where in it
    read,     \* read[p]: what p's resolve() read from the pointer
    private,  \* private[p]: p imports its own download, not the local binary
    stage,    \* stage[p]: the stage directory of p's import
    calls, faults

local == <<call, want, pc, read, private, stage>>
vars == <<dir, pointer, source, lock, local, calls, faults>>

\* The points that run inside `with self._mutation()`.
Inside == {"exists", "stage", "copy", "manifest", "install", "verify", "flip", "unlink"}
Points == Inside \cup {"idle", "pointer", "target", "fetch", "lockImport", "lockPromote",
                       "lockUninstall"}

\* The public operations; "importOther" is an import with another commit's manifest.
Calls == {"bootstrap", "import", "importOther", "promote", "uninstall", "resolve"}

\* The type invariant of the module.  A stage directory beyond its copy holds the
\* pinned bytes.
TypeOK ==
    /\ dir \in [Digests -> {"absent", "partial", "whole", "strange", "damaged"}]
    /\ pointer \in Digests \cup {NoDigest}
    /\ source \in [Digests -> {"good", "bad"}]
    /\ lock \in Procs \cup {NoOne}
    /\ call \in [Procs -> Calls \cup {"none"}]
    /\ want \in [Procs -> Digests]
    /\ pc \in [Procs -> Points]
    /\ read \in [Procs -> Digests \cup {NoDigest}]
    /\ private \in [Procs -> BOOLEAN]
    /\ stage \in [Procs -> {"none", "made", "artifact", "whole"}]
    /\ calls \in Nat /\ faults \in Nat

Init ==
    /\ dir = [d \in Digests |-> "absent"] /\ pointer = NoDigest
    /\ source = [d \in Digests |-> "good"]
    /\ lock = NoOne
    /\ call = [p \in Procs |-> "none"] /\ want = [p \in Procs |-> Pin]
    /\ pc = [p \in Procs |-> "idle"]
    /\ read = [p \in Procs |-> NoDigest]
    /\ private = [p \in Procs |-> FALSE] /\ stage = [p \in Procs |-> "none"]
    /\ calls = 0 /\ faults = 0

-----------------------------------------------------------------------------
(* Parts of steps *)

At(p, where) == pc[p] = where

GoTo(p, where) == pc' = [pc EXCEPT ![p] = where] /\ UNCHANGED <<call, want>>

\* The call of p returns or raises: its stage directory and its download are
\* removed, and the lock is released if p has it.
Ends(p) ==
    /\ pc' = [pc EXCEPT ![p] = "idle"]
    /\ call' = [call EXCEPT ![p] = "none"]
    /\ want' = [want EXCEPT ![p] = Pin]
    /\ read' = [read EXCEPT ![p] = NoDigest]
    /\ private' = [private EXCEPT ![p] = FALSE]
    /\ stage' = [stage EXCEPT ![p] = "none"]
    /\ lock' = IF lock = p THEN NoOne ELSE lock

Fault == faults < MaxFaults /\ faults' = faults + 1 /\ UNCHANGED calls

Counters == UNCHANGED <<calls, faults>>

-----------------------------------------------------------------------------
(* Calls *)

\* What a call does first: import and promote take the lock, the others resolve.
FirstOf(c) ==
    CASE c \in {"import", "importOther"} -> "lockImport"
      [] c = "promote"                   -> "lockPromote"
      [] OTHER                           -> "pointer"

Begin(p, c, d) ==
    /\ At(p, "idle")
    /\ call' = [call EXCEPT ![p] = c]
    /\ want' = [want EXCEPT ![p] = d]
    /\ pc' = [pc EXCEPT ![p] = FirstOf(c)]
    /\ UNCHANGED <<dir, pointer, source, lock, read, private, stage>>

Start(p) ==
    /\ p # Setup
    /\ calls < MaxCalls /\ calls' = calls + 1 /\ UNCHANGED faults
    /\ \E c \in Calls, d \in Digests : Begin(p, c, d)

\* Every reconcile without an engine tries the bootstrap once more.
StartSetup == Begin(Setup, "bootstrap", Pin) /\ Counters

-----------------------------------------------------------------------------
(* resolve(), which takes no lock of its own *)

ReadPointer(p) ==
    /\ At(p, "pointer")
    /\ read' = [read EXCEPT ![p] = pointer]
    /\ GoTo(p, "target")
    /\ UNCHANGED <<dir, pointer, source, lock, private, stage>> /\ Counters

\* A digest directory with the bytes its name says, whoever's manifest it has.
Installed(d) == dir[d] \in {"whole", "strange"}

\* What resolve() does not refuse: no pointer, or a pointer whose target is whole.
Resolves(p) == read[p] = NoDigest \/ Installed(read[p])

\* Where the caller of resolve() goes on, if it does.
AfterResolve(p) ==
    CASE call[p] = "bootstrap" /\ read[p] # want[p]              -> "fetch"
      [] call[p] = "uninstall" /\ read[p] = want[p] /\ lock # p  -> "lockUninstall"
      [] call[p] = "uninstall" /\ read[p] = want[p] /\ lock = p  -> "unlink"
      [] OTHER                                                   -> "idle"

CheckTarget(p) ==
    /\ At(p, "target")
    /\ IF Resolves(p) /\ AfterResolve(p) # "idle"
       THEN GoTo(p, AfterResolve(p)) /\ UNCHANGED <<lock, read, private, stage>>
       ELSE Ends(p)
    /\ UNCHANGED <<dir, pointer, source>> /\ Counters

-----------------------------------------------------------------------------
(* bootstrap_engine() *)

\* A local source must match the pin now; a download that does not is never kept.
FetchLocal(p) ==
    /\ At(p, "fetch")
    /\ IF source[want[p]] = "good"
       THEN GoTo(p, "lockImport") /\ UNCHANGED <<lock, read, private, stage>>
       ELSE Ends(p)
    /\ UNCHANGED <<dir, pointer, source>> /\ Counters

FetchRemote(p) ==
    /\ At(p, "fetch")
    /\ private' = [private EXCEPT ![p] = TRUE]
    /\ GoTo(p, "lockImport")
    /\ UNCHANGED <<dir, pointer, source, lock, read, stage>> /\ Counters

-----------------------------------------------------------------------------
(* _mutation() *)

Locked(p, where) ==
    /\ lock = NoOne /\ lock' = p
    /\ GoTo(p, where)
    /\ UNCHANGED <<dir, pointer, source, read, private, stage>> /\ Counters

LockImport(p) == At(p, "lockImport") /\ Locked(p, "exists")

LockPromote(p) == At(p, "lockPromote") /\ Locked(p, "verify")

\* Mutant: the lock is taken, and the pointer removed without a second resolve().
MutantLockUninstall(p) == At(p, "lockUninstall") /\ Locked(p, "unlink")

\* uninstall() resolves once more under the lock.
LockUninstall(p) == At(p, "lockUninstall") /\ Locked(p, "pointer")

LockTimesOut(p) ==
    /\ pc[p] \in {"lockImport", "lockPromote", "lockUninstall"}
    /\ lock \in Procs \ {p}
    /\ Ends(p)
    /\ UNCHANGED <<dir, pointer, source>> /\ Counters

-----------------------------------------------------------------------------
(* import_artifact() under the lock *)

\* After an import, bootstrap_engine() goes on to promote under a lock of its own.
Imported(p) ==
    IF call[p] = "bootstrap"
    THEN /\ lock' = NoOne
         /\ stage' = [stage EXCEPT ![p] = "none"]
         /\ GoTo(p, "lockPromote")
         /\ UNCHANGED <<read, private>>
    ELSE Ends(p)

\* What p's import makes of a digest directory.
Made(p) == IF call[p] = "importOther" THEN "strange" ELSE "whole"

\* A digest directory that is there is verified, with its manifest, never adopted or
\* overwritten.
Exists(p) ==
    /\ At(p, "exists")
    /\ CASE dir[want[p]] = "absent" ->
              GoTo(p, "stage") /\ UNCHANGED <<lock, read, private, stage>>
         [] dir[want[p]] = Made(p)  -> Imported(p)
         [] OTHER                   -> Ends(p)
    /\ UNCHANGED <<dir, pointer, source>> /\ Counters

\* Mutant: the artifact is built in the digest directory itself.
MutantMakeStage(p) ==
    /\ At(p, "stage")
    /\ dir' = [dir EXCEPT ![want[p]] = "partial"]
    /\ GoTo(p, "copy")
    /\ UNCHANGED <<pointer, source, lock, read, private, stage>> /\ Counters

MakeStage(p) ==
    /\ At(p, "stage")
    /\ stage' = [stage EXCEPT ![p] = "made"]
    /\ GoTo(p, "copy")
    /\ UNCHANGED <<dir, pointer, source, lock, read, private>> /\ Counters

Bytes(p) == IF private[p] THEN "good" ELSE source[want[p]]

\* Mutant: the bytes are copied without hashing them.
MutantCopy(p) ==
    /\ At(p, "copy")
    /\ stage' = [stage EXCEPT ![p] = IF Bytes(p) = "good" THEN "artifact" ELSE "bad"]
    /\ GoTo(p, "manifest")
    /\ UNCHANGED <<dir, pointer, source, lock, read, private>> /\ Counters

\* The bytes copied are the bytes hashed, whatever an earlier check of the source saw.
Copy(p) ==
    /\ At(p, "copy")
    /\ IF Bytes(p) = "good"
       THEN /\ stage' = [stage EXCEPT ![p] = "artifact"]
            /\ GoTo(p, "manifest")
            /\ UNCHANGED <<lock, read, private>>
       ELSE Ends(p)
    /\ UNCHANGED <<dir, pointer, source>> /\ Counters

WriteManifest(p) ==
    /\ At(p, "manifest")
    /\ stage' = [stage EXCEPT ![p] = "whole"]
    /\ GoTo(p, "install")
    /\ UNCHANGED <<dir, pointer, source, lock, read, private>> /\ Counters

\* The rename carries what the stage directory holds.
Install(p) ==
    /\ At(p, "install")
    /\ IF dir[want[p]] = "absent"
       THEN /\ dir' = [dir EXCEPT ![want[p]] = IF stage[p] = "whole" THEN Made(p) ELSE "partial"]
            /\ Imported(p)
       ELSE Ends(p) /\ UNCHANGED dir
    /\ UNCHANGED <<pointer, source>> /\ Counters

-----------------------------------------------------------------------------
(* promote() and uninstall() under the lock *)

Verify(p) ==
    /\ At(p, "verify")
    /\ IF Installed(want[p])
       THEN GoTo(p, "flip") /\ UNCHANGED <<lock, read, private, stage>>
       ELSE Ends(p)
    /\ UNCHANGED <<dir, pointer, source>> /\ Counters

Flip(p) ==
    /\ At(p, "flip")
    /\ pointer' = want[p]
    /\ Ends(p)
    /\ UNCHANGED <<dir, source>> /\ Counters

\* The unlink removes whatever digest the pointer holds.
Unlink(p) ==
    /\ At(p, "unlink")
    /\ pointer' = NoDigest
    /\ Ends(p)
    /\ UNCHANGED <<dir, source>> /\ Counters

-----------------------------------------------------------------------------
(* Faults *)

\* A system call fails or a permission or ownership check refuses, and the call cleans
\* up after itself; or the process is killed, the kernel drops its lock, and its stage
\* directory and its download stay on disk under names nobody will use again.
Stops(p) ==
    /\ ~At(p, "idle")
    /\ Fault /\ Ends(p)
    /\ UNCHANGED <<dir, pointer, source>>

\* Something outside the store changes an installed file.
Damage ==
    /\ Fault
    /\ \E d \in Digests : Installed(d) /\ dir' = [dir EXCEPT ![d] = "damaged"]
    /\ UNCHANGED <<pointer, source, lock, local>>

\* The local binary is rebuilt or overwritten in place.
SpoilSource ==
    /\ Fault
    /\ \E d \in Digests : source[d] = "good" /\ source' = [source EXCEPT ![d] = "bad"]
    /\ UNCHANGED <<dir, pointer, lock, local>>

MendSource ==
    /\ \E d \in Digests : source[d] = "bad" /\ source' = [source EXCEPT ![d] = "good"]
    /\ UNCHANGED <<dir, pointer, lock, local>> /\ Counters

-----------------------------------------------------------------------------
(* Specification *)

Step(p) ==
    \/ ReadPointer(p) \/ CheckTarget(p)
    \/ FetchLocal(p) \/ FetchRemote(p)
    \/ LockImport(p) \/ LockPromote(p) \/ LockUninstall(p) \/ LockTimesOut(p)
    \/ Exists(p) \/ MakeStage(p) \/ Copy(p) \/ WriteManifest(p) \/ Install(p)
    \/ Verify(p) \/ Flip(p) \/ Unlink(p)

Next ==
    \/ StartSetup \/ Damage \/ SpoilSource \/ MendSource
    \/ \E p \in Procs : Start(p) \/ Step(p) \/ Stops(p)

Spec == Init /\ [][Next]_vars

\* Processes run, a missing engine is bootstrapped by the next reconcile, and a
\* spoilt local source is mended at last.
Fairness ==
    /\ \A p \in Procs : WF_vars(Step(p))
    /\ WF_vars(StartSetup) /\ WF_vars(MendSource)

FairSpec == Spec /\ Fairness

-----------------------------------------------------------------------------
(* Properties *)

Abstract == INSTANCE Registry WITH
    whole    <- {d \in Digests : Installed(d)},
    lost     <- {d \in Digests : dir[d] \in {"partial", "damaged"}},
    selected <- pointer,
    asked    <- {want[p] : p \in {q \in Procs : call[q] = "uninstall"}}

\* The store implements the registry: a digest directory appears once and whole
\* whatever is killed, the pointer only ever names an installed digest, and only an
\* uninstall of exactly that digest takes the pointer away, whoever promotes what
\* between its two resolves (artifacts.py:import_artifact, promote, uninstall).
ImplementsRegistry == Abstract!Spec

\* Kills and failures while staging or promoting never wedge the store: unless an
\* installed file was damaged from outside, or the pinned bytes were installed with a
\* manifest that is not the pin's, repeated bootstraps end with an engine selected
\* (artifacts.py:297-390 "an ENOSPC or crash mid-stage can never wedge a partial
\* digest dir").
NeverWedged ==
    <>[](\/ pointer # NoDigest
         \/ \E d \in Digests : dir[d] = "damaged"
         \/ dir[Pin] = "strange")
=============================================================================
