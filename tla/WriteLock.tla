------------------------------ MODULE WriteLock ------------------------------
(***************************************************************************)
(* The project write lock of src/sot_graph/locking.py on POSIX: a flock on *)
(* one lock file between processes, and a registry that makes the lock     *)
(* re-entrant for one thread inside a process.                             *)
(*                                                                         *)
(* flock belongs to an open file description, not to a process: fork       *)
(* shares the description with the child, and the kernel drops the lock    *)
(* when the last descriptor is closed.  A process has at most one          *)
(* description that matters, the one it opened last, so descriptions are   *)
(* named by the process that opened them.                                  *)
(***************************************************************************)
EXTENDS Naturals, FiniteSets

CONSTANTS
    Procs,      \* process ids
    Threads,    \* thread identifiers inside a process
    Inodes,     \* inodes the lock file's directory entry can name
    MaxNest,    \* bound: nested `with WriteLock(...)` blocks of one thread
    NoInode,    \* no file at the path
    NoThread,   \* nobody is in the registry's critical section
    NotHeld     \* no entry in _HELD_LOCKS

ASSUME MaxNestAssumption == MaxNest \in Nat \ {0}
ASSUME NamesAssumption ==
    /\ NoInode \notin Inodes
    /\ NoThread \notin Threads
    /\ NotHeld \notin [fd : Procs, pid : Procs, thread : Threads, depth : Nat]

VARIABLES
    path,       \* the inode self.path names now
    threads,    \* threads[p]: the running threads of p; none: p is not running
    registryPid,\* registryPid[p]: _REGISTRY_PID as p sees it
    registry,   \* registry[p]: _HELD_LOCKS[key] as p sees it
    guard,      \* guard[p]: the thread inside _REGISTRY_GUARD
    inode,      \* inode[p]: the inode of the open file description p opened last
    refs,       \* refs[p]: the processes with a descriptor of that description
    flocked,    \* the processes whose description has the flock
    pc,         \* pc[p][t]: where thread t is in acquire()
    expired,    \* expired[p][t]: its deadline has passed
    own,        \* own[p][t]: WriteLock objects it has acquired and not released
    inherited   \* inherited[p][t]: acquired objects copied from the parent

vars == <<path, threads, registryPid, registry, guard, inode, refs, flocked, pc, expired, own,
          inherited>>

Held == [fd : Procs, pid : Procs, thread : Threads, depth : Nat]

\* One type invariant of the module.
TypeOK ==
    /\ path \in Inodes \cup {NoInode}
    /\ threads \in [Procs -> SUBSET Threads]
    /\ registryPid \in [Procs -> Procs]
    /\ registry \in [Procs -> Held \cup {NotHeld}]
    /\ guard \in [Procs -> Threads \cup {NoThread}]
    /\ inode \in [Procs -> Inodes \cup {NoInode}]
    /\ refs \in [Procs -> SUBSET Procs]
    /\ flocked \in SUBSET Procs
    /\ pc \in [Procs -> [Threads -> {"idle", "trying", "opened", "flocked", "waiting"}]]
    /\ expired \in [Procs -> [Threads -> BOOLEAN]]
    /\ own \in [Procs -> [Threads -> Nat]]
    /\ inherited \in [Procs -> [Threads -> Nat]]

Zero == [t \in Threads |-> 0]

Init ==
    /\ path = NoInode
    /\ threads = [p \in Procs |-> {}]
    /\ registryPid = [p \in Procs |-> p]
    /\ registry = [p \in Procs |-> NotHeld]
    /\ guard = [p \in Procs |-> NoThread]
    /\ inode = [p \in Procs |-> NoInode]
    /\ refs = [p \in Procs |-> {}]
    /\ flocked = {}
    /\ pc = [p \in Procs |-> [t \in Threads |-> "idle"]]
    /\ expired = [p \in Procs |-> [t \in Threads |-> FALSE]]
    /\ own = [p \in Procs |-> Zero]
    /\ inherited = [p \in Procs |-> Zero]

-----------------------------------------------------------------------------
(* Descriptors and the registry.                                           *)

descriptors == <<inode, refs, flocked>>

\* Descriptors are closed until newRefs are left, and the descriptions in unlocked
\* get LOCK_UN: the kernel drops the flock of a description nobody refers to.
Close(newRefs, unlocked) ==
    /\ refs' = newRefs
    /\ flocked' = {q \in flocked \ unlocked : newRefs[q] # {}}
    /\ inode' = [q \in Procs |-> IF newRefs[q] = {} THEN NoInode ELSE inode[q]]

\* References after p closed its descriptor of the description of q.
RefsWithout(p, q) == [refs EXCEPT ![q] = @ \ {p}]

\* _try_acquire: LOCK_EX | LOCK_NB succeeds when no description of the inode is locked.
FlockFree(i) == \A q \in flocked : inode[q] # i

\* An inode the file system can hand out: nothing names it any more.
Unused(i) == i # path /\ \A q \in Procs : inode[q] # i

\* The registry of p after _reset_registry_after_fork.
Registered(p) == IF registryPid[p] = p THEN registry[p] ELSE NotHeld

\* The references after p closed the descriptors its foreign registry named.
RefsAfterReset(p) ==
    IF registryPid[p] # p /\ registry[p] # NotHeld
    THEN RefsWithout(p, registry[p].fd)
    ELSE refs

SetPc(p, t, where) == pc' = [pc EXCEPT ![p][t] = where]

\* acquire() returns or raises: its deadline is gone with it.
Return(p, t) ==
    /\ SetPc(p, t, "idle")
    /\ expired' = [expired EXCEPT ![p][t] = FALSE]

-----------------------------------------------------------------------------
(* acquire().                                                              *)

\* A `with WriteLock(path)` block starts: the deadline is taken.
Request(p, t) ==
    /\ t \in threads[p]
    /\ pc[p][t] = "idle"
    /\ own[p][t] + inherited[p][t] < MaxNest
    /\ SetPc(p, t, "trying")
    /\ UNCHANGED <<path, threads, registryPid, registry, guard, descriptors, expired, own,
                   inherited>>

\* time.monotonic() passes the deadline.
Tick(p, t) ==
    /\ pc[p][t] # "idle"
    /\ ~expired[p][t]
    /\ expired' = [expired EXCEPT ![p][t] = TRUE]
    /\ UNCHANGED <<path, threads, registryPid, registry, guard, inode, refs, flocked, pc, own, inherited>>

\* Mutant: the owning thread is not compared.
MutantNestAnyThread(p, t) ==
    /\ pc[p][t] = "trying"
    /\ guard[p] = NoThread
    /\ registryPid[p] = p
    /\ registry[p] # NotHeld
    /\ registry' = [registry EXCEPT ![p].depth = @ + 1]
    /\ own' = [own EXCEPT ![p][t] = @ + 1]
    /\ Return(p, t)
    /\ UNCHANGED <<path, threads, registryPid, guard, descriptors, inherited>>

\* The thread already owns the lock: one level deeper.
Nest(p, t) ==
    /\ pc[p][t] = "trying"
    /\ guard[p] = NoThread
    /\ registryPid[p] = p
    /\ registry[p] # NotHeld
    /\ registry[p].pid = p /\ registry[p].thread = t
    /\ registry' = [registry EXCEPT ![p].depth = @ + 1]
    /\ own' = [own EXCEPT ![p][t] = @ + 1]
    /\ Return(p, t)
    /\ UNCHANGED <<path, threads, registryPid, guard, descriptors, inherited>>

\* Another thread of this process owns it: sleep without touching the file.
HeldElsewhere(p, t) ==
    /\ pc[p][t] = "trying"
    /\ guard[p] = NoThread
    /\ Registered(p) # NotHeld
    /\ ~(Registered(p).pid = p /\ Registered(p).thread = t)
    /\ SetPc(p, t, "waiting")
    /\ UNCHANGED <<path, threads, registryPid, registry, guard, descriptors, expired, own,
                   inherited>>

\* Nobody in this process owns it: open (and create) the lock file.  The thread
\* stays in the registry's critical section until it registers or closes.
Open(p, t) ==
    /\ pc[p][t] = "trying"
    /\ guard[p] = NoThread
    /\ Registered(p) = NotHeld
    /\ registryPid' = [registryPid EXCEPT ![p] = p]
    /\ registry' = [registry EXCEPT ![p] = NotHeld]
    /\ guard' = [guard EXCEPT ![p] = t]
    /\ path = NoInode => \E i \in Inodes : Unused(i)
    /\ path' = IF path = NoInode THEN CHOOSE i \in Inodes : Unused(i) ELSE path
    /\ LET left == [RefsAfterReset(p) EXCEPT ![p] = {p}] IN
           /\ refs' = left
           /\ flocked' = {q \in flocked \ {p} : left[q] # {}}
           /\ inode' = [q \in Procs |-> IF q = p THEN path'
                                        ELSE IF left[q] = {} THEN NoInode ELSE inode[q]]
    /\ SetPc(p, t, "opened")
    /\ UNCHANGED <<threads, expired, own, inherited>>

\* The attempt failed: leave the critical section and look at the deadline.
BackOff(p, t) ==
    /\ guard' = [guard EXCEPT ![p] = NoThread]
    /\ SetPc(p, t, "waiting")
    /\ UNCHANGED <<path, threads, registryPid, registry, expired, own, inherited>>

Flock(p, t) ==
    /\ pc[p][t] = "opened"
    /\ FlockFree(inode[p])
    /\ flocked' = flocked \cup {p}
    /\ SetPc(p, t, "flocked")
    /\ UNCHANGED <<inode, refs, path, threads, registryPid, registry, guard, expired, own, inherited>>

FlockBusy(p, t) ==
    /\ pc[p][t] = "opened"
    /\ ~FlockFree(inode[p])
    /\ Close(RefsWithout(p, p), {})
    /\ BackOff(p, t)

\* Mutants: the verification dropped; only the link count checked.
MutantNoVerification(p) == TRUE
MutantLinkCountOnly(p) == path # NoInode

\* _fd_guards_live_path: the descriptor still names the file at the path.
GuardsLivePath(p) == path # NoInode /\ inode[p] = path

Register(p, t) ==
    /\ pc[p][t] = "flocked"
    /\ GuardsLivePath(p)
    /\ registry' = [registry EXCEPT
                       ![p] = [fd |-> p, pid |-> p, thread |-> t, depth |-> 1]]
    /\ own' = [own EXCEPT ![p][t] = 1]
    /\ guard' = [guard EXCEPT ![p] = NoThread]
    /\ Return(p, t)
    /\ UNCHANGED <<path, threads, registryPid, descriptors, inherited>>

\* Mutant: the orphaned descriptor stays open and locked.
MutantOrphanNotClosed(p, t) ==
    /\ pc[p][t] = "flocked"
    /\ ~GuardsLivePath(p)
    /\ UNCHANGED descriptors
    /\ BackOff(p, t)

\* The file was deleted or replaced between open and flock: drop the orphan.
Orphaned(p, t) ==
    /\ pc[p][t] = "flocked"
    /\ ~GuardsLivePath(p)
    /\ Close(RefsWithout(p, p), {p})
    /\ BackOff(p, t)

\* Mutant: the deadline is not looked at.
MutantRetryForever(p, t) ==
    /\ pc[p][t] = "waiting"
    /\ SetPc(p, t, "trying")
    /\ UNCHANGED <<path, threads, registryPid, registry, guard, descriptors, expired, own,
                   inherited>>

Retry(p, t) ==
    /\ pc[p][t] = "waiting"
    /\ ~expired[p][t]
    /\ SetPc(p, t, "trying")
    /\ UNCHANGED <<path, threads, registryPid, registry, guard, descriptors, expired, own,
                   inherited>>

\* LockTimeoutError, a LockBusy: the caller must back off.
GiveUp(p, t) ==
    /\ pc[p][t] = "waiting"
    /\ expired[p][t]
    /\ Return(p, t)
    /\ UNCHANGED <<path, threads, registryPid, registry, guard, descriptors, own, inherited>>

-----------------------------------------------------------------------------
(* release().                                                              *)

\* Mutants: any level unlocks; release() without the check of _acquisitions.
MutantReleaseAllLevels(p, t) ==
    /\ t \in threads[p]
    /\ pc[p][t] = "idle"
    /\ guard[p] = NoThread
    /\ own[p][t] > 0
    /\ own' = [own EXCEPT ![p][t] = @ - 1]
    /\ registry' = [registry EXCEPT ![p] = NotHeld]
    /\ Close(RefsWithout(p, p), {p})
    /\ UNCHANGED <<path, threads, registryPid, guard, pc, expired, inherited>>

MutantReleaseUnchecked(p, t) ==
    /\ t \in threads[p]
    /\ pc[p][t] = "idle"
    /\ guard[p] = NoThread
    /\ registry[p] # NotHeld
    /\ own' = [own EXCEPT ![p][t] = @ - 1]
    /\ registry' = [registry EXCEPT ![p].depth = @ - 1]
    /\ UNCHANGED <<path, threads, registryPid, guard, inode, refs, flocked, pc, expired, inherited>>

\* The innermost block ends; the last level unlocks and closes the descriptor.
Release(p, t) ==
    /\ t \in threads[p]
    /\ pc[p][t] = "idle"
    /\ guard[p] = NoThread
    /\ own[p][t] > 0
    /\ own' = [own EXCEPT ![p][t] = @ - 1]
    /\ IF registry[p].depth > 1
       THEN /\ registry' = [registry EXCEPT ![p].depth = @ - 1]
            /\ UNCHANGED descriptors
       ELSE /\ registry' = [registry EXCEPT ![p] = NotHeld]
            /\ Close(RefsWithout(p, registry[p].fd), {registry[p].fd})
    /\ UNCHANGED <<path, threads, registryPid, guard, pc, expired, inherited>>

\* Mutant: a child's release() unlocks the descriptor it inherited.
MutantChildUnlocks(p, t) ==
    /\ t \in threads[p]
    /\ pc[p][t] = "idle"
    /\ guard[p] = NoThread
    /\ inherited[p][t] > 0
    /\ registry[p] # NotHeld
    /\ inherited' = [inherited EXCEPT ![p][t] = @ - 1]
    /\ registry' = [registry EXCEPT ![p] = NotHeld]
    /\ Close(RefsWithout(p, registry[p].fd), {registry[p].fd})
    /\ UNCHANGED <<path, threads, registryPid, guard, pc, expired, own>>

\* A forked child leaves a block its parent entered: its registry is reset, the
\* copied descriptor closed, and nothing is unlocked.
ReleaseInherited(p, t) ==
    /\ t \in threads[p]
    /\ pc[p][t] = "idle"
    /\ guard[p] = NoThread
    /\ own[p][t] = 0 /\ inherited[p][t] > 0
    /\ Registered(p) = NotHeld
    /\ inherited' = [inherited EXCEPT ![p][t] = @ - 1]
    /\ registryPid' = [registryPid EXCEPT ![p] = p]
    /\ registry' = [registry EXCEPT ![p] = NotHeld]
    /\ Close(RefsAfterReset(p), {})
    /\ UNCHANGED <<path, threads, guard, pc, expired, own>>

-----------------------------------------------------------------------------
(* The operating system and the user.                                      *)

\* A process starts with a fresh module state.  A pid is reused only when no
\* child still holds a description of the process that had it.
Start(p) ==
    /\ threads[p] = {}
    /\ refs[p] = {}
    /\ threads' = [threads EXCEPT ![p] = Threads]
    /\ registryPid' = [registryPid EXCEPT ![p] = p]
    /\ UNCHANGED <<path, registry, guard, inode, refs, flocked, pc, expired, own, inherited>>

\* Thread t of p forks c: memory is copied, descriptors are shared, and only
\* the forking thread runs in the child.  The child's pid is not the one of a
\* dead ancestor whose registry it inherits (pids are reused late).
Fork(p, t, c) ==
    /\ t \in threads[p]
    /\ pc[p][t] = "idle"
    /\ threads[c] = {} /\ refs[c] = {}
    /\ c # registryPid[p]
    /\ threads' = [threads EXCEPT ![c] = {t}]
    /\ registryPid' = [registryPid EXCEPT ![c] = registryPid[p]]
    /\ registry' = [registry EXCEPT ![c] = registry[p]]
    /\ guard' = [guard EXCEPT ![c] = guard[p]]
    /\ refs' = [q \in Procs |-> IF p \in refs[q] THEN refs[q] \cup {c} ELSE refs[q]]
    /\ inherited' = [inherited EXCEPT
                        ![c] = [u \in Threads |->
                                   IF u = t THEN own[p][t] + inherited[p][t] ELSE 0]]
    /\ UNCHANGED <<inode, flocked, path, pc, expired, own>>

\* A process ends, at any point: the kernel closes its descriptors.
Crash(p) ==
    /\ threads[p] # {}
    /\ threads' = [threads EXCEPT ![p] = {}]
    /\ registryPid' = [registryPid EXCEPT ![p] = p]
    /\ registry' = [registry EXCEPT ![p] = NotHeld]
    /\ guard' = [guard EXCEPT ![p] = NoThread]
    /\ Close([q \in Procs |-> refs[q] \ {p}], {})
    /\ pc' = [pc EXCEPT ![p] = [t \in Threads |-> "idle"]]
    /\ expired' = [expired EXCEPT ![p] = [t \in Threads |-> FALSE]]
    /\ own' = [own EXCEPT ![p] = Zero]
    /\ inherited' = [inherited EXCEPT ![p] = Zero]
    /\ UNCHANGED path

Holds(p, t) == own[p][t] > 0

\* The lock file is deleted (git clean -x, rm -rf .sot) while nobody holds the
\* lock: at any point of any other thread's open, flock and verification.
Unlink ==
    /\ path # NoInode
    /\ \A p \in Procs, t \in Threads : ~Holds(p, t)
    /\ path' = NoInode
    /\ UNCHANGED <<threads, registryPid, registry, guard, inode, refs, flocked, pc, expired, own,
                   inherited>>

Acquiring(p, t) ==
    \/ Nest(p, t) \/ HeldElsewhere(p, t) \/ Open(p, t)
    \/ Flock(p, t) \/ FlockBusy(p, t) \/ Register(p, t) \/ Orphaned(p, t)
    \/ Retry(p, t) \/ GiveUp(p, t)

Next ==
    \/ \E p \in Procs, t \in Threads :
           \/ Request(p, t) \/ Tick(p, t) \/ Acquiring(p, t)
           \/ Release(p, t) \/ ReleaseInherited(p, t)
    \/ \E p \in Procs : Start(p) \/ Crash(p)
    \/ \E p, c \in Procs, t \in Threads : Fork(p, t, c)
    \/ Unlink

\* A thread inside acquire() is scheduled, and the clock advances.  The guard is
\* an RLock each thread re-enters only after sleeping 25 ms, so a thread that
\* keeps finding it free gets it: strong fairness.
Fairness ==
    \A p \in Procs, t \in Threads :
        /\ SF_vars(Acquiring(p, t))
        /\ WF_vars(Tick(p, t))

Spec == Init /\ [][Next]_vars
FairSpec == Spec /\ Fairness

-----------------------------------------------------------------------------
(* Properties.                                                             *)

\* The lock file and the registries together implement one abstract mutex whose
\* agents are the threads of all processes.
Nobody == <<NoThread, NoThread>>
Holders == {a \in Procs \X Threads : Holds(a[1], a[2])}
Owner == IF Holders = {} THEN Nobody ELSE CHOOSE a \in Holders : TRUE
M == INSTANCE Mutex WITH
        Agents <- Procs \X Threads, Nobody <- Nobody, owner <- Owner,
        depth <- IF Holders = {} THEN 0 ELSE own[Owner[1]][Owner[2]]
ImplementsMutex == M!Spec

\* At most one thread of one process is inside the lock, whatever file is
\* deleted or recreated before the verification and whoever forks or dies.
MutualExclusion ==
    \A p, q \in Procs : \A t, u \in Threads :
        Holds(p, t) /\ Holds(q, u) => p = q /\ t = u

\* The holder's flock is on the very file the next contender will open: the
\* lock never guards an orphaned inode.
HolderGuardsPath ==
    \A p \in Procs, t \in Threads :
        Holds(p, t) => p \in flocked /\ inode[p] = path /\ path # NoInode

\* The registry's depth is the number of blocks its owner is in: no level is
\* lost (a lock never freed) or freed early (a block left unprotected).
DepthCountsBlocks ==
    \A p \in Procs, t \in Threads :
        Holds(p, t) <=> /\ registry[p] # NotHeld
                        /\ registryPid[p] = p
                        /\ registry[p].thread = t
                        /\ registry[p].depth = own[p][t]

\* A running process has the flock only while a thread of it holds the lock or
\* is inside the critical section of acquire(): no failed attempt leaks it.
NoLeakedFlock ==
    \A p \in Procs :
        p \in flocked /\ threads[p] # {} =>
            guard[p] # NoThread \/ \E t \in Threads : Holds(p, t)

\* Whoever unlocks a held lock is its owner leaving its last block, or the death
\* of the last process with the descriptor: a forked child's release() and
\* registry reset never free the parent's lock.
OnlyOwnerUnlocks ==
    [][\A p \in Procs, t \in Threads :
          Holds(p, t) /\ p \notin flocked' =>
              \/ own[p][t] = 1 /\ own'[p][t] = 0
              \/ threads'[p] = {}]_vars

\* Every acquire() returns, with the lock or with LockBusy, unless the process
\* ends or was forked while another thread was inside the registry's guard.
GhostGuard(p) == guard[p] \in Threads /\ guard[p] \notin threads[p]
AcquireReturns ==
    \A p \in Procs, t \in Threads :
        pc[p][t] = "trying" ~> pc[p][t] = "idle" \/ GhostGuard(p)
-----------------------------------------------------------------------------
(* The inductive invariant behind the safety properties.                   *)

\* A process that is not running has nothing.
DeadIsClean ==
    \A p \in Procs : threads[p] = {} =>
        /\ registryPid[p] = p /\ registry[p] = NotHeld /\ guard[p] = NoThread
        /\ \A t \in Threads : pc[p][t] = "idle" /\ own[p][t] = 0

\* The kernel's view: a description nobody refers to is not locked, and two
\* locked descriptions are of different inodes.
FlockExclusive ==
    /\ \A p \in Procs : refs[p] = {} => p \notin flocked
    /\ \A p, q \in Procs :
           p \in flocked /\ q \in flocked /\ inode[p] = inode[q] => p = q

\* A thread between open and the verification owns the guard and an open file.
AttemptOwnsGuard ==
    \A p \in Procs, t \in Threads : pc[p][t] \in {"opened", "flocked"} =>
        /\ guard[p] = t
        /\ registryPid[p] = p /\ registry[p] = NotHeld
        /\ p \in refs[p] /\ inode[p] # NoInode
        /\ p \in flocked <=> pc[p][t] = "flocked"

\* A holder is registered, and its locked description is of the live file.
HolderIsRegistered ==
    \A p \in Procs, t \in Threads : Holds(p, t) =>
        /\ registryPid[p] = p
        /\ registry[p] # NotHeld
        /\ registry[p].fd = p /\ registry[p].pid = p /\ registry[p].thread = t
        /\ registry[p].depth = own[p][t]
        /\ p \in refs[p] /\ p \in flocked
        /\ inode[p] = path /\ path # NoInode

\* What a process registered itself, a thread of it holds.
RegisteredIsHeld ==
    \A p \in Procs : registry[p] # NotHeld /\ registryPid[p] = p =>
        Holds(p, registry[p].thread)

\* A flock a running process has outside acquire() is in its registry.
FlockIsRegistered ==
    \A p \in flocked : threads[p] # {} /\ guard[p] = NoThread =>
        registry[p] # NotHeld /\ registryPid[p] = p

IInv ==
    /\ TypeOK
    /\ DeadIsClean
    /\ FlockExclusive
    /\ AttemptOwnsGuard
    /\ HolderIsRegistered
    /\ RegisteredIsHeld
    /\ FlockIsRegistered
=============================================================================
