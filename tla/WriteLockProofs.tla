--------------------------- MODULE WriteLockProofs ---------------------------
(***************************************************************************)
(* Safety of the write lock for any number of processes, threads, inodes   *)
(* and nesting levels.  IInv strengthens MutualExclusion until it is       *)
(* inductive: the flock is exclusive per inode, an attempt in progress     *)
(* owns its process's guard, and a holder's registry entry and flock are   *)
(* on the live file; two holders then lock the same inode.                 *)
(*                                                                         *)
(* At the end, what the watch loop remembers while others hold that lock,  *)
(* for every set of files and any number of edits and faults: WatchInv     *)
(* strengthens NothingForgotten by what the loop has in hand.              *)
(***************************************************************************)
EXTENDS WriteLock, Watcher, TLAPS

USE DEF TypeOK, Held

\* Changing the depth of a registry entry changes nothing else of it.
LEMMA WithDepth ==
    ASSUME NEW h \in Held, NEW n \in Nat
    PROVE  LET e == [h EXCEPT !.depth = n] IN
           /\ e \in Held /\ e # NotHeld
           /\ e.fd = h.fd /\ e.pid = h.pid /\ e.thread = h.thread /\ e.depth = n
    BY NamesAssumption

\* Nobody holds anything at the start.
LEMMA InitIInv == Init => IInv
    BY NamesAssumption DEF Init, IInv, DeadIsClean, FlockExclusive, AttemptOwnsGuard,
       HolderIsRegistered, RegisteredIsHeld, FlockIsRegistered, Holds, Zero

-----------------------------------------------------------------------------
(* Each action preserves the invariant.                                    *)

\* A `with WriteLock(...)` block starting preserves the invariant.
LEMMA RequestStep ==
    ASSUME IInv, NEW p \in Procs, NEW t \in Threads, Request(p, t)
    PROVE  IInv'
    <1> USE NamesAssumption DEF IInv, Request, SetPc, descriptors
    <1>1. TypeOK'
        OBVIOUS
    <1>2. DeadIsClean'
        BY DEF DeadIsClean
    <1>3. FlockExclusive'
        BY DEF FlockExclusive, AttemptOwnsGuard
    <1>4. AttemptOwnsGuard'
        BY DEF AttemptOwnsGuard, DeadIsClean, HolderIsRegistered, RegisteredIsHeld,
           FlockExclusive, FlockIsRegistered, Holds
    <1>5. HolderIsRegistered'
        BY DEF HolderIsRegistered, RegisteredIsHeld, AttemptOwnsGuard, DeadIsClean, Holds
    <1>6. RegisteredIsHeld'
        BY DEF RegisteredIsHeld, HolderIsRegistered, AttemptOwnsGuard, DeadIsClean, Holds
    <1>7. FlockIsRegistered'
        BY DEF FlockIsRegistered, HolderIsRegistered, RegisteredIsHeld, DeadIsClean,
           FlockExclusive, AttemptOwnsGuard, Holds
    <1> QED BY <1>1, <1>2, <1>3, <1>4, <1>5, <1>6, <1>7

\* The clock preserves the invariant.
LEMMA TickStep ==
    ASSUME IInv, NEW p \in Procs, NEW t \in Threads, Tick(p, t)
    PROVE  IInv'
    <1> USE NamesAssumption DEF IInv, Tick, descriptors
    <1>1. TypeOK'
        OBVIOUS
    <1>2. DeadIsClean'
        BY DEF DeadIsClean
    <1>3. FlockExclusive'
        BY DEF FlockExclusive, AttemptOwnsGuard
    <1>4. AttemptOwnsGuard'
        BY DEF AttemptOwnsGuard, DeadIsClean, HolderIsRegistered, RegisteredIsHeld,
           FlockExclusive, FlockIsRegistered, Holds
    <1>5. HolderIsRegistered'
        BY DEF HolderIsRegistered, RegisteredIsHeld, AttemptOwnsGuard, DeadIsClean, Holds
    <1>6. RegisteredIsHeld'
        BY DEF RegisteredIsHeld, HolderIsRegistered, AttemptOwnsGuard, DeadIsClean, Holds
    <1>7. FlockIsRegistered'
        BY DEF FlockIsRegistered, HolderIsRegistered, RegisteredIsHeld, DeadIsClean,
           FlockExclusive, AttemptOwnsGuard, Holds
    <1> QED BY <1>1, <1>2, <1>3, <1>4, <1>5, <1>6, <1>7

\* Re-entering one level deeper changes only a depth and a count.
LEMMA NestStep ==
    ASSUME IInv, NEW p \in Procs, NEW t \in Threads, Nest(p, t)
    PROVE  IInv'
    <1> USE DEF IInv
    <1> DEFINE deeper == [registry[p] EXCEPT !.depth = registry[p].depth + 1]
    <1>a. /\ registry[p] \in Held /\ registry[p] # NotHeld
          /\ registryPid[p] = p /\ registry[p].pid = p /\ registry[p].thread = t
          /\ pc[p][t] = "trying"
        BY DEF Nest
    <1>b. deeper \in Held /\ deeper # NotHeld /\ deeper.fd = registry[p].fd
          /\ deeper.pid = p /\ deeper.thread = t /\ deeper.depth = registry[p].depth + 1
        <2>1. registry[p] \in Held /\ registry[p].depth + 1 \in Nat
            BY <1>a
        <2> QED BY <2>1, <1>a, WithDepth
    <1>c. registry' = [registry EXCEPT ![p] = deeper]
        BY DEF Nest
    <1>d. /\ own' = [own EXCEPT ![p][t] = @ + 1]
          /\ pc' = [pc EXCEPT ![p][t] = "idle"]
          /\ expired' = [expired EXCEPT ![p][t] = FALSE]
          /\ UNCHANGED <<path, threads, registryPid, guard, inode, refs, flocked, inherited>>
        BY DEF Nest, Return, SetPc, descriptors
    <1>e. Holds(p, t) /\ registry[p].depth = own[p][t]
        BY <1>a DEF RegisteredIsHeld, HolderIsRegistered
    <1> HIDE DEF deeper
    <1>1. TypeOK'
        BY <1>a, <1>b, <1>c, <1>d, <1>e
    <1>2. DeadIsClean'
        BY <1>a, <1>b, <1>c, <1>d, <1>e DEF DeadIsClean
    <1>3. FlockExclusive'
        BY <1>a, <1>b, <1>c, <1>d, <1>e DEF FlockExclusive, AttemptOwnsGuard
    <1>4. AttemptOwnsGuard'
        BY <1>a, <1>b, <1>c, <1>d, <1>e DEF AttemptOwnsGuard, DeadIsClean, HolderIsRegistered, RegisteredIsHeld,
           FlockExclusive, FlockIsRegistered, Holds
    <1>5. HolderIsRegistered'
        BY <1>a, <1>b, <1>c, <1>d, <1>e DEF HolderIsRegistered, RegisteredIsHeld, AttemptOwnsGuard, DeadIsClean, Holds
    <1>6. RegisteredIsHeld'
        BY <1>a, <1>b, <1>c, <1>d, <1>e DEF RegisteredIsHeld, HolderIsRegistered, AttemptOwnsGuard, DeadIsClean, Holds
    <1>7. FlockIsRegistered'
        BY <1>a, <1>b, <1>c, <1>d, <1>e DEF FlockIsRegistered, HolderIsRegistered, RegisteredIsHeld, DeadIsClean,
           FlockExclusive, AttemptOwnsGuard, Holds
    <1> QED BY <1>1, <1>2, <1>3, <1>4, <1>5, <1>6, <1>7

\* Finding the lock held by another thread of the process preserves the invariant.
LEMMA HeldElsewhereStep ==
    ASSUME IInv, NEW p \in Procs, NEW t \in Threads, HeldElsewhere(p, t)
    PROVE  IInv'
    <1> USE NamesAssumption DEF IInv, HeldElsewhere, SetPc, descriptors
    <1>1. TypeOK'
        OBVIOUS
    <1>2. DeadIsClean'
        BY DEF DeadIsClean
    <1>3. FlockExclusive'
        BY DEF FlockExclusive, AttemptOwnsGuard
    <1>4. AttemptOwnsGuard'
        BY DEF AttemptOwnsGuard, DeadIsClean, HolderIsRegistered, RegisteredIsHeld,
           FlockExclusive, FlockIsRegistered, Holds
    <1>5. HolderIsRegistered'
        BY DEF HolderIsRegistered, RegisteredIsHeld, AttemptOwnsGuard, DeadIsClean, Holds
    <1>6. RegisteredIsHeld'
        BY DEF RegisteredIsHeld, HolderIsRegistered, AttemptOwnsGuard, DeadIsClean, Holds
    <1>7. FlockIsRegistered'
        BY DEF FlockIsRegistered, HolderIsRegistered, RegisteredIsHeld, DeadIsClean,
           FlockExclusive, AttemptOwnsGuard, Holds
    <1> QED BY <1>1, <1>2, <1>3, <1>4, <1>5, <1>6, <1>7

\* Opening replaces a description nobody had locked and closes what a fork left.
LEMMA OpenStep ==
    ASSUME IInv, NEW p \in Procs, NEW t \in Threads, Open(p, t)
    PROVE  IInv'
    <1> USE DEF IInv
    <1>a. /\ pc[p][t] = "trying" /\ guard[p] = NoThread
          /\ registryPid[p] = p => registry[p] = NotHeld
          /\ registryPid' = [registryPid EXCEPT ![p] = p]
          /\ registry' = [registry EXCEPT ![p] = NotHeld]
          /\ guard' = [guard EXCEPT ![p] = t]
          /\ pc' = [pc EXCEPT ![p][t] = "opened"]
          /\ UNCHANGED <<threads, expired, own, inherited>>
        BY DEF Open, SetPc, Registered
    <1>b. path' \in Inodes /\ path' # NoInode /\ (path # NoInode => path' = path)
        <2>1. CASE path = NoInode
            BY <2>1, NamesAssumption DEF Open
        <2>2. CASE path # NoInode
            BY <2>2, NamesAssumption DEF Open
        <2> QED BY <2>1, <2>2
    <1>c. /\ inode' \in [Procs -> Inodes \cup {NoInode}]
          /\ refs' \in [Procs -> SUBSET Procs]
          /\ flocked' \in SUBSET Procs
          /\ p \in refs'[p] /\ inode'[p] = path'
        BY <1>b DEF Open, RefsAfterReset, RefsWithout
    <1>d. /\ flocked' \subseteq flocked \ {p}
          /\ \A q \in flocked' : inode'[q] = inode[q] /\ refs'[q] # {}
        BY DEF Open
    <1>e. \A q \in Procs \ {p} : q \in refs[q] =>
             /\ q \in refs'[q] /\ inode'[q] = inode[q]
             /\ q \in flocked' <=> q \in flocked
        <2> SUFFICES ASSUME NEW q \in Procs \ {p}, q \in refs[q]
                     PROVE  /\ q \in refs'[q] /\ inode'[q] = inode[q]
                            /\ q \in flocked' <=> q \in flocked
            OBVIOUS
        <2> DEFINE left == [RefsAfterReset(p) EXCEPT ![p] = {p}]
        <2>1. q \in left[q]
            BY DEF RefsAfterReset, RefsWithout
        <2>2. /\ refs' = left
              /\ flocked' = {x \in flocked \ {p} : left[x] # {}}
              /\ inode'[q] = IF left[q] = {} THEN NoInode ELSE inode[q]
            BY DEF Open
        <2> HIDE DEF left
        <2> QED BY <2>1, <2>2
    <1>1. TypeOK'
        BY <1>a, <1>b, <1>c, <1>d, <1>e, NamesAssumption
    <1>2. DeadIsClean'
        BY <1>a, <1>b, <1>c, <1>d, <1>e, NamesAssumption DEF DeadIsClean
    <1>3. FlockExclusive'
        BY <1>a, <1>b, <1>c, <1>d, <1>e DEF FlockExclusive
    <1>4. AttemptOwnsGuard'
        BY <1>a, <1>b, <1>c, <1>d, <1>e, NamesAssumption DEF AttemptOwnsGuard, DeadIsClean, HolderIsRegistered, RegisteredIsHeld,
           FlockExclusive, FlockIsRegistered, Holds
    <1>5. HolderIsRegistered'
        BY <1>a, <1>b, <1>c, <1>d, <1>e, NamesAssumption DEF HolderIsRegistered, RegisteredIsHeld, AttemptOwnsGuard, DeadIsClean, Holds
    <1>6. RegisteredIsHeld'
        BY <1>a, <1>b, <1>c, <1>d, <1>e, NamesAssumption DEF RegisteredIsHeld, HolderIsRegistered, AttemptOwnsGuard, DeadIsClean, Holds
    <1>7. FlockIsRegistered'
        BY <1>a, <1>b, <1>c, <1>d, <1>e, NamesAssumption DEF FlockIsRegistered, HolderIsRegistered, RegisteredIsHeld, DeadIsClean,
           FlockExclusive, AttemptOwnsGuard, Holds
    <1> QED BY <1>1, <1>2, <1>3, <1>4, <1>5, <1>6, <1>7

\* A successful flock preserves the invariant.
LEMMA FlockStep ==
    ASSUME IInv, NEW p \in Procs, NEW t \in Threads, Flock(p, t)
    PROVE  IInv'
    <1> USE NamesAssumption DEF IInv, Flock, FlockFree, SetPc
    <1>1. TypeOK'
        OBVIOUS
    <1>2. DeadIsClean'
        BY DEF DeadIsClean
    <1>3. FlockExclusive'
        BY DEF FlockExclusive, AttemptOwnsGuard
    <1>4. AttemptOwnsGuard'
        BY DEF AttemptOwnsGuard, DeadIsClean, HolderIsRegistered, RegisteredIsHeld,
           FlockExclusive, FlockIsRegistered, Holds
    <1>5. HolderIsRegistered'
        BY DEF HolderIsRegistered, RegisteredIsHeld, AttemptOwnsGuard, DeadIsClean, Holds
    <1>6. RegisteredIsHeld'
        BY DEF RegisteredIsHeld, HolderIsRegistered, AttemptOwnsGuard, DeadIsClean, Holds
    <1>7. FlockIsRegistered'
        BY DEF FlockIsRegistered, HolderIsRegistered, RegisteredIsHeld, DeadIsClean,
           FlockExclusive, AttemptOwnsGuard, Holds
    <1> QED BY <1>1, <1>2, <1>3, <1>4, <1>5, <1>6, <1>7

\* A refused flock preserves the invariant.
LEMMA FlockBusyStep ==
    ASSUME IInv, NEW p \in Procs, NEW t \in Threads, FlockBusy(p, t)
    PROVE  IInv'
    <1> USE NamesAssumption DEF IInv, FlockBusy, FlockFree, BackOff, SetPc, Close, RefsWithout
    <1>1. TypeOK'
        OBVIOUS
    <1>2. DeadIsClean'
        BY DEF DeadIsClean
    <1>3. FlockExclusive'
        BY DEF FlockExclusive, AttemptOwnsGuard
    <1>4. AttemptOwnsGuard'
        BY DEF AttemptOwnsGuard, DeadIsClean, HolderIsRegistered, RegisteredIsHeld,
           FlockExclusive, FlockIsRegistered, Holds
    <1>5. HolderIsRegistered'
        BY DEF HolderIsRegistered, RegisteredIsHeld, AttemptOwnsGuard, DeadIsClean, Holds
    <1>6. RegisteredIsHeld'
        BY DEF RegisteredIsHeld, HolderIsRegistered, AttemptOwnsGuard, DeadIsClean, Holds
    <1>7. FlockIsRegistered'
        BY DEF FlockIsRegistered, HolderIsRegistered, RegisteredIsHeld, DeadIsClean,
           FlockExclusive, AttemptOwnsGuard, Holds
    <1> QED BY <1>1, <1>2, <1>3, <1>4, <1>5, <1>6, <1>7

\* Registering turns an attempt on the live file into a hold of depth one.
LEMMA RegisterStep ==
    ASSUME IInv, NEW p \in Procs, NEW t \in Threads, Register(p, t)
    PROVE  IInv'
    <1> USE DEF IInv
    <1> DEFINE entry == [fd |-> p, pid |-> p, thread |-> t, depth |-> 1]
    <1>a. /\ pc[p][t] = "flocked"
          /\ path # NoInode /\ inode[p] = path
          /\ registry' = [registry EXCEPT ![p] = entry]
          /\ own' = [own EXCEPT ![p][t] = 1]
          /\ guard' = [guard EXCEPT ![p] = NoThread]
          /\ pc' = [pc EXCEPT ![p][t] = "idle"]
          /\ expired' = [expired EXCEPT ![p][t] = FALSE]
          /\ UNCHANGED <<path, threads, registryPid, inode, refs, flocked, inherited>>
        BY DEF Register, GuardsLivePath, Return, SetPc, descriptors
    <1>b. /\ entry \in Held /\ entry # NotHeld
          /\ entry.fd = p /\ entry.pid = p /\ entry.thread = t /\ entry.depth = 1
        BY NamesAssumption
    <1>c. /\ guard[p] = t /\ registryPid[p] = p /\ registry[p] = NotHeld
          /\ p \in refs[p] /\ p \in flocked
          /\ \A u \in Threads : ~Holds(p, u)
        BY <1>a DEF AttemptOwnsGuard, HolderIsRegistered
    <1> HIDE DEF entry
    <1>1. TypeOK'
        BY <1>a, <1>b, <1>c
    <1>2. DeadIsClean'
        BY <1>a, <1>b, <1>c DEF DeadIsClean
    <1>3. FlockExclusive'
        BY <1>a, <1>b, <1>c DEF FlockExclusive, AttemptOwnsGuard
    <1>4. AttemptOwnsGuard'
        BY <1>a, <1>b, <1>c DEF AttemptOwnsGuard, DeadIsClean, HolderIsRegistered, RegisteredIsHeld,
           FlockExclusive, FlockIsRegistered, Holds
    <1>5. HolderIsRegistered'
        BY <1>a, <1>b, <1>c DEF HolderIsRegistered, RegisteredIsHeld, AttemptOwnsGuard, DeadIsClean, Holds
    <1>6. RegisteredIsHeld'
        BY <1>a, <1>b, <1>c DEF RegisteredIsHeld, HolderIsRegistered, AttemptOwnsGuard, DeadIsClean, Holds
    <1>7. FlockIsRegistered'
        BY <1>a, <1>b, <1>c DEF FlockIsRegistered, HolderIsRegistered, RegisteredIsHeld, DeadIsClean,
           FlockExclusive, AttemptOwnsGuard, Holds
    <1> QED BY <1>1, <1>2, <1>3, <1>4, <1>5, <1>6, <1>7

\* Dropping an orphaned inode preserves the invariant.
LEMMA OrphanedStep ==
    ASSUME IInv, NEW p \in Procs, NEW t \in Threads, Orphaned(p, t)
    PROVE  IInv'
    <1> USE NamesAssumption DEF IInv, Orphaned, BackOff, SetPc, Close, RefsWithout
    <1>1. TypeOK'
        OBVIOUS
    <1>2. DeadIsClean'
        BY DEF DeadIsClean
    <1>3. FlockExclusive'
        BY DEF FlockExclusive, AttemptOwnsGuard
    <1>4. AttemptOwnsGuard'
        BY DEF AttemptOwnsGuard, DeadIsClean, HolderIsRegistered, RegisteredIsHeld,
           FlockExclusive, FlockIsRegistered, Holds
    <1>5. HolderIsRegistered'
        BY DEF HolderIsRegistered, RegisteredIsHeld, AttemptOwnsGuard, DeadIsClean, Holds
    <1>6. RegisteredIsHeld'
        BY DEF RegisteredIsHeld, HolderIsRegistered, AttemptOwnsGuard, DeadIsClean, Holds
    <1>7. FlockIsRegistered'
        BY DEF FlockIsRegistered, HolderIsRegistered, RegisteredIsHeld, DeadIsClean,
           FlockExclusive, AttemptOwnsGuard, Holds
    <1> QED BY <1>1, <1>2, <1>3, <1>4, <1>5, <1>6, <1>7

\* Another attempt preserves the invariant.
LEMMA RetryStep ==
    ASSUME IInv, NEW p \in Procs, NEW t \in Threads, Retry(p, t)
    PROVE  IInv'
    <1> USE NamesAssumption DEF IInv, Retry, SetPc, descriptors
    <1>1. TypeOK'
        OBVIOUS
    <1>2. DeadIsClean'
        BY DEF DeadIsClean
    <1>3. FlockExclusive'
        BY DEF FlockExclusive, AttemptOwnsGuard
    <1>4. AttemptOwnsGuard'
        BY DEF AttemptOwnsGuard, DeadIsClean, HolderIsRegistered, RegisteredIsHeld,
           FlockExclusive, FlockIsRegistered, Holds
    <1>5. HolderIsRegistered'
        BY DEF HolderIsRegistered, RegisteredIsHeld, AttemptOwnsGuard, DeadIsClean, Holds
    <1>6. RegisteredIsHeld'
        BY DEF RegisteredIsHeld, HolderIsRegistered, AttemptOwnsGuard, DeadIsClean, Holds
    <1>7. FlockIsRegistered'
        BY DEF FlockIsRegistered, HolderIsRegistered, RegisteredIsHeld, DeadIsClean,
           FlockExclusive, AttemptOwnsGuard, Holds
    <1> QED BY <1>1, <1>2, <1>3, <1>4, <1>5, <1>6, <1>7

\* LockBusy preserves the invariant.
LEMMA GiveUpStep ==
    ASSUME IInv, NEW p \in Procs, NEW t \in Threads, GiveUp(p, t)
    PROVE  IInv'
    <1> USE NamesAssumption DEF IInv, GiveUp, Return, SetPc, descriptors
    <1>1. TypeOK'
        OBVIOUS
    <1>2. DeadIsClean'
        BY DEF DeadIsClean
    <1>3. FlockExclusive'
        BY DEF FlockExclusive, AttemptOwnsGuard
    <1>4. AttemptOwnsGuard'
        BY DEF AttemptOwnsGuard, DeadIsClean, HolderIsRegistered, RegisteredIsHeld,
           FlockExclusive, FlockIsRegistered, Holds
    <1>5. HolderIsRegistered'
        BY DEF HolderIsRegistered, RegisteredIsHeld, AttemptOwnsGuard, DeadIsClean, Holds
    <1>6. RegisteredIsHeld'
        BY DEF RegisteredIsHeld, HolderIsRegistered, AttemptOwnsGuard, DeadIsClean, Holds
    <1>7. FlockIsRegistered'
        BY DEF FlockIsRegistered, HolderIsRegistered, RegisteredIsHeld, DeadIsClean,
           FlockExclusive, AttemptOwnsGuard, Holds
    <1> QED BY <1>1, <1>2, <1>3, <1>4, <1>5, <1>6, <1>7

\* Leaving a block: a depth goes down, or the lock is freed.
LEMMA ReleaseStep ==
    ASSUME IInv, NEW p \in Procs, NEW t \in Threads, Release(p, t)
    PROVE  IInv'
    <1> USE DEF IInv
    <1>a. /\ pc[p][t] = "idle" /\ guard[p] = NoThread /\ Holds(p, t)
          /\ own' = [own EXCEPT ![p][t] = @ - 1]
          /\ UNCHANGED <<path, threads, registryPid, guard, pc, expired, inherited>>
        BY DEF Release, Holds
    <1>b. /\ registry[p] \in Held /\ registry[p] # NotHeld /\ registryPid[p] = p
          /\ registry[p].fd = p /\ registry[p].pid = p /\ registry[p].thread = t
          /\ registry[p].depth = own[p][t] /\ own[p][t] \in Nat \ {0}
          /\ p \in refs[p] /\ p \in flocked /\ inode[p] = path /\ path # NoInode
        BY <1>a DEF HolderIsRegistered, Holds
    <1>c. \A u \in Threads \ {t} : own[p][u] = 0
        BY <1>b DEF HolderIsRegistered, Holds
    <1>x. CASE registry[p].depth > 1
        <2> DEFINE shallower == [registry[p] EXCEPT !.depth = registry[p].depth - 1]
        <2>a. registry' = [registry EXCEPT ![p] = shallower]
              /\ UNCHANGED <<inode, refs, flocked>>
            BY <1>x DEF Release, descriptors
        <2>b. /\ shallower \in Held /\ shallower # NotHeld /\ shallower.fd = p
              /\ shallower.pid = p /\ shallower.thread = t
              /\ shallower.depth = own[p][t] - 1 /\ own[p][t] - 1 > 0
            <3>1. registry[p] \in Held /\ own[p][t] \in Nat /\ own[p][t] - 1 \in Nat
                BY <1>b
            <3>2. shallower = [registry[p] EXCEPT !.depth = own[p][t] - 1]
                BY <1>b
            <3>3. own[p][t] - 1 > 0
                <4>1. \A n \in Nat : n > 1 => n - 1 > 0
                    OBVIOUS
                <4> QED BY <4>1, <3>1, <1>b, <1>x
            <3> HIDE DEF shallower
            <3> QED BY <3>1, <3>2, <3>3, <1>b, WithDepth
        <2> HIDE DEF shallower
        <2>1. TypeOK'
            BY <1>a, <1>b, <1>c, <2>a, <2>b
        <2>2. DeadIsClean'
            BY <1>a, <1>b, <1>c, <2>a, <2>b DEF DeadIsClean
        <2>3. FlockExclusive'
            BY <1>a, <1>b, <1>c, <2>a, <2>b DEF FlockExclusive, AttemptOwnsGuard
        <2>4. AttemptOwnsGuard'
            BY <1>a, <1>b, <1>c, <2>a, <2>b DEF AttemptOwnsGuard, DeadIsClean, HolderIsRegistered, RegisteredIsHeld,
           FlockExclusive, FlockIsRegistered, Holds
        <2>5. HolderIsRegistered'
            BY <1>a, <1>b, <1>c, <2>a, <2>b DEF HolderIsRegistered, RegisteredIsHeld, AttemptOwnsGuard, DeadIsClean, Holds
        <2>6. RegisteredIsHeld'
            BY <1>a, <1>b, <1>c, <2>a, <2>b DEF RegisteredIsHeld, HolderIsRegistered, AttemptOwnsGuard, DeadIsClean, Holds
        <2>7. FlockIsRegistered'
            BY <1>a, <1>b, <1>c, <2>a, <2>b DEF FlockIsRegistered, HolderIsRegistered, RegisteredIsHeld, DeadIsClean,
           FlockExclusive, AttemptOwnsGuard, Holds
        <2> QED BY <2>1, <2>2, <2>3, <2>4, <2>5, <2>6, <2>7
    <1>y. CASE ~(registry[p].depth > 1)
        <2>a. registry' = [registry EXCEPT ![p] = NotHeld]
            BY <1>y DEF Release
        <2>b. own[p][t] = 1
            <3>1. registry[p].depth = own[p][t] /\ own[p][t] \in Nat \ {0}
                BY <1>b
            <3>2. \A n \in Nat \ {0} : ~(n > 1) => n = 1
                OBVIOUS
            <3> QED BY <3>1, <3>2, <1>y
        <2>e. Close(RefsWithout(p, p), {p})
            BY <1>y, <1>b DEF Release
        <2>c. /\ refs' = [refs EXCEPT ![p] = @ \ {p}]
              /\ flocked' \subseteq flocked \ {p}
              /\ \A q \in flocked' : refs'[q] # {} /\ inode'[q] = inode[q]
              /\ inode' \in [Procs -> Inodes \cup {NoInode}]
            BY <2>e DEF Close, RefsWithout
        <2>d. \A q \in Procs \ {p} : q \in refs[q] =>
                 /\ q \in refs'[q] /\ inode'[q] = inode[q]
                 /\ q \in flocked' <=> q \in flocked
            BY <2>c, <2>e DEF Close, RefsWithout
        <2>1. TypeOK'
            BY <1>a, <1>b, <1>c, <2>a, <2>b, <2>c, <2>d
        <2>2. DeadIsClean'
            BY <1>a, <1>b, <1>c, <2>a, <2>b, <2>c, <2>d DEF DeadIsClean
        <2>3. FlockExclusive'
            BY <1>a, <1>b, <1>c, <2>a, <2>b, <2>c, <2>d DEF FlockExclusive, AttemptOwnsGuard
        <2>4. AttemptOwnsGuard'
            BY <1>a, <1>b, <1>c, <2>a, <2>b, <2>c, <2>d DEF AttemptOwnsGuard, DeadIsClean, HolderIsRegistered, RegisteredIsHeld,
           FlockExclusive, FlockIsRegistered, Holds
        <2>5. HolderIsRegistered'
            BY <1>a, <1>b, <1>c, <2>a, <2>b, <2>c, <2>d DEF HolderIsRegistered, RegisteredIsHeld, AttemptOwnsGuard, DeadIsClean, Holds
        <2>6. RegisteredIsHeld'
            BY <1>a, <1>b, <1>c, <2>a, <2>b, <2>c, <2>d DEF RegisteredIsHeld, HolderIsRegistered, AttemptOwnsGuard, DeadIsClean, Holds
        <2>7. FlockIsRegistered'
            BY <1>a, <1>b, <1>c, <2>a, <2>b, <2>c, <2>d DEF FlockIsRegistered, HolderIsRegistered, RegisteredIsHeld, DeadIsClean,
           FlockExclusive, AttemptOwnsGuard, Holds
        <2> QED BY <2>1, <2>2, <2>3, <2>4, <2>5, <2>6, <2>7
    <1> QED BY <1>x, <1>y

\* A forked child leaving an inherited block preserves the invariant.
LEMMA ReleaseInheritedStep ==
    ASSUME IInv, NEW p \in Procs, NEW t \in Threads, ReleaseInherited(p, t)
    PROVE  IInv'
    <1> USE NamesAssumption DEF IInv, ReleaseInherited, Close, RefsWithout, RefsAfterReset, Registered
    <1>1. TypeOK'
        OBVIOUS
    <1>2. DeadIsClean'
        BY DEF DeadIsClean
    <1>3. FlockExclusive'
        BY DEF FlockExclusive, AttemptOwnsGuard
    <1>4. AttemptOwnsGuard'
        BY DEF AttemptOwnsGuard, DeadIsClean, HolderIsRegistered, RegisteredIsHeld,
           FlockExclusive, FlockIsRegistered, Holds
    <1>5. HolderIsRegistered'
        BY DEF HolderIsRegistered, RegisteredIsHeld, AttemptOwnsGuard, DeadIsClean, Holds
    <1>6. RegisteredIsHeld'
        BY DEF RegisteredIsHeld, HolderIsRegistered, AttemptOwnsGuard, DeadIsClean, Holds
    <1>7. FlockIsRegistered'
        BY DEF FlockIsRegistered, HolderIsRegistered, RegisteredIsHeld, DeadIsClean,
           FlockExclusive, AttemptOwnsGuard, Holds
    <1> QED BY <1>1, <1>2, <1>3, <1>4, <1>5, <1>6, <1>7

\* A new process preserves the invariant.
LEMMA StartStep ==
    ASSUME IInv, NEW p \in Procs, Start(p)
    PROVE  IInv'
    <1> USE NamesAssumption DEF IInv, Start, descriptors
    <1>1. TypeOK'
        OBVIOUS
    <1>2. DeadIsClean'
        BY DEF DeadIsClean
    <1>3. FlockExclusive'
        BY DEF FlockExclusive, AttemptOwnsGuard
    <1>4. AttemptOwnsGuard'
        BY DEF AttemptOwnsGuard, DeadIsClean, HolderIsRegistered, RegisteredIsHeld,
           FlockExclusive, FlockIsRegistered, Holds
    <1>5. HolderIsRegistered'
        BY DEF HolderIsRegistered, RegisteredIsHeld, AttemptOwnsGuard, DeadIsClean, Holds
    <1>6. RegisteredIsHeld'
        BY DEF RegisteredIsHeld, HolderIsRegistered, AttemptOwnsGuard, DeadIsClean, Holds
    <1>7. FlockIsRegistered'
        BY DEF FlockIsRegistered, HolderIsRegistered, RegisteredIsHeld, DeadIsClean,
           FlockExclusive, AttemptOwnsGuard, Holds
    <1> QED BY <1>1, <1>2, <1>3, <1>4, <1>5, <1>6, <1>7

\* The end of a process preserves the invariant.
LEMMA CrashStep ==
    ASSUME IInv, NEW p \in Procs, Crash(p)
    PROVE  IInv'
    <1> USE NamesAssumption DEF IInv, Crash, Zero, Close
    <1>1. TypeOK'
        OBVIOUS
    <1>2. DeadIsClean'
        BY DEF DeadIsClean
    <1>3. FlockExclusive'
        BY DEF FlockExclusive, AttemptOwnsGuard
    <1>4. AttemptOwnsGuard'
        BY DEF AttemptOwnsGuard, DeadIsClean, HolderIsRegistered, RegisteredIsHeld,
           FlockExclusive, FlockIsRegistered, Holds
    <1>5. HolderIsRegistered'
        BY DEF HolderIsRegistered, RegisteredIsHeld, AttemptOwnsGuard, DeadIsClean, Holds
    <1>6. RegisteredIsHeld'
        BY DEF RegisteredIsHeld, HolderIsRegistered, AttemptOwnsGuard, DeadIsClean, Holds
    <1>7. FlockIsRegistered'
        BY DEF FlockIsRegistered, HolderIsRegistered, RegisteredIsHeld, DeadIsClean,
           FlockExclusive, AttemptOwnsGuard, Holds
    <1> QED BY <1>1, <1>2, <1>3, <1>4, <1>5, <1>6, <1>7

\* A fork gives the child copies, and no lock of its own.
LEMMA ForkStep ==
    ASSUME IInv, NEW p \in Procs, NEW t \in Threads, NEW c \in Procs, Fork(p, t, c)
    PROVE  IInv'
    <1> USE DEF IInv, Fork
    <1>a. /\ threads[c] = {} /\ refs[c] = {} /\ p # c /\ threads'[c] = {t}
          /\ \A q \in Procs \ {c} : threads'[q] = threads[q]
          /\ \A q \in Procs \ {c} : registryPid'[q] = registryPid[q]
          /\ \A q \in Procs \ {c} : registry'[q] = registry[q]
          /\ \A q \in Procs \ {c} : guard'[q] = guard[q]
        OBVIOUS
    <1>1. TypeOK'
        OBVIOUS
    <1>2. DeadIsClean'
        <2> SUFFICES ASSUME NEW q \in Procs, threads'[q] = {}
                     PROVE  /\ registryPid'[q] = q /\ registry'[q] = NotHeld
                            /\ guard'[q] = NoThread
                            /\ \A u \in Threads : pc'[q][u] = "idle" /\ own'[q][u] = 0
            BY DEF DeadIsClean
        <2>1. q # c /\ threads[q] = {}
            BY <1>a
        <2>2. UNCHANGED <<pc, own>>
            OBVIOUS
        <2> HIDE DEF Fork
        <2> QED BY <1>a, <2>1, <2>2 DEF DeadIsClean
    <1>3. FlockExclusive'
        BY DEF FlockExclusive, AttemptOwnsGuard
    <1>4. AttemptOwnsGuard'
        BY DEF AttemptOwnsGuard, DeadIsClean, HolderIsRegistered, RegisteredIsHeld,
           FlockExclusive, FlockIsRegistered, Holds
    <1>5. HolderIsRegistered'
        BY DEF HolderIsRegistered, RegisteredIsHeld, AttemptOwnsGuard, DeadIsClean, Holds
    <1>6. RegisteredIsHeld'
        BY DEF RegisteredIsHeld, HolderIsRegistered, AttemptOwnsGuard, DeadIsClean, Holds
    <1>7. FlockIsRegistered'
        BY DEF FlockIsRegistered, HolderIsRegistered, RegisteredIsHeld, DeadIsClean,
           FlockExclusive, AttemptOwnsGuard, Holds
    <1> QED BY <1>1, <1>2, <1>3, <1>4, <1>5, <1>6, <1>7

\* Deleting the lock file preserves the invariant.
LEMMA UnlinkStep ==
    ASSUME IInv, Unlink
    PROVE  IInv'
    <1> USE NamesAssumption DEF IInv, Unlink, descriptors
    <1>1. TypeOK'
        OBVIOUS
    <1>2. DeadIsClean'
        BY DEF DeadIsClean
    <1>3. FlockExclusive'
        BY DEF FlockExclusive, AttemptOwnsGuard
    <1>4. AttemptOwnsGuard'
        BY DEF AttemptOwnsGuard, DeadIsClean, HolderIsRegistered, RegisteredIsHeld,
           FlockExclusive, FlockIsRegistered, Holds
    <1>5. HolderIsRegistered'
        BY DEF HolderIsRegistered, RegisteredIsHeld, AttemptOwnsGuard, DeadIsClean, Holds
    <1>6. RegisteredIsHeld'
        BY DEF RegisteredIsHeld, HolderIsRegistered, AttemptOwnsGuard, DeadIsClean, Holds
    <1>7. FlockIsRegistered'
        BY DEF FlockIsRegistered, HolderIsRegistered, RegisteredIsHeld, DeadIsClean,
           FlockExclusive, AttemptOwnsGuard, Holds
    <1> QED BY <1>1, <1>2, <1>3, <1>4, <1>5, <1>6, <1>7

\* Every step of the specification preserves the invariant.
LEMMA NextIInv == IInv /\ [Next]_vars => IInv'
    <1> SUFFICES ASSUME IInv, [Next]_vars PROVE IInv'
        OBVIOUS
    <1>1. ASSUME NEW p \in Procs, NEW t \in Threads,
                 Request(p, t) \/ Tick(p, t) \/ Acquiring(p, t)
                     \/ Release(p, t) \/ ReleaseInherited(p, t)
          PROVE  IInv'
        BY <1>1, RequestStep, TickStep, NestStep, HeldElsewhereStep, OpenStep, FlockStep,
           FlockBusyStep, RegisterStep, OrphanedStep, RetryStep, GiveUpStep, ReleaseStep,
           ReleaseInheritedStep DEF Acquiring
    <1>2. ASSUME NEW p \in Procs, Start(p) \/ Crash(p)
          PROVE  IInv'
        BY <1>2, StartStep, CrashStep
    <1>3. ASSUME NEW p \in Procs, NEW c \in Procs, NEW t \in Threads, Fork(p, t, c)
          PROVE  IInv'
        BY <1>3, ForkStep
    <1>4. CASE Unlink
        BY <1>4, UnlinkStep
    <1>5. CASE UNCHANGED vars
        BY <1>5 DEF vars, IInv, DeadIsClean, FlockExclusive, AttemptOwnsGuard,
           HolderIsRegistered, RegisteredIsHeld, FlockIsRegistered, Holds
    <1> QED BY <1>1, <1>2, <1>3, <1>4, <1>5 DEF Next

\* A step after which a holder has no flock is its last release or its end.
LEMMA UnlockStep ==
    ASSUME IInv, [Next]_vars, NEW p \in Procs, NEW t \in Threads, Holds(p, t), p \notin flocked'
    PROVE  (own[p][t] = 1 /\ own'[p][t] = 0) \/ threads'[p] = {}
    <1>a. /\ registryPid[p] = p /\ registry[p] # NotHeld
          /\ registry[p].fd = p /\ registry[p].thread = t
          /\ registry[p].depth = own[p][t] /\ own[p][t] \in Nat
          /\ p \in refs[p] /\ p \in flocked
        BY DEF IInv, HolderIsRegistered, Holds
    <1> USE DEF IInv
    <1>b. \A u \in Threads : pc[p][u] \notin {"opened", "flocked"}
        BY <1>a DEF AttemptOwnsGuard
    <1>1. ASSUME NEW q \in Procs, NEW u \in Threads, NEW c \in Procs, Open(q, u)
          PROVE  (own[p][t] = 1 /\ own'[p][t] = 0) \/ threads'[p] = {}
        BY <1>a, <1>b, <1>1 DEF Open, RefsAfterReset, RefsWithout, Registered
    <1>2. ASSUME NEW q \in Procs, NEW u \in Threads, NEW c \in Procs, Flock(q, u)
          PROVE  (own[p][t] = 1 /\ own'[p][t] = 0) \/ threads'[p] = {}
        BY <1>a, <1>b, <1>2 DEF Flock
    <1>3. ASSUME NEW q \in Procs, NEW u \in Threads, NEW c \in Procs, FlockBusy(q, u)
          PROVE  (own[p][t] = 1 /\ own'[p][t] = 0) \/ threads'[p] = {}
        BY <1>a, <1>b, <1>3 DEF FlockBusy, BackOff, Close, RefsWithout
    <1>4. ASSUME NEW q \in Procs, NEW u \in Threads, NEW c \in Procs, Orphaned(q, u)
          PROVE  (own[p][t] = 1 /\ own'[p][t] = 0) \/ threads'[p] = {}
        BY <1>a, <1>b, <1>4 DEF Orphaned, BackOff, SetPc, Close, RefsWithout
    <1>5. ASSUME NEW q \in Procs, NEW u \in Threads, NEW c \in Procs, Release(q, u)
          PROVE  (own[p][t] = 1 /\ own'[p][t] = 0) \/ threads'[p] = {}
        <2>1. /\ Holds(q, u) /\ registry[q].fd = q /\ registry[q].thread = u
              /\ registry[q].depth = own[q][u] /\ own[q][u] \in Nat \ {0}
            BY <1>5 DEF Release, HolderIsRegistered, Holds
        <2>2. registry[q].depth <= 1 /\ Close(RefsWithout(q, q), {q})
            <3>1. registry[q].depth \in Nat
                BY <2>1
            <3>2. ~(registry[q].depth > 1)
                BY <1>5, <1>a DEF Release, descriptors
            <3>3. \A n \in Nat : ~(n > 1) => n <= 1
                OBVIOUS
            <3> QED BY <3>1, <3>2, <3>3, <1>5, <2>1 DEF Release
        <2>3. q = p
            BY <2>2, <1>a DEF Close, RefsWithout
        <2>4. u = t
            BY <2>1, <2>3, <1>a
        <2>5. own[p][t] = 1 /\ own' = [own EXCEPT ![p][t] = @ - 1]
            <3>1. \A n \in Nat \ {0} : n <= 1 => n = 1
                OBVIOUS
            <3> QED BY <3>1, <2>1, <2>2, <2>3, <2>4, <1>5 DEF Release
        <2> QED BY <2>5
    <1>6. ASSUME NEW q \in Procs, NEW u \in Threads, NEW c \in Procs, ReleaseInherited(q, u)
          PROVE  (own[p][t] = 1 /\ own'[p][t] = 0) \/ threads'[p] = {}
        BY <1>a, <1>b, <1>6 DEF ReleaseInherited, Close, RefsWithout, RefsAfterReset, Registered
    <1>7. ASSUME NEW q \in Procs, NEW u \in Threads, NEW c \in Procs, Crash(q)
          PROVE  (own[p][t] = 1 /\ own'[p][t] = 0) \/ threads'[p] = {}
        BY <1>a, <1>b, <1>7 DEF Crash, Close
    <1>8. ASSUME NEW q \in Procs, NEW u \in Threads, NEW c \in Procs, Fork(q, u, c)
          PROVE  (own[p][t] = 1 /\ own'[p][t] = 0) \/ threads'[p] = {}
        BY <1>a, <1>b, <1>8 DEF Fork
    <1>9. ASSUME NEW q \in Procs, NEW u \in Threads,
                 \/ Request(q, u) \/ Tick(q, u) \/ Nest(q, u) \/ HeldElsewhere(q, u)
                 \/ Register(q, u) \/ Retry(q, u) \/ GiveUp(q, u) \/ Start(q) \/ Unlink
                 \/ UNCHANGED vars
          PROVE  FALSE
        BY <1>a, <1>9 DEF Request, Tick, Nest, HeldElsewhere, Register, Retry, GiveUp, Start,
           Unlink, descriptors, vars
    <1> QED BY <1>1, <1>2, <1>3, <1>4, <1>5, <1>6, <1>7, <1>8, <1>9 DEF Next, Acquiring

-----------------------------------------------------------------------------
(* The theorems.                                                           *)

\* The invariant holds in every reachable state.
THEOREM Invariance == Spec => []IInv
    BY InitIInv, NextIInv, PTL DEF Spec

\* The variables keep their types: no count goes below zero.
THEOREM TypeCorrect == Spec => []TypeOK
    <1>1. IInv => TypeOK
        BY DEF IInv
    <1> QED BY Invariance, <1>1, PTL

\* Two threads, of one process or two, are never inside the lock together.
THEOREM LockExcludes == Spec => []MutualExclusion
    <1>1. IInv => MutualExclusion
        <2> SUFFICES ASSUME IInv, NEW p \in Procs, NEW q \in Procs,
                            NEW t \in Threads, NEW u \in Threads,
                            Holds(p, t), Holds(q, u)
                     PROVE  p = q /\ t = u
            BY DEF MutualExclusion
        <2>1. p = q
            BY DEF IInv, HolderIsRegistered, FlockExclusive
        <2> QED BY <2>1 DEF IInv, HolderIsRegistered
    <1> QED BY Invariance, <1>1, PTL

\* The holder's flock is on the file at the lock path, never on an orphan.
THEOREM HolderIsOnLivePath == Spec => []HolderGuardsPath
    <1>1. IInv => HolderGuardsPath
        BY DEF IInv, HolderIsRegistered, HolderGuardsPath
    <1> QED BY Invariance, <1>1, PTL

\* The registry counts the blocks its owner is in.
THEOREM DepthIsExact == Spec => []DepthCountsBlocks
    <1>1. IInv => DepthCountsBlocks
        BY DEF IInv, HolderIsRegistered, RegisteredIsHeld, DepthCountsBlocks, Holds
    <1> QED BY Invariance, <1>1, PTL

\* No failed or finished acquisition leaves the flock behind in a live process.
THEOREM NoFlockLeaks == Spec => []NoLeakedFlock
    <1>1. IInv => NoLeakedFlock
        <2> SUFFICES ASSUME IInv, NEW p \in Procs, p \in flocked,
                            threads[p] # {}, guard[p] = NoThread
                     PROVE  \E t \in Threads : Holds(p, t)
            BY DEF NoLeakedFlock
        <2>1. registry[p] \in Held /\ Holds(p, registry[p].thread)
            BY DEF IInv, RegisteredIsHeld, FlockIsRegistered
        <2> QED BY <2>1
    <1> QED BY Invariance, <1>1, PTL
\* Only the owner leaving its last block, or its death, gives up a held flock.
THEOREM OwnerUnlocks == Spec => OnlyOwnerUnlocks
    <1>1. IInv /\ [Next]_vars =>
              [\A p \in Procs, t \in Threads :
                  Holds(p, t) /\ p \notin flocked' =>
                      \/ own[p][t] = 1 /\ own'[p][t] = 0
                      \/ threads'[p] = {}]_vars
        BY UnlockStep
    <1> QED BY Invariance, <1>1, PTL DEF Spec, OnlyOwnerUnlocks

-----------------------------------------------------------------------------
(* The lock implements the abstract mutex: the owner is the thread that    *)
(* has an acquired WriteLock object, the depth its number of objects.      *)

\* While one thread holds the lock it is the owner, with its count as the depth.
LEMMA OwnerIs ==
    ASSUME MutualExclusion, NEW p \in Procs, NEW t \in Threads, Holds(p, t)
    PROVE  Holders # {} /\ Owner = <<p, t>>
    <1>1. Holders = {<<p, t>>}
        BY DEF Holders, MutualExclusion
    <1> QED BY <1>1 DEF Owner

\* The same of the state after a step.
LEMMA OwnerIsNext ==
    ASSUME MutualExclusion', NEW p \in Procs, NEW t \in Threads, Holds(p, t)'
    PROVE  Holders' # {} /\ Owner' = <<p, t>>
    <1>1. Holders' = {<<p, t>>}
        BY DEF Holders, MutualExclusion
    <1> QED BY <1>1 DEF Owner

\* With no thread inside, nobody owns the mutex.
LEMMA NobodyIs ==
    ASSUME \A p \in Procs, t \in Threads : ~Holds(p, t)
    PROVE  Holders = {}
    BY DEF Holders

\* The initial states map to the mutex's initial state.
LEMMA InitMutex == Init => M!Init
    <1> SUFFICES ASSUME Init PROVE M!Init
        OBVIOUS
    <1>1. Holders = {}
        BY NobodyIs DEF Init, Zero, Holds
    <1> QED BY <1>1 DEF M!Init, Owner

\* A step that changes nobody's count is a stutter of the mutex.
LEMMA SameCounts ==
    ASSUME UNCHANGED own
    PROVE  UNCHANGED <<Owner, IF Holders = {} THEN 0 ELSE own[Owner[1]][Owner[2]]>>
    <1>1. Holders' = Holders
        BY DEF Holders, Holds
    <1>2. Owner' = Owner
        BY <1>1 DEF Owner
    <1> QED BY <1>1, <1>2

\* Every step is a step of the mutex or a stutter.
LEMMA StepMutex ==
    ASSUME IInv, IInv', MutualExclusion, MutualExclusion', [Next]_vars
    PROVE  [M!Next]_<<Owner, IF Holders = {} THEN 0 ELSE own[Owner[1]][Owner[2]]>>
    <1> USE DEF IInv
    <1>1. ASSUME NEW p \in Procs, NEW t \in Threads, Nest(p, t)
          PROVE  M!Nest
        <2>1. registry[p] # NotHeld /\ registryPid[p] = p /\ registry[p].thread = t
              /\ own' = [own EXCEPT ![p][t] = @ + 1]
            BY <1>1 DEF Nest
        <2>2. Holds(p, t)
            BY <2>1 DEF RegisteredIsHeld
        <2>3. Holds(p, t)' /\ own'[p][t] = own[p][t] + 1
            BY <2>1, <2>2 DEF Holds
        <2>4. Holders # {} /\ Owner = <<p, t>> /\ Holders' # {} /\ Owner' = <<p, t>>
            BY <2>2, <2>3, OwnerIs, OwnerIsNext
        <2> QED BY <2>3, <2>4, NamesAssumption DEF M!Nest, Nobody
    <1>2. ASSUME NEW p \in Procs, NEW t \in Threads, Register(p, t)
          PROVE  M!Acquire(<<p, t>>)
        <2>1. /\ p \in flocked /\ inode[p] = path /\ registry[p] = NotHeld
              /\ own' = [own EXCEPT ![p][t] = 1]
            BY <1>2 DEF Register, GuardsLivePath, AttemptOwnsGuard
        <2>2. \A q \in Procs, u \in Threads : ~Holds(q, u)
            BY <2>1 DEF HolderIsRegistered, FlockExclusive
        <2>3. Holders = {}
            BY <2>2, NobodyIs
        <2>4. Holds(p, t)' /\ own'[p][t] = 1
            BY <2>1 DEF Holds
        <2>5. Holders' # {} /\ Owner' = <<p, t>>
            BY <2>4, OwnerIsNext
        <2> QED BY <2>3, <2>4, <2>5 DEF M!Acquire, Owner
    <1>3. ASSUME NEW p \in Procs, NEW t \in Threads, Release(p, t)
          PROVE  M!Leave \/ M!Free
        <2>1. Holds(p, t) /\ own' = [own EXCEPT ![p][t] = @ - 1]
              /\ own[p][t] \in Nat \ {0} /\ own'[p][t] = own[p][t] - 1
            BY <1>3 DEF Release, Holds
        <2>2. Holders # {} /\ Owner = <<p, t>>
            BY <2>1, OwnerIs
        <2>3. CASE own[p][t] > 1
            <3>1. Holds(p, t)'
                BY <2>1, <2>3 DEF Holds
            <3>2. Holders' # {} /\ Owner' = <<p, t>>
                BY <3>1, OwnerIsNext
            <3> QED BY <2>1, <2>2, <2>3, <3>2, NamesAssumption DEF M!Leave, Nobody
        <2>4. CASE own[p][t] = 1
            <3>1. \A q \in Procs, u \in Threads : ~Holds(q, u)'
                BY <2>1, <2>4 DEF Holds, MutualExclusion
            <3>2. Holders' = {}
                BY <3>1 DEF Holders
            <3> QED BY <2>2, <2>4, <3>2, NamesAssumption DEF M!Free, Nobody, Owner
        <2> QED BY <2>1, <2>3, <2>4
    <1>4. ASSUME NEW p \in Procs, Crash(p)
          PROVE  M!Die \/ UNCHANGED <<Owner, IF Holders = {} THEN 0 ELSE own[Owner[1]][Owner[2]]>>
        <2>1. own' = [own EXCEPT ![p] = Zero]
            BY <1>4 DEF Crash
        <2>2. CASE \E t \in Threads : Holds(p, t)
            <3>1. PICK t \in Threads : Holds(p, t)
                BY <2>2
            <3>2. Holders # {} /\ Owner = <<p, t>>
                BY <3>1, OwnerIs
            <3>3. \A q \in Procs, u \in Threads : ~Holds(q, u)'
                BY <2>1, <3>1 DEF Holds, MutualExclusion, Zero
            <3>4. Holders' = {}
                BY <3>3 DEF Holders
            <3> QED BY <3>2, <3>4, NamesAssumption DEF M!Die, Nobody, Owner
        <2>3. CASE \A t \in Threads : ~Holds(p, t)
            <3>1. \A q \in Procs, u \in Threads : own'[q][u] = own[q][u]
                BY <2>1, <2>3 DEF Zero, Holds
            <3>2. UNCHANGED own
                BY <3>1
            <3> QED BY <3>2, SameCounts
        <2> QED BY <2>2, <2>3
    <1>5. ASSUME NEW p \in Procs, NEW t \in Threads, NEW c \in Procs,
                 \/ Request(p, t) \/ Tick(p, t) \/ HeldElsewhere(p, t) \/ Open(p, t)
                 \/ Flock(p, t) \/ FlockBusy(p, t) \/ Orphaned(p, t) \/ Retry(p, t)
                 \/ GiveUp(p, t) \/ ReleaseInherited(p, t) \/ Start(p) \/ Fork(p, t, c)
                 \/ Unlink \/ UNCHANGED vars
          PROVE  UNCHANGED own
        BY <1>5 DEF Request, Tick, HeldElsewhere, Open, Flock, FlockBusy, Orphaned, BackOff,
           Retry, GiveUp, ReleaseInherited, Start, Fork, Unlink, vars
    <1>6. CASE \E p \in Procs, t \in Threads :
                  Nest(p, t) \/ Register(p, t) \/ Release(p, t) \/ Crash(p)
        <2>1. ASSUME NEW p \in Procs, NEW t \in Threads, Register(p, t)
              PROVE  M!Next
            <3>1. <<p, t>> \in Procs \X Threads
                OBVIOUS
            <3> QED BY <1>2, <2>1, <3>1 DEF M!Next
        <2> QED BY <1>1, <1>3, <1>4, <1>6, <2>1 DEF M!Next
    <1>7. CASE UNCHANGED own
        BY <1>7, SameCounts
    <1>8. CASE \E p \in Procs : Crash(p)
        BY <1>4, <1>8 DEF M!Next
    <1> QED BY <1>5, <1>6, <1>7, <1>8 DEF Next, Acquiring

\* The lock file, flock and the registries together behave as one mutex.
THEOREM LockRefinesMutex == Spec => ImplementsMutex
    <1>1. IInv /\ MutualExclusion /\ IInv' /\ MutualExclusion' /\ [Next]_vars =>
              [M!Next]_<<Owner, IF Holders = {} THEN 0 ELSE own[Owner[1]][Owner[2]]>>
        BY StepMutex
    <1> QED BY InitMutex, Invariance, LockExcludes, <1>1, PTL DEF Spec, ImplementsMutex, M!Spec

-----------------------------------------------------------------------------
(* The watch loop                                                          *)

USE PathsAssumption

\* No state is later than the last edit, so an edit differs from every snapshot.
Past ==
    \A f \in Files :
        /\ disk[f] \in 0..edits \cup {Absent}
        /\ current[f] \in 0..edits \cup {Absent}

\* A path is worked on only inside a batch, and a batch is worked off before the loop
\* sleeps; when a path has changed since it was read, the loop will notice, or the
\* poll loop's snapshot never showed it and it is gone.
AtWork ==
    /\ at \in {"sleep", "retry"} => batch = {}
    /\ target # NoPath =>
         /\ at = "batch"
         /\ disk[target] # seen =>
               target \in Changed \/ (backend = "poll" /\ disk[target] = Absent
                                    /\ current[target] = Absent)

\* A file the poll loop's last snapshot does not show and that has rows is in work,
\* or its last attempt left a mark.
Unseen ==
    at # "dead" /\ backend = "poll" =>
        \A f \in Files : current[f] = Absent /\ indexed[f] # Absent =>
            f \in batch \cup deferred \cup {target} \/ failed[f] # "no"

WatchInv == WatchTypeOK /\ Past /\ AtWork /\ Unseen /\ NothingForgotten

\* Every step of the loop, its files and the other lock holders keeps the types.
LEMMA WatchTypeStep ==
    ASSUME WatchTypeOK, WatchNext PROVE WatchTypeOK'
<1> USE DEF WatchTypeOK, files, task, States, Changed
<1>1. ASSUME NEW f \in Files, Write(f) PROVE WatchTypeOK'
  BY <1>1 DEF Write, Change
<1>2. ASSUME NEW f \in Files, Delete(f) PROVE WatchTypeOK'
  BY <1>2 DEF Delete, Change
<1>3. ASSUME HoldLong PROVE WatchTypeOK'
  BY <1>3 DEF HoldLong
<1>4. ASSUME LetGo PROVE WatchTypeOK'
  BY <1>4 DEF LetGo
<1>5. ASSUME Wake PROVE WatchTypeOK'
  BY <1>5 DEF Wake, Take
<1>6. ASSUME Fold PROVE WatchTypeOK'
  BY <1>6 DEF Fold, Take
<1>7. ASSUME Quiet PROVE WatchTypeOK'
  BY <1>7 DEF Quiet
<1>8. ASSUME NEW f \in Files, Read(f) PROVE WatchTypeOK'
  BY <1>8 DEF Read
<1>9. ASSUME Unchanged PROVE WatchTypeOK'
  BY <1>9 DEF Unchanged, ReadOutcome, Outcome, Done
<1>10. ASSUME Publish PROVE WatchTypeOK'
  BY <1>10 DEF Publish, ReadOutcome, Outcome, Done
<1>11. ASSUME Conflict PROVE WatchTypeOK'
  BY <1>11 DEF Conflict, ReadOutcome, Outcome, Done
<1>12. ASSUME Remove PROVE WatchTypeOK'
  BY <1>12 DEF Remove, Missing, Outcome, Done
<1>13. ASSUME RemoveBusy PROVE WatchTypeOK'
  BY <1>13 DEF RemoveBusy, Missing, Outcome, Done
<1>14. ASSUME PublishBusy PROVE WatchTypeOK'
  BY <1>14 DEF PublishBusy, Outcome, Done
<1>15. ASSUME EndBatch PROVE WatchTypeOK'
  BY <1>15 DEF EndBatch
<1>16. ASSUME JanitorBusy PROVE WatchTypeOK'
  BY <1>16 DEF JanitorBusy
<1>17. ASSUME RetryDeferred PROVE WatchTypeOK'
  BY <1>17 DEF RetryDeferred
<1>18. ASSUME StopRetrying PROVE WatchTypeOK'
  BY <1>18 DEF StopRetrying
<1>19. ASSUME Unreadable PROVE WatchTypeOK'
  BY <1>19 DEF Unreadable, Outcome, Done
<1>20. ASSUME Raises PROVE WatchTypeOK'
  BY <1>20 DEF Raises, Outcome, Done
<1>21. ASSUME JanitorRaises PROVE WatchTypeOK'
  BY <1>21 DEF JanitorRaises
<1> QED
  BY <1>1, <1>2, <1>3, <1>4, <1>5, <1>6, <1>7, <1>8, <1>9, <1>10, <1>11,
     <1>12, <1>13, <1>14, <1>15, <1>16, <1>17, <1>18, <1>19, <1>20,
     <1>21 DEF WatchNext, Loop

\* Every step keeps every state at or before the last edit.
LEMMA PastStep ==
    ASSUME WatchTypeOK, Past, WatchNext PROVE Past'
<1> USE DEF WatchTypeOK, files, task, States, Past
<1>1. ASSUME NEW f \in Files, Write(f) PROVE Past'
  BY <1>1 DEF Write, Change
<1>2. ASSUME NEW f \in Files, Delete(f) PROVE Past'
  BY <1>2 DEF Delete, Change
<1>3. ASSUME HoldLong PROVE Past'
  BY <1>3 DEF HoldLong
<1>4. ASSUME LetGo PROVE Past'
  BY <1>4 DEF LetGo
<1>5. ASSUME Wake PROVE Past'
  BY <1>5 DEF Wake, Take
<1>6. ASSUME Fold PROVE Past'
  BY <1>6 DEF Fold, Take
<1>7. ASSUME Quiet PROVE Past'
  BY <1>7 DEF Quiet
<1>8. ASSUME NEW f \in Files, Read(f) PROVE Past'
  BY <1>8 DEF Read
<1>9. ASSUME Unchanged PROVE Past'
  BY <1>9 DEF Unchanged, ReadOutcome, Outcome, Done
<1>10. ASSUME Publish PROVE Past'
  BY <1>10 DEF Publish, ReadOutcome, Outcome, Done
<1>11. ASSUME Conflict PROVE Past'
  BY <1>11 DEF Conflict, ReadOutcome, Outcome, Done
<1>12. ASSUME Remove PROVE Past'
  BY <1>12 DEF Remove, Missing, Outcome, Done
<1>13. ASSUME RemoveBusy PROVE Past'
  BY <1>13 DEF RemoveBusy, Missing, Outcome, Done
<1>14. ASSUME PublishBusy PROVE Past'
  BY <1>14 DEF PublishBusy, Outcome, Done
<1>15. ASSUME EndBatch PROVE Past'
  BY <1>15 DEF EndBatch
<1>16. ASSUME JanitorBusy PROVE Past'
  BY <1>16 DEF JanitorBusy
<1>17. ASSUME RetryDeferred PROVE Past'
  BY <1>17 DEF RetryDeferred
<1>18. ASSUME StopRetrying PROVE Past'
  BY <1>18 DEF StopRetrying
<1>19. ASSUME Unreadable PROVE Past'
  BY <1>19 DEF Unreadable, Outcome, Done
<1>20. ASSUME Raises PROVE Past'
  BY <1>20 DEF Raises, Outcome, Done
<1>21. ASSUME JanitorRaises PROVE Past'
  BY <1>21 DEF JanitorRaises
<1> QED
  BY <1>1, <1>2, <1>3, <1>4, <1>5, <1>6, <1>7, <1>8, <1>9, <1>10, <1>11,
     <1>12, <1>13, <1>14, <1>15, <1>16, <1>17, <1>18, <1>19, <1>20,
     <1>21 DEF WatchNext, Loop

\* Every step keeps a change behind the reader's back noticeable.
LEMMA WorkStep ==
    ASSUME WatchTypeOK, Past, AtWork, WatchNext PROVE AtWork'
<1> USE DEF WatchTypeOK, files, task, States, Changed, Past, AtWork
<1>1. ASSUME NEW f \in Files, Write(f) PROVE AtWork'
  BY <1>1 DEF Write, Change
<1>2. ASSUME NEW f \in Files, Delete(f) PROVE AtWork'
  BY <1>2 DEF Delete, Change
<1>3. ASSUME HoldLong PROVE AtWork'
  BY <1>3 DEF HoldLong
<1>4. ASSUME LetGo PROVE AtWork'
  BY <1>4 DEF LetGo
<1>5. ASSUME Wake PROVE AtWork'
  BY <1>5 DEF Wake, Take
<1>6. ASSUME Fold PROVE AtWork'
  BY <1>6 DEF Fold, Take
<1>7. ASSUME Quiet PROVE AtWork'
  BY <1>7 DEF Quiet
<1>8. ASSUME NEW f \in Files, Read(f) PROVE AtWork'
  BY <1>8 DEF Read
<1>9. ASSUME Unchanged PROVE AtWork'
  BY <1>9 DEF Unchanged, ReadOutcome, Outcome, Done
<1>10. ASSUME Publish PROVE AtWork'
  BY <1>10 DEF Publish, ReadOutcome, Outcome, Done
<1>11. ASSUME Conflict PROVE AtWork'
  BY <1>11 DEF Conflict, ReadOutcome, Outcome, Done
<1>12. ASSUME Remove PROVE AtWork'
  BY <1>12 DEF Remove, Missing, Outcome, Done
<1>13. ASSUME RemoveBusy PROVE AtWork'
  BY <1>13 DEF RemoveBusy, Missing, Outcome, Done
<1>14. ASSUME PublishBusy PROVE AtWork'
  BY <1>14 DEF PublishBusy, Outcome, Done
<1>15. ASSUME EndBatch PROVE AtWork'
  BY <1>15 DEF EndBatch
<1>16. ASSUME JanitorBusy PROVE AtWork'
  BY <1>16 DEF JanitorBusy
<1>17. ASSUME RetryDeferred PROVE AtWork'
  BY <1>17 DEF RetryDeferred
<1>18. ASSUME StopRetrying PROVE AtWork'
  BY <1>18 DEF StopRetrying
<1>19. ASSUME Unreadable PROVE AtWork'
  BY <1>19 DEF Unreadable, Outcome, Done
<1>20. ASSUME Raises PROVE AtWork'
  BY <1>20 DEF Raises, Outcome, Done
<1>21. ASSUME JanitorRaises PROVE AtWork'
  BY <1>21 DEF JanitorRaises
<1> QED
  BY <1>1, <1>2, <1>3, <1>4, <1>5, <1>6, <1>7, <1>8, <1>9, <1>10, <1>11,
     <1>12, <1>13, <1>14, <1>15, <1>16, <1>17, <1>18, <1>19, <1>20,
     <1>21 DEF WatchNext, Loop

\* Every step keeps the mark of a file the snapshots missed.
LEMMA UnseenStep ==
    ASSUME WatchTypeOK, Past, AtWork, Unseen, WatchNext PROVE Unseen'
<1> USE DEF WatchTypeOK, files, task, States, Changed, Past, AtWork, Unseen
<1>1. ASSUME NEW f \in Files, Write(f) PROVE Unseen'
  BY <1>1 DEF Write, Change
<1>2. ASSUME NEW f \in Files, Delete(f) PROVE Unseen'
  BY <1>2 DEF Delete, Change
<1>3. ASSUME HoldLong PROVE Unseen'
  BY <1>3 DEF HoldLong
<1>4. ASSUME LetGo PROVE Unseen'
  BY <1>4 DEF LetGo
<1>5. ASSUME Wake PROVE Unseen'
  BY <1>5 DEF Wake, Take
<1>6. ASSUME Fold PROVE Unseen'
  BY <1>6 DEF Fold, Take
<1>7. ASSUME Quiet PROVE Unseen'
  BY <1>7 DEF Quiet
<1>8. ASSUME NEW f \in Files, Read(f) PROVE Unseen'
  BY <1>8 DEF Read
<1>9. ASSUME Unchanged PROVE Unseen'
  BY <1>9 DEF Unchanged, ReadOutcome, Outcome, Done
<1>10. ASSUME Publish PROVE Unseen'
  BY <1>10 DEF Publish, ReadOutcome, Outcome, Done
<1>11. ASSUME Conflict PROVE Unseen'
  BY <1>11 DEF Conflict, ReadOutcome, Outcome, Done
<1>12. ASSUME Remove PROVE Unseen'
  BY <1>12 DEF Remove, Missing, Outcome, Done
<1>13. ASSUME RemoveBusy PROVE Unseen'
  BY <1>13 DEF RemoveBusy, Missing, Outcome, Done
<1>14. ASSUME PublishBusy PROVE Unseen'
  BY <1>14 DEF PublishBusy, Outcome, Done
<1>15. ASSUME EndBatch PROVE Unseen'
  BY <1>15 DEF EndBatch
<1>16. ASSUME JanitorBusy PROVE Unseen'
  BY <1>16 DEF JanitorBusy
<1>17. ASSUME RetryDeferred PROVE Unseen'
  BY <1>17 DEF RetryDeferred
<1>18. ASSUME StopRetrying PROVE Unseen'
  BY <1>18 DEF StopRetrying
<1>19. ASSUME Unreadable PROVE Unseen'
  BY <1>19 DEF Unreadable, Outcome, Done
<1>20. ASSUME Raises PROVE Unseen'
  BY <1>20 DEF Raises, Outcome, Done
<1>21. ASSUME JanitorRaises PROVE Unseen'
  BY <1>21 DEF JanitorRaises
<1> QED
  BY <1>1, <1>2, <1>3, <1>4, <1>5, <1>6, <1>7, <1>8, <1>9, <1>10, <1>11,
     <1>12, <1>13, <1>14, <1>15, <1>16, <1>17, <1>18, <1>19, <1>20,
     <1>21 DEF WatchNext, Loop

\* Every step remembers each file that is out of step with the index.
LEMMA MemoryStep ==
    ASSUME WatchInv, WatchNext PROVE NothingForgotten'
<1> USE DEF WatchTypeOK, files, task, States, Changed, Past, AtWork, Unseen,
       WatchInv, NothingForgotten, InSync, Remembers, GaveUp
<1>1. ASSUME NEW f \in Files, Write(f) PROVE NothingForgotten'
  BY <1>1 DEF Write, Change
<1>2. ASSUME NEW f \in Files, Delete(f) PROVE NothingForgotten'
  BY <1>2 DEF Delete, Change
<1>3. ASSUME HoldLong PROVE NothingForgotten'
  BY <1>3 DEF HoldLong
<1>4. ASSUME LetGo PROVE NothingForgotten'
  BY <1>4 DEF LetGo
<1>5. ASSUME Wake PROVE NothingForgotten'
  BY <1>5 DEF Wake, Take
<1>6. ASSUME Fold PROVE NothingForgotten'
  BY <1>6 DEF Fold, Take
<1>7. ASSUME Quiet PROVE NothingForgotten'
  BY <1>7 DEF Quiet
<1>8. ASSUME NEW f \in Files, Read(f) PROVE NothingForgotten'
  BY <1>8 DEF Read
<1>9. ASSUME Unchanged PROVE NothingForgotten'
  BY <1>9 DEF Unchanged, ReadOutcome, Outcome, Done
<1>10. ASSUME Publish PROVE NothingForgotten'
  BY <1>10 DEF Publish, ReadOutcome, Outcome, Done
<1>11. ASSUME Conflict PROVE NothingForgotten'
  BY <1>11 DEF Conflict, ReadOutcome, Outcome, Done
<1>12. ASSUME Remove PROVE NothingForgotten'
  BY <1>12 DEF Remove, Missing, Outcome, Done
<1>13. ASSUME RemoveBusy PROVE NothingForgotten'
  BY <1>13 DEF RemoveBusy, Missing, Outcome, Done
<1>14. ASSUME PublishBusy PROVE NothingForgotten'
  BY <1>14 DEF PublishBusy, Outcome, Done
<1>15. ASSUME EndBatch PROVE NothingForgotten'
  BY <1>15 DEF EndBatch
<1>16. ASSUME JanitorBusy PROVE NothingForgotten'
  BY <1>16 DEF JanitorBusy
<1>17. ASSUME RetryDeferred PROVE NothingForgotten'
  BY <1>17 DEF RetryDeferred
<1>18. ASSUME StopRetrying PROVE NothingForgotten'
  BY <1>18 DEF StopRetrying
<1>19. ASSUME Unreadable PROVE NothingForgotten'
  BY <1>19 DEF Unreadable, Outcome, Done
<1>20. ASSUME Raises PROVE NothingForgotten'
  BY <1>20 DEF Raises, Outcome, Done
<1>21. ASSUME JanitorRaises PROVE NothingForgotten'
  BY <1>21 DEF JanitorRaises
<1> QED
  BY <1>1, <1>2, <1>3, <1>4, <1>5, <1>6, <1>7, <1>8, <1>9, <1>10, <1>11,
     <1>12, <1>13, <1>14, <1>15, <1>16, <1>17, <1>18, <1>19, <1>20,
     <1>21 DEF WatchNext, Loop

LEMMA WatchInitHolds == WatchInit => WatchInv
<1> SUFFICES ASSUME WatchInit PROVE WatchInv
  OBVIOUS
<1>1. /\ disk \in [Files -> {0, Absent}] /\ current = disk /\ indexed = disk
      /\ edits = 0
  BY DEF WatchInit
<1>2. Absent \in States /\ disk \in [Files -> States]
  BY <1>1 DEF States
<1>3. WatchTypeOK
  <2>1. failed \in [Files -> {"no", "unreadable", "busy", "raised", "unseen"}]
    BY DEF WatchInit
  <2>2. edits \in Nat /\ faults \in Nat /\ seen \in States
    BY <1>2 DEF WatchInit
  <2>3. /\ backend \in {"poll", "watchfiles"}
        /\ events \in SUBSET Files
        /\ busy \in BOOLEAN /\ published \in BOOLEAN
        /\ batch \in SUBSET Files /\ deferred \in SUBSET Files
        /\ target \in Files \cup {NoPath}
        /\ at \in {"sleep", "debounce", "batch", "retry", "dead"}
    BY DEF WatchInit
  <2> QED BY <1>1, <1>2, <2>1, <2>2, <2>3 DEF WatchTypeOK
<1>4. Past
  BY <1>1 DEF Past
<1>5. AtWork /\ Unseen /\ NothingForgotten
  BY DEF WatchInit, AtWork, Unseen, NothingForgotten, InSync
<1> QED BY <1>3, <1>4, <1>5 DEF WatchInv

LEMMA WatchNextKeeps == WatchInv /\ [WatchNext]_watchVars => WatchInv'
<1>1. ASSUME WatchInv, WatchNext PROVE WatchInv'
  BY <1>1, WatchTypeStep, PastStep, WorkStep, UnseenStep, MemoryStep DEF WatchInv
<1>2. ASSUME WatchInv, UNCHANGED watchVars PROVE WatchInv'
  BY <1>2 DEF WatchInv, WatchTypeOK, Past, AtWork, Unseen, NothingForgotten, InSync,
     Remembers, GaveUp, Changed, watchVars, files, task, States
<1> QED BY <1>1, <1>2

\* The types, the states, what is in work and what is remembered are inductive.
THEOREM WatchInvariance == WatchSpec => []WatchInv
  BY WatchInitHolds, WatchNextKeeps, PTL DEF WatchSpec

\* The values every variable of the watch loop takes, of any set of files.
THEOREM WatchTypeCorrect == WatchSpec => []WatchTypeOK
<1>1. WatchInv => WatchTypeOK
  BY DEF WatchInv
<1> QED BY <1>1, WatchInvariance, PTL

\* While the loop lives, each file out of step with the index is remembered, or its
\* last attempt ended in an error or raised, or it came and went between two snapshots.
THEOREM NeverForgets == WatchSpec => []NothingForgotten
<1>1. WatchInv => NothingForgotten
  BY DEF WatchInv
<1> QED BY <1>1, WatchInvariance, PTL
=============================================================================
