------------------------ MODULE ArtifactStoreProofs -------------------------
(***************************************************************************)
(* Proofs about ArtifactStore, for every set of processes and digests and  *)
(* every number of calls and faults: TypeOK and the refinement of          *)
(* Registry, from what the holder of write.lock knows.                     *)
(***************************************************************************)
EXTENDS ArtifactStore, TLAPS

\* The lock holder's knowledge: who works inside the lock holds it, a stage that is
\* installed is whole, a promoted digest is installed, the digest an uninstall removes
\* is the one it was asked for, and no digest directory is ever partial.
LockInv ==
    /\ \A p \in Procs : pc[p] \in Inside => lock = p
    /\ \A p \in Procs : pc[p] = "install" => stage[p] = "whole"
    /\ \A p \in Procs : pc[p] = "flip" => dir[want[p]] # "absent"
    /\ \A p \in Procs : pc[p] = "target" /\ lock = p => read[p] = pointer
    /\ \A p \in Procs : pc[p] = "unlink" => call[p] = "uninstall" /\ pointer = want[p]
    /\ \A d \in Digests : dir[d] # "partial"

IInv == TypeOK /\ LockInv

-----------------------------------------------------------------------------
USE NamesAssumption, SetupAssumption, BoundsAssumption

\* Going somewhere, ending a call and counting a fault keep the types.
LEMMA PartsAreTyped ==
    ASSUME TypeOK, NEW p \in Procs
    PROVE  /\ \A where \in Points : GoTo(p, where) =>
                 /\ pc' \in [Procs -> Points]
                 /\ call' = call /\ want' = want
           /\ Ends(p) =>
                 /\ pc' \in [Procs -> Points]
                 /\ call' \in [Procs -> Calls \cup {"none"}]
                 /\ want' \in [Procs -> Digests]
                 /\ read' \in [Procs -> Digests \cup {NoDigest}]
                 /\ private' \in [Procs -> BOOLEAN]
                 /\ stage' \in [Procs -> {"none", "made", "artifact", "whole"}]
                 /\ lock' \in Procs \cup {NoOne}
           /\ Fault => faults' \in Nat /\ calls' \in Nat
           /\ Counters => faults' \in Nat /\ calls' \in Nat
  <1>1. ASSUME NEW where \in Points, GoTo(p, where)
        PROVE  pc' \in [Procs -> Points] /\ call' = call /\ want' = want
    BY <1>1 DEF GoTo, TypeOK
  <1>2. ASSUME Ends(p)
        PROVE  /\ pc' \in [Procs -> Points]
               /\ call' \in [Procs -> Calls \cup {"none"}]
               /\ want' \in [Procs -> Digests]
               /\ read' \in [Procs -> Digests \cup {NoDigest}]
               /\ private' \in [Procs -> BOOLEAN]
               /\ stage' \in [Procs -> {"none", "made", "artifact", "whole"}]
               /\ lock' \in Procs \cup {NoOne}
    BY <1>2 DEF Ends, TypeOK, Points
  <1>3. Fault => faults' \in Nat /\ calls' \in Nat
    BY DEF Fault, TypeOK
  <1>4. Counters => faults' \in Nat /\ calls' \in Nat
    BY DEF Counters, TypeOK
  <1> QED BY <1>1, <1>2, <1>3, <1>4

\* Every step keeps the types.
LEMMA TypeStep == ASSUME TypeOK, Next PROVE TypeOK'
  <1>1. ASSUME StartSetup PROVE TypeOK'
    BY <1>1, PartsAreTyped DEF StartSetup, Begin, FirstOf, Calls, TypeOK, Points, Inside, local, At
  <1>2. ASSUME Damage PROVE TypeOK'
    BY <1>2, PartsAreTyped DEF Damage, TypeOK, Points, Inside, local, At
  <1>3. ASSUME SpoilSource PROVE TypeOK'
    BY <1>3, PartsAreTyped DEF SpoilSource, TypeOK, Points, Inside, local, At
  <1>4. ASSUME MendSource PROVE TypeOK'
    BY <1>4, PartsAreTyped DEF MendSource, TypeOK, Points, Inside, local, At
  <1>5. ASSUME NEW p \in Procs, Start(p) PROVE TypeOK'
    BY <1>5, PartsAreTyped DEF Start, Begin, FirstOf, TypeOK, Points, Inside, local, At
  <1>6. ASSUME NEW p \in Procs, ReadPointer(p) PROVE TypeOK'
    BY <1>6, PartsAreTyped DEF ReadPointer, TypeOK, Points, Inside, local, At
  <1>7. ASSUME NEW p \in Procs, CheckTarget(p) PROVE TypeOK'
    BY <1>7, PartsAreTyped DEF CheckTarget, Resolves, AfterResolve, TypeOK, Points, Inside, local, At
  <1>8. ASSUME NEW p \in Procs, FetchLocal(p) PROVE TypeOK'
    BY <1>8, PartsAreTyped DEF FetchLocal, TypeOK, Points, Inside, local, At
  <1>9. ASSUME NEW p \in Procs, FetchRemote(p) PROVE TypeOK'
    BY <1>9, PartsAreTyped DEF FetchRemote, TypeOK, Points, Inside, local, At
  <1>10. ASSUME NEW p \in Procs, LockImport(p) PROVE TypeOK'
    BY <1>10, PartsAreTyped DEF LockImport, Locked, TypeOK, Points, Inside, local, At
  <1>11. ASSUME NEW p \in Procs, LockPromote(p) PROVE TypeOK'
    BY <1>11, PartsAreTyped DEF LockPromote, Locked, TypeOK, Points, Inside, local, At
  <1>12. ASSUME NEW p \in Procs, LockUninstall(p) PROVE TypeOK'
    BY <1>12, PartsAreTyped DEF LockUninstall, Locked, TypeOK, Points, Inside, local, At
  <1>13. ASSUME NEW p \in Procs, LockTimesOut(p) PROVE TypeOK'
    BY <1>13, PartsAreTyped DEF LockTimesOut, TypeOK, Points, Inside, local, At
  <1>14. ASSUME NEW p \in Procs, Exists(p) PROVE TypeOK'
    BY <1>14, PartsAreTyped DEF Exists, Imported, TypeOK, Points, Inside, local, At
  <1>15. ASSUME NEW p \in Procs, MakeStage(p) PROVE TypeOK'
    BY <1>15, PartsAreTyped DEF MakeStage, TypeOK, Points, Inside, local, At
  <1>16. ASSUME NEW p \in Procs, Copy(p) PROVE TypeOK'
    BY <1>16, PartsAreTyped DEF Copy, Bytes, TypeOK, Points, Inside, local, At
  <1>17. ASSUME NEW p \in Procs, WriteManifest(p) PROVE TypeOK'
    BY <1>17, PartsAreTyped DEF WriteManifest, TypeOK, Points, Inside, local, At
  <1>18. ASSUME NEW p \in Procs, Install(p) PROVE TypeOK'
    BY <1>18, PartsAreTyped DEF Install, Imported, Made, TypeOK, Points, Inside, local, At
  <1>19. ASSUME NEW p \in Procs, Verify(p) PROVE TypeOK'
    BY <1>19, PartsAreTyped DEF Verify, TypeOK, Points, Inside, local, At
  <1>20. ASSUME NEW p \in Procs, Flip(p) PROVE TypeOK'
    BY <1>20, PartsAreTyped DEF Flip, TypeOK, Points, Inside, local, At
  <1>21. ASSUME NEW p \in Procs, Unlink(p) PROVE TypeOK'
    BY <1>21, PartsAreTyped DEF Unlink, TypeOK, Points, Inside, local, At
  <1>22. ASSUME NEW p \in Procs, Stops(p) PROVE TypeOK'
    BY <1>22, PartsAreTyped DEF Stops, TypeOK, Points, Inside, local, At
  <1> QED BY <1>1, <1>2, <1>3, <1>4, <1>5, <1>6, <1>7, <1>8, <1>9, <1>10, <1>11, <1>12, <1>13, <1>14, <1>15, <1>16, <1>17, <1>18, <1>19, <1>20, <1>21, <1>22 DEF Next, Step

\* Every step keeps what the lock holder knows.
LEMMA LockStep == ASSUME IInv, Next PROVE LockInv'
  <1>1. ASSUME StartSetup PROVE LockInv'
    BY <1>1 DEF StartSetup, Begin, FirstOf, IInv, TypeOK, LockInv, Inside, local, At, GoTo, Ends, Counters
  <1>2. ASSUME Damage PROVE LockInv'
    BY <1>2 DEF Damage, IInv, TypeOK, LockInv, Inside, local, At, GoTo, Ends, Counters
  <1>3. ASSUME SpoilSource PROVE LockInv'
    BY <1>3 DEF SpoilSource, IInv, TypeOK, LockInv, Inside, local, At, GoTo, Ends, Counters
  <1>4. ASSUME MendSource PROVE LockInv'
    BY <1>4 DEF MendSource, IInv, TypeOK, LockInv, Inside, local, At, GoTo, Ends, Counters
  <1>5. ASSUME NEW p \in Procs, Start(p) PROVE LockInv'
    BY <1>5 DEF Start, Begin, FirstOf, IInv, TypeOK, LockInv, Inside, local, At, GoTo, Ends, Counters
  <1>6. ASSUME NEW p \in Procs, ReadPointer(p) PROVE LockInv'
    BY <1>6 DEF ReadPointer, IInv, TypeOK, LockInv, Inside, local, At, GoTo, Ends, Counters
  <1>7. ASSUME NEW p \in Procs, CheckTarget(p) PROVE LockInv'
    BY <1>7 DEF CheckTarget, Resolves, AfterResolve, IInv, TypeOK, LockInv, Inside, local, At, GoTo, Ends, Counters
  <1>8. ASSUME NEW p \in Procs, FetchLocal(p) PROVE LockInv'
    BY <1>8 DEF FetchLocal, IInv, TypeOK, LockInv, Inside, local, At, GoTo, Ends, Counters
  <1>9. ASSUME NEW p \in Procs, FetchRemote(p) PROVE LockInv'
    BY <1>9 DEF FetchRemote, IInv, TypeOK, LockInv, Inside, local, At, GoTo, Ends, Counters
  <1>10. ASSUME NEW p \in Procs, LockImport(p) PROVE LockInv'
    BY <1>10 DEF LockImport, Locked, IInv, TypeOK, LockInv, Inside, local, At, GoTo, Ends, Counters
  <1>11. ASSUME NEW p \in Procs, LockPromote(p) PROVE LockInv'
    BY <1>11 DEF LockPromote, Locked, IInv, TypeOK, LockInv, Inside, local, At, GoTo, Ends, Counters
  <1>12. ASSUME NEW p \in Procs, LockUninstall(p) PROVE LockInv'
    BY <1>12 DEF LockUninstall, Locked, IInv, TypeOK, LockInv, Inside, local, At, GoTo, Ends, Counters
  <1>13. ASSUME NEW p \in Procs, LockTimesOut(p) PROVE LockInv'
    BY <1>13 DEF LockTimesOut, IInv, TypeOK, LockInv, Inside, local, At, GoTo, Ends, Counters
  <1>14. ASSUME NEW p \in Procs, Exists(p) PROVE LockInv'
    BY <1>14 DEF Exists, Imported, IInv, TypeOK, LockInv, Inside, local, At, GoTo, Ends, Counters
  <1>15. ASSUME NEW p \in Procs, MakeStage(p) PROVE LockInv'
    BY <1>15 DEF MakeStage, IInv, TypeOK, LockInv, Inside, local, At, GoTo, Ends, Counters
  <1>16. ASSUME NEW p \in Procs, Copy(p) PROVE LockInv'
    BY <1>16 DEF Copy, Bytes, IInv, TypeOK, LockInv, Inside, local, At, GoTo, Ends, Counters
  <1>17. ASSUME NEW p \in Procs, WriteManifest(p) PROVE LockInv'
    BY <1>17 DEF WriteManifest, IInv, TypeOK, LockInv, Inside, local, At, GoTo, Ends, Counters
  <1>18. ASSUME NEW p \in Procs, Install(p) PROVE LockInv'
    BY <1>18 DEF Install, Imported, Made, IInv, TypeOK, LockInv, Inside, local, At, GoTo, Ends, Counters
  <1>19. ASSUME NEW p \in Procs, Verify(p) PROVE LockInv'
    BY <1>19 DEF Verify, Installed, IInv, TypeOK, LockInv, Inside, local, At, GoTo, Ends, Counters
  <1>20. ASSUME NEW p \in Procs, Flip(p) PROVE LockInv'
    BY <1>20 DEF Flip, IInv, TypeOK, LockInv, Inside, local, At, GoTo, Ends, Counters
  <1>21. ASSUME NEW p \in Procs, Unlink(p) PROVE LockInv'
    BY <1>21 DEF Unlink, IInv, TypeOK, LockInv, Inside, local, At, GoTo, Ends, Counters
  <1>22. ASSUME NEW p \in Procs, Stops(p) PROVE LockInv'
    BY <1>22 DEF Stops, IInv, TypeOK, LockInv, Inside, local, At, GoTo, Ends, Counters
  <1> QED BY <1>1, <1>2, <1>3, <1>4, <1>5, <1>6, <1>7, <1>8, <1>9, <1>10, <1>11, <1>12, <1>13, <1>14, <1>15, <1>16, <1>17, <1>18, <1>19, <1>20, <1>21, <1>22 DEF Next, Step

LEMMA Start0 == Init => IInv
  BY DEF Init, IInv, TypeOK, LockInv, Points, Inside

\* The types and the lock holder's knowledge are inductive.
THEOREM Invariance == Spec => []IInv
  <1>1. Init => IInv
    BY Start0
  <1>2. IInv /\ [Next]_vars => IInv'
    <2>1. ASSUME IInv, Next PROVE IInv'
      BY <2>1, TypeStep, LockStep DEF IInv
    <2>2. ASSUME IInv, UNCHANGED vars PROVE IInv'
      BY <2>2 DEF IInv, TypeOK, LockInv, vars, local
    <2> QED BY <2>1, <2>2
  <1> QED BY <1>1, <1>2, PTL DEF Spec

\* The values every variable takes, of any number of processes and digests.
THEOREM TypeCorrect == Spec => []TypeOK
  BY Invariance, PTL DEF IInv

Whole == {d \in Digests : Installed(d)}
Lost  == {d \in Digests : dir[d] \in {"partial", "damaged"}}
Asked == {want[p] : p \in {q \in Procs : call[q] = "uninstall"}}

\* What anybody asks for is a digest.
LEMMA AskedAreDigests == ASSUME TypeOK PROVE Asked \in SUBSET Digests
  BY DEF Asked, TypeOK

\* A step that leaves directories and pointer alone is a registry that waits.
LEMMA WaitingStep ==
    ASSUME TypeOK', UNCHANGED <<dir, pointer>>
    PROVE  Abstract!Next
  <1>1. Whole' = Whole /\ Lost' = Lost
    BY DEF Whole, Lost, Installed
  <1>2. Asked' \in SUBSET Digests
    BY DEF Asked, TypeOK
  <1> QED BY <1>1, <1>2 DEF Abstract!Next, Abstract!Wait, Whole, Lost, Asked

\* The rename of a whole stage installs a digest that was not there.
LEMMA InstallStep ==
    ASSUME IInv, TypeOK', NEW p \in Procs, Install(p)
    PROVE  Abstract!Next
  <1>1. CASE dir[want[p]] # "absent"
    BY <1>1, WaitingStep DEF Install
  <1>2. CASE dir[want[p]] = "absent"
    <2>1. stage[p] = "whole" /\ want[p] \in Digests
      BY DEF Install, At, IInv, LockInv, TypeOK
    <2>2. dir' = [dir EXCEPT ![want[p]] = Made(p)] /\ pointer' = pointer
      BY <1>2, <2>1 DEF Install
    <2>3. Whole' = Whole \cup {want[p]} /\ Lost' = Lost
      BY <1>2, <2>1, <2>2 DEF Whole, Lost, Installed, Made, IInv, TypeOK
    <2>4. want[p] \in Digests \ (Whole \cup Lost)
      BY <1>2, <2>1 DEF Whole, Lost, Installed
    <2>5. Asked' \in SUBSET Digests
      BY DEF Asked, TypeOK
    <2> QED BY <2>2, <2>3, <2>4, <2>5 DEF Abstract!Next, Abstract!Install, Whole, Lost, Asked
  <1> QED BY <1>1, <1>2

\* The flip selects an installed digest.
LEMMA FlipStep ==
    ASSUME IInv, TypeOK', NEW p \in Procs, Flip(p)
    PROVE  Abstract!Next
  <1>1. pointer' = want[p] /\ dir' = dir
    BY DEF Flip
  <1>2. want[p] \in Whole \cup Lost
    BY DEF Flip, At, IInv, LockInv, TypeOK, Whole, Lost, Installed
  <1>3. Whole' = Whole /\ Lost' = Lost /\ Asked' \in SUBSET Digests
    BY <1>1 DEF Whole, Lost, Installed, Asked, TypeOK
  <1> QED BY <1>1, <1>2, <1>3 DEF Abstract!Next, Abstract!Select, Whole, Lost, Asked

\* The unlink deselects the digest its caller asked for.
LEMMA UnlinkStep ==
    ASSUME IInv, TypeOK', NEW p \in Procs, Unlink(p)
    PROVE  Abstract!Next
  <1>1. pointer' = NoDigest /\ dir' = dir
    BY DEF Unlink
  <1>2. pointer \in Asked
    BY DEF Unlink, At, IInv, LockInv, Asked
  <1>3. Whole' = Whole /\ Lost' = Lost /\ Asked' \in SUBSET Digests
    BY <1>1 DEF Whole, Lost, Installed, Asked, TypeOK
  <1> QED BY <1>1, <1>2, <1>3 DEF Abstract!Next, Abstract!Deselect, Whole, Lost, Asked

\* Damage from outside takes a digest from the whole to the lost ones.
LEMMA DamageStep == ASSUME IInv, TypeOK', Damage PROVE Abstract!Next
  <1>1. PICK d \in Digests : Installed(d) /\ dir' = [dir EXCEPT ![d] = "damaged"]
    BY DEF Damage
  <1>2. pointer' = pointer
    BY DEF Damage
  <1>3. /\ d \in Whole
        /\ Whole' = Whole \ {d}
        /\ Lost' = Lost \cup {d}
    BY <1>1 DEF Whole, Lost, Installed, IInv, TypeOK
  <1>4. Asked' \in SUBSET Digests
    BY DEF Asked, TypeOK
  <1> QED BY <1>2, <1>3, <1>4 DEF Abstract!Next, Abstract!Damage, Whole, Lost, Asked

\* The store implements the registry: whatever is killed, a digest directory appears
\* once and whole, the pointer names an installed digest only, and only an uninstall of
\* that digest removes it.
THEOREM Refinement == Spec => ImplementsRegistry
  <1>1. Init => Abstract!Init
    BY DEF Init, Installed, Abstract!Init
  <1>2. ASSUME IInv, TypeOK', Next PROVE Abstract!Next
    <2>1. CASE UNCHANGED <<dir, pointer>>
      BY <1>2, <2>1, WaitingStep
    <2>2. CASE Damage
      BY <1>2, <2>2, DamageStep
    <2>3. CASE \E p \in Procs : Install(p)
      BY <1>2, <2>3, InstallStep
    <2>4. CASE \E p \in Procs : Flip(p)
      BY <1>2, <2>4, FlipStep
    <2>5. CASE \E p \in Procs : Unlink(p)
      BY <1>2, <2>5, UnlinkStep
    <2>6. CASE StartSetup \/ SpoilSource \/ MendSource
      BY <2>6, <2>1 DEF StartSetup, SpoilSource, MendSource, Begin
    <2>7. ASSUME NEW p \in Procs,
                 \/ Start(p) \/ Stops(p) \/ ReadPointer(p) \/ CheckTarget(p)
                 \/ FetchLocal(p) \/ FetchRemote(p)
                 \/ LockImport(p) \/ LockPromote(p) \/ LockUninstall(p) \/ LockTimesOut(p)
                 \/ Exists(p) \/ MakeStage(p) \/ Copy(p) \/ WriteManifest(p) \/ Verify(p)
          PROVE  UNCHANGED <<dir, pointer>>
      BY <2>7 DEF Start, Begin, Stops, ReadPointer, CheckTarget, FetchLocal, FetchRemote, Locked,
                  LockImport, LockPromote, LockUninstall, LockTimesOut, Exists, MakeStage, Copy,
                  WriteManifest, Verify
    <2> QED BY <1>2, <2>1, <2>2, <2>3, <2>4, <2>5, <2>6, <2>7 DEF Next, Step
  <1>3. IInv /\ IInv' /\ [Next]_vars => [Abstract!Next]_(Abstract!vars)
    <2>1. ASSUME IInv, IInv', Next PROVE Abstract!Next
      BY <2>1, <1>2 DEF IInv
    <2>2. ASSUME UNCHANGED vars PROVE UNCHANGED Abstract!vars
      BY <2>2 DEF vars, local, Installed, Abstract!vars
    <2> QED BY <2>1, <2>2
  <1> QED BY <1>1, <1>3, Invariance, PTL DEF Spec, ImplementsRegistry, Abstract!Spec
=============================================================================
