--------------------------- MODULE ReceiptsProofs ----------------------------
(***************************************************************************)
(* Proofs about Verdicts, what its reducers guarantee for all facts,       *)
(* reports and counts, and about Receipts, for every set of callers and of *)
(* reports, and every number of edits and of other files: TypeOK,          *)
(* AbsenceIsReal and NoKnownCallerIsLeft.                                  *)
(***************************************************************************)
EXTENDS Receipts, FiniteSetTheorems, TLAPS

\* The severities are numbers, different for different statuses.
LEMMA Severities ==
    /\ \A s \in Statuses : Severity[s] \in Nat
    /\ \A s, t \in Statuses : Severity[s] = Severity[t] => s = t
  BY DEF Statuses, Severity

\* decide() has a result: it is the gravest of the statuses the facts call for.
LEMMA DecideIsGravest ==
    ASSUME NEW f
    PROVE  /\ Decide(f) \in Statuses
           /\ Calls(f)[Decide(f)]
           /\ \A x \in Statuses : Calls(f)[x] => Severity[x] <= Severity[Decide(f)]
<1> DEFINE Gravest(s) == /\ Calls(f)[s]
                         /\ \A x \in Statuses : Calls(f)[x] => Severity[x] <= Severity[s]
<1>1. \E s \in Statuses : Gravest(s)
  <2>1. Calls(f)["ASSURED_WITHIN_SCOPE"]
    BY DEF Calls
  <2>2. CASE Calls(f)["ABSTAINED"]
    <3>1. Gravest("ABSTAINED")
      BY <2>2, SMT DEF Statuses, Severity
    <3> QED BY <3>1 DEF Statuses
  <2>3. CASE ~Calls(f)["ABSTAINED"] /\ Calls(f)["UNVERIFIABLE"]
    <3>1. Gravest("UNVERIFIABLE")
      BY <2>3, SMT DEF Statuses, Severity
    <3> QED BY <3>1 DEF Statuses
  <2>4. CASE ~Calls(f)["ABSTAINED"] /\ ~Calls(f)["UNVERIFIABLE"] /\ Calls(f)["STALE"]
    <3>1. Gravest("STALE")
      BY <2>4, SMT DEF Statuses, Severity
    <3> QED BY <3>1 DEF Statuses
  <2>5. CASE /\ ~Calls(f)["ABSTAINED"] /\ ~Calls(f)["UNVERIFIABLE"] /\ ~Calls(f)["STALE"]
             /\ Calls(f)["CONFLICTED"]
    <3>1. Gravest("CONFLICTED")
      BY <2>5, SMT DEF Statuses, Severity
    <3> QED BY <3>1 DEF Statuses
  <2>6. CASE /\ ~Calls(f)["ABSTAINED"] /\ ~Calls(f)["UNVERIFIABLE"] /\ ~Calls(f)["STALE"]
             /\ ~Calls(f)["CONFLICTED"] /\ Calls(f)["PARTIAL"]
    <3>1. Gravest("PARTIAL")
      BY <2>6, SMT DEF Statuses, Severity
    <3> QED BY <3>1 DEF Statuses
  <2>7. CASE /\ ~Calls(f)["ABSTAINED"] /\ ~Calls(f)["UNVERIFIABLE"] /\ ~Calls(f)["STALE"]
             /\ ~Calls(f)["CONFLICTED"] /\ ~Calls(f)["PARTIAL"]
    <3>1. Gravest("ASSURED_WITHIN_SCOPE")
      BY <2>1, <2>7, SMT DEF Statuses, Severity
    <3> QED BY <3>1 DEF Statuses
  <2> QED BY <2>2, <2>3, <2>4, <2>5, <2>6, <2>7
<1>2. Decide(f) = CHOOSE s \in Statuses : Gravest(s)
  BY DEF Decide
<1>3. Decide(f) \in Statuses /\ Gravest(Decide(f))
  <2> HIDE DEF Gravest
  <2> QED BY <1>1, <1>2
<1> QED BY <1>3

\* g is in no respect better founded than f.
NoBetter(g, f) ==
    /\ f.identity # "UNIQUE" => g.identity # "UNIQUE"
    /\ f.error => g.error
    /\ ~f.bound => ~g.bound
    /\ f.stale => g.stale
    /\ f.conflicts => g.conflicts
    /\ f.targets \/ f.gate \/ f.truncated \/ f.parser \/ f.unresolved \/ f.dynamic =>
           g.targets \/ g.gate \/ g.truncated \/ g.parser \/ g.unresolved \/ g.dynamic
    /\ f.claim => g.claim
    /\ ~f.covered => ~g.covered
    /\ ~f.enumerated => ~g.enumerated
    /\ ~f.capable => ~g.capable
    /\ f.fallback => g.fallback
    /\ ~f.provider => ~g.provider

\* decide() fails closed: making any facts worse, in any combination, never makes
\* the status lighter.
THEOREM WorseFactsNoLighterStatus ==
    ASSUME NEW f \in Facts, NEW g \in Facts, NoBetter(g, f)
    PROVE  Severity[Decide(f)] <= Severity[Decide(g)]
<1>1. \A s \in Statuses : Calls(f)[s] => Calls(g)[s]
  <2> SUFFICES ASSUME NEW s \in Statuses, Calls(f)[s] PROVE Calls(g)[s]
    OBVIOUS
  <2>1. CASE s = "ABSTAINED"
    <3>1. f.identity # "UNIQUE" BY <2>1 DEF Calls
    <3>2. g.identity # "UNIQUE" BY <3>1 DEF NoBetter
    <3> QED BY <2>1, <3>2 DEF Calls
  <2>2. CASE s = "UNVERIFIABLE"
    <3>1. f.error \/ ~f.bound BY <2>2 DEF Calls
    <3>2. g.error \/ ~g.bound BY <3>1 DEF NoBetter
    <3> QED BY <2>2, <3>2 DEF Calls
  <2>3. CASE s = "STALE" BY <2>3 DEF Calls, NoBetter
  <2>4. CASE s = "CONFLICTED" BY <2>4 DEF Calls, NoBetter
  <2>5. CASE s = "PARTIAL" BY <2>5 DEF Calls, NoBetter
  <2>6. CASE s = "ASSURED_WITHIN_SCOPE" BY <2>6 DEF Calls
  <2> QED BY <2>1, <2>2, <2>3, <2>4, <2>5, <2>6 DEF Statuses
<1> QED BY <1>1, DecideIsGravest

\* The lightest status: none of the graver ones is called for.
LEMMA AssuredLeavesNothingOpen ==
    ASSUME NEW f, Decide(f) = "ASSURED_WITHIN_SCOPE"
    PROVE  \A s \in Statuses \ {"ASSURED_WITHIN_SCOPE"} : ~Calls(f)[s]
<1> SUFFICES ASSUME NEW s \in Statuses, s # "ASSURED_WITHIN_SCOPE", Calls(f)[s]
             PROVE FALSE
  OBVIOUS
<1>1. Severity[s] <= 0
  BY DecideIsGravest DEF Severity
<1> QED BY <1>1, SMT DEF Statuses, Severity

\* What an assured status takes, and all it takes: one resolved identity, bound
\* evidence that is neither stale nor in conflict, no gate, cap, parse failure, open
\* or dynamic reference, a known provider, and, when the receipt rests on an absence,
\* measured coverage and an exhausted universe without a fallback.
THEOREM AssuredIsEarned ==
    ASSUME NEW f \in Facts
    PROVE  Decide(f) = "ASSURED_WITHIN_SCOPE" <=>
              /\ f.identity = "UNIQUE"
              /\ f.bound /\ ~f.error /\ ~f.stale /\ ~f.conflicts
              /\ ~f.targets /\ ~f.gate /\ ~f.truncated
              /\ ~f.parser /\ ~f.unresolved /\ ~f.dynamic
              /\ f.provider
              /\ f.claim => f.covered /\ f.enumerated /\ f.capable /\ ~f.fallback
<1> DEFINE Graver == Calls(f)["ABSTAINED"] \/ Calls(f)["UNVERIFIABLE"] \/ Calls(f)["STALE"]
                     \/ Calls(f)["CONFLICTED"] \/ Calls(f)["PARTIAL"]
<1>1. Decide(f) = "ASSURED_WITHIN_SCOPE" => ~Graver
  <2> SUFFICES ASSUME Decide(f) = "ASSURED_WITHIN_SCOPE" PROVE ~Graver
    OBVIOUS
  <2>1. \A s \in Statuses \ {"ASSURED_WITHIN_SCOPE"} : ~Calls(f)[s]
    BY AssuredLeavesNothingOpen
  <2> QED BY <2>1 DEF Statuses
<1>2. ~Graver => Decide(f) = "ASSURED_WITHIN_SCOPE"
  BY DecideIsGravest DEF Statuses
<1>3. Graver <=> \/ f.identity # "UNIQUE" \/ f.error \/ ~f.bound \/ f.stale \/ f.conflicts
                 \/ f.targets \/ f.gate \/ f.truncated \/ f.parser \/ f.unresolved \/ f.dynamic
                 \/ f.claim /\ ~(f.covered /\ f.enumerated /\ f.capable /\ ~f.fallback)
                 \/ ~f.provider
  BY DEF Calls
<1> HIDE DEF Graver
<1> QED BY <1>1, <1>2, <1>3

\* A pass of the commit gate rests on an assured status, no dangling reference and
\* no report of failed tests, valid or not.
THEOREM PassNeedsAssurance ==
    ASSUME NEW in, in.status \in Statuses, in.dangling \in Nat, SafeCommit(in) = "pass"
    PROVE  /\ in.status = "ASSURED_WITHIN_SCOPE"
           /\ in.dangling = 0
           /\ in.report # NoReport => Valid(in.report) /\ ~(Failed(in.report) > 0)
           /\ in.binding # "incompatible"
<1>1. ~Blocks(in) /\ ~Warns(in)
  BY DEF SafeCommit
<1> QED BY <1>1, SMT DEF Blocks, Warns, Statuses

\* canonical_test_results keeps what a valid report claims exactly if the report
\* states how many tests ran, or has a label for each failure: then its echo is
\* valid and claims as many failures.  Otherwise the echo is invalid, and a claim
\* that blocks becomes a warning.
THEOREM EchoOfValidReport ==
    ASSUME NEW r \in Reports(Nat), Valid(r)
    PROVE  /\ Valid(Canonical(r)) <=> (r.ran # Unsaid \/ Failed(r) = r.labels)
           /\ Failed(Canonical(r)) = Failed(r)
<1> DEFINE c == [ran |-> OrZero(r.ran), failed |-> Failed(r), labels |-> r.labels, odd |-> FALSE]
<1>1. Canonical(r) = c
  BY DEF Canonical
<1>2. /\ r.labels \in Nat /\ r.ran \in Nat \cup {Unsaid} /\ r.failed \in Nat \cup {Unsaid}
  BY DEF Reports
<1>3. /\ OrZero(r.ran) \in Nat /\ OrZero(r.failed) \in Nat /\ Failed(r) \in Nat
      /\ Failed(r) >= r.labels /\ Failed(r) >= OrZero(r.failed)
      /\ Failed(r) = r.labels \/ Failed(r) = OrZero(r.failed)
  BY <1>2, SMT DEF OrZero, Failed, Larger
<1>4. Unsaid \notin Nat
  BY UnsaidAssumption
<1>5. c.ran = OrZero(r.ran) /\ c.failed = Failed(r) /\ c.labels = r.labels /\ ~c.odd
  OBVIOUS
<1>6. Valid(c) <=> ~(Failed(r) > OrZero(r.ran) /\ Failed(r) # r.labels)
  <2> HIDE DEF c
  <2> QED BY <1>3, <1>4, <1>5 DEF Valid, Contradictory
<1>7. Failed(c) = Failed(r)
  <2>1. Failed(c) = Larger(OrZero(Failed(r)), r.labels)
    BY <1>5 DEF Failed
  <2>2. OrZero(Failed(r)) = Failed(r)
    BY <1>3, <1>4 DEF OrZero
  <2> QED BY <2>1, <2>2, <1>2, <1>3, SMT DEF Larger
<1>8. CASE r.ran = Unsaid
  <2>1. OrZero(r.ran) = 0
    BY <1>8 DEF OrZero
  <2> QED BY <2>1, <1>1, <1>2, <1>3, <1>6, <1>7, <1>8
<1>9. CASE r.ran # Unsaid
  <2>1. OrZero(r.ran) = r.ran /\ r.ran \in Nat
    BY <1>2, <1>9 DEF OrZero
  <2>2. CASE Failed(r) = r.labels
    BY <2>2, <1>1, <1>6, <1>7, <1>9
  <2>3. CASE Failed(r) # r.labels
    <3>1. Failed(r) = OrZero(r.failed) /\ Failed(r) > r.labels
      BY <2>3, <1>2, <1>3
    <3>2. r.failed # Unsaid /\ Failed(r) = r.failed
      BY <3>1, <1>2, SMT DEF OrZero
    <3>3. ~(r.failed > r.ran)
      BY <3>1, <3>2, <1>9, <1>2 DEF Valid, Contradictory
    <3> QED BY <3>2, <3>3, <2>1, <1>1, <1>3, <1>6, <1>7, <1>9
  <2> QED BY <2>2, <2>3
<1> QED BY <1>8, <1>9

-----------------------------------------------------------------------------
(* The receipts *)

\* The symbol is tracked and was committed; a caller whose rows are current has a
\* reference, or lost it when a publication removed the symbol, as every edge into
\* a symbol that is gone is about to.
References ==
    /\ base[Home] = "old"
    /\ \A f \in Callers :
         /\ journal[f] = "calls" => ref[f] # "none" \/ f \in cut
         /\ ref[f] = "edge" /\ ~Defined => f \in cut

\* What a scope receipt has read stays true of the files that stood still.
ScopeReads ==
    /\ pc \in {"identity", "stale", "coverage", "gate"} /\ seen.enumerated =>
         \A f \in steady : disk[f] # "absent" => journal[f] # "absent"
    /\ pc \in {"stale", "coverage", "gate"} /\ seen.found =>
         \A f \in steady \cap Callers : ref[f] = "edge" => f \in seen.callers
    /\ pc = "gate" /\ seen.covered /\ Cardinality(Files) + Others < 10 =>
         \A f \in steady : journal[f] # "absent" => ~Differs(f)

\* And so does what a diff receipt has read.
DiffReads ==
    /\ pc \in {"dangling", "fresh", "verdict"} =>
         \A f \in steady : f \in seen.changed <=> f \in DiffFiles
    /\ pc \in {"fresh", "verdict"} /\ Usable /\ pre.found /\ Home \in steady /\ ~Defined =>
         \A f \in steady \cap Callers : ref[f] = "parked" => f \in seen.dangling
    /\ pc = "verdict" /\ ~seen.stale =>
         \A f \in steady \cap seen.changed : ~Differs(f)

IInv == TypeOK /\ References /\ ScopeReads /\ DiffReads
-----------------------------------------------------------------------------
USE CallersAssumption, NumbersAssumption, ReportsAssumption

LEMMA FilesFinite == IsFiniteSet(Files)
  BY FS_Singleton, FS_Union DEF Files

\* With fewer than ten files, one of them stale or unparsed misses the floor.
LEMMA FloorIsExhaustion ==
    ASSUME FloorMet, Cardinality(Files) + Others < 10, NEW f \in Journaled
    PROVE  ~Differs(f)
  <1> DEFINE M == Measured(Files)
             J == Journaled
  <1>1. M \subseteq J /\ J \subseteq Files
    BY DEF Measured, Journaled
  <1>2. IsFiniteSet(J) /\ IsFiniteSet(M) /\ Cardinality(J) <= Cardinality(Files)
    BY <1>1, FilesFinite, FS_Subset
  <1>3. Cardinality(J) \in Nat /\ Cardinality(M) \in Nat /\ Cardinality(Files) \in Nat
    BY <1>2, FilesFinite, FS_CardinalityType
  <1>4. 10 * (Cardinality(M) + Others) >= 9 * (Cardinality(J) + Others)
    BY DEF FloorMet
  <1>5. Cardinality(M) <= Cardinality(J)
    BY <1>1, <1>2, FS_Subset
  <1>6. Cardinality(M) = Cardinality(J)
    <2> DEFINE m == Cardinality(M)
               j == Cardinality(J)
               c == Cardinality(Files)
    <2>1. /\ m \in Nat /\ j \in Nat /\ c \in Nat /\ Others \in Nat
          /\ 10 * (m + Others) >= 9 * (j + Others)
          /\ m <= j /\ j <= c /\ c + Others < 10
      BY <1>2, <1>3, <1>4, <1>5
    <2> HIDE DEF m, j, c
    <2>2. m = j
      BY <2>1, SMT
    <2> QED BY <2>2 DEF m, j
  <1>7. M = J
    BY <1>1, <1>2, <1>6, FS_Subset
  <1> QED BY <1>7 DEF Measured

\* What the contents of a file can be.
LEMMA ContentsAreTyped ==
    /\ Home \in Files /\ Callers \subseteq Files
    /\ \A f \in Files : Contents(f) \subseteq AnyContent
  BY DEF Files, Contents, AnyContent

\* The records a receipt becomes, reading by reading.
LEMMA UniverseTyped ==
    ASSUME NEW s \in Findings, NEW a \in BOOLEAN, NEW b \in BOOLEAN
    PROVE  [s EXCEPT !.enumerated = a, !.capable = b] \in Findings
  BY DEF Findings

LEMMA IdentityTyped ==
    ASSUME NEW s \in Findings, NEW a \in BOOLEAN, NEW D \in SUBSET Callers
    PROVE  [s EXCEPT !.found = a, !.callers = D] \in Findings
  BY DEF Findings

LEMMA CitedTyped ==
    ASSUME NEW s \in Findings, NEW a \in BOOLEAN
    PROVE  [s EXCEPT !.stale = a] \in Findings
  BY DEF Findings

LEMMA CoverageTyped ==
    ASSUME NEW s \in Findings, NEW a \in BOOLEAN, NEW b \in BOOLEAN, NEW c \in BOOLEAN
    PROVE  [s EXCEPT !.covered = a, !.parser = b, !.dynamic = c] \in Findings
  BY DEF Findings

LEMMA DiffTyped ==
    ASSUME NEW s \in Findings, NEW C \in SUBSET Files, NEW D \in SUBSET Callers, NEW a \in BOOLEAN, NEW b \in BOOLEAN, NEW r \in Attached
    PROVE  [s EXCEPT !.changed = C, !.callers = D, !.attached = a,
                     !.foreign = b, !.report = r] \in Findings
  BY DEF Findings

LEMMA DanglingTyped ==
    ASSUME NEW s \in Findings, NEW D \in SUBSET Callers, NEW a \in BOOLEAN, NEW E \in SUBSET Callers
    PROVE  [s EXCEPT !.dangling = D, !.breaks = a, !.atRisk = E] \in Findings
  BY DEF Findings

LEMMA ChangedTyped ==
    ASSUME NEW s \in Findings, NEW a \in BOOLEAN, NEW b \in BOOLEAN, NEW c \in BOOLEAN
    PROVE  [s EXCEPT !.parser = a, !.dynamic = b, !.stale = c] \in Findings
  BY DEF Findings

LEMMA NothingIsTyped == Nothing \in Findings
  BY DEF Nothing, Findings

\* Every step keeps the types.
LEMMA TypeStep == ASSUME TypeOK, Next PROVE TypeOK'
  <1>1. ASSUME NEW f \in Files, Edit(f) PROVE TypeOK'
    BY <1>1, ContentsAreTyped DEF Edit, TypeOK, world, Findings, Points
  <1>2. ASSUME NEW f \in Files, Publish(f) PROVE TypeOK'
    BY <1>2, ContentsAreTyped DEF Publish, RefOf, TypeOK, world, Findings, Points
  <1>3. ASSUME NEW f \in Callers, Resolve(f) PROVE TypeOK'
    BY <1>3, ContentsAreTyped DEF Resolve, TypeOK, world, Findings, Points
  <1>4. ASSUME NEW f \in Callers, Sweep(f) PROVE TypeOK'
    BY <1>4, ContentsAreTyped DEF Sweep, TypeOK, world, Findings, Points
  <1>5. ASSUME CompileUniverse PROVE TypeOK'
    <2>1. Nothing \in Findings
      BY NothingIsTyped DEF TypeOK
    <2>2. seen' \in Findings
      BY <1>5, <2>1, UniverseTyped DEF CompileUniverse
    <2> QED BY <1>5, <2>2 DEF CompileUniverse, TypeOK, world, Points
  <1>6. ASSUME NEW a \in BOOLEAN, NEW x \in BOOLEAN, NEW r \in Attached, AnalyzeDiff(a, x, r) PROVE TypeOK'
    <2>1. /\ Nothing \in Findings /\ DiffFiles \in SUBSET Files
          /\ (IF Home \in DiffFiles /\ Defined THEN WithEdge ELSE {}) \in SUBSET Callers
      BY NothingIsTyped DEF TypeOK, DiffFiles, WithEdge
    <2>2. seen' \in Findings
      BY <1>6, <2>1, DiffTyped DEF AnalyzeDiff
    <2> QED BY <1>6, <2>2 DEF AnalyzeDiff, TypeOK, world, Points
  <1>7. ASSUME ResolveIdentity PROVE TypeOK'
    <2>1. /\ seen \in Findings /\ Defined \in BOOLEAN
          /\ (IF Defined THEN WithEdge ELSE {}) \in SUBSET Callers
      BY DEF TypeOK, Defined, WithEdge
    <2>2. seen' \in Findings
      BY <1>7, <2>1, IdentityTyped DEF ResolveIdentity, Goes
    <2> QED BY <1>7, <2>2 DEF ResolveIdentity, TypeOK, world, Points, Goes
  <1>8. ASSUME CheckCited PROVE TypeOK'
    BY <1>8, ContentsAreTyped DEF CheckCited, Goes, TypeOK, world, Findings, Points
  <1>9. ASSUME MeasureCoverage PROVE TypeOK'
    <2>1. seen \in Findings /\ FloorMet \in BOOLEAN
      BY DEF TypeOK, FloorMet
    <2>2. \E b, c \in BOOLEAN :
             seen' = [seen EXCEPT !.covered = FloorMet, !.parser = b, !.dynamic = c]
      BY <1>9 DEF MeasureCoverage
    <2>3. seen' \in Findings
      BY <2>1, <2>2, CoverageTyped
    <2> QED BY <1>9, <2>3 DEF MeasureCoverage, Goes, TypeOK, world, Points
  <1>10. ASSUME MintScope PROVE TypeOK'
    <2>1. Nothing \in Findings /\ seen \in Findings
      BY NothingIsTyped DEF TypeOK
    <2>2. pre' \in [minted : BOOLEAN, status : Statuses, found : BOOLEAN, callers : SUBSET Callers]
      BY <1>10, <2>1, DecideIsGravest DEF MintScope, Findings
    <2> QED BY <1>10, <2>1, <2>2 DEF MintScope, TypeOK, world, Points
  <1>11. ASSUME CollectDangling PROVE TypeOK'
    <2>1. /\ seen \in Findings /\ Dangling \in SUBSET Callers
          /\ \A b \in BOOLEAN : (IF b THEN WithEdge \ seen.changed ELSE {}) \in SUBSET Callers
      BY DEF TypeOK, Dangling, WithEdge
    <2>2. seen' \in Findings
      BY <1>11, <2>1, DanglingTyped DEF CollectDangling, Goes
    <2> QED BY <1>11, <2>2 DEF CollectDangling, TypeOK, world, Points, Goes
  <1>12. ASSUME CheckChanged PROVE TypeOK'
    <2>1. seen \in Findings
      BY DEF TypeOK
    <2>2. seen' \in Findings
      BY <1>12, <2>1, ChangedTyped DEF CheckChanged, Goes
    <2> QED BY <1>12, <2>2 DEF CheckChanged, TypeOK, world, Points, Goes
  <1>13. ASSUME MintDiff PROVE TypeOK'
    <2>1. Nothing \in Findings /\ seen \in Findings
      BY NothingIsTyped DEF TypeOK
    <2>2. \A s : SafeCommit(Inputs(s)) \in {"pass", "warn", "block"}
      BY DEF SafeCommit
    <2>3. Usable \in BOOLEAN
      BY <2>1 DEF Usable, Findings
    <2>4. post' \in [minted : BOOLEAN, status : Statuses, verdict : {"pass", "warn", "block"},
                      changed : SUBSET Files, bound : BOOLEAN, report : Attached]
      BY <1>13, <2>1, <2>2, <2>3, DecideIsGravest DEF MintDiff, Findings
    <2> QED BY <1>13, <2>1, <2>4 DEF MintDiff, TypeOK, world, Points
  <1> QED BY <1>1, <1>2, <1>3, <1>4, <1>5, <1>6, <1>7, <1>8, <1>9, <1>10, <1>11, <1>12, <1>13 DEF Next, Collect

\* Every step keeps the references right.
LEMMA ReferencesStep == ASSUME TypeOK, References, Next PROVE References'
  <1>1. ASSUME NEW f \in Files, Edit(f) PROVE References'
    BY <1>1, ContentsAreTyped DEF Edit, TypeOK, References, Defined, world
  <1>2. ASSUME NEW f \in Files, Publish(f) PROVE References'
    BY <1>2, ContentsAreTyped DEF Publish, RefOf, TypeOK, References, Defined, world
  <1>3. ASSUME NEW f \in Callers, Resolve(f) PROVE References'
    BY <1>3, ContentsAreTyped DEF Resolve, TypeOK, References, Defined, world
  <1>4. ASSUME NEW f \in Callers, Sweep(f) PROVE References'
    BY <1>4, ContentsAreTyped DEF Sweep, TypeOK, References, Defined, world
  <1>5. ASSUME CompileUniverse PROVE References'
    BY <1>5, ContentsAreTyped DEF CompileUniverse, Nothing, TypeOK, References, Defined, world
  <1>6. ASSUME NEW a \in BOOLEAN, NEW x \in BOOLEAN, NEW r \in Attached, AnalyzeDiff(a, x, r) PROVE References'
    BY <1>6, ContentsAreTyped DEF AnalyzeDiff, Nothing, TypeOK, References, Defined, world
  <1>7. ASSUME ResolveIdentity PROVE References'
    BY <1>7, ContentsAreTyped DEF ResolveIdentity, Goes, TypeOK, References, Defined, world
  <1>8. ASSUME CheckCited PROVE References'
    BY <1>8, ContentsAreTyped DEF CheckCited, Goes, TypeOK, References, Defined, world
  <1>9. ASSUME MeasureCoverage PROVE References'
    BY <1>9, ContentsAreTyped DEF MeasureCoverage, Goes, TypeOK, References, Defined, world
  <1>10. ASSUME MintScope PROVE References'
    BY <1>10, ContentsAreTyped DEF MintScope, Nothing, TypeOK, References, Defined, world
  <1>11. ASSUME CollectDangling PROVE References'
    BY <1>11, ContentsAreTyped DEF CollectDangling, Goes, Dangling, TypeOK, References, Defined, world
  <1>12. ASSUME CheckChanged PROVE References'
    BY <1>12, ContentsAreTyped DEF CheckChanged, Goes, TypeOK, References, Defined, world
  <1>13. ASSUME MintDiff PROVE References'
    BY <1>13, ContentsAreTyped DEF MintDiff, Nothing, TypeOK, References, Defined, world
  <1> QED BY <1>1, <1>2, <1>3, <1>4, <1>5, <1>6, <1>7, <1>8, <1>9, <1>10, <1>11, <1>12, <1>13 DEF Next, Collect

\* Every step keeps what a scope receipt has read true of the files that stand still.
LEMMA ScopeStep == ASSUME TypeOK, ScopeReads, Next PROVE ScopeReads'
  <1>1. ASSUME NEW f \in Files, Edit(f) PROVE ScopeReads'
    BY <1>1, ContentsAreTyped DEF Edit, TypeOK, ScopeReads, Differs, world, Findings
  <1>2. ASSUME NEW f \in Files, Publish(f) PROVE ScopeReads'
    BY <1>2, ContentsAreTyped DEF Publish, RefOf, TypeOK, ScopeReads, Differs, world, Findings
  <1>3. ASSUME NEW f \in Callers, Resolve(f) PROVE ScopeReads'
    BY <1>3, ContentsAreTyped DEF Resolve, TypeOK, ScopeReads, Differs, world, Findings
  <1>4. ASSUME NEW f \in Callers, Sweep(f) PROVE ScopeReads'
    BY <1>4, ContentsAreTyped DEF Sweep, TypeOK, ScopeReads, Differs, world, Findings
  <1>5. ASSUME CompileUniverse PROVE ScopeReads'
    BY <1>5 DEF CompileUniverse, Nothing, TypeOK, ScopeReads, Differs, world, OnDisk, Journaled
  <1>6. ASSUME NEW a \in BOOLEAN, NEW x \in BOOLEAN, NEW r \in Attached, AnalyzeDiff(a, x, r) PROVE ScopeReads'
    BY <1>6, ContentsAreTyped DEF AnalyzeDiff, Nothing, TypeOK, ScopeReads, Differs, world, Findings
  <1>7. ASSUME ResolveIdentity PROVE ScopeReads'
    BY <1>7, ContentsAreTyped DEF ResolveIdentity, Goes, TypeOK, ScopeReads, Differs, world,
       Findings, WithEdge, Defined
  <1>8. ASSUME CheckCited PROVE ScopeReads'
    BY <1>8, ContentsAreTyped DEF CheckCited, Goes, TypeOK, ScopeReads, Differs, world, Findings
  <1>9. ASSUME MeasureCoverage PROVE ScopeReads'
    <2>1. seen \in Findings
      BY DEF TypeOK
    <2>2. /\ seen'.enumerated = seen.enumerated /\ seen'.found = seen.found
          /\ seen'.callers = seen.callers /\ seen'.covered = FloorMet
      BY <1>9, <2>1 DEF MeasureCoverage, Findings
    <2>3. UNCHANGED <<disk, journal, ref, steady>> /\ pc = "coverage" /\ pc' = "gate"
      BY <1>9 DEF MeasureCoverage, Goes, world
    <2>4. FloorMet /\ Cardinality(Files) + Others < 10 =>
             \A f \in Files : journal[f] # "absent" => ~Differs(f)
      BY FloorIsExhaustion DEF Journaled
    <2> QED BY <2>2, <2>3, <2>4 DEF ScopeReads, Differs, TypeOK
  <1>10. ASSUME MintScope PROVE ScopeReads'
    BY <1>10, ContentsAreTyped DEF MintScope, Nothing, TypeOK, ScopeReads, Differs, world, Findings
  <1>11. ASSUME CollectDangling PROVE ScopeReads'
    BY <1>11, ContentsAreTyped DEF CollectDangling, Goes, Dangling, TypeOK, ScopeReads, Differs, world, Findings
  <1>12. ASSUME CheckChanged PROVE ScopeReads'
    BY <1>12, ContentsAreTyped DEF CheckChanged, Goes, TypeOK, ScopeReads, Differs, world, Findings
  <1>13. ASSUME MintDiff PROVE ScopeReads'
    BY <1>13, ContentsAreTyped DEF MintDiff, Nothing, TypeOK, ScopeReads, Differs, world, Findings
  <1> QED BY <1>1, <1>2, <1>3, <1>4, <1>5, <1>6, <1>7, <1>8, <1>9, <1>10, <1>11, <1>12, <1>13 DEF Next, Collect

\* Every step keeps what a diff receipt has read true of the files that stand still.
LEMMA DiffStep == ASSUME TypeOK, DiffReads, Next PROVE DiffReads'
  <1>1. ASSUME NEW f \in Files, Edit(f) PROVE DiffReads'
    BY <1>1, ContentsAreTyped DEF Edit, TypeOK, DiffReads, Differs, DiffFiles, Usable, Defined, world, Findings
  <1>2. ASSUME NEW f \in Files, Publish(f) PROVE DiffReads'
    BY <1>2, ContentsAreTyped DEF Publish, RefOf, TypeOK, DiffReads, Differs, DiffFiles, Usable, Defined, world, Findings
  <1>3. ASSUME NEW f \in Callers, Resolve(f) PROVE DiffReads'
    BY <1>3, ContentsAreTyped DEF Resolve, TypeOK, DiffReads, Differs, DiffFiles, Usable, Defined, world, Findings
  <1>4. ASSUME NEW f \in Callers, Sweep(f) PROVE DiffReads'
    BY <1>4, ContentsAreTyped DEF Sweep, TypeOK, DiffReads, Differs, DiffFiles, Usable, Defined, world, Findings
  <1>5. ASSUME CompileUniverse PROVE DiffReads'
    BY <1>5, ContentsAreTyped DEF CompileUniverse, Nothing, TypeOK, DiffReads, Differs, DiffFiles, Usable, Defined, world, Findings
  <1>6. ASSUME NEW a \in BOOLEAN, NEW x \in BOOLEAN, NEW r \in Attached, AnalyzeDiff(a, x, r) PROVE DiffReads'
    BY <1>6, ContentsAreTyped DEF AnalyzeDiff, Nothing, TypeOK, DiffReads, Differs, DiffFiles, Usable, Defined, world, Findings
  <1>7. ASSUME ResolveIdentity PROVE DiffReads'
    BY <1>7, ContentsAreTyped DEF ResolveIdentity, Goes, TypeOK, DiffReads, Differs, DiffFiles, Usable, Defined, world, Findings
  <1>8. ASSUME CheckCited PROVE DiffReads'
    BY <1>8, ContentsAreTyped DEF CheckCited, Goes, TypeOK, DiffReads, Differs, DiffFiles, Usable, Defined, world, Findings
  <1>9. ASSUME MeasureCoverage PROVE DiffReads'
    BY <1>9, ContentsAreTyped DEF MeasureCoverage, Goes, TypeOK, DiffReads, Differs, DiffFiles, Usable, Defined, world, Findings
  <1>10. ASSUME MintScope PROVE DiffReads'
    BY <1>10, ContentsAreTyped DEF MintScope, Nothing, TypeOK, DiffReads, Differs, DiffFiles, Usable, Defined, world, Findings
  <1>11. ASSUME CollectDangling PROVE DiffReads'
    BY <1>11, ContentsAreTyped DEF CollectDangling, Goes, Dangling, TypeOK, DiffReads, Differs, DiffFiles, Usable, Defined, world, Findings
  <1>12. ASSUME CheckChanged PROVE DiffReads'
    BY <1>12, ContentsAreTyped DEF CheckChanged, Goes, TypeOK, DiffReads, Differs, DiffFiles, Usable, Defined, world, Findings
  <1>13. ASSUME MintDiff PROVE DiffReads'
    BY <1>13, ContentsAreTyped DEF MintDiff, Nothing, TypeOK, DiffReads, Differs, DiffFiles, Usable, Defined, world, Findings
  <1> QED BY <1>1, <1>2, <1>3, <1>4, <1>5, <1>6, <1>7, <1>8, <1>9, <1>10, <1>11, <1>12, <1>13 DEF Next, Collect

LEMMA InitiallyRight == Init => IInv
  <1> SUFFICES ASSUME Init PROVE IInv
    OBVIOUS
  <1>1. \A f \in Files : base[f] \in Contents(f)
    BY DEF Init, Files, Contents
  <1>2. /\ pre \in [minted : BOOLEAN, status : Statuses, found : BOOLEAN, callers : SUBSET Callers]
        /\ post \in [minted : BOOLEAN, status : Statuses, verdict : {"pass", "warn", "block"},
                     changed : SUBSET Files, bound : BOOLEAN, report : Attached]
    BY DEF Init, Statuses
  <1>3. TypeOK
    BY <1>1, <1>2, NothingIsTyped DEF Init, TypeOK, Points
  <1>4. References
    BY <1>3, ContentsAreTyped DEF Init, References, Defined, TypeOK
  <1>5. ScopeReads /\ DiffReads
    BY DEF Init, ScopeReads, DiffReads
  <1> QED BY <1>3, <1>4, <1>5 DEF IInv

\* The types, the references and what receipts have read are inductive.
THEOREM Invariance == Spec => []IInv
  <1>1. IInv /\ [Next]_vars => IInv'
    <2>1. ASSUME IInv, Next PROVE IInv'
      BY <2>1, TypeStep, ReferencesStep, ScopeStep, DiffStep DEF IInv
    <2>2. ASSUME IInv, UNCHANGED vars PROVE IInv'
      BY <2>2 DEF IInv, TypeOK, References, ScopeReads, DiffReads, vars, world, Defined, Differs,
                  DiffFiles, Usable
    <2> QED BY <2>1, <2>2
  <1> QED BY InitiallyRight, <1>1, PTL DEF Spec

\* The values every variable takes, of any callers and reports.
THEOREM TypeCorrect == Spec => []TypeOK
  BY Invariance, PTL DEF IInv

\* What an assured scope receipt says of its readings.
LEMMA AssuredScope ==
    ASSUME MintScope, pre'.status = "ASSURED_WITHIN_SCOPE"
    PROVE  seen.found /\ seen.enumerated /\ seen.covered /\ pre'.callers = seen.callers
  <1> DEFINE facts ==
        [Clear EXCEPT !.identity = IF seen.found THEN "UNIQUE" ELSE "NOT_FOUND",
                      !.bound = seen.found,
                      !.stale = seen.stale, !.gate = GateBlocked,
                      !.parser = seen.parser, !.dynamic = seen.dynamic,
                      !.claim = TRUE, !.covered = seen.covered,
                      !.enumerated = seen.enumerated, !.capable = seen.capable]
  <1>1. Decide(facts) = "ASSURED_WITHIN_SCOPE" /\ pre'.callers = seen.callers
    BY DEF MintScope
  <1>2. /\ facts.identity = IF seen.found THEN "UNIQUE" ELSE "NOT_FOUND"
        /\ facts.claim = TRUE
        /\ facts.covered = seen.covered /\ facts.enumerated = seen.enumerated
    BY DEF Clear
  <1> HIDE DEF facts
  <1>3. ~Calls(facts)["ABSTAINED"] /\ ~Calls(facts)["PARTIAL"]
    BY <1>1, AssuredLeavesNothingOpen DEF Statuses
  <1> QED BY <1>1, <1>2, <1>3 DEF Calls

\* An assured absence is real: with fewer than ten files, each file that stood still
\* and calls the symbol is published, and its reference is parked or was cut.
THEOREM AbsenceIsRealAlways == Spec => AbsenceIsReal
  <1>1. ASSUME IInv, MintScope, pre'.status = "ASSURED_WITHIN_SCOPE", pre'.callers = {},
               Cardinality(Files) + Others < 10,
               NEW f \in steady \cap Callers, disk[f] = "calls"
        PROVE  ~Differs(f) /\ (ref[f] = "parked" \/ f \in cut)
    <2>1. pc = "gate" /\ seen.found /\ seen.enumerated /\ seen.covered /\ seen.callers = {}
      BY <1>1, AssuredScope DEF MintScope
    <2>2. journal[f] # "absent" /\ ~Differs(f)
      BY <1>1, <2>1 DEF IInv, ScopeReads
    <2>3. ref[f] # "edge"
      BY <1>1, <2>1 DEF IInv, ScopeReads
    <2>4. ref[f] # "none" \/ f \in cut
      BY <1>1, <2>2 DEF IInv, References, Differs
    <2> QED BY <1>1, <2>2, <2>3, <2>4 DEF IInv, TypeOK
  <1>2. IInv /\ [Next]_vars =>
          [ /\ MintScope
            /\ pre'.status = "ASSURED_WITHIN_SCOPE" /\ pre'.callers = {}
            /\ Cardinality(Files) + Others < 10
            => \A f \in steady \cap Callers : disk[f] = "calls" =>
                  /\ ~Differs(f)
                  /\ ref[f] = "parked" \/ f \in cut ]_vars
    BY <1>1
  <1> QED BY <1>2, Invariance, PTL DEF Spec, AbsenceIsReal

\* What a passing diff receipt says of its readings.
LEMMA PassingDiff ==
    ASSUME MintDiff, post'.verdict = "pass"
    PROVE  /\ ~seen.stale /\ seen.dangling = {}
           /\ Usable => pre.callers \subseteq seen.changed
           /\ post'.changed = seen.changed /\ post'.bound = Usable
  <1> DEFINE facts == [Clear EXCEPT !.bound = seen.changed # {}, !.stale = seen.stale,
                                    !.parser = seen.parser, !.dynamic = seen.dynamic,
                                    !.unresolved = seen.dangling # {}]
             in == Inputs(Decide(facts))
  <1>1. /\ SafeCommit(in) = "pass"
        /\ post'.changed = seen.changed /\ post'.bound = Usable
    BY DEF MintDiff
  <1>2. ~Blocks(in) /\ ~Warns(in)
    BY <1>1 DEF SafeCommit
  <1>3. /\ in.status = Decide(facts)
        /\ in.untouched = (Usable /\ pre.callers \ seen.changed # {})
    BY DEF Inputs
  <1>4. facts.stale = seen.stale /\ facts.unresolved = (seen.dangling # {})
    BY DEF Clear
  <1> HIDE DEF facts, in
  <1>5. Decide(facts) = "ASSURED_WITHIN_SCOPE"
    BY <1>2, <1>3, DecideIsGravest DEF Blocks, Warns, Statuses
  <1>6. ~Calls(facts)["STALE"] /\ ~Calls(facts)["PARTIAL"]
    BY <1>5, AssuredLeavesNothingOpen DEF Statuses
  <1>7. ~seen.stale /\ seen.dangling = {}
    BY <1>4, <1>6 DEF Calls
  <1>8. Usable => pre.callers \subseteq seen.changed
    BY <1>2, <1>3 DEF Warns
  <1> QED BY <1>1, <1>7, <1>8

\* A commit that passes with the scope receipt of a removed symbol leaves no known
\* caller: each file that still calls it and stood still is stale outside the diff,
\* or its edge was cut by the publication that removed the symbol.
THEOREM NoKnownCallerIsLeftAlways == Spec => NoKnownCallerIsLeft
  <1>1. ASSUME IInv, MintDiff, post'.verdict = "pass", post'.bound, pre.found,
               Home \in steady, disk[Home] = "gone",
               NEW f \in steady \cap Callers, disk[f] = "calls"
        PROVE  /\ f \notin pre.callers \ post'.changed
               /\ f \in post'.changed => ~Differs(f)
               /\ ~Differs(f) => f \in cut
    <2>1. /\ pc = "verdict" /\ ~seen.stale /\ seen.dangling = {} /\ Usable
          /\ pre.callers \subseteq seen.changed /\ post'.changed = seen.changed
      BY <1>1, PassingDiff DEF MintDiff
    <2>2. \A g \in steady \cap seen.changed : ~Differs(g)
      BY <1>1, <2>1 DEF IInv, DiffReads
    <2>3. Home \in seen.changed
      <3>1. Home \in DiffFiles
        BY <1>1, ContentsAreTyped DEF IInv, References, DiffFiles
      <3> QED BY <1>1, <2>1, <3>1 DEF IInv, DiffReads
    <2>4. ~Defined
      BY <1>1, <2>2, <2>3 DEF Differs, Defined
    <2>5. ref[f] # "parked"
      BY <1>1, <2>1, <2>4 DEF IInv, DiffReads
    <2>6. ASSUME ~Differs(f) PROVE f \in cut
      <3>1. ref[f] # "none" \/ f \in cut
        BY <1>1, <2>6 DEF IInv, References, Differs
      <3>2. ref[f] = "edge" => f \in cut
        BY <1>1, <2>4 DEF IInv, References
      <3>3. ref[f] \in {"none", "parked", "edge"}
        BY <1>1 DEF IInv, TypeOK
      <3> QED BY <2>5, <3>1, <3>2, <3>3
    <2> QED BY <1>1, <2>1, <2>2, <2>6
  <1>2. IInv /\ [Next]_vars =>
          [ /\ MintDiff /\ post'.verdict = "pass" /\ post'.bound
            /\ pre.found /\ Home \in steady /\ disk[Home] = "gone"
            => \A f \in steady \cap Callers : disk[f] = "calls" =>
                  /\ f \notin pre.callers \ post'.changed
                  /\ f \in post'.changed => ~Differs(f)
                  /\ ~Differs(f) => f \in cut ]_vars
    BY <1>1
  <1> QED BY <1>2, Invariance, PTL DEF Spec, NoKnownCallerIsLeft
=============================================================================
