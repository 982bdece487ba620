------------------------------- MODULE Receipts -------------------------------
(***************************************************************************)
(* The change receipts of src/sot_graph/assurance: the scope receipt taken *)
(* before a symbol is renamed or deleted, and the diff receipt with its    *)
(* safe_commit verdict taken after it.  A receipt is collected step by     *)
(* step from the disk and from the graph, while files are edited and a     *)
(* reconciler publishes, resolves and sweeps.                              *)
(*                                                                         *)
(* One symbol, defined in one file, that other files may call once.  The   *)
(* sidecar ledger of providers is empty, no collection reaches its cap,    *)
(* and no storage call fails; Verdicts has those facts.                    *)
(***************************************************************************)
EXTENDS Verdicts, FiniteSets

CONSTANTS
    Home,         \* the file that defines the symbol
    Callers,      \* files that may call it
    Untracked,    \* those git does not track: no diff names them
    Others,       \* how many files never change, are indexed, and do not call it
    Attached,     \* reports that come with a diff receipt
    MaxEdits      \* bound: edits of files

ASSUME CallersAssumption ==
    /\ IsFiniteSet(Callers) /\ Home \notin Callers /\ Untracked \subseteq Callers
ASSUME NumbersAssumption == Others \in Nat /\ MaxEdits \in Nat
ASSUME ReportsAssumption == NoReport \in Attached /\ Attached \subseteq {NoReport} \cup Reports(0..2)

Files == {Home} \cup Callers

\* "absent" is an untracked file not yet created, or no journal row.
Contents(f) == IF f = Home THEN {"old", "resigned", "gone"}
               ELSE {"plain", "calls", "broken"} \cup {"absent" : x \in {f} \cap Untracked}
AnyContent == {"old", "resigned", "gone", "plain", "calls", "broken", "absent"}

VARIABLES
    base,      \* base[f]: the content of f at HEAD
    disk,      \* disk[f]
    journal,   \* journal[f]: the content f's rows were made of
    ref,       \* ref[f]: f's reference to the symbol: none, parked, or an edge
    cut,       \* history: files whose edge lost its target to a publication
    edits,
    pc,        \* the step of the receipt being collected
    seen,      \* what it has read so far
    steady,    \* history: files nothing happened to since it began
    pre,       \* the last scope receipt
    post       \* the last diff receipt

world == <<base, disk, journal, ref, cut, edits>>
vars == <<world, pc, seen, steady, pre, post>>

Points == {"idle", "identity", "stale", "coverage", "gate", "dangling", "fresh", "verdict"}
Findings ==
    [enumerated : BOOLEAN, capable : BOOLEAN, found : BOOLEAN, callers : SUBSET Callers,
     stale : BOOLEAN, covered : BOOLEAN, parser : BOOLEAN, dynamic : BOOLEAN,
     changed : SUBSET Files, dangling : SUBSET Callers, breaks : BOOLEAN,
     atRisk : SUBSET Callers, attached : BOOLEAN, foreign : BOOLEAN, report : Attached]
Nothing ==
    [enumerated |-> FALSE, capable |-> FALSE, found |-> FALSE, callers |-> {},
     stale |-> FALSE, covered |-> FALSE, parser |-> FALSE, dynamic |-> FALSE,
     changed |-> {}, dangling |-> {}, breaks |-> FALSE, atRisk |-> {},
     attached |-> FALSE, foreign |-> FALSE, report |-> NoReport]

\* The type invariant of the module.
TypeOK ==
    /\ {base, disk, journal} \subseteq [Files -> AnyContent]
    /\ \A f \in Files : {base[f], disk[f], journal[f]} \subseteq Contents(f)
    /\ ref \in [Callers -> {"none", "parked", "edge"}]
    /\ cut \subseteq Callers /\ edits \in 0..MaxEdits
    /\ pc \in Points /\ seen \in Findings /\ steady \subseteq Files
    /\ pre \in [minted : BOOLEAN, status : Statuses, found : BOOLEAN, callers : SUBSET Callers]
    /\ post \in [minted : BOOLEAN, status : Statuses, verdict : {"pass", "warn", "block"},
                 changed : SUBSET Files, bound : BOOLEAN, report : Attached]

\* The repository as it was committed, indexed.
Init ==
    /\ base \in [Files -> AnyContent]
    /\ base[Home] = "old"
    /\ \A f \in Callers :
          base[f] \in IF f \in Untracked THEN {"absent"} ELSE {"plain", "calls"}
    /\ disk = base /\ journal = base
    /\ ref = [f \in Callers |-> IF base[f] = "calls" THEN "edge" ELSE "none"]
    /\ cut = {} /\ edits = 0
    /\ pc = "idle" /\ seen = Nothing /\ steady = {}
    /\ pre = [minted |-> FALSE, status |-> "ABSTAINED", found |-> FALSE, callers |-> {}]
    /\ post = [minted |-> FALSE, status |-> "ABSTAINED", verdict |-> "block",
               changed |-> {}, bound |-> FALSE, report |-> NoReport]

-----------------------------------------------------------------------------
(* The user and the reconciler                                             *)

Edit(f) ==
    /\ edits < MaxEdits
    /\ edits' = edits + 1
    /\ \E c \in Contents(f) \ {disk[f], "absent"} : disk' = [disk EXCEPT ![f] = c]
    /\ steady' = steady \ {f}
    /\ UNCHANGED <<base, journal, ref, cut, pc, seen, pre, post>>

\* Mutant: the reference of the version before is kept.
MutantRefOf(f) == IF disk[f] = "calls" \/ ref[f] # "none" THEN "parked" ELSE "none"

\* The reference a published caller is left with.
RefOf(f) == IF disk[f] = "calls" THEN "parked" ELSE "none"

\* Mutant: a publication takes the journal row for that of a deleted file.
MutantPublish(f) ==
    /\ journal[f] # disk[f]
    /\ journal' = [journal EXCEPT ![f] = "absent"]
    /\ steady' = steady \ {f}
    /\ UNCHANGED <<base, disk, ref, cut, edits, pc, seen, pre, post>>

\* A changed file is published; edges into its symbol stay, dangling when the
\* symbol is gone.
Publish(f) ==
    /\ journal[f] # disk[f]
    /\ journal' = [journal EXCEPT ![f] = disk[f]]
    /\ IF f = Home
       THEN LET edges == {g \in Callers : ref[g] = "edge"}
            IN  /\ cut' = IF disk[f] = "gone" THEN cut \cup edges ELSE cut \ edges
                /\ UNCHANGED ref
       ELSE /\ ref' = [ref EXCEPT ![f] = RefOf(f)]
            /\ cut' = cut \ {f}
    /\ steady' = steady \ {f}
    /\ UNCHANGED <<base, disk, edits, pc, seen, pre, post>>

\* The graph has a node of the symbol.
Defined == journal[Home] # "gone"

\* resolve_all_pending_edges, for one row.
Resolve(f) ==
    /\ ref[f] = "parked" /\ Defined
    /\ ref' = [ref EXCEPT ![f] = "edge"]
    /\ steady' = steady \ {f}
    /\ UNCHANGED <<base, disk, journal, cut, edits, pc, seen, pre, post>>

\* cleanup_orphan_edges, for one edge.
Sweep(f) ==
    /\ ref[f] = "edge" /\ ~Defined
    /\ ref' = [ref EXCEPT ![f] = "none"]
    /\ steady' = steady \ {f}
    /\ UNCHANGED <<base, disk, journal, cut, edits, pc, seen, pre, post>>

-----------------------------------------------------------------------------
(* What a receipt reads                                                    *)

OnDisk == {f \in Files : disk[f] # "absent"}
Journaled == {f \in Files : journal[f] # "absent"}
WithEdge == {f \in Callers : ref[f] = "edge"}
Differs(f) == journal[f] # disk[f]

\* Mutant: the last parse is enough, whatever the disk says.
MutantMeasured(F) == {f \in F : journal[f] # "broken"}

\* repo_coverage: the files of F in a covered state; a re-written one is stale.
Measured(F) == {f \in F \cap Journaled : ~Differs(f) /\ journal[f] # "broken"}

\* covered_fraction reaches the floor of 0.9.
FloorMet ==
    10 * (Cardinality(Measured(Files)) + Others) >= 9 * (Cardinality(Journaled) + Others)

\* build_scope_manifest over some paths; no path means every path.
ManifestErrors(F) ==
    LET scope == IF F = {} THEN Files ELSE F
    IN  {f \in scope : f \in OnDisk \ Journaled \/ journal[f] = "broken"}
Unjournaled(F) == LET scope == IF F = {} THEN Files ELSE F IN (scope \cap OnDisk) \ Journaled

\* The facts when nothing is wrong.
Clear ==
    [identity |-> "UNIQUE", targets |-> FALSE, error |-> FALSE, bound |-> TRUE,
     stale |-> FALSE, conflicts |-> FALSE, gate |-> FALSE, truncated |-> FALSE,
     parser |-> FALSE, unresolved |-> FALSE, dynamic |-> FALSE, claim |-> FALSE,
     covered |-> FALSE, enumerated |-> FALSE, capable |-> FALSE, fallback |-> FALSE,
     provider |-> TRUE]

Goes(step) == pc' = step /\ UNCHANGED <<world, steady, pre, post>>

-----------------------------------------------------------------------------
(* scope_receipt, of a rename or deletion                                  *)

\* The universe is compiled before anything is queried.
CompileUniverse ==
    /\ pc = "idle"
    /\ pc' = "identity"
    /\ seen' = [Nothing EXCEPT !.enumerated = OnDisk \subseteq Journaled,
                               !.capable = \A f \in OnDisk : journal[f] # "broken"]
    /\ steady' = Files
    /\ UNCHANGED <<world, pre, post>>

\* resolve_symbol_identity, then the edges into the node.
ResolveIdentity ==
    /\ pc = "identity" /\ Goes("stale")
    /\ seen' = [seen EXCEPT !.found = Defined, !.callers = IF Defined THEN WithEdge ELSE {}]

\* assured_query_context: the cited files against the journal.
CheckCited ==
    /\ pc = "stale" /\ Goes("coverage")
    /\ seen' = [seen EXCEPT !.stale = /\ seen.found
                                     /\ \E f \in {Home} \cup seen.callers : Differs(f)]

\* repo_coverage and the manifest of the affected files.
MeasureCoverage ==
    LET affected == IF seen.found THEN {Home} \cup seen.callers ELSE {}
        skipped == {f \in Journaled : journal[f] = "broken" /\ ~Differs(f)}
    IN  /\ pc = "coverage" /\ Goes("gate")
        /\ seen' = [seen EXCEPT !.covered = FloorMet,
                                !.parser = skipped \cup ManifestErrors(affected) # {},
                                !.dynamic = Unjournaled(affected) # {}]

\* check_rename_gate, which looks the node and its callers up again.
GateBlocked ==
    LET callers == IF Defined THEN WithEdge ELSE {}
        touched == {Home} \cup callers
    IN  \/ ~Defined
        \/ /\ callers = {}
           /\ ~(seen.enumerated /\ seen.capable /\ Measured(touched) = touched)

\* The receipt; the claim profile of a scope receipt is an absence.
MintScope ==
    LET facts ==
            [Clear EXCEPT !.identity = IF seen.found THEN "UNIQUE" ELSE "NOT_FOUND",
                          !.bound = seen.found,
                          !.stale = seen.stale, !.gate = GateBlocked,
                          !.parser = seen.parser, !.dynamic = seen.dynamic,
                          !.claim = TRUE, !.covered = seen.covered,
                          !.enumerated = seen.enumerated, !.capable = seen.capable]
    IN  /\ pc = "gate"
        /\ pre' = [minted |-> TRUE, status |-> Decide(facts),
                   found |-> seen.found, callers |-> seen.callers]
        /\ pc' = "idle" /\ seen' = Nothing /\ steady' = {}
        /\ UNCHANGED <<world, post>>

-----------------------------------------------------------------------------
(* diff_impact_receipt, of the working tree                                *)

\* The files the diff names.
DiffFiles == {f \in Files \ Untracked : disk[f] # base[f]}

\* analyze_diff_impact: the changed files and the callers of changed symbols;
\* the request normalized its report, the pre-receipt may come from elsewhere.
AnalyzeDiff(attached, foreign, report) ==
    /\ pc = "idle"
    /\ attached => pre.minted
    /\ foreign => attached
    /\ pc' = "dangling"
    /\ seen' = [Nothing EXCEPT !.changed = DiffFiles,
                               !.callers = IF Home \in DiffFiles /\ Defined THEN WithEdge ELSE {},
                               !.attached = attached, !.foreign = foreign,
                               !.report = report]
    /\ steady' = Files
    /\ UNCHANGED <<world, pre, post>>

\* The prediction is used unless the binding audit excludes it.
Usable == seen.attached /\ ~seen.foreign

\* The diff deletes a line that names the symbol, or adds the line of f's call.
NameRemoved ==
    \/ disk[Home] # base[Home]
    \/ \E f \in DiffFiles \ {Home} : base[f] = "calls" /\ disk[f] # "calls"
LineAdded(f) == f \in DiffFiles /\ base[f] # "calls"

\* Mutant: the pre-receipt is not consulted.
MutantDangling ==
    {f \in Callers : /\ ref[f] = "parked"
                     /\ f \in seen.changed \cup seen.callers
                     /\ LineAdded(f) \/ NameRemoved}

\* dangling_references: parked rows of the changed and caller files that the diff
\* implicates; parked rows of the vanished symbol of the pre-receipt; and its
\* callers that the diff does not touch.
Dangling ==
    LET parked == {f \in Callers : ref[f] = "parked"}
        vanished == Usable /\ pre.found /\ ~Defined
    IN  {f \in parked : f \in seen.changed \cup seen.callers /\ (LineAdded(f) \/ NameRemoved)}
        \cup {f \in parked : vanished}
        \cup {f \in pre.callers \ seen.changed : vanished}

\* The resolution ledger, with the callers semantic_breaks finds outside the
\* diff for a definition whose signature breaks.
CollectDangling ==
    LET broken == Home \in seen.changed /\ disk[Home] = "resigned"
    IN  /\ pc = "dangling" /\ Goes("fresh")
        /\ seen' = [seen EXCEPT !.dangling = Dangling, !.breaks = broken,
                                !.atRisk = IF broken /\ Defined
                                           THEN WithEdge \ seen.changed ELSE {}]

\* build_scope_manifest, then _post_change_stale_files; a file without a journal
\* row is stale.
CheckChanged ==
    /\ pc = "fresh" /\ Goes("verdict")
    /\ seen' = [seen EXCEPT !.parser = ManifestErrors(seen.changed) # {},
                            !.dynamic = Unjournaled(seen.changed) # {},
                            !.stale = \E f \in seen.changed : Differs(f)]

\* The report of safe_commit_verdict is the echo of the request.
Inputs(status) ==
    [status |-> status, dangling |-> Cardinality(seen.dangling),
     report |-> IF seen.report = NoReport THEN NoReport ELSE Canonical(seen.report),
     untouched |-> Usable /\ pre.callers \ seen.changed # {},
     debt |-> FALSE, breaksCallers |-> seen.atRisk # {}, breaks |-> seen.breaks,
     removed |-> FALSE,
     binding |-> Binding(seen.attached, seen.foreign, FALSE, TRUE)]

\* No absence is claimed: the changed files are bound, fresh and resolved.
MintDiff ==
    LET facts == [Clear EXCEPT !.bound = seen.changed # {}, !.stale = seen.stale,
                               !.parser = seen.parser, !.dynamic = seen.dynamic,
                               !.unresolved = seen.dangling # {}]
        status == Decide(facts)
    IN  /\ pc = "verdict"
        /\ post' = [minted |-> TRUE, status |-> status,
                    verdict |-> SafeCommit(Inputs(status)), changed |-> seen.changed,
                    bound |-> Usable, report |-> seen.report]
        /\ pc' = "idle" /\ seen' = Nothing /\ steady' = {}
        /\ UNCHANGED <<world, pre>>

Collect ==
    \/ ResolveIdentity \/ CheckCited \/ MeasureCoverage \/ MintScope
    \/ CollectDangling \/ CheckChanged \/ MintDiff

Next ==
    \/ \E f \in Files : Edit(f) \/ Publish(f)
    \/ \E f \in Callers : Resolve(f) \/ Sweep(f)
    \/ CompileUniverse
    \/ \E attached, foreign \in BOOLEAN : \E r \in Attached : AnalyzeDiff(attached, foreign, r)
    \/ Collect

\* A watcher keeps reconciling, a receipt that was begun is collected, and diff
\* receipts are taken again and again.
Fairness ==
    /\ WF_vars(\E f \in Files : Publish(f))
    /\ WF_vars(\E f \in Callers : Resolve(f) \/ Sweep(f))
    /\ WF_vars(Collect)
    /\ SF_vars(AnalyzeDiff(FALSE, FALSE, NoReport))

Spec == Init /\ [][Next]_vars /\ Fairness

-----------------------------------------------------------------------------
(* Properties                                                              *)

\* An assured receipt of a rename or deletion that found no caller, where fewer
\* than ten files make any stale one miss the coverage floor: each file that stood
\* still while it was collected and calls the symbol is published, and its
\* reference is parked, or was cut by a publication that removed the symbol.
AbsenceIsReal ==
    [][ /\ MintScope
        /\ pre'.status = "ASSURED_WITHIN_SCOPE" /\ pre'.callers = {}
        /\ Cardinality(Files) + Others < 10
        => \A f \in steady \cap Callers : disk[f] = "calls" =>
              /\ ~Differs(f)
              /\ ref[f] = "parked" \/ f \in cut ]_vars

\* A diff receipt that passes with the scope receipt of a symbol that is gone: of
\* the files that stood still while it was collected and still call the symbol,
\* none is one the scope receipt listed and the diff leaves alone; none that the
\* diff changes is stale; and one whose rows are current had its edge cut by the
\* publication that removed the symbol.
NoKnownCallerIsLeft ==
    [][ /\ MintDiff /\ post'.verdict = "pass" /\ post'.bound
        /\ pre.found /\ Home \in steady /\ disk[Home] = "gone"
        => \A f \in steady \cap Callers : disk[f] = "calls" =>
              /\ f \notin pre.callers \ post'.changed
              /\ f \in post'.changed => ~Differs(f)
              /\ ~Differs(f) => f \in cut ]_vars

\* A diff that can be closed: something changed, nothing it changes is broken, and
\* no tracked file calls a symbol that is gone.
Clean ==
    /\ DiffFiles # {}
    /\ \A f \in DiffFiles : disk[f] # "broken"
    /\ disk[Home] = "gone" => \A f \in Callers \ Untracked : disk[f] # "calls"

\* When the edits leave such a diff, receipts without a prediction come to close
\* it, whatever was parked, attached, cut and swept before.
Closes == <>[]Clean => []<>(post.status = "ASSURED_WITHIN_SCOPE")

\* validate_test_results: "an explicit failure claim is honored as blocking";
\* canonical_test_results: the echo "stays valid with the same effective_failed,
\* so a failures-only or zero-count-with-labels report keeps BLOCKING after
\* canonicalization instead of degrading to warn".
FailureClaimsBlock ==
    post.minted /\ post.report # NoReport =>
        (Valid(post.report) /\ Failed(post.report) > 0 => post.verdict = "block")
=============================================================================
