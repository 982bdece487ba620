------------------------------- MODULE Verdicts -------------------------------
(***************************************************************************)
(* The pure reducers of src/sot_graph/assurance: decide() of state.py,     *)
(* which turns the facts a receipt collected into its status, and          *)
(* safe_commit_verdict() of resolution.py, which turns the status, what    *)
(* the change left unresolved and the caller's test report into pass, warn *)
(* or block.  Module Receipts says where the facts come from.              *)
(***************************************************************************)
EXTENDS Naturals

CONSTANTS
    Unsaid,       \* a count the test report does not state
    NoReport      \* no test report is attached

ASSUME UnsaidAssumption == Unsaid \notin Nat

Statuses ==
    {"ABSTAINED", "UNVERIFIABLE", "STALE", "CONFLICTED", "PARTIAL", "ASSURED_WITHIN_SCOPE"}

\* STATUS_SEVERITY.
Severity ==
    [ABSTAINED |-> 50, UNVERIFIABLE |-> 40, STALE |-> 30, CONFLICTED |-> 20,
     PARTIAL |-> 10, ASSURED_WITHIN_SCOPE |-> 0]

\* AssuranceFacts, each fact reduced to what decide() asks of it; claim says
\* whether the receipt rests on an absence, covered that the measured coverage
\* reaches the floor, enumerated and capable that the universe is exhausted.
Facts ==
    [identity : {"UNIQUE", "NOT_FOUND", "AMBIGUOUS"}, targets : BOOLEAN, error : BOOLEAN,
     bound : BOOLEAN, stale : BOOLEAN, conflicts : BOOLEAN, gate : BOOLEAN,
     truncated : BOOLEAN, parser : BOOLEAN, unresolved : BOOLEAN, dynamic : BOOLEAN,
     claim : BOOLEAN, covered : BOOLEAN, enumerated : BOOLEAN, capable : BOOLEAN,
     fallback : BOOLEAN, provider : BOOLEAN]

\* The condition under which each status becomes a candidate.
Calls(f) ==
    [ABSTAINED |-> f.identity # "UNIQUE",
     UNVERIFIABLE |-> f.error \/ ~f.bound,
     STALE |-> f.stale,
     CONFLICTED |-> f.conflicts,
     PARTIAL |-> \/ f.targets \/ f.gate \/ f.truncated \/ f.parser \/ f.unresolved \/ f.dynamic
                 \/ f.claim /\ ~(f.covered /\ f.enumerated /\ f.capable /\ ~f.fallback)
                 \/ ~f.provider,
     ASSURED_WITHIN_SCOPE |-> TRUE]

\* decide: the gravest candidate.
Decide(f) ==
    CHOOSE s \in Statuses :
        /\ Calls(f)[s]
        /\ \A x \in Statuses : Calls(f)[x] => Severity[x] <= Severity[s]

-----------------------------------------------------------------------------
(* Caller-reported tests: counts that may be unsaid, the number of failure *)
(* labels, and whether a field has a wrong type, sign or name.             *)

Reports(Counts) ==
    [ran : Counts \cup {Unsaid}, failed : Counts \cup {Unsaid}, labels : Counts, odd : BOOLEAN]

\* The larger of two counts; "or 0".
Larger(m, n) == IF m >= n THEN m ELSE n
OrZero(count) == IF count = Unsaid THEN 0 ELSE count

\* validate_test_results: a failed count above ran is a contradiction, unless
\* the labels explain it.
Contradictory(r) ==
    /\ r.ran # Unsaid /\ r.failed # Unsaid
    /\ r.failed > r.ran
    /\ r.failed # r.labels

Valid(r) == ~r.odd /\ ~Contradictory(r)

\* effective_failed.
Failed(r) == Larger(OrZero(r.failed), r.labels)

\* canonical_test_results: the echo a request carries instead of the report.
Canonical(r) ==
    IF Valid(r)
    THEN [ran |-> OrZero(r.ran), failed |-> Failed(r), labels |-> r.labels, odd |-> FALSE]
    ELSE r

-----------------------------------------------------------------------------
(* The verdict                                                             *)

\* pre_receipt_binding of an attached receipt: its kind and repository agree,
\* its digest recomputes, its snapshot names a repository.
Binding(attached, foreign, tampered, named) ==
    IF ~attached THEN "missing"
    ELSE IF foreign \/ tampered THEN "incompatible"
    ELSE IF named THEN "bound" ELSE "unverified"

\* What safe_commit_verdict reads; debt is that added lines carry markers.
Blocks(in) ==
    \/ in.dangling > 0
    \/ in.status \in {"ABSTAINED", "UNVERIFIABLE", "CONFLICTED", "STALE"}
    \/ in.report # NoReport /\ Valid(in.report) /\ Failed(in.report) > 0
    \/ in.breaksCallers

Warns(in) ==
    \/ in.status = "PARTIAL"
    \/ in.report # NoReport /\ ~Valid(in.report)
    \/ in.untouched \/ in.debt \/ in.breaks \/ in.removed
    \/ in.binding = "incompatible"

SafeCommit(in) ==
    IF Blocks(in) THEN "block" ELSE IF Warns(in) THEN "warn" ELSE "pass"
=============================================================================
