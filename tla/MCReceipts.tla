---------------------------- MODULE MCReceipts ----------------------------
(* Instances of Receipts for TLC. *)
EXTENDS Receipts, TLC

CONSTANTS m1, m2, h

\* A report that only counts its failures.
CountOnly == [ran |-> Unsaid, failed |-> 1, labels |-> 0, odd |-> FALSE]
MCReports == {NoReport, CountOnly}
MCNoReport == {NoReport}
=============================================================================
