---- MODULE MCPublication ----
(* Instances of Publication for TLC. *)
EXTENDS Publication

CONSTANTS w1, w2, f1, f2, a, b

\* The contents are interchangeable, so one of them may be every file's first.
MCInit == Init /\ disk \in [Files -> {a}]
MCSpec == MCInit /\ [][Next]_vars /\ Fairness
====
