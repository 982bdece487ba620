---- MODULE MCWatcher ----
(* Instances of Watcher for TLC. *)
EXTENDS Watcher

CONSTANTS f1, f2
====
