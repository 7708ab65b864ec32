--------------------------- MODULE MCListMonitor ---------------------------
(* Two files, the watcher of the rules and a notification that stop the     *)
(* operator, the first with the lock of the loader held, and a worker.      *)
EXTENDS ListMonitor

CONSTANTS a, b, watcher, gui, w1
=============================================================================
