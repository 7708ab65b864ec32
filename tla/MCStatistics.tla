---------------------------- MODULE MCStatistics ----------------------------
(* A small instance of Statistics for TLC: limits that are lowered below what is in use,   *)
(* and two reports that differ in everything the counters tell apart.                      *)
EXTENDS Statistics

CONSTANTS h1, h2, p1

\* The process of one of them was not found.
MCReports == {[host |-> h1, path |-> NoPath, rule |-> "allow"],
              [host |-> h2, path |-> p1, rule |-> "none"]}

MCDefaults == [maxEvents |-> 2, maxStats |-> 2, workers |-> 1]

\* Without the section Stats, and with the limits of New.
MCInitConfigs == {NoConfig, [maxEvents |-> 0, maxStats |-> 0, workers |-> 1]}

\* One lowers both limits, the other ends the workers and starts none.
MCConfigs == {[maxEvents |-> 1, maxStats |-> 1, workers |-> 0],
              [maxEvents |-> 0, maxStats |-> 0, workers |-> -1]}
=============================================================================
