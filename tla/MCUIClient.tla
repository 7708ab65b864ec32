----------------------------- MODULE MCUIClient -----------------------------
(* Two connections at a time, one goroutine that posts, queues of one alert. *)
EXTENDS UIClient

CONSTANTS k1, k2, p1
=============================================================================
