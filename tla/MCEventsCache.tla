--------------------------- MODULE MCEventsCache ---------------------------
(* A small instance of EventsCache for TLC.                                                *)
EXTENDS EventsCache

CONSTANTS a, b, w1, w2, l1
=============================================================================
