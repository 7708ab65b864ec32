----------------------------- MODULE AlertQueue -----------------------------
(***************************************************************************)
(* What the GUI may rely on about the alerts of the daemon, whatever       *)
(* happens to the connection, the queues and the goroutines in between:    *)
(* alerts may get lost, one by one, but the one that is delivered is the   *)
(* oldest of those that are left, so none comes twice, none after a newer  *)
(* one, and none that was given up.  UIClient implements this.             *)
(***************************************************************************)
EXTENDS Naturals

CONSTANT MaxAlerts  \* bound: alerts posted

VARIABLES
    waiting,    \* alerts on their way; an alert is its number
    posted,     \* alerts posted so far
    delivered   \* the last alert that the GUI got

alertVars == <<waiting, posted, delivered>>

Post ==
    /\ posted < MaxAlerts
    /\ posted' = posted + 1
    /\ waiting' = waiting \cup {posted + 1}
    /\ UNCHANGED delivered

Lose ==
    /\ \E a \in waiting : waiting' = waiting \ {a}
    /\ UNCHANGED <<posted, delivered>>

Deliver ==
    /\ \E a \in waiting : /\ \A b \in waiting : a <= b
                          /\ delivered' = a
                          /\ waiting' = waiting \ {a}
    /\ UNCHANGED posted

AlertInit == waiting = {} /\ posted = 0 /\ delivered = 0

AlertNext == Post \/ Lose \/ Deliver

AlertSpec == AlertInit /\ [][AlertNext]_alertVars
=============================================================================
