------------------------------ MODULE UIClient ------------------------------
(***************************************************************************)
(* The client of the GUI (daemon/ui/client.go, alerts.go and the listener  *)
(* of notifications.go): the poller that opens the connection and pings,   *)
(* a goroutine per connection that subscribes and listens for              *)
(* notifications, the dispatcher of alerts and the goroutines that post    *)
(* them.                                                                   *)
(*                                                                         *)
(* A connection is one grpc.ClientConn.  It becomes ready, and again after *)
(* it broke, by itself.  Its stream of notifications has the name of the   *)
(* connection whose goroutine opened it; c.streamNotifications is the last *)
(* one opened, whoever uses it.  c.client is bound to the connection it    *)
(* was made from.                                                          *)
(*                                                                         *)
(* The signal that the GUI is connected is a send that is not waited for:  *)
(* it gets lost unless the dispatcher is waiting at that moment.           *)
(***************************************************************************)
EXTENDS Naturals, Sequences, Functions

CONSTANTS
    Conns,      \* connections that may be referred to at the same time
    None,       \* a nil pointer
    Broken,     \* a client that was made from a nil connection
    Posters,    \* goroutines that post alerts
    ChanSize,   \* capacity of alertsChan (maxQueuedAlerts)
    QueueSize,  \* capacity of queuedAlerts
    MaxAlerts,  \* bound: alerts posted
    MaxFaults   \* bound: times the GUI ends, refuses a call or a stream, and others

ASSUME NoneAssumption == None \notin Conns /\ Broken \notin Conns /\ None # Broken

ASSUME SizeAssumption == ChanSize \in Nat \ {0} /\ QueueSize \in Nat \ {0}

ASSUME BoundAssumption == MaxAlerts \in Nat /\ MaxFaults \in Nat

VARIABLES
    up,         \* the GUI answers
    faults,     \* faults so far
    state,      \* per connection: its state, "closed" when there is none
    con,        \* c.con
    client,     \* c.client
    poller,     \* poller: where it is, wasConnected (was), and whether it has opened a
                \* connection while it believed in the one before (again)
    sub,        \* per connection: where its goroutine is, the connection its stream runs
                \* on (via), whether the stream is open, and the stream it reads
    stream,     \* c.streamNotifications
    dispatcher, \* alertsDispatcher: where it is, connected, the alert in hand, and whether it
                \* empties the queue
    alerts,     \* alertsChan
    queue,      \* queuedAlerts
    poster,     \* per goroutine: where PostAlert is
    posted,     \* alerts posted so far; an alert is its number
    delivered,  \* the last alert that the GUI got
    panic,      \* the daemon has used a nil pointer
    late,       \* history: the goroutine of a connection that ended outlived the poller's sleep
    deaf        \* history: nobody will listen on the current connection

gui == <<up, faults>>
link == <<state, con, client, sub, stream>>
mail == <<dispatcher, alerts, queue, poster, posted, delivered>>
vars == <<gui, link, poller, mail, panic, late, deaf>>

NoSub == [at |-> "none", via |-> None, open |-> FALSE, reads |-> None]

-----------------------------------------------------------------------------

Connected == con # None /\ state[con] = "ready"

Usable == client \in Conns

\* A call on c.client reaches the GUI.
Answers == Usable /\ state[client] = "ready"

\* The streams of a connection break with it.
Break(s, c) == [k \in Conns |-> IF s[k].via = c THEN [s[k] EXCEPT !.open = FALSE] ELSE s[k]]

\* A signal to the dispatcher: taken when the dispatcher waits, or lost.
Signal(v) ==
    \/ UNCHANGED dispatcher
    \/ /\ dispatcher.at = "select" /\ alerts = <<>>
       /\ dispatcher' = [dispatcher EXCEPT !.connected = v, !.at = IF v THEN "drain" ELSE "select"]

\* Mutant: disconnect leaves c.client as it is.
DisconnectKeepsClient(s) ==
    /\ Signal(FALSE)
    /\ state' = IF con = None THEN state ELSE [state EXCEPT ![con] = "closed"]
    /\ sub' = IF con = None THEN s ELSE Break(s, con)
    /\ con' = None /\ UNCHANGED client
    /\ deaf' = FALSE

\* disconnect: the current connection is closed, whoever asks for it.
Disconnect(s) ==
    /\ Signal(FALSE)
    /\ state' = IF con = None THEN state ELSE [state EXCEPT ![con] = "closed"]
    /\ sub' = IF con = None THEN s ELSE Break(s, con)
    /\ con' = None /\ client' = None
    /\ deaf' = FALSE

-----------------------------------------------------------------------------
(* The GUI and grpc *)

Fault == faults < MaxFaults /\ faults' = faults + 1

\* The GUI ends: what is connected breaks.
GuiEnds ==
    /\ up /\ Fault
    /\ up' = FALSE
    /\ state' = [k \in Conns |-> IF state[k] = "ready" THEN "transient" ELSE state[k]]
    /\ sub' = [k \in Conns |-> [sub[k] EXCEPT !.open = FALSE]]
    /\ UNCHANGED <<con, client, stream, poller, panic, late, deaf>> /\ UNCHANGED mail

GuiStarts ==
    /\ ~up /\ up' = TRUE
    /\ UNCHANGED <<faults, poller, panic, late, deaf>> /\ UNCHANGED <<link, mail>>

\* A connection is established, or cannot be.
Dialed(k) ==
    /\ state[k] = "connecting" \/ (state[k] = "transient" /\ up)
    /\ state' = [state EXCEPT ![k] = IF up THEN "ready" ELSE "transient"]
    /\ UNCHANGED <<con, client, sub, stream, poller, panic, late, deaf>> /\ UNCHANGED <<gui, mail>>

-----------------------------------------------------------------------------
(* poller *)

\* The status has changed, or not, since the last time.  A new connection in the place of the
\* one before is no change.
Status ==
    /\ poller.at = "status"
    /\ poller' = [at |-> "connect", was |-> Connected, again |-> FALSE]
    /\ \/ /\ Connected /\ ~poller.was
          /\ sub' = [sub EXCEPT ![con] = [NoSub EXCEPT !.at = "subscribe"]]
          /\ Signal(TRUE)
          /\ UNCHANGED <<state, con, client, deaf>>
       \/ /\ ~Connected /\ poller.was
          /\ Disconnect(sub)
       \/ /\ Connected = poller.was
          /\ deaf' = (deaf \/ (Connected /\ poller.again))
          /\ UNCHANGED <<state, con, client, sub, dispatcher>>
    /\ UNCHANGED <<stream, alerts, queue, poster, posted, delivered, panic, late>> /\ UNCHANGED gui

\* connect, if there is no connection that is ready
Connect ==
    /\ poller.at = "connect"
    /\ poller' = [poller EXCEPT !.at = CASE Connected -> "ping" [] con = None -> "open" [] OTHER -> "state"]
    /\ UNCHANGED <<panic, late, deaf>> /\ UNCHANGED <<gui, link, mail>>

\* c.con, that was not nil a moment ago, is asked for its state.
ConState ==
    /\ poller.at = "state"
    /\ IF con = None THEN panic' = TRUE /\ UNCHANGED <<link, poller, dispatcher, deaf>>
       ELSE /\ UNCHANGED panic
            /\ IF state[con] = "transient"
               THEN Disconnect(sub) /\ UNCHANGED stream /\ poller' = [poller EXCEPT !.at = "open"]
               ELSE UNCHANGED <<link, dispatcher, deaf>> /\ poller' = [poller EXCEPT !.at = "ping"]
    /\ UNCHANGED <<alerts, queue, poster, posted, delivered, late>> /\ UNCHANGED gui

\* A connection that nothing refers to.
Free(k) == state[k] = "closed" /\ sub[k].at = "none" /\ client # k /\ \A j \in Conns : sub[j].reads # k

\* openSocket
Open ==
    /\ poller.at = "open"
    /\ \E k \in {j \in Conns : Free(j)} :
          /\ con' = k
          /\ state' = [state EXCEPT ![k] = "connecting"]
          /\ sub' = [sub EXCEPT ![k] = NoSub]
    /\ poller' = [poller EXCEPT !.at = "client", !.again = poller.was]
    /\ UNCHANGED <<client, stream, panic, late, deaf>> /\ UNCHANGED <<gui, mail>>

\* The options are refused, or the address.
OpenFails ==
    /\ poller.at = "open" /\ Fault
    /\ Disconnect(sub)
    /\ poller' = [poller EXCEPT !.at = "ping"]
    /\ UNCHANGED <<up, stream, alerts, queue, poster, posted, delivered, panic, late>>

\* c.client is made of whatever c.con is by now.
MakeClient ==
    /\ poller.at = "client"
    /\ client' = CASE client # None -> client [] con = None -> Broken [] OTHER -> con
    /\ poller' = [poller EXCEPT !.at = "ping"]
    /\ UNCHANGED <<state, con, sub, stream, panic, late, deaf>> /\ UNCHANGED <<gui, mail>>

Ping ==
    /\ poller.at = "ping"
    /\ poller' = [poller EXCEPT !.at = IF Connected THEN "call" ELSE "sleep"]
    /\ UNCHANGED <<panic, late, deaf>> /\ UNCHANGED <<gui, link, mail>>

\* The answer to a ping changes nothing.
PingCall ==
    /\ poller.at = "call"
    /\ \/ Connected /\ ~Usable /\ panic' = TRUE /\ UNCHANGED <<poller, faults>>
       \/ Connected /\ Answers /\ poller' = [poller EXCEPT !.at = "sleep"] /\ UNCHANGED <<panic, faults>>
       \/ /\ Connected => Usable
          /\ IF Connected /\ Answers THEN Fault ELSE UNCHANGED faults
          /\ poller' = [poller EXCEPT !.at = "report"]
          /\ UNCHANGED panic
    /\ UNCHANGED <<up, late, deaf>> /\ UNCHANGED <<link, mail>>

\* The message that a ping failed asks c.con for its state.
PingFailed ==
    /\ poller.at = "report"
    /\ panic' = (con = None)
    /\ poller' = [poller EXCEPT !.at = "sleep"]
    /\ UNCHANGED <<late, deaf>> /\ UNCHANGED <<gui, link, mail>>

\* A goroutine that has still to notice, or to say, that its connection has ended.
Lags(k) ==
    /\ sub[k].at # "none"
    /\ \/ con # k \/ sub[k].at \in {"ended", "drop"}
       \/ sub[k].at = "recv" /\ ~sub[sub[k].reads].open

Wake ==
    /\ poller.at = "sleep"
    /\ poller' = [poller EXCEPT !.at = "status"]
    /\ late' = (late \/ \E k \in Conns : Lags(k))
    /\ UNCHANGED <<panic, deaf>> /\ UNCHANGED <<gui, link, mail>>

-----------------------------------------------------------------------------
(* Subscribe and listenForNotifications *)

\* Subscribe is answered, or fails, and the current connection is closed.
Subscribe(k) ==
    /\ sub[k].at = "subscribe"
    /\ \/ ~Usable /\ panic' = TRUE /\ UNCHANGED <<sub, faults>>
       \/ Answers /\ sub' = [sub EXCEPT ![k].at = "stream"] /\ UNCHANGED <<panic, faults>>
       \/ /\ Usable /\ sub' = [sub EXCEPT ![k].at = "drop"]
          /\ IF Answers THEN Fault ELSE UNCHANGED faults
          /\ UNCHANGED panic
    /\ UNCHANGED <<up, state, con, client, stream, poller, late, deaf>> /\ UNCHANGED mail

Drop(k) ==
    /\ sub[k].at = "drop"
    /\ Disconnect([sub EXCEPT ![k].at = "none"])
    /\ UNCHANGED <<stream, poller, alerts, queue, poster, posted, delivered, panic, late>>
    /\ UNCHANGED gui

\* Notifications and the first message.  An error ends the goroutine, and the connection
\* stays.
Notifications(k) ==
    /\ sub[k].at = "stream"
    /\ \/ ~Usable /\ panic' = TRUE /\ UNCHANGED <<sub, stream, faults, deaf>>
       \/ /\ Answers
          /\ sub' = [sub EXCEPT ![k] = [at |-> "recv", via |-> client, open |-> TRUE, reads |-> k]]
          /\ stream' = k
          /\ UNCHANGED <<panic, faults, deaf>>
       \/ /\ Usable
          /\ sub' = [sub EXCEPT ![k].at = "none"]
          /\ deaf' = (deaf \/ con = k)
          /\ IF Answers THEN Fault ELSE UNCHANGED faults
          /\ UNCHANGED <<panic, stream>>
    /\ UNCHANGED <<up, state, con, client, poller, late>> /\ UNCHANGED mail

\* After a notification the next one is read from c.streamNotifications, whose it is or not.
Recv(k) ==
    /\ sub[k].at = "recv" /\ sub[sub[k].reads].open
    /\ stream # sub[k].reads /\ stream # None
    /\ sub' = [sub EXCEPT ![k].reads = stream]
    /\ UNCHANGED <<state, con, client, stream, poller, panic, late, deaf>> /\ UNCHANGED <<gui, mail>>

\* Recv fails.
RecvFails(k) ==
    /\ sub[k].at = "recv" /\ ~sub[sub[k].reads].open
    /\ sub' = [sub EXCEPT ![k].at = "ended"]
    /\ UNCHANGED <<state, con, client, stream, poller, panic, late, deaf>> /\ UNCHANGED <<gui, mail>>

\* The GUI orders the daemon to stop listening.
StopOrdered(k) ==
    /\ sub[k].at = "recv" /\ sub[sub[k].reads].open /\ Fault
    /\ sub' = [sub EXCEPT ![k].at = "ended"]
    /\ UNCHANGED <<up, state, con, client, stream, poller, panic, late, deaf>> /\ UNCHANGED mail

\* The last stream that was opened is closed, and the current connection.
ListenerExit(k) ==
    /\ sub[k].at = "ended"
    /\ LET closed == [sub EXCEPT ![stream].open = FALSE]
       IN  Disconnect([closed EXCEPT ![k] = [closed[k] EXCEPT !.at = "none", !.reads = None]])
    /\ UNCHANGED <<stream, poller, alerts, queue, poster, posted, delivered, panic, late>>
    /\ UNCHANGED gui

-----------------------------------------------------------------------------
(* PostAlert *)

\* The length of the queue decides how to go on.
PostAlert(p) ==
    /\ poster[p] = "idle" /\ posted < MaxAlerts
    /\ poster' = [poster EXCEPT ![p] = IF Len(alerts) > ChanSize - 1 THEN "pop" ELSE "send"]
    /\ UNCHANGED <<poller, dispatcher, alerts, queue, posted, delivered, panic, late, deaf>>
    /\ UNCHANGED <<gui, link>>

\* The oldest alert is dropped.  If the dispatcher has emptied the queue meanwhile, this waits
\* for the next alert.
PopOldest(p) ==
    /\ poster[p] = "pop" /\ alerts # <<>>
    /\ alerts' = Tail(alerts)
    /\ poster' = [poster EXCEPT ![p] = "send"]
    /\ UNCHANGED <<poller, dispatcher, queue, posted, delivered, panic, late, deaf>>
    /\ UNCHANGED <<gui, link>>

SendAlert(p) ==
    /\ poster[p] = "send" /\ Len(alerts) < ChanSize /\ posted < MaxAlerts
    /\ posted' = posted + 1
    /\ alerts' = Append(alerts, posted + 1)
    /\ poster' = [poster EXCEPT ![p] = "idle"]
    /\ UNCHANGED <<poller, dispatcher, queue, delivered, panic, late, deaf>>
    /\ UNCHANGED <<gui, link>>

-----------------------------------------------------------------------------
(* alertsDispatcher *)

\* Mutant: every alert is queued.
QueueAlert ==
    /\ dispatcher.at = "select" /\ alerts # <<>>
    /\ alerts' = Tail(alerts)
    /\ queue' = Append(IF Len(queue) = QueueSize THEN Tail(queue) ELSE queue, Head(alerts))
    /\ UNCHANGED <<poller, dispatcher, poster, posted, delivered, panic, late, deaf>>
    /\ UNCHANGED <<gui, link>>

\* An alert is dispatched, or queued when the GUI is not connected; the oldest one makes room.
TakeAlert ==
    /\ dispatcher.at = "select" /\ alerts # <<>>
    /\ alerts' = Tail(alerts)
    /\ IF dispatcher.connected
       THEN /\ dispatcher' = [dispatcher EXCEPT !.at = "dispatch", !.alert = Head(alerts), !.drains = FALSE]
            /\ UNCHANGED queue
       ELSE /\ queue' = Append(IF Len(queue) = QueueSize THEN Tail(queue) ELSE queue, Head(alerts))
            /\ UNCHANGED dispatcher
    /\ UNCHANGED <<poller, poster, posted, delivered, panic, late, deaf>> /\ UNCHANGED <<gui, link>>

\* Mutant: alerts that are new are looked at before the queued ones.
DrainLater ==
    /\ dispatcher.at = "drain"
    /\ IF queue = <<>> \/ alerts # <<>>
       THEN dispatcher' = [dispatcher EXCEPT !.at = "select"] /\ UNCHANGED queue
       ELSE /\ dispatcher' = [dispatcher EXCEPT !.at = "dispatch", !.alert = Head(queue), !.drains = TRUE]
            /\ queue' = Tail(queue)
    /\ UNCHANGED <<poller, alerts, poster, posted, delivered, panic, late, deaf>>
    /\ UNCHANGED <<gui, link>>

\* The queued alerts are dispatched, oldest first.
Drain ==
    /\ dispatcher.at = "drain"
    /\ IF queue = <<>>
       THEN dispatcher' = [dispatcher EXCEPT !.at = "select"] /\ UNCHANGED queue
       ELSE /\ dispatcher' = [dispatcher EXCEPT !.at = "dispatch", !.alert = Head(queue), !.drains = TRUE]
            /\ queue' = Tail(queue)
    /\ UNCHANGED <<poller, alerts, poster, posted, delivered, panic, late, deaf>>
    /\ UNCHANGED <<gui, link>>

Dispatched == IF dispatcher.drains THEN "drain" ELSE "select"

\* dispatchAlert: without a client the alert is gone.
DispatchAlert ==
    /\ dispatcher.at = "dispatch"
    /\ dispatcher' = [dispatcher EXCEPT !.at = IF client = None THEN Dispatched ELSE "post"]
    /\ UNCHANGED <<poller, alerts, queue, poster, posted, delivered, panic, late, deaf>>
    /\ UNCHANGED <<gui, link>>

\* The call on c.client, read again without the lock.  The result is not looked at.
DeliverAlert ==
    /\ dispatcher.at = "post"
    /\ panic' = ~Usable
    /\ delivered' \in IF Answers THEN {delivered, dispatcher.alert} ELSE {delivered}
    /\ dispatcher' = [dispatcher EXCEPT !.at = Dispatched]
    /\ UNCHANGED <<poller, alerts, queue, poster, posted, late, deaf>> /\ UNCHANGED <<gui, link>>

-----------------------------------------------------------------------------

Init ==
    /\ up \in BOOLEAN /\ faults = 0
    /\ state = [k \in Conns |-> "closed"] /\ con = None /\ client = None
    /\ poller = [at |-> "status", was |-> FALSE, again |-> FALSE]
    /\ sub = [k \in Conns |-> NoSub] /\ stream = None
    /\ dispatcher = [at |-> "select", connected |-> FALSE, alert |-> 0, drains |-> FALSE]
    /\ alerts = <<>> /\ queue = <<>>
    /\ poster = [p \in Posters |-> "idle"] /\ posted = 0 /\ delivered = 0
    /\ panic = FALSE /\ late = FALSE /\ deaf = FALSE

PollerStep == Status \/ Connect \/ ConState \/ Open \/ OpenFails \/ MakeClient \/ Ping \/ PingCall \/ PingFailed \/ Wake

\* The goroutine of a connection, but for the orders of the GUI
SubStep(k) ==
    Subscribe(k) \/ Drop(k) \/ Notifications(k) \/ Recv(k) \/ RecvFails(k) \/ ListenerExit(k)

Next ==
    /\ ~panic
    /\ \/ GuiEnds \/ GuiStarts \/ PollerStep
       \/ \E k \in Conns : Dialed(k) \/ SubStep(k) \/ StopOrdered(k)
       \/ \E p \in Posters : PostAlert(p) \/ PopOldest(p) \/ SendAlert(p)
       \/ TakeAlert \/ Drain \/ DispatchAlert \/ DeliverAlert

Spec == Init /\ [][Next]_vars

\* The poller and the goroutines are scheduled, grpc dials, and the GUI comes back; it need
\* not order anything.
Fairness ==
    /\ WF_vars(~panic /\ PollerStep)
    /\ WF_vars(~panic /\ GuiStarts)
    /\ \A k \in Conns : WF_vars(~panic /\ Dialed(k)) /\ WF_vars(~panic /\ SubStep(k))

FairSpec == Spec /\ Fairness

-----------------------------------------------------------------------------

\* The types, and the bounds of the queues.  While the dispatcher believes in the GUI nothing
\* waits in its queue, but in the moment it empties it.
TypeOK ==
    /\ up \in BOOLEAN /\ faults \in 0..MaxFaults
    /\ state \in [Conns -> {"closed", "connecting", "ready", "transient"}]
    /\ con \in Conns \cup {None} /\ client \in Conns \cup {None, Broken}
    /\ poller \in [at : {"status", "connect", "state", "open", "client", "ping", "call", "report", "sleep"},
                   was : BOOLEAN, again : BOOLEAN]
    /\ sub \in [Conns -> [at : {"none", "subscribe", "drop", "stream", "recv", "ended"},
                          via : Conns \cup {None}, open : BOOLEAN, reads : Conns \cup {None}]]
    /\ stream \in Conns \cup {None}
    /\ dispatcher \in [at : {"select", "drain", "dispatch", "post"}, connected : BOOLEAN,
                       alert : 0..MaxAlerts, drains : BOOLEAN]
    /\ alerts \in Seq(1..MaxAlerts) /\ Len(alerts) <= ChanSize
    /\ queue \in Seq(1..MaxAlerts) /\ Len(queue) <= QueueSize
    /\ dispatcher.connected /\ ~dispatcher.drains /\ dispatcher.at # "drain" => queue = <<>>
    /\ poster \in [Posters -> {"idle", "pop", "send"}]
    /\ posted \in 0..MaxAlerts /\ delivered \in 0..MaxAlerts
    /\ panic \in BOOLEAN /\ late \in BOOLEAN /\ deaf \in BOOLEAN

\* The GUI gets alerts in the order they were posted, and none twice, whether they waited in
\* one queue, in two, or through several connections (alerts.go:93-114).
AlertsInOrder == [][delivered' # delivered => delivered' > delivered]_vars

\* The two queues and the dispatcher's hand, where an alert stays until the call that delivers
\* it returns, are one queue that may lose alerts but neither swaps nor repeats them.
AlertPath == INSTANCE AlertQueue WITH
    waiting <- Range(queue) \cup Range(alerts)
                 \cup IF dispatcher.at \in {"dispatch", "post"} THEN {dispatcher.alert} ELSE {}

ImplementsAlertQueue == AlertPath!AlertSpec

\* When the GUI answers for good, the daemon is connected to it and listens, for good: after a
\* call or a stream fails it tries again (client.go:191-226, notifications.go:356-361).
\* Not if the goroutine of an older connection closes the new one (it has a second to end), not
\* if the daemon panics, and not on a connection that the poller has taken for the one before
\* or whose stream could not be opened.
Reconnects ==
    <>[](\/ panic \/ late \/ deaf
         \/ Connected /\ sub[con].at = "recv" /\ sub[sub[con].reads].open)
=============================================================================
