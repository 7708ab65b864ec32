---------------------------- MODULE UIClient_proofs ----------------------------
(***************************************************************************)
(* For any connections, queues and goroutines that post: the GUI gets      *)
(* alerts in the order they were posted.                                   *)
(*                                                                         *)
(* The argument: an alert that was delivered is older than the one in the  *)
(* dispatcher's hand, this one older than those of its queue, and these    *)
(* older than those that wait for the dispatcher.  That the dispatcher     *)
(* takes no alert past its queue follows from what it believes: while it   *)
(* believes in the GUI its queue is empty, but for the time it empties it. *)
(***************************************************************************)
EXTENDS UIClient, TLAPS

DispatcherType ==
    [at : {"select", "drain", "dispatch", "post"}, connected : BOOLEAN, alert : 0..MaxAlerts,
     drains : BOOLEAN]

SubRecord ==
    [at : {"none", "subscribe", "drop", "stream", "recv", "ended"}, via : Conns \cup {None},
     open : BOOLEAN, reads : Conns \cup {None}]

PollerType ==
    [at : {"status", "connect", "state", "open", "client", "ping", "call", "report", "sleep"},
     was : BOOLEAN, again : BOOLEAN]

LinkOK ==
    /\ up \in BOOLEAN /\ faults \in 0..MaxFaults
    /\ state \in [Conns -> {"closed", "connecting", "ready", "transient"}]
    /\ con \in Conns \cup {None} /\ client \in Conns \cup {None, Broken}
    /\ sub \in [Conns -> SubRecord] /\ stream \in Conns \cup {None}
    /\ poller \in PollerType
    /\ panic \in BOOLEAN /\ late \in BOOLEAN /\ deaf \in BOOLEAN

MailType ==
    /\ dispatcher \in DispatcherType
    /\ alerts \in Seq(1..MaxAlerts) /\ Len(alerts) <= ChanSize
    /\ queue \in Seq(1..MaxAlerts) /\ Len(queue) <= QueueSize
    /\ poster \in [Posters -> {"idle", "pop", "send"}]
    /\ posted \in 0..MaxAlerts /\ delivered \in 0..MaxAlerts

\* The alerts of a sequence are newer than a, not newer than b, and in their order.
Between(a, s, b) ==
    /\ \A i \in 1..Len(s) : a < s[i] /\ s[i] <= b
    /\ \A i, j \in 1..Len(s) : i < j => s[i] < s[j]

InHand == dispatcher.at \in {"dispatch", "post"}

OrderOK ==
    /\ delivered <= posted
    /\ Between(delivered, queue, posted) /\ Between(delivered, alerts, posted)
    /\ \A i \in 1..Len(queue), j \in 1..Len(alerts) : queue[i] < alerts[j]
    /\ InHand =>
         /\ delivered < dispatcher.alert /\ dispatcher.alert <= posted
         /\ Between(dispatcher.alert, queue, posted) /\ Between(dispatcher.alert, alerts, posted)

\* The dispatcher believes in the GUI when it dispatches, and has an empty queue then.
BeliefOK ==
    /\ dispatcher.at # "select" => dispatcher.connected
    /\ dispatcher.at = "select" /\ dispatcher.connected => queue = <<>>
    /\ InHand /\ ~dispatcher.drains => queue = <<>>

MailOK == MailType /\ OrderOK /\ BeliefOK

IInv == LinkOK /\ MailOK

-----------------------------------------------------------------------------
(* The queues *)

LEMMA TypesAreOK == IInv => TypeOK
  BY DEF IInv, LinkOK, MailOK, MailType, BeliefOK, InHand, TypeOK, DispatcherType, SubRecord, PollerType

LEMMA Elements ==
  ASSUME NEW T, NEW s \in Seq(T)
  PROVE  \A i \in 1..Len(s) : s[i] \in T
  OBVIOUS

\* The alerts of a queue without its oldest one.
LEMMA OldestGone ==
  ASSUME NEW s \in Seq(1..MaxAlerts), s # <<>>, NEW a \in Nat, NEW b \in Nat, Between(a, s, b)
  PROVE  /\ Head(s) \in 1..MaxAlerts /\ Tail(s) \in Seq(1..MaxAlerts) /\ Len(Tail(s)) = Len(s) - 1
         /\ a < Head(s) /\ Head(s) <= b
         /\ Between(Head(s), Tail(s), b) /\ Between(a, Tail(s), b)
         /\ Head(s) = s[1] /\ \A i \in 1..Len(Tail(s)) : i + 1 \in 1..Len(s) /\ Tail(s)[i] = s[i + 1]
<1>1. /\ Head(s) = s[1] /\ 1 \in 1..Len(s) /\ Tail(s) \in Seq(1..MaxAlerts) /\ Len(Tail(s)) = Len(s) - 1
      /\ \A i \in 1..Len(Tail(s)) : i + 1 \in 1..Len(s) /\ Tail(s)[i] = s[i + 1]
  OBVIOUS
<1>2. \A i \in 1..Len(s) : s[i] \in 1..MaxAlerts
  BY Elements
<1>3. a < Head(s) /\ Head(s) <= b /\ Head(s) \in 1..MaxAlerts
  BY <1>1, <1>2 DEF Between
<1>4. Between(Head(s), Tail(s), b)
  BY <1>1, <1>2 DEF Between
<1>5. Between(a, Tail(s), b)
  BY <1>1, <1>2 DEF Between
<1> QED BY <1>1, <1>3, <1>4, <1>5

\* The alerts of a queue with a new one.
LEMMA NewestAdded ==
  ASSUME NEW s \in Seq(1..MaxAlerts), NEW a \in Nat, NEW b \in Nat, NEW c \in 1..MaxAlerts,
         Between(a, s, b), a < c, b <= c, \A i \in 1..Len(s) : s[i] < c
  PROVE  /\ Append(s, c) \in Seq(1..MaxAlerts) /\ Len(Append(s, c)) = Len(s) + 1
         /\ Between(a, Append(s, c), c)
         /\ \A i \in 1..Len(Append(s, c)) : Append(s, c)[i] = IF i <= Len(s) THEN s[i] ELSE c
<1>1. /\ Append(s, c) \in Seq(1..MaxAlerts) /\ Len(Append(s, c)) = Len(s) + 1 /\ Len(s) \in Nat
      /\ \A i \in 1..Len(Append(s, c)) : Append(s, c)[i] = IF i <= Len(s) THEN s[i] ELSE c
  OBVIOUS
<1>2. \A i \in 1..Len(s) : s[i] \in 1..MaxAlerts
  BY Elements
<1>3. Between(a, Append(s, c), c)
  <2> DEFINE r == Append(s, c)
  <2>1. ASSUME NEW i \in 1..Len(r)
        PROVE  a < r[i] /\ r[i] <= c
    <3>1. CASE i <= Len(s)
      <4>1. r[i] = s[i] /\ i \in 1..Len(s)
        BY <1>1, <3>1
      <4> QED BY <1>2, <4>1 DEF Between
    <3>2. CASE ~(i <= Len(s))
      BY <1>1, <3>2
    <3> QED BY <3>1, <3>2
  <2>2. ASSUME NEW i \in 1..Len(r), NEW j \in 1..Len(r), i < j
        PROVE  r[i] < r[j]
    <3>1. r[i] = s[i] /\ i \in 1..Len(s)
      BY <1>1, <2>2
    <3>2. CASE j <= Len(s)
      <4>1. r[j] = s[j] /\ j \in 1..Len(s)
        BY <1>1, <3>2
      <4> QED BY <2>2, <3>1, <4>1 DEF Between
    <3>3. CASE ~(j <= Len(s))
      BY <1>1, <3>1, <3>3
    <3> QED BY <3>2, <3>3
  <2> QED BY <2>1, <2>2 DEF Between
<1> QED BY <1>1, <1>3


-----------------------------------------------------------------------------
(* Alerts *)

LEMMA MailKept ==
  ASSUME MailOK, UNCHANGED mail
  PROVE  MailOK'
  BY DEF MailOK, MailType, OrderOK, BeliefOK, InHand, Between, mail

\* A signal makes a dispatcher that waits empty its queue.
LEMMA SignalKeepsMail ==
  ASSUME MailOK, NEW v \in BOOLEAN, Signal(v), UNCHANGED <<alerts, queue, poster, posted, delivered>>
  PROVE  MailOK'
<1> USE DEF MailOK
<1>1. CASE UNCHANGED dispatcher
  BY <1>1, MailKept DEF mail
<1>2. CASE /\ dispatcher.at = "select" /\ alerts = <<>>
           /\ dispatcher' = [dispatcher EXCEPT !.connected = v, !.at = IF v THEN "drain" ELSE "select"]
  <2>1. dispatcher' \in DispatcherType /\ dispatcher'.at = (IF v THEN "drain" ELSE "select")
        /\ dispatcher'.connected = v
    BY <1>2 DEF MailType, DispatcherType
  <2>2. MailType'
    BY <2>1 DEF MailType
  <2>3. OrderOK'
    BY <2>1 DEF OrderOK, InHand, Between
  <2>4. BeliefOK'
    BY <2>1 DEF BeliefOK, InHand
  <2> QED BY <2>2, <2>3, <2>4
<1> QED BY <1>1, <1>2 DEF Signal

LEMMA PostersInv ==
  ASSUME MailOK, NEW p \in Posters, PostAlert(p) \/ PopOldest(p) \/ SendAlert(p)
  PROVE  MailOK'
<1> USE DEF MailOK
<1>1. CASE PostAlert(p)
  <2>1. poster' \in [Posters -> {"idle", "pop", "send"}]
        /\ UNCHANGED <<dispatcher, alerts, queue, posted, delivered>>
    BY <1>1 DEF PostAlert, MailType
  <2> QED BY <2>1 DEF MailType, OrderOK, BeliefOK, InHand, Between
<1>2. CASE PopOldest(p)
  <2>1. /\ alerts # <<>> /\ alerts' = Tail(alerts) /\ poster' \in [Posters -> {"idle", "pop", "send"}]
        /\ UNCHANGED <<dispatcher, queue, posted, delivered>>
    BY <1>2 DEF PopOldest, MailType
  <2>2. /\ alerts \in Seq(1..MaxAlerts) /\ Len(alerts) <= ChanSize /\ ChanSize \in Nat
        /\ posted \in Nat /\ delivered \in Nat /\ dispatcher.alert \in Nat
    BY SizeAssumption, BoundAssumption DEF MailType, DispatcherType
  <2>3. /\ alerts' \in Seq(1..MaxAlerts) /\ Len(alerts') = Len(alerts) - 1
        /\ Between(delivered, alerts', posted)
        /\ \A i \in 1..Len(alerts') : i + 1 \in 1..Len(alerts) /\ alerts'[i] = alerts[i + 1]
    BY <2>1, <2>2, OldestGone DEF OrderOK
  <2>4. InHand => Between(dispatcher.alert, alerts', posted)
    BY <2>1, <2>2, OldestGone DEF OrderOK
  <2>5. MailType'
    BY <2>1, <2>2, <2>3 DEF MailType
  <2>6. OrderOK'
    <3>1. \A i \in 1..Len(queue), j \in 1..Len(alerts') : queue[i] < alerts'[j]
      BY <2>3 DEF OrderOK
    <3> QED BY <2>1, <2>3, <2>4, <3>1 DEF OrderOK, InHand, Between
  <2> QED BY <2>1, <2>5, <2>6 DEF BeliefOK, InHand
<1>3. CASE SendAlert(p)
  <2> DEFINE c == posted + 1
  <2>1. /\ Len(alerts) < ChanSize /\ posted < MaxAlerts /\ posted' = c /\ alerts' = Append(alerts, c)
        /\ poster' \in [Posters -> {"idle", "pop", "send"}]
        /\ UNCHANGED <<dispatcher, queue, delivered>>
    BY <1>3 DEF SendAlert, MailType
  <2>2. /\ alerts \in Seq(1..MaxAlerts) /\ ChanSize \in Nat /\ c \in 1..MaxAlerts /\ c \in Nat
        /\ queue \in Seq(1..MaxAlerts) /\ Len(alerts) \in Nat
        /\ posted \in Nat /\ delivered \in Nat /\ dispatcher.alert \in Nat
    BY <2>1, SizeAssumption, BoundAssumption DEF MailType, DispatcherType
  <2>3. \A a \in Nat, s \in Seq(1..MaxAlerts) :
          Between(a, s, posted) => Between(a, s, c) /\ \A i \in 1..Len(s) : s[i] < c
    <3> SUFFICES ASSUME NEW a \in Nat, NEW s \in Seq(1..MaxAlerts), Between(a, s, posted)
                 PROVE  Between(a, s, c) /\ \A i \in 1..Len(s) : s[i] < c
      OBVIOUS
    <3>1. \A i \in 1..Len(s) : s[i] \in 1..MaxAlerts
      BY Elements
    <3> QED BY <2>2, <3>1 DEF Between
  <2> HIDE DEF c
  <2>4. posted < c
    BY <2>2 DEF c
  <2>5. /\ alerts' \in Seq(1..MaxAlerts) /\ Len(alerts') = Len(alerts) + 1
        /\ Between(delivered, alerts', c)
        /\ \A i \in 1..Len(alerts') : alerts'[i] = IF i <= Len(alerts) THEN alerts[i] ELSE c
    <3>1. Between(delivered, alerts, c) /\ (\A i \in 1..Len(alerts) : alerts[i] < c) /\ delivered < c
      BY <2>2, <2>3, <2>4 DEF OrderOK
    <3> QED BY <2>1, <2>2, <3>1, NewestAdded
  <2>6. InHand => Between(dispatcher.alert, alerts', c) /\ Between(dispatcher.alert, queue, c)
    <3> SUFFICES ASSUME InHand
                 PROVE Between(dispatcher.alert, alerts', c) /\ Between(dispatcher.alert, queue, c)
      OBVIOUS
    <3>1. Between(dispatcher.alert, alerts, c) /\ (\A i \in 1..Len(alerts) : alerts[i] < c) /\ dispatcher.alert < c
      BY <2>2, <2>3, <2>4 DEF OrderOK
    <3>2. Between(dispatcher.alert, alerts', c)
      BY <2>1, <2>2, <3>1, NewestAdded
    <3> QED BY <2>2, <2>3, <3>2 DEF OrderOK
  <2>7. MailType'
    BY <2>1, <2>2, <2>5 DEF MailType
  <2>8. OrderOK'
    <3>1. \A i \in 1..Len(queue) : queue[i] < c
      BY <2>2, <2>3 DEF OrderOK
    <3>2. \A i \in 1..Len(queue), j \in 1..Len(alerts') : queue[i] < alerts'[j]
      <4> SUFFICES ASSUME NEW i \in 1..Len(queue), NEW j \in 1..Len(alerts')
                   PROVE  queue[i] < alerts'[j]
        OBVIOUS
      <4>1. CASE j <= Len(alerts)
        <5>1. j \in 1..Len(alerts) /\ alerts'[j] = alerts[j]
          BY <2>2, <2>5, <4>1
        <5> QED BY <5>1 DEF OrderOK
      <4>2. CASE ~(j <= Len(alerts))
        BY <2>5, <3>1, <4>2
      <4> QED BY <4>1, <4>2
    <3>3. Between(delivered, queue, c)
      BY <2>2, <2>3 DEF OrderOK
    <3>4. delivered <= c /\ (InHand => delivered < dispatcher.alert /\ dispatcher.alert <= c)
      BY <2>2, <2>4 DEF OrderOK
    <3> QED BY <2>1, <2>5, <2>6, <3>2, <3>3, <3>4 DEF OrderOK, InHand, Between
  <2> QED BY <2>1, <2>7, <2>8 DEF BeliefOK, InHand
<1> QED BY <1>1, <1>2, <1>3

\* What waits for the dispatcher is taken from the front.
LEMMA TakeInv ==
  ASSUME MailOK, TakeAlert
  PROVE  MailOK'
<1> USE DEF MailOK
<1>1. /\ dispatcher.at = "select" /\ alerts # <<>> /\ alerts' = Tail(alerts)
      /\ UNCHANGED <<poster, posted, delivered>>
  BY DEF TakeAlert
<1>2. /\ alerts \in Seq(1..MaxAlerts) /\ Len(alerts) <= ChanSize /\ Len(alerts) \in Nat
      /\ queue \in Seq(1..MaxAlerts) /\ Len(queue) <= QueueSize /\ Len(queue) \in Nat
      /\ ChanSize \in Nat /\ QueueSize \in Nat \ {0} /\ MaxAlerts \in Nat
      /\ posted \in Nat /\ delivered \in Nat /\ dispatcher \in DispatcherType
  BY SizeAssumption, BoundAssumption DEF MailType
<1> DEFINE c == Head(alerts)
<1>3. /\ c \in 1..MaxAlerts /\ c \in Nat /\ alerts' \in Seq(1..MaxAlerts) /\ Len(alerts') = Len(alerts) - 1
      /\ delivered < c /\ c <= posted
      /\ Between(c, alerts', posted) /\ Between(delivered, alerts', posted)
      /\ c = alerts[1] /\ \A i \in 1..Len(alerts') : i + 1 \in 1..Len(alerts) /\ alerts'[i] = alerts[i + 1]
  BY <1>1, <1>2, OldestGone DEF OrderOK
<1> HIDE DEF c
<1>4. CASE dispatcher.connected
  <2>1. /\ dispatcher' = [dispatcher EXCEPT !.at = "dispatch", !.alert = c, !.drains = FALSE]
        /\ queue' = queue /\ queue = <<>>
    BY <1>1, <1>4 DEF TakeAlert, BeliefOK, c
  <2>2. /\ dispatcher' \in DispatcherType /\ dispatcher'.at = "dispatch" /\ dispatcher'.alert = c
        /\ dispatcher'.connected
    <3>1. c \in 0..MaxAlerts
      BY <1>2, <1>3
    <3> QED BY <1>2, <1>4, <2>1, <3>1 DEF DispatcherType
  <2>3. MailType'
    BY <1>1, <1>2, <1>3, <2>1, <2>2 DEF MailType
  <2>4. OrderOK'
    <3>1. Len(queue) = 0
      BY <2>1
    <3> QED BY <1>1, <1>3, <2>1, <2>2, <3>1 DEF OrderOK, InHand, Between
  <2> QED BY <2>1, <2>2, <2>3, <2>4 DEF BeliefOK, InHand
<1>5. CASE ~dispatcher.connected
  <2> DEFINE q == IF Len(queue) = QueueSize THEN Tail(queue) ELSE queue
  <2>1. queue' = Append(q, c) /\ UNCHANGED dispatcher
    BY <1>1, <1>5 DEF TakeAlert, c
  <2>2. /\ q \in Seq(1..MaxAlerts) /\ Len(q) < QueueSize /\ Len(q) \in Nat
        /\ Between(delivered, q, posted)
        /\ \A i \in 1..Len(q) : \E k \in 1..Len(queue) : q[i] = queue[k]
    <3>1. CASE Len(queue) = QueueSize
      <4>1. queue # <<>>
        BY <1>2, <3>1
      <4>2. /\ Tail(queue) \in Seq(1..MaxAlerts) /\ Len(Tail(queue)) = Len(queue) - 1
            /\ Between(delivered, Tail(queue), posted)
            /\ \A i \in 1..Len(Tail(queue)) : i + 1 \in 1..Len(queue) /\ Tail(queue)[i] = queue[i + 1]
        BY <1>2, <4>1, OldestGone DEF OrderOK
      <4>3. q = Tail(queue)
        BY <3>1
      <4> HIDE DEF q
      <4>4. Len(q) < QueueSize /\ Len(q) \in Nat
        BY <1>2, <3>1, <4>2, <4>3
      <4>5. \A i \in 1..Len(q) : \E k \in 1..Len(queue) : q[i] = queue[k]
        BY <4>2, <4>3
      <4> QED BY <4>2, <4>3, <4>4, <4>5
    <3>2. CASE Len(queue) # QueueSize
      BY <1>2, <3>2 DEF OrderOK
    <3> QED BY <3>1, <3>2
  <2> HIDE DEF q
  <2>3. \A i \in 1..Len(q) : q[i] < c
    <3>1. 1 \in 1..Len(alerts)
      BY <1>1, <1>2
    <3> QED BY <1>3, <2>2, <3>1 DEF OrderOK
  <2>4. /\ queue' \in Seq(1..MaxAlerts) /\ Len(queue') = Len(q) + 1
        /\ Between(delivered, queue', c)
        /\ \A i \in 1..Len(queue') : queue'[i] = IF i <= Len(q) THEN q[i] ELSE c
    <3>1. q \in Seq(1..MaxAlerts) /\ Between(delivered, q, posted) /\ Len(q) \in Nat
      BY <2>2
    <3>2. Between(delivered, q, c)
      <4>1. \A i \in 1..Len(q) : q[i] \in 1..MaxAlerts
        BY <3>1, Elements
      <4>2. \A i \in 1..Len(q) : q[i] <= c
        BY <1>3, <2>3, <4>1
      <4> QED BY <3>1, <4>2 DEF Between
    <3>3. delivered \in Nat /\ c \in Nat /\ c \in 1..MaxAlerts /\ delivered < c /\ c <= c
      BY <1>2, <1>3
    <3> QED BY <2>1, <2>3, <3>1, <3>2, <3>3, NewestAdded
  <2>5. MailType'
    BY <1>1, <1>2, <1>3, <2>1, <2>2, <2>4 DEF MailType
  <2>6. \A i \in 1..Len(queue') : queue'[i] \in 1..MaxAlerts
    BY <2>4, Elements
  <2>7. \A i \in 1..Len(queue') : queue'[i] <= c
    BY <2>4 DEF Between
  <2>8. Between(delivered, queue', posted)
    BY <1>2, <1>3, <2>4, <2>6, <2>7, SMTT(30) DEF Between
  <2>9. \A i \in 1..Len(queue'), j \in 1..Len(alerts') : queue'[i] < alerts'[j]
    <3>1. \A j \in 1..Len(alerts') : alerts'[j] \in 1..MaxAlerts
      BY <1>3, Elements
    <3> QED BY <1>3, <2>6, <2>7, <3>1 DEF Between
  <2>10. OrderOK'
    BY <1>1, <1>3, <2>1, <2>8, <2>9 DEF OrderOK, InHand, Between
  <2> QED BY <1>1, <1>5, <2>1, <2>5, <2>10 DEF BeliefOK, InHand
<1> QED BY <1>4, <1>5

\* The dispatcher empties its queue, and dispatches.
LEMMA DispatchInv ==
  ASSUME MailOK, Drain \/ DispatchAlert \/ DeliverAlert
  PROVE  MailOK'
<1> USE DEF MailOK
<1>0. /\ queue \in Seq(1..MaxAlerts) /\ Len(queue) <= QueueSize /\ QueueSize \in Nat /\ MaxAlerts \in Nat
      /\ posted \in Nat /\ delivered \in Nat /\ dispatcher \in DispatcherType
  BY SizeAssumption, BoundAssumption DEF MailType
<1>1. CASE Drain /\ queue = <<>>
  <2>1. /\ dispatcher' = [dispatcher EXCEPT !.at = "select"]
        /\ UNCHANGED <<alerts, queue, poster, posted, delivered>>
    BY <1>1 DEF Drain
  <2>2. dispatcher' \in DispatcherType /\ dispatcher'.at = "select"
    BY <1>0, <2>1 DEF DispatcherType
  <2> QED BY <1>1, <2>1, <2>2 DEF MailType, OrderOK, BeliefOK, InHand, Between
<1>2. CASE Drain /\ queue # <<>>
  <2> DEFINE c == Head(queue)
  <2>1. /\ dispatcher' = [dispatcher EXCEPT !.at = "dispatch", !.alert = c, !.drains = TRUE]
        /\ queue' = Tail(queue) /\ dispatcher.connected
        /\ UNCHANGED <<alerts, poster, posted, delivered>>
    BY <1>2 DEF Drain, BeliefOK
  <2>2. /\ c \in 1..MaxAlerts /\ c \in Nat /\ queue' \in Seq(1..MaxAlerts) /\ Len(queue') = Len(queue) - 1
        /\ delivered < c /\ c <= posted
        /\ Between(c, queue', posted) /\ Between(delivered, queue', posted)
        /\ c = queue[1] /\ \A i \in 1..Len(queue') : i + 1 \in 1..Len(queue) /\ queue'[i] = queue[i + 1]
    BY <1>0, <1>2, <2>1, OldestGone DEF OrderOK
  <2> HIDE DEF c
  <2>3. /\ dispatcher' \in DispatcherType /\ dispatcher'.at = "dispatch" /\ dispatcher'.alert = c
        /\ dispatcher'.connected /\ dispatcher'.drains
    <3>1. c \in 0..MaxAlerts
      BY <1>0, <2>2
    <3> QED BY <1>0, <2>1, <3>1 DEF DispatcherType
  <2>4. MailType'
    BY <1>0, <2>1, <2>2, <2>3 DEF MailType
  <2>5. 1 \in 1..Len(queue)
    BY <1>0, <1>2
  <2>6. Between(c, alerts, posted)
    BY <2>2, <2>5 DEF OrderOK, Between
  <2>7. \A i \in 1..Len(queue'), j \in 1..Len(alerts) : queue'[i] < alerts[j]
    BY <2>2 DEF OrderOK
  <2>8. OrderOK'
    BY <2>1, <2>2, <2>3, <2>6, <2>7 DEF OrderOK, InHand, Between
  <2> QED BY <2>3, <2>4, <2>8 DEF BeliefOK, InHand
<1>3. CASE DispatchAlert \/ DeliverAlert
  <2>1. /\ \E l \in {"post", "drain", "select"} :
             /\ dispatcher' = [dispatcher EXCEPT !.at = l]
             /\ l = "drain" => dispatcher.drains
             /\ l = "select" => ~dispatcher.drains
             /\ l = "post" => delivered' = delivered
        /\ InHand /\ delivered' \in {delivered, dispatcher.alert}
        /\ UNCHANGED <<alerts, queue, poster, posted>>
    BY <1>3 DEF DispatchAlert, DeliverAlert, Dispatched, InHand
  <2>2. PICK l \in {"post", "drain", "select"} :
          /\ dispatcher' = [dispatcher EXCEPT !.at = l]
          /\ l = "drain" => dispatcher.drains
          /\ l = "select" => ~dispatcher.drains
          /\ l = "post" => delivered' = delivered
    BY <2>1
  <2>3. /\ dispatcher' \in DispatcherType /\ dispatcher'.at = l /\ dispatcher'.alert = dispatcher.alert
        /\ dispatcher'.connected = dispatcher.connected /\ dispatcher'.drains = dispatcher.drains
    BY <1>0, <2>2 DEF DispatcherType
  <2>4. /\ delivered' \in 0..MaxAlerts /\ delivered' <= posted
        /\ Between(delivered', queue, posted) /\ Between(delivered', alerts, posted)
    BY <1>0, <2>1 DEF OrderOK, DispatcherType, MailType
  <2>5. MailType'
    BY <2>1, <2>3, <2>4 DEF MailType
  <2>6. OrderOK'
    BY <2>1, <2>2, <2>3, <2>4 DEF OrderOK, InHand, Between
  <2>7. BeliefOK'
    BY <2>1, <2>2, <2>3 DEF BeliefOK, InHand
  <2> QED BY <2>5, <2>6, <2>7
<1> QED BY <1>1, <1>2, <1>3


-----------------------------------------------------------------------------
(* Connections *)

States == [Conns -> {"closed", "connecting", "ready", "transient"}]

\* What the dispatcher may notice of a step of the others: nothing, or a signal.
MailAside ==
    UNCHANGED mail \/ \E v \in BOOLEAN : Signal(v) /\ UNCHANGED <<alerts, queue, poster, posted, delivered>>

LEMMA AsideInv ==
  ASSUME IInv, LinkOK', MailAside
  PROVE  IInv'
  BY MailKept, SignalKeepsMail DEF IInv, MailAside

LEMMA Breaks ==
  ASSUME NEW s \in [Conns -> SubRecord], NEW c
  PROVE  Break(s, c) \in [Conns -> SubRecord]
  BY DEF Break, SubRecord

LEMMA Disconnects ==
  ASSUME LinkOK, NEW s \in [Conns -> SubRecord], Disconnect(s)
  PROVE  /\ state' \in States /\ sub' \in [Conns -> SubRecord] /\ con' = None /\ client' = None
         /\ deaf' = FALSE /\ Signal(FALSE)
<1>1. state' \in States
  BY DEF LinkOK, States, Disconnect
<1>2. sub' \in [Conns -> SubRecord]
  BY Breaks DEF Disconnect
<1> QED BY <1>1, <1>2 DEF Disconnect

LEMMA GuiInv ==
  ASSUME IInv, GuiEnds \/ GuiStarts \/ \E k \in Conns : Dialed(k)
  PROVE  IInv'
<1> USE DEF IInv
<1>1. CASE GuiEnds
  <2>1. faults' \in 0..MaxFaults
    BY <1>1, BoundAssumption DEF GuiEnds, Fault, LinkOK
  <2>2. state' \in States
    BY <1>1 DEF GuiEnds, LinkOK, States
  <2>3. sub' \in [Conns -> SubRecord]
    BY <1>1, ZenonT(40) DEF GuiEnds, LinkOK, SubRecord
  <2>4. LinkOK'
    BY <1>1, <2>1, <2>2, <2>3 DEF GuiEnds, LinkOK, States
  <2> QED BY <1>1, <2>4, AsideInv DEF GuiEnds, MailAside
<1>2. CASE GuiStarts
  <2>1. LinkOK'
    BY <1>2 DEF GuiStarts, LinkOK, link
  <2> QED BY <1>2, <2>1, AsideInv DEF GuiStarts, MailAside
<1>3. ASSUME NEW k \in Conns, Dialed(k)
      PROVE  IInv'
  <2>1. state' \in States
    BY <1>3 DEF Dialed, LinkOK, States
  <2>2. LinkOK'
    BY <1>3, <2>1 DEF Dialed, LinkOK, States, gui
  <2> QED BY <1>3, <2>2, AsideInv DEF Dialed, MailAside
<1> QED BY <1>1, <1>2, <1>3

LEMMA PollerInv ==
  ASSUME IInv, PollerStep
  PROVE  IInv'
<1> USE DEF IInv
<1>0. LinkOK /\ sub \in [Conns -> SubRecord]
  BY DEF LinkOK
<1>1. CASE Status
  <2>1. poller' \in PollerType /\ UNCHANGED <<stream, alerts, queue, poster, posted, delivered, panic, late>>
        /\ UNCHANGED gui
    BY <1>1 DEF Status, PollerType, Connected
  <2>2. CASE Connected /\ ~poller.was
    <3>1. sub' = [sub EXCEPT ![con] = [NoSub EXCEPT !.at = "subscribe"]] /\ Signal(TRUE)
          /\ UNCHANGED <<state, con, client, deaf>>
      BY <1>1, <2>2 DEF Status
    <3>2. sub' \in [Conns -> SubRecord]
      BY <1>0, <3>1 DEF NoSub, SubRecord
    <3>3. LinkOK'
      BY <2>1, <3>1, <3>2 DEF LinkOK, gui
    <3> QED BY <2>1, <3>1, <3>3, AsideInv DEF MailAside
  <2>3. CASE ~Connected /\ poller.was
    <3>1. Disconnect(sub)
      BY <1>1, <2>3 DEF Status
    <3>2. LinkOK' /\ Signal(FALSE)
      BY <1>0, <2>1, <3>1, Disconnects DEF LinkOK, States, gui
    <3> QED BY <2>1, <3>2, AsideInv DEF MailAside
  <2>4. CASE Connected = poller.was /\ UNCHANGED <<state, con, client, sub, dispatcher>>
             /\ deaf' = (deaf \/ (Connected /\ poller.again))
    <3>1. deaf' \in BOOLEAN
      BY <2>4
    <3>2. LinkOK'
      BY <2>1, <2>4, <3>1 DEF LinkOK, gui
    <3> QED BY <2>1, <2>4, <3>2, AsideInv DEF MailAside, mail
  <2> QED BY <1>1, <2>2, <2>3, <2>4 DEF Status
<1>2. CASE Connect \/ Ping
  <2>1. poller' \in PollerType
    BY <1>2 DEF Connect, Ping, LinkOK, PollerType
  <2>2. LinkOK'
    BY <1>2, <2>1 DEF Connect, Ping, LinkOK, gui, link
  <2> QED BY <1>2, <2>2, AsideInv DEF Connect, Ping, MailAside
<1>3. CASE ConState
  <2>1. CASE con = None
    <3>1. LinkOK'
      BY <1>3, <2>1 DEF ConState, LinkOK, gui, link
    <3> QED BY <1>3, <2>1, <3>1, AsideInv DEF ConState, MailAside, mail
  <2>2. CASE con # None /\ state[con] = "transient"
    <3>1. /\ Disconnect(sub) /\ UNCHANGED <<stream, panic, late>> /\ UNCHANGED gui
          /\ UNCHANGED <<alerts, queue, poster, posted, delivered>>
          /\ poller' = [poller EXCEPT !.at = "open"]
      BY <1>3, <2>2 DEF ConState
    <3>2. poller' \in PollerType
      BY <3>1 DEF LinkOK, PollerType
    <3>3. LinkOK' /\ Signal(FALSE)
      BY <1>0, <3>1, <3>2, Disconnects DEF LinkOK, States, gui
    <3> QED BY <3>1, <3>3, AsideInv DEF MailAside
  <2>3. CASE con # None /\ state[con] # "transient"
    <3>1. /\ UNCHANGED <<link, dispatcher, deaf, panic, late>> /\ UNCHANGED gui
          /\ UNCHANGED <<alerts, queue, poster, posted, delivered>>
          /\ poller' = [poller EXCEPT !.at = "ping"]
      BY <1>3, <2>3 DEF ConState
    <3>2. poller' \in PollerType
      BY <3>1 DEF LinkOK, PollerType
    <3>3. LinkOK'
      BY <3>1, <3>2 DEF LinkOK, gui, link
    <3> QED BY <3>1, <3>3, AsideInv DEF MailAside, mail
  <2> QED BY <2>1, <2>2, <2>3
<1>4. CASE Open
  <2>1. PICK k \in Conns : /\ con' = k /\ state' = [state EXCEPT ![k] = "connecting"]
                           /\ sub' = [sub EXCEPT ![k] = NoSub]
    BY <1>4 DEF Open
  <2>2. poller' \in PollerType
    BY <1>4 DEF Open, LinkOK, PollerType
  <2>3. sub' \in [Conns -> SubRecord] /\ state' \in States
    BY <1>0, <2>1 DEF NoSub, SubRecord, LinkOK, States
  <2>4. LinkOK'
    BY <1>4, <2>1, <2>2, <2>3 DEF Open, LinkOK, States, gui
  <2> QED BY <1>4, <2>4, AsideInv DEF Open, MailAside
<1>5. CASE OpenFails
  <2>1. poller' \in PollerType /\ faults' \in 0..MaxFaults
    BY <1>5, BoundAssumption DEF OpenFails, Fault, LinkOK, PollerType
  <2>2. LinkOK' /\ Signal(FALSE)
    BY <1>0, <1>5, <2>1, Disconnects DEF OpenFails, LinkOK, States
  <2> QED BY <1>5, <2>2, AsideInv DEF OpenFails, MailAside
<1>6. CASE MakeClient
  <2>1. poller' \in PollerType /\ client' \in Conns \cup {None, Broken}
    BY <1>6 DEF MakeClient, LinkOK, PollerType
  <2>2. LinkOK'
    BY <1>6, <2>1 DEF MakeClient, LinkOK, gui
  <2> QED BY <1>6, <2>2, AsideInv DEF MakeClient, MailAside
<1>7. CASE PingCall
  <2>1. [poller EXCEPT !.at = "sleep"] \in PollerType /\ [poller EXCEPT !.at = "report"] \in PollerType
    BY DEF LinkOK, PollerType
  <2>2. \/ UNCHANGED faults
        \/ faults < MaxFaults /\ faults' = faults + 1
    BY <1>7 DEF PingCall, Fault
  <2>3. faults' \in 0..MaxFaults
    BY <2>2, BoundAssumption DEF LinkOK
  <2>4. panic' = TRUE \/ UNCHANGED panic
    BY <1>7 DEF PingCall
  <2>5. panic' \in BOOLEAN
    BY <2>4 DEF LinkOK
  <2>6. \/ UNCHANGED poller
        \/ poller' = [poller EXCEPT !.at = "sleep"]
        \/ poller' = [poller EXCEPT !.at = "report"]
    BY <1>7 DEF PingCall
  <2>7. poller' \in PollerType
    BY <2>1, <2>6 DEF LinkOK
  <2>8. LinkOK'
    BY <1>7, <2>3, <2>5, <2>7 DEF PingCall, LinkOK, link
  <2> QED BY <1>7, <2>8, AsideInv DEF PingCall, MailAside
<1>8. CASE PingFailed
  <2>1. poller' \in PollerType /\ panic' \in BOOLEAN
    BY <1>8 DEF PingFailed, LinkOK, PollerType
  <2>2. LinkOK'
    BY <1>8, <2>1 DEF PingFailed, LinkOK, gui, link
  <2> QED BY <1>8, <2>2, AsideInv DEF PingFailed, MailAside
<1>9. CASE Wake
  <2>1. poller' \in PollerType /\ late' \in BOOLEAN
    BY <1>9 DEF Wake, LinkOK, PollerType
  <2>2. LinkOK'
    BY <1>9, <2>1 DEF Wake, LinkOK, gui, link
  <2> QED BY <1>9, <2>2, AsideInv DEF Wake, MailAside
<1> QED BY <1>1, <1>2, <1>3, <1>4, <1>5, <1>6, <1>7, <1>8, <1>9 DEF PollerStep

LEMMA SubInv ==
  ASSUME IInv, NEW k \in Conns, SubStep(k) \/ StopOrdered(k)
  PROVE  IInv'
<1> USE DEF IInv
<1>0. LinkOK /\ sub \in [Conns -> SubRecord] /\ sub[k] \in SubRecord
      /\ (faults < MaxFaults => faults + 1 \in 0..MaxFaults)
  BY BoundAssumption DEF LinkOK
<1>1. \A l \in {"none", "drop", "stream", "ended"} : [sub EXCEPT ![k].at = l] \in [Conns -> SubRecord]
  BY <1>0 DEF SubRecord
<1>2. CASE Subscribe(k)
  <2>1. sub' \in [Conns -> SubRecord] /\ faults' \in 0..MaxFaults /\ panic' \in BOOLEAN
    BY <1>0, <1>1, <1>2 DEF Subscribe, Fault, LinkOK
  <2>2. LinkOK'
    BY <1>2, <2>1 DEF Subscribe, LinkOK
  <2> QED BY <1>2, <2>2, AsideInv DEF Subscribe, MailAside
<1>3. CASE Drop(k)
  <2>1. LinkOK' /\ Signal(FALSE)
    BY <1>0, <1>1, <1>3, Disconnects DEF Drop, LinkOK, States, gui
  <2> QED BY <1>3, <2>1, AsideInv DEF Drop, MailAside
<1>4. CASE Notifications(k)
  <2>2. sub' \in [Conns -> SubRecord]
    <3>1. CASE Answers /\ sub' = [sub EXCEPT ![k] = [at |-> "recv", via |-> client, open |-> TRUE, reads |-> k]]
      <4>1. [at |-> "recv", via |-> client, open |-> TRUE, reads |-> k] \in SubRecord
        BY <3>1 DEF Answers, Usable, SubRecord
      <4> QED BY <1>0, <3>1, <4>1
    <3> QED BY <1>0, <1>1, <1>4, <3>1 DEF Notifications
  <2>3. /\ faults' \in 0..MaxFaults /\ panic' \in BOOLEAN /\ stream' \in Conns \cup {None}
        /\ deaf' \in BOOLEAN
    BY <1>0, <1>4 DEF Notifications, Fault, LinkOK
  <2>4. LinkOK'
    BY <1>4, <2>2, <2>3 DEF Notifications, LinkOK
  <2> QED BY <1>4, <2>4, AsideInv DEF Notifications, MailAside
<1>5. CASE Recv(k)
  <2>1. sub' \in [Conns -> SubRecord]
    BY <1>0, <1>5 DEF Recv, LinkOK, SubRecord
  <2>2. LinkOK'
    BY <1>5, <2>1 DEF Recv, LinkOK, gui
  <2> QED BY <1>5, <2>2, AsideInv DEF Recv, MailAside
<1>6. CASE RecvFails(k)
  <2>1. LinkOK'
    BY <1>1, <1>6 DEF RecvFails, LinkOK, gui
  <2> QED BY <1>6, <2>1, AsideInv DEF RecvFails, MailAside
<1>7. CASE ListenerExit(k)
  <2> DEFINE closed == [sub EXCEPT ![stream].open = FALSE]
             ended == [closed EXCEPT ![k] = [closed[k] EXCEPT !.at = "none", !.reads = None]]
  <2>1. closed \in [Conns -> SubRecord]
    BY <1>0 DEF SubRecord
  <2>2. ended \in [Conns -> SubRecord]
    <3> HIDE DEF closed
    <3> QED BY <2>1 DEF SubRecord
  <2>3. /\ Disconnect(ended) /\ UNCHANGED <<stream, poller, panic, late>> /\ UNCHANGED gui
        /\ UNCHANGED <<alerts, queue, poster, posted, delivered>>
    BY <1>7 DEF ListenerExit
  <2> HIDE DEF ended
  <2>4. LinkOK' /\ Signal(FALSE)
    BY <1>0, <2>2, <2>3, Disconnects DEF LinkOK, States, gui
  <2> QED BY <2>3, <2>4, AsideInv DEF MailAside
<1>8. CASE StopOrdered(k)
  <2>1. sub' \in [Conns -> SubRecord] /\ faults' \in 0..MaxFaults
    BY <1>0, <1>1, <1>8 DEF StopOrdered, Fault
  <2>2. LinkOK'
    BY <1>8, <2>1 DEF StopOrdered, LinkOK
  <2> QED BY <1>8, <2>2, AsideInv DEF StopOrdered, MailAside
<1> QED BY <1>2, <1>3, <1>4, <1>5, <1>6, <1>7, <1>8 DEF SubStep

-----------------------------------------------------------------------------
(* Theorems *)

LEMMA InitInv == Init => IInv
<1> SUFFICES ASSUME Init PROVE IInv
  OBVIOUS
<1>1. 0 \in 0..MaxFaults /\ 0 \in 0..MaxAlerts /\ <<>> \in Seq(1..MaxAlerts) /\ Len(<<>>) = 0
      /\ 0 <= ChanSize /\ 0 <= QueueSize
  BY BoundAssumption, SizeAssumption
<1>2. LinkOK
  BY <1>1 DEF Init, LinkOK, NoSub, SubRecord, PollerType
<1>3. MailType
  BY <1>1 DEF Init, MailType, DispatcherType
<1>4. OrderOK /\ BeliefOK
  BY <1>1 DEF Init, OrderOK, BeliefOK, InHand, Between
<1> QED BY <1>2, <1>3, <1>4 DEF IInv, MailOK

LEMMA StepInv == IInv /\ [Next]_vars => IInv'
<1> SUFFICES ASSUME IInv, [Next]_vars PROVE IInv'
  OBVIOUS
<1>1. CASE UNCHANGED vars
  <2>1. MailOK'
    BY <1>1, MailKept DEF IInv, vars
  <2> QED BY <1>1, <2>1 DEF IInv, LinkOK, vars, gui, link
<1>2. ASSUME NEW p \in Posters, PostAlert(p) \/ PopOldest(p) \/ SendAlert(p)
      PROVE  IInv'
  <2>1. LinkOK'
    BY <1>2 DEF IInv, LinkOK, PostAlert, PopOldest, SendAlert, gui, link
  <2> QED BY <1>2, <2>1, PostersInv DEF IInv
<1>3. ASSUME TakeAlert \/ Drain \/ DispatchAlert \/ DeliverAlert
      PROVE  IInv'
  <2>1. panic' \in BOOLEAN
    BY <1>3 DEF IInv, LinkOK, TakeAlert, Drain, DispatchAlert, DeliverAlert
  <2>2. LinkOK'
    BY <1>3, <2>1 DEF IInv, LinkOK, TakeAlert, Drain, DispatchAlert, DeliverAlert, gui, link
  <2> QED BY <1>3, <2>2, TakeInv, DispatchInv DEF IInv
<1> QED BY <1>1, <1>2, <1>3, GuiInv, PollerInv, SubInv DEF Next

\* The inductive invariant (client.go, alerts.go alertsDispatcher and PostAlert).
THEOREM ClientInvariant == Spec => []IInv
  BY InitInv, StepInv, PTL DEF Spec

\* The connections, the dispatcher and the queues are of their types, the queues within their
\* sizes.
THEOREM TypeCorrect == Spec => []TypeOK
  BY TypesAreOK, ClientInvariant, PTL

\* The GUI gets alerts in the order in which they were posted, none twice, through both queues
\* and any number of connections (alerts.go:93-114).
THEOREM AlertsKeepTheirOrder == Spec => AlertsInOrder
<1>1. IInv /\ [Next]_vars => [delivered' # delivered => delivered' > delivered]_vars
  <2> SUFFICES ASSUME IInv, Next, delivered' # delivered PROVE delivered' > delivered
    OBVIOUS
  <2>1. DeliverAlert
    BY DEF Next, GuiEnds, GuiStarts, PollerStep, Status, Connect, ConState, Open, OpenFails, MakeClient,
        Ping, PingCall, PingFailed, Wake, Dialed, SubStep, Subscribe, Drop, Notifications, Recv,
        RecvFails, ListenerExit, StopOrdered, PostAlert, PopOldest, SendAlert, TakeAlert, Drain,
        DispatchAlert, mail
  <2>2. delivered' = dispatcher.alert /\ InHand
    BY <2>1 DEF DeliverAlert, InHand
  <2> QED BY <2>2, BoundAssumption DEF IInv, MailOK, MailType, OrderOK, DispatcherType
<1> QED BY <1>1, ClientInvariant, PTL DEF Spec, AlertsInOrder
-----------------------------------------------------------------------------
(* Refinement: the path of an alert is a queue that may lose alerts *)

Hand == IF InHand THEN {dispatcher.alert} ELSE {}

Waiting == Range(queue) \cup Range(alerts) \cup Hand

\* The abstract queue, in the terms of this one.
PathKept == Waiting' = Waiting /\ UNCHANGED <<posted, delivered>>

PathPost ==
    /\ posted < MaxAlerts /\ posted' = posted + 1
    /\ Waiting' = Waiting \cup {posted + 1}
    /\ UNCHANGED delivered

PathLose(a) == a \in Waiting /\ Waiting' = Waiting \ {a} /\ UNCHANGED <<posted, delivered>>

PathDeliver(a) ==
    /\ a \in Waiting /\ \A b \in Waiting : a <= b
    /\ delivered' = a /\ Waiting' = Waiting \ {a} /\ UNCHANGED posted

PathStep == PathKept \/ PathPost \/ \E a \in Waiting : PathLose(a) \/ PathDeliver(a)

\* They are the steps of the abstract specification.
LEMMA PathIsAlertQueue == PathStep => [AlertPath!AlertNext]_(AlertPath!alertVars)
<1>1. Waiting = Range(queue) \cup Range(alerts)
                  \cup IF dispatcher.at \in {"dispatch", "post"} THEN {dispatcher.alert} ELSE {}
  BY DEF Waiting, Hand, InHand
<1>2. Waiting' = (Range(queue) \cup Range(alerts)
                   \cup IF dispatcher.at \in {"dispatch", "post"} THEN {dispatcher.alert} ELSE {})'
  BY DEF Waiting, Hand, InHand
<1>3. CASE PathKept
  BY <1>1, <1>2, <1>3 DEF PathKept, AlertPath!alertVars
<1>4. CASE PathPost
  BY <1>1, <1>2, <1>4 DEF PathPost, AlertPath!AlertNext, AlertPath!Post
<1>5. ASSUME NEW a \in Waiting, PathLose(a) PROVE AlertPath!Lose
  BY <1>1, <1>2, <1>5 DEF PathLose, AlertPath!Lose
<1>6. ASSUME NEW a \in Waiting, PathDeliver(a) PROVE AlertPath!Deliver
  BY <1>1, <1>2, <1>6 DEF PathDeliver, AlertPath!Deliver
<1> QED BY <1>3, <1>4, <1>5, <1>6 DEF PathStep, AlertPath!AlertNext

\* The alerts of a queue.
LEMMA RangeOfSeq ==
  ASSUME NEW s \in Seq(1..MaxAlerts)
  PROVE  Range(s) = {s[i] : i \in 1..Len(s)} /\ Range(s) \subseteq 1..MaxAlerts
<1>1. DOMAIN s = 1..Len(s)
  OBVIOUS
<1>2. \A i \in 1..Len(s) : s[i] \in 1..MaxAlerts
  BY Elements
<1> QED BY <1>1, <1>2 DEF Range

\* Those of a queue in its order without its oldest one.
LEMMA RangeOldestGone ==
  ASSUME NEW s \in Seq(1..MaxAlerts), s # <<>>, NEW a \in Nat, NEW b \in Nat, Between(a, s, b)
  PROVE  /\ Head(s) \in Range(s) /\ Range(Tail(s)) = Range(s) \ {Head(s)}
         /\ \A x \in Range(Tail(s)) : Head(s) < x
<1>1. /\ Tail(s) \in Seq(1..MaxAlerts) /\ Len(Tail(s)) = Len(s) - 1 /\ Head(s) = s[1]
      /\ \A i \in 1..Len(Tail(s)) : i + 1 \in 1..Len(s) /\ Tail(s)[i] = s[i + 1]
      /\ Between(Head(s), Tail(s), b) /\ Len(s) \in Nat /\ 1 \in 1..Len(s)
  BY OldestGone
<1>2. Range(s) = {s[i] : i \in 1..Len(s)} /\ Range(Tail(s)) = {Tail(s)[i] : i \in 1..Len(Tail(s))}
  BY <1>1, RangeOfSeq
<1>3. \A x \in Range(Tail(s)) : Head(s) < x
  BY <1>1, <1>2 DEF Between
<1>4. Range(Tail(s)) \subseteq Range(s) \ {Head(s)}
  <2>1. Head(s) \in Nat
    BY OldestGone
  <2> QED BY <1>1, <1>2, <1>3, <2>1
<1>5. ASSUME NEW i \in 1..Len(s), s[i] # Head(s) PROVE s[i] \in Range(Tail(s))
  <2>1. i - 1 \in 1..Len(Tail(s)) /\ Tail(s)[i - 1] = s[i]
    BY <1>1, <1>5
  <2> QED BY <1>2, <2>1
<1> QED BY <1>1, <1>2, <1>3, <1>4, <1>5

\* Those of a queue with a new one.
LEMMA RangeNewestAdded ==
  ASSUME NEW s \in Seq(1..MaxAlerts), NEW c \in 1..MaxAlerts
  PROVE  Range(Append(s, c)) = Range(s) \cup {c}
<1>1. /\ Append(s, c) \in Seq(1..MaxAlerts) /\ Len(Append(s, c)) = Len(s) + 1 /\ Len(s) \in Nat
      /\ \A i \in 1..Len(Append(s, c)) : Append(s, c)[i] = IF i <= Len(s) THEN s[i] ELSE c
  OBVIOUS
<1>2. /\ Range(s) = {s[i] : i \in 1..Len(s)}
      /\ Range(Append(s, c)) = {Append(s, c)[i] : i \in 1..Len(Append(s, c))}
  BY <1>1, RangeOfSeq
<1>3. \A i \in 1..Len(s) : i \in 1..Len(Append(s, c)) /\ Append(s, c)[i] = s[i]
  BY <1>1
<1>4. Len(s) + 1 \in 1..Len(Append(s, c)) /\ Append(s, c)[Len(s) + 1] = c
  BY <1>1
<1>5. \A i \in 1..Len(Append(s, c)) : i \in 1..Len(s) \/ i = Len(s) + 1
  BY <1>1
<1> QED BY <1>2, <1>3, <1>4, <1>5

\* What waits is apart: the alert in hand is the oldest, the queue comes before the channel.
LEMMA Apart ==
  ASSUME MailOK
  PROVE  /\ queue \in Seq(1..MaxAlerts) /\ alerts \in Seq(1..MaxAlerts)
         /\ posted \in Nat /\ delivered \in Nat /\ dispatcher.alert \in Nat
         /\ Range(queue) \subseteq 1..MaxAlerts /\ Range(alerts) \subseteq 1..MaxAlerts
         /\ \A x \in Range(queue), y \in Range(alerts) : x < y
         /\ InHand => \A x \in Range(queue) \cup Range(alerts) : dispatcher.alert < x
<1>1. /\ queue \in Seq(1..MaxAlerts) /\ alerts \in Seq(1..MaxAlerts)
      /\ posted \in Nat /\ delivered \in Nat /\ dispatcher.alert \in Nat
  BY BoundAssumption DEF MailOK, MailType, DispatcherType
<1>2. /\ Range(queue) = {queue[i] : i \in 1..Len(queue)} /\ Range(queue) \subseteq 1..MaxAlerts
      /\ Range(alerts) = {alerts[i] : i \in 1..Len(alerts)} /\ Range(alerts) \subseteq 1..MaxAlerts
  BY <1>1, RangeOfSeq
<1>3. \A x \in Range(queue), y \in Range(alerts) : x < y
  BY <1>2 DEF MailOK, OrderOK
<1>4. InHand => \A x \in Range(queue) \cup Range(alerts) : dispatcher.alert < x
  BY <1>2 DEF MailOK, OrderOK, Between
<1> QED BY <1>1, <1>2, <1>3, <1>4

\* The goroutines that post.
LEMMA PostersPath ==
  ASSUME MailOK, NEW p \in Posters, PostAlert(p) \/ PopOldest(p) \/ SendAlert(p)
  PROVE  PathStep
<1>1. CASE PostAlert(p)
  BY <1>1 DEF PostAlert, PathStep, PathKept, Waiting, Hand, InHand
<1>2. CASE PopOldest(p)
  <2> DEFINE c == Head(alerts)
  <2>1. /\ alerts # <<>> /\ alerts' = Tail(alerts) /\ UNCHANGED <<queue, posted, delivered>>
        /\ Hand' = Hand
    BY <1>2 DEF PopOldest, Hand, InHand
  <2>2. c \in Range(alerts) /\ Range(alerts') = Range(alerts) \ {c}
    BY <2>1, Apart, RangeOldestGone DEF MailOK, OrderOK
  <2> HIDE DEF c
  <2>3. c \notin Range(queue) /\ c \notin Hand
    BY <2>2, Apart DEF Hand
  <2>4. PathLose(c) /\ c \in Waiting
    BY <2>1, <2>2, <2>3 DEF PathLose, Waiting
  <2> QED BY <2>4 DEF PathStep
<1>3. CASE SendAlert(p)
  <2>1. /\ posted < MaxAlerts /\ posted' = posted + 1 /\ alerts' = Append(alerts, posted + 1)
        /\ UNCHANGED <<queue, delivered>> /\ Hand' = Hand
    BY <1>3 DEF SendAlert, Hand, InHand
  <2>2. posted + 1 \in 1..MaxAlerts
    BY <2>1, Apart, BoundAssumption
  <2>3. Range(alerts') = Range(alerts) \cup {posted + 1}
    BY <2>1, <2>2, Apart, RangeNewestAdded
  <2> QED BY <2>1, <2>3 DEF PathStep, PathPost, Waiting
<1> QED BY <1>1, <1>2, <1>3

\* The dispatcher takes an alert: it is in hand, or in the queue, whose oldest one may go.
LEMMA TakePath ==
  ASSUME MailOK, TakeAlert
  PROVE  PathStep
<1> DEFINE c == Head(alerts)
<1>1. /\ alerts # <<>> /\ alerts' = Tail(alerts) /\ UNCHANGED <<posted, delivered>>
      /\ Hand = {} /\ dispatcher \in DispatcherType
  BY DEF TakeAlert, Hand, InHand, MailOK, MailType
<1>2. c \in Range(alerts) /\ Range(alerts') = Range(alerts) \ {c} /\ c \in 1..MaxAlerts
  BY <1>1, Apart, RangeOldestGone DEF MailOK, OrderOK
<1>3. CASE dispatcher.connected
  <2>1. /\ dispatcher' = [dispatcher EXCEPT !.at = "dispatch", !.alert = c, !.drains = FALSE]
        /\ queue' = queue
    BY <1>3 DEF TakeAlert
  <2> HIDE DEF c
  <2>2. Hand' = {c}
    BY <1>1, <2>1 DEF Hand, InHand, DispatcherType
  <2> QED BY <1>1, <1>2, <2>1, <2>2 DEF PathStep, PathKept, Waiting
<1>4. CASE ~dispatcher.connected
  <2> DEFINE full == Len(queue) = QueueSize
             q == IF full THEN Tail(queue) ELSE queue
  <2>1. queue' = Append(q, c) /\ Hand' = Hand
    BY <1>4 DEF TakeAlert, Hand, InHand
  <2> HIDE DEF c
  <2>2. CASE full
    <3> DEFINE a == Head(queue)
    <3>1. queue # <<>>
      BY <2>2, Apart, SizeAssumption
    <3>2. /\ a \in Range(queue) /\ Range(Tail(queue)) = Range(queue) \ {a}
          /\ Tail(queue) \in Seq(1..MaxAlerts)
      BY <3>1, Apart, RangeOldestGone DEF MailOK, OrderOK
    <3>3. Range(queue') = (Range(queue) \ {a}) \cup {c}
      BY <1>2, <2>1, <2>2, <3>2, RangeNewestAdded
    <3> HIDE DEF a
    <3>4. a \notin Range(alerts) /\ a # c
      BY <1>2, <3>2, Apart
    <3>5. PathLose(a) /\ a \in Waiting
      BY <1>1, <1>2, <2>1, <3>2, <3>3, <3>4 DEF PathLose, Waiting
    <3> QED BY <3>5 DEF PathStep
  <2>3. CASE ~full
    <3>1. Range(queue') = Range(queue) \cup {c}
      BY <1>2, <2>1, <2>3, Apart, RangeNewestAdded
    <3> QED BY <1>1, <1>2, <2>1, <3>1 DEF PathStep, PathKept, Waiting
  <2> QED BY <2>2, <2>3
<1> QED BY <1>3, <1>4

\* The dispatcher empties its queue into its hand, and its hand into the GUI or nowhere.
LEMMA DispatchPath ==
  ASSUME MailOK, Drain \/ DispatchAlert \/ DeliverAlert
  PROVE  PathStep
<1>0. dispatcher \in DispatcherType
  BY DEF MailOK, MailType
<1>1. CASE Drain
  <2>1. UNCHANGED <<alerts, posted, delivered>> /\ Hand = {}
    BY <1>1 DEF Drain, Hand, InHand
  <2>2. CASE queue = <<>>
    <3>1. Hand' = {} /\ queue' = queue
      BY <1>0, <1>1, <2>2 DEF Drain, Hand, InHand, DispatcherType
    <3> QED BY <2>1, <3>1 DEF PathStep, PathKept, Waiting
  <2>3. CASE queue # <<>>
    <3> DEFINE c == Head(queue)
    <3>1. dispatcher' = [dispatcher EXCEPT !.at = "dispatch", !.alert = c, !.drains = TRUE]
          /\ queue' = Tail(queue)
      BY <1>1, <2>3 DEF Drain
    <3>2. c \in Range(queue) /\ Range(queue') = Range(queue) \ {c}
      BY <2>3, <3>1, Apart, RangeOldestGone DEF MailOK, OrderOK
    <3> HIDE DEF c
    <3>3. Hand' = {c}
      BY <1>0, <3>1 DEF Hand, InHand, DispatcherType
    <3> QED BY <2>1, <3>2, <3>3 DEF PathStep, PathKept, Waiting
  <2> QED BY <2>2, <2>3
<1>2. ASSUME DispatchAlert \/ DeliverAlert
      PROVE  PathStep
  <2> DEFINE c == dispatcher.alert
  <2>1. /\ UNCHANGED <<alerts, queue, posted>> /\ Hand = {c} /\ c \in Waiting
    BY <1>2 DEF DispatchAlert, DeliverAlert, Hand, InHand, Waiting
  <2>2. \A b \in Waiting \ {c} : c < b
    BY <2>1, Apart DEF Waiting, Hand
  <2>3. Range(queue) \cup Range(alerts) = Waiting \ {c}
    <3>1. Waiting = Range(queue) \cup Range(alerts) \cup {c}
      BY <2>1 DEF Waiting
    <3>2. c \notin Range(queue) \cup Range(alerts)
      <4>1. InHand /\ c \in Nat
        BY <1>2, Apart DEF DispatchAlert, DeliverAlert, InHand
      <4> QED BY <4>1, Apart
    <3> QED BY <3>1, <3>2
  <2>4. CASE dispatcher' = [dispatcher EXCEPT !.at = "post"] /\ delivered' = delivered
    <3>1. Hand' = Hand
      BY <1>0, <2>1, <2>4 DEF Hand, InHand, DispatcherType
    <3> QED BY <2>1, <2>4, <3>1 DEF PathStep, PathKept, Waiting
  <2>5. CASE dispatcher' = [dispatcher EXCEPT !.at = Dispatched] /\ delivered' \in {delivered, c}
    <3>1. Hand' = {}
      BY <1>0, <2>5 DEF Hand, InHand, Dispatched, DispatcherType
    <3>2. Waiting' = Waiting \ {c}
      BY <2>1, <2>3, <3>1 DEF Waiting
    <3>3. CASE delivered' = delivered
      BY <2>1, <3>2, <3>3 DEF PathStep, PathLose
    <3>4. CASE delivered' = c
      <4>1. \A b \in Waiting : c <= b
        <5>1. c \in Nat /\ Waiting \subseteq Nat
          BY <2>1, Apart DEF Waiting
        <5> QED BY <2>2, <5>1
      <4>2. PathDeliver(c)
        BY <2>1, <3>2, <3>4, <4>1 DEF PathDeliver
      <4> QED BY <2>1, <4>2 DEF PathStep
    <3> QED BY <2>5, <3>3, <3>4
  <2>6. \/ dispatcher' = [dispatcher EXCEPT !.at = "post"] /\ delivered' = delivered
        \/ dispatcher' = [dispatcher EXCEPT !.at = Dispatched] /\ delivered' \in {delivered, c}
    BY <1>2 DEF DispatchAlert, DeliverAlert
  <2> QED BY <2>4, <2>5, <2>6
<1> QED BY <1>1, <1>2

\* What happens to connections leaves the alerts alone, and the dispatcher but for a signal.
LEMMA LinkStepsAside ==
  ASSUME GuiEnds \/ GuiStarts \/ PollerStep \/ \E k \in Conns : Dialed(k) \/ SubStep(k) \/ StopOrdered(k)
  PROVE  MailAside
<1>1. CASE GuiEnds \/ GuiStarts
  BY <1>1 DEF GuiEnds, GuiStarts, MailAside
<1>2. CASE Status \/ ConState \/ OpenFails
  BY <1>2 DEF Status, ConState, OpenFails, Disconnect, MailAside, mail
<1>3. CASE Connect \/ Open \/ MakeClient \/ Ping \/ PingCall \/ PingFailed \/ Wake
  BY <1>3 DEF Connect, Open, MakeClient, Ping, PingCall, PingFailed, Wake, MailAside
<1>4. ASSUME NEW k \in Conns, Dialed(k) \/ SubStep(k) \/ StopOrdered(k) PROVE MailAside
  <2>1. CASE Drop(k) \/ ListenerExit(k)
    BY <2>1 DEF Drop, ListenerExit, Disconnect, MailAside
  <2>2. CASE Dialed(k) \/ Subscribe(k) \/ Notifications(k) \/ Recv(k) \/ RecvFails(k) \/ StopOrdered(k)
    BY <2>2 DEF Dialed, Subscribe, Notifications, Recv, RecvFails, StopOrdered, MailAside
  <2> QED BY <1>4, <2>1, <2>2 DEF SubStep
<1> QED BY <1>1, <1>2, <1>3, <1>4 DEF PollerStep

\* A signal moves no alert.
LEMMA AsidePath ==
  ASSUME MailOK, MailAside
  PROVE  PathStep
<1>1. CASE UNCHANGED mail
  BY <1>1 DEF mail, PathStep, PathKept, Waiting, Hand, InHand
<1>2. ASSUME NEW v \in BOOLEAN, Signal(v), UNCHANGED <<alerts, queue, poster, posted, delivered>>
      PROVE  PathStep
  <2>1. Hand' = Hand
    BY <1>2 DEF Signal, Hand, InHand, MailOK, MailType, DispatcherType
  <2> QED BY <1>2, <2>1 DEF PathStep, PathKept, Waiting
<1> QED BY <1>1, <1>2 DEF MailAside

\* Whatever becomes of the connection and however full the queues are, what the GUI gets is the
\* oldest alert that is left; the rest is lost for good, one by one (alerts.go:83-114).
THEOREM PathIsLossyQueue == Spec => ImplementsAlertQueue
<1>1. Init => AlertPath!AlertInit
  BY DEF Init, AlertPath!AlertInit, Range
<1>2. IInv /\ [Next]_vars => [AlertPath!AlertNext]_(AlertPath!alertVars)
  <2> SUFFICES ASSUME IInv, [Next]_vars PROVE PathStep
    BY PathIsAlertQueue
  <2>1. MailOK
    BY DEF IInv
  <2>2. CASE UNCHANGED vars
    BY <2>1, <2>2, AsidePath DEF vars, MailAside
  <2>3. ASSUME NEW p \in Posters, PostAlert(p) \/ PopOldest(p) \/ SendAlert(p) PROVE PathStep
    BY <2>1, <2>3, PostersPath
  <2>4. CASE TakeAlert \/ Drain \/ DispatchAlert \/ DeliverAlert
    BY <2>1, <2>4, TakePath, DispatchPath
  <2>5. CASE GuiEnds \/ GuiStarts \/ PollerStep
              \/ \E k \in Conns : Dialed(k) \/ SubStep(k) \/ StopOrdered(k)
    BY <2>1, <2>5, LinkStepsAside, AsidePath
  <2> QED BY <2>2, <2>3, <2>4, <2>5 DEF Next
<1> QED BY <1>1, <1>2, ClientInvariant, PTL DEF Spec, ImplementsAlertQueue, AlertPath!AlertSpec
=============================================================================
