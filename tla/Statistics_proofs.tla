-------------------------- MODULE Statistics_proofs --------------------------
(***************************************************************************)
(* For any number of packet workers, reports, hosts and configurations: no *)
(* report is lost or counted twice, the maps and the buffer keep their     *)
(* limits, the flag announces the events, and no event is sent twice.      *)
(*                                                                         *)
(* A report has one number, and the number is in one place: with a packet  *)
(* worker that waits, with a worker, or among those that were recorded.    *)
(***************************************************************************)
EXTENDS Statistics, FiniteSetTheorems, TLAPS

\* A call that has cancelled a context is going to make the next one.
Making(p) == IF caller[p].at = "context" THEN 1 ELSE 0

\* Every call makes one context, after the one that the daemon starts with.
GenOK == gen + Making("ntf") + Making("disk") <= calls + 1

\* The numbers of the reports that no worker has recorded yet.
Pending == Numbers(waiting) \cup {b.id : b \in busy}

\* The numbers that were recorded.
Recorded == Numbers(events) \cup Numbers(poller.batch) \cup sent

\* A number is in one place.
PlacesOK ==
    /\ IsFiniteSet(busy)
    /\ Pending \cup Recorded \subseteq 1..reports
    /\ Pending \cap Recorded = {}
    /\ \A i, j \in DOMAIN waiting : waiting[i] = waiting[j] => i = j
    /\ \A i \in DOMAIN waiting, b \in busy : waiting[i] # b.id
    /\ \A b, c \in busy : b.id = c.id => b = c

\* What was sent is not in the buffer, nor in what is about to be sent.
SentOK ==
    /\ sent \cap Numbers(events) = {}
    /\ poller.at = "empty" => sent \cap Numbers(poller.batch) = {}

\* The bounds are numbers.
LEMMA Bounds == MaxReports \in Nat /\ MaxDNS \in Nat /\ MaxCalls \in Nat
  BY BoundAssumption

-----------------------------------------------------------------------------
(* Sequences of numbers *)

\* What a sequence holds when a number is added, and when the oldest is removed.
LEMMA NumbersAppend ==
  ASSUME NEW s \in Seq(Ids), NEW n
  PROVE  Numbers(Append(s, n)) = Numbers(s) \cup {n}
<1>1. Numbers(Append(s, n)) \subseteq Numbers(s) \cup {n}
  BY DEF Numbers
<1>2. \A i \in DOMAIN s : Append(s, n)[i] = s[i] /\ i \in DOMAIN Append(s, n)
  OBVIOUS
<1>3. Append(s, n)[Len(s) + 1] = n /\ Len(s) + 1 \in DOMAIN Append(s, n)
  OBVIOUS
<1> QED BY <1>1, <1>2, <1>3 DEF Numbers

LEMMA NumbersTail ==
  ASSUME NEW s \in Seq(Ids), s # <<>>
  PROVE  /\ Tail(s) \in Seq(Ids) /\ Len(Tail(s)) = Len(s) - 1
         /\ \A i \in DOMAIN Tail(s) : i + 1 \in DOMAIN s /\ Tail(s)[i] = s[i + 1]
         /\ Numbers(Tail(s)) \subseteq Numbers(s)
         /\ Head(s) \in Numbers(s) /\ 1 \in DOMAIN s /\ Head(s) = s[1]
<1>1. \A i \in DOMAIN Tail(s) : i + 1 \in DOMAIN s /\ Tail(s)[i] = s[i + 1]
  OBVIOUS
<1>2. Tail(s) \in Seq(Ids) /\ Len(Tail(s)) = Len(s) - 1 /\ 1 \in DOMAIN s /\ Head(s) = s[1]
  OBVIOUS
<1> QED BY <1>1, <1>2 DEF Numbers

LEMMA NumbersEmpty == Numbers(<<>>) = {}
  BY DEF Numbers

\* The buffer after it was shifted, if it was.
LEMMA ShiftedType ==
  ASSUME TypeOK
  PROVE  /\ Shifted \in Seq(Ids)
         /\ Numbers(Shifted) \subseteq Numbers(events)
         /\ Len(events) <= limits.maxEvents => Len(Shifted) < limits.maxEvents
<1>1. CASE Len(events) = limits.maxEvents
  <2>1. events # <<>> /\ events \in Seq(Ids) /\ limits.maxEvents \in Nat \ {0}
    BY <1>1 DEF TypeOK, Limits
  <2> QED BY <1>1, <2>1, NumbersTail DEF Shifted
<1>2. CASE Len(events) # limits.maxEvents
  <2>1. events \in Seq(Ids) /\ limits.maxEvents \in Nat \ {0}
    BY DEF TypeOK, Limits
  <2> QED BY <1>2, <2>1 DEF Shifted
<1> QED BY <1>1, <1>2

-----------------------------------------------------------------------------
(* Types *)

\* The limits that a call sets.
LEMMA NewLimitsType ==
  ASSUME limits \in Limits, NEW c \in StatsConfig
  PROVE  NewLimits(c) \in Limits
<1>1. /\ c.maxEvents \in Int /\ c.maxStats \in Int /\ c.workers \in Int
      /\ limits.maxEvents \in Nat \ {0} /\ limits.maxStats \in Nat \ {0}
      /\ Defaults.workers \in Int
  BY LimitsAssumption DEF Limits, StatsConfig
<1> QED BY <1>1 DEF NewLimits, Limits

\* A map that is counted in keeps its type.
LEMMA incMapType ==
  ASSUME NEW S, NEW m \in [S -> Nat], NEW k \in S, NEW n \in incMap(m, k)
  PROVE  n \in [S -> Nat]
<1>1. CASE n = [m EXCEPT ![k] = m[k] + 1]
  BY <1>1
<1>2. ASSUME NEW j \in Fewest(m),
             n = [[m EXCEPT ![k] = 1] EXCEPT ![j] = IF j = NoPath THEN @ ELSE 0]
      PROVE  n \in [S -> Nat]
  <2>1. [m EXCEPT ![k] = 1] \in [S -> Nat] /\ j \in S
    BY <1>2 DEF Fewest, Listed
  <2> QED BY <1>2, <2>1
<1> QED BY <1>1, <1>2 DEF incMap

\* The counters are numbers.
Counters == {"connections", "hits", "misses", "accepted", "dropped", "dns"}

\* A report that is counted changes the counters, the map and the buffer by their types.
LEMMA onConnectionType ==
  ASSUME TypeOK, NEW b \in busy, NEW r \in Reports, onConnection(b, r.host, r.path, r.rule)
  PROVE  TypeOK'
<1>1. /\ r.host \in Hosts \cup {NoHost} /\ r.path \in Executables
      /\ b.gen \in Contexts /\ b.id \in Ids
  BY ReportAssumption DEF Report, TypeOK
<1>2. byHost' \in [Hosts -> Nat] /\ byExecutable' \in [Executables -> Nat]
  BY <1>1, incMapType DEF onConnection, TypeOK
<1>3. counts' \in [Counters -> Nat]
  <2>1. counts \in [Counters -> Nat]
    BY DEF TypeOK, Counters
  <2>2. \A k \in Counters : counts[k] \in Nat /\ counts[k] + 1 \in Nat
    BY <2>1
  <2>3. DOMAIN counts' = Counters
    BY <2>1 DEF onConnection
  <2>4. \A k \in Counters : counts'[k] \in {counts[k], counts[k] + 1}
    BY <2>1, <2>2 DEF onConnection, Counters
  <2>5. counts' = [k \in Counters |-> counts'[k]]
    BY <2>1 DEF onConnection
  <2> QED BY <2>2, <2>4, <2>5
<1>4. events' \in Seq(Ids)
  BY <1>1, ShiftedType DEF onConnection
<1>5. idle' \in [Contexts -> Nat]
  <2>1. idle \in [Contexts -> Nat] /\ idle' = [idle EXCEPT ![b.gen] = idle[b.gen] + 1]
    BY DEF onConnection, TypeOK
  <2> QED BY <2>1, <1>1
<1>6. busy' \subseteq [gen : Contexts, id : Ids] /\ newEvents' \in BOOLEAN
  BY DEF onConnection, TypeOK
<1> QED BY <1>2, <1>3, <1>4, <1>5, <1>6 DEF onConnection, TypeOK, Counters, pool, message

\* How many calls have cancelled a context and not made theirs, and so the number of the
\* context that is made is one of those there may be.
LEMMA GenBound ==
  ASSUME TypeOK, GenOK, NEW p \in Callers, caller[p].at = "context"
  PROVE  gen + 1 \in Contexts /\ Making(p) = 1
<1>1. Making("ntf") \in {0, 1} /\ Making("disk") \in {0, 1} /\ Making(p) = 1
  BY DEF Making
<1>2. p = "ntf" \/ p = "disk"
  BY DEF Callers
<1>3. gen \in Nat /\ calls \in Nat /\ calls <= MaxCalls /\ MaxCalls \in Nat
  BY Bounds DEF TypeOK, Contexts
<1> QED BY <1>1, <1>2, <1>3 DEF GenOK, Contexts

\* The records of callers.
Caller == [at : {"idle", "context", "spawn"}, new : StatsConfig, i : Nat]

\* A caller that moves on.
LEMMA CallerType ==
  ASSUME TypeOK, NEW p \in Callers, NEW c \in Caller, caller' = [caller EXCEPT ![p] = c]
  PROVE  caller' \in [Callers -> Caller]
  BY DEF TypeOK, Caller

LEMMA NotCallingType == NotCalling \in Caller /\ NoConfig \in StatsConfig
  BY DEF NotCalling, NoConfig, Caller, StatsConfig

\* SetLimits keeps the types.
LEMMA SetLimitsType ==
  ASSUME TypeOK, GenOK, NEW p \in Callers,
         CallerStep(p) \/ \E c \in Configs : CancelWorkers(p, c)
  PROVE  TypeOK'
<1> USE DEF stats, jobs, message
<1>1. caller[p] \in Caller /\ caller[p].new \in StatsConfig /\ caller[p].i \in Nat
  BY DEF TypeOK, Caller
<1>2. ASSUME NEW c \in Configs, CancelWorkers(p, c) PROVE TypeOK'
  <2>1. [NotCalling EXCEPT !.at = "context", !.new = c] \in Caller
    BY LimitsAssumption DEF NotCalling, Caller, StatsConfig, NoConfig
  <2>2. caller' \in [Callers -> Caller]
    BY <1>2, <2>1, CallerType DEF CancelWorkers
  <2>3. calls' \in 0..MaxCalls
    <3>1. calls' = calls + 1 /\ calls < MaxCalls /\ calls \in 0..MaxCalls
      BY <1>2 DEF CancelWorkers, TypeOK
    <3> QED BY <3>1, Bounds
  <2>4. cancelled' \subseteq Contexts
    BY <1>2 DEF CancelWorkers, TypeOK
  <2> QED BY <1>2, <2>2, <2>3, <2>4 DEF CancelWorkers, TypeOK, Caller
<1>3. ASSUME NewContext(p) PROVE TypeOK'
  <2>1. [caller[p] EXCEPT !.at = "spawn"] \in Caller
    BY <1>1 DEF Caller
  <2>2. caller' \in [Callers -> Caller]
    BY <1>3, <2>1, CallerType DEF NewContext
  <2>3. gen' \in Contexts
    BY <1>3, GenBound DEF NewContext
  <2>4. limits' \in Limits
    BY <1>1, <1>3, NewLimitsType DEF NewContext, TypeOK
  <2>5. overfull' \in BOOLEAN
    BY <1>3 DEF NewContext
  <2> QED BY <1>3, <2>2, <2>3, <2>4, <2>5 DEF NewContext, TypeOK, Caller
<1>4. ASSUME StartWorker(p) PROVE TypeOK'
  <2>1. [caller[p] EXCEPT !.i = caller[p].i + 1] \in Caller
    BY <1>1 DEF Caller
  <2>2. caller' \in [Callers -> Caller]
    BY <1>4, <2>1, CallerType DEF StartWorker
  <2>3. idle' \in [Contexts -> Nat]
    <3>1. idle \in [Contexts -> Nat] /\ gen \in Contexts
      BY DEF TypeOK
    <3>2. idle' = [idle EXCEPT ![gen] = idle[gen] + 1]
      BY <1>4 DEF StartWorker
    <3> QED BY <3>1, <3>2
  <2> QED BY <1>4, <2>2, <2>3 DEF StartWorker, TypeOK, Caller
<1>5. ASSUME SetLimitsEnds(p) PROVE TypeOK'
  <2>1. caller' \in [Callers -> Caller]
    BY <1>5, NotCallingType, CallerType DEF SetLimitsEnds
  <2> QED BY <1>1, <1>5, <2>1 DEF SetLimitsEnds, TypeOK, Caller
<1> QED BY <1>2, <1>3, <1>4, <1>5 DEF CallerStep

\* The records of the poller.
Poller == [at : {"rest", "empty", "rpc"}, some : BOOLEAN, batch : Seq(Ids)]

\* The poller keeps the types.
LEMMA PollerType ==
  ASSUME TypeOK, Serialize \/ emptyStats \/ PingEnds
  PROVE  TypeOK'
<1> USE DEF pool, jobs
<1>1. poller \in Poller /\ Numbers(poller.batch) \subseteq Ids
  BY DEF TypeOK, Poller, Numbers
<1>2. AtRest \in Poller
  BY DEF AtRest, Poller
<1>3. CASE Serialize
  <2>1. poller' \in Poller
    BY <1>3 DEF Serialize, Poller, TypeOK
  <2> QED BY <1>3, <2>1 DEF Serialize, TypeOK, Poller, stats
<1>4. CASE emptyStats
  <2>1. poller' \in Poller /\ sent' \subseteq Ids
    BY <1>1, <1>2, <1>4 DEF emptyStats, SendPing, Poller, TypeOK
  <2>2. events' \in Seq(Ids)
    BY <1>4 DEF emptyStats
  <2>3. newEvents' \in BOOLEAN /\ overfull' \in BOOLEAN
    BY <1>4, Zenon DEF emptyStats
  <2>4. UNCHANGED <<counts, byHost, byExecutable, pool, jobs>>
    BY <1>4 DEF emptyStats
  <2> QED BY <2>1, <2>2, <2>3, <2>4 DEF TypeOK, Poller
<1>5. CASE PingEnds
  BY <1>2, <1>5 DEF PingEnds, TypeOK, Poller, stats
<1> QED BY <1>3, <1>4, <1>5

\* A worker that waits no more, for a job or because it ends.
LEMMA OneLess ==
  ASSUME TypeOK, NEW g \in Contexts, idle[g] > 0, idle' = [idle EXCEPT ![g] = idle[g] - 1]
  PROVE  idle' \in [Contexts -> Nat]
<1>1. idle \in [Contexts -> Nat] /\ idle[g] - 1 \in Nat
  BY DEF TypeOK
<1> QED BY <1>1

\* Reports and workers keep the types.
LEMMA ReportType ==
  ASSUME TypeOK,
         \/ OnConnectionEvent \/ OnDNSResponse
         \/ \E g \in Contexts : Take(g) \/ End(g)
  PROVE  TypeOK'
<1> USE DEF pool, message
<1>1. ASSUME OnConnectionEvent PROVE TypeOK'
  <2>1. reports' \in 0..MaxReports /\ reports + 1 \in Ids
    BY <1>1, Bounds DEF OnConnectionEvent, TypeOK, Ids
  <2>2. waiting' \in Seq(Ids)
    BY <1>1, <2>1 DEF OnConnectionEvent, TypeOK
  <2> QED BY <1>1, <2>1, <2>2 DEF OnConnectionEvent, TypeOK, stats
<1>2. ASSUME OnDNSResponse PROVE TypeOK'
  <2>1. counts' \in [Counters -> Nat]
    <3>1. counts \in [Counters -> Nat]
      BY DEF TypeOK, Counters
    <3>2. counts' = [counts EXCEPT !.dns = counts.dns + 1, !.accepted = counts.accepted + 1]
      BY <1>2 DEF OnDNSResponse
    <3>3. counts.dns + 1 \in Nat /\ counts.accepted + 1 \in Nat
      BY <3>1 DEF Counters
    <3> QED BY <3>1, <3>2, <3>3
  <2> QED BY <1>2, <2>1 DEF OnDNSResponse, TypeOK, jobs, Counters
<1>3. ASSUME NEW g \in Contexts, Take(g) PROVE TypeOK'
  <2>1. waiting \in Seq(Ids) /\ waiting # <<>>
    BY <1>3 DEF Take, TypeOK
  <2>2. waiting' \in Seq(Ids) /\ Head(waiting) \in Ids
    BY <1>3, <2>1 DEF Take
  <2>3. idle' \in [Contexts -> Nat]
    BY <1>3, OneLess DEF Take
  <2>4. busy' \subseteq [gen : Contexts, id : Ids]
    <3>1. busy' = busy \cup {[gen |-> g, id |-> Head(waiting)]}
      BY <1>3 DEF Take
    <3> QED BY <2>2, <3>1 DEF TypeOK
  <2>5. UNCHANGED <<stats, pool, reports, message, overfull>>
    BY <1>3 DEF Take
  <2> QED BY <2>2, <2>3, <2>4, <2>5, SMTT(30) DEF TypeOK, stats
<1>4. ASSUME NEW g \in Contexts, End(g) PROVE TypeOK'
  <2>1. idle' \in [Contexts -> Nat]
    BY <1>4, OneLess DEF End
  <2> QED BY <1>4, <2>1 DEF End, TypeOK, stats
<1> QED BY <1>1, <1>2, <1>3, <1>4

\* The number of contexts keeps its bound.
LEMMA GenStep ==
  ASSUME TypeOK, GenOK, [Next]_vars
  PROVE  GenOK'
<1>1. gen \in Nat /\ calls \in Nat /\ Making("ntf") \in {0, 1} /\ Making("disk") \in {0, 1}
  BY DEF TypeOK, Contexts, Making
<1>2. ASSUME NEW p \in Callers, NEW c \in Configs, CancelWorkers(p, c) PROVE GenOK'
  <2>1. Making(p)' <= 1 /\ Making(p) = 0
    BY <1>2 DEF CancelWorkers, Making, NotCalling
  <2>2. \A q \in Callers \ {p} : Making(q)' = Making(q)
    BY <1>2 DEF CancelWorkers, Making, TypeOK
  <2>3. Making("ntf")' + Making("disk")' <= Making("ntf") + Making("disk") + 1
    BY <1>1, <2>1, <2>2 DEF Callers, Making
  <2>4. Making("ntf")' \in {0, 1} /\ Making("disk")' \in {0, 1}
    BY DEF Making
  <2> QED BY <1>1, <1>2, <2>3, <2>4 DEF CancelWorkers, GenOK
<1>3. ASSUME NEW p \in Callers, NewContext(p) PROVE GenOK'
  <2>1. Making(p)' = 0 /\ Making(p) = 1
    BY <1>3 DEF NewContext, Making, TypeOK
  <2>2. \A q \in Callers \ {p} : Making(q)' = Making(q)
    BY <1>3 DEF NewContext, Making, TypeOK
  <2>3. Making("ntf")' + Making("disk")' = Making("ntf") + Making("disk") - 1
    BY <1>1, <2>1, <2>2 DEF Callers, Making
  <2>4. Making("ntf")' \in {0, 1} /\ Making("disk")' \in {0, 1}
    BY DEF Making
  <2> QED BY <1>1, <1>3, <2>3, <2>4 DEF NewContext, GenOK
<1>4. ASSUME NEW p \in Callers, StartWorker(p) \/ SetLimitsEnds(p) PROVE GenOK'
  <2>1. Making(p)' = 0 /\ Making(p) = 0
    BY <1>4 DEF StartWorker, SetLimitsEnds, Making, TypeOK, NotCalling
  <2>2. \A q \in Callers \ {p} : Making(q)' = Making(q)
    BY <1>4 DEF StartWorker, SetLimitsEnds, Making, TypeOK
  <2>3. Making("ntf")' = Making("ntf") /\ Making("disk")' = Making("disk")
    BY <2>1, <2>2 DEF Callers
  <2> QED BY <1>4, <2>3 DEF StartWorker, SetLimitsEnds, GenOK
<1>5. ASSUME UNCHANGED <<gen, calls, caller>> PROVE GenOK'
  BY <1>5 DEF GenOK, Making
<1>6. UNCHANGED pool => UNCHANGED <<gen, calls, caller>>
  BY DEF pool
<1>7. UNCHANGED vars => UNCHANGED pool
  BY DEF vars
<1>8. ASSUME \/ OnConnectionEvent \/ OnDNSResponse \/ TakeJob \/ OnConnection
             \/ \E g \in Contexts : End(g)
             \/ Serialize \/ emptyStats \/ PingEnds
      PROVE  UNCHANGED pool
  BY <1>8 DEF OnConnectionEvent, OnDNSResponse, TakeJob, Take, OnConnection, onConnection, End,
     Serialize, emptyStats, PingEnds
<1> QED BY <1>2, <1>3, <1>4, <1>5, <1>6, <1>7, <1>8 DEF Next, CallerStep

-----------------------------------------------------------------------------
(* The initial state, and the type invariant *)

\* The limits that the daemon starts with.
LEMMA InitType == Init => TypeOK /\ GenOK
<1> SUFFICES ASSUME Init PROVE TypeOK /\ GenOK
  OBVIOUS
<1>1. config \in StatsConfig
  BY LimitsAssumption DEF Init
<1>2. /\ config.maxEvents \in Int /\ config.maxStats \in Int /\ config.workers \in Int
      /\ Defaults.maxEvents \in Nat \ {0} /\ Defaults.maxStats \in Nat \ {0}
      /\ Defaults.workers \in Int
  BY <1>1, LimitsAssumption DEF StatsConfig, Limits
<1>3. limits \in Limits /\ limits.workers \in Int
  BY <1>2 DEF Init, Limits
<1>4. {0, 1} \subseteq Contexts
  BY Bounds DEF Contexts
<1>5. gen \in Contexts /\ cancelled \subseteq Contexts /\ gen <= 1
  BY <1>4 DEF Init
<1>6. idle \in [Contexts -> Nat]
  BY <1>3 DEF Init
<1>7. caller \in [Callers -> Caller] /\ \A p \in Callers : Making(p) = 0
  BY NotCallingType DEF Init, Making, NotCalling
<1>8. poller \in Poller
  BY DEF Init, AtRest, Poller
<1>9. /\ counts \in [Counters -> Nat]
      /\ byHost \in [Hosts -> Nat] /\ byExecutable \in [Executables -> Nat]
      /\ events \in Seq(Ids) /\ waiting \in Seq(Ids) /\ busy = {} /\ sent = {}
      /\ reports \in 0..MaxReports /\ calls \in 0..MaxCalls /\ calls = 0
  BY Bounds DEF Init, Counters
<1>10. newEvents \in BOOLEAN /\ overfull \in BOOLEAN
  BY Zenon DEF Init
<1>11. TypeOK
  BY <1>1, <1>3, <1>5, <1>6, <1>7, <1>8, <1>9, <1>10
     DEF TypeOK, Caller, Poller, Counters
<1>12. GenOK
  BY <1>5, <1>7, <1>9 DEF GenOK, Callers, Contexts
<1> QED BY <1>11, <1>12

\* A step of any goroutine keeps the types and the bound.
LEMMA TypeStep == TypeOK /\ GenOK /\ [Next]_vars => TypeOK' /\ GenOK'
<1> SUFFICES ASSUME TypeOK, GenOK, [Next]_vars PROVE TypeOK' /\ GenOK'
  OBVIOUS
<1>1. GenOK'
  BY GenStep
<1>2. CASE OnConnection
  <2>1. PICK b \in busy, r \in Reports : onConnection(b, r.host, r.path, r.rule)
    BY <1>2 DEF OnConnection
  <2> QED BY <1>1, <2>1, onConnectionType
<1>3. CASE UNCHANGED vars
  BY <1>1, <1>3 DEF vars, stats, pool, jobs, message, TypeOK
<1> QED BY <1>1, <1>2, <1>3, ReportType, SetLimitsType, PollerType DEF Next, TakeJob

\* The statistics have their types, and there are never more contexts than calls.
THEOREM StatisticsTypes == Spec => [](TypeOK /\ GenOK)
  BY InitType, TypeStep, PTL DEF Spec

-----------------------------------------------------------------------------
(* Where the reports are *)

\* The steps that move no report and no event.
Elsewhere ==
    \/ OnDNSResponse
    \/ \E g \in Contexts : End(g)
    \/ \E p \in Callers : CallerStep(p) \/ \E c \in Configs : CancelWorkers(p, c)
    \/ UNCHANGED vars

\* They leave the reports and the events where they are.
LEMMA ElsewhereFrame ==
  ASSUME Elsewhere
  PROVE  UNCHANGED <<waiting, busy, reports, byHost, byExecutable, events, newEvents, poller, sent>>
<1>1. CASE OnDNSResponse
  BY <1>1 DEF OnDNSResponse, jobs, message
<1>2. CASE \E g \in Contexts : End(g)
  BY <1>2 DEF End, stats, message
<1>3. CASE \E p \in Callers : CallerStep(p) \/ \E c \in Configs : CancelWorkers(p, c)
  BY <1>3 DEF CallerStep, CancelWorkers, NewContext, StartWorker, SetLimitsEnds, stats,
     jobs, message
<1>4. CASE UNCHANGED vars
  BY <1>4 DEF vars, stats, jobs, message
<1> QED BY <1>1, <1>2, <1>3, <1>4 DEF Elsewhere

\* What a recorded report does to the buffer, and to the set of busy workers.
LEMMA RecordFrame ==
  ASSUME TypeOK, NEW b \in busy, NEW r \in Reports, onConnection(b, r.host, r.path, r.rule)
  PROVE  /\ busy' = busy \ {b} /\ UNCHANGED <<waiting, reports, poller, sent>>
         /\ Numbers(events') \subseteq Numbers(events) \cup {b.id}
<1>1. busy' = busy \ {b} /\ UNCHANGED <<waiting, reports, poller, sent>>
  BY DEF onConnection, message
<1>2. events' = Shifted \/ events' = Append(Shifted, b.id)
  BY DEF onConnection
<1>3. Shifted \in Seq(Ids) /\ Numbers(Shifted) \subseteq Numbers(events)
  BY ShiftedType
<1>4. Numbers(Append(Shifted, b.id)) = Numbers(Shifted) \cup {b.id}
  BY <1>3, NumbersAppend
<1> QED BY <1>1, <1>2, <1>3, <1>4

\* At the start no report is anywhere.
LEMMA InitPlaces == Init => PlacesOK /\ SentOK
  BY NumbersEmpty, FS_EmptySet DEF Init, PlacesOK, SentOK, Pending, Recorded, AtRest

\* A number stays in one place.
LEMMA PlacesStep ==
  ASSUME TypeOK, PlacesOK, [Next]_vars
  PROVE  PlacesOK'
<1>1. CASE OnConnectionEvent
  <2>1. waiting' = Append(waiting, reports + 1) /\ reports' = reports + 1
        /\ UNCHANGED <<busy, events, poller, sent>>
    BY <1>1 DEF OnConnectionEvent, stats, message
  <2>2. waiting \in Seq(Ids) /\ reports \in Nat
    BY Bounds DEF TypeOK
  <2>3. Pending' = Pending \cup {reports + 1} /\ Recorded' = Recorded
    BY <2>1, <2>2, NumbersAppend DEF Pending, Recorded, Numbers
  <2>4. reports + 1 \notin Pending \cup Recorded
    BY <2>2 DEF PlacesOK
  <2>5. \A i \in DOMAIN waiting : waiting[i] \in Pending
    BY DEF Pending, Numbers
  <2>6. \A b \in busy : b.id \in Pending
    BY DEF Pending
  <2>7. \A i, j \in DOMAIN waiting' : waiting'[i] = waiting'[j] => i = j
    BY <2>1, <2>2, <2>4, <2>5 DEF PlacesOK
  <2>8. \A i \in DOMAIN waiting', b \in busy' : waiting'[i] # b.id
    BY <2>1, <2>2, <2>4, <2>6 DEF PlacesOK
  <2>9. Pending' \cup Recorded' \subseteq 1..reports' /\ Pending' \cap Recorded' = {}
    BY <2>1, <2>2, <2>3, <2>4 DEF PlacesOK
  <2> QED BY <2>1, <2>7, <2>8, <2>9 DEF PlacesOK
<1>2. ASSUME NEW g \in Contexts, Take(g) PROVE PlacesOK'
  <2> DEFINE new == [gen |-> g, id |-> Head(waiting)]
  <2>1. waiting' = Tail(waiting) /\ busy' = busy \cup {new} /\ waiting # <<>>
        /\ UNCHANGED <<reports, events, poller, sent>>
    BY <1>2 DEF Take, stats, message
  <2>2. waiting \in Seq(Ids)
    BY DEF TypeOK
  <2>3. \A i \in DOMAIN waiting' : i + 1 \in DOMAIN waiting /\ waiting'[i] = waiting[i + 1] /\ i + 1 # 1
    BY <2>1, <2>2, NumbersTail
  <2>4. 1 \in DOMAIN waiting /\ Head(waiting) = waiting[1]
    BY <2>1, <2>2, NumbersTail
  <2>5. Pending' \subseteq Pending /\ Recorded' = Recorded
    BY <2>1, <2>3, <2>4 DEF Pending, Recorded, Numbers
  <2>6. \A i, j \in DOMAIN waiting' : waiting'[i] = waiting'[j] => i = j
    <3> SUFFICES ASSUME NEW i \in DOMAIN waiting', NEW j \in DOMAIN waiting',
                        waiting'[i] = waiting'[j]
                 PROVE  i = j
      OBVIOUS
    <3>1. i + 1 = j + 1
      BY <2>3 DEF PlacesOK
    <3>2. i \in Nat /\ j \in Nat
      BY <2>1, <2>2
    <3> QED BY <3>1, <3>2
  <2>7. \A i \in DOMAIN waiting', b \in busy' : waiting'[i] # b.id
    BY <2>1, <2>3, <2>4 DEF PlacesOK
  <2>8. \A b, c \in busy' : b.id = c.id => b = c
    BY <2>1, <2>4 DEF PlacesOK
  <2>9. IsFiniteSet(busy')
    BY <2>1, FS_AddElement DEF PlacesOK
  <2> HIDE DEF new
  <2> QED BY <2>1, <2>5, <2>6, <2>7, <2>8, <2>9 DEF PlacesOK
<1>3. ASSUME NEW b \in busy, NEW r \in Reports, onConnection(b, r.host, r.path, r.rule)
      PROVE  PlacesOK'
  <2>1. /\ busy' = busy \ {b} /\ UNCHANGED <<waiting, reports, poller, sent>>
        /\ Numbers(events') \subseteq Numbers(events) \cup {b.id}
    BY <1>3, RecordFrame
  <2>2. Recorded' \subseteq Recorded \cup {b.id}
    BY <2>1 DEF Recorded, Numbers
  <2>3. Pending' \subseteq Pending \ {b.id} /\ b.id \in Pending
    BY <2>1 DEF Pending, Numbers, PlacesOK
  <2>4. IsFiniteSet(busy')
    BY <2>1, FS_RemoveElement DEF PlacesOK
  <2> QED BY <2>1, <2>2, <2>3, <2>4 DEF PlacesOK
<1>4. ASSUME UNCHANGED <<waiting, busy, reports>>, Recorded' \subseteq Recorded
      PROVE  PlacesOK'
  <2>1. Pending' = Pending
    BY <1>4 DEF Pending, Numbers
  <2> QED BY <1>4, <2>1 DEF PlacesOK
<1>5. ASSUME Serialize \/ emptyStats \/ PingEnds \/ Elsewhere
      PROVE  UNCHANGED <<waiting, busy, reports>> /\ Recorded' \subseteq Recorded
  <2>1. CASE Serialize
    BY <2>1, NumbersEmpty DEF Serialize, Recorded, stats, jobs, Numbers
  <2>2. CASE emptyStats
    <3>1. UNCHANGED <<waiting, busy, reports>> /\ events' = <<>>
      BY <2>2 DEF emptyStats, jobs
    <3>2. sent' \subseteq sent \cup Numbers(poller.batch)
      BY <2>2 DEF emptyStats, SendPing
    <3>3. poller'.batch = poller.batch \/ poller'.batch = <<>>
      BY <2>2 DEF emptyStats, SendPing, AtRest, TypeOK
    <3> QED BY <3>1, <3>2, <3>3, NumbersEmpty DEF Recorded, Numbers
  <2>3. CASE PingEnds
    BY <2>3, NumbersEmpty DEF PingEnds, AtRest, Recorded, stats, jobs, Numbers
  <2>4. CASE Elsewhere
    BY <2>4, ElsewhereFrame DEF Recorded, Numbers
  <2> QED BY <1>5, <2>1, <2>2, <2>3, <2>4
<1> QED BY <1>1, <1>2, <1>3, <1>4, <1>5 DEF Next, Elsewhere, TakeJob, OnConnection

-----------------------------------------------------------------------------
(* Counting *)

\* At the start there is nothing to count.
LEMMA InitCount == Init => EveryReportIsCountedOnce
  BY FS_EmptySet DEF Init, EveryReportIsCountedOnce

\* A step moves a report from one place to the next, and counts it as it leaves.
LEMMA CountStep ==
  ASSUME TypeOK, PlacesOK, EveryReportIsCountedOnce, [Next]_vars
  PROVE  EveryReportIsCountedOnce'
<1> DEFINE k == Cardinality(busy)
<1>1. k \in Nat /\ counts \in [Counters -> Nat] /\ waiting \in Seq(Ids) /\ reports \in Nat
  BY FS_CardinalityType, Bounds DEF PlacesOK, TypeOK, Counters
<1>2. /\ counts.connections \in Nat /\ counts.hits \in Nat /\ counts.misses \in Nat
      /\ counts.accepted \in Nat /\ counts.dropped \in Nat /\ counts.dns \in Nat
  BY <1>1 DEF Counters
<1>0. /\ reports = Len(waiting) + k + counts.connections /\ Len(waiting) \in Nat
      /\ counts.connections = counts.hits + counts.misses
  BY <1>1 DEF EveryReportIsCountedOnce
<1>10. counts.connections + counts.dns = counts.accepted + counts.dropped
  BY DEF EveryReportIsCountedOnce
<1>3. CASE OnConnectionEvent
  <2>1. Len(waiting') = Len(waiting) + 1 /\ reports' = reports + 1 /\ UNCHANGED <<busy, counts>>
    BY <1>1, <1>3 DEF OnConnectionEvent, stats
  <2> QED BY <1>0, <1>1, <1>2, <2>1 DEF EveryReportIsCountedOnce
<1>4. CASE OnDNSResponse
  <2>1. UNCHANGED <<waiting, busy, reports>>
    BY <1>4 DEF OnDNSResponse, jobs
  <2>2. /\ counts'.dns = counts.dns + 1 /\ counts'.accepted = counts.accepted + 1
        /\ counts'.dropped = counts.dropped /\ counts'.connections = counts.connections
        /\ counts'.hits = counts.hits /\ counts'.misses = counts.misses
    BY <1>1, <1>4 DEF OnDNSResponse, Counters
  <2>3. reports' = Len(waiting') + Cardinality(busy') + counts'.connections
    BY <1>0, <1>2, <2>1, <2>2
  <2>4. counts'.connections = counts'.hits + counts'.misses
    BY <1>0, <1>2, <2>2
  <2>5. counts'.connections + counts'.dns = counts'.accepted + counts'.dropped
    <3>1. counts.connections + (counts.dns + 1) = (counts.accepted + 1) + counts.dropped
      BY <1>2, <1>10
    <3> QED BY <2>2, <3>1
  <2> QED BY <2>3, <2>4, <2>5 DEF EveryReportIsCountedOnce
<1>5. ASSUME NEW g \in Contexts, Take(g) PROVE EveryReportIsCountedOnce'
  <2> DEFINE new == [gen |-> g, id |-> Head(waiting)]
  <2>1. waiting' = Tail(waiting) /\ busy' = busy \cup {new} /\ waiting # <<>>
        /\ UNCHANGED <<reports, counts>>
    BY <1>5 DEF Take, stats
  <2>2. Len(waiting') = Len(waiting) - 1 /\ 1 \in DOMAIN waiting /\ new.id = waiting[1]
    BY <1>1, <2>1, NumbersTail
  <2>3. new \notin busy
    BY <2>2 DEF PlacesOK
  <2>4. Cardinality(busy') = k + 1
    BY <2>1, <2>3, FS_AddElement DEF PlacesOK
  <2> HIDE DEF new
  <2> QED BY <1>0, <1>1, <1>2, <2>1, <2>2, <2>4 DEF EveryReportIsCountedOnce
<1>6. ASSUME NEW b \in busy, NEW r \in Reports, onConnection(b, r.host, r.path, r.rule)
      PROVE  EveryReportIsCountedOnce'
  <2>1. UNCHANGED <<waiting, reports>> /\ busy' = busy \ {b}
    BY <1>6 DEF onConnection
  <2>2. Cardinality(busy') = k - 1
    BY <2>1, FS_RemoveElement DEF PlacesOK
  <2>3. counts'.connections = counts.connections + 1 /\ counts'.dns = counts.dns
    BY <1>1, <1>6 DEF onConnection, Counters
  <2>4. \/ counts'.misses = counts.misses + 1 /\ counts'.hits = counts.hits
        \/ counts'.misses = counts.misses /\ counts'.hits = counts.hits + 1
    BY <1>1, <1>6 DEF onConnection, Counters
  <2>5. \/ counts'.accepted = counts.accepted + 1 /\ counts'.dropped = counts.dropped
        \/ counts'.accepted = counts.accepted /\ counts'.dropped = counts.dropped + 1
    BY <1>1, <1>6 DEF onConnection, Counters
  <2>6. reports' = Len(waiting') + Cardinality(busy') + counts'.connections
    BY <1>0, <1>1, <1>2, <2>1, <2>2, <2>3
  <2>7. counts'.connections = counts'.hits + counts'.misses
    BY <1>0, <1>2, <2>3, <2>4
  <2>8. counts'.connections + counts'.dns = counts'.accepted + counts'.dropped
    <3>1. /\ (counts.connections + 1) + counts.dns = (counts.accepted + 1) + counts.dropped
          /\ (counts.connections + 1) + counts.dns = counts.accepted + (counts.dropped + 1)
      BY <1>2, <1>10
    <3> QED BY <2>3, <2>5, <3>1
  <2> QED BY <2>6, <2>7, <2>8 DEF EveryReportIsCountedOnce
<1>7. ASSUME UNCHANGED <<waiting, busy, reports, counts>> PROVE EveryReportIsCountedOnce'
  BY <1>7 DEF EveryReportIsCountedOnce
<1>8. Serialize \/ emptyStats \/ PingEnds => UNCHANGED <<waiting, busy, reports, counts>>
  BY DEF Serialize, emptyStats, PingEnds, stats, jobs
<1>9. Elsewhere /\ ~OnDNSResponse => UNCHANGED <<waiting, busy, reports, counts>>
  BY ElsewhereFrame DEF Elsewhere, End, CallerStep, CancelWorkers, NewContext, StartWorker,
     SetLimitsEnds, stats, vars
<1> HIDE DEF k
<1> QED BY <1>3, <1>4, <1>5, <1>6, <1>7, <1>8, <1>9 DEF Next, Elsewhere, TakeJob, OnConnection

-----------------------------------------------------------------------------
(* The buffer of events, and the poller *)

\* What was sent stays apart from what is to be sent.
LEMMA SentStep ==
  ASSUME TypeOK, PlacesOK, SentOK, [Next]_vars
  PROVE  SentOK'
<1>1. ASSUME NEW b \in busy, NEW r \in Reports, onConnection(b, r.host, r.path, r.rule) PROVE SentOK'
  <2>1. UNCHANGED <<poller, sent>> /\ Numbers(events') \subseteq Numbers(events) \cup {b.id}
    BY <1>1, RecordFrame
  <2>2. b.id \notin sent
    BY DEF PlacesOK, Pending, Recorded
  <2> QED BY <2>1, <2>2 DEF SentOK, Numbers
<1>2. CASE Serialize
  <2>1. UNCHANGED <<sent, events>> /\ (poller'.batch = events \/ poller'.batch = <<>>)
    BY <1>2 DEF Serialize, stats
  <2> QED BY <2>1, NumbersEmpty DEF SentOK, Numbers
<1>3. CASE emptyStats
  <2>1. events' = <<>> /\ poller'.at # "empty"
    BY <1>3 DEF emptyStats, SendPing, AtRest, TypeOK
  <2> QED BY <2>1, NumbersEmpty DEF SentOK
<1>4. CASE PingEnds
  BY <1>4 DEF PingEnds, AtRest, SentOK, stats, Numbers
<1>5. CASE OnConnectionEvent \/ Elsewhere
  <2>1. UNCHANGED <<events, poller, sent>>
    BY <1>5, ElsewhereFrame DEF OnConnectionEvent, stats, message
  <2> QED BY <2>1 DEF SentOK, Numbers
<1>6. ASSUME NEW g \in Contexts, Take(g) PROVE SentOK'
  <2>1. UNCHANGED <<events, poller, sent>>
    BY <1>6 DEF Take, stats, message
  <2> QED BY <2>1 DEF SentOK, Numbers
<1> QED BY <1>1, <1>2, <1>3, <1>4, <1>5, <1>6 DEF Next, Elsewhere, TakeJob, OnConnection

\* The steps that leave the buffer, its limit and its flag alone.
BufferUnchanged == UNCHANGED <<events, newEvents, limits, overfull>>

LEMMA BufferFrame ==
  ASSUME [Next]_vars
  PROVE  \/ BufferUnchanged
         \/ OnConnection \/ emptyStats
         \/ \E p \in Callers : NewContext(p)
<1>1. CASE OnConnectionEvent \/ OnDNSResponse \/ Serialize \/ PingEnds
  BY <1>1 DEF OnConnectionEvent, OnDNSResponse, Serialize, PingEnds, stats, pool, BufferUnchanged
<1>2. CASE \E g \in Contexts : Take(g) \/ End(g)
  BY <1>2 DEF Take, End, stats, pool, BufferUnchanged
<1>3. ASSUME NEW p \in Callers, CallerStep(p) \/ \E c \in Configs : CancelWorkers(p, c)
      PROVE  BufferUnchanged \/ NewContext(p)
  BY <1>3 DEF CallerStep, StartWorker, SetLimitsEnds, CancelWorkers, stats, pool, BufferUnchanged
<1>4. CASE UNCHANGED vars
  BY <1>4 DEF vars, stats, pool, BufferUnchanged
<1> QED BY <1>1, <1>2, <1>3, <1>4 DEF Next, TakeJob

\* The buffer is as long as its limit at most, and the flag announces what is in it.
LEMMA BufferStep ==
  ASSUME TypeOK, BufferIsBounded, EventsAreAnnounced, [Next]_vars
  PROVE  BufferIsBounded' /\ EventsAreAnnounced'
<1>1. ASSUME NEW b \in busy, NEW r \in Reports, onConnection(b, r.host, r.path, r.rule)
      PROVE  BufferIsBounded' /\ EventsAreAnnounced'
  <2>1. /\ UNCHANGED <<limits, overfull>> /\ (newEvents' <=> newEvents \/ r.rule # "none")
        /\ events' = IF r.rule = "none" THEN Shifted ELSE Append(Shifted, b.id)
    BY <1>1 DEF onConnection, pool
  <2>2. /\ Shifted \in Seq(Ids) /\ limits.maxEvents \in Nat \ {0} /\ events \in Seq(Ids)
        /\ Len(events) <= limits.maxEvents => Len(Shifted) < limits.maxEvents
    BY ShiftedType DEF TypeOK, Limits
  <2>3. Len(Append(Shifted, b.id)) = Len(Shifted) + 1 /\ Len(Shifted) \in Nat
    BY <2>2
  <2>4. Len(events) <= limits.maxEvents => Len(events') <= limits.maxEvents
    BY <2>1, <2>2, <2>3
  <2>5. events = <<>> => Shifted = events
    BY <2>2 DEF Shifted
  <2>6. BufferIsBounded'
    BY <2>1, <2>4 DEF BufferIsBounded
  <2>7. EventsAreAnnounced'
    BY <2>1, <2>5 DEF EventsAreAnnounced
  <2> QED BY <2>6, <2>7
<1>2. CASE emptyStats
  <2>1. events' = <<>> /\ limits' = limits /\ limits.maxEvents \in Nat
    BY <1>2 DEF emptyStats, pool, TypeOK, Limits
  <2> QED BY <2>1 DEF BufferIsBounded, EventsAreAnnounced
<1>3. ASSUME NEW p \in Callers, NewContext(p) PROVE BufferIsBounded' /\ EventsAreAnnounced'
  <2>1. /\ UNCHANGED <<events, newEvents>> /\ limits' = NewLimits(caller[p].new)
        /\ (overfull' <=> Len(events) > NewLimits(caller[p].new).maxEvents)
    BY <1>3 DEF NewContext, stats
  <2>2. NewLimits(caller[p].new).maxEvents \in Nat /\ Len(events) \in Nat
    <3>1. caller[p].new \in StatsConfig /\ limits \in Limits /\ events \in Seq(Ids)
      BY DEF TypeOK
    <3>2. NewLimits(caller[p].new) \in Limits
      BY <3>1, NewLimitsType
    <3> QED BY <3>1, <3>2 DEF Limits
  <2>3. BufferIsBounded'
    BY <2>1, <2>2 DEF BufferIsBounded
  <2> QED BY <2>1, <2>3 DEF EventsAreAnnounced
<1>4. CASE BufferUnchanged
  BY <1>4 DEF BufferUnchanged, BufferIsBounded, EventsAreAnnounced
<1> QED BY <1>1, <1>2, <1>3, <1>4, BufferFrame DEF OnConnection

-----------------------------------------------------------------------------
(* The theorems *)

\* The inductive invariant.
IInv ==
    /\ TypeOK /\ GenOK
    /\ PlacesOK /\ SentOK
    /\ EveryReportIsCountedOnce
    /\ BufferIsBounded /\ EventsAreAnnounced

\* It holds at the start.
LEMMA InitInv == Init => IInv
<1> SUFFICES ASSUME Init PROVE IInv
  OBVIOUS
<1>1. TypeOK /\ GenOK /\ PlacesOK /\ SentOK /\ EveryReportIsCountedOnce
  BY InitType, InitPlaces, InitCount
<1>2. limits.maxEvents \in Nat
  BY <1>1 DEF TypeOK, Limits
<1>3. events = <<>>
  BY DEF Init
<1>4. BufferIsBounded /\ EventsAreAnnounced
  BY <1>2, <1>3 DEF BufferIsBounded, EventsAreAnnounced
<1> QED BY <1>1, <1>4 DEF IInv

\* It holds in every behaviour (stats.go, with the poller of ui/client.go).
LEMMA StatisticsInvariant == Spec => []IInv
<1>1. IInv /\ [Next]_vars => IInv'
  BY TypeStep, PlacesStep, SentStep, CountStep, BufferStep DEF IInv
<1> QED BY InitInv, <1>1, PTL DEF Spec

\* No report of a packet worker is lost or counted twice, for any number of packet workers,
\* reports, configurations and overlapping calls of SetLimits (stats.go:100-136).
THEOREM ReportsAreCountedOnce == Spec => []EveryReportIsCountedOnce
<1>1. IInv => EveryReportIsCountedOnce
  BY DEF IInv
<1> QED BY <1>1, StatisticsInvariant, PTL

\* The buffer keeps its limit, unless the limit was lowered below its length (stats.go:225).
THEOREM BufferKeepsItsLimit == Spec => []BufferIsBounded
<1>1. IInv => BufferIsBounded
  BY DEF IInv
<1> QED BY <1>1, StatisticsInvariant, PTL

\* No events are in the buffer without the flag that makes Serialize send them.
THEOREM FlagAnnouncesEvents == Spec => []EventsAreAnnounced
<1>1. IInv => EventsAreAnnounced
  BY DEF IInv
<1> QED BY <1>1, StatisticsInvariant, PTL

\* No event is sent twice, whatever is recorded while a ping is prepared or on its way.
THEOREM EventsGoOnce == Spec => []EventsAreSentOnce
<1>1. IInv => EventsAreSentOnce
  BY DEF IInv, SentOK, EventsAreSentOnce
<1> QED BY <1>1, StatisticsInvariant, PTL

\* A map that is counted in has one more entry only below its limit, or when the empty path
\* may be the one that should make room.
LEMMA incMapSize ==
  ASSUME limits \in Limits, NEW S, IsFiniteSet(S), NEW m \in [S -> Nat], NEW k \in S,
         NEW n \in incMap(m, k), Entries(n) > Entries(m)
  PROVE  Entries(n) <= limits.maxStats \/ NoPath \in Fewest(m)
<1>1. IsFiniteSet(Listed(m)) /\ limits.maxStats \in Nat /\ Listed(m) \subseteq S /\ m[k] \in Nat
  BY FS_Subset DEF Listed, Limits
<1>2. Entries(m) \in Nat
  BY <1>1, FS_CardinalityType DEF Entries
<1>3. CASE m[k] > 0 /\ n = [m EXCEPT ![k] = m[k] + 1]
  <2>1. Listed(n) = Listed(m)
    BY <1>1, <1>3 DEF Listed
  <2> QED BY <1>2, <2>1 DEF Entries
<1>4. CASE m[k] = 0 /\ HasRoom(m) /\ n = [m EXCEPT ![k] = m[k] + 1]
  <2>1. Listed(n) = Listed(m) \cup {k} /\ k \notin Listed(m)
    BY <1>1, <1>4 DEF Listed
  <2>2. Entries(n) = Entries(m) + 1
    BY <1>1, <2>1, FS_AddElement DEF Entries
  <2> QED BY <1>1, <1>2, <1>4, <2>2 DEF HasRoom
<1>5. ASSUME NEW j \in Fewest(m), m[k] = 0,
             n = [[m EXCEPT ![k] = 1] EXCEPT ![j] = IF j = NoPath THEN @ ELSE 0]
      PROVE  NoPath \in Fewest(m)
  <2> SUFFICES ASSUME j # NoPath PROVE Entries(n) = Entries(m)
    BY <1>2, <1>5
  <2>1. j \in Listed(m) /\ j # k
    BY <1>5 DEF Fewest, Listed
  <2>2. n = [[m EXCEPT ![k] = 1] EXCEPT ![j] = 0]
    BY <1>5
  <2>3. Listed(n) = (Listed(m) \ {j}) \cup {k} /\ k \notin Listed(m)
    BY <1>1, <1>5, <2>1, <2>2 DEF Listed
  <2>4. IsFiniteSet(Listed(m) \ {j}) /\ Cardinality(Listed(m) \ {j}) = Entries(m) - 1
    BY <1>1, <2>1, FS_RemoveElement DEF Entries
  <2>5. Cardinality((Listed(m) \ {j}) \cup {k}) = Entries(m) - 1 + 1
    BY <2>3, <2>4, FS_AddElement
  <2> QED BY <1>2, <2>3, <2>5 DEF Entries
<1>6. m[k] > 0 \/ m[k] = 0
  BY <1>1
<1> QED BY <1>3, <1>4, <1>5, <1>6 DEF incMap

\* How much the maps may grow in a step.
MapsStep ==
    /\ Entries(byHost') > Entries(byHost) => Entries(byHost') <= limits.maxStats
    /\ Entries(byExecutable') > Entries(byExecutable) =>
         Entries(byExecutable') <= limits.maxStats \/ NoPath \in Fewest(byExecutable)

\* A map of counters never grows beyond its limit, for any hosts and executables; ByExecutable
\* may, but only while the empty path has the fewest hits in it (stats.go:154-178).
THEOREM MapsKeepTheirLimit == Spec => MapsAreBounded
<1>1. TypeOK /\ [Next]_vars => [MapsStep]_vars
  <2> SUFFICES ASSUME TypeOK, [Next]_vars PROVE MapsStep
    OBVIOUS
  <2>1. IsFiniteSet(Hosts) /\ IsFiniteSet(Executables)
    BY ReportAssumption, FS_Union, FS_Singleton DEF Executables
  <2>2. Entries(byHost) \in Nat /\ Entries(byExecutable) \in Nat
    BY <2>1, FS_Subset, FS_CardinalityType DEF Entries, Listed, TypeOK
  <2>3. UNCHANGED byHost => Entries(byHost') = Entries(byHost)
    OBVIOUS
  <2>4. CASE UNCHANGED <<byHost, byExecutable>>
    BY <2>2, <2>4 DEF MapsStep
  <2>5. ASSUME NEW b \in busy, NEW r \in Reports, onConnection(b, r.host, r.path, r.rule)
        PROVE  MapsStep
    <3>1. r.host \in Hosts \cup {NoHost} /\ r.path \in Executables
      BY ReportAssumption DEF Report
    <3>2. Entries(byExecutable') > Entries(byExecutable) =>
            Entries(byExecutable') <= limits.maxStats \/ NoPath \in Fewest(byExecutable)
      <4>1. byExecutable' \in incMap(byExecutable, r.path)
        BY <2>5 DEF onConnection
      <4> QED BY <2>1, <3>1, <4>1, incMapSize DEF TypeOK
    <3>3. CASE r.host = NoHost
      <4>1. UNCHANGED byHost
        BY <2>5, <3>3 DEF onConnection
      <4> QED BY <2>2, <2>3, <3>2, <4>1 DEF MapsStep
    <3>4. CASE r.host # NoHost
      <4>1. byHost' \in incMap(byHost, r.host) /\ r.host \in Hosts
        BY <2>5, <3>1, <3>4 DEF onConnection
      <4>2. NoPath \notin Fewest(byHost)
        BY ReportAssumption DEF Fewest, Listed, TypeOK
      <4>3. Entries(byHost') > Entries(byHost) => Entries(byHost') <= limits.maxStats
        BY <2>1, <4>1, <4>2, incMapSize DEF TypeOK
      <4> QED BY <3>2, <4>3 DEF MapsStep
    <3> QED BY <3>3, <3>4
  <2>6. OnConnectionEvent \/ (\E g \in Contexts : Take(g)) \/ Elsewhere \/ Serialize
          \/ emptyStats \/ PingEnds => UNCHANGED <<byHost, byExecutable>>
    BY ElsewhereFrame DEF OnConnectionEvent, Take, Serialize, emptyStats, PingEnds, stats
  <2> QED BY <2>4, <2>5, <2>6 DEF Next, Elsewhere, TakeJob, OnConnection
<1> QED BY <1>1, StatisticsTypes, PTL DEF Spec, MapsAreBounded, MapsStep

-----------------------------------------------------------------------------
(* There is a worker to take a report *)

\* A context is cancelled only if there is one, and the current one only by a call that has
\* not made its own yet.
CancelOK ==
    /\ \A g \in cancelled : g <= gen
    /\ gen \in cancelled /\ gen > 0 => \E p \in Callers : caller[p].at = "context"

\* A call that has made its context, or any call before, set a number of workers.
StartedOK == gen > 0 => limits.workers # 0

\* A call that is to make a context has started no worker yet.
CallOK == \A p \in Callers : caller[p].at = "context" => caller[p].i = 0

StayInv == CancelOK /\ StartedOK /\ CallOK /\ WorkersStay

LEMMA InitStay == Init => StayInv
<1> SUFFICES ASSUME Init PROVE CancelOK /\ StartedOK /\ CallOK /\ WorkersStay
  BY DEF StayInv
<1>0. CallOK
  BY DEF Init, CallOK, NotCalling
<1>1. CASE config = NoConfig
  <2>1. gen = 0 /\ cancelled = {}
    BY <1>1 DEF Init
  <2> QED BY <1>0, <2>1 DEF CancelOK, StartedOK, WorkersStay
<1>2. CASE config # NoConfig
  <2>1. gen = 1 /\ cancelled = {0}
    BY <1>2 DEF Init
  <2>2. config.workers \in Int
    BY LimitsAssumption DEF Init, StatsConfig
  <2>3. limits.workers # 0 /\ limits.workers \in Int
    BY <1>2, <2>2, LimitsAssumption DEF Init, Limits
  <2>4. limits.workers > 0 => idle[1] = limits.workers
    BY <1>2, Bounds DEF Init, Contexts
  <2>5. gen \notin cancelled /\ (limits.workers < 0 \/ HasWorker(gen))
    BY <2>1, <2>3, <2>4 DEF HasWorker
  <2>6. CancelOK
    BY <2>1, <2>5 DEF CancelOK
  <2>7. StartedOK /\ WorkersStay
    BY <2>3, <2>5 DEF StartedOK, WorkersStay
  <2> QED BY <1>0, <2>6, <2>7
<1> QED BY <1>0, <1>1, <1>2

\* A worker takes a report, counts it, or ends: the current context keeps one unless it is
\* cancelled.
LEMMA JobsStay ==
  ASSUME TypeOK, CancelOK, WorkersStay, TakeJob \/ OnConnection \/ \E g \in Contexts : End(g)
  PROVE  WorkersStay'
<1>1. UNCHANGED <<gen, cancelled, caller, limits>>
  BY DEF TakeJob, Take, OnConnection, onConnection, End, pool
<1>2. gen \in Contexts /\ gen \in Nat /\ idle \in [Contexts -> Nat]
  BY DEF TypeOK, Contexts
<1>3. ASSUME NEW g \in Contexts, Take(g), HasWorker(gen) PROVE HasWorker(gen)'
  <2>1. /\ idle' = [idle EXCEPT ![g] = idle[g] - 1]
        /\ busy' = busy \cup {[gen |-> g, id |-> Head(waiting)]}
    BY <1>3 DEF Take
  <2>2. CASE g = gen
    <3>1. [gen |-> g, id |-> Head(waiting)].gen = gen
      BY <2>2
    <3> QED BY <1>1, <2>1, <3>1 DEF HasWorker
  <2>3. CASE g # gen
    BY <1>1, <1>2, <1>3, <2>1, <2>3 DEF HasWorker
  <2> QED BY <2>2, <2>3
<1>4. ASSUME NEW b \in busy, NEW r \in Reports, onConnection(b, r.host, r.path, r.rule), HasWorker(gen)
      PROVE  HasWorker(gen)'
  <2>1. b.gen \in Contexts /\ idle' = [idle EXCEPT ![b.gen] = idle[b.gen] + 1] /\ busy' = busy \ {b}
    BY <1>4 DEF onConnection, TypeOK
  <2>2. CASE b.gen = gen
    BY <1>1, <1>2, <2>1, <2>2 DEF HasWorker
  <2>3. CASE b.gen # gen
    BY <1>1, <1>2, <1>4, <2>1, <2>3 DEF HasWorker
  <2> QED BY <2>2, <2>3
<1>5. ASSUME NEW g \in Contexts, End(g), gen \notin cancelled, HasWorker(gen) PROVE HasWorker(gen)'
  <2>1. g # gen /\ UNCHANGED busy /\ idle' = [idle EXCEPT ![g] = idle[g] - 1]
    BY <1>5 DEF End
  <2> QED BY <1>1, <1>2, <1>5, <2>1 DEF HasWorker
<1>6. gen \notin cancelled /\ HasWorker(gen) => HasWorker(gen)'
  BY <1>3, <1>4, <1>5 DEF TakeJob, OnConnection
<1> QED BY <1>1, <1>6 DEF WorkersStay

\* Whoever cancels a context makes another, and starts its first worker.
LEMMA CallsStay ==
  ASSUME TypeOK, CancelOK, StartedOK, CallOK, WorkersStay, NEW p \in Callers,
         CallerStep(p) \/ \E c \in Configs : CancelWorkers(p, c)
  PROVE  StayInv'
<1> USE DEF StayInv
<1>0. gen \in Contexts /\ gen \in Nat /\ idle \in [Contexts -> Nat] /\ caller[p].i \in Nat
  BY DEF TypeOK, Contexts
<1>1. ASSUME NEW c \in Configs, CancelWorkers(p, c)
      PROVE  StayInv'
  <2>1. caller'[p].at = "context"
    BY <1>1 DEF CancelWorkers, TypeOK, NotCalling
  <2>2. cancelled' = cancelled \cup {gen} /\ UNCHANGED <<gen, limits>>
    BY <1>1 DEF CancelWorkers
  <2>3. CallOK'
    BY <1>1 DEF CancelWorkers, CallOK, NotCalling, TypeOK
  <2> QED BY <1>0, <2>1, <2>2, <2>3 DEF CancelOK, StartedOK, WorkersStay
<1>2. ASSUME NewContext(p)
      PROVE  StayInv'
  <2>1. gen' = gen + 1 /\ cancelled' = cancelled /\ limits' = NewLimits(caller[p].new)
    BY <1>2 DEF NewContext
  <2>2. limits'.workers # 0
    <3>1. caller[p].new.workers \in Int
      BY DEF TypeOK, StatsConfig
    <3> QED BY <2>1, <3>1, LimitsAssumption DEF NewLimits
  <2>3. caller'[p].at = "spawn" /\ caller'[p].i = caller[p].i
    BY <1>2 DEF NewContext, TypeOK
  <2>4. gen' \notin cancelled' /\ \A g \in cancelled' : g <= gen'
    BY <1>0, <2>1 DEF CancelOK, TypeOK, Contexts
  <2>5. caller[p].i = 0
    BY <1>2 DEF NewContext, CallOK
  <2>6. CallOK'
    BY <1>2 DEF NewContext, CallOK, TypeOK
  <2> QED BY <2>2, <2>3, <2>4, <2>5, <2>6 DEF CancelOK, StartedOK, WorkersStay
<1>3. ASSUME StartWorker(p)
      PROVE  StayInv'
  <2>1. UNCHANGED <<gen, cancelled, limits>>
    BY <1>3 DEF StartWorker
  <2>2. \A q \in Callers : caller'[q].at = caller[q].at
    BY <1>3 DEF StartWorker, TypeOK
  <2>3. HasWorker(gen)'
    BY <1>0, <1>3, <2>1 DEF StartWorker, HasWorker
  <2>4. caller \in [Callers -> Caller] /\ caller[p].at = "spawn"
    BY <1>3 DEF StartWorker, TypeOK, Caller
  <2>5. \A q \in Callers : q # p => caller'[q] = caller[q]
    BY <1>3, <2>4 DEF StartWorker
  <2>6. CallOK'
    BY <2>2, <2>4, <2>5 DEF CallOK
  <2> QED BY <2>1, <2>2, <2>3, <2>6 DEF CancelOK, StartedOK, WorkersStay
<1>4. ASSUME SetLimitsEnds(p)
      PROVE  StayInv'
  <2>1. UNCHANGED <<gen, cancelled, limits, idle, busy>> /\ caller[p].at = "spawn"
    BY <1>4 DEF SetLimitsEnds, jobs
  <2>2. \A q \in Callers : q # p => caller'[q] = caller[q]
    BY <1>4 DEF SetLimitsEnds, TypeOK
  <2>3. ~(caller[p].i = 0 /\ limits.workers > 0)
    <3>1. limits.workers \in Int
      BY DEF TypeOK, Limits
    <3> QED BY <1>0, <1>4, <3>1 DEF SetLimitsEnds
  <2>4. HasWorker(gen)' <=> HasWorker(gen)
    BY <2>1 DEF HasWorker
  <2>5. ASSUME NEW q \in Callers, caller[q].at = "context" PROVE caller'[q].at = "context"
    BY <2>1, <2>2, <2>5
  <2>6. CancelOK' /\ StartedOK'
    BY <2>1, <2>5 DEF CancelOK, StartedOK
  <2>7. WorkersStay'
    <3>1. limits.workers \in Int /\ (gen > 0 => limits.workers # 0)
      BY DEF TypeOK, Limits, StartedOK
    <3> QED BY <2>1, <2>2, <2>3, <2>4, <2>5, <3>1 DEF WorkersStay
  <2>8. CallOK'
    BY <1>4 DEF SetLimitsEnds, CallOK, NotCalling, TypeOK
  <2> QED BY <2>6, <2>7, <2>8
<1> QED BY <1>1, <1>2, <1>3, <1>4 DEF CallerStep

\* A step of any goroutine keeps a worker.
LEMMA StayStep ==
  ASSUME TypeOK, StayInv, [Next]_vars
  PROVE  StayInv'
<1> USE DEF StayInv
<1>1. CASE \E p \in Callers : CallerStep(p) \/ \E c \in Configs : CancelWorkers(p, c)
  BY <1>1, CallsStay
<1>2. CASE TakeJob \/ OnConnection \/ \E g \in Contexts : End(g)
  <2>1. UNCHANGED <<gen, cancelled, caller, limits>>
    BY <1>2 DEF TakeJob, Take, OnConnection, onConnection, End, pool
  <2> QED BY <1>2, <2>1, JobsStay DEF CallOK, CancelOK, StartedOK
<1>3. CASE \/ OnConnectionEvent \/ OnDNSResponse \/ Serialize \/ emptyStats \/ PingEnds
           \/ UNCHANGED vars
  <2>1. UNCHANGED <<gen, cancelled, caller, limits, idle, busy>>
    BY <1>3 DEF OnConnectionEvent, OnDNSResponse, Serialize, emptyStats, PingEnds, vars, pool, jobs
  <2> QED BY <2>1 DEF CallOK, CancelOK, StartedOK, WorkersStay, HasWorker
<1> QED BY <1>1, <1>2, <1>3 DEF Next

\* A report is not left alone: once SetLimits has been called, and however two calls overlap,
\* there is a worker that lasts until the next call, or a call that is about to start one,
\* unless the number of workers in force is negative (stats.go:100-118).
THEOREM ReportsFindAWorker == Spec => []WorkersStay
<1>1. StayInv => WorkersStay
  BY DEF StayInv
<1>2. TypeOK /\ StayInv /\ [Next]_vars => StayInv'
  BY StayStep
<1> QED BY <1>1, <1>2, InitStay, StatisticsTypes, PTL DEF Spec
=============================================================================
