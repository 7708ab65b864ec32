----------------------------- MODULE Statistics -----------------------------
(***************************************************************************)
(* The statistics of the daemon (daemon/statistics/stats.go), and how the  *)
(* poller of the UI client sends them (ui/client.go ping).                 *)
(*                                                                         *)
(* A packet worker reports its connection on an unbuffered channel and is  *)
(* blocked until a statistics worker takes the report.  Statistics workers *)
(* are started by SetLimits only, which may run in two goroutines at once: *)
(* the one that handles the notifications of the GUI and the one that      *)
(* watches the configuration file.  Each call ends the workers of the      *)
(* context that is current then and starts others with a new one.          *)
(*                                                                         *)
(* The poller takes a snapshot under the lock, empties the buffer of       *)
(* events under the lock again, and sends the snapshot under a read lock,  *)
(* for a second at most.                                                   *)
(*                                                                         *)
(* ByExecutable may have the empty string as a key, the path of a process  *)
(* that was not found, and incMap never evicts that key.  ByHost stands    *)
(* for the other maps, which never have it.  A count of 0 is a missing     *)
(* key.  Reports are numbered.  What is reported is chosen when it is      *)
(* counted, for nothing depends on it before: a host, a path, and the      *)
(* action of the rule that matched, or "none" when the rule was missed.    *)
(***************************************************************************)
EXTENDS Integers, Sequences, FiniteSets

CONSTANTS
    Hosts,          \* hosts that connections go to
    NoHost,         \* a connection whose host is not known
    Paths,          \* executables that make connections
    NoPath,         \* the empty path of a process that was not found
    Reports,        \* what may be reported: a host, a path and the action of a rule
    PacketWorkers,  \* how many packet workers there are
    Defaults,       \* the limits of New, and the number of workers if none is configured
    InitConfigs,    \* the configurations the daemon may start with; 0 is a missing option
    Configs,        \* the configurations that may be loaded later
    MaxReports,     \* bound: connections reported
    MaxDNS,         \* bound: DNS responses
    MaxCalls        \* bound: calls of SetLimits

Executables == Paths \cup {NoPath}

\* The options are signed integers, also the number of workers, which SetLimits takes as it is.
Limits == [maxEvents : Nat \ {0}, maxStats : Nat \ {0}, workers : Int]

StatsConfig == [maxEvents : Int, maxStats : Int, workers : Int]

Report == [host : Hosts \cup {NoHost}, path : Executables, rule : {"allow", "deny", "none"}]

ASSUME LimitsAssumption == Defaults \in Limits /\ Defaults.workers > 0 /\ Configs \cup InitConfigs \subseteq StatsConfig

ASSUME ReportAssumption ==
    /\ Reports \subseteq Report /\ IsFiniteSet(Hosts) /\ IsFiniteSet(Paths)
    /\ NoHost \notin Hosts /\ NoPath \notin Hosts \cup Paths

ASSUME BoundAssumption == {PacketWorkers, MaxReports, MaxDNS, MaxCalls} \subseteq Nat

\* A configuration without the section "Stats".
NoConfig == [maxEvents |-> 0, maxStats |-> 0, workers |-> 0]

\* The goroutines that may call SetLimits: notifications, and the configuration file.
Callers == {"ntf", "disk"}

Ids == 1..MaxReports

VARIABLES
    counts,     \* the counters, and how many DNS responses there were
    byHost,     \* ByHost
    byExecutable, \* ByExecutable
    events,     \* Events: the numbers of the reports
    newEvents,  \* whether there are events to send
    limits,     \* maxEvents, maxStats, maxWorkers
    gen,        \* the context in s.ctx, which s.cancel cancels: the number of the call
    cancelled,  \* the contexts that are cancelled
    idle,       \* per context: its workers that wait for a job
    busy,       \* the reports that workers have taken, with the context of the worker
    waiting,    \* the reports of packet workers that are blocked, in the order they came
    caller,     \* per goroutine that may call SetLimits: where it is
    config,     \* Client.config.Stats
    poller,     \* where the poller is, and the events it sends
    reports,    \* connections reported so far
    calls,      \* calls of SetLimits so far
    sent,       \* events that were sent (history)
    overfull    \* maxEvents was set below the number of events in the buffer (history)

stats == <<counts, byHost, byExecutable, events, newEvents>>
pool == <<limits, gen, cancelled, caller, config, calls>>
jobs == <<idle, busy, waiting, reports>>
message == <<poller, sent>>
vars == <<stats, pool, jobs, message, overfull>>

-----------------------------------------------------------------------------
(* Reports *)

\* The lock is held for reading as long as a ping is on its way.
Unlocked == poller.at # "rpc"

\* OnConnectionEvent: the packet worker is blocked from here on.
OnConnectionEvent ==
    /\ Len(waiting) < PacketWorkers /\ reports < MaxReports
    /\ reports' = reports + 1
    /\ waiting' = Append(waiting, reports + 1)
    /\ UNCHANGED <<stats, pool, idle, busy, message, overfull>>

OnDNSResponse ==
    /\ Unlocked /\ counts.dns < MaxDNS
    /\ counts' = [counts EXCEPT !.dns = @ + 1, !.accepted = @ + 1]
    /\ UNCHANGED <<byHost, byExecutable, events, newEvents, pool, jobs, message, overfull>>

\* Mutant: a worker looks at its context after it has taken a job, and drops the job.
TakeOrQuit(g) ==
    /\ waiting # <<>> /\ idle[g] > 0
    /\ waiting' = Tail(waiting)
    /\ idle' = [idle EXCEPT ![g] = @ - 1]
    /\ busy' = IF g \in cancelled THEN busy ELSE busy \cup {[gen |-> g, id |-> Head(waiting)]}
    /\ UNCHANGED <<stats, pool, reports, message, overfull>>

\* eventWorker takes a job.  When it has also been told to end, select picks either.
Take(g) ==
    /\ waiting # <<>> /\ idle[g] > 0
    /\ waiting' = Tail(waiting)
    /\ idle' = [idle EXCEPT ![g] = @ - 1]
    /\ busy' = busy \cup {[gen |-> g, id |-> Head(waiting)]}
    /\ UNCHANGED <<stats, pool, reports, message, overfull>>

\* Mutant: the end of a context is counted for workers that are busy, too.
EndBusy(g) ==
    /\ g \in cancelled /\ idle[g] \in Nat
    /\ idle' = [idle EXCEPT ![g] = @ - 1]
    /\ UNCHANGED <<stats, pool, busy, waiting, reports, message, overfull>>

\* eventWorker ends.
End(g) ==
    /\ g \in cancelled /\ idle[g] > 0
    /\ idle' = [idle EXCEPT ![g] = @ - 1]
    /\ UNCHANGED <<stats, pool, busy, waiting, reports, message, overfull>>

\* The keys of a map.
Listed(m) == {k \in DOMAIN m : m[k] > 0}

Entries(m) == Cardinality(Listed(m))

\* Mutant: the map may have one entry more than the limit.
HasRoomForOneMore(m) == Entries(m) <= limits.maxStats

HasRoom(m) == Entries(m) < limits.maxStats

\* The keys with the fewest hits, of which the order of the map picks one.
Fewest(m) == {k \in Listed(m) : \A j \in Listed(m) : m[k] <= m[j]}

\* The maps that incMap may leave: when there is no room, a new key takes the place of one
\* with the fewest hits, unless that is the empty string, which means that none was found.
incMap(m, key) ==
    IF m[key] > 0 \/ HasRoom(m)
    THEN {[m EXCEPT ![key] = @ + 1]}
    ELSE {[[m EXCEPT ![key] = 1] EXCEPT ![k] = IF k = NoPath THEN @ ELSE 0] : k \in Fewest(m)}

\* Mutant: the buffer is shifted when it has more events than the limit.
ShiftedLate == IF Len(events) > limits.maxEvents THEN Tail(events) ELSE events

\* The buffer is shifted when it is as long as the limit, also for a missed connection.
Shifted == IF Len(events) = limits.maxEvents THEN Tail(events) ELSE events

\* onConnection, one critical section
onConnection(b, host, path, rule) ==
    /\ Unlocked
    /\ counts' = [counts EXCEPT
         !.connections = @ + 1,
         !.misses   = IF rule = "none" THEN @ + 1 ELSE @,
         !.hits     = IF rule = "none" THEN @ ELSE @ + 1,
         !.accepted = IF rule = "allow" THEN @ + 1 ELSE @,
         !.dropped  = IF rule = "allow" THEN @ ELSE @ + 1]
    /\ IF host = NoHost THEN UNCHANGED byHost ELSE byHost' \in incMap(byHost, host)
    /\ byExecutable' \in incMap(byExecutable, path)
    /\ events' = IF rule = "none" THEN Shifted ELSE Append(Shifted, b.id)
    /\ newEvents' = (newEvents \/ rule # "none")
    /\ busy' = busy \ {b}
    /\ idle' = [idle EXCEPT ![b.gen] = @ + 1]
    /\ UNCHANGED <<pool, waiting, reports, message, overfull>>

-----------------------------------------------------------------------------
(* SetLimits *)

NotCalling == [at |-> "idle", new |-> NoConfig, i |-> 0]

\* reloadConfiguration calls it when the section differs; it ends the current workers.
CancelWorkers(p, c) ==
    /\ caller[p] = NotCalling /\ c # config /\ calls < MaxCalls
    /\ calls' = calls + 1
    /\ cancelled' = cancelled \cup {gen}
    /\ caller' = [caller EXCEPT ![p] = [NotCalling EXCEPT !.at = "context", !.new = c]]
    /\ UNCHANGED <<stats, limits, gen, config, jobs, message, overfull>>

\* What is not configured stays as it is, but the number of workers: 0 is replaced, and a
\* negative number, with which no worker will be started, is not.
NewLimits(c) ==
    [maxEvents |-> IF c.maxEvents > 0 THEN c.maxEvents ELSE limits.maxEvents,
     maxStats  |-> IF c.maxStats > 0 THEN c.maxStats ELSE limits.maxStats,
     workers   |-> IF c.workers # 0 THEN c.workers ELSE Defaults.workers]

\* A context that no call has made yet: they are numbered in the order they are made.
Contexts == 0..(MaxCalls + 1)

\* Mutant: cancel is called after the new context is in place.
NewContextCancelled(p) ==
    LET new == caller[p].new IN
    /\ caller[p].at = "context"
    /\ gen' = gen + 1
    /\ cancelled' = cancelled \cup {gen + 1}
    /\ limits' = NewLimits(new)
    /\ caller' = [caller EXCEPT ![p] = [caller[p] EXCEPT !.at = "spawn"]]
    /\ overfull' = (Len(events) > NewLimits(new).maxEvents)
    /\ UNCHANGED <<stats, config, calls, jobs, message>>

NewContext(p) ==
    LET new == caller[p].new IN
    /\ caller[p].at = "context"
    /\ gen' = gen + 1
    /\ limits' = NewLimits(new)
    /\ caller' = [caller EXCEPT ![p] = [caller[p] EXCEPT !.at = "spawn"]]
    /\ overfull' = (Len(events) > NewLimits(new).maxEvents)
    /\ UNCHANGED <<stats, cancelled, config, calls, jobs, message>>

\* A turn of the loop that starts the workers: it reads maxWorkers and the context anew.
StartWorker(p) ==
    /\ caller[p].at = "spawn" /\ caller[p].i < limits.workers
    /\ idle' = [idle EXCEPT ![gen] = @ + 1]
    /\ caller' = [caller EXCEPT ![p] = [caller[p] EXCEPT !.i = @ + 1]]
    /\ UNCHANGED <<stats, limits, gen, cancelled, config, calls, busy, waiting, reports,
                   message, overfull>>

\* The configuration that was read from disk is the one in force; the one that came with
\* a notification will be, once it has been saved and read again.
SetLimitsEnds(p) ==
    /\ caller[p].at = "spawn" /\ caller[p].i >= limits.workers
    /\ caller' = [caller EXCEPT ![p] = NotCalling]
    /\ config' = IF p = "disk" THEN caller[p].new ELSE config
    /\ UNCHANGED <<stats, limits, gen, cancelled, calls, jobs, message, overfull>>

-----------------------------------------------------------------------------
(* The poller *)

AtRest == [at |-> "rest", some |-> FALSE, batch |-> <<>>]

\* Serialize, under the lock: nil when there is nothing new.
Serialize ==
    /\ poller = AtRest
    /\ poller' = [at |-> "empty", some |-> newEvents, batch |-> IF newEvents THEN events ELSE <<>>]
    /\ UNCHANGED <<stats, pool, jobs, sent, overfull>>

Numbers(batch) == {batch[i] : i \in DOMAIN batch}

\* ping: with nothing to send the poller is done; else it takes the read lock and sends.
SendPing ==
    IF poller.some
    THEN poller' = [poller EXCEPT !.at = "rpc"] /\ sent' = sent \cup Numbers(poller.batch)
    ELSE poller' = AtRest /\ UNCHANGED sent

\* Mutant: the events are kept for the next ping.
EmptyFlagOnly ==
    /\ poller.at = "empty"
    /\ newEvents' = FALSE
    /\ SendPing
    /\ UNCHANGED <<counts, byHost, byExecutable, events, pool, jobs, overfull>>

\* emptyStats runs when Serialize has released the lock, also when it returns nil.  Up to
\* the read lock, the poller does nothing then that another goroutine sees.
emptyStats ==
    /\ poller.at = "empty"
    /\ events' = <<>> /\ newEvents' = FALSE /\ overfull' = FALSE
    /\ SendPing
    /\ UNCHANGED <<counts, byHost, byExecutable, pool, jobs>>

\* The answer, an error or a second: whatever it is, the message is not sent again.
PingEnds ==
    /\ poller.at = "rpc"
    /\ poller' = AtRest
    /\ UNCHANGED <<stats, pool, jobs, sent, overfull>>

-----------------------------------------------------------------------------

\* The daemon when it starts to take packets: NewClient has loaded the configuration, and
\* has called SetLimits unless the section is missing.
Init ==
    /\ counts = [connections |-> 0, hits |-> 0, misses |-> 0,
                 accepted |-> 0, dropped |-> 0, dns |-> 0]
    /\ byHost = [h \in Hosts |-> 0] /\ byExecutable = [x \in Executables |-> 0]
    /\ events = <<>> /\ newEvents = FALSE
    /\ config \in InitConfigs
    /\ LET started == config # NoConfig IN
         /\ limits = [maxEvents |-> IF config.maxEvents > 0 THEN config.maxEvents ELSE Defaults.maxEvents,
                      maxStats  |-> IF config.maxStats > 0 THEN config.maxStats ELSE Defaults.maxStats,
                      workers   |-> IF ~started THEN 0
                                    ELSE IF config.workers # 0 THEN config.workers
                                    ELSE Defaults.workers]
         /\ gen = IF started THEN 1 ELSE 0
         /\ cancelled = IF started THEN {0} ELSE {}
         /\ idle = [g \in Contexts |-> IF started /\ g = 1 /\ limits.workers > 0
                                      THEN limits.workers ELSE 0]
    /\ busy = {} /\ waiting = <<>> /\ reports = 0
    /\ caller = [p \in Callers |-> NotCalling] /\ calls = 0
    /\ poller = AtRest /\ sent = {}
    /\ overfull = FALSE

CallerStep(p) == NewContext(p) \/ StartWorker(p) \/ SetLimitsEnds(p)

TakeJob == \E g \in Contexts : Take(g)

OnConnection == \E b \in busy, r \in Reports : onConnection(b, r.host, r.path, r.rule)

Next ==
    \/ OnConnectionEvent \/ OnDNSResponse
    \/ TakeJob \/ OnConnection
    \/ \E g \in Contexts : End(g)
    \/ \E p \in Callers : CallerStep(p) \/ \E c \in Configs : CancelWorkers(p, c)
    \/ Serialize \/ emptyStats \/ PingEnds

Spec == Init /\ [][Next]_vars

\* Goroutines are scheduled, the channel serves those who wait in their order, the lock is
\* handed on, and a ping ends within a second.  Nothing makes the poller begin one, and that
\* a worker that was told to end does so need not be assumed.
Fairness ==
    /\ WF_vars(TakeJob) /\ WF_vars(OnConnection) /\ WF_vars(PingEnds)
    /\ \A p \in Callers : WF_vars(CallerStep(p))

FairSpec == Spec /\ Fairness

-----------------------------------------------------------------------------
(* Properties *)

\* Every variable has its type.
TypeOK ==
    /\ counts \in [{"connections", "hits", "misses", "accepted", "dropped", "dns"} -> Nat]
    /\ byHost \in [Hosts -> Nat] /\ byExecutable \in [Executables -> Nat]
    /\ events \in Seq(Ids) /\ newEvents \in BOOLEAN
    /\ limits \in Limits
    /\ gen \in Contexts /\ cancelled \subseteq Contexts
    /\ idle \in [Contexts -> Nat]
    /\ busy \subseteq [gen : Contexts, id : Ids]
    /\ waiting \in Seq(Ids) /\ reports \in 0..MaxReports
    /\ caller \in [Callers -> [at : {"idle", "context", "spawn"}, new : StatsConfig, i : Nat]]
    /\ config \in StatsConfig /\ calls \in 0..MaxCalls
    /\ poller \in [at : {"rest", "empty", "rpc"}, some : BOOLEAN, batch : Seq(Ids)]
    /\ sent \subseteq Ids /\ overfull \in BOOLEAN

\* No report is lost or counted twice, whatever workers end and start meanwhile: each one
\* is waiting, in the hands of a worker, or counted, and as often as it is counted it is
\* counted as a hit or a miss, and as accepted or dropped.
EveryReportIsCountedOnce ==
    /\ reports = Len(waiting) + Cardinality(busy) + counts.connections
    /\ counts.connections = counts.hits + counts.misses
    /\ counts.connections + counts.dns = counts.accepted + counts.dropped

\* "max number of entries for each By* map" (stats.go:55): a map does not grow beyond the
\* limit in force, whatever limits came before.  One that was longer when the limit was
\* lowered keeps its length, for each new entry takes the place of one.  ByExecutable has no
\* such limit: as long as the empty path has the fewest hits, every new path is one more.
MapsAreBounded ==
    [][/\ Entries(byHost') > Entries(byHost) => Entries(byHost') <= limits.maxStats
       /\ Entries(byExecutable') > Entries(byExecutable) =>
            Entries(byExecutable') <= limits.maxStats \/ NoPath \in Fewest(byExecutable)]_vars

\* "max number of events to keep in the buffer" (stats.go:53), unless the limit was set
\* below the number of events: then the buffer is as long as the limit no more, is never
\* shifted, and grows until it is emptied.
BufferIsBounded == ~overfull => Len(events) <= limits.maxEvents

\* Events in the buffer are announced by the flag.  Serialize relies on it: without the
\* flag it returns nil, and the buffer is emptied all the same.
EventsAreAnnounced == events # <<>> => newEvents

\* An event is in one message only, also when pings fail and reports come in while one is
\* on its way.
EventsAreSentOnce == poller.at = "empty" => Numbers(poller.batch) \cap sent = {}

\* No packet worker is blocked for ever by its report, even while SetLimits replaces the
\* workers, in two goroutines at once or not, as long as the number of workers in force is
\* positive.  It is not when the option is negative, or SetLimits has not been called.  As
\* reports are bounded, one that waits for ever is one that waits when no others come.
ReportsEnd == waiting # <<>> ~> waiting = <<>> \/ limits.workers <= 0

\* A worker of a context, whether it has a job or not.
HasWorker(g) == idle[g] > 0 \/ \E b \in busy : b.gen = g

\* Once SetLimits has been called there is a worker that nobody has told to end, or a call
\* that is about to make a context or to start the first worker of one, unless a negative
\* number of workers is in force.
WorkersStay ==
    gen > 0 =>
      \/ limits.workers < 0
      \/ gen \notin cancelled /\ HasWorker(gen)
      \/ \E p \in Callers : caller[p].at = "context"
      \/ \E p \in Callers : caller[p].at = "spawn" /\ caller[p].i = 0

IsWaiting(n) == \E i \in DOMAIN waiting : waiting[i] = n

\* "New returns a new Statistics object and initializes the go routines to update the
\* stats" (stats.go:66): a report is taken also when nothing is configured.
NewStartsWorkers == \A n \in Ids : IsWaiting(n) ~> ~IsWaiting(n)

\* "After return the stats, the Events are emptied, to keep collecting more stats and not
\* miss connections" (stats.go:259-260): only events that are sent are removed.
OnlySentEventsAreEmptied ==
    [][emptyStats => \A i \in DOMAIN events : \E j \in DOMAIN poller.batch :
                       poller.batch[j] = events[i]]_vars
=============================================================================
