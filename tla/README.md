# OpenSnitch daemon: TLA+ specifications

OpenSnitch is an application firewall for Linux. A daemon written in Go takes every new
connection from two netfilter queues, finds the rule that decides about it or asks the user
through a GUI (a Python program that is a gRPC server), and gives the kernel a verdict. This
directory holds TLA+ models of the daemon, configurations that check them with TLC, and
theorems about them with proofs for TLAPS. Line numbers are those of the files under `daemon/`.

Check a model with `tlc -config MCRuleLoader.cfg MCRuleLoader`, a proof with
`tlapm RuleLoader_proofs.tla`. `PROJECT.json` lists the runs, the lines each definition
stands for, a mutant that breaks each property, the hazards, the findings and the theorems.

## 1. Inventory

| part | state | operations | runs in | what makes it correct |
|---|---|---|---|---|
| Rule loader `rule/loader.go` | rules by name, sorted snapshot of the enabled ones, rule files, timers, watcher | Add, Replace, Delete, Load, Reload, loadRule, deleteRule, timers | packet worker that asked, notification goroutine, live-reload worker, timer callbacks | the snapshot is what is in memory; temporary rules end; lasting rules have their file; it does not feed itself |
| Rule matching `loader.go FindFirstMatch`, `rule/operator.go` | a local walk over the snapshot | Match | every packet worker | the first deciding rule, or the last match, of one list |
| Packet pipeline `main.go`, `netfilter/` | packet channel, repeat queue, isAsking | receive, take, match, ask, requeue, pull, verdict, report | two cgo threads, main loop, workers | each packet gets one verdict, its own; one question at a time; the queue goes on |
| Statistics `statistics/stats.go` | counters, six counting maps, buffer of events, workers and their context | OnConnectionEvent, OnDNSResponse, SetLimits, Serialize | packet workers, its own workers, DNS monitor, notification and configuration goroutines, poller | reports are neither lost nor blocked; limits hold; events are sent once |
| UI client `ui/client.go`, `ui/notifications.go` | connection, isAsking, default rules, notification stream | Connect, poller, ping, Ask, Subscribe, handlers | poller, notification goroutine, workers | reconnects; answers each notification; never uses a connection that is gone |
| Alerts `ui/alerts.go` | bounded queue, queue of a disconnected dispatcher, connected signal | PostAlert, dispatcher | any goroutine, dispatcher | nobody blocks; queued alerts are sent after a reconnection |
| Configuration `ui/config_utils.go` | configuration in force | load, save, reload | notification goroutine, file watcher | both paths end with what is on disk |
| Tasks `tasks/` | table of tasks, channels of events | AddTask, RemoveTask, StopAll, StopTempTasks | notification goroutine, a goroutine for each task | a stopped task does not run; nobody waits with the lock held |
| Lists `rule/operator_lists.go` | lists and their published snapshot, monitor goroutine | monitorLists, readLists, StopMonitoringLists | a goroutine for each list rule | stopping ends; a reload hides nothing |
| Process caches `procmon/cache*.go` | processes by pid, inodes | Add, Delete after a delay, lookup, cleaning | monitors, workers, timers | an entry is never of a former process with the same pid |
| Process monitors `procmon/ebpf`, `procmon/audit` | kernel events | read, parse | goroutines | input only |
| Connection parsing `conman/`, `netstat/`, `netlink/` | none | lookup | workers | input only |
| DNS `dns/` | answers by address | Track | monitors | a map under a lock |
| Firewall `firewall/` | rules in the kernel, monitor | enable, disable, check, reload | ticker, notification goroutine | interception rules are put back, unless the user stopped them |
| Logging `log/` | loggers and their queues | Log | workers | no decision depends on it |
| GUI `ui/opensnitch/` | rules, nodes, pending prompts | AskRule, Ping, Notifications | gRPC threads, Qt thread | outside: an arbitrary answer, or none |

**Interaction.** A cgo thread offers a packet on a channel with a timeout of a millisecond
and then waits for its verdict. A worker parses it, calls `FindFirstMatch` without a lock and,
when nothing matches, the GUI is connected and nobody is asking, sets `isAsking`, puts the
packet into the *repeat* queue, takes it back from there and calls `Ask`. The rule of the
answer goes to `Loader.Add`. At the end the worker reports the connection to the statistics on
an unbuffered channel. The poller pings the GUI once a second and takes the statistics along.
The GUI's notifications change rules, configuration, tasks and the firewall. Files that are
written come back to the loader, the configuration and the tasks through fsnotify.

**What is hard**: critical sections where a check and the act on it are apart
(`main.go:452-458`, `loader.go:299-308`, `stats.go:263`), timers that outlive what they were
started for (`loader.go:464`), events of files that are stale when handled
(`loader.go:504-510`), waits without a timeout next to waits of a millisecond or a second
(`queue.go:225-243`, `main.go:467-477`), goroutines that two callers start and stop without a
lock (`loader.go:117-128`, `stats.go:100-118`), and limits that change (`stats.go:103-112`).
`PROJECT.json` lists each hazard at its line with the properties that would catch it.

## 2. Plan

The order follows what a user would lose most by: rules, then verdicts, then what is reported.

1. *(done)* `RuleLoader`, `RuleLoader_proofs`.
2. *(done)* `RuleSemantics`, `RuleLookup` (abstract), `FindFirstMatch` which implements it, `FindFirstMatch_proofs`.
3. *(done)* `PacketPipeline`, `PacketPipeline_proofs`.
4. *(done)* `Statistics`, `Statistics_proofs`.
5. *(done)* `Tasks`: the table, the three goroutines of a task, the events sent under the lock.
6. *(done)* `EventsCache`: one pid, the delayed deletion, its reuse, parallel handlers.
7. *(done)* `ListMonitor`: the monitor of the files of a list, its stop, the workers that look up.
8. *(done)* `UIClient`: connecting, pinging, listening, and the two queues of alerts.
9. `LiveReload`: two Reloads at once and the life of the live-reload worker, as a scenario of
   `RuleLoader`.
10. *(done)* the proof modules of 5 to 8, and the strengthening of `AlwaysRuleHasFile`.
11. *(done)* `AlertQueue` (abstract), which `UIClient` implements; `NoPacketIsLost`; and what can be
    proved of the liveness properties: measures that go down, and what is there to be done.
12. What is left to prove: the same for `Tasks` (`StopsEnd`), `EventsCache` (`DeadEntriesGo`), the
    stops of `ListMonitor` and `Reconnects`.

## 3. Modules

**RuleSemantics** says what a rule is (conditions, action, precedence) and when it matches
(`Operator.Match` of a list of conditions; a condition is the set of connections it accepts,
a hash condition counts only with the checksum flag) and decides (`loader.go:534`).

**RuleLookup** is the abstract specification: a question about a connection is answered, in
one step, by the first deciding rule of a list that was published when the question began,
with a flag of a moment after that.

**FindFirstMatch** is the search, one action for each atomic load and each turn of the loop,
with `sortRules` and `EnableChecksums` at any moment. `Lookup` is the refinement mapping.

**RuleLoader** has a process for the worker that adds the user's answer (`asker`), one for
the notification goroutine (`ntf`) and one for the live-reload worker (`live`), timer callbacks,
and an administrator who edits files. A step is a critical section of the loader's lock or one
access to a file. Names are their ranks in the order of `sort.Strings`, so that a sorted list
is a function of the names. `events` is what fsnotify has for the worker; saving is two steps
(truncate, write), each with its event. `Load` looks without the lock whether there are rules
(`LoadCount`) and makes a new map (`LoadMakeMap`), in two steps in which others may store rules;
`dropped` *(history)* has the names that the published list still has and the map has lost.

**PacketPipeline** has the two threads of the queues (`recv`, `offer`, `wait`), the main loop
and the workers, with one action for each step between two points where another goroutine may
run. The rules are what `FindFirstMatch` would return for each connection, and may change at
any moment. Packets are compared by their bytes, as the code compares them (`main.go:480`).

**Statistics** has the reports that packet workers wait with, the workers by their context,
`SetLimits` in two goroutines step by step, and the poller. `byExecutable` may have the empty path
as a key (a process that was not found), which `incMap` never evicts; `byHost` stands for the other
five maps, which never have it. A count of 0 is a missing key. The options of `SetLimits` are signed
integers: a negative number of workers ends those there are and starts none.

**Tasks** has the table of tasks (a name leads to the number of a task) and, for each task, its
three goroutines: `run` (that of `AddTask`: `start`, the event `add`, `wait`, `exit`), `worker`
(that of the monitor or of the looper) and `listener` (`monitorTaskEvents`). Callers are the
goroutines of connections with the GUI, of which an old one may still be in `StopTempTasks` when
the next begins, the one that follows the files of tasks, and the main one. `RemoveTask` is three
steps, because it sends its event with the lock of the table held; walks of the table go entry by
entry without the lock. `early` marks a task that was removed before its goroutine came to `Start`.

**EventsCache** follows one pid: the process that has it (`os`), the events the kernel has
written for it (`ring`), the entry of the store, the timers of `Delete`, and what each worker and
each lookup of a connection has in hand. A handler is `ReadPath` (/proc), `LookUp` (its copy of
the entry) and one `Write` for each call of `UpdateItem` that `Add`, `ReplaceItem` or `Update`
make. Time is not counted: an entry is fresh, or old enough to be cleaned.

**ListMonitor** has an operator of a list, the files of its directory (a file is its version), the
monitor goroutine step by step, the goroutines that call `StopMonitoringLists` with or without
the lock of the loader, and the workers that look a host up in the map they have loaded. A map
is `current` as long as it is `o.lists`, which `readLists` replaces and `ClearLists` empties.

**AlertQueue** is the abstract specification of the way of an alert: a queue of posted alerts, from
which any may be lost and the first one is delivered.

**UIClient** has connections by name, `c.con` and `c.client`, the poller, a goroutine for each connection
that subscribes and reads notifications, the dispatcher of alerts and those who post them. `AlertPath` is
the refinement mapping: the alert in the dispatcher's hand, its queue and the channel, one behind the other,
are the queue of `AlertQueue`. A signal to the dispatcher is taken only by a dispatcher that waits. Every
read of `c.con` or `c.client` that the code makes without the lock is a step, so that it may be nil.

Variables marked *(history)* are not read by any action; properties use them.

**MC modules** give the constants values. **_proofs modules** hold theorems and lemmas only.
A definition marked *Mutant* is not a part of the specification: it is a defect the properties
must notice when it takes the place of the definition it precedes.

A record in a function is changed as `[f EXCEPT ![w] = [f[w] EXCEPT !.a = x, !.b = y]]`
throughout. TLAPS 1.4.5 misreads `[f EXCEPT ![w].a = x, ![w].b = y]`, and an `@` within
`[@ EXCEPT ...]`.

## 4. Runs

| run | bounds | states | what it shows |
|---|---|---|---|
| `rule_loader` | 2 names, 7 rules, 3 file contents, 3 operations | 178 067 | all properties of the loader; the invariants hold with 4 operations, too (2.9 million states) |
| `find_first_match` | lists of 4 rules, 6 lists, 2 connections, 1 reader | 8 640 | the search, and that it implements `RuleLookup` |
| `packet_pipeline` | 3 packets of 2 connections (two alike), 2 workers | 259 614 | where packets are, questions, verdicts and the progress of the main queue |
| `statistics` | 2 packet workers, 3 reports of 2 kinds (one with the empty path), 1 DNS response, 2 calls of `SetLimits` with 2 configurations (one with a negative number of workers) | 710 898 | reports, limits and events |
| `tasks` | 3 names (two monitors that end with the connection, a looper from the disk), 3 tasks, 3 calls, 2 connections that overlap | 904 536 | what is removed is stopped, what is listed runs, all calls return |
| `events_cache` | 1 pid, 4 processes and execs of 2 paths, 2 event workers, 1 lookup, 2 objects | 997 762 | a process that runs is in the store, with its path; a dead one leaves it |
| `list_monitor` | 2 files, 4 writes, 1 stop with and 1 without the loader's lock, 1 packet worker | 330 378 | lookups, stops, and that the lists follow the files |
| `ui_client` | 2 connections, 1 poster, queues of 1, 2 alerts, 1 fault | 511 633 | that it implements `AlertQueue`, and the way back to the GUI |
| `stale_remove_event` | as `rule_loader` | | the worker deletes a rule whose file is there |
| `default_action_bypassed` | as `packet_pipeline` | | a packet is accepted against a default of deny |
| `lost_events` | as `statistics` | | an event is emptied that no message has |
| `no_workers` | as `statistics`, without calls of `SetLimits` | | a report that nobody ever takes |

**Why the bounds are enough.** Names of rules interact only by their order and by the clash
that gives a rule a new name, which needs two. Three operations are an operation that is in
progress, one that interleaves with it and one whose leftover (a timer, an event) meets both.
Readers of the snapshot write nothing, so one stands for all. Three packets of two connections
are a packet, one that cannot be told from it by its bytes, and one that must not be mistaken
for it; a third worker could only do what the second does, for the main queue delivers a packet
after the verdict on the one before. Three reports are one more than the limit of the buffer and one
more than the packet workers; two calls of `SetLimits` are the two that can overlap, and both
limits are lowered below what is in use: the buffer then grows past its limit, and a map stays
longer than its own. The second configuration has -1 workers, so that the pool goes away and comes
back. A connection whose host is not known is left to the proofs.

Three tasks under three names are a task, the one that takes its place, and one of another name, or one
of each. Two of the names are temporary, so that a walk that stops only the first leaves the other behind;
three calls are to start, to remove, and the end of the connection (or of the daemon) that meets
both. Four execs of one pid are two processes of two images each, or one that returns to its first
path; two objects are a handler and a lookup, or two handlers, that write across each other. Four
writes to two files make the number of files go up, down, and stay while its names change. Two
connections are the current one and one whose goroutine still reads. With queues of one alert, two
alerts fill both; the same properties hold with queues of 2 and 3 alerts (1.6 million states), with
two faults (2.4 million), and with three connections and two faults but without alerts (627 765).

**Fairness.** The Go scheduler runs a goroutine that can run, timers fire, locks and channels
serve who waits in turn, and every wait with a timeout ends. Hence weak fairness on each
process, not on the inputs: users, administrators, packets, connections and pings may cease.
In `PacketPipeline` the threads of the queues and the main loop share one condition, and so do
the idle workers, for which of them takes a packet is up to the channel; each worker that is
busy has its own. In `Statistics` the workers that take reports have one, those that count them one,
the ping one and each caller of `SetLimits` its own; that a worker of a cancelled context ends need
not be assumed. In `Tasks` each caller, and each of the three goroutines of each
task, has one; requests and the manager's end have none. In `EventsCache` handlers and
lookups end, and the ticker of the cleaning ticks; the timer of `Delete` is left out because
`DeadEntriesGo` must not depend on an event that may be lost. In `ListMonitor` the monitor
has one (its sleep ends, files are read) and each stop that was received. In `UIClient` the poller
and the goroutine of each connection have one, grpc dials, and a GUI that ended starts again; the
dispatcher needs none, for nothing else waits for it.

**What each property is for.**

- `SnapshotIsActiveRules`: no expired or deleted rule is applied, and no enabled one is left out. The
  exception are the rules in `dropped`, which `Load` threw away with their map: they are applied though
  they are not in memory, until the list is sorted the next time, and no others are.
- `TempRuleHasTimer`, `TempRulesExpire`: however old timers and new rules of one name
  interleave, no temporary rule becomes permanent. (A stale timer may end a younger rule of the
  same name and duration early; it never leaves one behind.)
- `AlwaysRuleHasFile`: at rest a lasting rule has its file, except names whose file changed
  while `Reload` had stopped the watcher (`missed`).
- `ComesToRest`: the worker removes files and so wakes itself; this ends.
- `ReturnsFirstMatch`, `ImplementsLookup`, `SearchEnds`: the lock-free search.
- `OneAsker`: `GetIsAsking` and `SetIsAsking` are two critical sections; what makes the pair safe
  is that the main queue delivers nothing before the verdict on the last packet.
- `VerdictIsAwaited`, `VerdictIsForItsConnection`: after a timeout the repeat queue brings an
  old packet first; it never gets the answer about another connection.
- `NoPacketIsLost`: through two queues, the main loop and the workers, a packet that the kernel holds
  is in one place, and the one the main thread waits with is always somebody's. It says so of the
  main queue only; the next item is why.
- `MainQueueAdvances`, `AskingEnds`: no path of a worker leaves its packet without a verdict and
  the flag set. There is no such property of the *repeat* queue, because it does not hold: after
  a timeout or a mismatch no one gives the packet a verdict, and its thread waits for ever.
- `EveryReportIsCountedOnce`, `ReportsEnd`: replacing the workers loses no report and blocks none for
  ever, while the number of workers in force is positive.
- `MapsAreBounded`, `BufferIsBounded`: the limits hold, as far as the code keeps them: a map
  does not grow past its limit, but stays longer than a limit that was lowered, and `ByExecutable` does
  grow past it as long as the empty path has the fewest hits; the buffer keeps
  its limit unless that was lowered below its length, and then is not bounded until it is emptied.
- `EventsAreAnnounced`, `EventsAreSentOnce`: the flag and the buffer agree, also between the
  two critical sections of `Serialize`.
- `RemovedTasksAreStopped`: two callers and a walk without a lock remove and replace tasks of one
  name; no task that runs is left outside the table, where nobody could stop it. A task that is
  removed before it started is the exception (`early`): its `Stop` finds no context, and it runs on.
- `ListedTasksRun`: the goroutine of an older task never stops the younger one of its name.
- `TempTasksAreStopped`, `StopsEnd`: when the end of a connection has been handled, none of the temporary
  tasks that were there before is in the table, whatever the next connection does (`IsTemporary` says
  which are temporary); all calls return although events are sent with the lock held.
- `HandledProcessIsInStore`, `SoleHandlerWins`: timers and cleaning of a pid that was used again do
  not remove its process, and copies that older handlers hold do not replace it, as long as no
  event of the image is taken while another handler or lookup is at work. `DeadEntriesGo`: late
  writes do not stay.
- `ListsInHandOnlyShrink`: a worker never sees a list that is half read. It may see one that is
  half cleared. `StopsReturn`, `ListsFollowTheDirectory`: stops end; the lists are those of the
  files, unless a scan missed that one file took the place of another (`blind`).
- `ImplementsAlertQueue`, `Reconnects`: through two queues and several connections alerts may be lost,
  but are neither reordered, repeated nor made up;
  after a call or a stream fails the daemon comes back to a GUI that answers.

**Seen while modelling, without a run of its own.** These are behaviours of the models that the
properties above have to except; each is at the line named.

- Tasks: a looper whose file is replaced is stopped twice, by `RemoveTask` and by its own goroutine
  that finds the name taken again, and closes its channels twice (`tasks/main.go:87`,
  `looptask/main.go:107`); its worker may send on them (`Send`). A worker of a monitor waits for
  ever on the ticker that `Stop` ended (`pidmonitor/main.go:96`). A task removed before `Start`
  runs (`main.go:107`), one whose `Start` failed keeps its entry (`main.go:70`), and `StopAll` and
  `StopTempTasks` walk the map without its lock (`main.go:138`, `150`). Only the node monitor is
  ever temporary: the comments at `main.go:146-148` and `base/main.go:33-36` name the monitors of
  processes and sockets, too, but `New` of the one drops its argument (`pidmonitor/main.go:34`), and
  the other has a field of its own (`socketsmonitor/main.go:37`) that hides the one of `TaskBase`.
- Rule loader: a rule that is stored between the clearing of `Reload` and the new map of `Load`
  (`loader.go:157-159`, without the lock) is lost from memory, against "Add adds a rule to the list of
  rules" (177), and is applied until the list is sorted again. `Reload` ranges over the map without the lock
  (126), which the runtime may take for a fatal error.
- Statistics: a negative number of workers ends the workers there are and starts none, and every packet
  worker then blocks on its report (`stats.go:109-115`). `ByExecutable` grows past "max number of entries
  for each By* map" (55) while the empty path has the fewest hits, for then nothing is evicted (161-171).
- Process cache: with two handlers at once an older object may replace a newer path when the path
  in the store is the same as the older one's (`cache_events.go:110`).
- Lists: `ClearLists` empties the map that workers look up (`operator_lists.go:147`), which the
  runtime may take for a fatal error; as many files under other names are not noticed (`117`); two
  stops at once, or one after a bad pattern ended the monitor, never return (`162`), possibly with
  the loader's lock; `cleanListsRule` stops only the first list of a rule (`loader.go:336`).
- UI client: `Connect` is called again by `reloadConfiguration` (`config_utils.go:173-175`), in two
  goroutines, and tests `isPolling` without a lock (`client.go:110`): this is not in the model. An error of
  `Notifications` or of its first message leaves the connection without a listener
  (`notifications.go:385-393`), against the comment at 356; a connection that replaces another between two
  looks of the poller gets none either (`client.go:206`); a listener that ends late closes the new
  connection (`notifications.go:419`); nil pointers at `client.go:221`, `361` and `alerts.go:126`; a signal
  that is lost leaves alerts in the queue (`client.go:241`).

**Disagreements with what the repository says**, each shown by a run: a Remove event that is
handled late deletes a rule and a file that were written since (`loader.go:296`); a packet that
no worker takes in a millisecond is accepted (`ui/client.go:32`); `Serialize` drops events
(`stats.go:259`); `New` starts no worker, and without a section `Stats` nobody does
(`stats.go:66`).

## 5. Proofs

The theorems hold for every value of the constants that satisfies the named assumptions.

- **RuleLoader_proofs.** `TypeCorrect`: types, with `JobOK` (what a process carries is what its step says),
  are inductive together. `SnapshotCorrect`: every critical section that changes the rules ends with
  `sortRules`, except `Reload`'s, and a new map leaves the list that was published before, or an empty one;
  the proof has one lemma on `ActiveRules` and a step for each action. `TemporaryRulesAreTimed`: the count
  of timers for a name and a duration goes down only with the removal of the rule that it was for, or of one
  alike. `LastingRulesHaveFiles`: `AlwaysRuleHasFile` speaks of states at rest only, and steps pass through
  others. `FileInv` says of those what will put them right: a lasting rule whose file has gone under the
  watch has a Remove event queued, or the worker at its deletion, or a goroutine that will write the file;
  of a lasting rule that the worker has read and not yet stored the event is still queued; and `Reload`
  stores no such rule, for it reads while nobody watches and what goes then is in `missed`. It rests on
  files that hold a rule of their own name (`FilesNamed`, assumed of the files at the start).
  `LiveReloadDoesNotFeedItself`: `Work` weighs the files there are and the events queued (3 each), the files
  that `Reload` has still to load (2 each) and the place of each goroutine; every step of a goroutine lowers
  it, because a file that the worker removes makes an event that weighs no more than the file did, and the
  timers leave it alone. Only a user or an administrator who does something more raises it.
- **FindFirstMatch_proofs.** `LoopInvariant` (types, and `WalkOK`: the match is the last one of the rules passed, and
  none of them decides) gives `SearchIsCorrect`, and with a step for each action
  `SearchImplementsLookup`. `AnswerIsDetermined`: what a search returns is the only
  answer that the list, the flag and the connection it read admit, so that nothing else of the
  interleaving matters; it joins `ReturnIsFirstMatch` with the lemma that the reference has one answer.
  `StandingRuleDecides` is what a user relies on while
  rules are reloaded: a rule that decides about a connection in every list that is published is never
  missed. It needs that a search holds a list that was published (`SnapshotOK`) and that the checksum
  flag only takes matches away. `SearchIsBounded`: every turn looks at one rule less.
- **PacketPipeline_proofs.** The invariants are not inductive: that only one worker asks follows
  from who holds the packet of the main queue. `IInv` adds `HandOK`, `OneHolder`, `QueueOK`,
  `FlagOK`, `ConOK` and `ThreadOK`: a packet that the main loop holds is the one the main thread
  waits for, at most one worker holds a packet of each queue, only a worker that has pulled its
  packet holds one of the repeat queue, the flag is set while one worker that set it has not
  reset it, and what a worker holds is a packet of the connection it was given.
  `PipelineInvariant` is `IInv`; the others follow. `PacketsAreKept` adds `HeldOnce` and `MainInHand`
  (the two halves of `NoPacketIsLost`) to it, and `VerdictsAreFinal` follows: a step that gives a verdict
  is about a packet that a thread has, so about none that has one. `HandlingIsBounded` numbers what a
  worker does (`StepsLeft`): its steps lead down from 11, and only `TakePacket` leads up.
- **Statistics_proofs.** `IInv` adds to the properties that a number is in one place
  (`PlacesOK`: with a packet worker that waits, with a worker, or recorded), that what was sent is
  neither in the buffer nor about to be sent (`SentOK`), and how many contexts there may be
  (`GenOK`). From it follow `ReportsAreCountedOnce`, `BufferKeepsItsLimit`, `FlagAnnouncesEvents`
  and `EventsGoOnce`. `MapsKeepTheirLimit` is an action property and rests on the types and on
  the cardinality of the set of keys before and after `incMap`, where the only new map with an entry more
  than the limit is one whose key with the fewest hits is the empty path. `ReportsFindAWorker`, unless a
  negative number of workers is in force: the current context
  is cancelled only while a call is to make another (`CancelOK`), and who made the last context starts
  its first worker; so a report never waits with nobody there to come.
- **Tasks_proofs.** `IInv` adds `NumbersOK` (numbers of tasks are given out in order and never
  again), `TableOK` (an entry leads to a task of its name), `StartOK` (a task that has not come to
  `Start` has no context, and is in the table or was removed early), `LockOK` (who waits with the lock
  held is alone, and has found a task) and `WalkOK` (a temporary task that a walk has come to has gone
  or is the one being removed). `RemovedTasksStop` and `ListedTasksGoOn` are conjuncts of it;
  `TempTasksStop`, an action property, is the step that ends the walk together with `WalkOK`.
- **EventsCache_proofs.** `IInv` says that nothing without a path is written (`RingOK`, `StoreOK`,
  `JobsOK`) and that a process that runs has one (`OsOK`): the last write of a handler therefore
  leaves an entry, and timers and the cleaning act only when the pid is not alive
  (`HandledProcessesStay`). `SoleHandlersWin` needs the order of things as well: events come in the
  order of the images (`SortedOK`), objects are numbered as they are made (`BornOK`), and as long as
  the handlers of an image are alone, whoever has read a path has read that of the image, an entry
  of another path is older than all objects at hand, and so is a copy of one that will be written
  (`AloneOK`), which `UpdateItem` then skips.
- **ListMonitor_proofs.** `MapsInHandOnlyShrink` rests on `ReadUnseen`: while files are read, nobody
  has the map that is filled, and nobody can get it. The set of files is finite.
  `QuietMonitorIsCurrent`: if the next scan would see no change, the lists are those of the files. The scan
  compares times and the *number* of files, so the proof must show that this is enough: `CurrentInv` says that
  a file that is as it was noted is shown (`ShownOK`), that a version is never used again (`FreshOK`), and
  that a scan without an alarm listed the files that the last one listed (`BaseOK`), because all of
  them were seen before and they are as many. `blind` is the exception, and exactly the one it needs.
- **UIClient_proofs.** `AlertsKeepTheirOrder` follows from `OrderOK`: the alert that was delivered
  last is older than the one in hand, that one older than the queued ones, and these older than the
  ones in the channel. That the queue is not overtaken by the channel needs `BeliefOK`: a dispatcher that
  believes in the GUI has an empty queue unless it is emptying it. `PathIsLossyQueue` is the refinement: each
  step of a poster or of the dispatcher is a `Post`, `Lose` or `Deliver` of `AlertQueue` or leaves the
  path as it is; it needs that the alerts on the path are different ones. The connections (`LinkOK`)
  are there for the types only: the order holds whatever they do.

Model-checked only: all liveness (fairness and ENABLED are beyond the prover), and the four
violations. Of `SearchEnds`, `ComesToRest`, `MainQueueAdvances`, `AskingEnds`, `ReportsEnd` and
`ListsFollowTheDirectory` the part that is not about fairness is proved: that steps are bounded by a measure,
or that the state at rest is the right one. `WorkShrinks`, `SearchAdvances`, `WorkersAdvance`,
`VerdictIsFinal`, `ListsAreCurrent` and `WorkersStay` are in no run, because the theorems say more; they hold
in the instances above as well. That a measure reaches its end, which is an induction, is left to TLC.

## 6. Not modelled

The comparison of strings, networks and regexps; parsing of packets, /proc, audit and eBPF
events; the kernel's side of netfilter beyond the two queues and their default verdict; nftables
and iptables; logging; the GUI's own state. These are input and output: the models take their
results as arbitrary.

In the parts that are modelled: the downloader and the IOC scanner, which are tasks with a ticker and an
external program; `UpdateTask`, `PauseAll` and `ResumeAll`, which nobody calls; the tree of parents and the
checksums in a cache entry beyond the writes they cause; the cache of inodes; the users of the store other
than the eBPF monitor (audit and the scan of /proc); the lists of networks and regexps, whose snapshots are
copies; `Close` of the client, and `Connect` called again by `reloadConfiguration` while a poller runs
(`config_utils.go:173-175`); the notifications other than those of rules and tasks. Intervals and timeouts
are not counted: what may happen before a timer fires is arbitrary.

A data race on
a plain field is modelled as far as its order matters: `SetLimits`, which writes `s.ctx` and the
limits without a lock, takes a step to cancel the old context, one to store the new context
together with the limits, and one for each worker it starts, and the other goroutines run between
them. A torn or stale read of one of these fields is not modelled.
