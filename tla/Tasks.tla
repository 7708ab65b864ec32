------------------------------- MODULE Tasks -------------------------------
(***************************************************************************)
(* The task manager (daemon/tasks/main.go), the tasks it runs (the monitors *)
(* of a process, of the node and of sockets, and the looper), who listens  *)
(* to them (ui/notifications_tasks.go), and who starts and stops them: the *)
(* notifications of the GUI, the end of a connection with the GUI, the     *)
(* files of tasks on disk (tasks/load.go), and the end of the daemon.      *)
(*                                                                         *)
(* A task has three goroutines: the one AddTask starts (run), the one that *)
(* Start starts (worker), and the one that the monitor of the manager      *)
(* starts (listener).  A task that is replaced by one of the same name     *)
(* lives on until its goroutines end; tasks are numbered as they are made. *)
(*                                                                         *)
(* RemoveTask sends an event on an unbuffered channel with the lock held:  *)
(* whoever is at "send" holds the lock.  The other critical sections are   *)
(* one step each.                                                          *)
(***************************************************************************)
EXTENDS Naturals, FiniteSets

CONSTANTS
    Names,      \* names of tasks
    Kind,       \* per name: the kind of the task
    Sessions,   \* the goroutines of connections with the GUI that may overlap
    Disk,       \* the goroutines that follow the files of tasks
    Main,       \* the main goroutine, which closes the client
    NoName,     \* the name of a task that does not exist yet
    MaxTasks,   \* bound: tasks that are made
    MaxCalls    \* bound: requests to add or remove tasks, and ends of connections

Callers == Sessions \cup Disk \cup {Main}

ASSUME KindAssumption == Kind \in [Names -> {"pid", "node", "sockets", "looper"}] /\ NoName \notin Names

ASSUME CallerAssumption == Sessions # {} /\ Main \notin Sessions \cup Disk /\ Sessions \cap Disk = {}

ASSUME BoundAssumption == MaxTasks \in Nat /\ MaxCalls \in Nat

Ids == 1..MaxTasks

VARIABLES
    table,      \* tasks: the number of the task of that name, or 0
    task,       \* per number: the task and its goroutines
    caller,     \* per goroutine that adds and removes tasks: where it is
    session,    \* the connection whose notifications are handled
    calls,      \* requests and ends of connections so far
    manager,    \* monitorTaskManager: "on", "cancelled" (told to end), "off"
    panic       \* the daemon has died of a panic or a fatal error

vars == <<table, task, caller, session, calls, manager, panic>>

-----------------------------------------------------------------------------

\* A task before AddTask.  closed: its channels; early: it was removed before it was
\* started (history).
NoTask == [name |-> NoName, run |-> "none", worker |-> "none", listener |-> "none",
           started |-> FALSE, cancelled |-> FALSE, ticking |-> FALSE,
           closed |-> FALSE, early |-> FALSE]

\* must: the tasks that were in the table when a walk of it began; seen: those it came to.
Idle == [at |-> "idle", op |-> "none", name |-> NoName, must |-> {}, seen |-> {}]

Listed == {table[n] : n \in Names} \ {0}

\* IsTemporary: NewPIDMonitor drops the argument that says so, and the field that
\* NewSocketsMonitor sets hides the one that IsTemporary reads.
IsTemporary(n) == Kind[n] = "node"

\* The lock of the table.
Unlocked == \A c \in Callers : caller[c].at # "send"

\* The entry of a name is written.  The runtime ends the daemon when it notices that
\* another goroutine walks the table meanwhile, which it need not notice.
Write(c, n, i) ==
    /\ table' = [table EXCEPT ![n] = i]
    /\ panic' \in IF \E d \in Callers \ {c} : caller[d].at = "range" THEN BOOLEAN ELSE {FALSE}

GoTo(c, place) == caller' = [caller EXCEPT ![c].at = place]

\* Mutant: StopTempTasks returns after the first task it has removed.
AfterFirst(op) == CASE op \in {"stop", "temp"} -> "idle" [] op = "reload" -> "add" [] OTHER -> "range"

\* Where a caller goes on after RemoveTask, whether it failed or not.
After(op) == CASE op = "stop" -> "idle" [] op = "reload" -> "add" [] OTHER -> "range"

Return(c) ==
    LET place == After(caller[c].op) IN
    caller' = [caller EXCEPT ![c] = IF place = "idle" THEN Idle ELSE [@ EXCEPT !.at = place]]

-----------------------------------------------------------------------------
(* Who adds and removes tasks *)

NamesOf(c) == {n \in Names : Kind[n] = "looper" <=> c \in Disk}

\* Whether the goroutine may begin something: a connection only as long as it is open.
Begins(c) == calls < MaxCalls /\ caller[c] = Idle /\ (c \in Sessions => session = c)

\* listenForNotifications ends: the connection is closed, so that the poller may open
\* another, and StopTempTasks begins.
EndSession(s) ==
    /\ Begins(s)
    /\ \E r \in Sessions \ {s} : caller[r] = Idle /\ session' = r
    /\ caller' = [caller EXCEPT ![s] = [Idle EXCEPT !.at = "range", !.op = "temp", !.must = Listed]]
    /\ calls' = calls + 1
    /\ UNCHANGED <<table, task, manager, panic>>

\* Close: StopAll begins.
Close ==
    /\ Begins(Main)
    /\ caller' = [caller EXCEPT ![Main] = [Idle EXCEPT !.at = "range", !.op = "all", !.must = Listed]]
    /\ calls' = calls + 1
    /\ UNCHANGED <<table, task, session, manager, panic>>

\* Mutant: the walk comes to names whose entries have been deleted.
VisitDeleted(c, n) ==
    /\ caller[c].at = "range" /\ table[n] \notin caller[c].seen
    /\ caller' = [caller EXCEPT ![c] = [caller[c] EXCEPT
                    !.name = n, !.seen = @ \cup {table[n]},
                    !.at = IF caller[c].op = "temp" THEN "get" ELSE "remove"]]
    /\ UNCHANGED <<table, task, session, calls, manager, panic>>

\* The walk comes to a name.  It may come to entries that were added after it began.
Visit(c, n) ==
    /\ caller[c].at = "range" /\ table[n] # 0 /\ table[n] \notin caller[c].seen
    /\ caller' = [caller EXCEPT ![c] = [caller[c] EXCEPT
                    !.name = n, !.seen = @ \cup {table[n]},
                    !.at = IF caller[c].op = "temp" THEN "get" ELSE "remove"]]
    /\ UNCHANGED <<table, task, session, calls, manager, panic>>

\* The walk is over when it has come to every entry that was there all the time.
\* StopAll is followed by the end of the manager.
RangeEnds(c) ==
    /\ caller[c].at = "range" /\ caller[c].must \cap Listed \subseteq caller[c].seen
    /\ IF c = Main THEN GoTo(c, "done") /\ manager' = "cancelled"
                   ELSE caller' = [caller EXCEPT ![c] = Idle] /\ UNCHANGED manager
    /\ UNCHANGED <<table, task, session, calls, panic>>

\* StopTempTasks asks for the task of the name it came to, which may be another by now.
GetTask(c) ==
    /\ caller[c].at = "get" /\ Unlocked
    /\ GoTo(c, IF table[caller[c].name] # 0 /\ IsTemporary(caller[c].name) THEN "remove" ELSE "range")
    /\ UNCHANGED <<table, task, session, calls, manager, panic>>

-----------------------------------------------------------------------------
(* AddTask and RemoveTask *)

Made == Cardinality({i \in Ids : task[i].run # "none"})

\* The critical section of AddTask: an error when the name is taken, else a new task and the
\* goroutine that starts it.
AddTask(c, n) ==
    /\ Unlocked
    /\ \/ table[n] # 0 /\ UNCHANGED <<table, task, panic>>
       \/ /\ table[n] = 0 /\ Made < MaxTasks
          /\ task' = [task EXCEPT ![Made + 1] = [NoTask EXCEPT !.name = n, !.run = "start"]]
          /\ Write(c, n, Made + 1)

\* handleActionTaskStart; a file of a task that is enabled.  The error changes nothing.
StartTask(c, n) ==
    /\ Begins(c) /\ n \in NamesOf(c) /\ table[n] = 0
    /\ AddTask(c, n)
    /\ calls' = calls + 1
    /\ UNCHANGED <<caller, session, manager>>

\* loadDiskTask, after RemoveTask
AddAgain(d) ==
    /\ caller[d].at = "add"
    /\ AddTask(d, caller[d].name)
    /\ caller' = [caller EXCEPT ![d] = Idle]
    /\ UNCHANGED <<session, calls, manager>>

\* handleActionTaskStop; a file of a task that is disabled ("stop"), or changes ("reload").
\* A notification may begin to remove a task when it gets the lock; nothing depends on it before.
StopTask(c, n, op) ==
    /\ Begins(c) /\ n \in NamesOf(c) /\ Unlocked
    /\ op = "reload" => c \in Disk
    /\ table[n] # 0 \/ op = "reload"
    /\ caller' = [caller EXCEPT ![c] = [Idle EXCEPT !.op = op, !.name = n,
                                          !.at = IF table[n] # 0 THEN "send" ELSE "add"]]
    /\ calls' = calls + 1
    /\ UNCHANGED <<table, task, session, manager, panic>>

\* Mutant: the manager listens to a task itself, not in a goroutine of its own.
ReceivesInTurn == manager # "off" /\ \A i \in Ids : task[i].listener # "on"

\* monitorTaskManager receives: also when it has been told to end, for select may pick any.
Receives == manager # "off"

\* RemoveTask, called by a walk, takes the lock and finds a task, or returns an error.
RemoveTask(c) ==
    /\ caller[c].at = "remove" /\ Unlocked
    /\ IF table[caller[c].name] = 0 THEN Return(c) ELSE GoTo(c, "send")
    /\ UNCHANGED <<table, task, session, calls, manager, panic>>

\* Stop of the task.  Before Start it has no context to cancel.
Stopped(t) == [t EXCEPT !.ticking = FALSE, !.cancelled = @ \/ t.started,
                        !.closed = @ \/ Kind[t.name] = "looper"]

\* Mutant: the entry is deleted and the task is not stopped.
DeleteOnly(c) ==
    LET n == caller[c].name  i == table[n] IN
    /\ caller[c].at = "send" /\ Receives
    /\ task' = [task EXCEPT ![i] = [@ EXCEPT !.early = task[i].run = "start"]]
    /\ Return(c) /\ Write(c, n, 0)
    /\ UNCHANGED <<session, calls, manager>>

\* The event is taken; RemoveTask stops the task, deletes the entry and releases the lock.
\* A looper closes its channels, and the second time that is a panic.
Removed(c) ==
    LET n == caller[c].name  i == table[n] IN
    /\ caller[c].at = "send" /\ Receives
    /\ IF task[i].closed THEN panic' = TRUE /\ UNCHANGED <<table, task, caller>>
       ELSE /\ task' = [task EXCEPT ![i] = [Stopped(@) EXCEPT !.early = task[i].run = "start"]]
            /\ Return(c) /\ Write(c, n, 0)
    /\ UNCHANGED <<session, calls, manager>>

-----------------------------------------------------------------------------
(* The goroutines of a task *)

\* Start fails when the interval does not parse: the context is cancelled, the entry stays.
StartFails(i) ==
    /\ task[i].run = "start"
    /\ task' = [task EXCEPT ![i] = [@ EXCEPT !.run = "failed", !.started = TRUE, !.cancelled = TRUE]]
    /\ UNCHANGED <<table, caller, session, calls, manager, panic>>

Start(i) ==
    /\ task[i].run = "start"
    /\ task' = [task EXCEPT ![i] = [@ EXCEPT
                  !.run = "add", !.started = TRUE, !.ticking = TRUE,
                  !.worker = IF Kind[task[i].name] = "looper" THEN "tick" ELSE "check"]]
    /\ UNCHANGED <<table, caller, session, calls, manager, panic>>

\* The event is taken: monitorTaskManager starts monitorTaskEvents for the task.
TaskAdded(i) ==
    /\ task[i].run = "add" /\ Receives
    /\ task' = [task EXCEPT ![i] = [@ EXCEPT !.run = "wait", !.listener = "on"]]
    /\ UNCHANGED <<table, caller, session, calls, manager, panic>>

Wake(i) ==
    /\ task[i].run = "wait" /\ (task[i].cancelled \/ manager # "on")
    /\ task' = [task EXCEPT ![i] = [@ EXCEPT !.run = "exit"]]
    /\ UNCHANGED <<table, caller, session, calls, manager, panic>>

\* Mutant: the task that the table has under the name is stopped.
ExitStopsListed(i) ==
    LET j == table[task[i].name] IN
    /\ task[i].run = "exit" /\ Unlocked
    /\ task' = [k \in Ids |-> IF k = i THEN [task[i] EXCEPT !.run = "end", !.cancelled = TRUE]
                              ELSE IF k = j THEN Stopped(task[k]) ELSE task[k]]
    /\ UNCHANGED <<table, caller, session, calls, manager, panic>>

\* Whatever task has its name, the goroutine stops the task that it has started: a looper
\* that was removed and replaced is stopped twice.
Exit(i) ==
    LET found == table[task[i].name] # 0 IN
    /\ task[i].run = "exit" /\ Unlocked
    /\ panic' = (found /\ task[i].closed)
    /\ task' = [task EXCEPT ![i] = [(IF found THEN Stopped(@) ELSE @) EXCEPT
                                      !.run = "end", !.cancelled = TRUE]]
    /\ UNCHANGED <<table, caller, session, calls, manager>>

\* The worker looks at its context, and either ends or has a result; only the monitor of a
\* process may have an error, when the process has ended.
Check(i) ==
    /\ task[i].worker = "check"
    /\ \E w \in IF task[i].cancelled THEN {"end"}
                ELSE IF Kind[task[i].name] = "pid" THEN {"send", "fail"} ELSE {"send"} :
         task' = [task EXCEPT ![i] = [@ EXCEPT !.worker = w]]
    /\ UNCHANGED <<table, caller, session, calls, manager, panic>>

\* A result or an error is taken by the listener.  A looper may find its channel closed.
Send(i) ==
    /\ task[i].worker \in {"send", "fail"} /\ (task[i].closed \/ task[i].listener = "on")
    /\ IF task[i].closed THEN panic' = TRUE /\ UNCHANGED task
       ELSE /\ task' = [task EXCEPT ![i] = [@ EXCEPT !.worker = IF task[i].worker = "send" THEN "tick" ELSE "end"]]
            /\ UNCHANGED panic
    /\ UNCHANGED <<table, caller, session, calls, manager>>

\* A monitor waits for its ticker only, and for ever once that is stopped; a looper may
\* also see that it was told to end.
Tick(i) ==
    LET loops == Kind[task[i].name] = "looper" IN
    /\ task[i].worker = "tick"
    /\ \E w \in (IF task[i].ticking THEN {IF loops THEN "send" ELSE "check"} ELSE {})
                  \cup (IF loops /\ task[i].cancelled THEN {"end"} ELSE {}) :
         task' = [task EXCEPT ![i] = [@ EXCEPT !.worker = w]]
    /\ UNCHANGED <<table, caller, session, calls, manager, panic>>

\* monitorTaskEvents ends with the context of the task.
ListenerEnds(i) ==
    /\ task[i].listener = "on" /\ task[i].cancelled
    /\ task' = [task EXCEPT ![i] = [@ EXCEPT !.listener = "end"]]
    /\ UNCHANGED <<table, caller, session, calls, manager, panic>>

\* monitorTaskManager ends.
ManagerEnds ==
    /\ manager = "cancelled"
    /\ manager' = "off"
    /\ UNCHANGED <<table, task, caller, session, calls, panic>>

-----------------------------------------------------------------------------

Init ==
    /\ table = [n \in Names |-> 0]
    /\ task = [i \in Ids |-> NoTask]
    /\ caller = [c \in Callers |-> Idle]
    /\ session \in Sessions /\ calls = 0
    /\ manager = "on" /\ panic = FALSE

\* What a caller does once it has begun.
CallerStep(c) ==
    /\ ~panic
    /\ \/ \E n \in Names : Visit(c, n)
       \/ RangeEnds(c) \/ GetTask(c) \/ AddAgain(c) \/ RemoveTask(c) \/ Removed(c)

RunStep(i) == ~panic /\ (StartFails(i) \/ Start(i) \/ TaskAdded(i) \/ Wake(i) \/ Exit(i))

WorkerStep(i) == ~panic /\ (Check(i) \/ Send(i) \/ Tick(i))

ListenerStep(i) == ~panic /\ ListenerEnds(i)

Request ==
    /\ ~panic
    /\ \/ \E c \in Sessions \cup Disk, n \in Names :
            StartTask(c, n) \/ \E op \in {"stop", "reload"} : StopTask(c, n, op)
       \/ \E s \in Sessions : EndSession(s)
       \/ Close \/ ManagerEnds

Next ==
    \/ Request
    \/ \E c \in Callers : CallerStep(c)
    \/ \E i \in Ids : RunStep(i) \/ WorkerStep(i) \/ ListenerStep(i)

Spec == Init /\ [][Next]_vars

\* Goroutines are scheduled and tickers tick.  As calls are bounded, the lock is free from
\* some time on, and who waits for it needs no more than that.
Fairness ==
    /\ \A c \in Callers : WF_vars(CallerStep(c))
    /\ \A i \in Ids : WF_vars(RunStep(i)) /\ WF_vars(WorkerStep(i)) /\ WF_vars(ListenerStep(i))

FairSpec == Spec /\ Fairness

-----------------------------------------------------------------------------
(* Properties *)

TaskRecord ==
    [name : Names \cup {NoName},
     run : {"none", "start", "failed", "add", "wait", "exit", "end"},
     worker : {"none", "check", "send", "fail", "tick", "end"},
     listener : {"none", "on", "end"},
     started : BOOLEAN, cancelled : BOOLEAN, ticking : BOOLEAN,
     closed : BOOLEAN, early : BOOLEAN]

CallerRecord ==
    [at : {"idle", "range", "get", "remove", "send", "add", "done"},
     op : {"none", "start", "stop", "reload", "temp", "all"},
     name : Names \cup {NoName}, must : SUBSET Ids, seen : SUBSET Ids]

\* Every variable has its type.
TypeOK ==
    /\ table \in [Names -> Ids \cup {0}]
    /\ task \in [Ids -> TaskRecord]
    /\ caller \in [Callers -> CallerRecord]
    /\ session \in Sessions /\ calls \in 0..MaxCalls
    /\ manager \in {"on", "cancelled", "off"} /\ panic \in BOOLEAN

\* RemoveTask leaves no task behind that nobody can stop any more: a task that was started
\* and is not in the table is cancelled, whoever removed or replaced it.  The exception is
\* a task that was removed before its goroutine came to Start.
RemovedTasksAreStopped ==
    \A i \in Ids : task[i].started /\ i \notin Listed /\ ~task[i].early => task[i].cancelled

\* A task in the table is not stopped by the goroutine of an older task of its name: its
\* context lives and its goroutine waits, unless it failed to start or the manager ends.
ListedTasksRun ==
    manager = "on" =>
        \A i \in Listed :
            \/ task[i].run \in {"start", "failed"}
            \/ task[i].run \in {"add", "wait"} /\ ~task[i].cancelled

\* StopTempTasks (main.go:149-160) leaves no temporary task of the connection behind: when
\* it returns, none of those that were listed when it began is in the table, whatever the
\* next connection, the disk and the goroutines of tasks did to it meanwhile.  Which tasks
\* are temporary is what IsTemporary says; the comments name the monitors of processes and
\* sockets, too, which the code never stops.
TempTasksAreStopped ==
    [][\A s \in Sessions :
         caller[s].op = "temp" /\ caller'[s].op # "temp" =>
            \A n \in Names : IsTemporary(n) => table'[n] \notin caller[s].must]_vars

Alive == manager = "on" /\ ~panic

\* AddTask is at rest, too, once the bound is reached.
Resting(c) == caller[c].at \in {"idle", "add", "done"}

Ended(i) == task[i].run \in {"failed", "end"} /\ task[i].listener \in {"none", "end"}

\* What is told to end, ends, and nobody waits for ever with the lock of the table: once
\* nothing more is asked of the manager, all calls have returned, and each task whose context
\* is cancelled has lost its goroutine and its listener, while the manager's monitor runs.
StopsEnd ==
    []<>(Alive => /\ \A c \in Callers : Resting(c)
                  /\ \A i \in Ids : task[i].cancelled => Ended(i))
=============================================================================
