---------------------------- MODULE EventsCache ----------------------------
(***************************************************************************)
(* The cache of processes by pid (daemon/procmon/cache_events.go), as the  *)
(* eBPF monitor uses it (procmon/ebpf/events.go, find.go): one pid, which  *)
(* processes use one after the other, each for one or more images.         *)
(*                                                                         *)
(* The kernel writes an event when an image is executed and when a process *)
(* ends.  A goroutine reads the events and hands each to a worker that     *)
(* waits, or loses it.  Workers handle events in parallel, and every       *)
(* handler works on a copy of the entry it has looked up.  Packet workers  *)
(* that look the pid of a connection up add a process when they find none. *)
(*                                                                         *)
(* Starttime (born) is when the object of a process was made, counted in   *)
(* objects.  How old an entry is, is one bit: fresh.                       *)
(***************************************************************************)
EXTENDS Naturals, Sequences, SequencesExt

CONSTANTS
    Paths,      \* paths of binaries
    Parents,    \* those of processes that start others
    Comm,       \* the name that a connection has for a process whose path cannot be read
    Workers,    \* eBPF event workers
    Lookers,    \* packet workers that look the pid up
    NoPath,     \* no path
    MaxExecs,   \* bound: processes that start, and execs, successful or not
    MaxBorn     \* bound: objects of processes

ASSUME PathAssumption == Parents \subseteq Paths /\ Comm \notin Paths /\ NoPath \notin Paths \cup {Comm}

ASSUME WorkerAssumption == Workers \cap Lookers = {}

ASSUME BoundAssumption == {MaxExecs, MaxBorn} \subseteq Nat

VARIABLES
    os,         \* the process that has the pid: its state, the number of the image, its path,
                \* and whether its end will be announced
    ring,       \* events of the kernel that have not been read
    store,      \* eventByPID[pid]
    timers,     \* deletions that are scheduled
    born,       \* objects of processes made so far
    job,        \* per worker and looker: what it does
    execs,      \* processes that have started, and execs
    handled,    \* a handler of an event of the current image has ended (history)
    alone       \* each of its events was taken when nothing else was going on (history)

vars == <<os, ring, store, timers, born, job, execs, handled, alone>>

Anyone == Workers \cup Lookers

-----------------------------------------------------------------------------

NoItem == [found |-> FALSE, path |-> NoPath, born |-> 0, fresh |-> FALSE]

\* image, path: of the event; new, old: the objects that the todo list writes to the store.
Rest == [at |-> "rest", image |-> 0, path |-> NoPath,
         new |-> [path |-> NoPath, born |-> 0], old |-> [path |-> NoPath, born |-> 0],
         todo |-> <<>>]

\* IsAlive: there is an entry in /proc, also of a process that is ending.
IsAlive == os.state # "gone"

-----------------------------------------------------------------------------
(* The system *)

NewImage(o) ==
    /\ os' = [o EXCEPT !.image = os.image + 1]
    /\ execs' = execs + 1
    /\ handled' = FALSE /\ alone' = FALSE

\* A process starts, as a copy of another: no event.
Fork(p) ==
    /\ os.state = "gone" /\ p \in Parents /\ execs < MaxExecs
    /\ NewImage([os EXCEPT !.state = "running", !.path = p, !.traced = FALSE])
    /\ UNCHANGED <<ring, store, timers, born, job>>

\* The event is sent when execve returns.
Exec(p) ==
    /\ os.state = "running" /\ execs < MaxExecs
    /\ NewImage([os EXCEPT !.path = p, !.traced = TRUE])
    /\ ring' = Append(ring, [type |-> "exec", image |-> os.image + 1, path |-> p])
    /\ UNCHANGED <<store, timers, born, job>>

\* An execve that fails is announced as well.
ExecFails(p) ==
    /\ os.state = "running" /\ execs < MaxExecs
    /\ execs' = execs + 1
    /\ os' = [os EXCEPT !.traced = TRUE]
    /\ ring' = Append(ring, [type |-> "exec", image |-> os.image, path |-> p])
    /\ UNCHANGED <<store, timers, born, job, handled, alone>>

\* The process begins to end; only of one that was announced the end is, too.
ProcessExit ==
    /\ os.state = "running"
    /\ os' = [os EXCEPT !.state = "exiting"]
    /\ ring' = IF os.traced THEN Append(ring, [type |-> "exit", image |-> os.image, path |-> NoPath])
               ELSE ring
    /\ UNCHANGED <<store, timers, born, job, execs, handled, alone>>

Reap ==
    /\ os.state = "exiting"
    /\ os' = [os EXCEPT !.state = "gone"]
    /\ UNCHANGED <<ring, store, timers, born, job, execs, handled, alone>>

-----------------------------------------------------------------------------
(* The store *)

\* Mutant: an object of another path is never out of order.
IsNeverStale(proc) == FALSE

\* UpdateItem skips an object of another path that is older than the one in the store.
IsStale(proc) == store.found /\ store.path # proc.path /\ store.born > proc.born

\* UpdateItem
UpdateItem(proc) ==
    store' = IF proc.path = NoPath \/ IsStale(proc) THEN store
             ELSE [found |-> TRUE, path |-> proc.path, born |-> proc.born, fresh |-> TRUE]

\* Where a handler goes on with what it has to write: the last write is its end.  Its copy of
\* the entry is kept as long as it is to be written.
Then(w, copy, todo) ==
    /\ job' = [job EXCEPT ![w] = IF todo = <<>> THEN Rest
                 ELSE [job[w] EXCEPT !.at = "write", !.todo = todo,
                                     !.old = IF Contains(todo, "old") THEN copy ELSE Rest.old]]
    /\ handled' = (handled \/ (w \in Workers /\ todo = <<>> /\ job[w].image = os.image))

\* A step of Add, ReplaceItem or Update: the object the list says is written.
Write(w) ==
    /\ job[w].at = "write"
    /\ UpdateItem(IF Head(job[w].todo) = "new" THEN job[w].new ELSE job[w].old)
    /\ Then(w, job[w].old, Tail(job[w].todo))
    /\ UNCHANGED <<os, ring, timers, born, execs, alone>>

\* Mutant: the timer deletes whatever it finds.
FireAnyway ==
    /\ timers > 0
    /\ timers' = timers - 1
    /\ store' = NoItem
    /\ UNCHANGED <<os, ring, born, job, execs, handled, alone>>

\* Mutant: a timer that has fired fires again.
FireAgain ==
    /\ timers' = timers - 1
    /\ store' = IF IsAlive THEN store ELSE NoItem
    /\ UNCHANGED <<os, ring, born, job, execs, handled, alone>>

\* The timer of Delete: the item it was started for may be another by now.
Fire ==
    /\ timers > 0
    /\ timers' = timers - 1
    /\ store' = IF IsAlive THEN store ELSE NoItem
    /\ UNCHANGED <<os, ring, born, job, execs, handled, alone>>

\* The entry has not been written for pidTTL.
GetOld ==
    /\ store.found /\ store.fresh
    /\ store' = [store EXCEPT !.fresh = FALSE]
    /\ UNCHANGED <<os, ring, timers, born, job, execs, handled, alone>>

DeleteOldItems ==
    /\ store.found /\ ~store.fresh /\ ~IsAlive
    /\ store' = NoItem
    /\ UNCHANGED <<os, ring, timers, born, job, execs, handled, alone>>

-----------------------------------------------------------------------------
(* Events *)

IdleWorkers == {w \in Workers : job[w].at = "rest"}

\* No worker waits: the event is lost.
LoseEvent ==
    /\ ring # <<>> /\ IdleWorkers = {}
    /\ ring' = Tail(ring)
    /\ UNCHANGED <<os, store, timers, born, job, execs, handled, alone>>

\* A worker takes an exec event, and makes the object of the process.
TakeExec(w) ==
    /\ w \in IdleWorkers /\ ring # <<>> /\ Head(ring).type = "exec" /\ born < MaxBorn
    /\ ring' = Tail(ring)
    /\ born' = born + 1
    /\ job' = [job EXCEPT ![w] = [Rest EXCEPT !.at = "read", !.image = Head(ring).image,
                 !.path = Head(ring).path, !.new = [path |-> NoPath, born |-> born + 1]]]
    /\ alone' = IF Head(ring).image = os.image
                THEN (handled => alone) /\ \A v \in Anyone : job[v].at = "rest" ELSE alone
    /\ UNCHANGED <<os, store, timers, execs, handled>>

\* A worker takes an exit event: Delete starts a timer when the pid is in the store.
TakeExit(w) ==
    /\ w \in IdleWorkers /\ ring # <<>> /\ Head(ring).type = "exit"
    /\ ring' = Tail(ring)
    /\ timers' = IF store.found THEN timers + 1 ELSE timers
    /\ UNCHANGED <<os, store, born, job, execs, handled, alone>>

\* What /proc/pid/exe says.  The link of a process that is ending may be gone.
ExeLinks == CASE os.state = "running" -> {os.path}
              [] os.state = "exiting" -> {os.path, NoPath}
              [] os.state = "gone" -> {NoPath}

\* event2process: the path of the event is used when the link cannot be read.
ReadPath(w) ==
    /\ w \in Workers /\ job[w].at = "read"
    /\ \E link \in ExeLinks :
         job' = [job EXCEPT ![w] = [job[w] EXCEPT !.at = "look", !.path = NoPath,
                   !.new = [path |-> IF link = NoPath THEN job[w].path ELSE link, born |-> @.born]]]
    /\ UNCHANGED <<os, ring, store, timers, born, execs, handled, alone>>

OneOrTwo(x) == {<<x>>, <<x, x>>}

Perhaps(x) == {<<>>, <<x>>}

\* What is written when the pid is not in the store: Add once or, with checksums, twice, and
\* the handler again.
AddWrites == {a \o <<"new">> : a \in OneOrTwo("new")}

\* ReplaceItem: the new process and its checksums, the old one if it has no tree yet, and
\* the new one if it has none.
ReplaceWrites == {<<"new", "new">> \o a \o b : a \in Perhaps("old"), b \in Perhaps("new")}

\* Update of an entry of the same path, if it is needed: trees only.
UpdateWrites == {a \o b : a \in Perhaps("old"), b \in Perhaps("new")}

\* Mutant: needsUpdate does not compare paths.
WritesWithoutPaths(proc) == IF ~store.found THEN AddWrites ELSE UpdateWrites

WritesFor(proc) ==
    IF ~store.found THEN AddWrites
    ELSE IF store.path # proc.path THEN ReplaceWrites
    ELSE UpdateWrites

\* IsInStore: the handler has a copy of the entry from here on.
LookUp(w) ==
    /\ w \in Workers /\ job[w].at = "look"
    /\ \E todo \in WritesFor(job[w].new) :
         Then(w, [path |-> store.path, born |-> store.born], todo)
    /\ UNCHANGED <<os, ring, store, timers, born, execs, alone>>

-----------------------------------------------------------------------------
(* Connections *)

\* Mutant: the entry is seen now, and stays.
FindAndKeep(l) ==
    /\ l \in Lookers /\ job[l].at = "rest" /\ store.found
    /\ store' = [store EXCEPT !.fresh = TRUE]
    /\ UNCHANGED <<os, ring, timers, born, job, execs, handled, alone>>

\* IsInStoreByPID: LastSeen is set in the copy only.
Find(l) ==
    /\ l \in Lookers /\ job[l].at = "rest" /\ store.found
    /\ UNCHANGED vars

\* findConnProcess: the pid is not in the store, and a new object is made.
NotFound(l) ==
    /\ l \in Lookers /\ job[l].at = "rest" /\ ~store.found /\ born < MaxBorn
    /\ born' = born + 1
    /\ job' = [job EXCEPT ![l] = [Rest EXCEPT !.at = "read", !.new = [path |-> NoPath, born |-> born + 1]]]
    /\ UNCHANGED <<os, ring, store, timers, execs, handled, alone>>

\* NewProcess: the name that came with the connection is used when the link cannot be read.
\* Add, and Update if there is no tree.
NewProcess(l) ==
    /\ l \in Lookers /\ job[l].at = "read"
    /\ \E link \in ExeLinks, a \in OneOrTwo("new"), b \in Perhaps("new") :
         job' = [job EXCEPT ![l] = [job[l] EXCEPT !.at = "write", !.todo = a \o b,
                   !.new = [path |-> IF link = NoPath THEN Comm ELSE link, born |-> @.born]]]
    /\ UNCHANGED <<os, ring, store, timers, born, execs, handled, alone>>

-----------------------------------------------------------------------------

Init ==
    /\ os = [state |-> "gone", image |-> 0, path |-> NoPath, traced |-> FALSE]
    /\ ring = <<>> /\ store = NoItem /\ timers = 0 /\ born = 0
    /\ job = [w \in Anyone |-> Rest]
    /\ execs = 0 /\ handled = FALSE /\ alone = FALSE

System == ProcessExit \/ Reap \/ \E p \in Paths : Fork(p) \/ Exec(p) \/ ExecFails(p)

WorkerStep(w) == TakeExec(w) \/ TakeExit(w) \/ ReadPath(w) \/ LookUp(w) \/ Write(w)

LookerStep(l) == NotFound(l) \/ NewProcess(l) \/ Write(l)

Next ==
    \/ System
    \/ \E w \in Workers : WorkerStep(w)
    \/ \E l \in Lookers : LookerStep(l) \/ Find(l)
    \/ LoseEvent \/ Fire \/ GetOld \/ DeleteOldItems

Spec == Init /\ [][Next]_vars

\* Handlers end, time passes, and the ticker of the cache ticks.
Fairness ==
    /\ \A w \in Workers : WF_vars(WorkerStep(w))
    /\ \A l \in Lookers : WF_vars(LookerStep(l))
    /\ WF_vars(GetOld) /\ WF_vars(DeleteOldItems)

FairSpec == Spec /\ Fairness

-----------------------------------------------------------------------------
(* Properties *)

Object == [path : Paths \cup {Comm, NoPath}, born : 0..MaxBorn]

Event == [type : {"exec", "exit"}, image : 1..MaxExecs, path : Paths \cup {NoPath}]

\* Every variable has its type.
TypeOK ==
    /\ os \in [state : {"gone", "running", "exiting"}, image : 0..MaxExecs,
               path : Paths \cup {NoPath}, traced : BOOLEAN]
    /\ ring \in Seq(Event)
    /\ store \in [found : BOOLEAN, path : Paths \cup {Comm, NoPath}, born : 0..MaxBorn, fresh : BOOLEAN]
    /\ timers \in Nat /\ born \in 0..MaxBorn
    /\ job \in [Anyone -> [at : {"rest", "read", "look", "write"}, image : 0..MaxExecs,
                           path : Paths \cup {NoPath}, new : Object, old : Object,
                           todo : Seq({"new", "old"})]]
    /\ execs \in 0..MaxExecs /\ handled \in BOOLEAN /\ alone \in BOOLEAN

Running == os.state = "running"

\* A process whose event has been handled is in the store as long as it runs, so that the
\* user is told what opens a connection: neither a timer of a former process with the pid
\* nor the cleaning removes it.
HandledProcessIsInStore == Running /\ handled => store.found

\* "Avoid replacing new procs with old ones" (cache_events.go:108): the store has the path of
\* the current image when its events were taken with no other handler at work, whatever
\* connections, timers and older copies do afterwards.
SoleHandlerWins == Running /\ handled /\ alone => store.path = os.path

\* The entry of a process that has ended is removed, though connections keep asking for it,
\* late handlers may bring it back, and the event of the end may be lost.
DeadEntriesGo == os.state = "gone" /\ store.found ~> os.state # "gone" \/ ~store.found
=============================================================================
