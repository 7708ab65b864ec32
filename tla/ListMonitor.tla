---------------------------- MODULE ListMonitor ----------------------------
(***************************************************************************)
(* An operator of type lists (daemon/rule/operator_lists.go): the goroutine *)
(* that follows the files of a directory and reads them into the lists of  *)
(* the operator, the goroutines that stop it when its rule is deleted,     *)
(* replaced or reloaded, and the workers of the packets that look hosts up *)
(* in the lists.                                                           *)
(*                                                                         *)
(* What a file says is its version: every write has a new one, and a new   *)
(* modification time.  Hidden files, and files that cannot be parsed, are  *)
(* left out.  The lists are those of domains and of hashes, whose snapshot *)
(* shares its map with the operator.                                       *)
(***************************************************************************)
EXTENDS Integers, FiniteSets

CONSTANTS
    Files,      \* names of files
    Stoppers,   \* goroutines that stop the operator, each once
    Locked,     \* those that hold the lock of the loader as long as they do
    Readers,    \* workers
    MaxWrites   \* bound: files written and removed

ASSUME StopperAssumption == Locked \subseteq Stoppers

ASSUME FileAssumption == IsFiniteSet(Files)

ASSUME BoundAssumption == MaxWrites \in Nat

VARIABLES
    disk,       \* per file: its version, 0 when there is none
    writes,     \* writes and removals so far
    pattern,    \* filepath.Glob accepts the path of the directory
    monitor,    \* monitorLists and its local variables
    lists,      \* o.lists: the files, with their versions, whose entries it has
    published,  \* listSnapshot is not nil
    running,    \* listsMonitorRunning
    channel,    \* exitMonitorChan is not nil
    stopper,    \* per goroutine: where StopMonitoringLists is
    reader,     \* per worker: the map in hand, "none", "current" or "old"
    fatal,      \* the runtime has seen a map read and written at once
    contested,  \* history: two calls of StopMonitoringLists have overlapped
    blind       \* history: the monitor has overlooked a change of the set of files

vars == <<disk, writes, pattern, monitor, lists, published, running, channel, stopper,
          reader, fatal, contested, blind>>

hosts == <<lists, published>>
stops == <<running, channel, stopper, contested>>
dir == <<disk, writes, pattern>>

-----------------------------------------------------------------------------

Version == 0..MaxWrites

OnDisk == {<<f, disk[f]>> : f \in {g \in Files : disk[g] # 0}}

Existing == {f \in Files : disk[f] # 0}

\* The map is being cleared; nobody else writes to a map that a worker may have in hand.
Clearing == monitor.at \in {"clear", "erase"}

-----------------------------------------------------------------------------
(* The directory *)

WriteFile(f) ==
    /\ writes < MaxWrites
    /\ writes' = writes + 1
    /\ disk' = [disk EXCEPT ![f] = writes + 1]
    /\ UNCHANGED <<pattern, monitor, reader, fatal, blind>> /\ UNCHANGED <<hosts, stops>>

RemoveFile(f) ==
    /\ writes < MaxWrites /\ disk[f] # 0
    /\ writes' = writes + 1
    /\ disk' = [disk EXCEPT ![f] = 0]
    /\ UNCHANGED <<pattern, monitor, reader, fatal, blind>> /\ UNCHANGED <<hosts, stops>>

-----------------------------------------------------------------------------
(* monitorLists: a scan of the directory *)

\* Mutant: a directory without files ends the monitor.
GlobOrEnd ==
    /\ monitor.at = "loop"
    /\ \A s \in Stoppers : stopper[s] # "send"
    /\ monitor' = IF pattern /\ Existing # {}
                  THEN [monitor EXCEPT !.at = "stat", !.todo = Existing, !.names = Existing,
                                       !.reload = FALSE, !.new = FALSE]
                  ELSE [monitor EXCEPT !.at = "erase"]
    /\ UNCHANGED <<reader, fatal, blind>> /\ UNCHANGED <<dir, hosts, stops>>

\* Nobody stops the monitor: the files are listed.  A path that is no pattern ends it.
Glob ==
    /\ monitor.at = "loop"
    /\ \A s \in Stoppers : stopper[s] # "send"
    /\ monitor' = IF pattern THEN [monitor EXCEPT !.at = "stat", !.todo = Existing, !.names = Existing,
                                                  !.reload = FALSE, !.new = FALSE]
                             ELSE [monitor EXCEPT !.at = "erase"]
    /\ UNCHANGED <<reader, fatal, blind>> /\ UNCHANGED <<dir, hosts, stops>>

\* Mutant: the time of a file that has been seen before is not noted again.
StatOnce(f) ==
    /\ monitor.at = "stat" /\ f \in monitor.todo
    /\ LET seen == monitor.times[f]
           changed == seen # -1 /\ disk[f] # 0 /\ seen # disk[f]
       IN monitor' = [monitor EXCEPT !.todo = @ \ {f}, !.reload = @ \/ changed, !.new = @ \/ seen = -1,
                                     !.times = [@ EXCEPT ![f] = IF seen = -1 THEN disk[f] ELSE @]]
    /\ UNCHANGED <<reader, fatal, blind>> /\ UNCHANGED <<dir, hosts, stops>>

\* The modification time of a file that was listed.  One that is gone is noted with the
\* zero time, and counted.
Stat(f) ==
    /\ monitor.at = "stat" /\ f \in monitor.todo
    /\ LET seen == monitor.times[f]
           changed == seen # -1 /\ disk[f] # 0 /\ seen # disk[f]
       IN monitor' = [monitor EXCEPT !.todo = @ \ {f}, !.reload = @ \/ changed, !.new = @ \/ seen = -1,
                                     !.times = [@ EXCEPT ![f] = disk[f]]]
    /\ UNCHANGED <<reader, fatal, blind>> /\ UNCHANGED <<dir, hosts, stops>>

\* Mutant: the number of files is not reset before they are counted.
ScannedMore ==
    /\ monitor.at = "stat" /\ monitor.todo = {}
    /\ LET count == monitor.total + Cardinality(monitor.names)
           reload == monitor.reload \/ count # monitor.total
       IN /\ monitor' = [monitor EXCEPT !.at = IF reload THEN "clear" ELSE "sleep", !.total = count]
          /\ blind' = (~reload /\ (blind \/ monitor.new))
    /\ UNCHANGED <<reader, fatal>> /\ UNCHANGED <<dir, hosts, stops>>

\* The lists are read again when a file changed, or when there are more files or fewer.  As
\* many files with another name among them are overlooked.
Scanned ==
    /\ monitor.at = "stat" /\ monitor.todo = {}
    /\ LET count == Cardinality(monitor.names)
           reload == monitor.reload \/ count # monitor.total
       IN /\ monitor' = [monitor EXCEPT !.at = IF reload THEN "clear" ELSE "sleep", !.total = count]
          /\ blind' = (~reload /\ (blind \/ monitor.new))
    /\ UNCHANGED <<reader, fatal>> /\ UNCHANGED <<dir, hosts, stops>>

Sleep ==
    /\ monitor.at = "sleep"
    /\ monitor' = [monitor EXCEPT !.at = "loop"]
    /\ UNCHANGED <<reader, fatal, blind>> /\ UNCHANGED <<dir, hosts, stops>>

-----------------------------------------------------------------------------
(* ClearLists and readLists *)

\* An entry is deleted: the snapshot is still there, and has this map.
Erase(e) ==
    /\ Clearing /\ e \in lists
    /\ lists' = lists \ {e}
    /\ UNCHANGED <<monitor, published, reader, fatal, blind>> /\ UNCHANGED <<dir, stops>>

\* ClearLists of a monitor that ends, whether it was stopped or not.
Cleared ==
    /\ monitor.at = "erase" /\ lists = {}
    /\ published' = FALSE
    /\ monitor' = [monitor EXCEPT !.at = "off"]
    /\ UNCHANGED <<lists, reader, fatal, blind>> /\ UNCHANGED <<dir, stops>>

\* Mutant: the map that has been cleared is filled again.
ReuseMap ==
    /\ monitor.at = "clear" /\ lists = {}
    /\ published' = FALSE
    /\ monitor' = [monitor EXCEPT !.at = "read", !.todo = Existing]
    /\ blind' = ~(Existing \subseteq monitor.names)
    /\ UNCHANGED <<lists, reader, fatal>> /\ UNCHANGED <<dir, stops>>

\* The snapshot is gone, there is a new map, and the files are listed again.
MakeMap ==
    /\ monitor.at = "clear" /\ lists = {}
    /\ published' = FALSE
    /\ monitor' = [monitor EXCEPT !.at = "read", !.todo = Existing]
    /\ reader' = [r \in Readers |-> IF reader[r] = "current" THEN "old" ELSE reader[r]]
    /\ blind' = ~(Existing \subseteq monitor.names)
    /\ UNCHANGED <<lists, fatal>> /\ UNCHANGED <<dir, stops>>

\* A file is read, or skipped when it is gone.
ReadFile(f) ==
    /\ monitor.at = "read" /\ f \in monitor.todo
    /\ lists' = IF disk[f] = 0 THEN lists ELSE lists \cup {<<f, disk[f]>>}
    /\ monitor' = [monitor EXCEPT !.todo = @ \ {f}]
    /\ UNCHANGED <<published, reader, fatal, blind>> /\ UNCHANGED <<dir, stops>>

\* buildListSnapshot
Publish ==
    /\ monitor.at = "read" /\ monitor.todo = {}
    /\ published' = TRUE
    /\ monitor' = [monitor EXCEPT !.at = "sleep"]
    /\ UNCHANGED <<lists, reader, fatal, blind>> /\ UNCHANGED <<dir, stops>>

-----------------------------------------------------------------------------
(* StopMonitoringLists *)

Stopping == {s \in Stoppers : stopper[s] \notin {"idle", "done"}}

\* Called by cleanListsRule: nothing runs, or the channel is read and waited for.
Stop(s) ==
    /\ stopper[s] = "idle"
    /\ s \in Locked => Stopping \cap Locked = {}
    /\ stopper' = [stopper EXCEPT ![s] = CASE ~running -> "done" [] channel -> "send" [] OTHER -> "stuck"]
    /\ contested' = (contested \/ Stopping # {})
    /\ UNCHANGED <<monitor, running, channel, reader, fatal, blind>> /\ UNCHANGED <<dir, hosts>>

\* The monitor comes to its loop and receives.
Exit(s) ==
    /\ monitor.at = "loop" /\ stopper[s] = "send"
    /\ stopper' = [stopper EXCEPT ![s] = "sent"]
    /\ monitor' = [monitor EXCEPT !.at = "erase"]
    /\ UNCHANGED <<running, channel, contested, reader, fatal, blind>> /\ UNCHANGED <<dir, hosts>>

ForgetChannel(s) ==
    /\ stopper[s] = "sent"
    /\ stopper' = [stopper EXCEPT ![s] = "flag"]
    /\ channel' = FALSE
    /\ UNCHANGED <<monitor, running, contested, reader, fatal, blind>> /\ UNCHANGED <<dir, hosts>>

NotRunning(s) ==
    /\ stopper[s] = "flag"
    /\ stopper' = [stopper EXCEPT ![s] = "done"]
    /\ running' = FALSE
    /\ UNCHANGED <<monitor, channel, contested, reader, fatal, blind>> /\ UNCHANGED <<dir, hosts>>

-----------------------------------------------------------------------------
(* domainsListsCmp, matchListsCmp *)

\* The snapshot is loaded.  Without one there is no match.
LoadSnapshot(r) ==
    /\ reader[r] = "none" /\ published
    /\ reader' = [reader EXCEPT ![r] = "current"]
    /\ UNCHANGED <<monitor, fatal, blind>> /\ UNCHANGED <<dir, hosts, stops>>

\* A host is looked up in the map.  If an entry is deleted from it at this moment, the runtime
\* may notice.
LookUp(r) ==
    /\ reader[r] # "none"
    /\ reader' = [reader EXCEPT ![r] = "none"]
    /\ fatal' \in IF reader[r] = "current" /\ Clearing /\ lists # {} THEN BOOLEAN ELSE {FALSE}
    /\ UNCHANGED <<monitor, blind>> /\ UNCHANGED <<dir, hosts, stops>>

-----------------------------------------------------------------------------

\* loadLists, which Compile calls once per operator.  The monitor has not begun to look.
Init ==
    /\ writes = 0 /\ disk \in [Files -> {0}]
    /\ pattern \in BOOLEAN
    /\ monitor = [at |-> "loop", times |-> [f \in Files |-> -1], total |-> 0, names |-> {},
                  todo |-> {}, reload |-> FALSE, new |-> FALSE]
    /\ lists = {} /\ published = FALSE
    /\ running = TRUE /\ channel = TRUE
    /\ stopper = [s \in Stoppers |-> "idle"]
    /\ reader = [r \in Readers |-> "none"]
    /\ fatal = FALSE /\ contested = FALSE /\ blind = FALSE

MonitorStep ==
    \/ Glob \/ Scanned \/ Sleep \/ Cleared \/ MakeMap \/ Publish
    \/ \E f \in Files : Stat(f) \/ ReadFile(f)
    \/ \E e \in Files \X Version : Erase(e)
    \/ \E s \in Stoppers : Exit(s)

StopStep(s) == ForgetChannel(s) \/ NotRunning(s)

Next ==
    /\ ~fatal
    /\ \/ MonitorStep
       \/ \E f \in Files : WriteFile(f) \/ RemoveFile(f)
       \/ \E s \in Stoppers : Stop(s) \/ StopStep(s)
       \/ \E r \in Readers : LoadSnapshot(r) \/ LookUp(r)

Spec == Init /\ [][Next]_vars

\* The monitor and the goroutines that stop it are scheduled.
Fairness ==
    /\ WF_vars(~fatal /\ MonitorStep)
    /\ \A s \in Stoppers : WF_vars(~fatal /\ StopStep(s))

FairSpec == Spec /\ Fairness

-----------------------------------------------------------------------------

\* The types.  The monitor, and with it the lists, ends for good; the flag and the channel
\* are only reset by a stop that was received.
TypeOK ==
    /\ disk \in [Files -> Version] /\ writes \in Version /\ pattern \in BOOLEAN
    /\ monitor \in [at : {"loop", "stat", "sleep", "clear", "erase", "read", "off"},
                    times : [Files -> Version \cup {-1}], total : 0..Cardinality(Files),
                    names : SUBSET Files, todo : SUBSET Files, reload : BOOLEAN, new : BOOLEAN]
    /\ lists \subseteq Files \X (Version \ {0})
    /\ published \in BOOLEAN /\ running \in BOOLEAN /\ channel \in BOOLEAN
    /\ stopper \in [Stoppers -> {"idle", "send", "stuck", "sent", "flag", "done"}]
    /\ reader \in [Readers -> {"none", "current", "old"}]
    /\ fatal \in BOOLEAN /\ contested \in BOOLEAN /\ blind \in BOOLEAN

\* While a worker has a map in hand (operator.go:315 and 337) nothing is added to it: what the
\* snapshot was published with can only be deleted under its hands.  The lists of a reading
\* are complete before anybody can see them.
ListsInHandOnlyShrink ==
    [][\A r \in Readers : reader[r] = "current" /\ reader'[r] = "current" => lists' \subseteq lists]_vars

\* StopMonitoringLists returns, whatever the monitor is busy with, unless another call
\* overlaps it (replaceUserRule and Reload call it without the lock of the loader), or the
\* path is no pattern and the monitor has ended by itself.
StopsReturn ==
    \A s \in Stoppers :
        stopper[s] \in {"send", "stuck", "sent", "flag"} ~> (stopper[s] = "done" \/ contested \/ ~pattern \/ fatal)

\* A scan that began now would see no change in the files.
NothingToSee ==
    /\ Cardinality(Existing) = monitor.total
    /\ \A f \in Existing : monitor.times[f] = disk[f]

\* A monitor that sees nothing to read has the lists that the files say, and one that has
\* ended leaves none behind.
ListsAreCurrent ==
    /\ monitor.at \in {"loop", "sleep"} /\ ~blind /\ NothingToSee =>
         lists = OnDisk /\ (published \/ OnDisk = {})
    /\ monitor.at = "off" => lists = {} /\ ~published

\* When the files are left alone, the lists are what the files say, for good; those of an
\* operator that has been stopped are empty.  Not if the set of files has changed behind the
\* back of a scan.
ListsFollowTheDirectory ==
    <>[](fatal \/ blind \/
         IF monitor.at \in {"erase", "off"} THEN lists = {} /\ ~published
         ELSE lists = OnDisk /\ (published \/ OnDisk = {}))
=============================================================================
