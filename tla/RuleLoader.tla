----------------------------- MODULE RuleLoader -----------------------------
(***************************************************************************)
(* The rule loader of the daemon (daemon/rule/loader.go): the rules held   *)
(* in memory, the list of active rules that FindFirstMatch reads, the rule *)
(* files on disk, the timers of temporary rules and the goroutines that    *)
(* change all of them:                                                     *)
(*                                                                         *)
(*   "asker"  a packet worker that adds the rule the user answered with    *)
(*            (main.go acceptOrDeny -> Loader.Add).  The pipeline lets at  *)
(*            most one worker ask at a time, so one process is enough;     *)
(*   "ntf"    the goroutine that handles the notifications of the GUI, one *)
(*            after the other (Loader.Replace, Delete and Reload);         *)
(*   "live"   the live reload worker, fed by fsnotify (liveReloadWorker).  *)
(*                                                                         *)
(* The callbacks of time.AfterFunc and an administrator who edits the rule *)
(* files are actions of their own.  A step of a process is what it does    *)
(* between two points where another goroutine may run: a critical section  *)
(* of the loader's lock, or one access to a file.                          *)
(*                                                                         *)
(* A name is the rank of a rule's name in the order sort.Strings gives, so *)
(* a list sorted by name is a function of the names.  What a rule matches  *)
(* is not needed here; `ok' says whether Operator.Compile accepts it.  The *)
(* domain and IP lists an operator may load, and cleanListsRule, which     *)
(* stops their monitors, touch no state of this module.  A file holds the  *)
(* rule it is named after, as the files that Save writes do.               *)
(*                                                                         *)
(* Reload ranges over the rules and Load replaces their map without the    *)
(* lock.  What another goroutine may lose by that is in LoadMakeMap; that  *)
(* the daemon may also die of it (the runtime may notice the concurrent    *)
(* use of the map, and a sortRules cut in two publishes rules that are     *)
(* nil) is not modelled, for nothing follows it.                           *)
(***************************************************************************)
EXTENDS Naturals, Sequences

CONSTANTS
    NumNames,       \* how many rule names there are
    TempDurations,  \* durations that time.ParseDuration accepts ("5m", "1h")
    BadDurations,   \* temporary durations that it does not accept
    NoRule,         \* no rule under this name, no file of this name
    Garbage,        \* a file that is not JSON: truncated or half written
    UserRules,      \* the rules the user may send
    FileContents,   \* what an administrator may leave in a rule file
    InitFiles,      \* the sets of rule files the daemon may start with
    MaxOps          \* bound: operations of the user and of the administrator

Names == 1..NumNames

Procs == {"asker", "ntf", "live"}

Durations == {"always", "until restart", "once"} \cup TempDurations \cup BadDurations

Rule == [name : Names, dur : Durations, enabled : BOOLEAN, ok : BOOLEAN]

Files == [Names -> Rule \cup {NoRule, Garbage}]

Event == [op : {"Write", "Remove"}, file : Names]

ASSUME NamesAssumption == NumNames \in Nat

ASSUME DurationAssumption ==
    ({"always", "until restart", "once"} \cap (TempDurations \cup BadDurations) = {})
      /\ TempDurations \cap BadDurations = {}

ASSUME NoRuleAssumption == NoRule \notin Rule /\ Garbage \notin Rule /\ NoRule # Garbage

ASSUME InputAssumption ==
    /\ UserRules \subseteq Rule
    /\ FileContents \subseteq Rule \cup {Garbage}
    /\ InitFiles \subseteq Files
    /\ \A d \in InitFiles, n \in Names : d[n] \in Rule => d[n].name = n
    /\ MaxOps \in Nat

VARIABLES
    rules,      \* Loader.rules
    snapshot,   \* Loader.activeSnapshot: the enabled rules, in the order of their names
    dropped,    \* names in the snapshot whose rules Load threw away with their map (history)
    lock,       \* who holds the loader's lock across several steps
    disk,       \* the files of the rules directory
    events,     \* what fsnotify has for the live reload worker
    timers,     \* how many AfterFunc callbacks are pending for a name and a duration
    watching,   \* the live reload worker runs and watches the directory
    missed,     \* names whose file changed while nobody was watching (history)
    pc,         \* where each process is
    job,        \* its locals: the rule at hand, the rule it replaces, files to load
    ops         \* operations begun so far

store == <<rules, snapshot, dropped>>
files == <<disk, events, missed>>
procs == <<pc, job>>
vars == <<store, lock, files, timers, watching, procs, ops>>

-----------------------------------------------------------------------------
(* Helpers *)

\* Loader.isTemporary
isTemporary(r) == r.dur \notin {"always", "until restart", "once"}

Found(rs, n) == rs[n] # NoRule

EmptyRules == [n \in Names |-> NoRule]

\* sortRules: the active list has the enabled rules only.
ActiveRules(rs) == [n \in Names |-> IF Found(rs, n) /\ rs[n].enabled THEN rs[n] ELSE NoRule]

\* The rule is stored, or deleted with NoRule, and sortRules publishes a new list.
StoreAndSort(n, r) ==
    /\ rules' = [rules EXCEPT ![n] = r]
    /\ snapshot' = ActiveRules([rules EXCEPT ![n] = r])
    /\ dropped' = {}

\* The kernel merges an event with an identical one at the end of the queue; nothing
\* is queued for a directory that is not watched.
Notify(e) ==
    IF watching
    THEN /\ events' = IF events # <<>> /\ events[Len(events)] = e THEN events ELSE Append(events, e)
         /\ UNCHANGED missed
    ELSE /\ missed' = missed \cup {e.file}
         /\ UNCHANGED events

\* os.WriteFile and an editor that saves a file, and os.Remove: the file changes and
\* the watch reports it.  Creating an empty file is a Create event, which the worker ignores.
WriteFile(n, content) ==
    /\ disk' = [disk EXCEPT ![n] = content]
    /\ IF disk[n] = NoRule /\ content = Garbage /\ watching
       THEN UNCHANGED <<events, missed>>
       ELSE Notify([op |-> "Write", file |-> n])

RemoveFile(n) ==
    IF disk[n] = NoRule
    THEN UNCHANGED files
    ELSE /\ disk' = [disk EXCEPT ![n] = NoRule]
         /\ Notify([op |-> "Remove", file |-> n])

\* deleteOldRuleFromDisk
deleteOldRuleFromDisk(old, new) ==
    IF old # NoRule /\ old.dur = "always" /\ new.dur # "always"
    THEN RemoveFile(old.name)
    ELSE UNCHANGED files

\* Operator.Compile, which the loader only calls for an enabled rule.
CompileFails(r) == r.enabled /\ ~r.ok

\* scheduleTemporaryRule: one more AfterFunc, unless the duration does not parse.
Scheduled(ts, r) ==
    IF r.enabled /\ r.dur \in TempDurations
    THEN [ts EXCEPT ![r.name][r.dur] = @ + 1]
    ELSE ts

NoJob == [rule |-> NoRule, old |-> NoRule, todo |-> {}]

Goto(p, l) == pc' = [pc EXCEPT ![p] = l]

Done(p) == pc' = [pc EXCEPT ![p] = "idle"] /\ job' = [job EXCEPT ![p] = NoJob]

Begin == ops < MaxOps /\ ops' = ops + 1

Unlocked == lock = "free"

-----------------------------------------------------------------------------
(* Add and Replace: the asker and the notifications goroutine *)

\* The first of "n", "n-2", "n-3", ... that no rule in memory has.
UniqueName(n, m) == m >= n /\ ~Found(rules, m) /\ \A k \in n..(m - 1) : Found(rules, k)

\* Add -> addUserRule -> setUniqueName.  A rule that lasts once is never stored.
AddBegin(r) ==
    /\ pc["asker"] = "idle" /\ Unlocked /\ Begin
    /\ IF r.dur = "once"
       THEN UNCHANGED procs
       ELSE \E m \in Names :
              /\ UniqueName(r.name, m)
              /\ job' = [job EXCEPT !["asker"] = [NoJob EXCEPT !.rule = [r EXCEPT !.name = m]]]
              /\ Goto("asker", "lookup")
    /\ UNCHANGED <<store, lock, files, timers, watching>>

ReplaceBegin(r) ==
    /\ pc["ntf"] = "idle" /\ Begin
    /\ job' = [job EXCEPT !["ntf"] = [NoJob EXCEPT !.rule = r]]
    /\ Goto("ntf", "lookup")
    /\ UNCHANGED <<store, lock, files, timers, watching>>

\* replaceUserRule, first critical section: which rule has this name now?
LookupOld(p) ==
    /\ pc[p] = "lookup" /\ Unlocked
    /\ job' = [job EXCEPT ![p].old = rules[job[p].rule.name]]
    /\ Goto(p, "clean")
    /\ UNCHANGED <<store, lock, files, timers, watching, ops>>

\* Between its two critical sections replaceUserRule deletes the file of a rule that is
\* Always no more, and then compiles the new rule.  When that fails, Replace returns,
\* whereas addUserRule drops the error, so that Add goes on to save the rule.
CleanAndCompile(p) ==
    LET r == job[p].rule IN
    /\ pc[p] = "clean"
    /\ deleteOldRuleFromDisk(job[p].old, r)
    /\ \/ ~CompileFails(r) /\ Goto(p, "store") /\ UNCHANGED job
       \/ CompileFails(r) /\ p = "asker" /\ r.dur = "always" /\ Goto(p, "truncate") /\ UNCHANGED job
       \/ CompileFails(r) /\ ~(p = "asker" /\ r.dur = "always") /\ Done(p)
    /\ UNCHANGED <<store, lock, timers, watching, ops>>

\* replaceUserRule, second critical section.
StoreRule(p) ==
    LET r == job[p].rule IN
    /\ pc[p] = "store" /\ Unlocked
    /\ StoreAndSort(r.name, r)
    /\ \/ r.enabled /\ isTemporary(r) /\ Goto(p, "schedule") /\ UNCHANGED job
       \/ ~(r.enabled /\ isTemporary(r)) /\ r.dur = "always" /\ Goto(p, "truncate") /\ UNCHANGED job
       \/ ~(r.enabled /\ isTemporary(r)) /\ r.dur # "always" /\ Done(p)
    /\ UNCHANGED <<lock, files, timers, watching, ops>>

\* scheduleTemporaryRule, after the lock was released.
ScheduleRule(p) ==
    /\ pc[p] = "schedule"
    /\ timers' = Scheduled(timers, job[p].rule)
    /\ Done(p)
    /\ UNCHANGED <<store, lock, files, watching, ops>>

\* Save, in the two steps of a file write.  Replace holds the lock meanwhile, Add does not.
SaveTruncate(p) ==
    /\ pc[p] = "truncate"
    /\ IF p = "ntf" THEN Unlocked /\ lock' = p ELSE UNCHANGED lock
    /\ WriteFile(job[p].rule.name, Garbage)
    /\ Goto(p, "write")
    /\ UNCHANGED <<store, timers, watching, job, ops>>

SaveWrite(p) ==
    /\ pc[p] = "write"
    /\ WriteFile(job[p].rule.name, job[p].rule)
    /\ IF p = "ntf" THEN lock' = "free" ELSE UNCHANGED lock
    /\ Done(p)
    /\ UNCHANGED <<store, timers, watching, ops>>

-----------------------------------------------------------------------------
(* Delete *)

\* Loader.Delete, one critical section.
DeleteLocked(n) ==
    IF Found(rules, n)
    THEN /\ StoreAndSort(n, NoRule)
         /\ IF rules[n].dur = "always" THEN RemoveFile(n) ELSE UNCHANGED files
    ELSE UNCHANGED <<store, files>>

DeleteRule(n) ==
    /\ pc["ntf"] = "idle" /\ Unlocked /\ Begin
    /\ DeleteLocked(n)
    /\ UNCHANGED <<lock, timers, watching, procs>>

-----------------------------------------------------------------------------
(* The live reload worker and Reload *)

\* loadRule reads the file before it takes the lock.  A file that is gone is an error.
ReadRuleFile(p, n) == job' = [job EXCEPT ![p].rule = disk[n]]

\* A Write event: liveReloadWorker -> loadRule, up to the lock.
WorkerWriteEvent ==
    /\ watching /\ pc["live"] = "idle" /\ events # <<>> /\ Head(events).op = "Write"
    /\ events' = Tail(events)
    /\ IF disk[Head(events).file] = NoRule
       THEN UNCHANGED procs
       ELSE ReadRuleFile("live", Head(events).file) /\ Goto("live", "load")
    /\ UNCHANGED <<store, lock, disk, missed, timers, watching, ops>>

\* Mutant: the worker takes a Remove event and does not look for the rule.
WorkerIgnoresRemoveEvent ==
    /\ watching /\ pc["live"] = "idle" /\ events # <<>> /\ Head(events).op = "Remove"
    /\ Unlocked
    /\ events' = Tail(events)
    /\ UNCHANGED <<store, lock, disk, missed, timers, watching, procs, ops>>

\* A Remove event: liveReloadWorker -> deleteRule looks for the rule under the read lock.
WorkerRemoveEvent ==
    LET n == Head(events).file IN
    /\ watching /\ pc["live"] = "idle" /\ events # <<>> /\ Head(events).op = "Remove"
    /\ Unlocked
    /\ events' = Tail(events)
    /\ IF Found(rules, n) /\ rules[n].dur = "always"
       THEN job' = [job EXCEPT !["live"].todo = {n}] /\ Goto("live", "delete")
       ELSE UNCHANGED procs
    /\ UNCHANGED <<store, lock, disk, missed, timers, watching, ops>>

\* deleteRule calls Delete, which takes the lock again.
WorkerDelete ==
    /\ pc["live"] = "delete" /\ Unlocked
    /\ \E n \in job["live"].todo : DeleteLocked(n)
    /\ Done("live")
    /\ UNCHANGED <<lock, timers, watching, ops>>

\* Mutant: a rule loaded from disk gets no timer.
LoadRuleWithoutTimer(p) ==
    LET r == job[p].rule IN
    /\ pc[p] = "load" /\ Unlocked
    /\ IF r = Garbage \/ CompileFails(r)
       THEN UNCHANGED <<store, files>>
       ELSE deleteOldRuleFromDisk(rules[r.name], r) /\ StoreAndSort(r.name, r)
    /\ \/ p = "live" /\ Done(p)
       \/ p = "ntf" /\ Goto(p, "next") /\ job' = [job EXCEPT ![p].rule = NoRule]
    /\ UNCHANGED <<lock, timers, watching, ops>>

\* Mutant: loadRule writes the rule back to its file.
LoadRuleAndSave(p) ==
    LET r == job[p].rule IN
    /\ pc[p] = "load" /\ Unlocked
    /\ IF r = Garbage \/ CompileFails(r)
       THEN UNCHANGED <<store, files, timers>>
       ELSE /\ WriteFile(r.name, r)
            /\ StoreAndSort(r.name, r)
            /\ timers' = Scheduled(timers, r)
    /\ \/ p = "live" /\ Done(p)
       \/ p = "ntf" /\ Goto(p, "next") /\ job' = [job EXCEPT ![p].rule = NoRule]
    /\ UNCHANGED <<lock, watching, ops>>

\* loadRule under the lock: a rule that does not parse or does not compile is an error.
LoadRule(p) ==
    LET r == job[p].rule IN
    /\ pc[p] = "load" /\ Unlocked
    /\ IF r = Garbage \/ CompileFails(r)
       THEN UNCHANGED <<store, files, timers>>
       ELSE /\ deleteOldRuleFromDisk(rules[r.name], r)
            /\ StoreAndSort(r.name, r)
            /\ timers' = Scheduled(timers, r)
    /\ \/ p = "live" /\ Done(p)
       \/ p = "ntf" /\ Goto(p, "next") /\ job' = [job EXCEPT ![p].rule = NoRule]
    /\ UNCHANGED <<lock, watching, ops>>

\* Reload stops the worker, which must be waiting for events to be stopped, and removes
\* the watch: of the events that are queued the watcher may keep some and lose the rest.
ReloadBegin ==
    /\ pc["ntf"] = "idle" /\ pc["live"] = "idle" /\ watching /\ Begin
    /\ watching' = FALSE
    /\ \E k \in 0..Len(events) :
         /\ events' = SubSeq(events, 1, k)
         /\ missed' = missed \cup {events[i].file : i \in (k + 1)..Len(events)}
    /\ Goto("ntf", "clear")
    /\ UNCHANGED <<store, lock, disk, timers, job>>

\* Reload, critical section: all rules go and the list of active rules is nil.
ReloadClear ==
    /\ pc["ntf"] = "clear" /\ Unlocked
    /\ rules' = EmptyRules /\ snapshot' = EmptyRules /\ dropped' = {}
    /\ missed' = {}
    /\ Goto("ntf", "glob")
    /\ UNCHANGED <<lock, disk, events, timers, watching, job, ops>>

\* Load lists the files of the directory once.
LoadGlob ==
    /\ pc["ntf"] = "glob"
    /\ job' = [job EXCEPT !["ntf"].todo = {n \in Names : disk[n] # NoRule}]
    /\ Goto("ntf", "count")
    /\ UNCHANGED <<store, lock, files, timers, watching, ops>>

\* Load looks, without the lock, whether there is a rule in memory already.
LoadCount ==
    /\ pc["ntf"] = "count"
    /\ Goto("ntf", IF rules = EmptyRules THEN "make" ELSE "next")
    /\ UNCHANGED <<store, lock, files, timers, watching, job, ops>>

\* Load makes a new map, without the lock.  A rule that was stored after the look is thrown
\* away, and the published list still has it; or it has not, when the new map came between
\* the store of a rule, or its deletion, and the sortRules that follows.
LoadMakeMap ==
    /\ pc["ntf"] = "make"
    /\ rules' = EmptyRules
    /\ \/ dropped' = {n \in Names : Found(snapshot, n)} /\ UNCHANGED snapshot
       \/ rules # EmptyRules /\ snapshot' = EmptyRules /\ dropped' = {}
    /\ Goto("ntf", "next")
    /\ UNCHANGED <<lock, files, timers, watching, job, ops>>

\* Load reads the files in the order of their names.
LoadNext ==
    /\ pc["ntf"] = "next"
    /\ \E n \in job["ntf"].todo :
         /\ \A m \in job["ntf"].todo : n <= m
         /\ job' = [job EXCEPT !["ntf"] = [NoJob EXCEPT !.rule = disk[n],
                                                        !.todo = job["ntf"].todo \ {n}]]
         /\ IF disk[n] = NoRule THEN UNCHANGED pc ELSE Goto("ntf", "load")
    /\ UNCHANGED <<store, lock, files, timers, watching, ops>>

\* Load starts the worker, which watches the directory again.
LoadEnd ==
    /\ pc["ntf"] = "next" /\ job["ntf"].todo = {}
    /\ watching' = TRUE
    /\ Done("ntf")
    /\ UNCHANGED <<store, lock, files, timers, ops>>

-----------------------------------------------------------------------------
(* Timers and the administrator *)

\* Mutant: a callback may run once more than it was started.
TimerFiresTwice(n, d) ==
    /\ timers[n][d] \in Nat /\ Unlocked
    /\ timers' = [timers EXCEPT ![n][d] = @ - 1]
    /\ IF Found(rules, n) /\ rules[n].dur = d THEN StoreAndSort(n, NoRule) ELSE UNCHANGED store
    /\ UNCHANGED <<lock, files, watching, procs, ops>>

\* Mutant: the callback deletes the rule and forgets sortRules.
TimerFiresUnsorted(n, d) ==
    /\ timers[n][d] > 0 /\ Unlocked
    /\ timers' = [timers EXCEPT ![n][d] = @ - 1]
    /\ rules' = [rules EXCEPT ![n] = IF Found(rules, n) /\ rules[n].dur = d THEN NoRule ELSE @]
    /\ UNCHANGED <<snapshot, dropped, lock, files, watching, procs, ops>>

\* Mutant: the callback removes the rules whose duration is another one.
TimerFiresInverted(n, d) ==
    /\ timers[n][d] > 0 /\ Unlocked
    /\ timers' = [timers EXCEPT ![n][d] = @ - 1]
    /\ IF Found(rules, n) /\ rules[n].dur # d THEN StoreAndSort(n, NoRule) ELSE UNCHANGED store
    /\ UNCHANGED <<lock, files, watching, procs, ops>>

\* The callback of time.AfterFunc: it knows the name and the duration only.
TimerFires(n, d) ==
    /\ timers[n][d] > 0 /\ Unlocked
    /\ timers' = [timers EXCEPT ![n][d] = @ - 1]
    /\ IF Found(rules, n) /\ rules[n].dur = d
       THEN StoreAndSort(n, NoRule)
       ELSE UNCHANGED store
    /\ UNCHANGED <<lock, files, watching, procs, ops>>

AdminWrites(n, content) ==
    /\ Begin
    /\ content # Garbage => content.name = n
    /\ WriteFile(n, content)
    /\ UNCHANGED <<store, lock, timers, watching, procs>>

AdminRemoves(n) ==
    /\ Begin /\ disk[n] # NoRule
    /\ RemoveFile(n)
    /\ UNCHANGED <<store, lock, timers, watching, procs>>

-----------------------------------------------------------------------------

\* The daemon after its first Load: the files that can be loaded are in memory.
InitRules(d) ==
    [n \in Names |-> IF d[n] \in {NoRule, Garbage} \/ CompileFails(d[n]) THEN NoRule ELSE d[n]]

InitTimers(rs) ==
    [n \in Names |-> [d \in TempDurations |->
        IF Found(rs, n) /\ rs[n].enabled /\ rs[n].dur = d THEN 1 ELSE 0]]

Init ==
    /\ disk \in InitFiles
    /\ rules = InitRules(disk)
    /\ snapshot = ActiveRules(rules) /\ dropped = {}
    /\ timers = InitTimers(rules)
    /\ lock = "free" /\ events = <<>> /\ missed = {} /\ watching = TRUE
    /\ pc = [p \in Procs |-> "idle"] /\ job = [p \in Procs |-> NoJob]
    /\ ops = 0

UserStep(p) == \/ LookupOld(p) \/ CleanAndCompile(p) \/ StoreRule(p)
               \/ ScheduleRule(p) \/ SaveTruncate(p) \/ SaveWrite(p)

ReloadStep == \/ ReloadClear \/ LoadGlob \/ LoadCount \/ LoadMakeMap
              \/ LoadNext \/ LoadRule("ntf") \/ LoadEnd

LiveStep == WorkerWriteEvent \/ WorkerRemoveEvent \/ WorkerDelete \/ LoadRule("live")

Fire == \E n \in Names, d \in TempDurations : TimerFires(n, d)

Input ==
    \/ \E r \in UserRules : AddBegin(r) \/ ReplaceBegin(r)
    \/ \E n \in Names : DeleteRule(n) \/ AdminRemoves(n)
    \/ \E n \in Names, c \in FileContents : AdminWrites(n, c)
    \/ ReloadBegin

System == UserStep("asker") \/ UserStep("ntf") \/ ReloadStep \/ LiveStep \/ Fire

Next == Input \/ System

Spec == Init /\ [][Next]_vars

\* Goroutines are scheduled, timers fire, and the loader's lock is handed on in the order
\* of the requests; nothing makes the user or the administrator act.
Fairness ==
    /\ WF_vars(UserStep("asker"))
    /\ WF_vars(UserStep("ntf") \/ ReloadStep)
    /\ WF_vars(LiveStep)
    /\ \A n \in Names, d \in TempDurations : WF_vars(TimerFires(n, d))

FairSpec == Spec /\ Fairness

-----------------------------------------------------------------------------
(* Properties *)

\* Every variable has its type.
TypeOK ==
    /\ rules \in [Names -> Rule \cup {NoRule}]
    /\ snapshot \in [Names -> Rule \cup {NoRule}]
    /\ dropped \subseteq Names
    /\ lock \in {"free", "ntf"}
    /\ disk \in Files
    /\ events \in Seq(Event)
    /\ timers \in [Names -> [TempDurations -> Nat]]
    /\ watching \in BOOLEAN
    /\ missed \subseteq Names
    /\ pc \in [Procs -> {"idle", "lookup", "clean", "store", "schedule", "truncate",
                         "write", "load", "delete", "clear", "glob", "count", "make", "next"}]
    /\ job \in [Procs -> [rule : Rule \cup {NoRule, Garbage},
                          old : Rule \cup {NoRule}, todo : SUBSET Names]]
    /\ ops \in 0..MaxOps

\* The rule a process works on is a rule, or the content of the file it has read.
JobOK ==
    \A p \in Procs :
      /\ pc[p] \in {"lookup", "clean", "store", "schedule", "truncate", "write"} =>
           job[p].rule \in Rule
      /\ pc[p] = "load" => job[p].rule \in Rule \cup {Garbage}

\* What FindFirstMatch reads without a lock is, after every critical section of every
\* goroutine, the enabled rules in memory: no deleted, expired or disabled rule is still
\* applied, and no enabled one is left out.  The exception are the rules that Load throws
\* away with their map (loader.go:157): they are applied and in memory no more, until the
\* list is sorted the next time.
SnapshotIsActiveRules ==
    \A n \in Names :
      /\ Found(snapshot, n) => snapshot[n].enabled /\ (n \in dropped \/ rules[n] = snapshot[n])
      /\ Found(rules, n) /\ rules[n].enabled => Found(snapshot, n)
      /\ n \in dropped => ~Found(rules, n)

\* A temporary rule that is active has a timer pending that will remove it, or the
\* goroutine that stored it is about to start one: however additions, replacements,
\* reloads and older timers interleave, no temporary rule becomes permanent.
TempRuleHasTimer ==
    \A n \in Names :
      Found(rules, n) /\ rules[n].enabled /\ rules[n].dur \in TempDurations =>
        \/ timers[n][rules[n].dur] > 0
        \/ \E p \in Procs : /\ pc[p] = "schedule"
                             /\ job[p].rule.enabled
                             /\ job[p].rule.name = n
                             /\ job[p].rule.dur = rules[n].dur

Quiet == events = <<>> /\ \A p \in Procs : pc[p] = "idle"

\* When everything has come to rest, a rule in memory that lasts always has its file, so
\* it survives a restart of the daemon: the files that replaceUserRule, loadRule and
\* Delete remove, and the rules they remove from memory, agree in the end, except for
\* files that changed while Reload was not watching the directory.
AlwaysRuleHasFile ==
    Quiet => \A n \in Names \ missed :
               Found(rules, n) /\ rules[n].dur = "always" => disk[n] # NoRule

\* A temporary rule does not stay: it is removed, replaced by a lasting rule or disabled.
TempRulesExpire ==
    \A n \in Names :
      (Found(rules, n) /\ rules[n].enabled /\ rules[n].dur \in TempDurations) ~>
        ~(Found(rules, n) /\ rules[n].enabled /\ rules[n].dur \in TempDurations)

\* The live reload worker does not feed itself: the files that loadRule and Delete remove
\* raise events which make the worker load and delete again, but once the user and the
\* administrator stop, everything comes to rest.
ComesToRest == <>[]Quiet

\* "deleteRule deletes a rule from memory if it has been deleted from disk" (loader.go:296):
\* when the worker deletes a rule, its file is not there.
WorkerDeletesOnlyRemovedFiles ==
    [][WorkerDelete => \A n \in job["live"].todo : disk[n] = NoRule]_vars
=============================================================================
