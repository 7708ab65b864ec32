----------------------------- MODULE Tasks_proofs -----------------------------
(***************************************************************************)
(* For any tasks, connections and files: what is removed from the table is *)
(* stopped, what is in the table runs, and the end of a connection removes *)
(* its tasks.                                                              *)
(*                                                                         *)
(* The argument: numbers of tasks are never used again, an entry of the    *)
(* table leads to a task of its name, and while RemoveTask waits for its   *)
(* event, with the lock, nobody else changes the table.                    *)
(***************************************************************************)
EXTENDS Tasks, FiniteSetTheorems, TLAPS

\* The tasks that were made are the first ones.
Used == {i \in Ids : task[i].run # "none"}

NumbersOK == \E k \in 0..MaxTasks : Used = 1..k

\* An entry leads to a task of its name.
TableOK == \A n \in Names : table[n] # 0 => table[n] \in Used /\ task[table[n]].name = n

\* A task that was made and has not come to Start has no context yet.  It is in the table,
\* or was removed early.
StartOK ==
    \A i \in Ids :
      /\ task[i].started <=> task[i].run \notin {"none", "start"}
      /\ task[i].cancelled => task[i].started
      /\ task[i].run = "start" => i \in Listed \/ task[i].early

\* Who waits with the lock of the table has found a task, and is alone.
LockOK ==
    /\ \A c, d \in Callers : caller[c].at = "send" /\ caller[d].at = "send" => c = d
    /\ \A c \in Callers : caller[c].at = "send" => table[caller[c].name] # 0
    /\ \A c \in Callers :
         caller[c].at \in {"get", "remove", "send", "add"} => caller[c].name \in Names
    /\ caller[Main].op \in {"none", "all"}

\* A walk has come to tasks that were made.  A temporary one that StopTempTasks came to has
\* gone, or is the one that it is about to remove.
WalkOK ==
    \A c \in Callers :
      /\ caller[c].seen \subseteq Used
      /\ caller[c].op = "temp" => caller[c].at \in {"range", "get", "remove", "send"}
      /\ caller[c].op = "temp" =>
           \A n \in Names :
             IsTemporary(n) /\ table[n] # 0 /\ table[n] \in caller[c].seen =>
               caller[c].at \in {"get", "remove", "send"} /\ caller[c].name = n

Parts ==
    NumbersOK /\ TableOK /\ StartOK /\ LockOK /\ WalkOK /\ RemovedTasksAreStopped /\ ListedTasksRun

IInv == TypeOK /\ Parts

-----------------------------------------------------------------------------
(* Steps of one kind *)

\* A caller moves on: the table and the tasks are as they were.
LEMMA CallerInv ==
  ASSUME IInv, NEW c \in Callers, NEW d \in CallerRecord,
         caller' = [caller EXCEPT ![c] = d], UNCHANGED <<table, task, panic>>,
         session' \in Sessions, calls' \in 0..MaxCalls,
         manager' \in {"on", "cancelled", "off"}, manager' = "on" => manager = "on",
         d.at = "send" => Unlocked /\ table[d.name] # 0,
         d.at \in {"get", "remove", "send", "add"} => d.name \in Names,
         c = Main => d.op \in {"none", "all"},
         d.seen \subseteq Used,
         d.op = "temp" => d.at \in {"range", "get", "remove", "send"},
         d.op = "temp" =>
           \A n \in Names :
             IsTemporary(n) /\ table[n] # 0 /\ table[n] \in d.seen =>
               d.at \in {"get", "remove", "send"} /\ d.name = n
  PROVE  IInv'
<1> USE DEF IInv, Parts
<1>1. caller' \in [Callers -> CallerRecord] /\ TypeOK'
  BY DEF TypeOK
<1>2. caller'[c] = d /\ \A e \in Callers \ {c} : caller'[e] = caller[e]
  BY DEF TypeOK
<1>3. (NumbersOK /\ TableOK /\ StartOK)'
  BY DEF NumbersOK, TableOK, StartOK, Used, Listed
<1>4. (RemovedTasksAreStopped /\ ListedTasksRun)'
  BY DEF RemovedTasksAreStopped, ListedTasksRun, Listed
<1>5. LockOK'
  BY <1>2 DEF LockOK, Unlocked, Callers
<1>6. WalkOK'
  BY <1>2 DEF WalkOK, Used
<1> QED BY <1>1, <1>3, <1>4, <1>5, <1>6

\* A goroutine of a task moves on: only its task changes.
LEMMA TaskInv ==
  ASSUME IInv, NEW i \in Ids, NEW t \in TaskRecord,
         task' = [task EXCEPT ![i] = t], UNCHANGED <<table, caller, session, calls, manager>>,
         panic' \in BOOLEAN,
         t.name = task[i].name, t.run = "none" <=> task[i].run = "none",
         t.started <=> t.run \notin {"none", "start"},
         t.cancelled => t.started,
         t.run = "start" => i \in Listed \/ t.early,
         t.started /\ i \notin Listed /\ ~t.early => t.cancelled,
         manager = "on" /\ i \in Listed =>
           t.run \in {"start", "failed"} \/ (t.run \in {"add", "wait"} /\ ~t.cancelled)
  PROVE  IInv'
<1> USE DEF IInv, Parts
<1>1. TypeOK'
  BY DEF TypeOK
<1>2. task'[i] = t /\ \A j \in Ids \ {i} : task'[j] = task[j]
  BY DEF TypeOK
<1>3. Used' = Used
  BY <1>2 DEF Used
<1>4. (NumbersOK /\ TableOK /\ StartOK)'
  <2>1. NumbersOK'
    BY <1>3 DEF NumbersOK
  <2>2. TableOK'
    BY <1>2, <1>3 DEF TableOK, TypeOK, Used
  <2>3. StartOK'
    BY <1>2 DEF StartOK, Listed
  <2> QED BY <2>1, <2>2, <2>3
<1>5. Listed' = Listed
  BY DEF Listed
<1>6. RemovedTasksAreStopped'
  BY <1>2, <1>5 DEF RemovedTasksAreStopped
<1>7. ListedTasksRun'
  <2>1. Listed \subseteq Ids
    BY DEF Listed, TypeOK
  <2> QED BY <1>2, <1>5, <2>1 DEF ListedTasksRun
<1>8. (LockOK /\ WalkOK)'
  BY <1>3 DEF LockOK, WalkOK
<1> QED BY <1>1, <1>4, <1>6, <1>7, <1>8

-----------------------------------------------------------------------------
(* AddTask and RemoveTask *)

LEMMA Finite == IsFiniteSet(Ids) /\ MaxTasks \in Nat
  BY BoundAssumption, FS_Interval DEF Ids

\* The number of the next task is new, and the tasks that were made are the first ones.
LEMMA NextNumber ==
  ASSUME IInv, Made < MaxTasks
  PROVE  Made + 1 \in Ids /\ Made \in Nat /\ Used = 1..Made /\ task[Made + 1].run = "none"
<1>1. PICK k \in 0..MaxTasks : Used = 1..k
  BY DEF IInv, Parts, NumbersOK
<1>2. Cardinality(1..k) = k
  BY <1>1, BoundAssumption, FS_Interval
<1>3. Made = k
  BY <1>1, <1>2 DEF Made, Used
<1>4. Made + 1 \in Ids /\ Made \in Nat
  BY <1>3, BoundAssumption DEF Ids
<1>5. Made + 1 \notin Used
  BY <1>1, <1>3
<1> QED BY <1>1, <1>3, <1>4, <1>5 DEF Used

\* AddTask, called by a goroutine that then moves on, or ends what it did.
LEMMA AddInv ==
  ASSUME IInv, NEW c \in Callers, NEW n \in Names, AddTask(c, n),
         caller' = caller \/ caller' = [caller EXCEPT ![c] = Idle],
         calls' \in 0..MaxCalls, UNCHANGED <<session, manager>>
  PROVE  IInv'
<1> USE DEF IInv, Parts
<1>1. Idle \in CallerRecord
  BY DEF Idle, CallerRecord
<1>2. \A d \in Callers : caller'[d] = caller[d] \/ caller'[d] = Idle
  BY DEF TypeOK
<1>3. caller' \in [Callers -> CallerRecord]
  BY <1>1 DEF TypeOK
<1>4. CASE table[n] # 0 /\ UNCHANGED <<table, task, panic>>
  <2>1. TypeOK'
    BY <1>3, <1>4 DEF TypeOK
  <2>2. (NumbersOK /\ TableOK /\ StartOK)'
    BY <1>4 DEF NumbersOK, TableOK, StartOK, Used, Listed
  <2>3. (RemovedTasksAreStopped /\ ListedTasksRun)'
    BY <1>4 DEF RemovedTasksAreStopped, ListedTasksRun, Listed
  <2>4. LockOK' /\ WalkOK'
    BY <1>2, <1>4 DEF LockOK, WalkOK, Idle, Callers, Used
  <2> QED BY <2>1, <2>2, <2>3, <2>4
<1>5. CASE table[n] = 0 /\ Made < MaxTasks
           /\ task' = [task EXCEPT ![Made + 1] = [NoTask EXCEPT !.name = n, !.run = "start"]]
           /\ Write(c, n, Made + 1)
  <2> DEFINE new == [NoTask EXCEPT !.name = n, !.run = "start"]
             j == Made + 1
  <2>1. j \in Ids /\ Made \in Nat /\ Used = 1..Made /\ task[j].run = "none"
    BY <1>5, NextNumber
  <2>2. new \in TaskRecord /\ new.run = "start" /\ new.name = n /\ ~new.started /\ ~new.cancelled
    BY DEF NoTask, TaskRecord
  <2>3. task' = [task EXCEPT ![j] = new] /\ table' = [table EXCEPT ![n] = j] /\ panic' \in BOOLEAN
    BY <1>5 DEF Write
  <2> HIDE DEF new, j
  <2>4. /\ task'[j] = new /\ \A i \in Ids \ {j} : task'[i] = task[i]
        /\ table'[n] = j /\ \A m \in Names \ {n} : table'[m] = table[m]
    BY <2>1, <2>3 DEF TypeOK
  <2>5. TypeOK'
    BY <1>3, <2>1, <2>2, <2>3 DEF TypeOK
  <2>6. Used' = Used \cup {j} /\ j \notin Used
    BY <2>1, <2>2, <2>4 DEF Used
  <2>7. NumbersOK'
    <3>1. Made + 1 \in 0..MaxTasks
      BY <2>1, Finite DEF Ids, j
    <3>2. Used' = 1..(Made + 1)
      BY <2>1, <2>6 DEF j
    <3> QED BY <3>1, <3>2 DEF NumbersOK
  <2>8. TableOK'
    <3> SUFFICES ASSUME NEW m \in Names, table'[m] # 0
                 PROVE  table'[m] \in Used' /\ task'[table'[m]].name = m
      BY DEF TableOK
    <3>1. CASE m = n
      BY <2>2, <2>4, <2>6, <3>1
    <3>2. CASE m # n
      <4>1. table'[m] = table[m] /\ table[m] \in Used /\ task[table[m]].name = m
        BY <2>4, <3>2 DEF TableOK
      <4>2. table[m] \in Ids \ {j}
        BY <2>6, <4>1 DEF Used
      <4> QED BY <2>4, <2>6, <4>1, <4>2
    <3> QED BY <3>1, <3>2
  <2>9. Listed' = Listed \cup {j}
    BY <1>5, <2>1, <2>4 DEF Listed, Ids
  <2>10. StartOK'
    BY <2>2, <2>4, <2>9 DEF StartOK
  <2>11. RemovedTasksAreStopped'
    BY <2>2, <2>4, <2>9 DEF RemovedTasksAreStopped
  <2>12. ListedTasksRun'
    <3>1. Listed \subseteq Ids
      BY DEF Listed, TypeOK
    <3> QED BY <2>1, <2>2, <2>4, <2>9, <3>1 DEF ListedTasksRun
  <2>13. LockOK'
    BY <1>2, <2>1, <2>4 DEF LockOK, AddTask, Unlocked, Idle, Callers
  <2>14. WalkOK'
    BY <1>2, <2>4, <2>6 DEF WalkOK, Idle
  <2> QED BY <2>5, <2>7, <2>8, <2>10, <2>11, <2>12, <2>13, <2>14
<1> QED BY <1>4, <1>5 DEF AddTask

\* Where a caller goes on after RemoveTask
LEMMA Returns ==
  ASSUME IInv, NEW c \in Callers, caller[c].at \in {"remove", "send"}
  PROVE  \E d \in CallerRecord :
           /\ Return(c) <=> caller' = [caller EXCEPT ![c] = d]
           /\ d.at \in {"idle", "add", "range"}
           /\ d.op \in {"none", caller[c].op} /\ d.name \in {NoName, caller[c].name}
           /\ d.at = "add" => d.name \in Names
           /\ d.seen \subseteq caller[c].seen
           /\ d.op = "temp" => d.at = "range"
<1> USE DEF IInv, Parts
<1> DEFINE place == After(caller[c].op)
           d == IF place = "idle" THEN Idle ELSE [caller[c] EXCEPT !.at = place]
<1>1. place \in {"idle", "add", "range"}
  BY DEF After
<1>2. caller[c] \in CallerRecord /\ caller[c].name \in Names
  BY DEF TypeOK, LockOK
<1>3. d \in CallerRecord /\ d.at = place
  BY <1>1, <1>2 DEF CallerRecord, Idle
<1>4. /\ d.op \in {"none", caller[c].op} /\ d.name \in {NoName, caller[c].name}
      /\ d.at = "add" => d.name \in Names
      /\ d.seen \subseteq caller[c].seen
      /\ d.op = "temp" => d.at = "range"
  BY <1>1, <1>2 DEF CallerRecord, Idle, After
<1>5. Return(c) <=> caller' = [caller EXCEPT ![c] = d]
  BY DEF Return
<1> QED BY <1>1, <1>3, <1>4, <1>5

\* RemoveTask ends: the task it stops is the one whose entry it deletes.
LEMMA RemovedInv ==
  ASSUME IInv, NEW c \in Callers, Removed(c)
  PROVE  IInv'
<1> USE DEF IInv, Parts
<1> DEFINE n == caller[c].name
           i == table[n]
           t == [Stopped(task[i]) EXCEPT !.early = task[i].run = "start"]
<1>1. /\ n \in Names /\ i \in Ids /\ i \in Used /\ task[i].name = n /\ task[i] \in TaskRecord
      /\ caller[c].at = "send"
  BY DEF Removed, LockOK, TableOK, Used, TypeOK
<1>2. CASE task[i].closed
  <2>1. UNCHANGED <<table, task, caller, session, calls, manager>> /\ panic' = TRUE
    BY <1>2 DEF Removed
  <2>2. TypeOK'
    BY <2>1 DEF TypeOK
  <2>3. Parts'
    BY <2>1 DEF NumbersOK, TableOK, StartOK, LockOK, WalkOK, RemovedTasksAreStopped,
        ListedTasksRun, Listed, Used
  <2> QED BY <2>2, <2>3
<1>3. CASE ~task[i].closed
  <2>1. /\ task' = [task EXCEPT ![i] = t] /\ table' = [table EXCEPT ![n] = 0]
        /\ panic' \in BOOLEAN /\ Return(c) /\ UNCHANGED <<session, calls, manager>>
    BY <1>3 DEF Removed, Write
  <2>2. /\ t \in TaskRecord /\ t.name = n /\ t.run = task[i].run /\ t.started = task[i].started
        /\ t.cancelled = (task[i].cancelled \/ task[i].started) /\ t.early = (task[i].run = "start")
    <3> DEFINE cancelled == task[i].cancelled \/ task[i].started
               closed == task[i].closed \/ Kind[task[i].name] = "looper"
               early == task[i].run = "start"
    <3>1. cancelled \in BOOLEAN /\ closed \in BOOLEAN /\ early \in BOOLEAN
      BY Zenon
    <3>2. t = [task[i] EXCEPT !.ticking = FALSE, !.cancelled = cancelled, !.closed = closed,
                              !.early = early]
      BY <1>1 DEF Stopped, TaskRecord
    <3>3. t.cancelled = cancelled /\ t.early = early
      BY <1>1, <3>2 DEF TaskRecord
    <3> HIDE DEF cancelled, closed, early
    <3>4. /\ t \in TaskRecord /\ t.name = n /\ t.run = task[i].run /\ t.started = task[i].started
      BY <1>1, <3>1, <3>2, ZenonT(40) DEF TaskRecord
    <3> QED BY <3>3, <3>4 DEF cancelled, early
  <2> HIDE DEF t
  <2>3. PICK d \in CallerRecord :
          /\ caller' = [caller EXCEPT ![c] = d]
          /\ d.at \in {"idle", "add", "range"} /\ d.op \in {"none", caller[c].op}
          /\ d.at = "add" => d.name \in Names
          /\ d.seen \subseteq caller[c].seen
          /\ d.op = "temp" => d.at = "range"
    BY <1>1, <2>1, Returns
  <2>4. /\ task'[i] = t /\ \A j \in Ids \ {i} : task'[j] = task[j]
        /\ table'[n] = 0 /\ \A m \in Names \ {n} : table'[m] = table[m]
        /\ caller'[c] = d /\ \A e \in Callers \ {c} : caller'[e] = caller[e]
    BY <1>1, <2>1, <2>3 DEF TypeOK
  <2>5. TypeOK'
    BY <1>1, <2>1, <2>2, <2>3 DEF TypeOK
  <2>6. Used' = Used
    BY <1>1, <2>2, <2>4 DEF Used
  <2>7. NumbersOK'
    BY <2>6 DEF NumbersOK
  <2>8. TableOK'
    <3> SUFFICES ASSUME NEW m \in Names, table'[m] # 0
                 PROVE  table'[m] \in Used' /\ task'[table'[m]].name = m
      BY DEF TableOK
    <3>1. m # n /\ table'[m] = table[m] /\ table[m] \in Used /\ task[table[m]].name = m
      BY <2>4 DEF TableOK
    <3>2. table[m] \in Ids \ {i}
      BY <1>1, <3>1 DEF Used
    <3> QED BY <2>4, <2>6, <3>1, <3>2
  <2>9. Listed' \subseteq Listed /\ i \notin Listed' /\ Listed \subseteq Listed' \cup {i}
    <3>1. \A m \in Names \ {n} : table[m] # i
      BY <1>1 DEF TableOK, Ids
    <3> QED BY <1>1, <2>4, <3>1 DEF Listed
  <2>10. StartOK'
    BY <1>1, <2>2, <2>4, <2>9, ZenonT(40) DEF StartOK
  <2>11. RemovedTasksAreStopped'
    <3> SUFFICES ASSUME NEW j \in Ids, task'[j].started, j \notin Listed', ~task'[j].early
                 PROVE  task'[j].cancelled
      BY DEF RemovedTasksAreStopped
    <3>1. CASE j = i
      BY <2>2, <2>4, <3>1
    <3>2. CASE j # i
      BY <2>4, <2>9, <3>2 DEF RemovedTasksAreStopped
    <3> QED BY <3>1, <3>2
  <2>12. ListedTasksRun'
    <3>1. Listed \subseteq Ids
      BY DEF Listed, TypeOK
    <3> QED BY <2>1, <2>4, <2>9, <3>1 DEF ListedTasksRun
  <2>13. LockOK'
    <3>1. \A e \in Callers \ {c} : caller[e].at # "send"
      BY <1>1 DEF LockOK
    <3> QED BY <2>3, <2>4, <3>1 DEF LockOK, Callers
  <2>14. WalkOK'
    <3> SUFFICES ASSUME NEW e \in Callers
                 PROVE /\ caller'[e].seen \subseteq Used'
                       /\ caller'[e].op = "temp" =>
                            caller'[e].at \in {"range", "get", "remove", "send"}
                       /\ caller'[e].op = "temp" =>
                            \A m \in Names :
                              IsTemporary(m) /\ table'[m] # 0 /\ table'[m] \in caller'[e].seen =>
                                caller'[e].at \in {"get", "remove", "send"} /\ caller'[e].name = m
      BY DEF WalkOK, IsTemporary
    <3>1. CASE e # c
      BY <2>4, <2>6, <3>1 DEF WalkOK
    <3>2. CASE e = c
      <4>1. d.seen \subseteq Used
        BY <2>3 DEF WalkOK
      <4>2. ASSUME d.op = "temp", NEW m \in Names, IsTemporary(m), table'[m] # 0, table'[m] \in d.seen
            PROVE  FALSE
        <5>1. m # n /\ table'[m] = table[m] /\ table[m] \in caller[c].seen /\ caller[c].op = "temp"
          BY <2>3, <2>4, <4>2
        <5> QED BY <4>2, <5>1 DEF WalkOK
      <4> QED BY <2>3, <2>4, <2>6, <3>2, <4>1, <4>2
    <3> QED BY <3>1, <3>2
  <2> QED BY <2>5, <2>7, <2>8, <2>10, <2>11, <2>12, <2>13, <2>14
<1> QED BY <1>2, <1>3

-----------------------------------------------------------------------------
(* Every step *)

LEMMA InitInv == Init => IInv
<1> SUFFICES ASSUME Init PROVE IInv
  OBVIOUS
<1>1. NoTask \in TaskRecord /\ Idle \in CallerRecord
  BY DEF NoTask, TaskRecord, Idle, CallerRecord
<1>2. TypeOK
  <2>1. task \in [Ids -> TaskRecord] /\ caller \in [Callers -> CallerRecord]
    BY <1>1 DEF Init
  <2>2. table \in [Names -> Ids \cup {0}] /\ calls \in 0..MaxCalls
    BY BoundAssumption DEF Init
  <2> QED BY <2>1, <2>2 DEF Init, TypeOK
<1>3. Used = {}
  BY DEF Init, NoTask, Used
<1>4. NumbersOK
  <2>1. 0 \in 0..MaxTasks /\ 1..0 = {}
    BY BoundAssumption
  <2> QED BY <1>3, <2>1 DEF NumbersOK
<1>5. TableOK /\ StartOK /\ LockOK /\ WalkOK
  BY <1>3 DEF Init, NoTask, Idle, TableOK, StartOK, LockOK, WalkOK, Callers
<1>6. RemovedTasksAreStopped /\ ListedTasksRun
  BY DEF Init, NoTask, RemovedTasksAreStopped, ListedTasksRun, Listed
<1> QED BY <1>2, <1>4, <1>5, <1>6 DEF IInv, Parts

LEMMA ListedAreUsed == IInv => Listed \subseteq Used
  BY DEF IInv, Parts, TableOK, Listed

\* The steps of walks and of RemoveTask.
LEMMA CallerStepInv ==
  ASSUME IInv, NEW c \in Callers, CallerStep(c)
  PROVE  IInv'
<1> USE DEF IInv, Parts
<1>0. /\ caller[c] \in CallerRecord /\ session \in Sessions /\ calls \in 0..MaxCalls
      /\ manager \in {"on", "cancelled", "off"} /\ Listed \subseteq Used /\ Used \subseteq Ids
  BY ListedAreUsed DEF TypeOK, Used
<1>1. ASSUME NEW n \in Names, Visit(c, n)
      PROVE  IInv'
  <2> DEFINE d == [caller[c] EXCEPT !.name = n, !.seen = @ \cup {table[n]},
                                    !.at = IF caller[c].op = "temp" THEN "get" ELSE "remove"]
  <2>1. table[n] \in Used /\ caller[c].at = "range" /\ caller[c].seen \subseteq Used
    BY <1>1 DEF Visit, TableOK, WalkOK
  <2>2. /\ d \in CallerRecord /\ d.op = caller[c].op /\ d.name = n
        /\ d.seen = caller[c].seen \cup {table[n]}
        /\ d.at = IF caller[c].op = "temp" THEN "get" ELSE "remove"
    BY <1>0, <2>1 DEF CallerRecord
  <2>3. /\ caller' = [caller EXCEPT ![c] = d]
        /\ UNCHANGED <<table, task, session, calls, manager, panic>>
    BY <1>1 DEF Visit
  <2> HIDE DEF d
  <2>4. ASSUME d.op = "temp", NEW m \in Names, IsTemporary(m), table[m] # 0, table[m] \in d.seen
        PROVE  d.at \in {"get", "remove", "send"} /\ d.name = m
    <3>1. table[m] \notin caller[c].seen
      BY <2>1, <2>2, <2>4 DEF WalkOK
    <3>2. table[m] = table[n]
      BY <2>2, <2>4, <3>1
    <3>3. m = n
      BY <2>4, <3>2 DEF TableOK
    <3> QED BY <2>2, <2>4, <3>3
  <2>5. c = Main => d.op \in {"none", "all"}
    BY <2>2 DEF LockOK
  <2> QED BY <1>0, <2>1, <2>2, <2>3, <2>4, <2>5, CallerInv, ZenonT(40)
<1>2. CASE RangeEnds(c)
  <2>1. CASE c = Main
    <3> DEFINE d == [caller[c] EXCEPT !.at = "done"]
    <3>1. /\ d \in CallerRecord /\ d.at = "done" /\ d.op = caller[c].op /\ d.seen = caller[c].seen
          /\ d.op \in {"none", "all"} /\ d.seen \subseteq Used
      BY <1>0, <2>1 DEF CallerRecord, LockOK, WalkOK
    <3>2. /\ caller' = [caller EXCEPT ![c] = d] /\ manager' = "cancelled"
          /\ UNCHANGED <<table, task, session, calls, panic>>
      BY <1>2, <2>1 DEF RangeEnds, GoTo
    <3> HIDE DEF d
    <3> QED BY <1>0, <3>1, <3>2, CallerInv
  <2>2. CASE c # Main
    <3>1. Idle \in CallerRecord /\ Idle.at = "idle" /\ Idle.op = "none" /\ Idle.seen = {}
      BY DEF Idle, CallerRecord
    <3>2. /\ caller' = [caller EXCEPT ![c] = Idle]
          /\ UNCHANGED <<table, task, session, calls, manager, panic>>
      BY <1>2, <2>2 DEF RangeEnds
    <3> QED BY <1>0, <3>1, <3>2, CallerInv
  <2> QED BY <2>1, <2>2
<1>3. CASE GetTask(c)
  <2> DEFINE n == caller[c].name
             removes == table[n] # 0 /\ IsTemporary(n)
             d == [caller[c] EXCEPT !.at = IF removes THEN "remove" ELSE "range"]
  <2>1. /\ caller' = [caller EXCEPT ![c] = d] /\ caller[c].at = "get" /\ n \in Names
        /\ UNCHANGED <<table, task, session, calls, manager, panic>>
    BY <1>3 DEF GetTask, GoTo, LockOK
  <2>2. /\ d \in CallerRecord /\ d.at = (IF removes THEN "remove" ELSE "range") /\ d.name = n
        /\ d.op = caller[c].op /\ d.seen = caller[c].seen
    <3> HIDE DEF removes
    <3> QED BY <1>0 DEF CallerRecord
  <2> HIDE DEF d
  <2>3. d.seen \subseteq Used /\ (c = Main => d.op \in {"none", "all"})
    BY <2>2 DEF LockOK, WalkOK
  <2>4. ASSUME d.op = "temp", NEW m \in Names, IsTemporary(m), table[m] # 0, table[m] \in d.seen
        PROVE  d.at \in {"get", "remove", "send"} /\ d.name = m
    <3>1. n = m
      BY <2>2, <2>4 DEF WalkOK
    <3> QED BY <2>2, <2>4, <3>1
  <2> QED BY <1>0, <2>1, <2>2, <2>3, <2>4, CallerInv
<1>4. CASE AddAgain(c)
  <2>1. caller[c].name \in Names
    BY <1>4 DEF AddAgain, LockOK
  <2> QED BY <1>0, <1>4, <2>1, AddInv DEF AddAgain
<1>5. CASE RemoveTask(c)
  <2> DEFINE n == caller[c].name
  <2>0. /\ caller[c].at = "remove" /\ Unlocked /\ n \in Names
        /\ UNCHANGED <<table, task, session, calls, manager, panic>>
    BY <1>5 DEF RemoveTask, LockOK
  <2>1. CASE table[n] = 0
    <3>1. PICK d \in CallerRecord :
            /\ caller' = [caller EXCEPT ![c] = d]
            /\ d.at \in {"idle", "add", "range"} /\ d.op \in {"none", caller[c].op}
            /\ d.at = "add" => d.name \in Names
            /\ d.seen \subseteq caller[c].seen
            /\ d.op = "temp" => d.at = "range"
      BY <1>5, <2>0, <2>1, Returns DEF RemoveTask
    <3>2. d.seen \subseteq Used /\ (c = Main => d.op \in {"none", "all"})
      BY <3>1 DEF LockOK, WalkOK
    <3>3. ASSUME d.op = "temp", NEW m \in Names, IsTemporary(m), table[m] # 0, table[m] \in d.seen
          PROVE  FALSE
      <4>1. caller[c].op = "temp" /\ table[m] \in caller[c].seen
        BY <3>1, <3>3
      <4>2. n = m
        BY <3>3, <4>1 DEF WalkOK
      <4> QED BY <2>1, <3>3, <4>2
    <3> QED BY <1>0, <2>0, <3>1, <3>2, <3>3, CallerInv
  <2>2. CASE table[n] # 0
    <3> DEFINE d == [caller[c] EXCEPT !.at = "send"]
    <3>1. caller' = [caller EXCEPT ![c] = d]
      BY <1>5, <2>2 DEF RemoveTask, GoTo
    <3>2. /\ d \in CallerRecord /\ d.at = "send" /\ d.name = n /\ d.op = caller[c].op
          /\ d.seen = caller[c].seen
      BY <1>0 DEF CallerRecord
    <3> HIDE DEF d
    <3>3. d.seen \subseteq Used /\ (c = Main => d.op \in {"none", "all"})
      BY <3>2 DEF LockOK, WalkOK
    <3>4. d.op = "temp" =>
            \A m \in Names : IsTemporary(m) /\ table[m] # 0 /\ table[m] \in d.seen => n = m
      BY <3>2 DEF WalkOK
    <3> QED BY <1>0, <2>0, <2>2, <3>1, <3>2, <3>3, <3>4, CallerInv
  <2> QED BY <2>1, <2>2
<1>6. CASE Removed(c)
  BY <1>6, RemovedInv
<1> QED BY <1>1, <1>2, <1>3, <1>4, <1>5, <1>6 DEF CallerStep

\* What the invariant says of one task.
TaskOK(i, t) ==
    /\ t \in TaskRecord
    /\ t.started <=> t.run \notin {"none", "start"}
    /\ t.cancelled => t.started
    /\ t.run = "start" => i \in Listed \/ t.early
    /\ t.started /\ i \notin Listed /\ ~t.early => t.cancelled
    /\ manager = "on" /\ i \in Listed =>
         t.run \in {"start", "failed"} \/ (t.run \in {"add", "wait"} /\ ~t.cancelled)

LEMMA TasksAreOK ==
  ASSUME IInv, NEW i \in Ids
  PROVE  TaskOK(i, task[i])
<1>1. i \in Listed => task[i].run # "none" /\ \E n \in Names : table[n] = i
  BY DEF IInv, Parts, TableOK, Listed, Used
<1> QED BY <1>1 DEF IInv, Parts, TypeOK, StartOK, RemovedTasksAreStopped, ListedTasksRun, TaskOK

\* The goroutine of a task: from AddTask to its end.
LEMMA RunStepInv ==
  ASSUME IInv, NEW i \in Ids, RunStep(i)
  PROVE  IInv'
<1>0. TaskOK(i, task[i]) /\ panic \in BOOLEAN
  BY TasksAreOK DEF IInv, TypeOK
<1> USE DEF TaskOK
<1>1. CASE StartFails(i)
  <2> DEFINE t == [task[i] EXCEPT !.run = "failed", !.started = TRUE, !.cancelled = TRUE]
  <2>1. /\ task' = [task EXCEPT ![i] = t] /\ task[i].run = "start"
        /\ UNCHANGED <<table, caller, session, calls, manager, panic>>
    BY <1>1 DEF StartFails
  <2>2. t \in TaskRecord /\ t.name = task[i].name /\ t.run = "failed" /\ t.started /\ t.cancelled
    BY <1>0 DEF TaskRecord
  <2> HIDE DEF t
  <2> QED BY <1>0, <2>1, <2>2, TaskInv
<1>2. CASE Start(i)
  <2> DEFINE work == IF Kind[task[i].name] = "looper" THEN "tick" ELSE "check"
             t == [task[i] EXCEPT !.run = "add", !.started = TRUE, !.ticking = TRUE, !.worker = work]
  <2>1. /\ task' = [task EXCEPT ![i] = t] /\ task[i].run = "start"
        /\ UNCHANGED <<table, caller, session, calls, manager, panic>>
    BY <1>2 DEF Start
  <2>2. work \in {"tick", "check"}
    OBVIOUS
  <2> HIDE DEF work
  <2>3. /\ t \in TaskRecord /\ t.name = task[i].name /\ t.run = "add" /\ t.started
        /\ t.cancelled = task[i].cancelled /\ t.early = task[i].early
    BY <1>0, <2>2 DEF TaskRecord
  <2> HIDE DEF t
  <2>4. ~task[i].cancelled /\ (i \in Listed \/ t.early)
    BY <1>0, <2>1, <2>3
  <2> QED BY <1>0, <2>1, <2>3, <2>4, TaskInv
<1>3. CASE TaskAdded(i)
  <2> DEFINE t == [task[i] EXCEPT !.run = "wait", !.listener = "on"]
  <2>1. /\ task' = [task EXCEPT ![i] = t] /\ task[i].run = "add"
        /\ UNCHANGED <<table, caller, session, calls, manager, panic>>
    BY <1>3 DEF TaskAdded
  <2>2. /\ t \in TaskRecord /\ t.name = task[i].name /\ t.run = "wait"
        /\ t.started = task[i].started /\ t.cancelled = task[i].cancelled /\ t.early = task[i].early
    BY <1>0 DEF TaskRecord
  <2> HIDE DEF t
  <2> QED BY <1>0, <2>1, <2>2, TaskInv
<1>4. CASE Wake(i)
  <2> DEFINE t == [task[i] EXCEPT !.run = "exit"]
  <2>1. /\ task' = [task EXCEPT ![i] = t] /\ task[i].run = "wait"
        /\ task[i].cancelled \/ manager # "on"
        /\ UNCHANGED <<table, caller, session, calls, manager, panic>>
    BY <1>4 DEF Wake
  <2>2. /\ t \in TaskRecord /\ t.name = task[i].name /\ t.run = "exit"
        /\ t.started = task[i].started /\ t.cancelled = task[i].cancelled /\ t.early = task[i].early
    BY <1>0 DEF TaskRecord
  <2> HIDE DEF t
  <2>3. ~(manager = "on" /\ i \in Listed)
    BY <1>0, <2>1
  <2> QED BY <1>0, <2>1, <2>2, <2>3, TaskInv
<1>5. CASE Exit(i)
  <2> DEFINE found == table[task[i].name] # 0
             closed == task[i].closed \/ Kind[task[i].name] = "looper"
             t == [(IF found THEN Stopped(task[i]) ELSE task[i]) EXCEPT !.run = "end", !.cancelled = TRUE]
  <2>1. /\ task' = [task EXCEPT ![i] = t] /\ task[i].run = "exit" /\ panic' \in BOOLEAN
        /\ UNCHANGED <<table, caller, session, calls, manager>>
    BY <1>0, <1>5 DEF Exit, TaskRecord
  <2>2. t = IF found THEN [task[i] EXCEPT !.ticking = FALSE, !.closed = closed,
                                          !.run = "end", !.cancelled = TRUE]
                     ELSE [task[i] EXCEPT !.run = "end", !.cancelled = TRUE]
    BY <1>0 DEF Stopped, TaskRecord
  <2>3. closed \in BOOLEAN
    BY Zenon
  <2>4. /\ t \in TaskRecord /\ t.name = task[i].name /\ t.run = "end" /\ t.cancelled
        /\ t.started = task[i].started /\ t.early = task[i].early
    <3> HIDE DEF found, closed, t
    <3> QED BY <1>0, <2>2, <2>3 DEF TaskRecord
  <2> HIDE DEF t
  <2>5. ~(manager = "on" /\ i \in Listed)
    BY <1>0, <2>1
  <2> QED BY <1>0, <2>1, <2>4, <2>5, TaskInv
<1> QED BY <1>1, <1>2, <1>3, <1>4, <1>5 DEF RunStep

\* The worker and the listener of a task change nothing else of it.
LEMMA WorkerInv ==
  ASSUME IInv, NEW i \in Ids, WorkerStep(i) \/ ListenerStep(i)
  PROVE  IInv'
<1>1. PICK w, l :
        /\ task' = [task EXCEPT ![i] = [task[i] EXCEPT !.worker = w, !.listener = l]]
        /\ w \in {"none", "check", "send", "fail", "tick", "end"} /\ l \in {"none", "on", "end"}
        /\ panic' \in BOOLEAN /\ UNCHANGED <<table, caller, session, calls, manager>>
  <2>0. task[i] \in TaskRecord /\ panic \in BOOLEAN /\ task \in [Ids -> TaskRecord]
    BY DEF IInv, TypeOK
  <2> DEFINE Changed(w, l) == [task[i] EXCEPT !.worker = w, !.listener = l]
  <2>1. task' = task => task' = [task EXCEPT ![i] = Changed(task[i].worker, task[i].listener)]
    BY <2>0 DEF TaskRecord
  <2>2. \A w : [task[i] EXCEPT !.worker = w] = Changed(w, task[i].listener)
    BY <2>0 DEF TaskRecord
  <2>3. \A l : [task[i] EXCEPT !.listener = l] = Changed(task[i].worker, l)
    BY <2>0 DEF TaskRecord
  <2>4. task[i].worker \in {"none", "check", "send", "fail", "tick", "end"}
        /\ task[i].listener \in {"none", "on", "end"}
    BY <2>0 DEF TaskRecord
  <2>5. CASE Check(i)
    <3>1. PICK w \in {"end", "send", "fail"} : task' = [task EXCEPT ![i] = [task[i] EXCEPT !.worker = w]]
      BY <2>5 DEF Check
    <3> QED BY <2>0, <2>2, <2>4, <2>5, <3>1 DEF Check
  <2>6. CASE Send(i)
    <3> DEFINE w == IF task[i].worker = "send" THEN "tick" ELSE "end"
    <3>1. CASE task[i].closed
      BY <2>1, <2>4, <2>6, <3>1 DEF Send
    <3>2. CASE ~task[i].closed
      <4>1. task' = [task EXCEPT ![i] = [task[i] EXCEPT !.worker = w]] /\ w \in {"tick", "end"}
        BY <2>6, <3>2 DEF Send
      <4> HIDE DEF w
      <4> QED BY <2>0, <2>2, <2>4, <2>6, <3>2, <4>1 DEF Send
    <3> QED BY <3>1, <3>2
  <2>7. CASE Tick(i)
    <3>1. PICK w \in {"send", "check", "end"} : task' = [task EXCEPT ![i] = [task[i] EXCEPT !.worker = w]]
      BY <2>7 DEF Tick
    <3> QED BY <2>0, <2>2, <2>4, <2>7, <3>1 DEF Tick
  <2>8. CASE ListenerEnds(i)
    BY <2>0, <2>3, <2>4, <2>8 DEF ListenerEnds
  <2> QED BY <2>5, <2>6, <2>7, <2>8 DEF WorkerStep, ListenerStep
<1> DEFINE t == [task[i] EXCEPT !.worker = w, !.listener = l]
<1>2. TaskOK(i, task[i])
  BY TasksAreOK
<1>3. /\ t \in TaskRecord /\ t.name = task[i].name /\ t.run = task[i].run
      /\ t.started = task[i].started /\ t.cancelled = task[i].cancelled /\ t.early = task[i].early
  BY <1>1, <1>2 DEF TaskOK, TaskRecord
<1>4. /\ task' = [task EXCEPT ![i] = t] /\ panic' \in BOOLEAN
      /\ UNCHANGED <<table, caller, session, calls, manager>>
  BY <1>1
<1> HIDE DEF t
<1> QED BY <1>2, <1>3, <1>4, TaskInv DEF TaskOK

\* What is asked of the manager: by notifications, by files, at the end of a connection and of
\* the daemon.
LEMMA RequestInv ==
  ASSUME IInv, Request
  PROVE  IInv'
<1> USE DEF IInv, Parts
<1>0. /\ session \in Sessions /\ calls \in 0..MaxCalls
      /\ manager \in {"on", "cancelled", "off"} /\ Listed \subseteq Ids
      /\ calls < MaxCalls => calls + 1 \in 0..MaxCalls
  BY BoundAssumption DEF TypeOK, Listed
<1>1. ASSUME NEW c \in Sessions \cup Disk, NEW n \in Names, StartTask(c, n)
      PROVE  IInv'
  BY <1>0, <1>1, AddInv DEF StartTask, Begins, Callers
<1>2. ASSUME NEW c \in Sessions \cup Disk, NEW n \in Names, NEW op \in {"stop", "reload"}, StopTask(c, n, op)
      PROVE  IInv'
  <2> DEFINE d == [Idle EXCEPT !.op = op, !.name = n, !.at = IF table[n] # 0 THEN "send" ELSE "add"]
  <2>1. /\ caller' = [caller EXCEPT ![c] = d] /\ calls' = calls + 1 /\ calls < MaxCalls /\ Unlocked
        /\ UNCHANGED <<table, task, session, manager, panic>>
    BY <1>2 DEF StopTask, Begins
  <2>2. /\ d \in CallerRecord /\ d.op = op /\ d.name = n /\ d.seen = {}
        /\ d.at = IF table[n] # 0 THEN "send" ELSE "add"
    BY DEF Idle, CallerRecord
  <2> HIDE DEF d
  <2>3. c \in Callers /\ c # Main
    BY CallerAssumption DEF Callers
  <2> QED BY <1>0, <2>1, <2>2, <2>3, CallerInv
<1>3. ASSUME NEW s \in Sessions, EndSession(s)
      PROVE  IInv'
  <2> DEFINE d == [Idle EXCEPT !.at = "range", !.op = "temp", !.must = Listed]
  <2>1. /\ caller' = [caller EXCEPT ![s] = d] /\ calls' = calls + 1 /\ calls < MaxCalls
        /\ session' \in Sessions /\ UNCHANGED <<table, task, manager, panic>>
    BY <1>3 DEF EndSession, Begins
  <2>2. d \in CallerRecord /\ d.op = "temp" /\ d.seen = {} /\ d.at = "range"
    BY <1>0 DEF Idle, CallerRecord
  <2> HIDE DEF d
  <2>3. s \in Callers /\ s # Main
    BY CallerAssumption DEF Callers
  <2> QED BY <1>0, <2>1, <2>2, <2>3, CallerInv
<1>4. CASE Close
  <2> DEFINE d == [Idle EXCEPT !.at = "range", !.op = "all", !.must = Listed]
  <2>1. /\ caller' = [caller EXCEPT ![Main] = d] /\ calls' = calls + 1 /\ calls < MaxCalls
        /\ UNCHANGED <<table, task, session, manager, panic>>
    BY <1>4 DEF Close, Begins
  <2>2. d \in CallerRecord /\ d.op = "all" /\ d.seen = {} /\ d.at = "range"
    BY <1>0 DEF Idle, CallerRecord
  <2> HIDE DEF d
  <2>3. Main \in Callers
    BY DEF Callers
  <2> QED BY <1>0, <2>1, <2>2, <2>3, CallerInv
<1>5. CASE ManagerEnds
  <2>1. TypeOK'
    BY <1>5 DEF ManagerEnds, TypeOK
  <2>2. Parts'
    BY <1>5 DEF ManagerEnds, NumbersOK, TableOK, StartOK, LockOK, WalkOK, RemovedTasksAreStopped,
        ListedTasksRun, Listed, Used
  <2> QED BY <2>1, <2>2
<1> QED BY <1>1, <1>2, <1>3, <1>4, <1>5 DEF Request

LEMMA StepInv == IInv /\ [Next]_vars => IInv'
<1> SUFFICES ASSUME IInv, [Next]_vars PROVE IInv'
  OBVIOUS
<1>1. CASE UNCHANGED vars
  BY <1>1 DEF vars, IInv, TypeOK, Parts, NumbersOK, TableOK, StartOK, LockOK, WalkOK,
      RemovedTasksAreStopped, ListedTasksRun, Listed, Used
<1>2. CASE Next
  BY <1>2, RequestInv, CallerStepInv, RunStepInv, WorkerInv DEF Next
<1> QED BY <1>1, <1>2

-----------------------------------------------------------------------------
(* Theorems *)

\* The inductive invariant (tasks/main.go AddTask, RemoveTask, StopTempTasks).
THEOREM TasksInvariant == Spec => []IInv
  BY InitInv, StepInv, PTL DEF Spec

\* The table, the tasks and the callers are always of their types.
THEOREM TypeCorrect == Spec => []TypeOK
<1>1. IInv => TypeOK
  BY DEF IInv
<1> QED BY <1>1, TasksInvariant, PTL

\* No task that has started is left outside the table with its context alive, unless it was
\* removed before it started (main.go:97-115).
THEOREM RemovedTasksStop == Spec => []RemovedTasksAreStopped
<1>1. IInv => RemovedTasksAreStopped
  BY DEF IInv, Parts
<1> QED BY <1>1, TasksInvariant, PTL

\* The goroutine of an older task does not stop the one that has its name now (main.go:80-92).
THEOREM ListedTasksGoOn == Spec => []ListedTasksRun
<1>1. IInv => ListedTasksRun
  BY DEF IInv, Parts
<1> QED BY <1>1, TasksInvariant, PTL

\* When StopTempTasks returns, the temporary tasks of before are gone from the table, whoever
\* changed it meanwhile (main.go:149-160).
THEOREM TempTasksStop == Spec => TempTasksAreStopped
<1>1. ASSUME IInv, Next, NEW s \in Sessions, caller[s].op = "temp", caller'[s].op # "temp",
             NEW n \in Names, IsTemporary(n)
      PROVE  table'[n] \notin caller[s].must
  <2> USE DEF IInv, Parts
  <2>1. s \in Callers /\ s # Main /\ caller[s] \in CallerRecord /\ caller \in [Callers -> CallerRecord]
    BY <1>1, CallerAssumption DEF Callers, TypeOK
  <2>2. CASE RangeEnds(s)
    <3>1. /\ caller[s].at = "range" /\ caller[s].must \cap Listed \subseteq caller[s].seen
          /\ table' = table
      BY <2>2 DEF RangeEnds
    <3>2. table[n] = 0 \/ table[n] \notin caller[s].seen
      BY <1>1, <2>1, <3>1 DEF WalkOK
    <3>3. table[n] = 0 => table[n] \notin caller[s].must
      BY <2>1 DEF CallerRecord, Ids
    <3>4. table[n] # 0 => table[n] \in Listed
      BY DEF Listed
    <3> QED BY <3>1, <3>2, <3>3, <3>4
  <2>3. ASSUME caller[s] # Idle, ~RangeEnds(s)
        PROVE  caller'[s].op = "temp"
    <3>1. CASE Request
      BY <1>1, <2>1, <2>3, <3>1 DEF Request, StartTask, StopTask, EndSession, Close, ManagerEnds, Begins
    <3>2. ASSUME NEW c \in Callers, CallerStep(c)
          PROVE  caller'[s].op = "temp"
      <4>1. CASE c # s
        BY <1>1, <2>1, <3>2, <4>1 DEF CallerStep, Visit, RangeEnds, GetTask, AddAgain, RemoveTask,
            Removed, Return, GoTo
      <4>2. CASE c = s
        <5>1. caller[s].at # "add"
          BY <1>1, <2>1, <3>2 DEF WalkOK
        <5>2. \A d : caller' = [caller EXCEPT ![s] = d] => caller'[s] = d
          BY <2>1
        <5>3. \A place : [caller[s] EXCEPT !.at = place].op = "temp"
          BY <1>1, <2>1 DEF CallerRecord
        <5>4. ASSUME NEW m \in Names, Visit(s, m)
              PROVE  caller'[s].op = "temp"
          BY <1>1, <2>1, <5>2, <5>4 DEF Visit, CallerRecord
        <5>5. Return(s) => caller'[s].op = "temp"
          BY <1>1, <2>1, <5>2, <5>3 DEF Return, After
        <5>6. GetTask(s) \/ RemoveTask(s) => caller'[s].op = "temp"
          BY <2>1, <5>2, <5>3, <5>5 DEF GetTask, RemoveTask, GoTo
        <5>7. Removed(s) => caller'[s].op = "temp"
          BY <1>1, <5>5 DEF Removed
        <5> QED BY <2>3, <3>2, <4>2, <5>1, <5>4, <5>6, <5>7 DEF CallerStep, AddAgain
      <4> QED BY <4>1, <4>2
    <3>3. ASSUME NEW i \in Ids, RunStep(i) \/ WorkerStep(i) \/ ListenerStep(i)
          PROVE  caller'[s].op = "temp"
      BY <1>1, <3>3 DEF RunStep, WorkerStep, ListenerStep, StartFails, Start, TaskAdded, Wake, Exit,
          Check, Send, Tick, ListenerEnds
    <3> QED BY <1>1, <3>1, <3>2, <3>3 DEF Next
  <2>4. caller[s] # Idle
    BY <1>1 DEF Idle
  <2> QED BY <1>1, <2>2, <2>3, <2>4
<1>2. IInv /\ [Next]_vars => [\A s \in Sessions :
         caller[s].op = "temp" /\ caller'[s].op # "temp" =>
            \A n \in Names : IsTemporary(n) => table'[n] \notin caller[s].must]_vars
  BY <1>1
<1> QED BY <1>2, TasksInvariant, PTL DEF Spec, TempTasksAreStopped
=============================================================================
