-------------------------- MODULE ListMonitor_proofs --------------------------
(***************************************************************************)
(* For any files, workers and goroutines that stop the operator: a worker  *)
(* that has a map in hand never sees entries appear in it.                 *)
(*                                                                         *)
(* The argument is that the map is new when the monitor begins to read:    *)
(* whoever had loaded the snapshot before has an older one, and there is   *)
(* no snapshot to load until the reading is complete.                      *)
(***************************************************************************)
EXTENDS ListMonitor, FiniteSetTheorems, TLAPS

MonitorType ==
    [at : {"loop", "stat", "sleep", "clear", "erase", "read", "off"},
     times : [Files -> Version \cup {-1}], total : 0..Cardinality(Files),
     names : SUBSET Files, todo : SUBSET Files, reload : BOOLEAN, new : BOOLEAN]

\* While the files are read nobody has the map in hand, and nobody can get it.
ReadUnseen ==
    monitor.at = "read" => ~published /\ \A r \in Readers : reader[r] # "current"

IInv == TypeOK /\ ReadUnseen

-----------------------------------------------------------------------------

LEMMA InitInv == Init => IInv
<1> SUFFICES ASSUME Init PROVE IInv
  OBVIOUS
<1>1. Cardinality(Files) \in Nat
  BY FileAssumption, FS_CardinalityType
<1>2. TypeOK
  <2>1. 0 \in Version /\ 0 \in 0..Cardinality(Files)
    BY <1>1, BoundAssumption DEF Version
  <2>2. monitor \in MonitorType
    BY <2>1 DEF Init, MonitorType
  <2>3. disk \in [Files -> Version]
    BY <2>1 DEF Init
  <2> QED BY <2>1, <2>2, <2>3 DEF Init, TypeOK, MonitorType
<1> QED BY <1>2 DEF IInv, ReadUnseen, Init

\* The number of files that were listed is one that the monitor can note (operator_lists.go:117).
LEMMA CountOfFiles ==
  ASSUME NEW S \in SUBSET Files
  PROVE  Cardinality(S) \in 0..Cardinality(Files)
<1>1. IsFiniteSet(S) /\ Cardinality(S) <= Cardinality(Files)
  BY FileAssumption, FS_Subset
<1>2. Cardinality(S) \in Nat /\ Cardinality(Files) \in Nat
  BY <1>1, FileAssumption, FS_CardinalityType
<1> QED BY <1>1, <1>2

\* A step of the directory: only the files change.
LEMMA DirectoryInv ==
  ASSUME IInv, NEW f \in Files, WriteFile(f) \/ RemoveFile(f)
  PROVE  IInv'
<1>1. disk' \in [Files -> Version] /\ writes' \in Version
  BY BoundAssumption DEF IInv, TypeOK, WriteFile, RemoveFile, Version
<1>2. TypeOK'
  BY <1>1 DEF IInv, TypeOK, WriteFile, RemoveFile, hosts, stops
<1> QED BY <1>2 DEF IInv, ReadUnseen, WriteFile, RemoveFile, hosts

\* A step of the monitor of which the lists and the readers have no part.
LEMMA ScanInv ==
  ASSUME IInv, monitor' \in MonitorType, monitor'.at # "read", blind' \in BOOLEAN,
         UNCHANGED <<reader, fatal>>, UNCHANGED <<dir, hosts, stops>>
  PROVE  IInv'
<1>1. TypeOK'
  BY DEF IInv, TypeOK, MonitorType, dir, hosts, stops
<1> QED BY <1>1 DEF IInv, ReadUnseen

LEMMA MonitorInv ==
  ASSUME IInv, MonitorStep
  PROVE  IInv'
<1> USE DEF IInv
<1>0. monitor \in MonitorType
  BY DEF TypeOK, MonitorType
<1>1. CASE Glob
  <2>1. monitor' \in MonitorType /\ monitor'.at # "read"
    BY <1>0, <1>1 DEF Glob, MonitorType, Existing
  <2> QED BY <1>1, <2>1, ScanInv DEF Glob, TypeOK
<1>2. CASE Scanned
  <2> DEFINE count == Cardinality(monitor.names)
             reload == monitor.reload \/ count # monitor.total
  <2>1. count \in 0..Cardinality(Files)
    BY <1>0, CountOfFiles DEF MonitorType
  <2>2. monitor' \in MonitorType /\ monitor'.at # "read"
    <3>1. monitor' = [monitor EXCEPT !.at = IF reload THEN "clear" ELSE "sleep", !.total = count]
      BY <1>2 DEF Scanned
    <3> HIDE DEF count, reload
    <3> QED BY <1>0, <2>1, <3>1 DEF MonitorType
  <2>3. blind' \in BOOLEAN
    BY <1>0, <1>2 DEF Scanned, TypeOK, MonitorType
  <2> QED BY <1>2, <2>2, <2>3, ScanInv DEF Scanned, TypeOK
<1>3. CASE Sleep
  <2>1. monitor' \in MonitorType /\ monitor'.at # "read"
    BY <1>0, <1>3 DEF Sleep, MonitorType
  <2> QED BY <1>3, <2>1, ScanInv DEF Sleep, TypeOK
<1>4. CASE Cleared
  <2>1. monitor' \in MonitorType /\ monitor'.at # "read"
    BY <1>0, <1>4 DEF Cleared, MonitorType
  <2>2. TypeOK'
    BY <1>4, <2>1 DEF Cleared, TypeOK, MonitorType, dir, stops
  <2> QED BY <2>1, <2>2 DEF ReadUnseen
<1>5. CASE MakeMap
  <2>1. monitor' \in MonitorType
    BY <1>0, <1>5 DEF MakeMap, MonitorType, Existing
  <2>2. /\ reader' \in [Readers -> {"none", "current", "old"}]
        /\ \A r \in Readers : reader'[r] # "current"
    BY <1>5 DEF MakeMap, TypeOK
  <2>3. TypeOK'
    BY <1>5, <2>1, <2>2 DEF MakeMap, TypeOK, MonitorType, dir, stops
  <2> QED BY <1>5, <2>2, <2>3 DEF ReadUnseen, MakeMap
<1>6. CASE Publish
  <2>1. monitor' \in MonitorType /\ monitor'.at # "read"
    BY <1>0, <1>6 DEF Publish, MonitorType
  <2>2. TypeOK'
    BY <1>6, <2>1 DEF Publish, TypeOK, MonitorType, dir, stops
  <2> QED BY <2>1, <2>2 DEF ReadUnseen
<1>7. ASSUME NEW f \in Files, Stat(f)
      PROVE  IInv'
  <2> DEFINE seen == monitor.times[f]
             changed == seen # -1 /\ disk[f] # 0 /\ seen # disk[f]
  <2>1. monitor.times \in [Files -> Version \cup {-1}] /\ disk \in [Files -> Version]
    BY <1>0 DEF MonitorType, TypeOK
  <2>2. [monitor.times EXCEPT ![f] = disk[f]] \in [Files -> Version \cup {-1}]
    BY <2>1
  <2>3. monitor' \in MonitorType /\ monitor'.at # "read"
    <3>1. monitor' = [monitor EXCEPT !.todo = @ \ {f}, !.reload = @ \/ changed, !.new = @ \/ seen = -1,
                                     !.times = [monitor.times EXCEPT ![f] = disk[f]]]
      BY <1>7 DEF Stat
    <3>2. (monitor.reload \/ changed) \in BOOLEAN /\ (monitor.new \/ seen = -1) \in BOOLEAN
      BY Zenon
    <3>3. monitor.at = "stat"
      BY <1>7 DEF Stat
    <3> HIDE DEF seen, changed
    <3> QED BY <1>0, <2>2, <3>1, <3>2, <3>3 DEF MonitorType
  <2> QED BY <1>7, <2>3, ScanInv DEF Stat, TypeOK
<1>8. ASSUME NEW f \in Files, ReadFile(f)
      PROVE  IInv'
  <2>1. monitor' \in MonitorType
    BY <1>0, <1>8 DEF ReadFile, MonitorType
  <2>2. lists' \subseteq Files \X (Version \ {0})
    BY <1>8 DEF ReadFile, TypeOK
  <2>3. TypeOK'
    BY <1>8, <2>1, <2>2 DEF ReadFile, TypeOK, MonitorType, dir, stops
  <2> QED BY <1>8, <2>3 DEF ReadUnseen, ReadFile
<1>9. ASSUME NEW e, Erase(e)
      PROVE  IInv'
  <2>1. TypeOK'
    BY <1>9 DEF Erase, TypeOK, dir, stops
  <2> QED BY <1>9, <2>1 DEF ReadUnseen, Erase
<1>10. ASSUME NEW s \in Stoppers, Exit(s)
       PROVE  IInv'
  <2>1. monitor' \in MonitorType /\ monitor'.at # "read"
    BY <1>0, <1>10 DEF Exit, MonitorType
  <2>2. TypeOK'
    BY <1>10, <2>1 DEF Exit, TypeOK, MonitorType, dir, hosts
  <2> QED BY <2>1, <2>2 DEF ReadUnseen
<1> QED BY <1>1, <1>2, <1>3, <1>4, <1>5, <1>6, <1>7, <1>8, <1>9, <1>10 DEF MonitorStep

\* A step of StopMonitoringLists.
LEMMA StopInv ==
  ASSUME IInv, NEW s \in Stoppers, Stop(s) \/ StopStep(s)
  PROVE  IInv'
<1>1. stopper' \in [Stoppers -> {"idle", "send", "stuck", "sent", "flag", "done"}]
  BY DEF IInv, TypeOK, Stop, StopStep, ForgetChannel, NotRunning
<1>2. /\ running' \in BOOLEAN /\ channel' \in BOOLEAN /\ contested' \in BOOLEAN
      /\ UNCHANGED <<monitor, reader, fatal, blind>> /\ UNCHANGED <<dir, hosts>>
  BY DEF IInv, TypeOK, Stop, StopStep, ForgetChannel, NotRunning
<1>3. TypeOK'
  BY <1>1, <1>2 DEF IInv, TypeOK, dir, hosts
<1> QED BY <1>2, <1>3 DEF IInv, ReadUnseen, hosts

\* A step of a worker: a snapshot that is there is not being read.
LEMMA ReaderInv ==
  ASSUME IInv, NEW r \in Readers, LoadSnapshot(r) \/ LookUp(r)
  PROVE  IInv'
<1>1. reader' \in [Readers -> {"none", "current", "old"}] /\ fatal' \in BOOLEAN
  BY DEF IInv, TypeOK, LoadSnapshot, LookUp
<1>2. TypeOK'
  BY <1>1 DEF IInv, TypeOK, LoadSnapshot, LookUp, dir, hosts, stops
<1>3. ReadUnseen'
  BY DEF IInv, TypeOK, ReadUnseen, LoadSnapshot, LookUp, hosts
<1> QED BY <1>2, <1>3 DEF IInv

LEMMA StepInv == IInv /\ [Next]_vars => IInv'
<1> SUFFICES ASSUME IInv, [Next]_vars PROVE IInv'
  OBVIOUS
<1>1. CASE UNCHANGED vars
  BY <1>1 DEF IInv, TypeOK, ReadUnseen, vars
<1>2. CASE Next
  BY <1>2, DirectoryInv, MonitorInv, StopInv, ReaderInv DEF Next
<1> QED BY <1>1, <1>2

-----------------------------------------------------------------------------

\* The inductive invariant: types, and that a list is read unseen (operator_lists.go readLists).
LEMMA MonitorInvariant == Spec => []IInv
  BY InitInv, StepInv, PTL DEF Spec

\* What the monitor, the goroutines that stop it and the workers have is always of its type.
THEOREM TypeCorrect == Spec => []TypeOK
<1>1. IInv => TypeOK
  BY DEF IInv
<1> QED BY <1>1, MonitorInvariant, PTL

\* Nothing is added to a map while a worker looks a host up in it: the lists of a reading are
\* complete before anybody can see them (operator_lists.go:147-160, 313).
THEOREM MapsInHandOnlyShrink == Spec => ListsInHandOnlyShrink
<1>1. ASSUME IInv, Next, NEW r \in Readers, reader[r] = "current", reader'[r] = "current"
      PROVE  lists' \subseteq lists
  <2>1. CASE MonitorStep
    <3>1. ASSUME NEW f \in Files, ReadFile(f)
          PROVE  FALSE
      BY <1>1, <3>1 DEF IInv, ReadUnseen, ReadFile
    <3> QED BY <2>1, <3>1 DEF MonitorStep, Glob, Scanned, Sleep, Cleared, MakeMap, Publish,
               Stat, Erase, Exit, hosts
  <2>2. ASSUME ~MonitorStep
        PROVE  UNCHANGED lists
    BY <1>1, <2>2 DEF Next, WriteFile, RemoveFile, Stop, StopStep, ForgetChannel, NotRunning,
        LoadSnapshot, LookUp, hosts
  <2> QED BY <2>1, <2>2
<1>2. IInv /\ [Next]_vars => [\A r \in Readers :
          reader[r] = "current" /\ reader'[r] = "current" => lists' \subseteq lists]_vars
  BY <1>1
<1> QED BY <1>2, MonitorInvariant, PTL DEF Spec, ListsInHandOnlyShrink

-----------------------------------------------------------------------------
(* A monitor that sees no change has the lists of the files *)

\* A file of which the monitor has noted what it says, and one whose entries are in the lists.
Noted(f) == disk[f] # 0 /\ monitor.times[f] = disk[f]

EntriesOf(f) == {e \in lists : e[1] = f}

Shown(f) == EntriesOf(f) = {<<f, disk[f]>>}

\* The monitor is not about to read the files, and has overlooked nothing.
Quiet ==
    /\ ~blind
    /\ \/ monitor.at \in {"loop", "sleep"}
       \/ monitor.at = "stat" /\ ~monitor.reload /\ ~monitor.new

\* A version is that of a write that was made.
FreshOK == \A f \in Files : disk[f] <= writes /\ monitor.times[f] <= writes

\* The last scan listed every file that it noted, and all of them are counted.
NamesOK ==
    /\ \A f \in Files : Noted(f) => f \in monitor.names
    /\ monitor.at # "stat" => monitor.total = Cardinality(monitor.names)
    /\ monitor.at = "stat" => monitor.todo \subseteq monitor.names

\* The lists show every file that is as the monitor has noted it.
ShownOK ==
    /\ Quiet => \A f \in Files : Noted(f) => Shown(f)
    /\ monitor.at = "read" =>
         \A f \in Files : IF f \in monitor.todo THEN EntriesOf(f) = {}
                                                  ELSE Noted(f) => Shown(f)

\* R are the files listed by the last scan that has ended.  As long as none of them was found
\* gone, the entries are those of R, and what the next scan has found there is in R as well.
Base(R) ==
    /\ Cardinality(R) = monitor.total
    /\ (\A f \in R : monitor.times[f] # 0) => \A e \in lists : e[1] \in R
    /\ \A f \in Files : Noted(f) => f \in R
    /\ monitor.at = "stat" =>
         \A f \in monitor.names \ monitor.todo : monitor.times[f] # 0 => f \in R
    /\ monitor.at # "stat" => R = monitor.names

BaseOK ==
    /\ Quiet => \E R \in SUBSET Files : Base(R)
    /\ monitor.at = "read" /\ ~blind =>
         monitor.todo \subseteq monitor.names /\ \A e \in lists : e[1] \in monitor.names

\* Lists that a worker needs are published, and those of a monitor that ended are not.
PublishedOK ==
    /\ monitor.at \in {"loop", "stat", "sleep"} /\ lists # {} => published
    /\ monitor.at = "off" => lists = {} /\ ~published

CurrentInv == FreshOK /\ NamesOK /\ ShownOK /\ BaseOK /\ PublishedOK

\* What the definitions above speak of, of the state.
view == <<disk, writes, monitor, lists, published, blind>>

\* The parts of a monitor that a step does not touch are those it was.
LEMMA MonitorParts ==
  ASSUME IInv
  PROVE  /\ monitor \in MonitorType
         /\ \A f \in Files : disk[f] \in Version /\ monitor.times[f] \in Version \cup {-1}
         /\ \A f \in Files : disk[f] \in Int /\ monitor.times[f] \in Int
         /\ writes \in Nat
  BY BoundAssumption DEF IInv, TypeOK, MonitorType, Version

LEMMA InitCurrent == Init => CurrentInv
<1> SUFFICES ASSUME Init PROVE CurrentInv
  OBVIOUS
<1>1. \A f \in Files : disk[f] = 0 /\ monitor.times[f] = -1
  BY DEF Init
<1>2. monitor.at = "loop" /\ monitor.total = 0 /\ monitor.names = {} /\ lists = {}
  BY DEF Init
<1>3. Cardinality({}) = 0
  BY FS_EmptySet
<1>4. FreshOK /\ NamesOK /\ ShownOK /\ PublishedOK
  BY <1>1, <1>2, <1>3 DEF Init, FreshOK, NamesOK, ShownOK, PublishedOK, Noted
<1>5. Base({})
  BY <1>1, <1>2, <1>3 DEF Base, Noted
<1>6. BaseOK
  BY <1>2, <1>5 DEF BaseOK
<1> QED BY <1>4, <1>6 DEF CurrentInv

\* A file that is written or removed is not as it was noted, and the others are as before.
LEMMA DirectoryCurrent ==
  ASSUME IInv, CurrentInv, NEW f \in Files, WriteFile(f) \/ RemoveFile(f)
  PROVE  CurrentInv'
<1>1. UNCHANGED <<monitor, lists, published, blind>> /\ writes' = writes + 1
  BY DEF WriteFile, RemoveFile, hosts
<1>2. /\ \A g \in Files : g # f => disk'[g] = disk[g]
      /\ disk'[f] = 0 \/ disk'[f] = writes + 1
  BY DEF IInv, TypeOK, WriteFile, RemoveFile
<1>3. ASSUME NEW g \in Files, Noted(g)' PROVE Noted(g) /\ disk'[g] = disk[g]
  <2>1. monitor.times[g] <= writes /\ monitor.times[g] \in Int
    BY MonitorParts DEF CurrentInv, FreshOK
  <2> QED BY <1>1, <1>2, <1>3, <2>1, MonitorParts DEF Noted
<1>4. FreshOK'
  BY <1>1, <1>2, MonitorParts DEF CurrentInv, FreshOK
<1>5. NamesOK'
  BY <1>1, <1>3 DEF CurrentInv, NamesOK
<1>6. ShownOK'
  BY <1>1, <1>3 DEF CurrentInv, ShownOK, Quiet, Shown, EntriesOf
<1>7. ASSUME NEW R \in SUBSET Files, Base(R) PROVE Base(R)'
  BY <1>1, <1>3, <1>7 DEF Base
<1>8. BaseOK'
  BY <1>1, <1>7 DEF CurrentInv, BaseOK, Quiet
<1>9. PublishedOK'
  BY <1>1 DEF CurrentInv, PublishedOK
<1> QED BY <1>4, <1>5, <1>6, <1>8, <1>9 DEF CurrentInv

\* A step that the definitions do not speak of.
LEMMA AsideCurrent ==
  ASSUME CurrentInv, UNCHANGED view
  PROVE  CurrentInv'
<1>1. \A f \in Files : (Noted(f)' <=> Noted(f)) /\ (Shown(f)' <=> Shown(f))
  BY DEF view, Noted, Shown, EntriesOf
<1>2. \A R \in SUBSET Files : Base(R) => Base(R)'
  BY <1>1 DEF view, Base
<1>3. FreshOK' /\ NamesOK' /\ PublishedOK'
  BY <1>1 DEF CurrentInv, view, FreshOK, NamesOK, PublishedOK
<1>4. ShownOK'
  BY <1>1 DEF CurrentInv, view, ShownOK, Quiet, EntriesOf
<1>5. BaseOK'
  BY <1>2 DEF CurrentInv, view, BaseOK, Quiet
<1> QED BY <1>3, <1>4, <1>5 DEF CurrentInv

\* The files are listed: those that are as they were noted are among them.
LEMMA GlobCurrent ==
  ASSUME IInv, CurrentInv, Glob
  PROVE  CurrentInv'
<1> USE DEF CurrentInv
<1>1. monitor.at = "loop" /\ UNCHANGED <<disk, writes, lists, published, blind>>
  BY DEF Glob, dir, hosts
<1>2. monitor'.times = monitor.times /\ monitor'.total = monitor.total
  BY MonitorParts DEF Glob, MonitorType
<1>3. \A f \in Files : (Noted(f)' <=> Noted(f)) /\ (Shown(f)' <=> Shown(f))
  BY <1>1, <1>2 DEF Noted, Shown, EntriesOf
<1>4. FreshOK'
  BY <1>1, <1>2 DEF FreshOK
<1>5. CASE pattern
  <2>1. /\ monitor'.at = "stat" /\ monitor'.todo = Existing /\ monitor'.names = Existing
        /\ monitor'.reload = FALSE /\ monitor'.new = FALSE
    BY <1>5, MonitorParts DEF Glob, MonitorType
  <2>2. NamesOK'
    BY <1>3, <2>1 DEF NamesOK, Noted, Existing
  <2>3. ShownOK'
    BY <1>1, <1>3, <2>1 DEF ShownOK, Quiet
  <2>4. ASSUME NEW R \in SUBSET Files, Base(R) PROVE Base(R)'
    BY <1>1, <1>2, <1>3, <2>1, <2>4 DEF Base
  <2>5. BaseOK'
    BY <1>1, <2>1, <2>4 DEF BaseOK, Quiet
  <2>6. PublishedOK'
    BY <1>1, <2>1 DEF PublishedOK
  <2> QED BY <1>4, <2>2, <2>3, <2>5, <2>6
<1>6. CASE ~pattern
  <2>1. monitor'.at = "erase" /\ monitor'.names = monitor.names
    BY <1>6, MonitorParts DEF Glob, MonitorType
  <2> QED BY <1>1, <1>2, <1>3, <1>4, <2>1 DEF NamesOK, ShownOK, Quiet, BaseOK, PublishedOK
<1> QED BY <1>5, <1>6

\* A file that is noted without an alarm was as it had been noted before.
LEMMA StatCurrent ==
  ASSUME IInv, CurrentInv, NEW f \in Files, Stat(f)
  PROVE  CurrentInv'
<1> USE DEF CurrentInv
<1> DEFINE seen == monitor.times[f]
           changed == seen # -1 /\ disk[f] # 0 /\ seen # disk[f]
<1>1. /\ monitor.at = "stat" /\ f \in monitor.todo
      /\ UNCHANGED <<disk, writes, lists, published, blind>>
  BY DEF Stat, dir, hosts
<1>2. monitor' = [monitor EXCEPT !.todo = @ \ {f}, !.reload = @ \/ changed, !.new = @ \/ seen = -1,
                                 !.times = [monitor.times EXCEPT ![f] = disk[f]]]
  BY DEF Stat
<1>3. /\ monitor'.at = "stat" /\ monitor'.todo = monitor.todo \ {f}
      /\ monitor'.names = monitor.names /\ monitor'.total = monitor.total
      /\ monitor'.times = [monitor.times EXCEPT ![f] = disk[f]]
  <2> HIDE DEF changed, seen
  <2> QED BY <1>1, <1>2, MonitorParts DEF MonitorType
<1>4. (monitor'.reload <=> monitor.reload \/ changed) /\ (monitor'.new <=> monitor.new \/ seen = -1)
  <2> HIDE DEF changed, seen
  <2> QED BY <1>2, MonitorParts DEF MonitorType
<1>5. monitor'.times[f] = disk[f] /\ \A g \in Files : g # f => monitor'.times[g] = monitor.times[g]
  BY <1>3, MonitorParts DEF MonitorType
<1>6. f \in monitor.names
  BY <1>1 DEF NamesOK
<1>7. FreshOK'
  BY <1>1, <1>5 DEF FreshOK
<1>8. NamesOK'
  <2>1. \A g \in Files : Noted(g)' => g \in monitor.names
    BY <1>1, <1>5, <1>6 DEF NamesOK, Noted
  <2> QED BY <1>1, <1>3, <2>1 DEF NamesOK
<1>9. ASSUME Quiet'
      PROVE  /\ Quiet
             /\ disk[f] # 0 => seen = disk[f]
             /\ \A g \in Files : Noted(g)' => Noted(g)
  <2>1. ~blind /\ ~monitor'.reload /\ ~monitor'.new
    BY <1>1, <1>3, <1>9 DEF Quiet
  <2>2. Quiet /\ (disk[f] # 0 => seen = disk[f])
    BY <1>1, <1>4, <2>1 DEF Quiet
  <2> QED BY <1>1, <1>5, <2>2 DEF Noted
<1>10. ShownOK'
  BY <1>1, <1>3, <1>9 DEF ShownOK, Shown, EntriesOf
<1>11. ASSUME Quiet', NEW R \in SUBSET Files, Base(R) PROVE Base(R)'
  <2>1. ASSUME \A g \in R : monitor'.times[g] # 0 PROVE \A e \in lists : e[1] \in R
    <3>1. ASSUME NEW g \in R PROVE monitor.times[g] # 0
      BY <1>5, <1>9, <1>11, <2>1, <3>1
    <3> QED BY <1>11, <3>1 DEF Base
  <2>2. \A g \in monitor.names \ monitor'.todo : monitor'.times[g] # 0 => g \in R
    <3>1. monitor'.times[f] # 0 => f \in R
      BY <1>5, <1>9, <1>11 DEF Base, Noted
    <3>2. monitor.names \subseteq Files
      BY MonitorParts DEF MonitorType
    <3> QED BY <1>1, <1>3, <1>5, <1>11, <3>1, <3>2 DEF Base
  <2> QED BY <1>1, <1>3, <1>9, <1>11, <2>1, <2>2 DEF Base
<1>12. BaseOK'
  BY <1>3, <1>9, <1>11 DEF BaseOK
<1>13. PublishedOK'
  BY <1>1, <1>3 DEF PublishedOK
<1> QED BY <1>7, <1>8, <1>10, <1>12, <1>13

\* A scan without an alarm has listed the files that the one before had listed: all of them
\* were there, and they are as many.
LEMMA SameNames ==
  ASSUME IInv, CurrentInv, Quiet, monitor.at = "stat", monitor.todo = {},
         Cardinality(monitor.names) = monitor.total,
         \A f \in monitor.names : monitor.times[f] # 0
  PROVE  \A e \in lists : e[1] \in monitor.names
<1>1. PICK R \in SUBSET Files : Base(R)
  BY DEF CurrentInv, BaseOK
<1>2. monitor.names \subseteq R
  BY <1>1 DEF Base
<1>3. IsFiniteSet(R) /\ Cardinality(R) = monitor.total
  BY <1>1, FileAssumption, FS_Subset DEF Base
<1>4. monitor.names = R
  BY <1>2, <1>3, FS_Subset
<1> QED BY <1>1, <1>4 DEF Base

\* The scan ends.  With an alarm the lists are about to be read; otherwise they are what they
\* were, and what is listed now takes the place of what was listed before.
LEMMA ScannedCurrent ==
  ASSUME IInv, CurrentInv, Scanned
  PROVE  CurrentInv'
<1> USE DEF CurrentInv
<1> DEFINE count == Cardinality(monitor.names)
           reload == monitor.reload \/ count # monitor.total
<1>1. /\ monitor.at = "stat" /\ monitor.todo = {}
      /\ UNCHANGED <<disk, writes, lists, published>>
  BY DEF Scanned, dir, hosts
<1>2. /\ monitor' = [monitor EXCEPT !.at = IF reload THEN "clear" ELSE "sleep", !.total = count]
      /\ blind' = (~reload /\ (blind \/ monitor.new))
  BY DEF Scanned
<1>3. /\ monitor'.at = (IF reload THEN "clear" ELSE "sleep") /\ monitor'.total = count
      /\ monitor'.names = monitor.names /\ monitor'.times = monitor.times
  <2> HIDE DEF count, reload
  <2> QED BY <1>2, MonitorParts DEF MonitorType
<1>4. \A f \in Files : (Noted(f)' <=> Noted(f)) /\ (Shown(f)' <=> Shown(f))
  BY <1>1, <1>3 DEF Noted, Shown, EntriesOf
<1>5. FreshOK' /\ NamesOK'
  BY <1>1, <1>3, <1>4 DEF FreshOK, NamesOK
<1>6. PublishedOK'
  BY <1>1, <1>3 DEF PublishedOK
<1>7. ASSUME Quiet' PROVE Quiet /\ count = monitor.total
  <2> HIDE DEF count, reload
  <2>1. monitor'.at \in {"loop", "sleep", "stat"} /\ ~blind'
    BY <1>7 DEF Quiet
  <2>2. ~reload
    BY <1>3, <2>1
  <2>3. ~blind /\ ~monitor.new
    BY <1>2, <2>1, <2>2
  <2>4. ~monitor.reload /\ count = monitor.total
    BY <2>2 DEF reload
  <2> QED BY <1>1, <2>3, <2>4 DEF Quiet
<1>8. monitor'.at # "read"
  BY <1>3
<1>9. ShownOK'
  BY <1>4, <1>7, <1>8 DEF ShownOK
<1>10. ASSUME Quiet' PROVE Base(monitor.names)'
  <2>1. (\A f \in monitor.names : monitor.times[f] # 0) => \A e \in lists : e[1] \in monitor.names
    BY <1>1, <1>7, <1>10, SameNames
  <2>2. \A f \in Files : Noted(f)' => f \in monitor.names
    BY <1>4 DEF NamesOK
  <2>3. monitor'.at # "stat"
    BY <1>3
  <2> QED BY <1>1, <1>3, <2>1, <2>2, <2>3 DEF Base
<1>11. monitor.names \in SUBSET Files
  BY MonitorParts DEF MonitorType
<1>12. BaseOK'
  BY <1>8, <1>10, <1>11, <1>3 DEF BaseOK
<1> QED BY <1>5, <1>6, <1>9, <1>12

\* Steps between the scan and the lists: the monitor sleeps, wakes up, or leaves its loop.
LEMMA BetweenCurrent ==
  ASSUME IInv, CurrentInv, Sleep \/ \E s \in Stoppers : Exit(s)
  PROVE  CurrentInv'
<1> USE DEF CurrentInv
<1>1. UNCHANGED <<disk, writes, lists, published, blind>>
  BY DEF Sleep, Exit, dir, hosts
<1>2. /\ monitor'.times = monitor.times /\ monitor'.names = monitor.names
      /\ monitor'.total = monitor.total
      /\ \/ monitor.at = "sleep" /\ monitor'.at = "loop"
         \/ monitor.at = "loop" /\ monitor'.at = "erase"
  BY MonitorParts DEF Sleep, Exit, MonitorType
<1>3. \A f \in Files : (Noted(f)' <=> Noted(f)) /\ (Shown(f)' <=> Shown(f))
  BY <1>1, <1>2 DEF Noted, Shown, EntriesOf
<1>4. Quiet' => Quiet
  BY <1>1, <1>2 DEF Quiet
<1>5. FreshOK' /\ NamesOK' /\ PublishedOK'
  BY <1>1, <1>2, <1>3 DEF FreshOK, NamesOK, PublishedOK
<1>6. ShownOK'
  BY <1>2, <1>3, <1>4 DEF ShownOK
<1>7. ASSUME NEW R \in SUBSET Files, Base(R) PROVE Base(R)'
  BY <1>1, <1>2, <1>3, <1>7 DEF Base
<1>8. BaseOK'
  BY <1>2, <1>4, <1>7 DEF BaseOK
<1> QED BY <1>5, <1>6, <1>8

\* The lists are cleared, entry by entry.
LEMMA ClearCurrent ==
  ASSUME IInv, CurrentInv, Cleared \/ \E e : Erase(e)
  PROVE  CurrentInv'
<1> USE DEF CurrentInv
<1>1. UNCHANGED <<disk, writes, blind>>
  BY DEF Cleared, Erase, dir
<1>2. /\ monitor'.times = monitor.times /\ monitor'.names = monitor.names
      /\ monitor'.total = monitor.total
      /\ monitor'.at \in {"clear", "erase", "off"}
      /\ monitor.at \in {"clear", "erase"}
      /\ monitor'.at = "off" => lists' = {} /\ ~published'
  BY MonitorParts DEF Cleared, Erase, MonitorType, Clearing
<1>3. \A f \in Files : Noted(f)' <=> Noted(f)
  BY <1>1, <1>2 DEF Noted
<1>4. FreshOK' /\ NamesOK'
  BY <1>1, <1>2, <1>3 DEF FreshOK, NamesOK
<1>5. ~Quiet' /\ monitor'.at # "read"
  BY <1>2 DEF Quiet
<1> QED BY <1>2, <1>4, <1>5 DEF ShownOK, BaseOK, PublishedOK

\* There is a new map, without entries, and all the files are still to be read.
LEMMA MakeMapCurrent ==
  ASSUME IInv, CurrentInv, MakeMap
  PROVE  CurrentInv'
<1> USE DEF CurrentInv
<1>1. /\ monitor.at = "clear" /\ lists = {} /\ UNCHANGED <<disk, writes, lists>>
      /\ blind' = ~(Existing \subseteq monitor.names)
  BY DEF MakeMap, dir
<1>2. /\ monitor'.at = "read" /\ monitor'.todo = Existing
      /\ monitor'.times = monitor.times /\ monitor'.names = monitor.names
      /\ monitor'.total = monitor.total
  BY MonitorParts DEF MakeMap, MonitorType
<1>3. \A f \in Files : Noted(f)' <=> Noted(f)
  BY <1>1, <1>2 DEF Noted
<1>4. \A f \in Files : Noted(f) => f \in Existing
  BY DEF Noted, Existing
<1>5. FreshOK' /\ NamesOK' /\ PublishedOK'
  BY <1>1, <1>2, <1>3 DEF FreshOK, NamesOK, PublishedOK
<1>6. ShownOK'
  BY <1>1, <1>2, <1>3, <1>4 DEF ShownOK, Quiet, EntriesOf
<1>7. BaseOK'
  BY <1>1, <1>2 DEF BaseOK, Quiet
<1> QED BY <1>5, <1>6, <1>7

\* A file is read, and shown as it is now.
LEMMA ReadCurrent ==
  ASSUME IInv, CurrentInv, NEW f \in Files, ReadFile(f)
  PROVE  CurrentInv'
<1> USE DEF CurrentInv
<1>1. /\ monitor.at = "read" /\ f \in monitor.todo /\ UNCHANGED <<disk, writes, published, blind>>
      /\ lists' = IF disk[f] = 0 THEN lists ELSE lists \cup {<<f, disk[f]>>}
  BY DEF ReadFile, dir
<1>2. /\ monitor'.at = "read" /\ monitor'.todo = monitor.todo \ {f}
      /\ monitor'.times = monitor.times /\ monitor'.names = monitor.names
      /\ monitor'.total = monitor.total
  BY <1>1, MonitorParts DEF ReadFile, MonitorType
<1>3. \A g \in Files : Noted(g)' <=> Noted(g)
  BY <1>1, <1>2 DEF Noted
<1>4. \A g \in Files : g # f => EntriesOf(g)' = EntriesOf(g)
  BY <1>1 DEF EntriesOf
<1>5. Noted(f) => Shown(f)'
  BY <1>1 DEF ShownOK, Shown, EntriesOf, Noted
<1>6. FreshOK' /\ NamesOK' /\ PublishedOK'
  BY <1>1, <1>2, <1>3 DEF FreshOK, NamesOK, PublishedOK
<1>7. ShownOK'
  <2>1. \A g \in Files : g # f => (Shown(g)' <=> Shown(g))
    BY <1>1, <1>4 DEF Shown
  <2> QED BY <1>1, <1>2, <1>3, <1>4, <1>5, <2>1 DEF ShownOK, Quiet
<1>8. BaseOK'
  BY <1>1, <1>2 DEF BaseOK, Quiet
<1> QED BY <1>6, <1>7, <1>8

\* All the files are read, and the lists published.
LEMMA PublishCurrent ==
  ASSUME IInv, CurrentInv, Publish
  PROVE  CurrentInv'
<1> USE DEF CurrentInv
<1>1. /\ monitor.at = "read" /\ monitor.todo = {} /\ UNCHANGED <<disk, writes, lists, blind>>
      /\ published' = TRUE
  BY DEF Publish, dir
<1>2. /\ monitor'.at = "sleep" /\ monitor'.times = monitor.times
      /\ monitor'.names = monitor.names /\ monitor'.total = monitor.total
  BY MonitorParts DEF Publish, MonitorType
<1>3. \A f \in Files : (Noted(f)' <=> Noted(f)) /\ (Shown(f)' <=> Shown(f))
  BY <1>1, <1>2 DEF Noted, Shown, EntriesOf
<1>4. FreshOK' /\ NamesOK' /\ PublishedOK'
  BY <1>1, <1>2, <1>3 DEF FreshOK, NamesOK, PublishedOK
<1>5. ShownOK'
  BY <1>1, <1>2, <1>3 DEF ShownOK
<1>6. ASSUME Quiet' PROVE Base(monitor.names)'
  <2>1. ~blind
    BY <1>1, <1>6 DEF Quiet
  <2> QED BY <1>1, <1>2, <1>3, <2>1 DEF Base, BaseOK, NamesOK
<1>7. monitor.names \in SUBSET Files
  BY MonitorParts DEF MonitorType
<1>8. BaseOK'
  BY <1>2, <1>6, <1>7 DEF BaseOK
<1> QED BY <1>4, <1>5, <1>8

\* Every step keeps what the lists have to do with the files.
LEMMA CurrentStep == IInv /\ CurrentInv /\ [Next]_vars => CurrentInv'
<1> SUFFICES ASSUME IInv, CurrentInv, [Next]_vars PROVE CurrentInv'
  OBVIOUS
<1>1. CASE MonitorStep
  BY <1>1, GlobCurrent, ScannedCurrent, BetweenCurrent, ClearCurrent, MakeMapCurrent,
     PublishCurrent, StatCurrent, ReadCurrent DEF MonitorStep
<1>2. CASE \E f \in Files : WriteFile(f) \/ RemoveFile(f)
  BY <1>2, DirectoryCurrent
<1>3. CASE \/ UNCHANGED vars \/ \E s \in Stoppers : Stop(s) \/ StopStep(s)
           \/ \E r \in Readers : LoadSnapshot(r) \/ LookUp(r)
  <2>1. UNCHANGED view
    BY <1>3 DEF vars, Stop, StopStep, ForgetChannel, NotRunning, LoadSnapshot, LookUp,
       view, dir, hosts
  <2> QED BY <2>1, AsideCurrent
<1> QED BY <1>1, <1>2, <1>3 DEF Next

\* A monitor whose next scan would read nothing has the lists that the files say, and a worker
\* that needs them finds them published; a monitor that ended leaves no entry behind
\* (operator_lists.go:104-140, 313).  What it may overlook is only that other files have
\* taken the place of as many that are gone.
THEOREM QuietMonitorIsCurrent == Spec => []ListsAreCurrent
<1>1. ASSUME IInv, CurrentInv, monitor.at \in {"loop", "sleep"}, ~blind, NothingToSee
      PROVE  lists = OnDisk
  <2> USE <1>1 DEF CurrentInv
  <2>1. PICK R \in SUBSET Files : Base(R)
    BY DEF BaseOK, Quiet
  <2>2. R = monitor.names
    BY <2>1 DEF Base
  <2>3. \A f \in Existing : Noted(f) /\ Shown(f)
    BY DEF NothingToSee, Noted, Existing, ShownOK, Quiet
  <2>4. Existing \subseteq monitor.names
    BY <2>3 DEF NamesOK, Existing
  <2>5. IsFiniteSet(R) /\ Cardinality(R) = Cardinality(Existing)
    BY <2>1, FileAssumption, FS_Subset DEF Base, NothingToSee
  <2>6. Existing = R
    BY <2>2, <2>4, <2>5, FS_Subset
  <2>7. \A e \in lists : e[1] \in Existing
    BY <2>1, <2>3, <2>6 DEF Base, Noted
  <2> QED BY <2>3, <2>7 DEF Shown, EntriesOf, OnDisk, Existing
<1>2. IInv /\ CurrentInv => ListsAreCurrent
  BY <1>1 DEF ListsAreCurrent, CurrentInv, PublishedOK
<1>3. Spec => []CurrentInv
  BY InitCurrent, CurrentStep, MonitorInvariant, PTL DEF Spec
<1> QED BY <1>2, <1>3, MonitorInvariant, PTL
=============================================================================
