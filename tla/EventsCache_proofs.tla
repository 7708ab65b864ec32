-------------------------- MODULE EventsCache_proofs --------------------------
(***************************************************************************)
(* For any binaries, workers and connections: a process whose event has    *)
(* been handled is in the store as long as it runs.                        *)
(*                                                                         *)
(* The argument: a handler never writes an object without a path, so that  *)
(* its last write leaves an entry, its own or a newer one; the timers and  *)
(* the cleaning only delete when the pid is not alive.                     *)
(***************************************************************************)
EXTENDS EventsCache, TLAPS

\* A process that runs has an image and a path.
OsOK ==
    /\ os.image <= execs
    /\ os.state = "running" => os.image \in Nat \ {0} /\ os.path \in Paths

\* An exec event says what is executed.
RingOK == \A i \in 1..Len(ring) : ring[i].type = "exec" => ring[i].path # NoPath

StoreOK == store.found => store.path # NoPath

\* A handler has something to write, and with a path.
JobOK(j) ==
    /\ j.at = "look" => j.new.path # NoPath
    /\ j.at = "write" =>
         /\ j.todo # <<>> /\ j.new.path # NoPath
         /\ Contains(j.todo, "old") => j.old.path # NoPath

JobsOK ==
    /\ \A w \in Anyone : JobOK(job[w])
    /\ \A w \in Workers : job[w].at = "read" => job[w].path # NoPath

Parts == OsOK /\ RingOK /\ StoreOK /\ JobsOK /\ HandledProcessIsInStore

IInv == TypeOK /\ Parts

JobRecord ==
    [at : {"rest", "read", "look", "write"}, image : 0..MaxExecs,
     path : Paths \cup {NoPath}, new : Object, old : Object, todo : Seq({"new", "old"})]

ItemRecord == [found : BOOLEAN, path : Paths \cup {Comm, NoPath}, born : 0..MaxBorn, fresh : BOOLEAN]

-----------------------------------------------------------------------------
(* Sequences of writes *)

LEMMA WritesOf ==
  ASSUME NEW proc
  PROVE  \A s \in WritesFor(proc) :
           /\ s \in Seq({"new", "old"})
           /\ ~store.found => s # <<>> /\ ~Contains(s, "old")
<1>1. \A s \in OneOrTwo("new") : s \in Seq({"new", "old"}) /\ Len(s) \in 1..2 /\ ~Contains(s, "old")
  <2>1. /\ <<"new">> \in Seq({"new", "old"}) /\ <<"new", "new">> \in Seq({"new", "old"})
        /\ Len(<<"new">>) = 1 /\ Len(<<"new", "new">>) = 2
    OBVIOUS
  <2>2. ~Contains(<<"new">>, "old") /\ ~Contains(<<"new", "new">>, "old")
    BY DEF Contains
  <2>3. \A s \in OneOrTwo("new") : s = <<"new">> \/ s = <<"new", "new">>
    BY DEF OneOrTwo
  <2>4. 1 \in 1..2 /\ 2 \in 1..2
    OBVIOUS
  <2> QED BY <2>1, <2>2, <2>3, <2>4, Zenon
<1>2. \A s \in Perhaps("new") \cup Perhaps("old") : s \in Seq({"new", "old"})
  <2>1. <<>> \in Seq({"new", "old"})
    OBVIOUS
  <2>2. <<"new">> \in Seq({"new", "old"})
    OBVIOUS
  <2>3. <<"old">> \in Seq({"new", "old"})
    OBVIOUS
  <2> QED BY <2>1, <2>2, <2>3, Zenon DEF Perhaps
<1>3. \A s \in AddWrites : s \in Seq({"new", "old"}) /\ s # <<>> /\ ~Contains(s, "old")
  <2> SUFFICES ASSUME NEW a \in OneOrTwo("new")
               PROVE  /\ a \o <<"new">> \in Seq({"new", "old"}) /\ a \o <<"new">> # <<>>
                      /\ ~Contains(a \o <<"new">>, "old")
    BY DEF AddWrites
  <2>1. a \o <<"new">> \in Seq({"new", "old"}) /\ Len(a \o <<"new">>) = Len(a) + 1
    BY <1>1
  <2>2. a \o <<"new">> # <<>>
    BY <1>1, <2>1
  <2>3. \A i \in 1..Len(a \o <<"new">>) : (a \o <<"new">>)[i] = "new"
    BY <1>1, <2>1 DEF Contains, OneOrTwo
  <2> QED BY <2>1, <2>2, <2>3 DEF Contains
<1>4. \A s \in ReplaceWrites \cup UpdateWrites : s \in Seq({"new", "old"})
  <2>1. <<"new", "new">> \in Seq({"new", "old"})
    OBVIOUS
  <2>2. \A s, t \in Seq({"new", "old"}) : s \o t \in Seq({"new", "old"})
    OBVIOUS
  <2>3. \A a \in Perhaps("old"), b \in Perhaps("new") :
          a \o b \in Seq({"new", "old"}) /\ <<"new", "new">> \o a \o b \in Seq({"new", "old"})
    <3> SUFFICES ASSUME NEW a \in Perhaps("old"), NEW b \in Perhaps("new")
                 PROVE a \o b \in Seq({"new", "old"}) /\ <<"new", "new">> \o a \o b \in Seq({"new", "old"})
      OBVIOUS
    <3>1. a \in Seq({"new", "old"}) /\ b \in Seq({"new", "old"})
      BY <1>2
    <3>2. <<"new", "new">> \o a \in Seq({"new", "old"})
      BY <2>1, <2>2, <3>1
    <3> QED BY <2>2, <3>1, <3>2
  <2>4. \A s \in ReplaceWrites : \E a \in Perhaps("old"), b \in Perhaps("new") :
          s = <<"new", "new">> \o a \o b
    BY DEF ReplaceWrites
  <2>5. \A s \in UpdateWrites : \E a \in Perhaps("old"), b \in Perhaps("new") : s = a \o b
    BY DEF UpdateWrites
  <2>6. \A s \in ReplaceWrites : s \in Seq({"new", "old"})
    <3> SUFFICES ASSUME NEW s \in ReplaceWrites PROVE s \in Seq({"new", "old"})
      OBVIOUS
    <3>1. PICK a \in Perhaps("old"), b \in Perhaps("new") : s = <<"new", "new">> \o a \o b
      BY <2>4
    <3> QED BY <2>3, <3>1
  <2>7. \A s \in UpdateWrites : s \in Seq({"new", "old"})
    <3> SUFFICES ASSUME NEW s \in UpdateWrites PROVE s \in Seq({"new", "old"})
      OBVIOUS
    <3>1. PICK a \in Perhaps("old"), b \in Perhaps("new") : s = a \o b
      BY <2>5
    <3> QED BY <2>3, <3>1
  <2> QED BY <2>6, <2>7
<1> QED BY <1>3, <1>4 DEF WritesFor

\* A lookup writes its own object, once or more.
LEMMA WritesOfNew ==
  ASSUME NEW a \in OneOrTwo("new"), NEW b \in Perhaps("new")
  PROVE  a \o b \in Seq({"new", "old"}) /\ a \o b # <<>> /\ ~Contains(a \o b, "old")
<1>1. a \in Seq({"new"}) /\ Len(a) # 0
  <2>1. <<"new">> \in Seq({"new"}) /\ <<"new", "new">> \in Seq({"new"})
        /\ Len(<<"new">>) = 1 /\ Len(<<"new", "new">>) = 2
    OBVIOUS
  <2>2. a = <<"new">> \/ a = <<"new", "new">>
    BY DEF OneOrTwo
  <2>3. 1 # 0 /\ 2 # 0
    OBVIOUS
  <2> QED BY <2>1, <2>2, <2>3, Zenon
<1>2. b \in Seq({"new"})
  <2>1. <<>> \in Seq({"new"})
    OBVIOUS
  <2>2. <<"new">> \in Seq({"new"})
    OBVIOUS
  <2>3. b = <<>> \/ b = <<"new">>
    BY DEF Perhaps
  <2> QED BY <2>1, <2>2, <2>3
<1>3. a \o b \in Seq({"new"}) /\ Len(a \o b) # 0
  BY <1>1, <1>2
<1>4. \A s \in Seq({"new"}) : s \in Seq({"new", "old"}) /\ ~Contains(s, "old")
  BY DEF Contains
<1>5. Len(<<>>) = 0
  OBVIOUS
<1> QED BY <1>3, <1>4, <1>5

LEMMA RestOfWrites ==
  ASSUME NEW s \in Seq({"new", "old"}), s # <<>>
  PROVE  /\ Head(s) \in {"new", "old"} /\ Tail(s) \in Seq({"new", "old"})
         /\ Head(s) = "old" => Contains(s, "old")
         /\ Contains(Tail(s), "old") => Contains(s, "old")
<1>1. Head(s) = s[1] /\ 1 \in 1..Len(s) /\ Head(s) \in {"new", "old"} /\ Tail(s) \in Seq({"new", "old"})
  OBVIOUS
<1>2. \A i \in 1..Len(Tail(s)) : i + 1 \in 1..Len(s) /\ Tail(s)[i] = s[i + 1]
  OBVIOUS
<1> QED BY <1>1, <1>2 DEF Contains


-----------------------------------------------------------------------------
(* Steps of one kind *)

\* The system moves on, and the kernel may add an event.
LEMMA SystemInv ==
  ASSUME IInv, OsOK',
         os' \in [state : {"gone", "running", "exiting"}, image : 0..MaxExecs,
                  path : Paths \cup {NoPath}, traced : BOOLEAN],
         ring' = ring \/ \E e \in Event : ring' = Append(ring, e) /\ (e.type = "exec" => e.path # NoPath),
         UNCHANGED <<store, timers, born, job>>, execs' \in 0..MaxExecs,
         handled' \in BOOLEAN, alone' \in BOOLEAN,
         Running' /\ handled' => Running /\ handled
  PROVE  IInv'
<1> USE DEF IInv, Parts
<1>1. ring' \in Seq(Event) /\ RingOK'
  <2>1. CASE ring' = ring
    BY <2>1 DEF TypeOK, RingOK
  <2>2. ASSUME NEW e \in Event, ring' = Append(ring, e), e.type = "exec" => e.path # NoPath
        PROVE  ring' \in Seq(Event) /\ RingOK'
    <3>1. ring \in Seq(Event)
      BY DEF TypeOK
    <3> QED BY <2>2, <3>1 DEF RingOK
  <2> QED BY <2>1, <2>2
<1>2. TypeOK'
  BY <1>1 DEF TypeOK
<1>3. StoreOK' /\ JobsOK'
  BY DEF StoreOK, JobsOK
<1>4. HandledProcessIsInStore'
  BY DEF HandledProcessIsInStore
<1> QED BY <1>1, <1>2, <1>3, <1>4

\* The entry of the store gets old, or is deleted when the pid is not alive.
LEMMA StoreInv ==
  ASSUME IInv, store' \in ItemRecord, timers' \in Nat,
         store'.path = store.path \/ ~store'.found,
         store'.found = store.found \/ ~Running,
         store'.found => store.found,
         UNCHANGED <<os, ring, born, job, execs, handled, alone>>
  PROVE  IInv'
<1>1. TypeOK'
  BY DEF IInv, TypeOK, ItemRecord
<1>2. Parts'
  BY DEF IInv, Parts, OsOK, RingOK, StoreOK, JobsOK, HandledProcessIsInStore, Running
<1> QED BY <1>1, <1>2 DEF IInv

\* A worker or a lookup has something new at hand, and may have taken an event.
LEMMA JobInv ==
  ASSUME IInv, NEW w \in Anyone, NEW j \in JobRecord, job' = [job EXCEPT ![w] = j], JobOK(j),
         w \in Workers /\ j.at = "read" => j.path # NoPath,
         ring' = ring \/ (ring # <<>> /\ ring' = Tail(ring)),
         born' \in 0..MaxBorn, alone' \in BOOLEAN, timers' \in Nat, handled' = handled,
         UNCHANGED <<os, store, execs>>
  PROVE  IInv'
<1> USE DEF IInv, Parts
<1>1. ring' \in Seq(Event) /\ RingOK'
  <2>1. CASE ring' = ring
    BY <2>1 DEF TypeOK, RingOK
  <2>2. CASE ring # <<>> /\ ring' = Tail(ring)
    <3>1. ring \in Seq(Event)
      BY DEF TypeOK
    <3> QED BY <2>2, <3>1 DEF RingOK
  <2> QED BY <2>1, <2>2
<1>2. job' \in [Anyone -> JobRecord] /\ job'[w] = j /\ \A v \in Anyone \ {w} : job'[v] = job[v]
  BY DEF TypeOK, JobRecord
<1>3. TypeOK'
  BY <1>1, <1>2 DEF TypeOK, JobRecord
<1>4. JobsOK'
  BY <1>2 DEF JobsOK, Anyone
<1>5. OsOK' /\ StoreOK' /\ HandledProcessIsInStore'
  BY DEF OsOK, StoreOK, HandledProcessIsInStore, Running
<1> QED BY <1>1, <1>3, <1>4, <1>5


\* Where Then leaves a handler that has these writes to do.
LEMMA ThenJob ==
  ASSUME IInv, NEW w \in Anyone, NEW copy \in Object, NEW todo \in Seq({"new", "old"}),
         Then(w, copy, todo), job[w].new.path # NoPath,
         Contains(todo, "old") => copy.path # NoPath
  PROVE  /\ job' \in [Anyone -> JobRecord] /\ JobsOK'
         /\ handled' \in BOOLEAN /\ (handled' => handled \/ todo = <<>>)
<1> USE DEF IInv, Parts
<1>0. job \in [Anyone -> JobRecord] /\ handled \in BOOLEAN
  BY DEF TypeOK, JobRecord
<1>1. Rest \in JobRecord /\ Rest.at = "rest" /\ Rest.old \in Object
  <2>1. <<>> \in Seq({"new", "old"}) /\ 0 \in 0..MaxExecs /\ 0 \in 0..MaxBorn
    BY BoundAssumption
  <2>2. [path |-> NoPath, born |-> 0] \in Object
    BY <2>1 DEF Object
  <2> QED BY <2>1, <2>2 DEF Rest, JobRecord
<1> DEFINE old == IF Contains(todo, "old") THEN copy ELSE Rest.old
           busy == [job[w] EXCEPT !.at = "write", !.todo = todo, !.old = old]
           j == IF todo = <<>> THEN Rest ELSE busy
<1>2. old \in Object /\ (Contains(todo, "old") => old = copy)
  BY <1>1
<1>3. busy \in JobRecord /\ busy.at = "write" /\ busy.todo = todo /\ busy.old = old /\ busy.new = job[w].new
  <2> HIDE DEF old
  <2> QED BY <1>0, <1>2 DEF JobRecord
<1>4. /\ job' = [job EXCEPT ![w] = j]
      /\ handled' = (handled \/ (w \in Workers /\ todo = <<>> /\ job[w].image = os.image))
  BY DEF Then
<1> HIDE DEF old, busy
<1>5. j \in JobRecord /\ JobOK(j) /\ j.at # "read"
  BY <1>1, <1>2, <1>3 DEF JobOK
<1> HIDE DEF j
<1>6. job' \in [Anyone -> JobRecord] /\ job'[w] = j /\ \A v \in Anyone \ {w} : job'[v] = job[v]
  BY <1>0, <1>4, <1>5
<1>7. JobsOK'
  BY <1>5, <1>6 DEF JobsOK, Anyone
<1>8. handled' \in BOOLEAN /\ (handled' => handled \/ todo = <<>>)
  BY <1>0, <1>4
<1> QED BY <1>6, <1>7, <1>8

\* The entry that a write leaves has a path, its own or that of a newer object.
LEMMA WriteInv ==
  ASSUME IInv, NEW w \in Anyone, Write(w)
  PROVE  IInv'
<1> USE DEF IInv, Parts
<1>1. /\ job[w] \in JobRecord /\ job[w].at = "write" /\ JobOK(job[w]) /\ store \in ItemRecord
      /\ job[w].todo \in Seq({"new", "old"}) /\ job[w].old \in Object /\ job[w].new \in Object
  BY DEF TypeOK, JobRecord, ItemRecord, Write, JobsOK
<1> DEFINE todo == job[w].todo
           proc == IF Head(todo) = "new" THEN job[w].new ELSE job[w].old
<1>2. /\ Head(todo) \in {"new", "old"} /\ Tail(todo) \in Seq({"new", "old"}) /\ todo # <<>>
      /\ Head(todo) = "old" => Contains(todo, "old")
      /\ Contains(Tail(todo), "old") => Contains(todo, "old")
  BY <1>1, RestOfWrites DEF JobOK
<1>3. proc \in Object /\ proc.path # NoPath
  BY <1>1, <1>2 DEF JobOK
<1>4. /\ UpdateItem(proc) /\ Then(w, job[w].old, Tail(todo))
      /\ UNCHANGED <<os, ring, timers, born, execs, alone>>
  BY DEF Write
<1>5. job' \in [Anyone -> JobRecord] /\ JobsOK' /\ handled' \in BOOLEAN
  BY <1>1, <1>2, <1>4, ThenJob DEF JobOK
<1> HIDE DEF proc
<1>6. store' \in ItemRecord /\ store'.found /\ store'.path # NoPath
  BY <1>1, <1>3, <1>4 DEF UpdateItem, IsStale, StoreOK, ItemRecord, Object
<1>7. TypeOK'
  BY <1>4, <1>5, <1>6 DEF TypeOK, JobRecord, ItemRecord
<1>8. OsOK' /\ RingOK' /\ StoreOK' /\ HandledProcessIsInStore'
  BY <1>4, <1>6 DEF OsOK, RingOK, StoreOK, HandledProcessIsInStore
<1> QED BY <1>5, <1>7, <1>8

\* A handler that has nothing to write has found the pid in the store.
LEMMA LookUpInv ==
  ASSUME IInv, NEW w \in Workers, LookUp(w)
  PROVE  IInv'
<1> USE DEF IInv, Parts
<1> DEFINE copy == [path |-> store.path, born |-> store.born]
<1>1. PICK todo \in WritesFor(job[w].new) : Then(w, copy, todo)
  BY DEF LookUp
<1>2. todo \in Seq({"new", "old"}) /\ (~store.found => todo # <<>> /\ ~Contains(todo, "old"))
  BY WritesOf
<1>3. /\ w \in Anyone /\ job[w].new.path # NoPath /\ copy \in Object
      /\ Contains(todo, "old") => copy.path # NoPath
      /\ UNCHANGED <<os, ring, store, timers, born, execs, alone>>
  BY <1>2 DEF LookUp, JobsOK, JobOK, StoreOK, TypeOK, Object, Anyone
<1> HIDE DEF copy
<1>4. /\ job' \in [Anyone -> JobRecord] /\ JobsOK'
      /\ handled' \in BOOLEAN /\ (handled' => handled \/ todo = <<>>)
  BY <1>1, <1>2, <1>3, ThenJob
<1>5. TypeOK'
  BY <1>3, <1>4 DEF TypeOK, JobRecord
<1>6. OsOK' /\ RingOK' /\ StoreOK'
  BY <1>3 DEF OsOK, RingOK, StoreOK
<1>7. HandledProcessIsInStore'
  BY <1>2, <1>3, <1>4 DEF HandledProcessIsInStore, Running
<1> QED BY <1>4, <1>5, <1>6, <1>7

-----------------------------------------------------------------------------
(* Every step *)

LEMMA InitInv == Init => IInv
<1> SUFFICES ASSUME Init PROVE IInv
  OBVIOUS
<1>1. 0 \in 0..MaxExecs /\ 0 \in 0..MaxBorn /\ <<>> \in Seq({"new", "old"}) /\ <<>> \in Seq(Event)
  BY BoundAssumption
<1>2. Rest \in JobRecord /\ Rest.at = "rest"
  BY <1>1 DEF Rest, JobRecord, Object
<1>3. job \in [Anyone -> JobRecord] /\ \A w \in Anyone : job[w] = Rest
  BY <1>2 DEF Init
<1>4. TypeOK
  BY <1>1, <1>3 DEF Init, TypeOK, JobRecord, NoItem
<1>5. JobsOK
  BY <1>2, <1>3 DEF JobsOK, JobOK, Anyone
<1>6. OsOK /\ RingOK /\ StoreOK /\ HandledProcessIsInStore
  BY BoundAssumption DEF Init, OsOK, RingOK, StoreOK, HandledProcessIsInStore, NoItem
<1> QED BY <1>4, <1>5, <1>6 DEF IInv, Parts

LEMMA SystemStepInv ==
  ASSUME IInv, System
  PROVE  IInv'
<1> DEFINE OsType == [state : {"gone", "running", "exiting"}, image : 0..MaxExecs,
                      path : Paths \cup {NoPath}, traced : BOOLEAN]
<1>0. /\ os \in OsType /\ execs \in 0..MaxExecs /\ OsOK /\ handled \in BOOLEAN /\ alone \in BOOLEAN
      /\ execs < MaxExecs => execs + 1 \in 0..MaxExecs /\ os.image + 1 \in 1..MaxExecs
  BY BoundAssumption DEF IInv, Parts, TypeOK, OsOK
<1>1. ASSUME NEW p \in Paths, Fork(p)
      PROVE  IInv'
  <2>1. /\ os' = [os EXCEPT !.state = "running", !.path = p, !.traced = FALSE, !.image = os.image + 1]
        /\ execs' = execs + 1 /\ handled' = FALSE /\ alone' = FALSE /\ execs < MaxExecs
        /\ UNCHANGED <<ring, store, timers, born, job>>
    BY <1>0, <1>1 DEF Fork, NewImage
  <2>2. os' \in OsType /\ OsOK'
    <3>0. os.image + 1 \in 0..MaxExecs
      BY <1>0, <2>1
    <3>1. os' \in OsType
      <4> DEFINE next == os.image + 1
      <4> HIDE DEF next
      <4> QED BY <1>0, <2>1, <3>0 DEF next
    <3>2. os'.image = os.image + 1 /\ os'.path = p
      BY <1>0, <2>1
    <3>3. os.image \in Nat /\ execs \in Nat /\ os.image <= execs
      BY <1>0, BoundAssumption DEF OsOK
    <3> QED BY <2>1, <3>1, <3>2, <3>3 DEF OsOK
  <2> QED BY <1>0, <2>1, <2>2, SystemInv
<1>2. ASSUME NEW p \in Paths, Exec(p)
      PROVE  IInv'
  <2> DEFINE e == [type |-> "exec", image |-> os.image + 1, path |-> p]
  <2>1. /\ os' = [os EXCEPT !.path = p, !.traced = TRUE, !.image = os.image + 1]
        /\ execs' = execs + 1 /\ handled' = FALSE /\ alone' = FALSE /\ execs < MaxExecs
        /\ ring' = Append(ring, e) /\ UNCHANGED <<store, timers, born, job>> /\ os.state = "running"
    BY <1>0, <1>2 DEF Exec, NewImage
  <2>2. os' \in OsType /\ OsOK'
    <3>0. os.image + 1 \in 0..MaxExecs
      BY <1>0, <2>1
    <3>1. os' \in OsType
      <4> DEFINE next == os.image + 1
      <4> HIDE DEF next
      <4> QED BY <1>0, <2>1, <3>0 DEF next
    <3>2. os'.image = os.image + 1 /\ os'.path = p
      BY <1>0, <2>1
    <3>3. os.image \in Nat /\ execs \in Nat /\ os.image <= execs
      BY <1>0, BoundAssumption DEF OsOK
    <3> QED BY <2>1, <3>1, <3>2, <3>3 DEF OsOK
  <2>3. e \in Event /\ e.path # NoPath
    BY <1>0, <2>1, PathAssumption DEF Event
  <2> QED BY <1>0, <2>1, <2>2, <2>3, SystemInv
<1>3. ASSUME NEW p \in Paths, ExecFails(p)
      PROVE  IInv'
  <2> DEFINE e == [type |-> "exec", image |-> os.image, path |-> p]
  <2>1. /\ os' = [os EXCEPT !.traced = TRUE]
        /\ execs' = execs + 1 /\ UNCHANGED <<handled, alone>> /\ execs < MaxExecs
        /\ ring' = Append(ring, e) /\ UNCHANGED <<store, timers, born, job>> /\ os.state = "running"
    BY <1>0, <1>3 DEF ExecFails
  <2>2. os' \in OsType /\ OsOK' /\ os'.state = os.state
    <3>1. os' \in OsType /\ os'.state = os.state /\ os'.image = os.image /\ os'.path = os.path
      BY <1>0, <2>1
    <3>2. os.image \in Nat /\ execs \in Nat /\ os.image <= execs
      BY <1>0, BoundAssumption DEF OsOK
    <3> QED BY <1>0, <2>1, <3>1, <3>2 DEF OsOK
  <2>3. e \in Event /\ e.path # NoPath
    BY <1>0, <2>1, PathAssumption DEF Event, OsOK
  <2> QED BY <1>0, <2>1, <2>2, <2>3, SystemInv DEF Running
<1>4. CASE ProcessExit
  <2> DEFINE e == [type |-> "exit", image |-> os.image, path |-> NoPath]
  <2>1. /\ os' = [os EXCEPT !.state = "exiting"] /\ UNCHANGED <<execs, handled, alone>>
        /\ ring' = ring \/ ring' = Append(ring, e)
        /\ UNCHANGED <<store, timers, born, job>> /\ os.state = "running"
    BY <1>0, <1>4 DEF ProcessExit
  <2>2. os' \in OsType /\ OsOK' /\ ~Running'
    BY <1>0, <2>1 DEF OsOK, Running
  <2>3. e \in Event /\ e.type # "exec"
    BY <1>0, <2>1, PathAssumption DEF Event, OsOK
  <2> QED BY <1>0, <2>1, <2>2, <2>3, SystemInv
<1>5. CASE Reap
  <2>1. /\ os' = [os EXCEPT !.state = "gone"]
        /\ UNCHANGED <<ring, store, timers, born, job, execs, handled, alone>>
    BY <1>5 DEF Reap
  <2>2. os' \in OsType /\ OsOK' /\ ~Running'
    BY <1>0, <2>1 DEF OsOK, Running
  <2> QED BY <1>0, <2>1, <2>2, SystemInv
<1> QED BY <1>1, <1>2, <1>3, <1>4, <1>5 DEF System

LEMMA StoreStepInv ==
  ASSUME IInv, Fire \/ GetOld \/ DeleteOldItems
  PROVE  IInv'
<1>0. store \in ItemRecord /\ NoItem \in ItemRecord /\ timers \in Nat /\ ~NoItem.found
  BY BoundAssumption DEF IInv, TypeOK, ItemRecord, NoItem
<1>1. ~IsAlive => ~Running
  BY DEF IsAlive, Running
<1>2. CASE Fire
  BY <1>0, <1>1, <1>2, StoreInv DEF Fire
<1>3. CASE GetOld
  <2>1. /\ store' \in ItemRecord /\ store'.path = store.path /\ store'.found = store.found
        /\ UNCHANGED <<os, ring, timers, born, job, execs, handled, alone>>
    BY <1>0, <1>3 DEF GetOld, ItemRecord
  <2> QED BY <1>0, <2>1, StoreInv
<1>4. CASE DeleteOldItems
  BY <1>0, <1>1, <1>4, StoreInv DEF DeleteOldItems
<1> QED BY <1>2, <1>3, <1>4

\* The steps of workers and lookups that write nothing.
LEMMA HandlerInv ==
  ASSUME IInv,
         \/ \E w \in Workers : TakeExec(w) \/ TakeExit(w) \/ ReadPath(w)
         \/ \E l \in Lookers : NotFound(l) \/ NewProcess(l)
         \/ LoseEvent
  PROVE  IInv'
<1> USE DEF IInv, Parts
<1>0. /\ job \in [Anyone -> JobRecord] /\ born \in 0..MaxBorn /\ timers \in Nat /\ ring \in Seq(Event)
      /\ born < MaxBorn => born + 1 \in 0..MaxBorn
      /\ store.found \in BOOLEAN /\ alone \in BOOLEAN
  BY BoundAssumption DEF TypeOK, JobRecord
<1>1. /\ Rest \in JobRecord /\ Rest.at = "rest"
      /\ \A b \in 0..MaxBorn, p \in Paths \cup {Comm, NoPath} : [path |-> p, born |-> b] \in Object
  <2>1. 0 \in 0..MaxExecs /\ 0 \in 0..MaxBorn /\ <<>> \in Seq({"new", "old"})
    BY BoundAssumption
  <2> QED BY <2>1 DEF Rest, JobRecord, Object
<1>2. ASSUME NEW w \in Workers, TakeExec(w)
      PROVE  IInv'
  <2> DEFINE e == Head(ring)
             j == [Rest EXCEPT !.at = "read", !.image = e.image, !.path = e.path,
                               !.new = [path |-> NoPath, born |-> born + 1]]
  <2>1. e \in Event /\ e.path # NoPath
    <3>1. ring # <<>> /\ e = ring[1] /\ 1 \in 1..Len(ring)
      BY <1>0, <1>2 DEF TakeExec
    <3> QED BY <1>0, <1>2, <3>1 DEF TakeExec, RingOK
  <2>2. j \in JobRecord /\ j.at = "read" /\ j.path = e.path
    <3>1. [path |-> NoPath, born |-> born + 1] \in Object
      BY <1>0, <1>1, <1>2 DEF TakeExec
    <3>2. e.image \in 0..MaxExecs /\ e.path \in Paths \cup {NoPath}
      BY <2>1, BoundAssumption DEF Event
    <3> QED BY <1>1, <3>1, <3>2 DEF JobRecord
  <2>3. /\ job' = [job EXCEPT ![w] = j] /\ ring # <<>> /\ ring' = Tail(ring)
        /\ born' \in 0..MaxBorn /\ alone' \in BOOLEAN
        /\ UNCHANGED <<os, store, timers, execs, handled>>
    BY <1>0, <1>2 DEF TakeExec
  <2> HIDE DEF j
  <2> QED BY <1>0, <2>1, <2>2, <2>3, JobInv DEF Anyone, JobOK
<1>3. ASSUME NEW w \in Workers, TakeExit(w)
      PROVE  IInv'
  <2>1. /\ ring # <<>> /\ ring' = Tail(ring) /\ timers' \in Nat
        /\ UNCHANGED <<os, store, born, job, execs, handled, alone>>
    BY <1>0, <1>3 DEF TakeExit
  <2>2. w \in Anyone /\ job' = [job EXCEPT ![w] = job[w]] /\ job[w] \in JobRecord /\ JobOK(job[w])
    BY <1>0, <2>1 DEF Anyone, JobsOK
  <2>3. job[w].at = "read" => job[w].path # NoPath
    BY DEF JobsOK
  <2> QED BY <1>0, <2>1, <2>2, <2>3, JobInv
<1>4. ASSUME NEW w \in Workers, ReadPath(w)
      PROVE  IInv'
  <2>1. PICK link \in ExeLinks :
          job' = [job EXCEPT ![w] = [job[w] EXCEPT !.at = "look", !.path = NoPath,
                   !.new = [path |-> IF link = NoPath THEN job[w].path ELSE link, born |-> job[w].new.born]]]
    BY <1>4 DEF ReadPath
  <2> DEFINE path == IF link = NoPath THEN job[w].path ELSE link
             new == [path |-> path, born |-> job[w].new.born]
             j == [job[w] EXCEPT !.at = "look", !.path = NoPath, !.new = new]
  <2>2. job[w] \in JobRecord /\ job[w].new.born \in 0..MaxBorn /\ job[w].path \in (Paths \cup {NoPath}) \ {NoPath}
    BY <1>0, <1>4 DEF JobRecord, Object, ReadPath, JobsOK, Anyone
  <2>3. path \in Paths
    BY <2>1, <2>2 DEF ExeLinks, TypeOK
  <2>4. new \in Object /\ new.path # NoPath
    BY <1>1, <2>2, <2>3, PathAssumption
  <2> HIDE DEF new
  <2>5. j \in JobRecord /\ j.at = "look" /\ j.new = new
    BY <2>2, <2>4 DEF JobRecord
  <2>6. job' = [job EXCEPT ![w] = j] /\ UNCHANGED <<os, ring, store, timers, born, execs, handled, alone>>
    BY <1>4, <2>1 DEF ReadPath, new
  <2> HIDE DEF j
  <2> QED BY <1>0, <2>4, <2>5, <2>6, JobInv DEF Anyone, JobOK
<1>5. ASSUME NEW l \in Lookers, NotFound(l)
      PROVE  IInv'
  <2> DEFINE j == [Rest EXCEPT !.at = "read", !.new = [path |-> NoPath, born |-> born + 1]]
  <2>1. [path |-> NoPath, born |-> born + 1] \in Object
    BY <1>0, <1>1, <1>5 DEF NotFound
  <2>2. j \in JobRecord /\ j.at = "read"
    BY <1>1, <2>1 DEF JobRecord
  <2>3. /\ job' = [job EXCEPT ![l] = j] /\ born' \in 0..MaxBorn
        /\ UNCHANGED <<os, ring, store, timers, execs, handled, alone>>
    BY <1>0, <1>5 DEF NotFound
  <2>4. l \in Anyone /\ l \notin Workers
    BY WorkerAssumption DEF Anyone
  <2> HIDE DEF j
  <2> QED BY <1>0, <2>2, <2>3, <2>4, JobInv DEF JobOK
<1>6. ASSUME NEW l \in Lookers, NewProcess(l)
      PROVE  IInv'
  <2>1. PICK link \in ExeLinks, a \in OneOrTwo("new"), b \in Perhaps("new") :
          job' = [job EXCEPT ![l] = [job[l] EXCEPT !.at = "write", !.todo = a \o b,
                   !.new = [path |-> IF link = NoPath THEN Comm ELSE link, born |-> job[l].new.born]]]
    BY <1>6 DEF NewProcess
  <2> DEFINE todo == a \o b
             path == IF link = NoPath THEN Comm ELSE link
             new == [path |-> path, born |-> job[l].new.born]
             j == [job[l] EXCEPT !.at = "write", !.todo = todo, !.new = new]
  <2>2. todo \in Seq({"new", "old"}) /\ todo # <<>> /\ ~Contains(todo, "old")
    BY WritesOfNew
  <2>3. job[l] \in JobRecord /\ job[l].new.born \in 0..MaxBorn /\ l \in Anyone /\ l \notin Workers
    BY <1>0, WorkerAssumption DEF JobRecord, Object, Anyone
  <2>4. path \in Paths \cup {Comm} /\ path # NoPath
    BY <2>1, PathAssumption DEF ExeLinks, TypeOK
  <2>5. new \in Object /\ new.path # NoPath
    BY <1>1, <2>3, <2>4
  <2> HIDE DEF new, todo
  <2>6. j \in JobRecord /\ j.at = "write" /\ j.new = new /\ j.todo = todo
    BY <2>2, <2>3, <2>5 DEF JobRecord
  <2>7. job' = [job EXCEPT ![l] = j] /\ UNCHANGED <<os, ring, store, timers, born, execs, handled, alone>>
    BY <1>6, <2>1 DEF NewProcess, new, todo
  <2> HIDE DEF j
  <2> QED BY <1>0, <2>2, <2>3, <2>5, <2>6, <2>7, JobInv DEF JobOK
<1>7. CASE LoseEvent
  <2>1. /\ ring \in Seq(Event) /\ ring # <<>> /\ ring' = Tail(ring)
        /\ UNCHANGED <<os, store, timers, born, job, execs, handled, alone>>
    BY <1>0, <1>7 DEF LoseEvent
  <2>2. ring' \in Seq(Event) /\ RingOK'
    BY <2>1 DEF RingOK
  <2>3. TypeOK'
    BY <2>1, <2>2 DEF TypeOK
  <2>4. OsOK' /\ StoreOK' /\ JobsOK' /\ HandledProcessIsInStore'
    BY <2>1 DEF OsOK, StoreOK, JobsOK, HandledProcessIsInStore, Running
  <2> QED BY <2>2, <2>3, <2>4
<1> QED BY <1>2, <1>3, <1>4, <1>5, <1>6, <1>7

LEMMA StepInv == IInv /\ [Next]_vars => IInv'
<1> SUFFICES ASSUME IInv, [Next]_vars PROVE IInv'
  OBVIOUS
<1>1. CASE UNCHANGED vars
  BY <1>1 DEF vars, IInv, Parts, TypeOK, OsOK, RingOK, StoreOK, JobsOK, HandledProcessIsInStore, Running
<1>2. CASE Next
  <2>1. ASSUME NEW w \in Anyone, Write(w)
        PROVE  IInv'
    BY <2>1, WriteInv
  <2> QED BY <1>1, <1>2, <2>1, SystemStepInv, StoreStepInv, HandlerInv, LookUpInv
         DEF Next, WorkerStep, LookerStep, Find, Anyone
<1> QED BY <1>1, <1>2

-----------------------------------------------------------------------------
(* Theorems *)

\* The inductive invariant (cache_events.go Add, ReplaceItem, UpdateItem, Delete).
THEOREM CacheInvariant == Spec => []IInv
  BY InitInv, StepInv, PTL DEF Spec

\* Processes, events, the entry of the store and what handlers have at hand are of their types.
THEOREM TypeCorrect == Spec => []TypeOK
<1>1. IInv => TypeOK
  BY DEF IInv
<1> QED BY <1>1, CacheInvariant, PTL

\* Neither the timer that the end of a former process started nor the cleaning removes the
\* entry of a process that runs and whose event was handled (cache_events.go Delete,
\* DeleteOldItems).
THEOREM HandledProcessesStay == Spec => []HandledProcessIsInStore
<1>1. IInv => HandledProcessIsInStore
  BY DEF IInv, Parts
<1> QED BY <1>1, CacheInvariant, PTL

-----------------------------------------------------------------------------
(* One handler at a time *)

\* Events come in the order of the images.
SortedOK ==
    \A i \in 1..Len(ring) :
      /\ ring[i].image <= os.image
      /\ \A j \in i..Len(ring) : ring[i].image <= ring[j].image

\* Objects are numbered as they are made, and only event workers write a copy of the entry.
BornOK ==
    /\ store.born <= born
    /\ \A v \in Anyone : job[v].new.born <= born /\ job[v].old.born <= born
    /\ \A v \in Anyone : job[v].at = "write" /\ Contains(job[v].todo, "old") => v \in Workers

Busy(v) == job[v].at # "rest"

\* The object o is older than all that somebody has at hand.
OlderThanAll(o) == \A v \in Anyone : Busy(v) => o < job[v].new.born

\* What the handler v writes from now on cannot hide the image that runs.
CopyOK(v) ==
    job[v].at = "write" /\ Contains(job[v].todo, "old") =>
      /\ job[v].old.path # os.path => OlderThanAll(job[v].old.born)
      /\ Head(job[v].todo) = "old" =>
           /\ store.found /\ store.path = os.path
           /\ job[v].old.path # os.path => job[v].old.born < store.born

\* As long as handlers of the image that runs have been alone, everybody who has read a path
\* has read its path, and another path in the store is that of an older object.
AloneOK ==
    /\ \A i \in 1..Len(ring) : ring[i].image = os.image
    /\ \A v, w \in Workers : Busy(v) /\ Busy(w) => v = w
    /\ \A v \in Anyone : job[v].at \in {"look", "write"} => job[v].new.path = os.path
    /\ store.found /\ store.path # os.path => OlderThanAll(store.born)
    /\ \A v \in Anyone : CopyOK(v)
    /\ handled => store.found /\ store.path = os.path

SoleInv == SortedOK /\ BornOK /\ (Running /\ alone => AloneOK)

LEMMA HeadOfConcat ==
  ASSUME NEW S, NEW p \in Seq(S), p # <<>>, NEW a \in Seq(S)
  PROVE  p \o a \in Seq(S) /\ p \o a # <<>> /\ Head(p \o a) = Head(p)
<1>1. Len(p) \in Nat \ {0} /\ Len(a) \in Nat
  OBVIOUS
<1>2. p \o a \in Seq(S) /\ Len(p \o a) = Len(p) + Len(a)
  OBVIOUS
<1>3. (p \o a)[1] = p[1]
  BY <1>1
<1> QED BY <1>1, <1>2, <1>3

\* The first write of a handler is of its own object unless the store has its path.
LEMMA WritesBegin ==
  ASSUME NEW proc, NEW s \in WritesFor(proc), s = <<>> \/ Head(s) = "old"
  PROVE  store.found /\ store.path = proc.path
<1>1. \A t \in AddWrites : t # <<>> /\ Head(t) = "new"
  <2> SUFFICES ASSUME NEW a \in OneOrTwo("new")
               PROVE  a \o <<"new">> # <<>> /\ Head(a \o <<"new">>) = "new"
    BY DEF AddWrites
  <2>1. a = <<"new">> \/ a = <<"new", "new">>
    BY DEF OneOrTwo
  <2> QED BY <2>1
<1>2. \A t \in ReplaceWrites : t # <<>> /\ Head(t) = "new"
  <2> SUFFICES ASSUME NEW a \in Perhaps("old"), NEW b \in Perhaps("new")
               PROVE  <<"new", "new">> \o a \o b # <<>> /\ Head(<<"new", "new">> \o a \o b) = "new"
    BY DEF ReplaceWrites
  <2>1. a \in Seq({"new", "old"}) /\ b \in Seq({"new", "old"})
    <3>1. /\ <<>> \in Seq({"new", "old"})
          /\ <<"new">> \in Seq({"new", "old"}) /\ <<"old">> \in Seq({"new", "old"})
      OBVIOUS
    <3> QED BY <3>1, Zenon DEF Perhaps
  <2>2. <<"new", "new">> \in Seq({"new", "old"}) /\ <<"new", "new">> # <<>> /\ Head(<<"new", "new">>) = "new"
    OBVIOUS
  <2> QED BY <2>1, <2>2, HeadOfConcat
<1> QED BY <1>1, <1>2 DEF WritesFor

LEMMA ImagesAreNumbers ==
  ASSUME IInv
  PROVE  /\ ring \in Seq(Event) /\ \A i \in 1..Len(ring) : ring[i].image \in Nat
         /\ os = [state |-> os.state, image |-> os.image, path |-> os.path, traced |-> os.traced]
         /\ os.image \in Nat
<1>1. ring \in Seq(Event) /\ MaxExecs \in Nat
  BY BoundAssumption DEF IInv, TypeOK
<1>2. \A e \in Event : e.image \in Nat
  BY <1>1 DEF Event
<1>3. \A i \in 1..Len(ring) : ring[i] \in Event
  BY <1>1
<1>4. os \in [state : {"gone", "running", "exiting"}, image : 0..MaxExecs,
             path : Paths \cup {NoPath}, traced : BOOLEAN]
  BY DEF IInv, TypeOK
<1> QED BY <1>1, <1>2, <1>3, <1>4

\* An event is taken, or none.
LEMMA RingStep ==
  ASSUME IInv, SortedOK, UNCHANGED os, ring' = ring \/ (ring # <<>> /\ ring' = Tail(ring))
  PROVE  /\ SortedOK'
         /\ (\A i \in 1..Len(ring) : ring[i].image = os.image)
              => \A i \in 1..Len(ring') : ring'[i].image = os'.image
         /\ ring # <<>> /\ Head(ring).image = os.image
              => \A i \in 1..Len(ring) : ring[i].image = os.image
<1>1. ring \in Seq(Event) /\ \A i \in 1..Len(ring) : ring[i].image \in Nat
  BY ImagesAreNumbers
<1>2. os.image \in Nat
  BY ImagesAreNumbers
<1>3. ring # <<>> /\ Head(ring).image = os.image => \A i \in 1..Len(ring) : ring[i].image = os.image
  <2> SUFFICES ASSUME ring # <<>>, Head(ring).image = os.image, NEW i \in 1..Len(ring)
               PROVE  ring[i].image = os.image
    OBVIOUS
  <2>1. Head(ring) = ring[1] /\ 1 \in 1..Len(ring) /\ i \in 1..Len(ring)
    BY <1>1
  <2>2. ring[i].image <= os.image /\ ring[1].image <= ring[i].image
    BY <2>1 DEF SortedOK
  <2> QED BY <1>1, <1>2, <2>1, <2>2
<1>4. CASE ring' = ring
  BY <1>3, <1>4 DEF SortedOK
<1>5. CASE ring # <<>> /\ ring' = Tail(ring)
  <2>1. \A i \in 1..Len(ring') : i + 1 \in 1..Len(ring) /\ ring'[i] = ring[i + 1]
    BY <1>1, <1>5
  <2>2. \A i \in 1..Len(ring') : \A j \in i..Len(ring') : j \in 1..Len(ring') /\ j + 1 \in (i + 1)..Len(ring)
    BY <1>1, <1>5
  <2>3. SortedOK'
    BY <2>1, <2>2 DEF SortedOK
  <2> QED BY <1>3, <2>1, <2>3
<1> QED BY <1>4, <1>5

\* Objects are numbers.
LEMMA ObjectsAreNumbers ==
  ASSUME IInv
  PROVE  /\ born \in Nat /\ store.born \in Nat
         /\ \A v \in Anyone : job[v].new.born \in Nat /\ job[v].old.born \in Nat
         /\ \A j \in JobRecord : j.new.born \in Nat /\ j.old.born \in Nat
<1>1. MaxBorn \in Nat
  BY BoundAssumption
<1>2. \A o \in Object : o.born \in Nat
  BY <1>1 DEF Object
<1>3. \A j \in JobRecord : j.new \in Object /\ j.old \in Object
  BY DEF JobRecord
<1>4. job \in [Anyone -> JobRecord]
  BY DEF IInv, TypeOK, JobRecord
<1>5. born \in Nat /\ store.born \in Nat
  BY <1>1 DEF IInv, TypeOK
<1> QED BY <1>2, <1>3, <1>4, <1>5

\* The system moves on; the store and the handlers are as they were.
LEMMA SystemSole ==
  ASSUME IInv, SoleInv, System
  PROVE  SoleInv'
<1> USE DEF SoleInv
<1>0. /\ ring \in Seq(Event) /\ os.image \in Nat /\ \A i \in 1..Len(ring) : ring[i].image \in Nat
      /\ os = [state |-> os.state, image |-> os.image, path |-> os.path, traced |-> os.traced]
  BY ImagesAreNumbers
<1>1. UNCHANGED <<store, born, job>>
  BY DEF System, Fork, Exec, ExecFails, ProcessExit, Reap
<1>2. BornOK'
  BY <1>1 DEF BornOK
<1>3. ASSUME NEW e, e.image \in Nat, ring' = Append(ring, e), os.image <= e.image, e.image = os'.image
      PROVE  SortedOK'
  <2>1. /\ Len(ring') = Len(ring) + 1 /\ ring'[Len(ring) + 1] = e /\ Len(ring) \in Nat
        /\ \A i \in 1..Len(ring) : ring'[i] = ring[i]
    BY <1>0, <1>3
  <2>2. \A i \in 1..Len(ring) : ring[i].image <= e.image
    BY <1>0, <1>3 DEF SortedOK
  <2>3. \A i \in 1..Len(ring') : i \in 1..Len(ring) \/ i = Len(ring) + 1
    BY <2>1
  <2>4. \A i \in 1..Len(ring') : ring'[i].image <= e.image
    BY <1>3, <2>1, <2>2, <2>3
  <2>5. ASSUME NEW i \in 1..Len(ring'), NEW j \in i..Len(ring')
        PROVE  ring'[i].image <= ring'[j].image
    <3>1. CASE j = Len(ring) + 1
      BY <2>1, <2>4, <3>1
    <3>2. CASE j # Len(ring) + 1
      <4>1. i \in 1..Len(ring) /\ j \in i..Len(ring) /\ j \in 1..Len(ring)
        BY <2>1, <3>2
      <4> QED BY <2>1, <4>1 DEF SortedOK
    <3> QED BY <3>1, <3>2
  <2> QED BY <1>3, <2>4, <2>5 DEF SortedOK
<1>4. ASSUME UNCHANGED ring, os.image <= os'.image, os'.image \in Nat
      PROVE  SortedOK'
  BY <1>0, <1>4 DEF SortedOK
<1>5. ASSUME NEW p \in Paths, Fork(p)
      PROVE  SoleInv'
  <2>1. os'.image = os.image + 1 /\ UNCHANGED ring /\ ~alone'
    BY <1>0, <1>5 DEF Fork, NewImage
  <2> QED BY <1>0, <1>2, <1>4, <2>1
<1>6. ASSUME NEW p \in Paths, Exec(p)
      PROVE  SoleInv'
  <2>1. /\ os'.image = os.image + 1 /\ ~alone'
        /\ ring' = Append(ring, [type |-> "exec", image |-> os.image + 1, path |-> p])
    BY <1>0, <1>6 DEF Exec, NewImage
  <2>2. SortedOK'
    BY <1>0, <1>3, <2>1
  <2> QED BY <1>2, <2>1, <2>2
<1>7. ASSUME NEW p \in Paths, ExecFails(p)
      PROVE  SoleInv'
  <2> DEFINE e == [type |-> "exec", image |-> os.image, path |-> p]
  <2>1. /\ os'.image = os.image /\ os'.path = os.path /\ os'.state = os.state
        /\ UNCHANGED <<alone, handled>> /\ ring' = Append(ring, e) /\ e.image = os.image
    BY <1>0, <1>7 DEF ExecFails
  <2> HIDE DEF e
  <2>2. SortedOK'
    BY <1>0, <1>3, <2>1
  <2>3. ASSUME AloneOK
        PROVE  AloneOK'
    <3>1. \A i \in 1..Len(ring') : ring'[i] = e \/ \E j \in 1..Len(ring) : ring'[i] = ring[j]
      BY <1>0, <2>1
    <3>2. \A i \in 1..Len(ring') : ring'[i].image = os'.image
      BY <2>1, <2>3, <3>1 DEF AloneOK
    <3> QED BY <1>1, <2>1, <2>3, <3>2 DEF AloneOK, CopyOK, OlderThanAll, Busy
  <2> QED BY <1>2, <2>1, <2>2, <2>3 DEF Running
<1>8. CASE ProcessExit
  <2> DEFINE e == [type |-> "exit", image |-> os.image, path |-> NoPath]
  <2>1. /\ os'.image = os.image /\ os'.state = "exiting" /\ e.image = os.image
        /\ UNCHANGED ring \/ ring' = Append(ring, e)
    BY <1>0, <1>8 DEF ProcessExit
  <2> HIDE DEF e
  <2>2. SortedOK'
    BY <1>0, <1>3, <1>4, <2>1
  <2> QED BY <1>2, <2>1, <2>2 DEF Running
<1>9. CASE Reap
  <2>1. os'.image = os.image /\ os'.state = "gone" /\ UNCHANGED ring
    BY <1>0, <1>9 DEF Reap
  <2> QED BY <1>0, <1>2, <1>4, <2>1 DEF Running
<1> QED BY <1>5, <1>6, <1>7, <1>8, <1>9 DEF System

\* While the process runs, its entry is neither deleted nor changed but for its age.
LEMMA StoreSole ==
  ASSUME IInv, SoleInv, Fire \/ GetOld \/ DeleteOldItems
  PROVE  SoleInv'
<1> USE DEF SoleInv
<1>1. /\ UNCHANGED <<os, ring, born, job, handled, alone>>
      /\ \/ store' = NoItem /\ ~Running
         \/ /\ store'.found = store.found /\ store'.path = store.path /\ store'.born = store.born
  BY DEF Fire, GetOld, DeleteOldItems, IsAlive, Running, IInv, TypeOK
<1>2. SortedOK'
  BY <1>1 DEF SortedOK
<1>3. BornOK'
  BY <1>1, BoundAssumption DEF BornOK, NoItem, IInv, TypeOK
<1>4. Running' => AloneOK' = AloneOK
  BY <1>1 DEF Running, AloneOK, CopyOK, OlderThanAll, Busy
<1> QED BY <1>1, <1>2, <1>3, <1>4 DEF Running

\* An event that starts nothing is taken, or lost.
LEMMA RingSole ==
  ASSUME IInv, SoleInv, ring # <<>>, ring' = Tail(ring),
         UNCHANGED <<os, store, born, job, handled, alone>>
  PROVE  SoleInv'
<1>1. SortedOK' /\ ((\A i \in 1..Len(ring) : ring[i].image = os.image)
                      => \A i \in 1..Len(ring') : ring'[i].image = os'.image)
  BY RingStep DEF SoleInv
<1>2. BornOK'
  BY DEF SoleInv, BornOK
<1>3. Running /\ AloneOK => AloneOK'
  BY <1>1 DEF AloneOK, CopyOK, OlderThanAll, Busy
<1> QED BY <1>1, <1>2, <1>3 DEF SoleInv, Running

\* Somebody goes on with the object at hand, or a lookup makes a new one.
LEMMA JobSole ==
  ASSUME IInv, SoleInv, NEW w \in Anyone, NEW j \in JobRecord, job' = [job EXCEPT ![w] = j],
         UNCHANGED <<os, ring, store, handled, alone>>,
         \/ UNCHANGED born /\ Busy(w) /\ j.new.born = job[w].new.born
         \/ born' = born + 1 /\ w \notin Workers /\ j.new.born = born + 1,
         j.at = "write" => ~Contains(j.todo, "old"), j.old.born <= born,
         Running /\ j.at \in {"look", "write"} => j.new.path = os.path
  PROVE  SoleInv'
<1> USE DEF SoleInv
<1>1. job' \in [Anyone -> JobRecord] /\ job'[w] = j /\ \A v \in Anyone \ {w} : job'[v] = job[v]
  BY DEF IInv, TypeOK, JobRecord
<1>2. /\ born \in Nat /\ born' \in Nat /\ born <= born' /\ store.born \in Nat
      /\ j.new.born <= born' /\ j.old.born \in Nat
      /\ \A v \in Anyone : job[v].new.born \in Nat /\ job[v].old.born \in Nat
  <2>1. /\ born \in Nat /\ store.born \in Nat /\ j.old.born \in Nat
        /\ \A v \in Anyone : job[v].new.born \in Nat /\ job[v].old.born \in Nat
    BY ObjectsAreNumbers
  <2>2. job[w].new.born <= born
    BY DEF BornOK
  <2> QED BY <2>1, <2>2
<1>3. SortedOK'
  BY DEF SortedOK
<1>4. BornOK'
  <2>1. \A v \in Anyone : job'[v].new.born <= born' /\ job'[v].old.born <= born'
    BY <1>1, <1>2 DEF BornOK
  <2>2. store'.born <= born'
    BY <1>2 DEF BornOK
  <2> QED BY <1>1, <2>1, <2>2 DEF BornOK
<1>5. ASSUME Running, AloneOK
      PROVE  AloneOK'
  <2>1. \A o \in Nat : o <= born /\ OlderThanAll(o) => \A v \in Anyone : Busy(v)' => o < job'[v].new.born
    BY <1>1, <1>2 DEF OlderThanAll, Busy
  <2>2. \A v \in Workers : Busy(v)' => Busy(v)
    BY <1>1 DEF Busy, Anyone
  <2>3. \A v \in Anyone : job'[v].at \in {"look", "write"} => job'[v].new.path = os'.path
    BY <1>1, <1>5 DEF AloneOK
  <2>4. \A v \in Anyone : CopyOK(v)'
    <3> SUFFICES ASSUME NEW v \in Anyone, job'[v].at = "write", Contains(job'[v].todo, "old")
                 PROVE  CopyOK(v)'
      BY DEF CopyOK
    <3>1. job'[v] = job[v]
      BY <1>1
    <3>2. CopyOK(v) /\ job[v].old.born <= born /\ job[v].old.born \in Nat
      BY <1>2, <1>5 DEF AloneOK, BornOK
    <3> QED BY <2>1, <3>1, <3>2 DEF CopyOK, OlderThanAll
  <2>5. (store.found /\ store.path # os.path => OlderThanAll(store.born))'
    BY <1>2, <1>5, <2>1 DEF AloneOK, OlderThanAll, BornOK
  <2> QED BY <1>5, <2>2, <2>3, <2>4, <2>5 DEF AloneOK
<1> QED BY <1>3, <1>4, <1>5 DEF Running

\* A handler begins: if it is alone, its object is newer than the entry of the store.
LEMMA TakeSole ==
  ASSUME IInv, SoleInv, NEW w \in Workers, TakeExec(w)
  PROVE  SoleInv'
<1> USE DEF SoleInv
<1> DEFINE j == [Rest EXCEPT !.at = "read", !.image = Head(ring).image, !.path = Head(ring).path,
                             !.new = [path |-> NoPath, born |-> born + 1]]
<1>1. /\ job' = [job EXCEPT ![w] = j] /\ born' = born + 1 /\ ring # <<>> /\ ring' = Tail(ring)
      /\ UNCHANGED <<os, store, handled>> /\ job[w].at = "rest"
      /\ Head(ring).image = os.image /\ alone' => (handled => alone) /\ \A v \in Anyone : job[v].at = "rest"
      /\ Head(ring).image # os.image => alone' = alone
  BY DEF TakeExec, IdleWorkers
<1>2. j.at = "read" /\ j.new.born = born + 1 /\ j.old.born = 0
  BY DEF Rest
<1> HIDE DEF j
<1>3. job'[w] = j /\ \A v \in Anyone \ {w} : job'[v] = job[v]
  BY <1>1 DEF IInv, TypeOK, Anyone
<1>4. /\ born \in Nat /\ store.born \in Nat
      /\ \A v \in Anyone : job[v].new.born \in Nat /\ job[v].old.born \in Nat
  BY ObjectsAreNumbers
<1>5. /\ SortedOK'
      /\ Head(ring).image = os.image => \A i \in 1..Len(ring) : ring[i].image = os.image
      /\ (\A i \in 1..Len(ring) : ring[i].image = os.image)
           => \A i \in 1..Len(ring') : ring'[i].image = os'.image
  BY <1>1, RingStep
<1>6. BornOK'
  <2>1. \A v \in Anyone : job'[v].new.born <= born' /\ job'[v].old.born <= born'
    BY <1>1, <1>2, <1>3, <1>4 DEF BornOK
  <2> QED BY <1>1, <1>2, <1>3, <1>4, <2>1 DEF BornOK
<1>7. ASSUME Running, alone'
      PROVE  AloneOK'
  <2>1. Head(ring).image = os.image
    <3> SUFFICES ASSUME Head(ring).image # os.image PROVE FALSE
      OBVIOUS
    <3>1. AloneOK
      BY <1>1, <1>7
    <3>2. Head(ring) = ring[1] /\ 1 \in 1..Len(ring)
      BY <1>1, ImagesAreNumbers
    <3> QED BY <3>1, <3>2 DEF AloneOK
  <2>2. \A v \in Anyone : Busy(v)' => v = w
    BY <1>1, <1>3, <2>1, <1>7 DEF Busy
  <2>3. OlderThanAll(store.born)'
    BY <1>1, <1>2, <1>3, <1>4, <2>2 DEF OlderThanAll, BornOK
  <2>4. handled' => store'.found /\ store'.path = os'.path
    BY <1>1, <1>7, <2>1 DEF AloneOK
  <2>5. \A v \in Anyone : job'[v].at \in {"rest", "read"}
    BY <1>2, <1>3, <2>2 DEF Busy
  <2>6. \A i \in 1..Len(ring') : ring'[i].image = os'.image
    BY <1>5, <2>1
  <2>7. \A v \in Anyone : CopyOK(v)'
    BY <2>5 DEF CopyOK
  <2> QED BY <2>2, <2>3, <2>4, <2>5, <2>6, <2>7 DEF AloneOK, Anyone
<1> QED BY <1>1, <1>5, <1>6, <1>7 DEF Running

\* The steps between the taking of an event, or the question of a connection, and a write.
LEMMA ReadSole ==
  ASSUME IInv, SoleInv,
         \/ \E w \in Workers : ReadPath(w)
         \/ \E l \in Lookers : NotFound(l) \/ NewProcess(l)
  PROVE  SoleInv'
<1>0. /\ job \in [Anyone -> JobRecord] /\ born \in Nat
      /\ \A v \in Anyone : job[v].new.born \in 0..MaxBorn /\ job[v].old.born <= born
      /\ \A b \in 0..MaxBorn, p \in Paths \cup {Comm, NoPath} : [path |-> p, born |-> b] \in Object
  BY BoundAssumption DEF IInv, TypeOK, JobRecord, Object, SoleInv, BornOK
<1>a. \A link \in ExeLinks : link \in Paths \cup {NoPath} /\ (Running => link = os.path /\ link # NoPath)
  <2>1. /\ os.path \in Paths \cup {NoPath} /\ (Running => os.path # NoPath)
        /\ os.state \in {"running", "exiting", "gone"}
    BY PathAssumption DEF IInv, TypeOK, Parts, OsOK, Running
  <2>2. CASE os.state = "running"
    BY <2>1, <2>2 DEF ExeLinks, Running
  <2>3. CASE os.state = "exiting"
    BY <2>1, <2>3 DEF ExeLinks, Running
  <2>4. CASE os.state = "gone"
    BY <2>1, <2>4 DEF ExeLinks, Running
  <2> QED BY <2>1, <2>2, <2>3, <2>4
<1>1. ASSUME NEW w \in Workers, ReadPath(w)
      PROVE  SoleInv'
  <2>1. PICK link \in ExeLinks :
          job' = [job EXCEPT ![w] = [job[w] EXCEPT !.at = "look", !.path = NoPath,
                   !.new = [path |-> IF link = NoPath THEN job[w].path ELSE link, born |-> job[w].new.born]]]
    BY <1>1 DEF ReadPath
  <2> DEFINE path == IF link = NoPath THEN job[w].path ELSE link
             new == [path |-> path, born |-> job[w].new.born]
             j == [job[w] EXCEPT !.at = "look", !.path = NoPath, !.new = new]
  <2>2. w \in Anyone /\ job[w] \in JobRecord /\ job[w].path \in Paths \cup {NoPath}
    BY <1>0 DEF JobRecord, Anyone
  <2>3. path \in Paths \cup {NoPath} /\ (Running => path = os.path)
    BY <1>a, <2>1, <2>2
  <2>4. new \in Object /\ new.born = job[w].new.born /\ new.path = path
    BY <1>0, <2>2, <2>3
  <2> HIDE DEF new, path
  <2>5. j \in JobRecord /\ j.at = "look" /\ j.new = new /\ j.old = job[w].old
    BY <2>2, <2>4 DEF JobRecord
  <2>6. /\ job' = [job EXCEPT ![w] = j] /\ job[w].at = "read"
        /\ UNCHANGED <<os, ring, store, born, handled, alone>>
    BY <1>1, <2>1 DEF ReadPath, new, path
  <2> HIDE DEF j
  <2> QED BY <1>0, <2>2, <2>3, <2>4, <2>5, <2>6, JobSole DEF Busy
<1>2. ASSUME NEW l \in Lookers, NotFound(l)
      PROVE  SoleInv'
  <2> DEFINE j == [Rest EXCEPT !.at = "read", !.new = [path |-> NoPath, born |-> born + 1]]
  <2>1. /\ job' = [job EXCEPT ![l] = j] /\ born' = born + 1 /\ born + 1 \in 0..MaxBorn
        /\ UNCHANGED <<os, ring, store, handled, alone>>
    BY <1>0, <1>2, BoundAssumption DEF NotFound
  <2>2. Rest \in JobRecord /\ Rest.old.born = 0
    <3>1. 0 \in 0..MaxExecs /\ 0 \in 0..MaxBorn /\ <<>> \in Seq({"new", "old"})
      BY BoundAssumption
    <3> QED BY <3>1, <1>0 DEF Rest, JobRecord
  <2>3. [path |-> NoPath, born |-> born + 1] \in Object
    BY <1>0, <2>1
  <2>4. j \in JobRecord /\ j.at = "read" /\ j.new.born = born + 1 /\ j.old = Rest.old
    BY <2>2, <2>3 DEF JobRecord
  <2>5. l \in Anyone /\ l \notin Workers
    BY WorkerAssumption DEF Anyone
  <2> HIDE DEF j
  <2>6. j.old.born <= born /\ j.at \notin {"look", "write"}
    BY <1>0, <2>2, <2>4
  <2> QED BY <2>1, <2>4, <2>5, <2>6, JobSole
<1>3. ASSUME NEW l \in Lookers, NewProcess(l)
      PROVE  SoleInv'
  <2>1. PICK link \in ExeLinks, a \in OneOrTwo("new"), b \in Perhaps("new") :
          job' = [job EXCEPT ![l] = [job[l] EXCEPT !.at = "write", !.todo = a \o b,
                   !.new = [path |-> IF link = NoPath THEN Comm ELSE link, born |-> job[l].new.born]]]
    BY <1>3 DEF NewProcess
  <2> DEFINE todo == a \o b
             path == IF link = NoPath THEN Comm ELSE link
             new == [path |-> path, born |-> job[l].new.born]
             j == [job[l] EXCEPT !.at = "write", !.todo = todo, !.new = new]
  <2>2. todo \in Seq({"new", "old"}) /\ ~Contains(todo, "old")
    BY WritesOfNew
  <2>3. l \in Anyone /\ job[l] \in JobRecord
    BY <1>0 DEF Anyone
  <2>4. path \in Paths \cup {Comm} /\ (Running => path = os.path)
    BY <1>a, <2>1
  <2>5. new \in Object /\ new.born = job[l].new.born /\ new.path = path
    BY <1>0, <2>3, <2>4
  <2> HIDE DEF new, todo, path
  <2>6. j \in JobRecord /\ j.at = "write" /\ j.new = new /\ j.todo = todo /\ j.old = job[l].old
    BY <2>2, <2>3, <2>5 DEF JobRecord
  <2>7. /\ job' = [job EXCEPT ![l] = j] /\ job[l].at = "read"
        /\ UNCHANGED <<os, ring, store, born, handled, alone>>
    BY <1>3, <2>1 DEF NewProcess, new, todo, path
  <2> HIDE DEF j
  <2> QED BY <1>0, <2>2, <2>3, <2>4, <2>5, <2>6, <2>7, JobSole DEF Busy
<1> QED BY <1>1, <1>2, <1>3

\* Where Then leaves a handler: at rest, or with these writes to do.
LEMMA ThenBusy ==
  ASSUME IInv, NEW w \in Anyone, NEW copy, NEW todo, Then(w, copy, todo), Busy(w)
  PROVE  /\ \A v \in Anyone \ {w} : job'[v] = job[v]
         /\ todo = <<>> => job'[w] = Rest
         /\ todo # <<>> =>
              /\ job'[w].at = "write" /\ job'[w].todo = todo /\ job'[w].new = job[w].new
              /\ job'[w].old = IF Contains(todo, "old") THEN copy ELSE Rest.old
         /\ handled' => handled \/ todo = <<>>
<1> DEFINE old == IF Contains(todo, "old") THEN copy ELSE Rest.old
           busy == [job[w] EXCEPT !.at = "write", !.todo = todo, !.old = old]
<1>1. job \in [Anyone -> JobRecord] /\ handled \in BOOLEAN
  BY DEF IInv, TypeOK, JobRecord
<1>2. busy.at = "write" /\ busy.todo = todo /\ busy.new = job[w].new /\ busy.old = old
  BY <1>1 DEF JobRecord
<1>3. /\ job' = [job EXCEPT ![w] = IF todo = <<>> THEN Rest ELSE busy]
      /\ handled' = (handled \/ (w \in Workers /\ todo = <<>> /\ job[w].image = os.image))
  BY DEF Then
<1> HIDE DEF busy
<1>4. /\ job'[w] = IF todo = <<>> THEN Rest ELSE busy
      /\ \A v \in Anyone \ {w} : job'[v] = job[v]
  BY <1>1, <1>3
<1> QED BY <1>1, <1>2, <1>3, <1>4

LEMMA LookUpSole ==
  ASSUME IInv, SoleInv, NEW w \in Workers, LookUp(w)
  PROVE  SoleInv'
<1> USE DEF SoleInv
<1> DEFINE copy == [path |-> store.path, born |-> store.born]
<1>1. PICK todo \in WritesFor(job[w].new) : Then(w, copy, todo)
  BY DEF LookUp
<1>2. /\ ~store.found => ~Contains(todo, "old")
      /\ todo = <<>> \/ Head(todo) = "old" => store.found /\ store.path = job[w].new.path
  BY WritesOf, WritesBegin
<1>3. /\ w \in Anyone /\ job[w].at = "look" /\ copy.path = store.path /\ copy.born = store.born
      /\ UNCHANGED <<os, ring, store, born, alone>>
  BY DEF LookUp, Anyone
<1> HIDE DEF copy
<1>4. /\ \A v \in Anyone \ {w} : job'[v] = job[v]
      /\ todo = <<>> => job'[w] = Rest
      /\ todo # <<>> =>
           /\ job'[w].at = "write" /\ job'[w].todo = todo /\ job'[w].new = job[w].new
           /\ job'[w].old = IF Contains(todo, "old") THEN copy ELSE Rest.old
      /\ handled' => handled \/ todo = <<>>
  BY <1>1, <1>3, ThenBusy DEF Busy
<1>5. Rest.at = "rest" /\ Rest.old.born = 0 /\ Rest.new.born = 0 /\ born \in Nat
  BY BoundAssumption DEF Rest, IInv, TypeOK
<1>6. SortedOK'
  BY <1>3 DEF SortedOK
<1>7. BornOK'
  <2>1. job'[w].new.born <= born /\ job'[w].old.born <= born
    BY <1>3, <1>4, <1>5 DEF BornOK
  <2> QED BY <1>3, <1>4, <2>1 DEF BornOK
<1>8. ASSUME Running, AloneOK
      PROVE  AloneOK'
  <2>1. job[w].new.path = os.path
    BY <1>3, <1>8 DEF AloneOK
  <2>2. \A v \in Anyone : Busy(v)' => Busy(v) /\ job'[v].new = job[v].new
    BY <1>3, <1>4, <1>5 DEF Busy
  <2>3. \A v, x \in Workers : Busy(v)' /\ Busy(x)' => v = x
    BY <1>8, <2>2 DEF AloneOK, Anyone
  <2>4. \A v \in Anyone : job'[v].at \in {"look", "write"} => job'[v].new.path = os'.path
    BY <1>3, <1>4, <1>5, <1>8, <2>1 DEF AloneOK
  <2>5. (store.found /\ store.path # os.path => OlderThanAll(store.born))'
    BY <1>3, <1>8, <2>2 DEF AloneOK, OlderThanAll
  <2>6. CopyOK(w)'
    <3> SUFFICES ASSUME job'[w].at = "write", Contains(job'[w].todo, "old") PROVE CopyOK(w)'
      BY DEF CopyOK
    <3>1. /\ todo # <<>> /\ job'[w].todo = todo /\ Contains(todo, "old") /\ job'[w].old = copy /\ store.found
      BY <1>2, <1>4, <1>5
    <3>2. store.path # os.path =>
            \A x \in Anyone : Busy(x)' => job'[w].old.born < job'[x].new.born
      BY <1>3, <1>8, <2>2, <3>1 DEF AloneOK, OlderThanAll
    <3>3. Head(todo) = "old" => store.path = os.path
      BY <1>2, <2>1
    <3>4. job'[w].old.path = store.path
      BY <1>3, <3>1
    <3> QED BY <1>3, <3>1, <3>2, <3>3, <3>4 DEF CopyOK, OlderThanAll
  <2>7. ASSUME NEW v \in Anyone \ {w}
        PROVE  CopyOK(v)'
    <3>1. CopyOK(v) /\ job'[v] = job[v]
      BY <1>4, <1>8 DEF AloneOK
    <3>2. OlderThanAll(job[v].old.born) => \A x \in Anyone : Busy(x)' => job'[v].old.born < job'[x].new.born
      BY <2>2, <3>1 DEF OlderThanAll
    <3> QED BY <1>3, <3>1, <3>2 DEF CopyOK, OlderThanAll
  <2>8. handled' => store'.found /\ store'.path = os'.path
    BY <1>2, <1>3, <1>4, <1>8, <2>1 DEF AloneOK
  <2>9. \A i \in 1..Len(ring') : ring'[i].image = os'.image
    BY <1>3, <1>8 DEF AloneOK
  <2>10. \A v \in Anyone : CopyOK(v)'
    BY <2>6, <2>7
  <2> QED BY <2>3, <2>4, <2>5, <2>8, <2>9, <2>10 DEF AloneOK
<1> QED BY <1>3, <1>6, <1>7, <1>8 DEF Running

\* A write leaves the path of the image that runs in the store.
LEMMA WriteSole ==
  ASSUME IInv, SoleInv, NEW w \in Anyone, Write(w)
  PROVE  SoleInv'
<1> USE DEF SoleInv
<1> DEFINE todo == job[w].todo
<1>1. /\ job[w].at = "write" /\ todo # <<>> /\ Busy(w)
      /\ UpdateItem(IF Head(todo) = "new" THEN job[w].new ELSE job[w].old)
      /\ Then(w, job[w].old, Tail(todo))
      /\ UNCHANGED <<os, ring, born, alone>>
  BY DEF Write, Busy, IInv, Parts, JobsOK, JobOK
<1>2. /\ Head(todo) \in {"new", "old"} /\ (Head(todo) = "old" => Contains(todo, "old"))
      /\ Contains(Tail(todo), "old") => Contains(todo, "old")
  <2>1. todo \in Seq({"new", "old"})
    BY DEF IInv, TypeOK
  <2> QED BY <1>1, <2>1, RestOfWrites
<1>3. /\ job[w].new.path # NoPath
      /\ Head(todo) = "old" => job[w].old.path # NoPath
      /\ store.born \in Nat /\ born \in Nat
      /\ \A v \in Anyone : job[v].new.born \in Nat /\ job[v].old.born \in Nat
  <2>1. /\ job[w].new.path # NoPath
        /\ Head(todo) = "old" => job[w].old.path # NoPath
    BY <1>1, <1>2 DEF IInv, Parts, JobsOK, JobOK
  <2> QED BY <2>1, ObjectsAreNumbers
<1> HIDE DEF todo
<1>4. /\ \A v \in Anyone \ {w} : job'[v] = job[v]
      /\ Tail(todo) = <<>> => job'[w] = Rest
      /\ Tail(todo) # <<>> =>
           /\ job'[w].at = "write" /\ job'[w].todo = Tail(todo) /\ job'[w].new = job[w].new
           /\ job'[w].old = IF Contains(Tail(todo), "old") THEN job[w].old ELSE Rest.old
      /\ handled' => handled \/ Tail(todo) = <<>>
  BY <1>1, ThenBusy
<1>5. Rest.at = "rest" /\ Rest.old.born = 0 /\ Rest.new.born = 0
  BY DEF Rest
<1>6. SortedOK'
  BY <1>1 DEF SortedOK
<1>7. BornOK'
  <2>1. store'.born <= born
    BY <1>1, <1>2 DEF BornOK, UpdateItem
  <2>2. job'[w].new.born <= born /\ job'[w].old.born <= born
    BY <1>3, <1>4, <1>5 DEF BornOK
  <2>3. job'[w].at = "write" /\ Contains(job'[w].todo, "old") => w \in Workers
    BY <1>1, <1>2, <1>4, <1>5 DEF BornOK, todo
  <2> QED BY <1>1, <1>4, <2>1, <2>2, <2>3 DEF BornOK
<1>8. ASSUME Running, AloneOK
      PROVE  AloneOK'
  <2>1. job[w].new.path = os.path /\ CopyOK(w)
    BY <1>1, <1>8 DEF AloneOK
  <2>2. Head(todo) = "new" => store'.found /\ store'.path = os.path /\ store'.born = job[w].new.born
    <3>1. store.found /\ store.path # os.path => ~(store.born > job[w].new.born)
      BY <1>1, <1>3, <1>8 DEF AloneOK, OlderThanAll
    <3> QED BY <1>1, <1>3, <2>1, <3>1 DEF UpdateItem, IsStale
  <2>3. Head(todo) = "old" =>
          /\ store'.found /\ store'.path = os.path
          /\ job[w].old.path # os.path => store' = store /\ job[w].old.born < store.born
    <3> SUFFICES ASSUME Head(todo) = "old"
                 PROVE  /\ store'.found /\ store'.path = os.path
                        /\ job[w].old.path # os.path => store' = store /\ job[w].old.born < store.born
      OBVIOUS
    <3>1. /\ store.found /\ store.path = os.path
          /\ job[w].old.path # os.path => job[w].old.born < store.born
      BY <1>1, <1>2, <2>1 DEF CopyOK, todo
    <3>2. UpdateItem(job[w].old)
      BY <1>1
    <3>3. CASE job[w].old.path = os.path
      BY <1>3, <3>1, <3>2, <3>3 DEF UpdateItem, IsStale
    <3>4. CASE job[w].old.path # os.path
      BY <1>3, <3>1, <3>2, <3>4 DEF UpdateItem, IsStale
    <3> QED BY <3>3, <3>4
  <2>4. store'.found /\ store'.path = os'.path
    BY <1>1, <1>2, <2>2, <2>3
  <2>5. \A v \in Anyone : Busy(v)' => Busy(v) /\ job'[v].new = job[v].new
    BY <1>1, <1>4, <1>5 DEF Busy
  <2>6. \A v, x \in Workers : Busy(v)' /\ Busy(x)' => v = x
    BY <1>8, <2>5 DEF AloneOK, Anyone
  <2>7. \A v \in Anyone : job'[v].at \in {"look", "write"} => job'[v].new.path = os'.path
    BY <1>1, <1>4, <1>5, <1>8, <2>1 DEF AloneOK
  <2>8. CopyOK(w)'
    <3> SUFFICES ASSUME job'[w].at = "write", Contains(job'[w].todo, "old") PROVE CopyOK(w)'
      BY DEF CopyOK
    <3>1. /\ job'[w].todo = Tail(todo) /\ Contains(Tail(todo), "old") /\ job'[w].old = job[w].old
          /\ Contains(todo, "old")
      BY <1>2, <1>4, <1>5
    <3>2. job[w].old.path # os.path => OlderThanAll(job[w].old.born)
      BY <1>1, <2>1, <3>1 DEF CopyOK, todo
    <3>3. job[w].old.path # os.path => job[w].old.born < store'.born
      BY <1>1, <1>2, <2>2, <2>3, <3>2 DEF OlderThanAll
    <3>4. job[w].old.path # os.path => \A x \in Anyone : Busy(x)' => job'[w].old.born < job'[x].new.born
      BY <2>5, <3>1, <3>2 DEF OlderThanAll
    <3> QED BY <1>1, <2>4, <3>1, <3>3, <3>4 DEF CopyOK, OlderThanAll
  <2>9. ASSUME NEW v \in Anyone \ {w}
        PROVE  CopyOK(v)'
    <3> SUFFICES ASSUME job'[v].at = "write", Contains(job'[v].todo, "old") PROVE CopyOK(v)'
      BY DEF CopyOK
    <3>1. CopyOK(v) /\ job'[v] = job[v] /\ v \in Workers /\ Busy(v)
      BY <1>4, <1>8 DEF AloneOK, BornOK, Busy
    <3>2. Head(todo) = "new"
      <4>1. w \notin Workers
        BY <1>1, <1>8, <3>1 DEF AloneOK
      <4> QED BY <1>1, <1>2, <4>1 DEF BornOK, todo
    <3>3. job[v].old.path # os.path => OlderThanAll(job[v].old.born)
      BY <3>1 DEF CopyOK
    <3>4. job[v].old.path # os.path => job[v].old.born < store'.born
      BY <1>1, <2>2, <3>2, <3>3 DEF OlderThanAll
    <3>5. job[v].old.path # os.path => \A x \in Anyone : Busy(x)' => job'[v].old.born < job'[x].new.born
      BY <2>5, <3>1, <3>3 DEF OlderThanAll
    <3> QED BY <1>1, <2>4, <3>1, <3>4, <3>5 DEF CopyOK, OlderThanAll
  <2>10. \A v \in Anyone : CopyOK(v)'
    BY <2>8, <2>9
  <2>11. \A i \in 1..Len(ring') : ring'[i].image = os'.image
    BY <1>1, <1>8 DEF AloneOK
  <2> QED BY <2>4, <2>6, <2>7, <2>10, <2>11 DEF AloneOK
<1> QED BY <1>1, <1>6, <1>7, <1>8 DEF Running

LEMMA InitSole == Init => SoleInv
<1> SUFFICES ASSUME Init PROVE SoleInv
  OBVIOUS
<1>1. Rest.at = "rest" /\ Rest.old.born = 0 /\ Rest.new.born = 0 /\ Len(<<>>) = 0
  BY DEF Rest
<1>2. SortedOK /\ BornOK
  BY <1>1 DEF Init, SortedOK, BornOK, NoItem
<1> QED BY <1>2 DEF SoleInv, Init

LEMMA StepSole == IInv /\ SoleInv /\ [Next]_vars => SoleInv'
<1> SUFFICES ASSUME IInv, SoleInv, [Next]_vars PROVE SoleInv'
  OBVIOUS
<1>1. CASE UNCHANGED vars
  BY <1>1 DEF vars, SoleInv, SortedOK, BornOK, Running, AloneOK, CopyOK, OlderThanAll, Busy
<1>2. CASE Next
  <2>1. ASSUME NEW w \in Anyone, Write(w)
        PROVE  SoleInv'
    BY <2>1, WriteSole
  <2>2. ASSUME NEW w \in Workers, TakeExec(w) \/ LookUp(w)
        PROVE  SoleInv'
    BY <2>2, TakeSole, LookUpSole
  <2>3. ASSUME LoseEvent \/ \E w \in Workers : TakeExit(w)
        PROVE  SoleInv'
    BY <2>3, RingSole DEF LoseEvent, TakeExit
  <2> QED BY <1>1, <1>2, <2>1, <2>2, <2>3, SystemSole, StoreSole, ReadSole
         DEF Next, WorkerStep, LookerStep, Find, Anyone
<1> QED BY <1>1, <1>2

\* "Avoid replacing new procs with old ones" (cache_events.go:108), proved as far as it is
\* true: when handlers of an image were alone, no copy, lookup or timer hides its path.
THEOREM SoleHandlersWin == Spec => []SoleHandlerWins
<1>1. IInv /\ SoleInv /\ [Next]_vars => IInv' /\ SoleInv'
  BY StepInv, StepSole
<1>2. SoleInv => SoleHandlerWins
  BY DEF SoleInv, AloneOK, SoleHandlerWins
<1> QED BY InitInv, InitSole, <1>1, <1>2, PTL DEF Spec
=============================================================================
