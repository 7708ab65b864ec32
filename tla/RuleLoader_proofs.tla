-------------------------- MODULE RuleLoader_proofs --------------------------
(***************************************************************************)
(* Invariants of RuleLoader for every number of names, every set of        *)
(* durations and rules and any number of operations.  The inductive        *)
(* invariant is TypeOK /\ JobOK; on top of it SnapshotIsActiveRules and    *)
(* TempRuleHasTimer are inductive, and so is FileInv, which strengthens    *)
(* AlwaysRuleHasFile.                                                      *)
(***************************************************************************)
EXTENDS RuleLoader, FiniteSetTheorems, TLAPS

RuleOrNone == Rule \cup {NoRule}

JobType == [rule : Rule \cup {NoRule, Garbage}, old : RuleOrNone, todo : SUBSET Names]

Labels == {"idle", "lookup", "clean", "store", "schedule", "truncate",
           "write", "load", "delete", "clear", "glob", "count", "make", "next"}

StoreOK ==
  /\ rules \in [Names -> RuleOrNone] /\ snapshot \in [Names -> RuleOrNone]
  /\ dropped \subseteq Names

FilesOK == disk \in Files /\ events \in Seq(Event) /\ missed \subseteq Names

ProcsOK == pc \in [Procs -> Labels] /\ job \in [Procs -> JobType] /\ JobOK

TimersOK == timers \in [Names -> [TempDurations -> Nat]]

RestOK == lock \in {"free", "ntf"} /\ watching \in BOOLEAN /\ ops \in 0..MaxOps

IndInv == TypeOK /\ JobOK

-----------------------------------------------------------------------------
(* What the helpers of the model preserve *)

\* The inductive invariant, split by the part of the state it speaks of.
LEMMA IndInvParts == IndInv <=> StoreOK /\ FilesOK /\ ProcsOK /\ TimersOK /\ RestOK
  BY DEF IndInv, TypeOK, StoreOK, FilesOK, ProcsOK, TimersOK, RestOK, JobType, Labels, RuleOrNone

\* The same split after a step.
LEMMA IndInvPartsPrime ==
  ASSUME StoreOK', FilesOK', ProcsOK', TimersOK', RestOK'
  PROVE  IndInv'
  BY DEF IndInv, TypeOK, StoreOK, FilesOK, ProcsOK, TimersOK, RestOK, JobType, Labels, RuleOrNone

\* Queueing an event keeps the queue a sequence of events.
LEMMA NotifyKeepsType ==
  ASSUME FilesOK, NEW e \in Event, Notify(e)
  PROVE  events' \in Seq(Event) /\ missed' \subseteq Names
<1>1. e.file \in Names
  BY DEF Event
<1>2. CASE watching
  <2>1. Append(events, e) \in Seq(Event)
    BY DEF FilesOK
  <2> QED BY <1>2, <2>1 DEF Notify, FilesOK
<1>3. CASE ~watching
  BY <1>1, <1>3 DEF Notify, FilesOK
<1> QED BY <1>2, <1>3

\* Removing a file keeps the types of the disk and of the queue.
LEMMA RemoveFileKeepsType ==
  ASSUME FilesOK, NEW n \in Names, RemoveFile(n)
  PROVE  FilesOK'
<1>1. CASE disk[n] = NoRule
  BY <1>1 DEF RemoveFile, FilesOK, files
<1>2. CASE disk[n] # NoRule
  <2>1. disk' \in Files
    BY <1>2 DEF RemoveFile, FilesOK, Files
  <2>2. [op |-> "Remove", file |-> n] \in Event
    BY DEF Event
  <2>3. events' \in Seq(Event) /\ missed' \subseteq Names
    BY <1>2, <2>2, NotifyKeepsType DEF RemoveFile
  <2> QED BY <2>1, <2>3 DEF FilesOK
<1> QED BY <1>1, <1>2

\* So does writing one.
LEMMA WriteFileKeepsType ==
  ASSUME FilesOK, NEW n \in Names, NEW c \in Rule \cup {Garbage}, WriteFile(n, c)
  PROVE  FilesOK'
<1>1. disk' \in Files
  BY DEF WriteFile, FilesOK, Files
<1>2. [op |-> "Write", file |-> n] \in Event
  BY DEF Event
<1>3. events' \in Seq(Event) /\ missed' \subseteq Names
  <2>1. CASE disk[n] = NoRule /\ c = Garbage /\ watching
    BY <2>1 DEF WriteFile, FilesOK
  <2>2. CASE ~(disk[n] = NoRule /\ c = Garbage /\ watching)
    BY <2>2, <1>2, NotifyKeepsType DEF WriteFile
  <2> QED BY <2>1, <2>2
<1> QED BY <1>1, <1>3 DEF FilesOK

\* Deleting the file of a rule that lasts always no more.
LEMMA DeleteOldKeepsType ==
  ASSUME FilesOK, NEW old \in RuleOrNone, NEW new \in Rule, deleteOldRuleFromDisk(old, new)
  PROVE  FilesOK'
<1>1. CASE old # NoRule /\ old.dur = "always" /\ new.dur # "always"
  <2>1. old.name \in Names
    BY <1>1 DEF RuleOrNone, Rule
  <2> QED BY <1>1, <2>1, RemoveFileKeepsType DEF deleteOldRuleFromDisk
<1>2. CASE ~(old # NoRule /\ old.dur = "always" /\ new.dur # "always")
  BY <1>2 DEF deleteOldRuleFromDisk, files, FilesOK
<1> QED BY <1>1, <1>2

\* Every critical section that stores or deletes a rule publishes the active rules.
LEMMA StoreAndSortPublishes ==
  ASSUME StoreOK, NEW n \in Names, NEW r \in RuleOrNone, StoreAndSort(n, r)
  PROVE  StoreOK' /\ SnapshotIsActiveRules'
<1>1. StoreOK'
  BY DEF StoreOK, StoreAndSort, ActiveRules, RuleOrNone
<1>2. rules' = [rules EXCEPT ![n] = r] /\ snapshot' = ActiveRules(rules') /\ dropped' = {}
  BY DEF StoreAndSort
<1>3. SnapshotIsActiveRules'
  BY <1>1, <1>2 DEF SnapshotIsActiveRules, ActiveRules, Found, StoreOK
<1> QED BY <1>1, <1>3

\* Starting a timer keeps the counts natural numbers.
LEMMA ScheduledKeepsType ==
  ASSUME TimersOK, NEW r \in Rule
  PROVE  Scheduled(timers, r) \in [Names -> [TempDurations -> Nat]]
  BY DEF TimersOK, Scheduled, Rule

\* A process that is done is idle and holds nothing.
LEMMA DoneKeepsType ==
  ASSUME ProcsOK, NEW p \in Procs, Done(p)
  PROVE  ProcsOK'
<1>1. NoJob \in JobType
  BY DEF NoJob, JobType, RuleOrNone
<1>2. pc' \in [Procs -> Labels] /\ job' \in [Procs -> JobType]
  BY <1>1 DEF ProcsOK, Done, Labels
<1>3. JobOK'
  BY DEF ProcsOK, Done, JobOK
<1> QED BY <1>2, <1>3 DEF ProcsOK

\* A process that moves on with its locals must have the rule that the next label needs.
LEMMA MoveKeepsType ==
  ASSUME ProcsOK, NEW p \in Procs, NEW l \in Labels, NEW j \in JobType,
         pc' = [pc EXCEPT ![p] = l], job' = [job EXCEPT ![p] = j],
         l \in {"lookup", "clean", "store", "schedule", "truncate", "write"} => j.rule \in Rule,
         l = "load" => j.rule \in Rule \cup {Garbage}
  PROVE  ProcsOK'
<1>1. pc' \in [Procs -> Labels] /\ job' \in [Procs -> JobType]
  BY DEF ProcsOK
<1>2. JobOK'
  BY DEF ProcsOK, JobOK
<1> QED BY <1>1, <1>2 DEF ProcsOK

\* An operation begins only below the bound.
LEMMA BeginKeepsType ==
  ASSUME RestOK, Begin
  PROVE  ops' \in 0..MaxOps
<1>1. MaxOps \in Nat
  BY InputAssumption
<1> QED BY <1>1 DEF RestOK, Begin

\* Locals of a process, one field changed.
LEMMA JobFields ==
  ASSUME NEW j \in JobType, NEW r \in Rule \cup {NoRule, Garbage},
         NEW o \in RuleOrNone, NEW t \in SUBSET Names
  PROVE  /\ [j EXCEPT !.rule = r] \in JobType /\ [j EXCEPT !.rule = r].rule = r
         /\ [j EXCEPT !.old = o] \in JobType /\ [j EXCEPT !.old = o].rule = j.rule
         /\ [j EXCEPT !.todo = t] \in JobType /\ [j EXCEPT !.todo = t].rule = j.rule
         /\ [j EXCEPT !.rule = r, !.todo = t] \in JobType
         /\ [j EXCEPT !.rule = r, !.todo = t].rule = r
         /\ NoJob \in JobType
  BY DEF JobType, NoJob, RuleOrNone

-----------------------------------------------------------------------------
(* Type correctness *)

\* The daemon starts with variables of the right types and no process at work.
LEMMA InitType == Init => IndInv
<1> SUFFICES ASSUME Init PROVE IndInv
  OBVIOUS
<1>1. disk \in Files
  BY InputAssumption DEF Init
<1>2. rules \in [Names -> RuleOrNone]
  BY <1>1, NoRuleAssumption DEF Init, InitRules, Files, RuleOrNone
<1>3. snapshot \in [Names -> RuleOrNone]
  BY <1>2 DEF Init, ActiveRules, RuleOrNone
<1>4. TimersOK
  BY DEF Init, InitTimers, TimersOK
<1>5. ProcsOK
  BY JobFields DEF Init, ProcsOK, JobOK, NoJob, JobType, Labels, RuleOrNone
<1>6. FilesOK
  BY <1>1 DEF Init, FilesOK
<1>7. RestOK
  BY InputAssumption DEF Init, RestOK
<1>8. dropped \subseteq Names
  BY DEF Init
<1> QED BY <1>2, <1>3, <1>4, <1>5, <1>6, <1>7, <1>8, IndInvParts DEF StoreOK

\* Deleting a rule, by the user or by the live reload worker.
LEMMA DeleteLockedKeepsType ==
  ASSUME StoreOK, FilesOK, NEW n \in Names, DeleteLocked(n)
  PROVE  StoreOK' /\ FilesOK'
<1>1. CASE Found(rules, n)
  <2>1. StoreOK'
    BY <1>1, StoreAndSortPublishes DEF DeleteLocked, RuleOrNone
  <2>2. FilesOK'
    BY <1>1, RemoveFileKeepsType DEF DeleteLocked, FilesOK, files
  <2> QED BY <2>1, <2>2
<1>2. CASE ~Found(rules, n)
  BY <1>2 DEF DeleteLocked, StoreOK, FilesOK, store, files
<1> QED BY <1>1, <1>2

\* A step of a process that adds or replaces a rule keeps every type.
LEMMA UserStepType ==
  ASSUME IndInv, NEW p \in Procs, UserStep(p)
  PROVE  IndInv'
<1> USE DEF Procs
<1>0. StoreOK /\ FilesOK /\ ProcsOK /\ TimersOK /\ RestOK
  BY IndInvParts
<1>a. job[p] \in JobType /\ job = [job EXCEPT ![p] = job[p]]
  BY <1>0 DEF ProcsOK
<1>1. CASE LookupOld(p)
  <2>1. rules[job[p].rule.name] \in RuleOrNone
    BY <1>0, <1>1 DEF LookupOld, ProcsOK, JobOK, StoreOK, Rule
  <2>2. job' = [job EXCEPT ![p] = [job[p] EXCEPT !.old = rules[job[p].rule.name]]]
    BY <1>1, <1>0 DEF LookupOld, ProcsOK
  <2>3. job[p].rule \in Rule
    BY <1>0, <1>1 DEF LookupOld, ProcsOK, JobOK
  <2>4. [job[p] EXCEPT !.old = rules[job[p].rule.name]] \in JobType
        /\ [job[p] EXCEPT !.old = rules[job[p].rule.name]].rule = job[p].rule
    BY <1>a, <2>1, JobFields DEF JobType, RuleOrNone
  <2>5. ProcsOK'
    BY <1>0, <1>1, <2>2, <2>3, <2>4, MoveKeepsType DEF LookupOld, Goto, Labels
  <2> QED BY <1>0, <1>1, <2>5, IndInvPartsPrime
        DEF LookupOld, StoreOK, FilesOK, TimersOK, RestOK, store, files
<1>2. CASE CleanAndCompile(p)
  <2>1. job[p].rule \in Rule /\ job[p].old \in RuleOrNone
    BY <1>0, <1>2 DEF CleanAndCompile, ProcsOK, JobOK, JobType
  <2>2. FilesOK'
    BY <1>0, <1>2, <2>1, DeleteOldKeepsType DEF CleanAndCompile
  <2>3. ProcsOK'
    <3>1. CASE Goto(p, "store") /\ UNCHANGED job
      BY <3>1, <1>0, <1>a, <2>1, MoveKeepsType DEF Goto, Labels
    <3>2. CASE Goto(p, "truncate") /\ UNCHANGED job
      BY <3>2, <1>0, <1>a, <2>1, MoveKeepsType DEF Goto, Labels
    <3>3. CASE Done(p)
      BY <3>3, <1>0, DoneKeepsType
    <3> QED BY <1>2, <3>1, <3>2, <3>3 DEF CleanAndCompile
  <2> QED BY <1>0, <1>2, <2>2, <2>3, IndInvPartsPrime
        DEF CleanAndCompile, StoreOK, TimersOK, RestOK, store
<1>3. CASE StoreRule(p)
  <2>1. job[p].rule \in Rule
    BY <1>0, <1>3 DEF StoreRule, ProcsOK, JobOK
  <2>2. StoreOK'
    BY <1>0, <1>3, <2>1, StoreAndSortPublishes DEF StoreRule, RuleOrNone, Rule
  <2>3. ProcsOK'
    <3>1. CASE Goto(p, "schedule") /\ UNCHANGED job
      BY <3>1, <1>0, <1>a, <2>1, MoveKeepsType DEF Goto, Labels
    <3>2. CASE Goto(p, "truncate") /\ UNCHANGED job
      BY <3>2, <1>0, <1>a, <2>1, MoveKeepsType DEF Goto, Labels
    <3>3. CASE Done(p)
      BY <3>3, <1>0, DoneKeepsType
    <3> QED BY <1>3, <3>1, <3>2, <3>3 DEF StoreRule
  <2> QED BY <1>0, <1>3, <2>2, <2>3, IndInvPartsPrime
        DEF StoreRule, FilesOK, TimersOK, RestOK, files
<1>4. CASE ScheduleRule(p)
  <2>1. TimersOK'
    BY <1>0, <1>4, ScheduledKeepsType DEF ScheduleRule, ProcsOK, JobOK, TimersOK
  <2> QED BY <1>0, <1>4, <2>1, DoneKeepsType, IndInvPartsPrime
        DEF ScheduleRule, StoreOK, FilesOK, RestOK, store, files
<1>5. CASE SaveTruncate(p)
  <2>1. job[p].rule \in Rule /\ job[p].rule.name \in Names
    BY <1>0, <1>5 DEF SaveTruncate, ProcsOK, JobOK, Rule
  <2>2. FilesOK'
    BY <1>0, <1>5, <2>1, WriteFileKeepsType DEF SaveTruncate
  <2>3. ProcsOK'
    BY <1>0, <1>5, <1>a, <2>1, MoveKeepsType DEF SaveTruncate, Goto, Labels
  <2>4. RestOK'
    BY <1>0, <1>5 DEF SaveTruncate, RestOK
  <2> QED BY <1>0, <1>5, <2>2, <2>3, <2>4, IndInvPartsPrime
        DEF SaveTruncate, StoreOK, TimersOK, store
<1>6. CASE SaveWrite(p)
  <2>1. job[p].rule \in Rule /\ job[p].rule.name \in Names
    BY <1>0, <1>6 DEF SaveWrite, ProcsOK, JobOK, Rule
  <2>2. FilesOK'
    BY <1>0, <1>6, <2>1, WriteFileKeepsType DEF SaveWrite
  <2>3. ProcsOK'
    BY <1>0, <1>6, DoneKeepsType DEF SaveWrite
  <2>4. RestOK'
    BY <1>0, <1>6 DEF SaveWrite, RestOK
  <2> QED BY <1>0, <1>6, <2>2, <2>3, <2>4, IndInvPartsPrime
        DEF SaveWrite, StoreOK, TimersOK, store
<1> QED BY <1>1, <1>2, <1>3, <1>4, <1>5, <1>6 DEF UserStep

\* The steps of Reload, LoadRule included, keep every type.
LEMMA ReloadStepType ==
  ASSUME IndInv, ReloadStep \/ ReloadBegin \/ LoadRule("live")
  PROVE  IndInv'
<1> USE DEF Procs
<1>0. StoreOK /\ FilesOK /\ ProcsOK /\ TimersOK /\ RestOK
  BY IndInvParts
<1>a. \A p \in Procs : job[p] \in JobType /\ job = [job EXCEPT ![p] = job[p]]
  BY <1>0 DEF ProcsOK
<1>1. CASE ReloadBegin
  <2>1. FilesOK'
    <3>1. PICK k \in 0..Len(events) :
            /\ events' = SubSeq(events, 1, k)
            /\ missed' = missed \cup {events[i].file : i \in (k + 1)..Len(events)}
      BY <1>1 DEF ReloadBegin
    <3>2. events' \in Seq(Event)
      BY <1>0, <3>1 DEF FilesOK
    <3>3. \A i \in (k + 1)..Len(events) : events[i] \in Event
      BY <1>0, <3>1 DEF FilesOK
    <3>4. \A i \in (k + 1)..Len(events) : events[i].file \in Names
      BY <3>3 DEF Event
    <3> QED BY <1>0, <1>1, <3>1, <3>2, <3>4 DEF FilesOK, ReloadBegin
  <2>2. ProcsOK'
    BY <1>0, <1>1, <1>a, MoveKeepsType DEF ReloadBegin, Goto, Labels
  <2>3. RestOK'
    BY <1>0, <1>1, BeginKeepsType DEF ReloadBegin, RestOK
  <2> QED BY <1>0, <1>1, <2>1, <2>2, <2>3, IndInvPartsPrime
        DEF ReloadBegin, StoreOK, TimersOK, store
<1>2. CASE ReloadClear
  <2>1. StoreOK' /\ FilesOK'
    BY <1>0, <1>2 DEF ReloadClear, StoreOK, FilesOK, EmptyRules, RuleOrNone
  <2>2. ProcsOK'
    BY <1>0, <1>2, <1>a, MoveKeepsType DEF ReloadClear, Goto, Labels
  <2> QED BY <1>0, <1>2, <2>1, <2>2, IndInvPartsPrime DEF ReloadClear, TimersOK, RestOK
<1>3. CASE LoadGlob
  <2>1. job' = [job EXCEPT !["ntf"] = [job["ntf"] EXCEPT !.todo = {n \in Names : disk[n] # NoRule}]]
    BY <1>0, <1>3 DEF LoadGlob, ProcsOK
  <2>2. [job["ntf"] EXCEPT !.todo = {n \in Names : disk[n] # NoRule}] \in JobType
    BY <1>a DEF JobType
  <2>3. ProcsOK'
    BY <1>0, <1>3, <2>1, <2>2, MoveKeepsType DEF LoadGlob, Goto, Labels
  <2> QED BY <1>0, <1>3, <2>3, IndInvPartsPrime
        DEF LoadGlob, StoreOK, FilesOK, TimersOK, RestOK, store, files
<1>7. CASE LoadCount
  <2>1. ProcsOK'
    BY <1>0, <1>7, <1>a, MoveKeepsType DEF LoadCount, Goto, Labels
  <2> QED BY <1>0, <1>7, <2>1, IndInvPartsPrime
        DEF LoadCount, StoreOK, FilesOK, TimersOK, RestOK, store, files
<1>8. CASE LoadMakeMap
  <2>1. StoreOK'
    BY <1>0, <1>8 DEF LoadMakeMap, StoreOK, EmptyRules, RuleOrNone
  <2>2. ProcsOK'
    BY <1>0, <1>8, <1>a, MoveKeepsType DEF LoadMakeMap, Goto, Labels
  <2> QED BY <1>0, <1>8, <2>1, <2>2, IndInvPartsPrime
        DEF LoadMakeMap, FilesOK, TimersOK, RestOK, files
<1>4. CASE LoadNext
  <2>1. PICK n \in job["ntf"].todo :
          /\ job' = [job EXCEPT !["ntf"] = [NoJob EXCEPT !.rule = disk[n],
                                                      !.todo = job["ntf"].todo \ {n}]]
          /\ IF disk[n] = NoRule THEN UNCHANGED pc ELSE Goto("ntf", "load")
    BY <1>4 DEF LoadNext
  <2>2. n \in Names /\ disk[n] \in Rule \cup {NoRule, Garbage}
    BY <1>0, <1>a, <2>1 DEF JobType, FilesOK, Files
  <2> DEFINE j == [NoJob EXCEPT !.rule = disk[n], !.todo = job["ntf"].todo \ {n}]
  <2>3. j \in JobType /\ j.rule = disk[n] /\ job' = [job EXCEPT !["ntf"] = j]
    <3>1. job["ntf"].todo \ {n} \in SUBSET Names
      BY <1>a DEF JobType
    <3>2. j \in JobType /\ j.rule = disk[n]
      BY <2>2, <3>1 DEF NoJob, JobType, RuleOrNone
    <3>3. job' = [job EXCEPT !["ntf"] = j]
      BY <2>1
    <3> QED BY <3>2, <3>3
  <2>4. ProcsOK'
    <3>1. CASE disk[n] = NoRule
      <4>1. pc["ntf"] = "next" /\ pc' = [pc EXCEPT !["ntf"] = "next"]
        BY <1>0, <1>4, <2>1, <3>1 DEF LoadNext, ProcsOK
      <4> HIDE DEF j
      <4> QED BY <1>0, <2>3, <4>1, MoveKeepsType DEF Labels
    <3>2. CASE disk[n] # NoRule
      <4>1. j.rule \in Rule \cup {Garbage}
        BY <2>2, <2>3, <3>2
      <4>2. pc' = [pc EXCEPT !["ntf"] = "load"]
        BY <2>1, <3>2 DEF Goto
      <4> HIDE DEF j
      <4> QED BY <1>0, <2>3, <4>1, <4>2, MoveKeepsType DEF Labels
    <3> QED BY <3>1, <3>2
  <2> QED BY <1>0, <1>4, <2>4, IndInvPartsPrime
        DEF LoadNext, StoreOK, FilesOK, TimersOK, RestOK, store, files
<1>5. ASSUME NEW p \in {"ntf", "live"}, LoadRule(p)
      PROVE  IndInv'
  <2>1. job[p].rule \in Rule \cup {Garbage}
    BY <1>0, <1>5 DEF LoadRule, ProcsOK, JobOK
  <2>2. StoreOK' /\ FilesOK' /\ TimersOK'
    <3>1. CASE job[p].rule = Garbage \/ CompileFails(job[p].rule)
      BY <1>0, <1>5, <3>1 DEF LoadRule, StoreOK, FilesOK, TimersOK, store, files
    <3>2. CASE ~(job[p].rule = Garbage \/ CompileFails(job[p].rule))
      <4>1. job[p].rule \in Rule /\ job[p].rule.name \in Names
        BY <2>1, <3>2 DEF Rule
      <4>2. rules[job[p].rule.name] \in RuleOrNone
        BY <1>0, <4>1 DEF StoreOK
      <4>3. StoreOK'
        BY <1>0, <1>5, <3>2, <4>1, StoreAndSortPublishes DEF LoadRule, RuleOrNone
      <4>4. FilesOK'
        BY <1>0, <1>5, <3>2, <4>1, <4>2, DeleteOldKeepsType DEF LoadRule
      <4>5. TimersOK'
        BY <1>0, <1>5, <3>2, <4>1, ScheduledKeepsType DEF LoadRule, TimersOK
      <4> QED BY <4>3, <4>4, <4>5
    <3> QED BY <3>1, <3>2
  <2>3. ProcsOK'
    <3>1. CASE Done(p)
      BY <1>0, <3>1, DoneKeepsType
    <3>2. CASE Goto(p, "next") /\ job' = [job EXCEPT ![p].rule = NoRule]
      <4>1. job' = [job EXCEPT ![p] = [job[p] EXCEPT !.rule = NoRule]]
        BY <1>0, <3>2 DEF ProcsOK
      <4>2. [job[p] EXCEPT !.rule = NoRule] \in JobType
        BY <1>a DEF JobType
      <4> QED BY <1>0, <3>2, <4>1, <4>2, MoveKeepsType DEF Goto, Labels
    <3> QED BY <1>5, <3>1, <3>2 DEF LoadRule
  <2> QED BY <1>0, <1>5, <2>2, <2>3, IndInvPartsPrime DEF LoadRule, RestOK
<1>6. CASE LoadEnd
  BY <1>0, <1>6, DoneKeepsType, IndInvPartsPrime
     DEF LoadEnd, StoreOK, FilesOK, TimersOK, RestOK, store, files
<1> QED BY <1>1, <1>2, <1>3, <1>4, <1>5, <1>6, <1>7, <1>8 DEF ReloadStep

\* What the user and the administrator begin.
LEMMA InputType ==
  ASSUME IndInv, Input
  PROVE  IndInv'
<1> USE DEF Procs
<1>0. StoreOK /\ FilesOK /\ ProcsOK /\ TimersOK /\ RestOK
  BY IndInvParts
<1>1. ASSUME NEW r \in UserRules, AddBegin(r)
      PROVE  IndInv'
  <2>1. ProcsOK'
    <3>1. CASE r.dur = "once"
      BY <1>0, <1>1, <3>1 DEF AddBegin, ProcsOK, JobOK, procs
    <3>2. CASE r.dur # "once"
      <4>1. PICK m \in Names :
              /\ job' = [job EXCEPT !["asker"] = [NoJob EXCEPT !.rule = [r EXCEPT !.name = m]]]
              /\ Goto("asker", "lookup")
        BY <1>1, <3>2 DEF AddBegin
      <4>2. [r EXCEPT !.name = m] \in Rule
        BY InputAssumption DEF Rule
      <4>3. /\ [NoJob EXCEPT !.rule = [r EXCEPT !.name = m]] \in JobType
            /\ [NoJob EXCEPT !.rule = [r EXCEPT !.name = m]].rule \in Rule
        BY <4>2 DEF NoJob, JobType, RuleOrNone
      <4> QED BY <1>0, <4>1, <4>3, MoveKeepsType DEF Goto, Labels
    <3> QED BY <3>1, <3>2
  <2>2. RestOK'
    BY <1>0, <1>1, BeginKeepsType DEF AddBegin, RestOK
  <2> QED BY <1>0, <1>1, <2>1, <2>2, IndInvPartsPrime
        DEF AddBegin, StoreOK, FilesOK, TimersOK, store, files
<1>2. ASSUME NEW r \in UserRules, ReplaceBegin(r)
      PROVE  IndInv'
  <2>1. [NoJob EXCEPT !.rule = r] \in JobType /\ [NoJob EXCEPT !.rule = r].rule \in Rule
    BY InputAssumption DEF NoJob, JobType, RuleOrNone
  <2>2. ProcsOK'
    BY <1>0, <1>2, <2>1, MoveKeepsType DEF ReplaceBegin, Goto, Labels
  <2>3. RestOK'
    BY <1>0, <1>2, BeginKeepsType DEF ReplaceBegin, RestOK
  <2> QED BY <1>0, <1>2, <2>2, <2>3, IndInvPartsPrime
        DEF ReplaceBegin, StoreOK, FilesOK, TimersOK, store, files
<1>3. ASSUME NEW n \in Names, DeleteRule(n)
      PROVE  IndInv'
  <2>1. StoreOK' /\ FilesOK'
    BY <1>0, <1>3, DeleteLockedKeepsType DEF DeleteRule
  <2>2. RestOK'
    BY <1>0, <1>3, BeginKeepsType DEF DeleteRule, RestOK
  <2> QED BY <1>0, <1>3, <2>1, <2>2, IndInvPartsPrime
        DEF DeleteRule, ProcsOK, JobOK, TimersOK, procs
<1>4. ASSUME NEW n \in Names, AdminRemoves(n)
      PROVE  IndInv'
  <2>1. FilesOK'
    BY <1>0, <1>4, RemoveFileKeepsType DEF AdminRemoves
  <2>2. RestOK'
    BY <1>0, <1>4, BeginKeepsType DEF AdminRemoves, RestOK
  <2> QED BY <1>0, <1>4, <2>1, <2>2, IndInvPartsPrime
        DEF AdminRemoves, StoreOK, ProcsOK, JobOK, TimersOK, store, procs
<1>5. ASSUME NEW n \in Names, NEW c \in FileContents, AdminWrites(n, c)
      PROVE  IndInv'
  <2>1. FilesOK'
    BY <1>0, <1>5, InputAssumption, WriteFileKeepsType DEF AdminWrites
  <2>2. RestOK'
    BY <1>0, <1>5, BeginKeepsType DEF AdminWrites, RestOK
  <2> QED BY <1>0, <1>5, <2>1, <2>2, IndInvPartsPrime
        DEF AdminWrites, StoreOK, ProcsOK, JobOK, TimersOK, store, procs
<1>6. CASE ReloadBegin
  BY <1>6, ReloadStepType
<1> QED BY <1>1, <1>2, <1>3, <1>4, <1>5, <1>6 DEF Input

\* The live reload worker and the timers.
LEMMA BackgroundType ==
  ASSUME IndInv, LiveStep \/ Fire
  PROVE  IndInv'
<1> USE DEF Procs
<1>0. StoreOK /\ FilesOK /\ ProcsOK /\ TimersOK /\ RestOK
  BY IndInvParts
<1>a. events # <<>> => Head(events) \in Event /\ Tail(events) \in Seq(Event)
  BY <1>0 DEF FilesOK
<1>b. \A e \in Event : e.file \in Names
  BY DEF Event
<1>1. CASE WorkerWriteEvent
  <2> DEFINE n == Head(events).file
  <2>1. n \in Names /\ disk[n] \in Rule \cup {NoRule, Garbage}
    BY <1>0, <1>1, <1>a, <1>b DEF WorkerWriteEvent, FilesOK, Files
  <2>2. FilesOK'
    BY <1>0, <1>1, <1>a DEF WorkerWriteEvent, FilesOK
  <2>3. ProcsOK'
    <3>1. CASE disk[n] = NoRule
      BY <1>0, <1>1, <3>1 DEF WorkerWriteEvent, ProcsOK, JobOK, procs
    <3>2. CASE disk[n] # NoRule
      <4>1. job' = [job EXCEPT !["live"] = [job["live"] EXCEPT !.rule = disk[n]]]
        BY <1>0, <1>1, <3>2 DEF WorkerWriteEvent, ReadRuleFile, ProcsOK
      <4>2. job["live"] \in JobType
        BY <1>0 DEF ProcsOK
      <4>3. /\ [job["live"] EXCEPT !.rule = disk[n]] \in JobType
            /\ [job["live"] EXCEPT !.rule = disk[n]].rule \in Rule \cup {Garbage}
        BY <2>1, <3>2, <4>2 DEF JobType
      <4> QED BY <1>0, <1>1, <3>2, <4>1, <4>3, MoveKeepsType DEF WorkerWriteEvent, Goto, Labels
    <3> QED BY <3>1, <3>2
  <2> QED BY <1>0, <1>1, <2>2, <2>3, IndInvPartsPrime
        DEF WorkerWriteEvent, StoreOK, TimersOK, RestOK, store
<1>2. CASE WorkerRemoveEvent
  <2> DEFINE n == Head(events).file
  <2>1. n \in Names
    BY <1>2, <1>a, <1>b DEF WorkerRemoveEvent
  <2>2. FilesOK'
    BY <1>0, <1>2, <1>a DEF WorkerRemoveEvent, FilesOK
  <2>3. ProcsOK'
    <3>1. CASE UNCHANGED procs
      BY <1>0, <3>1 DEF ProcsOK, JobOK, procs
    <3>2. CASE job' = [job EXCEPT !["live"].todo = {n}] /\ Goto("live", "delete")
      <4>1. job' = [job EXCEPT !["live"] = [job["live"] EXCEPT !.todo = {n}]]
        BY <1>0, <3>2 DEF ProcsOK
      <4>2. [job["live"] EXCEPT !.todo = {n}] \in JobType
        BY <1>0, <2>1 DEF ProcsOK, JobType
      <4> QED BY <1>0, <3>2, <4>1, <4>2, MoveKeepsType DEF Goto, Labels
    <3> QED BY <1>2, <3>1, <3>2 DEF WorkerRemoveEvent
  <2> QED BY <1>0, <1>2, <2>2, <2>3, IndInvPartsPrime
        DEF WorkerRemoveEvent, StoreOK, TimersOK, RestOK, store
<1>3. CASE WorkerDelete
  <2>1. PICK n \in job["live"].todo : DeleteLocked(n)
    BY <1>3 DEF WorkerDelete
  <2>2. n \in Names
    BY <1>0, <2>1 DEF ProcsOK, JobType
  <2>3. StoreOK' /\ FilesOK'
    BY <1>0, <2>1, <2>2, DeleteLockedKeepsType
  <2> QED BY <1>0, <1>3, <2>3, DoneKeepsType, IndInvPartsPrime DEF WorkerDelete, TimersOK, RestOK
<1>4. CASE LoadRule("live")
  BY <1>4, ReloadStepType
<1>5. ASSUME NEW n \in Names, NEW d \in TempDurations, TimerFires(n, d)
      PROVE  IndInv'
  <2>1. TimersOK'
    BY <1>0, <1>5 DEF TimerFires, TimersOK
  <2>2. StoreOK'
    BY <1>0, <1>5, StoreAndSortPublishes DEF TimerFires, StoreOK, store, RuleOrNone
  <2> QED BY <1>0, <1>5, <2>1, <2>2, IndInvPartsPrime
        DEF TimerFires, FilesOK, ProcsOK, JobOK, RestOK, files, procs
<1> QED BY <1>1, <1>2, <1>3, <1>4, <1>5 DEF LiveStep, Fire

\* Every step keeps the inductive invariant.
LEMMA StepType == IndInv /\ [Next]_vars => IndInv'
<1> SUFFICES ASSUME IndInv, [Next]_vars PROVE IndInv'
  OBVIOUS
<1>1. CASE Input
  BY <1>1, InputType
<1>2. CASE UserStep("asker") \/ UserStep("ntf")
  BY <1>2, UserStepType DEF Procs
<1>3. CASE ReloadStep
  BY <1>3, ReloadStepType
<1>4. CASE LiveStep \/ Fire
  BY <1>4, BackgroundType
<1>5. CASE UNCHANGED vars
  BY <1>5 DEF vars, store, files, procs, IndInv, TypeOK, JobOK
<1> QED BY <1>1, <1>2, <1>3, <1>4, <1>5 DEF Next, System

\* Type correctness of the rule loader, for every set of rules and every number of
\* operations, and with it: a process that stores, schedules or saves holds a rule.
THEOREM TypeCorrect == Spec => [](TypeOK /\ JobOK)
<1>1. Init => IndInv
  BY InitType
<1>2. IndInv /\ [Next]_vars => IndInv'
  BY StepType
<1> QED BY <1>1, <1>2, PTL DEF Spec, IndInv

-----------------------------------------------------------------------------
(* The active rules *)

\* The rules in memory change only through StoreAndSort, or all at once in Reload and Load.
LEMMA StoreChanges ==
  ASSUME IndInv, [Next]_vars
  PROVE  \/ UNCHANGED store
         \/ \E n \in Names, r \in RuleOrNone : StoreAndSort(n, r)
         \/ ReloadClear \/ LoadMakeMap
<1> USE DEF Procs
<1>0. StoreOK /\ ProcsOK
  BY IndInvParts
<1> DEFINE Changes == \/ UNCHANGED store
                      \/ \E n \in Names, r \in RuleOrNone : StoreAndSort(n, r)
                      \/ ReloadClear \/ LoadMakeMap
<1>1. ASSUME NEW n \in Names, DeleteLocked(n) PROVE Changes
  BY <1>1 DEF DeleteLocked, RuleOrNone, store
<1>2. ASSUME NEW p \in Procs, UserStep(p) PROVE Changes
  <2>1. CASE StoreRule(p)
    <3>1. job[p].rule \in RuleOrNone /\ job[p].rule.name \in Names
      BY <1>0, <2>1 DEF StoreRule, ProcsOK, JobOK, Rule, RuleOrNone
    <3> QED BY <2>1, <3>1 DEF StoreRule
  <2>2. CASE ~StoreRule(p)
    BY <1>2, <2>2 DEF UserStep, LookupOld, CleanAndCompile, ScheduleRule, SaveTruncate,
                      SaveWrite, store
  <2> QED BY <2>1, <2>2
<1>3. ASSUME NEW p \in Procs, LoadRule(p) PROVE Changes
  <2>1. job[p].rule \in Rule \cup {Garbage}
    BY <1>0, <1>3 DEF LoadRule, ProcsOK, JobOK
  <2>2. CASE job[p].rule = Garbage \/ CompileFails(job[p].rule)
    BY <1>3, <2>2 DEF LoadRule, store
  <2>3. CASE ~(job[p].rule = Garbage \/ CompileFails(job[p].rule))
    BY <1>3, <2>1, <2>3 DEF LoadRule, Rule, RuleOrNone
  <2> QED BY <2>2, <2>3
<1>4. ASSUME ReloadStep PROVE Changes
  BY <1>3, <1>4 DEF ReloadStep, LoadGlob, LoadCount, LoadNext, LoadEnd, store
<1>5. ASSUME LiveStep PROVE Changes
  <2>1. CASE WorkerDelete
    BY <1>0, <1>1, <2>1 DEF WorkerDelete, ProcsOK, JobType
  <2>2. CASE ~WorkerDelete
    BY <1>3, <1>5, <2>2 DEF LiveStep, WorkerWriteEvent, WorkerRemoveEvent, store
  <2> QED BY <2>1, <2>2
<1>6. ASSUME Fire PROVE Changes
  BY <1>6 DEF Fire, TimerFires, RuleOrNone
<1>7. ASSUME Input PROVE Changes
  BY <1>1, <1>7 DEF Input, AddBegin, ReplaceBegin, DeleteRule, AdminRemoves, AdminWrites,
                    ReloadBegin, store
<1>8. UNCHANGED vars => UNCHANGED store
  BY DEF vars, store
<1> QED BY <1>2, <1>4, <1>5, <1>6, <1>7, <1>8 DEF Next, System

\* FindFirstMatch, which takes no lock, always reads the enabled rules that are in memory,
\* after any interleaving of additions, replacements, deletions, file events, reloads and
\* expirations; a rule it reads that is not in memory was thrown away with the map that Load
\* replaces without the lock, and no rule was stored or deleted since.
THEOREM SnapshotCorrect == Spec => []SnapshotIsActiveRules
<1>1. Init => SnapshotIsActiveRules
  <2> SUFFICES ASSUME Init PROVE SnapshotIsActiveRules
    OBVIOUS
  <2>1. StoreOK
    BY InitType, IndInvParts
  <2> QED BY <2>1 DEF Init, SnapshotIsActiveRules, ActiveRules, Found, StoreOK
<1>2. IndInv /\ SnapshotIsActiveRules /\ [Next]_vars => SnapshotIsActiveRules'
  <2> SUFFICES ASSUME IndInv, SnapshotIsActiveRules, [Next]_vars
               PROVE  SnapshotIsActiveRules'
    OBVIOUS
  <2>0. StoreOK
    BY IndInvParts
  <2>1. CASE UNCHANGED store
    BY <2>1 DEF SnapshotIsActiveRules, store, Found
  <2>2. ASSUME NEW n \in Names, NEW r \in RuleOrNone, StoreAndSort(n, r)
        PROVE  SnapshotIsActiveRules'
    BY <2>0, <2>2, StoreAndSortPublishes
  <2>3. CASE ReloadClear
    BY <2>3 DEF ReloadClear, EmptyRules, SnapshotIsActiveRules, Found
  <2>4. CASE LoadMakeMap
    <3>1. rules' = EmptyRules /\ \A n \in Names : Found(snapshot, n) => snapshot[n].enabled
      BY <2>4 DEF LoadMakeMap, SnapshotIsActiveRules
    <3>2. CASE dropped' = {n \in Names : Found(snapshot, n)} /\ UNCHANGED snapshot
      BY <3>1, <3>2 DEF EmptyRules, SnapshotIsActiveRules, Found
    <3>3. CASE snapshot' = EmptyRules /\ dropped' = {}
      BY <3>1, <3>3 DEF EmptyRules, SnapshotIsActiveRules, Found
    <3> QED BY <2>4, <3>2, <3>3 DEF LoadMakeMap
  <2> QED BY <2>1, <2>2, <2>3, <2>4, StoreChanges
<1>3. Spec => []IndInv
  BY InitType, StepType, PTL DEF Spec
<1> QED BY <1>1, <1>2, <1>3, PTL DEF Spec

-----------------------------------------------------------------------------
(* Temporary rules *)

\* An active temporary rule under this name.
ActiveTemp(n) == Found(rules, n) /\ rules[n].enabled /\ rules[n].dur \in TempDurations

\* p is about to start the timer of this rule.
AboutToSchedule(p, n, d) ==
  /\ pc[p] = "schedule" /\ job[p].rule.enabled
  /\ job[p].rule.name = n /\ job[p].rule.dur = d

\* A step that stores no rule and starts or consumes no timer keeps every timer promised,
\* as long as whoever is about to start one still is.
LEMMA TimersFrame ==
  ASSUME TempRuleHasTimer, UNCHANGED timers,
         \A n \in Names : rules'[n] = rules[n] \/ rules'[n] = NoRule,
         \A p \in Procs : pc[p] = "schedule" => pc'[p] = "schedule" /\ job'[p] = job[p]
  PROVE  TempRuleHasTimer'
  BY DEF TempRuleHasTimer, Found

\* A process other than p is not disturbed when p moves.
LEMMA OthersKeepJob ==
  ASSUME ProcsOK, NEW p \in Procs, pc[p] # "schedule",
         NEW l, pc' = [pc EXCEPT ![p] = l], NEW j, job' = [job EXCEPT ![p] = j]
  PROVE  \A q \in Procs : pc[q] = "schedule" => pc'[q] = "schedule" /\ job'[q] = job[q]
  BY DEF ProcsOK

\* Storing a temporary rule promises its timer; starting a timer keeps the promise.
LEMMA UserStepTimers ==
  ASSUME IndInv, TempRuleHasTimer, NEW p \in Procs, UserStep(p)
  PROVE  TempRuleHasTimer'
<1>0. StoreOK /\ ProcsOK /\ TimersOK /\ job = [job EXCEPT ![p] = job[p]]
  BY IndInvParts DEF ProcsOK
<1>1. CASE StoreRule(p)
  <2> DEFINE r == job[p].rule
  <2>1. r \in Rule /\ r.name \in Names
    BY <1>0, <1>1 DEF StoreRule, ProcsOK, JobOK, Rule
  <2>2. r.dur \in TempDurations => isTemporary(r)
    BY DurationAssumption DEF isTemporary
  <2>3. rules' = [rules EXCEPT ![r.name] = r] /\ UNCHANGED timers
    BY <1>1 DEF StoreRule, StoreAndSort
  <2>4. \A q \in Procs : pc[q] = "schedule" => pc'[q] = "schedule" /\ job'[q] = job[q]
    BY <1>0, <1>1 DEF StoreRule, Goto, Done, ProcsOK
  <2>5. r.enabled /\ isTemporary(r) => pc'[p] = "schedule" /\ job'[p].rule = r
    BY <1>0, <1>1 DEF StoreRule, Goto, ProcsOK
  <2>6. ASSUME NEW n \in Names, (Found(rules, n) /\ rules[n].enabled /\ rules[n].dur \in TempDurations)'
        PROVE  \/ timers'[n][rules'[n].dur] > 0
               \/ \E q \in Procs : /\ pc'[q] = "schedule" /\ job'[q].rule.enabled
                                    /\ job'[q].rule.name = n /\ job'[q].rule.dur = rules'[n].dur
    <3>1. CASE n = r.name
      BY <1>0, <2>1, <2>2, <2>3, <2>5, <2>6, <3>1 DEF StoreOK
    <3>2. CASE n # r.name
      <4>1. rules'[n] = rules[n]
        BY <1>0, <2>3, <3>2 DEF StoreOK
      <4> QED BY <2>3, <2>4, <2>6, <4>1 DEF TempRuleHasTimer, Found
    <3> QED BY <3>1, <3>2
  <2> QED BY <2>6 DEF TempRuleHasTimer, Found
<1>2. CASE ScheduleRule(p)
  <2> DEFINE r == job[p].rule
  <2>1. r \in Rule /\ r.name \in Names
    BY <1>0, <1>2 DEF ScheduleRule, ProcsOK, JobOK, Rule
  <2>2. UNCHANGED rules
    BY <1>2 DEF ScheduleRule, store
  <2>3. \A n \in Names, d \in TempDurations :
          timers'[n][d] >= timers[n][d] /\ (r.enabled /\ r.name = n /\ r.dur = d => timers'[n][d] > 0)
    BY <1>0, <1>2, <2>1 DEF ScheduleRule, Scheduled, TimersOK
  <2>4. \A q \in Procs : q # p => pc'[q] = pc[q] /\ job'[q] = job[q]
    BY <1>0, <1>2 DEF ScheduleRule, Done, ProcsOK
  <2>5. ASSUME NEW n \in Names, ActiveTemp(n)
        PROVE  \/ timers'[n][rules[n].dur] > 0
               \/ \E q \in Procs : /\ pc'[q] = "schedule" /\ job'[q].rule.enabled
                                    /\ job'[q].rule.name = n /\ job'[q].rule.dur = rules[n].dur
    <3>1. rules[n].dur \in TempDurations
      BY <2>5 DEF ActiveTemp
    <3>2. CASE timers[n][rules[n].dur] > 0
      <4>1. timers[n][rules[n].dur] \in Nat /\ timers'[n][rules[n].dur] \in Nat
        BY <1>0, <1>2, <2>1, <3>1, ScheduledKeepsType DEF TimersOK, ScheduleRule
      <4> QED BY <2>3, <3>1, <3>2, <4>1
    <3>3. CASE AboutToSchedule(p, n, rules[n].dur)
      BY <2>3, <3>1, <3>3 DEF AboutToSchedule
    <3>4. ASSUME NEW q \in Procs, q # p, AboutToSchedule(q, n, rules[n].dur)
          PROVE  \E q1 \in Procs : /\ pc'[q1] = "schedule" /\ job'[q1].rule.enabled
                                   /\ job'[q1].rule.name = n /\ job'[q1].rule.dur = rules[n].dur
      BY <2>4, <3>4 DEF AboutToSchedule
    <3>5. \/ timers[n][rules[n].dur] > 0
          \/ \E q \in Procs : AboutToSchedule(q, n, rules[n].dur)
      BY <2>5 DEF TempRuleHasTimer, ActiveTemp, AboutToSchedule
    <3> QED BY <3>2, <3>3, <3>4, <3>5
  <2> QED BY <2>2, <2>5 DEF TempRuleHasTimer, ActiveTemp, Found
<1>3. CASE ~StoreRule(p) /\ ~ScheduleRule(p)
  <2>1. pc[p] # "schedule" /\ UNCHANGED <<rules, timers>>
    BY <1>3 DEF UserStep, LookupOld, CleanAndCompile, SaveTruncate, SaveWrite, store
  <2>2. \A q \in Procs : pc[q] = "schedule" => pc'[q] = "schedule" /\ job'[q] = job[q]
    BY <1>0, <1>3, <2>1 DEF UserStep, LookupOld, CleanAndCompile, SaveTruncate, SaveWrite,
                            Goto, Done, ProcsOK
  <2> QED BY <2>1, <2>2, TimersFrame
<1> QED BY <1>1, <1>2, <1>3

\* loadRule stores a rule and starts its timer under one lock.
LEMMA LoadRuleTimers ==
  ASSUME IndInv, TempRuleHasTimer, NEW p \in Procs, LoadRule(p)
  PROVE  TempRuleHasTimer'
<1>0. StoreOK /\ ProcsOK /\ TimersOK
  BY IndInvParts
<1>1. job[p].rule \in Rule \cup {Garbage}
  BY <1>0 DEF LoadRule, ProcsOK, JobOK
<1>2. \A q \in Procs : pc[q] = "schedule" => pc'[q] = "schedule" /\ job'[q] = job[q]
  BY <1>0 DEF LoadRule, Goto, Done, ProcsOK
<1>3. CASE job[p].rule = Garbage \/ CompileFails(job[p].rule)
  BY <1>2, <1>3, TimersFrame DEF LoadRule, store
<1>4. CASE ~(job[p].rule = Garbage \/ CompileFails(job[p].rule))
  <2> DEFINE r == job[p].rule
  <2>1. r \in Rule /\ r.name \in Names
    BY <1>1, <1>4 DEF Rule
  <2>2. rules' = [rules EXCEPT ![r.name] = r] /\ timers' = Scheduled(timers, r)
    BY <1>4 DEF LoadRule, StoreAndSort
  <2>3. timers' \in [Names -> [TempDurations -> Nat]]
    BY <1>0, <2>1, <2>2, ScheduledKeepsType
  <2>4. \A n \in Names, d \in TempDurations :
          timers'[n][d] >= timers[n][d] /\ (r.enabled /\ r.name = n /\ r.dur = d => timers'[n][d] > 0)
    BY <1>0, <2>1, <2>2 DEF Scheduled, TimersOK
  <2>5. ASSUME NEW n \in Names, ActiveTemp(n)'
        PROVE  \/ timers'[n][rules'[n].dur] > 0
               \/ \E q \in Procs : AboutToSchedule(q, n, rules[n].dur)' /\ rules'[n] = rules[n]
    <3>1. CASE n = r.name
      BY <1>0, <2>1, <2>2, <2>4, <2>5, <3>1 DEF StoreOK, ActiveTemp
    <3>2. CASE n # r.name
      <4>1. rules'[n] = rules[n]
        BY <1>0, <2>2, <3>2 DEF StoreOK
      <4>2. ActiveTemp(n) /\ rules[n].dur \in TempDurations
        BY <2>5, <4>1 DEF ActiveTemp, Found
      <4>3. CASE timers[n][rules[n].dur] > 0
        <5>1. timers[n][rules[n].dur] \in Nat /\ timers'[n][rules[n].dur] \in Nat
          BY <1>0, <2>3, <4>2 DEF TimersOK
        <5> QED BY <2>4, <4>1, <4>2, <4>3, <5>1
      <4>4. CASE \E q \in Procs : AboutToSchedule(q, n, rules[n].dur)
        BY <1>2, <4>1, <4>4 DEF AboutToSchedule
      <4> QED BY <4>2, <4>3, <4>4 DEF TempRuleHasTimer, ActiveTemp, AboutToSchedule
    <3> QED BY <3>1, <3>2
  <2> QED BY <2>5 DEF TempRuleHasTimer, ActiveTemp, AboutToSchedule, Found
<1> QED BY <1>3, <1>4

\* A timer that fires takes the rule of its name and duration with it.
LEMMA TimerFiresTimers ==
  ASSUME IndInv, TempRuleHasTimer, NEW m \in Names, NEW c \in TempDurations, TimerFires(m, c)
  PROVE  TempRuleHasTimer'
<1>0. StoreOK /\ TimersOK
  BY IndInvParts
<1>1. \A n \in Names, d \in TempDurations : n # m \/ d # c => timers'[n][d] = timers[n][d]
  BY <1>0 DEF TimerFires, TimersOK
<1>2. /\ \A n \in Names : rules'[n] = rules[n] \/ rules'[n] = NoRule
      /\ Found(rules, m) /\ rules[m].dur = c => rules'[m] = NoRule
  BY <1>0 DEF TimerFires, StoreAndSort, store, StoreOK
<1>3. UNCHANGED <<pc, job>>
  BY DEF TimerFires, procs
<1>4. ASSUME NEW n \in Names, ActiveTemp(n)'
      PROVE  \/ timers'[n][rules'[n].dur] > 0
             \/ \E q \in Procs : AboutToSchedule(q, n, rules[n].dur)' /\ rules'[n] = rules[n]
  <2>1. rules'[n] = rules[n] /\ ActiveTemp(n) /\ ~(n = m /\ rules[n].dur = c)
    BY <1>2, <1>4 DEF ActiveTemp, Found
  <2>2. rules[n].dur \in TempDurations /\ timers'[n][rules[n].dur] = timers[n][rules[n].dur]
    BY <1>1, <2>1 DEF ActiveTemp
  <2> QED BY <1>3, <2>1, <2>2 DEF TempRuleHasTimer, ActiveTemp, AboutToSchedule
<1> QED BY <1>4 DEF TempRuleHasTimer, ActiveTemp, AboutToSchedule, Found

\* The steps that store nothing and schedule nothing.
LEMMA OtherTimers ==
  ASSUME IndInv, TempRuleHasTimer,
         Input \/ WorkerWriteEvent \/ WorkerRemoveEvent \/ WorkerDelete
           \/ ReloadClear \/ LoadGlob \/ LoadCount \/ LoadMakeMap \/ LoadNext \/ LoadEnd
  PROVE  TempRuleHasTimer'
<1>0. StoreOK /\ ProcsOK
  BY IndInvParts
<1>1. UNCHANGED timers
  BY DEF Input, AddBegin, ReplaceBegin, DeleteRule, AdminRemoves, AdminWrites, ReloadBegin,
         WorkerWriteEvent, WorkerRemoveEvent, WorkerDelete, ReloadClear, LoadGlob, LoadCount,
         LoadMakeMap, LoadNext, LoadEnd
<1>2. \A n \in Names : rules'[n] = rules[n] \/ rules'[n] = NoRule
  <2>1. ASSUME NEW m \in Names, DeleteLocked(m)
        PROVE  \A n \in Names : rules'[n] = rules[n] \/ rules'[n] = NoRule
    BY <1>0, <2>1 DEF DeleteLocked, StoreAndSort, store, StoreOK
  <2>2. CASE \E m \in Names : DeleteRule(m)
    BY <2>1, <2>2 DEF DeleteRule
  <2>3. CASE WorkerDelete
    <3>1. job["live"].todo \subseteq Names
      BY <1>0 DEF ProcsOK, JobType, Procs
    <3> QED BY <2>1, <2>3, <3>1 DEF WorkerDelete
  <2>4. CASE ReloadClear \/ LoadMakeMap
    BY <2>4 DEF ReloadClear, LoadMakeMap, EmptyRules
  <2>5. CASE ~((\E m \in Names : DeleteRule(m)) \/ WorkerDelete \/ ReloadClear \/ LoadMakeMap)
    <3>1. UNCHANGED rules
      BY <2>5 DEF Input, AddBegin, ReplaceBegin, AdminRemoves, AdminWrites, ReloadBegin,
                  WorkerWriteEvent, WorkerRemoveEvent, LoadGlob, LoadCount, LoadNext, LoadEnd, store
    <3> QED BY <3>1
  <2> QED BY <2>2, <2>3, <2>4, <2>5
<1>3. \A p \in Procs : pc[p] = "schedule" => pc'[p] = "schedule" /\ job'[p] = job[p]
  <2>1. CASE \E r \in UserRules : AddBegin(r)
    BY <1>0, <2>1 DEF AddBegin, Goto, ProcsOK, procs
  <2>2. CASE \E r \in UserRules : ReplaceBegin(r)
    BY <1>0, <2>2 DEF ReplaceBegin, Goto, ProcsOK
  <2>3. CASE ReloadBegin \/ ReloadClear \/ LoadGlob \/ LoadCount \/ LoadMakeMap \/ LoadEnd
    BY <1>0, <2>3 DEF ReloadBegin, ReloadClear, LoadGlob, LoadCount, LoadMakeMap, LoadEnd, Goto,
                      Done, ProcsOK
  <2>4. CASE LoadNext
    BY <1>0, <2>4 DEF LoadNext, Goto, ProcsOK
  <2>5. CASE WorkerWriteEvent \/ WorkerRemoveEvent \/ WorkerDelete
    BY <1>0, <2>5 DEF WorkerWriteEvent, WorkerRemoveEvent, WorkerDelete, ReadRuleFile, Goto,
                      Done, ProcsOK, procs
  <2>6. CASE \E n \in Names : \/ DeleteRule(n) \/ AdminRemoves(n)
                               \/ \E c \in FileContents : AdminWrites(n, c)
    BY <2>6 DEF DeleteRule, AdminRemoves, AdminWrites, procs
  <2> QED BY <2>1, <2>2, <2>3, <2>4, <2>5, <2>6 DEF Input
<1> QED BY <1>1, <1>2, <1>3, TimersFrame

\* No temporary rule becomes permanent: as long as it is active, a timer that will remove
\* it is pending, or the goroutine that stored it is about to start one.
THEOREM TemporaryRulesAreTimed == Spec => []TempRuleHasTimer
<1>1. Init => TempRuleHasTimer
  <2> SUFFICES ASSUME Init PROVE TempRuleHasTimer
    OBVIOUS
  <2> QED BY DEF Init, InitTimers, TempRuleHasTimer, Found
<1>2. IndInv /\ TempRuleHasTimer /\ [Next]_vars => TempRuleHasTimer'
  <2> SUFFICES ASSUME IndInv, TempRuleHasTimer, [Next]_vars PROVE TempRuleHasTimer'
    OBVIOUS
  <2>1. CASE UserStep("asker") \/ UserStep("ntf")
    BY <2>1, UserStepTimers DEF Procs
  <2>2. CASE LoadRule("ntf") \/ LoadRule("live")
    BY <2>2, LoadRuleTimers DEF Procs
  <2>3. CASE Fire
    BY <2>3, TimerFiresTimers DEF Fire
  <2>4. CASE UNCHANGED vars
    BY <2>4 DEF vars, store, procs, TempRuleHasTimer, Found
  <2>5. CASE Next /\ ~(\/ UserStep("asker") \/ UserStep("ntf") \/ Fire
                       \/ LoadRule("ntf") \/ LoadRule("live"))
    BY <2>5, OtherTimers DEF Next, System, ReloadStep, LiveStep
  <2> QED BY <2>1, <2>2, <2>3, <2>4, <2>5
<1>3. Spec => []IndInv
  BY InitType, StepType, PTL DEF Spec
<1> QED BY <1>1, <1>2, <1>3, PTL DEF Spec
-----------------------------------------------------------------------------
(* Lasting rules and their files *)

\* A rule that lasts always is in memory under this name.
Lasting(n) == Found(rules, n) /\ rules[n].dur = "always"

\* The file of n is not there, and it did not go while nobody was watching.
Gone(n) == disk[n] = NoRule /\ n \notin missed

\* The live reload worker still has to hear that the file of n is gone.
RemoveQueued(n) == \E i \in 1..Len(events) : events[i] = [op |-> "Remove", file |-> n]

\* The live reload worker has heard it and is about to delete the rule.
Deleting(n) == pc["live"] = "delete" /\ n \in job["live"].todo

\* A goroutine is about to write the file of n.
Saving(n) == \E p \in {"asker", "ntf"} : pc[p] \in {"truncate", "write"} /\ job[p].rule.name = n

\* p has read a lasting rule from the file of n and is about to store it.
Loading(p, n) ==
  /\ pc[p] = "load" /\ job[p].rule \in Rule
  /\ job[p].rule.name = n /\ job[p].rule.dur = "always"

\* A lasting rule without a file is about to go or to get its file; so is one that the
\* live reload worker is about to store, and Reload never stores one.
FileOK(n) ==
  Gone(n) =>
    /\ Lasting(n) => RemoveQueued(n) \/ Deleting(n) \/ Saving(n)
    /\ Loading("live", n) => RemoveQueued(n)
    /\ ~Loading("ntf", n)

\* A file holds a rule of its own name.
FilesNamed == \A n \in Names : disk[n] \in Rule => disk[n].name = n

\* Nobody watches from the start of Reload to its end, and the worker is idle meanwhile.
WatchOK ==
  /\ watching => pc["ntf"] \notin {"clear", "glob", "count", "make", "next", "load"}
  /\ ~watching => pc["live"] = "idle"
  /\ pc["live"] = "delete" => \E n \in Names : job["live"].todo = {n}

FileInv == FilesNamed /\ WatchOK /\ \A n \in Names : FileOK(n)

\* What a step does to the file of n: it does not go unnoticed.
FileNoticed(n) ==
  Gone(n)' => \/ Gone(n) /\ (RemoveQueued(n) => RemoveQueued(n)')
              \/ watching /\ RemoveQueued(n)'

FilesKept == FilesNamed' /\ \A n \in Names : FileNoticed(n)

\* A step that leaves the files and the events alone.
LEMMA FilesUnchanged ==
  ASSUME FilesNamed, UNCHANGED files
  PROVE  FilesKept
  BY DEF FilesNamed, files, FilesKept, FileNoticed, Gone, RemoveQueued

\* What is queued stays queued, and the new event is in the queue.
LEMMA NotifyQueues ==
  ASSUME FilesOK, NEW e \in Event, Notify(e)
  PROVE  /\ \A n \in Names : RemoveQueued(n) => RemoveQueued(n)'
         /\ watching => missed' = missed /\ \E i \in 1..Len(events') : events'[i] = e
         /\ ~watching => missed' = missed \cup {e.file}
<1>1. CASE watching /\ events # <<>> /\ events[Len(events)] = e
  <2>1. events' = events /\ missed' = missed /\ Len(events) \in 1..Len(events)
    BY <1>1 DEF Notify, FilesOK
  <2> QED BY <1>1, <2>1 DEF RemoveQueued
<1>2. CASE watching /\ ~(events # <<>> /\ events[Len(events)] = e)
  <2>1. events' = Append(events, e) /\ missed' = missed
    BY <1>2 DEF Notify
  <2>2. /\ Len(events') = Len(events) + 1 /\ Len(events) \in Nat
        /\ events'[Len(events) + 1] = e
        /\ \A i \in 1..Len(events) : events'[i] = events[i]
    BY <2>1 DEF FilesOK
  <2> QED BY <1>2, <2>1, <2>2 DEF RemoveQueued
<1>3. CASE ~watching
  BY <1>3 DEF Notify, RemoveQueued
<1> QED BY <1>1, <1>2, <1>3

\* A file that is removed is noticed.
LEMMA RemoveFileNoticed ==
  ASSUME FilesOK, FilesNamed, NEW m \in Names, RemoveFile(m)
  PROVE  FilesKept
<1>1. CASE disk[m] = NoRule
  BY <1>1, FilesUnchanged DEF RemoveFile
<1>2. CASE disk[m] # NoRule
  <2> DEFINE e == [op |-> "Remove", file |-> m]
  <2>1. e \in Event /\ e.file = m
    BY DEF Event
  <2>2. disk' = [disk EXCEPT ![m] = NoRule] /\ Notify(e)
    BY <1>2 DEF RemoveFile
  <2> HIDE DEF e
  <2>3. /\ \A n \in Names : RemoveQueued(n) => RemoveQueued(n)'
        /\ watching => missed' = missed /\ \E i \in 1..Len(events') : events'[i] = e
        /\ ~watching => missed' = missed \cup {m}
    BY <2>1, <2>2, NotifyQueues
  <2>4. watching => RemoveQueued(m)'
    BY <2>3 DEF RemoveQueued, e
  <2>5. \A n \in Names : n # m => disk'[n] = disk[n]
    BY <2>2 DEF FilesOK, Files
  <2>6. FilesNamed'
    BY <2>2, <2>5, NoRuleAssumption DEF FilesNamed, FilesOK, Files
  <2>7. ASSUME NEW n \in Names PROVE FileNoticed(n)
    <3>1. CASE n = m
      BY <2>3, <2>4, <3>1 DEF FileNoticed, Gone
    <3>2. CASE n # m
      <4>1. Gone(n)' => Gone(n)
        BY <2>3, <2>5, <3>2 DEF Gone
      <4> QED BY <2>3, <4>1 DEF FileNoticed
    <3> QED BY <3>1, <3>2
  <2> QED BY <2>6, <2>7 DEF FilesKept
<1> QED BY <1>1, <1>2

\* A file that is written is there.
LEMMA WriteFileNoticed ==
  ASSUME FilesOK, FilesNamed, NEW m \in Names, NEW c \in Rule \cup {Garbage},
         c \in Rule => c.name = m, WriteFile(m, c)
  PROVE  FilesKept /\ ~Gone(m)'
<1>1. [op |-> "Write", file |-> m] \in Event
  BY DEF Event
<1>2. \A n \in Names : RemoveQueued(n) => RemoveQueued(n)'
  BY <1>1, NotifyQueues DEF WriteFile, RemoveQueued
<1>3. missed \subseteq missed'
  BY <1>1, NotifyQueues DEF WriteFile
<1>4. disk'[m] = c /\ c # NoRule /\ \A n \in Names : n # m => disk'[n] = disk[n]
  BY NoRuleAssumption DEF WriteFile, FilesOK, Files
<1>5. FilesNamed'
  BY <1>4 DEF FilesNamed
<1>6. \A n \in Names : Gone(n)' => Gone(n)
  BY <1>3, <1>4 DEF Gone
<1> QED BY <1>2, <1>4, <1>5, <1>6 DEF FilesKept, FileNoticed, Gone

\* Deleting the file of a rule that lasts always no more is noticed.
LEMMA DeleteOldNoticed ==
  ASSUME FilesOK, FilesNamed, NEW old \in RuleOrNone, NEW new \in Rule,
         deleteOldRuleFromDisk(old, new)
  PROVE  FilesKept
<1>1. CASE old # NoRule /\ old.dur = "always" /\ new.dur # "always"
  <2>1. old.name \in Names
    BY <1>1 DEF RuleOrNone, Rule
  <2> QED BY <1>1, <2>1, RemoveFileNoticed DEF deleteOldRuleFromDisk
<1>2. CASE ~(old # NoRule /\ old.dur = "always" /\ new.dur # "always")
  BY <1>2, FilesUnchanged DEF deleteOldRuleFromDisk
<1> QED BY <1>1, <1>2

\* Deleting a rule removes its file, if it has one, and no other lasting rule appears.
LEMMA DeleteLockedNoticed ==
  ASSUME StoreOK, FilesOK, FilesNamed, NEW m \in Names, DeleteLocked(m)
  PROVE  /\ FilesKept
         /\ ~Lasting(m)'
         /\ \A n \in Names : Lasting(n)' => Lasting(n)
<1>1. CASE Found(rules, m)
  <2>1. FilesKept
    BY <1>1, RemoveFileNoticed, FilesUnchanged DEF DeleteLocked
  <2>2. rules' = [rules EXCEPT ![m] = NoRule]
    BY <1>1 DEF DeleteLocked, StoreAndSort
  <2> QED BY <2>1, <2>2 DEF Lasting, Found, StoreOK
<1>2. CASE ~Found(rules, m)
  BY <1>2, FilesUnchanged DEF DeleteLocked, store, Lasting, Found
<1> QED BY <1>1, <1>2

\* What a step must respect to keep FileOK: a lasting rule that appears is being saved or
\* removed, who saves or deletes goes on, and what is read is read from a file.
LEMMA FileFrame ==
  ASSUME WatchOK, NEW n \in Names, FileOK(n), FileNoticed(n),
         Gone(n)' /\ Lasting(n)' => Lasting(n) \/ RemoveQueued(n)' \/ Deleting(n)' \/ Saving(n)',
         Lasting(n)' /\ Deleting(n) => Deleting(n)',
         Gone(n)' /\ Saving(n) => Saving(n)',
         Gone(n)' /\ Loading("live", n)' => Loading("live", n),
         Gone(n)' /\ Loading("ntf", n)' => Loading("ntf", n)
  PROVE  FileOK(n)'
<1>1. watching => ~Loading("ntf", n)
  BY DEF WatchOK, Loading
<1>2. FileOK(n)' <=> (Gone(n)' =>
         /\ Lasting(n)' => RemoveQueued(n)' \/ Deleting(n)' \/ Saving(n)'
         /\ Loading("live", n)' => RemoveQueued(n)'
         /\ ~Loading("ntf", n)')
  BY DEF FileOK
<1> QED BY <1>1, <1>2 DEF FileOK, FileNoticed

\* The case of a step of a process that leaves the rules alone and neither loads nor
\* deletes, before or after.
LEMMA FileFrameProc ==
  ASSUME ProcsOK, FileInv, FilesKept, NEW p \in {"asker", "ntf"}, UNCHANGED rules,
         pc[p] \notin {"truncate", "write"}, NEW l \in Labels \ {"load"},
         pc' = [pc EXCEPT ![p] = l], NEW j, job' = [job EXCEPT ![p] = j]
  PROVE  \A n \in Names : FileOK(n)'
<1> SUFFICES ASSUME NEW n \in Names PROVE FileOK(n)'
  OBVIOUS
<1>1. \A q \in Procs : q # p => pc'[q] = pc[q] /\ job'[q] = job[q]
  BY DEF ProcsOK
<1>2. pc'[p] = l /\ p \in Procs /\ p # "live" /\ "live" \in Procs /\ "ntf" \in Procs
  BY DEF ProcsOK, Procs
<1>3. Lasting(n)' => Lasting(n)
  BY DEF Lasting, Found
<1>4. Deleting(n) => Deleting(n)'
  BY <1>1, <1>2 DEF Deleting
<1>5. Saving(n) => Saving(n)'
  BY <1>1 DEF Saving, Procs
<1>6. Loading("live", n)' => Loading("live", n)
  BY <1>1, <1>2 DEF Loading
<1>7. Loading("ntf", n)' => Loading("ntf", n)
  <2>1. CASE p = "ntf"
    BY <1>2, <2>1 DEF Loading
  <2>2. CASE p # "ntf"
    BY <1>1, <1>2, <2>2 DEF Loading
  <2> QED BY <2>1, <2>2
<1> QED BY <1>3, <1>4, <1>5, <1>6, <1>7, FileFrame DEF FileInv, FilesKept
\* The files of an operation that adds or replaces a rule.
LEMMA UserStepFiles ==
  ASSUME IndInv, FileInv, NEW p \in {"asker", "ntf"}, UserStep(p)
  PROVE  FilesKept /\ \A n \in Names : FileOK(n)'
<1>0. StoreOK /\ FilesOK /\ ProcsOK /\ FilesNamed /\ p \in Procs
  BY IndInvParts DEF FileInv, Procs
<1>a. job[p] \in JobType /\ job = [job EXCEPT ![p] = job[p]]
  BY <1>0 DEF ProcsOK
<1>1. CASE LookupOld(p)
  <2>1. FilesKept /\ UNCHANGED rules /\ pc[p] = "lookup"
    BY <1>0, <1>1, FilesUnchanged DEF LookupOld, store
  <2>2. pc' = [pc EXCEPT ![p] = "clean"]
        /\ job' = [job EXCEPT ![p] = [job[p] EXCEPT !.old = rules[job[p].rule.name]]]
    BY <1>0, <1>1 DEF LookupOld, Goto, ProcsOK
  <2> QED BY <1>0, <2>1, <2>2, FileFrameProc DEF Labels
<1>2. CASE CleanAndCompile(p)
  <2>1. job[p].rule \in Rule /\ job[p].old \in RuleOrNone
    BY <1>0, <1>2 DEF CleanAndCompile, ProcsOK, JobOK, JobType
  <2>2. FilesKept /\ UNCHANGED rules /\ pc[p] = "clean"
    BY <1>0, <1>2, <2>1, DeleteOldNoticed DEF CleanAndCompile, store
  <2>3. \E l \in Labels \ {"load"} : \E j :
          pc' = [pc EXCEPT ![p] = l] /\ job' = [job EXCEPT ![p] = j]
    BY <1>a, <1>2 DEF CleanAndCompile, Goto, Done, Labels
  <2> QED BY <1>0, <2>2, <2>3, FileFrameProc
<1>3. CASE StoreRule(p)
  <2> DEFINE r == job[p].rule
  <2>1. r \in Rule /\ r.name \in Names
    BY <1>0, <1>3 DEF StoreRule, ProcsOK, JobOK, Rule
  <2>2. rules' = [rules EXCEPT ![r.name] = r] /\ FilesKept
    BY <1>0, <1>3, FilesUnchanged DEF StoreRule, StoreAndSort
  <2>3. \A q \in Procs : q # p => pc'[q] = pc[q] /\ job'[q] = job[q]
    BY <1>0, <1>3 DEF StoreRule, Goto, Done, ProcsOK
  <2>4. pc[p] = "store" /\ pc'[p] # "load"
    BY <1>0, <1>3 DEF StoreRule, Goto, Done, ProcsOK
  <2>5. r.dur = "always" => pc'[p] = "truncate" /\ job'[p] = job[p]
    BY <1>0, <1>3 DEF StoreRule, Goto, Done, ProcsOK, isTemporary
  <2>6. ASSUME NEW n \in Names PROVE FileOK(n)'
    <3>1. Lasting(n)' => Lasting(n) \/ Saving(n)'
      <4>1. CASE n = r.name
        BY <1>0, <2>1, <2>2, <2>5, <4>1 DEF Lasting, Saving, StoreOK
      <4>2. CASE n # r.name
        BY <1>0, <2>1, <2>2, <4>2 DEF Lasting, Found, StoreOK
      <4> QED BY <4>1, <4>2
    <3>2. (Deleting(n) => Deleting(n)') /\ (Saving(n) => Saving(n)')
      BY <2>3, <2>4 DEF Deleting, Saving, Procs
    <3>3. \A q \in {"live", "ntf"} : Loading(q, n)' => Loading(q, n)
      BY <2>3, <2>4 DEF Loading, Procs
    <3> QED BY <2>2, <3>1, <3>2, <3>3, FileFrame DEF FileInv, FilesKept
  <2> QED BY <2>2, <2>6
<1>4. CASE ScheduleRule(p)
  <2>1. FilesKept /\ UNCHANGED rules /\ pc[p] = "schedule"
    BY <1>0, <1>4, FilesUnchanged DEF ScheduleRule, store
  <2>2. pc' = [pc EXCEPT ![p] = "idle"] /\ job' = [job EXCEPT ![p] = NoJob]
    BY <1>4 DEF ScheduleRule, Done
  <2> QED BY <1>0, <2>1, <2>2, FileFrameProc DEF Labels
<1>5. CASE SaveTruncate(p)
  <2>1. job[p].rule \in Rule /\ job[p].rule.name \in Names
    BY <1>0, <1>5 DEF SaveTruncate, ProcsOK, JobOK, Rule
  <2>2. FilesKept /\ UNCHANGED rules
    BY <1>0, <1>5, <2>1, WriteFileNoticed, NoRuleAssumption DEF SaveTruncate, store
  <2>3. \A q \in Procs : job'[q] = job[q] /\ (q # p => pc'[q] = pc[q])
    BY <1>0, <1>5 DEF SaveTruncate, Goto, ProcsOK
  <2>4. pc[p] = "truncate" /\ pc'[p] = "write"
    BY <1>0, <1>5 DEF SaveTruncate, Goto, ProcsOK
  <2>5. ASSUME NEW n \in Names PROVE FileOK(n)'
    <3>1. Lasting(n)' => Lasting(n)
      BY <2>2 DEF Lasting, Found
    <3>2. (Deleting(n) => Deleting(n)') /\ (Saving(n) => Saving(n)')
      BY <2>3, <2>4 DEF Deleting, Saving, Procs
    <3>3. \A q \in {"live", "ntf"} : Loading(q, n)' => Loading(q, n)
      BY <2>3, <2>4 DEF Loading, Procs
    <3> QED BY <2>2, <3>1, <3>2, <3>3, FileFrame DEF FileInv, FilesKept
  <2> QED BY <2>2, <2>5
<1>6. CASE SaveWrite(p)
  <2>1. job[p].rule \in Rule /\ job[p].rule.name \in Names
    BY <1>0, <1>6 DEF SaveWrite, ProcsOK, JobOK, Rule
  <2>2. FilesKept /\ UNCHANGED rules
    BY <1>0, <1>6, <2>1, WriteFileNoticed DEF SaveWrite, store
  <2>a. \A n \in Names : n = job[p].rule.name => ~Gone(n)'
    BY <1>0, <1>6, <2>1, WriteFileNoticed DEF SaveWrite
  <2>3. \A q \in Procs : q # p => pc'[q] = pc[q] /\ job'[q] = job[q]
    BY <1>0, <1>6 DEF SaveWrite, Done, ProcsOK
  <2>4. pc[p] = "write" /\ pc'[p] = "idle"
    BY <1>0, <1>6 DEF SaveWrite, Done, ProcsOK
  <2>5. ASSUME NEW n \in Names PROVE FileOK(n)'
    <3>1. Lasting(n)' => Lasting(n)
      BY <2>2 DEF Lasting, Found
    <3>2. Deleting(n) => Deleting(n)'
      BY <2>3, <2>4 DEF Deleting, Procs
    <3>3. Gone(n)' /\ Saving(n) => Saving(n)'
      BY <2>a, <2>3 DEF Saving, Procs
    <3>4. \A q \in {"live", "ntf"} : Loading(q, n)' => Loading(q, n)
      BY <2>3, <2>4 DEF Loading, Procs
    <3> QED BY <2>2, <3>1, <3>2, <3>3, <3>4, FileFrame DEF FileInv, FilesKept
  <2> QED BY <2>2, <2>5
<1> QED BY <1>1, <1>2, <1>3, <1>4, <1>5, <1>6 DEF UserStep

\* loadRule stores what it has read: when the file is gone since, the worker hears of it.
LEMMA LoadRuleFiles ==
  ASSUME IndInv, FileInv, NEW p \in {"ntf", "live"}, LoadRule(p)
  PROVE  FilesKept /\ \A n \in Names : FileOK(n)'
<1> DEFINE r == job[p].rule
<1>0. StoreOK /\ FilesOK /\ ProcsOK /\ FilesNamed
  BY IndInvParts DEF FileInv
<1>1. r \in Rule \cup {Garbage} /\ pc[p] = "load" /\ pc'[p] # "load"
  BY <1>0 DEF LoadRule, Goto, Done, ProcsOK, JobOK, Procs
<1>2. \A q \in Procs : q # p => pc'[q] = pc[q] /\ job'[q] = job[q]
  BY <1>0 DEF LoadRule, Goto, Done, ProcsOK
<1>3. /\ FilesKept
      /\ \A n \in Names : Lasting(n)' =>
           \/ Lasting(n)
           \/ Loading(p, n) /\ UNCHANGED files
  <2>1. CASE r = Garbage \/ CompileFails(r)
    BY <1>0, <2>1, FilesUnchanged DEF LoadRule, store, Lasting, Found
  <2>2. CASE ~(r = Garbage \/ CompileFails(r))
    <3>1. r \in Rule /\ r.name \in Names /\ rules[r.name] \in RuleOrNone
      BY <1>0, <1>1, <2>2 DEF Rule, StoreOK
    <3>2. /\ deleteOldRuleFromDisk(rules[r.name], r)
          /\ rules' = [rules EXCEPT ![r.name] = r]
      BY <2>2 DEF LoadRule, StoreAndSort
    <3>3. r.dur = "always" => UNCHANGED files
      BY <3>2 DEF deleteOldRuleFromDisk
    <3>4. \A n \in Names : Lasting(n)' => Lasting(n) \/ (n = r.name /\ r.dur = "always")
      BY <1>0, <3>1, <3>2 DEF Lasting, Found, StoreOK
    <3> QED BY <1>0, <1>1, <3>1, <3>2, <3>3, <3>4, DeleteOldNoticed DEF Loading
  <2> QED BY <2>1, <2>2
<1>4. ASSUME NEW n \in Names PROVE FileOK(n)'
  <2>1. Gone(n)' /\ Lasting(n)' => Lasting(n) \/ RemoveQueued(n)'
    <3> SUFFICES ASSUME Gone(n)', Loading(p, n), UNCHANGED files PROVE RemoveQueued(n)'
      BY <1>3
    <3>1. Gone(n)
      BY DEF Gone, files
    <3>2. RemoveQueued(n)
      BY <3>1 DEF FileInv, FileOK
    <3> QED BY <3>2 DEF RemoveQueued, files
  <2>2. Deleting(n) => Deleting(n)'
    BY <1>1, <1>2 DEF Deleting, Procs
  <2>3. Saving(n) => Saving(n)'
    BY <1>1, <1>2 DEF Saving, Procs
  <2>4. \A q \in {"live", "ntf"} : Loading(q, n)' => Loading(q, n)
    BY <1>1, <1>2 DEF Loading, Procs
  <2> QED BY <1>3, <2>1, <2>2, <2>3, <2>4, FileFrame DEF FileInv, FilesKept
<1> QED BY <1>3, <1>4

\* Reload forgets every rule, and stores only what it finds in the files.
LEMMA ReloadFiles ==
  ASSUME IndInv, FileInv,
         ReloadBegin \/ ReloadClear \/ LoadGlob \/ LoadCount \/ LoadMakeMap \/ LoadNext \/ LoadEnd
  PROVE  FilesNamed' /\ \A n \in Names : FileOK(n)'
<1>0. FilesOK /\ ProcsOK /\ FilesNamed /\ "ntf" \in Procs /\ "live" \in Procs
  BY IndInvParts DEF FileInv, Procs
<1>1. CASE ReloadBegin
  <2>1. PICK k \in 0..Len(events) :
          /\ events' = SubSeq(events, 1, k)
          /\ missed' = missed \cup {events[i].file : i \in (k + 1)..Len(events)}
    BY <1>1 DEF ReloadBegin
  <2>2. UNCHANGED <<rules, disk, job>> /\ pc["ntf"] = "idle"
        /\ pc' = [pc EXCEPT !["ntf"] = "clear"] /\ job' = [job EXCEPT !["ntf"] = job["ntf"]]
    BY <1>0, <1>1 DEF ReloadBegin, Goto, store, ProcsOK
  <2>3. ASSUME NEW n \in Names PROVE FileNoticed(n)
    <3> SUFFICES ASSUME Gone(n)' PROVE Gone(n) /\ (RemoveQueued(n) => RemoveQueued(n)')
      BY DEF FileNoticed
    <3>1. Gone(n)
      BY <2>1, <2>2 DEF Gone
    <3>2. ASSUME NEW i \in 1..Len(events), events[i] = [op |-> "Remove", file |-> n]
          PROVE  RemoveQueued(n)'
      <4>1. events[i].file = n
        BY <3>2
      <4>2. i \notin (k + 1)..Len(events)
        BY <2>1, <4>1 DEF Gone
      <4>3. i \in 1..k /\ Len(events') = k /\ events'[i] = events[i]
        BY <1>0, <2>1, <4>2 DEF FilesOK
      <4> QED BY <3>2, <4>3 DEF RemoveQueued
    <3> QED BY <3>1, <3>2 DEF RemoveQueued
  <2>4. FilesKept
    BY <1>0, <2>2, <2>3 DEF FilesKept, FilesNamed
  <2> QED BY <1>0, <2>2, <2>4, FileFrameProc DEF Labels, FilesKept
<1>2. CASE ReloadClear
  <2>1. UNCHANGED disk /\ rules' = EmptyRules
        /\ pc["ntf"] = "clear" /\ pc' = [pc EXCEPT !["ntf"] = "glob"]
    BY <1>2 DEF ReloadClear, Goto
  <2>2. pc'["live"] # "load" /\ pc'["ntf"] # "load"
    BY <1>0, <2>1 DEF FileInv, WatchOK, ProcsOK, RestOK
  <2>3. \A n \in Names : ~Lasting(n)' /\ ~Loading("live", n)' /\ ~Loading("ntf", n)'
    BY <2>1, <2>2 DEF Lasting, Found, EmptyRules, Loading
  <2> QED BY <1>0, <2>1, <2>3 DEF FilesNamed, FileOK
<1>3. CASE LoadGlob
  <2>1. FilesKept /\ UNCHANGED rules /\ pc["ntf"] = "glob"
    BY <1>0, <1>3, FilesUnchanged DEF LoadGlob, store
  <2>2. pc' = [pc EXCEPT !["ntf"] = "count"]
        /\ job' = [job EXCEPT !["ntf"] =
                     [job["ntf"] EXCEPT !.todo = {n \in Names : disk[n] # NoRule}]]
    BY <1>0, <1>3 DEF LoadGlob, Goto, ProcsOK
  <2> QED BY <1>0, <2>1, <2>2, FileFrameProc DEF Labels, FilesKept
<1>6. CASE LoadCount
  <2>1. FilesKept /\ UNCHANGED <<rules, job>> /\ pc["ntf"] = "count"
    BY <1>0, <1>6, FilesUnchanged DEF LoadCount, store
  <2>2. PICK l \in {"make", "next"} : pc' = [pc EXCEPT !["ntf"] = l]
    BY <1>6 DEF LoadCount, Goto
  <2>3. job' = [job EXCEPT !["ntf"] = job["ntf"]]
    BY <1>0, <2>1 DEF ProcsOK
  <2> QED BY <1>0, <2>1, <2>2, <2>3, FileFrameProc DEF Labels, FilesKept
<1>7. CASE LoadMakeMap
  <2>1. UNCHANGED disk /\ rules' = EmptyRules /\ UNCHANGED job
        /\ pc["ntf"] = "make" /\ pc' = [pc EXCEPT !["ntf"] = "next"]
    BY <1>7 DEF LoadMakeMap, Goto, files
  <2>2. pc'["live"] # "load" /\ pc'["ntf"] # "load"
    BY <1>0, <2>1 DEF FileInv, WatchOK, ProcsOK, RestOK
  <2>3. \A n \in Names : ~Lasting(n)' /\ ~Loading("live", n)' /\ ~Loading("ntf", n)'
    BY <2>1, <2>2 DEF Lasting, Found, EmptyRules, Loading
  <2> QED BY <1>0, <2>1, <2>3 DEF FilesNamed, FileOK
<1>4. CASE LoadNext
  <2>1. FilesKept /\ UNCHANGED rules /\ UNCHANGED disk /\ pc["ntf"] = "next"
    BY <1>0, <1>4, FilesUnchanged DEF LoadNext, store, files
  <2>2. PICK m \in job["ntf"].todo :
          /\ job' = [job EXCEPT !["ntf"] = [NoJob EXCEPT !.rule = disk[m],
                                                      !.todo = job["ntf"].todo \ {m}]]
          /\ IF disk[m] = NoRule THEN UNCHANGED pc ELSE Goto("ntf", "load")
    BY <1>4 DEF LoadNext
  <2>3. m \in Names
    BY <1>0, <2>2 DEF ProcsOK, JobType
  <2>4. /\ \A q \in Procs : q # "ntf" => pc'[q] = pc[q] /\ job'[q] = job[q]
        /\ job'["ntf"].rule = disk[m]
        /\ pc'["ntf"] = IF disk[m] = NoRule THEN "next" ELSE "load"
    BY <1>0, <2>1, <2>2 DEF ProcsOK, Goto, NoJob
  <2>5. ASSUME NEW n \in Names PROVE FileOK(n)'
    <3>1. Lasting(n)' => Lasting(n)
      BY <2>1 DEF Lasting, Found
    <3>2. (Deleting(n) => Deleting(n)') /\ (Saving(n) => Saving(n)')
      BY <2>1, <2>4 DEF Deleting, Saving, Procs
    <3>3. Loading("live", n)' => Loading("live", n)
      BY <1>0, <2>4 DEF Loading
    <3>4. ~(Gone(n)' /\ Loading("ntf", n)')
      BY <1>0, <2>1, <2>3, <2>4 DEF Gone, Loading, FilesNamed
    <3> QED BY <2>1, <3>1, <3>2, <3>3, <3>4, FileFrame DEF FileInv, FilesKept
  <2> QED BY <2>1, <2>5 DEF FilesKept
<1>5. CASE LoadEnd
  <2>1. FilesKept /\ UNCHANGED rules /\ pc["ntf"] = "next"
    BY <1>0, <1>5, FilesUnchanged DEF LoadEnd, store
  <2>2. pc' = [pc EXCEPT !["ntf"] = "idle"] /\ job' = [job EXCEPT !["ntf"] = NoJob]
    BY <1>5 DEF LoadEnd, Done
  <2> QED BY <1>0, <2>1, <2>2, FileFrameProc DEF Labels, FilesKept
<1> QED BY <1>1, <1>2, <1>3, <1>4, <1>5, <1>6, <1>7
\* The live reload worker and the timers.
LEMMA BackgroundFiles ==
  ASSUME IndInv, FileInv, WorkerWriteEvent \/ WorkerRemoveEvent \/ WorkerDelete \/ Fire
  PROVE  FilesNamed' /\ \A n \in Names : FileOK(n)'
<1>0. StoreOK /\ FilesOK /\ ProcsOK /\ FilesNamed /\ "ntf" \in Procs /\ "live" \in Procs
  BY IndInvParts DEF FileInv, Procs
<1>a. ASSUME events # <<>>
      PROVE  /\ Head(events) = events[1] /\ Head(events).file \in Names
             /\ Len(events) \in Nat /\ Len(Tail(events)) = Len(events) - 1
             /\ \A i \in 1..Len(events) - 1 : Tail(events)[i] = events[i + 1]
  <2>1. events \in Seq(Event) /\ Head(events) \in Event
    BY <1>0, <1>a DEF FilesOK
  <2>2. Head(events).file \in Names
    BY <2>1 DEF Event
  <2> QED BY <1>a, <2>1, <2>2
<1>b. ASSUME events # <<>>, events' = Tail(events), NEW n \in Names,
             Head(events) # [op |-> "Remove", file |-> n], RemoveQueued(n)
      PROVE  RemoveQueued(n)'
  <2>1. PICK i \in 1..Len(events) : events[i] = [op |-> "Remove", file |-> n]
    BY <1>b DEF RemoveQueued
  <2>2. i - 1 \in 1..Len(Tail(events)) /\ Tail(events)[i - 1] = events[i]
    BY <1>a, <1>b, <2>1
  <2> QED BY <1>b, <2>1, <2>2 DEF RemoveQueued
<1>1. CASE WorkerWriteEvent
  <2> DEFINE m == Head(events).file
  <2>1. /\ events # <<>> /\ events' = Tail(events) /\ Head(events).op = "Write"
        /\ UNCHANGED <<rules, disk, missed>> /\ pc["live"] = "idle" /\ m \in Names
    BY <1>1, <1>a DEF WorkerWriteEvent, store
  <2>2. /\ \A q \in Procs : q # "live" => pc'[q] = pc[q] /\ job'[q] = job[q]
        /\ pc'["live"] = IF disk[m] = NoRule THEN "idle" ELSE "load"
        /\ disk[m] # NoRule => job'["live"].rule = disk[m]
    BY <1>0, <1>1 DEF WorkerWriteEvent, ReadRuleFile, Goto, procs, ProcsOK, JobType
  <2>3. ASSUME NEW n \in Names, RemoveQueued(n) PROVE RemoveQueued(n)'
    <3>1. Head(events) # [op |-> "Remove", file |-> n]
      BY <2>1
    <3> QED BY <1>b, <2>1, <2>3, <3>1
  <2>4. FilesKept
    BY <1>0, <2>1, <2>3 DEF FilesKept, FilesNamed, FileNoticed, Gone
  <2>5. ASSUME NEW n \in Names PROVE FileOK(n)'
    <3>1. Lasting(n)' => Lasting(n)
      BY <2>1 DEF Lasting, Found
    <3>2. (Deleting(n) => Deleting(n)') /\ (Saving(n) => Saving(n)')
      BY <2>1, <2>2 DEF Deleting, Saving, Procs
    <3>3. Loading("ntf", n)' => Loading("ntf", n)
      BY <1>0, <2>2 DEF Loading
    <3>4. ~(Gone(n)' /\ Loading("live", n)')
      BY <1>0, <2>1, <2>2 DEF Gone, Loading, FilesNamed
    <3> QED BY <2>4, <3>1, <3>2, <3>3, <3>4, FileFrame DEF FileInv, FilesKept
  <2> QED BY <2>4, <2>5 DEF FilesKept
<1>2. CASE WorkerRemoveEvent
  <2> DEFINE m == Head(events).file
  <2>1. /\ events # <<>> /\ events' = Tail(events) /\ Head(events).op = "Remove"
        /\ UNCHANGED <<rules, disk, missed>> /\ pc["live"] = "idle" /\ m \in Names /\ watching
    BY <1>2, <1>a DEF WorkerRemoveEvent, store
  <2>2. /\ \A q \in Procs : q # "live" => pc'[q] = pc[q] /\ job'[q] = job[q]
        /\ pc'["live"] # "load"
        /\ Lasting(m) => pc'["live"] = "delete" /\ m \in job'["live"].todo
    BY <1>0, <1>2 DEF WorkerRemoveEvent, Goto, procs, ProcsOK, JobType, Lasting
  <2>3. ASSUME NEW n \in Names, n # m, RemoveQueued(n) PROVE RemoveQueued(n)'
    <3>1. Head(events) # [op |-> "Remove", file |-> n]
      BY <2>3
    <3> QED BY <1>b, <2>1, <2>3, <3>1
  <2>4. FilesNamed'
    BY <1>0, <2>1 DEF FilesNamed
  <2>5. ASSUME NEW n \in Names PROVE FileOK(n)'
    <3>1. Lasting(n)' => Lasting(n)
      BY <2>1 DEF Lasting, Found
    <3>2. Saving(n) => Saving(n)'
      BY <2>2 DEF Saving, Procs
    <3>3. ~Deleting(n) /\ ~Loading("live", n)'
      BY <2>1, <2>2 DEF Deleting, Loading
    <3>4. ~Loading("ntf", n)'
      BY <1>0, <2>1, <2>2 DEF FileInv, WatchOK, Loading
    <3>5. CASE n = m
      BY <2>2, <3>1, <3>3, <3>4, <3>5 DEF FileOK, Deleting
    <3>6. CASE n # m
      <4>1. Gone(n)' => Gone(n)
        BY <2>1 DEF Gone
      <4>2. FileNoticed(n)
        BY <2>3, <3>6, <4>1 DEF FileNoticed
      <4> QED BY <3>1, <3>2, <3>3, <3>4, <4>2, FileFrame DEF FileInv
    <3> QED BY <3>5, <3>6
  <2> QED BY <2>4, <2>5
<1>3. CASE WorkerDelete
  <2>1. PICK m \in Names : job["live"].todo = {m}
    BY <1>3 DEF WorkerDelete, FileInv, WatchOK
  <2>2. DeleteLocked(m)
    BY <1>3, <2>1 DEF WorkerDelete
  <2>3. FilesKept /\ ~Lasting(m)' /\ \A n \in Names : Lasting(n)' => Lasting(n)
    BY <1>0, <2>2, DeleteLockedNoticed
  <2>4. /\ \A q \in Procs : q # "live" => pc'[q] = pc[q] /\ job'[q] = job[q]
        /\ pc'["live"] = "idle"
    BY <1>0, <1>3 DEF WorkerDelete, Done, ProcsOK
  <2>5. ASSUME NEW n \in Names PROVE FileOK(n)'
    <3>1. Deleting(n) => n = m
      BY <2>1 DEF Deleting
    <3>2. Saving(n) => Saving(n)'
      BY <2>4 DEF Saving, Procs
    <3>3. \A q \in {"live", "ntf"} : Loading(q, n)' => Loading(q, n)
      BY <2>4 DEF Loading, Procs
    <3> QED BY <2>3, <3>1, <3>2, <3>3, FileFrame DEF FileInv, FilesKept
  <2> QED BY <2>3, <2>5 DEF FilesKept
<1>4. ASSUME NEW m \in Names, NEW d \in TempDurations, TimerFires(m, d)
      PROVE  FilesNamed' /\ \A n \in Names : FileOK(n)'
  <2>1. UNCHANGED <<pc, job>> /\ FilesKept
    BY <1>0, <1>4, FilesUnchanged DEF TimerFires, procs
  <2>2. \A n \in Names : Lasting(n)' => Lasting(n)
    BY <1>0, <1>4 DEF TimerFires, StoreAndSort, store, StoreOK, Lasting, Found
  <2>3. ASSUME NEW n \in Names PROVE FileOK(n)'
    <3>1. /\ Deleting(n)' = Deleting(n) /\ Saving(n)' = Saving(n)
          /\ Loading("live", n)' = Loading("live", n) /\ Loading("ntf", n)' = Loading("ntf", n)
      BY <2>1 DEF Deleting, Saving, Loading
    <3> QED BY <2>1, <2>2, <3>1, FileFrame DEF FileInv, FilesKept
  <2> QED BY <2>1, <2>3 DEF FilesKept
<1> QED BY <1>1, <1>2, <1>3, <1>4 DEF Fire

\* What the user and the administrator begin, but for Reload.
LEMMA InputFiles ==
  ASSUME IndInv, FileInv, Input, ~ReloadBegin
  PROVE  FilesNamed' /\ \A n \in Names : FileOK(n)'
<1>0. StoreOK /\ FilesOK /\ ProcsOK /\ FilesNamed
  BY IndInvParts DEF FileInv
<1>1. ASSUME UNCHANGED <<pc, job>>, FilesKept, \A n \in Names : Lasting(n)' => Lasting(n)
      PROVE  FilesNamed' /\ \A n \in Names : FileOK(n)'
  <2>1. ASSUME NEW n \in Names PROVE FileOK(n)'
    <3>1. /\ Deleting(n)' = Deleting(n) /\ Saving(n)' = Saving(n)
          /\ Loading("live", n)' = Loading("live", n) /\ Loading("ntf", n)' = Loading("ntf", n)
      BY <1>1 DEF Deleting, Saving, Loading
    <3> QED BY <1>1, <3>1, FileFrame DEF FileInv, FilesKept
  <2> QED BY <1>1, <2>1 DEF FilesKept
<1>2. ASSUME UNCHANGED store PROVE \A n \in Names : Lasting(n)' => Lasting(n)
  BY <1>2 DEF store, Lasting, Found
<1>3. ASSUME NEW r \in UserRules, AddBegin(r)
      PROVE  FilesNamed' /\ \A n \in Names : FileOK(n)'
  <2>1. FilesKept /\ UNCHANGED store /\ pc["asker"] = "idle"
    BY <1>0, <1>3, FilesUnchanged DEF AddBegin
  <2>2. CASE UNCHANGED procs
    BY <1>1, <1>2, <2>1, <2>2 DEF procs
  <2>3. CASE \E m \in Names :
               /\ job' = [job EXCEPT !["asker"] = [NoJob EXCEPT !.rule = [r EXCEPT !.name = m]]]
               /\ Goto("asker", "lookup")
    BY <1>0, <2>1, <2>3, FileFrameProc DEF Goto, store, Labels, FilesKept
  <2> QED BY <1>3, <2>2, <2>3 DEF AddBegin
<1>4. ASSUME NEW r \in UserRules, ReplaceBegin(r)
      PROVE  FilesNamed' /\ \A n \in Names : FileOK(n)'
  <2>1. FilesKept /\ UNCHANGED store /\ pc["ntf"] = "idle"
    BY <1>0, <1>4, FilesUnchanged DEF ReplaceBegin
  <2>2. /\ pc' = [pc EXCEPT !["ntf"] = "lookup"]
        /\ job' = [job EXCEPT !["ntf"] = [NoJob EXCEPT !.rule = r]]
    BY <1>4 DEF ReplaceBegin, Goto
  <2> QED BY <1>0, <2>1, <2>2, FileFrameProc DEF store, Labels, FilesKept
<1>5. ASSUME NEW m \in Names, DeleteRule(m)
      PROVE  FilesNamed' /\ \A n \in Names : FileOK(n)'
  BY <1>0, <1>1, <1>5, DeleteLockedNoticed DEF DeleteRule, procs
<1>6. ASSUME NEW m \in Names, AdminRemoves(m)
      PROVE  FilesNamed' /\ \A n \in Names : FileOK(n)'
  BY <1>0, <1>1, <1>2, <1>6, RemoveFileNoticed DEF AdminRemoves, procs
<1>7. ASSUME NEW m \in Names, NEW c \in FileContents, AdminWrites(m, c)
      PROVE  FilesNamed' /\ \A n \in Names : FileOK(n)'
  <2>1. c \in Rule \cup {Garbage} /\ (c \in Rule => c.name = m)
    BY <1>7, InputAssumption, NoRuleAssumption DEF AdminWrites
  <2> QED BY <1>0, <1>1, <1>2, <1>7, <2>1, WriteFileNoticed DEF AdminWrites, procs
<1> QED BY <1>3, <1>4, <1>5, <1>6, <1>7 DEF Input

\* Whoever watches, and whom it disturbs.
LEMMA WatchStep == IndInv /\ WatchOK /\ [Next]_vars => WatchOK'
<1> SUFFICES ASSUME IndInv, WatchOK, [Next]_vars PROVE WatchOK'
  OBVIOUS
<1>0. FilesOK /\ ProcsOK /\ "ntf" \in Procs /\ "live" \in Procs
  BY IndInvParts DEF Procs
<1>1. ASSUME NEW p \in {"asker", "ntf"}, UserStep(p) PROVE WatchOK'
  <2>1. UNCHANGED watching /\ \A q \in Procs : q # p => pc'[q] = pc[q] /\ job'[q] = job[q]
    BY <1>0, <1>1 DEF UserStep, LookupOld, CleanAndCompile, StoreRule, ScheduleRule, SaveTruncate,
                      SaveWrite, Goto, Done, ProcsOK
  <2>2. pc'[p] \notin {"clear", "glob", "count", "make", "next", "load"}
    BY <1>0, <1>1 DEF UserStep, LookupOld, CleanAndCompile, StoreRule, ScheduleRule, SaveTruncate,
                      SaveWrite, Goto, Done, ProcsOK, Procs
  <2> QED BY <1>0, <2>1, <2>2 DEF WatchOK
<1>2. CASE ReloadStep \/ ReloadBegin
  <2>1. \/ UNCHANGED watching /\ pc["ntf"] \in {"clear", "glob", "count", "make", "next", "load"}
        \/ watching' = FALSE /\ pc["live"] = "idle"
        \/ watching' = TRUE /\ pc'["ntf"] = "idle"
    BY <1>0, <1>2 DEF ReloadStep, ReloadBegin, ReloadClear, LoadGlob, LoadCount, LoadMakeMap,
                      LoadNext, LoadRule, LoadEnd, Done, ProcsOK
  <2>2. pc'["live"] = pc["live"] /\ job'["live"] = job["live"]
    BY <1>0, <1>2 DEF ReloadStep, ReloadBegin, ReloadClear, LoadGlob, LoadCount, LoadMakeMap,
                      LoadNext, LoadRule, LoadEnd, Goto, Done, ProcsOK
  <2> QED BY <2>1, <2>2 DEF WatchOK
<1>3. CASE LiveStep
  <2>1. UNCHANGED watching /\ pc'["ntf"] = pc["ntf"]
    BY <1>0, <1>3 DEF LiveStep, WorkerWriteEvent, WorkerRemoveEvent, WorkerDelete, LoadRule,
                      Goto, Done, procs, ProcsOK
  <2>2. watching
    BY <1>3 DEF LiveStep, WorkerWriteEvent, WorkerRemoveEvent, WorkerDelete, LoadRule, WatchOK
  <2>3. pc'["live"] = "delete" => \E n \in Names : job'["live"].todo = {n}
    <3>1. CASE WorkerRemoveEvent
      <4>1. Head(events) \in Event
        BY <1>0, <3>1 DEF WorkerRemoveEvent, FilesOK
      <4>2. Head(events).file \in Names
        BY <4>1 DEF Event
      <4>3. pc["live"] = "idle" /\ (job' = [job EXCEPT !["live"].todo = {Head(events).file}]
                                     \/ UNCHANGED pc)
        BY <3>1 DEF WorkerRemoveEvent, procs
      <4>4. job["live"] \in JobType
        BY <1>0 DEF ProcsOK
      <4> QED BY <1>0, <4>2, <4>3, <4>4 DEF ProcsOK, JobType
    <3>2. CASE ~WorkerRemoveEvent
      <4>1. pc'["live"] # "delete"
        BY <1>0, <1>3, <3>2 DEF LiveStep, WorkerWriteEvent, WorkerDelete, LoadRule, Goto, Done,
                                procs, ProcsOK
      <4> QED BY <4>1
    <3> QED BY <3>1, <3>2
  <2> QED BY <2>1, <2>2, <2>3 DEF WatchOK
<1>4. CASE Input /\ ~ReloadBegin
  <2>1. UNCHANGED watching /\ pc'["live"] = pc["live"] /\ job'["live"] = job["live"]
        /\ pc'["ntf"] \in {pc["ntf"], "lookup"}
    BY <1>0, <1>4 DEF Input, AddBegin, ReplaceBegin, DeleteRule, AdminRemoves, AdminWrites, Goto,
                      procs, ProcsOK
  <2> QED BY <2>1 DEF WatchOK
<1>5. CASE Fire \/ UNCHANGED vars
  BY <1>5 DEF Fire, TimerFires, vars, procs, WatchOK
<1> QED BY <1>1, <1>2, <1>3, <1>4, <1>5 DEF Next, System

\* At rest a lasting rule has its file and survives a restart, except for files that
\* changed while Reload was not watching: whatever Add, Replace, loadRule, Delete, the
\* live reload worker and an administrator remove, they agree in the end.
THEOREM LastingRulesHaveFiles == Spec => []AlwaysRuleHasFile
<1>1. Init => FileInv
  <2> SUFFICES ASSUME Init PROVE FileInv
    OBVIOUS
  <2>1. disk \in Files /\ FilesNamed
    BY InputAssumption DEF Init, FilesNamed
  <2>2. \A p \in Procs : pc[p] = "idle"
    BY DEF Init
  <2>3. WatchOK
    BY <2>2 DEF Init, WatchOK, Procs
  <2>4. ASSUME NEW n \in Names PROVE FileOK(n)
    <3>1. Lasting(n) => disk[n] # NoRule
      BY DEF Init, InitRules, Lasting, Found
    <3>2. ~Loading("live", n) /\ ~Loading("ntf", n)
      BY <2>2 DEF Loading, Procs
    <3> QED BY <3>1, <3>2 DEF FileOK, Gone
  <2> QED BY <2>1, <2>3, <2>4 DEF FileInv
<1>2. IndInv /\ FileInv /\ [Next]_vars => FileInv'
  <2> SUFFICES ASSUME IndInv, FileInv, [Next]_vars PROVE FileInv'
    OBVIOUS
  <2>1. WatchOK'
    BY WatchStep DEF FileInv
  <2> DEFINE Kept == FilesNamed' /\ \A n \in Names : FileOK(n)'
  <2>2. ASSUME UserStep("asker") \/ UserStep("ntf") PROVE Kept
    BY <2>2, UserStepFiles DEF FilesKept
  <2>3. ASSUME LoadRule("ntf") \/ LoadRule("live") PROVE Kept
    BY <2>3, LoadRuleFiles DEF FilesKept
  <2>4. ASSUME \/ ReloadBegin \/ ReloadClear \/ LoadGlob \/ LoadCount \/ LoadMakeMap
               \/ LoadNext \/ LoadEnd
        PROVE  Kept
    BY <2>4, ReloadFiles
  <2>5. ASSUME WorkerWriteEvent \/ WorkerRemoveEvent \/ WorkerDelete \/ Fire PROVE Kept
    BY <2>5, BackgroundFiles
  <2>6. ASSUME Input, ~ReloadBegin PROVE Kept
    BY <2>6, InputFiles
  <2>7. ASSUME UNCHANGED vars PROVE Kept
    <3>1. UNCHANGED <<rules, disk, events, missed, pc, job>>
      BY <2>7 DEF vars, store, files, procs
    <3> QED BY <3>1 DEF FileInv, FilesNamed, FileOK, Gone, Lasting, Found, RemoveQueued, Deleting,
                        Saving, Loading
  <2>8. Kept
    BY <2>2, <2>3, <2>4, <2>5, <2>6, <2>7 DEF Next, System, ReloadStep, LiveStep
  <2> QED BY <2>1, <2>8 DEF FileInv
<1>3. FileInv => AlwaysRuleHasFile
  <2> SUFFICES ASSUME FileInv, Quiet, NEW n \in Names \ missed, Lasting(n) PROVE disk[n] # NoRule
    BY DEF AlwaysRuleHasFile, Lasting
  <2>1. ~RemoveQueued(n) /\ ~Deleting(n) /\ ~Saving(n)
    BY DEF Quiet, RemoveQueued, Deleting, Saving, Procs
  <2> QED BY <2>1 DEF FileInv, FileOK, Gone
<1>4. Spec => []IndInv
  BY InitType, StepType, PTL DEF Spec
<1> QED BY <1>1, <1>2, <1>3, <1>4, PTL DEF Spec
-----------------------------------------------------------------------------
(* The live reload worker does not feed itself *)

\* How much a process may still do from where it is.
Stage(l) ==
  CASE l = "idle"  -> 0  [] l = "schedule" -> 1  [] l = "next" -> 1   [] l = "delete" -> 1
    [] l = "load"  -> 2  [] l = "write"    -> 7  [] l = "truncate" -> 14
    [] l = "store" -> 15 [] l = "clean"    -> 16 [] l = "lookup" -> 17
    [] l = "make"  -> 2  [] l = "count"    -> 3
    [] l = "glob"  -> 2 * NumNames + 4           [] l = "clear" -> 2 * NumNames + 5

Existing == {n \in Names : disk[n] # NoRule}

\* A file on disk weighs as much as the event that removing it would queue, and an event
\* more than what the worker does about it.
FilesWork == 3 * Cardinality(Existing) + 3 * Len(events)

TodoWork == 2 * Cardinality(job["ntf"].todo)

ProcsWork == Stage(pc["asker"]) + Stage(pc["ntf"]) + Stage(pc["live"])

Work == FilesWork + TodoWork + ProcsWork

\* Every step of a goroutine of the daemon leaves less to do, and a timer leaves as much:
\* loadRule and Delete remove files, which queues events, which make the worker load and
\* delete again, but only so many times.
WorkShrinks ==
    [][/\ Work \in Nat
       /\ UserStep("asker") \/ UserStep("ntf") \/ ReloadStep \/ LiveStep => Work' < Work
       /\ Fire => Work' = Work]_vars

\* The parts of the invariant that the weights rest on, after a step.
LEMMA IndInvAfter == IndInv' => FilesOK' /\ ProcsOK'
  BY DEF IndInv, TypeOK, FilesOK, ProcsOK, JobType, Labels, RuleOrNone

\* The weights of the labels are natural numbers.
LEMMA StageType == \A l \in Labels : Stage(l) \in Nat
  BY NamesAssumption DEF Stage, Labels

\* There are finitely many names, so a set of them can be counted.
LEMMA SetsOfNames ==
  ASSUME NEW S \in SUBSET Names
  PROVE  IsFiniteSet(S) /\ Cardinality(S) \in 0..NumNames
<1>1. NumNames \in Int /\ NumNames >= 0
  BY NamesAssumption
<1>2. IsFiniteSet(Names) /\ Cardinality(Names) = NumNames
  BY <1>1, FS_Interval DEF Names
<1>3. IsFiniteSet(S) /\ Cardinality(S) <= NumNames
  BY <1>2, FS_Subset
<1> QED BY <1>1, <1>3, FS_CardinalityType

\* What is on disk and in the queue has a weight.
LEMMA FilesWorkType == FilesOK => FilesWork \in Nat /\ Len(events) \in Nat
<1> SUFFICES ASSUME FilesOK PROVE FilesWork \in Nat /\ Len(events) \in Nat
  OBVIOUS
<1>1. Len(events) \in Nat
  BY DEF FilesOK
<1>2. Cardinality(Existing) \in Nat
  BY SetsOfNames, NamesAssumption DEF Existing
<1> QED BY <1>1, <1>2 DEF FilesWork

\* The files in memory, on disk and in the queue are as they were.
LEMMA FilesWorkUnchanged == UNCHANGED <<disk, events>> => FilesWork' = FilesWork
  BY DEF FilesWork, Existing

\* At most one event is queued for a change.
LEMMA NotifyQueuesOne ==
  ASSUME FilesOK, NEW e \in Event, Notify(e)
  PROVE  Len(events') \in Len(events)..(Len(events) + 1)
<1>1. Len(events) \in Nat /\ Len(Append(events, e)) = Len(events) + 1
  BY DEF FilesOK
<1>2. events' = events \/ events' = Append(events, e)
  BY DEF Notify
<1> QED BY <1>1, <1>2

\* Removing a file makes no more to do.
LEMMA RemoveFileWork ==
  ASSUME FilesOK, NEW n \in Names, RemoveFile(n)
  PROVE  FilesWork' <= FilesWork
<1>1. CASE disk[n] = NoRule
  BY <1>1, FilesWorkUnchanged, FilesWorkType DEF RemoveFile, files
<1>2. CASE disk[n] # NoRule
  <2>1. n \in Existing /\ Existing' = Existing \ {n}
    BY <1>2 DEF RemoveFile, FilesOK, Files, Existing
  <2>2. IsFiniteSet(Existing) /\ Cardinality(Existing) \in Nat
    BY SetsOfNames, NamesAssumption DEF Existing
  <2>3. Cardinality(Existing') = Cardinality(Existing) - 1
    BY <2>1, <2>2, FS_RemoveElement
  <2>4. Len(events') \in Len(events)..(Len(events) + 1) /\ Len(events) \in Nat
    BY <1>2, NotifyQueuesOne, FilesWorkType DEF RemoveFile, Event
  <2> HIDE DEF Existing
  <2> QED BY <2>2, <2>3, <2>4 DEF FilesWork
<1> QED BY <1>1, <1>2

\* Writing a file makes at most one file and one event more.
LEMMA WriteFileWork ==
  ASSUME FilesOK, NEW n \in Names, NEW c \in Rule \cup {Garbage}, WriteFile(n, c)
  PROVE  FilesWork' <= FilesWork + 6
<1>1. c # NoRule
  BY NoRuleAssumption
<1>2. Existing' = Existing \cup {n}
  BY <1>1 DEF WriteFile, FilesOK, Files, Existing
<1>3. IsFiniteSet(Existing) /\ Cardinality(Existing) \in Nat
  BY SetsOfNames, NamesAssumption DEF Existing
<1>4. Cardinality(Existing') \in Nat /\ Cardinality(Existing') <= Cardinality(Existing) + 1
  BY <1>2, <1>3, FS_AddElement
<1>5. Len(events') \in Len(events)..(Len(events) + 1) /\ Len(events) \in Nat
  <2>1. Len(events) \in Nat
    BY FilesWorkType
  <2>2. CASE UNCHANGED events
    BY <2>1, <2>2
  <2>3. CASE Notify([op |-> "Write", file |-> n])
    BY <2>1, <2>3, NotifyQueuesOne DEF Event
  <2> QED BY <2>2, <2>3 DEF WriteFile
<1> HIDE DEF Existing
<1> QED BY <1>3, <1>4, <1>5, SMTT(30) DEF FilesWork

\* Deleting the file of a rule that lasts always no more makes no more to do.
LEMMA DeleteOldWork ==
  ASSUME FilesOK, NEW old \in RuleOrNone, NEW new \in Rule, deleteOldRuleFromDisk(old, new)
  PROVE  FilesWork' <= FilesWork
<1>1. CASE old # NoRule /\ old.dur = "always" /\ new.dur # "always"
  <2>1. old.name \in Names
    BY <1>1 DEF RuleOrNone, Rule
  <2> QED BY <1>1, <2>1, RemoveFileWork DEF deleteOldRuleFromDisk
<1>2. CASE UNCHANGED files
  BY <1>2, FilesWorkUnchanged, FilesWorkType DEF files
<1> QED BY <1>1, <1>2 DEF deleteOldRuleFromDisk

\* Nor does Loader.Delete.
LEMMA DeleteLockedWork ==
  ASSUME FilesOK, NEW n \in Names, DeleteLocked(n)
  PROVE  FilesWork' <= FilesWork
<1>1. CASE RemoveFile(n)
  BY <1>1, RemoveFileWork
<1>2. CASE UNCHANGED files
  BY <1>2, FilesWorkUnchanged, FilesWorkType DEF files
<1> QED BY <1>1, <1>2 DEF DeleteLocked, files

\* A process that goes from one label to another.
LEMMA MoveWork ==
  ASSUME ProcsOK, NEW p \in Procs, NEW l \in Labels, pc' = [pc EXCEPT ![p] = l]
  PROVE  /\ ProcsWork \in Nat /\ ProcsWork' \in Nat
         /\ Stage(pc[p]) \in Nat /\ Stage(l) \in Nat
         /\ ProcsWork' = ProcsWork - Stage(pc[p]) + Stage(l)
<1>1. \A q \in Procs : pc[q] \in Labels /\ Stage(pc[q]) \in Nat
  BY StageType DEF ProcsOK
<1>2. Stage(l) \in Nat
  BY StageType
<1>3. "asker" \in Procs /\ "ntf" \in Procs /\ "live" \in Procs
  BY DEF Procs
<1>4. \A q \in Procs : pc'[q] = IF q = p THEN l ELSE pc[q]
  BY DEF ProcsOK
<1>5. CASE p = "asker"
  <2>1. pc'["asker"] = l /\ pc'["ntf"] = pc["ntf"] /\ pc'["live"] = pc["live"]
    BY <1>3, <1>4, <1>5
  <2> QED BY <1>1, <1>2, <1>3, <1>5, <2>1 DEF ProcsWork
<1>6. CASE p = "ntf"
  <2>1. pc'["asker"] = pc["asker"] /\ pc'["ntf"] = l /\ pc'["live"] = pc["live"]
    BY <1>3, <1>4, <1>6
  <2> QED BY <1>1, <1>2, <1>3, <1>6, <2>1 DEF ProcsWork
<1>7. CASE p = "live"
  <2>1. pc'["asker"] = pc["asker"] /\ pc'["ntf"] = pc["ntf"] /\ pc'["live"] = l
    BY <1>3, <1>4, <1>7
  <2> QED BY <1>1, <1>2, <1>3, <1>7, <2>1 DEF ProcsWork
<1> QED BY <1>5, <1>6, <1>7 DEF Procs

\* Files to load are counted.
LEMMA TodoWorkType == ProcsOK => TodoWork \in Nat
<1> SUFFICES ASSUME ProcsOK PROVE TodoWork \in Nat
  OBVIOUS
<1>1. job["ntf"].todo \in SUBSET Names
  BY DEF ProcsOK, Procs, JobType
<1> QED BY <1>1, SetsOfNames, NamesAssumption DEF TodoWork

WeightsOK == FilesWork \in Nat /\ TodoWork \in Nat

\* Before and after a step the weights are natural numbers.
LEMMA WeightsType ==
  /\ FilesOK /\ ProcsOK => WeightsOK
  /\ FilesOK' /\ ProcsOK' => WeightsOK'
<1>1. FilesOK /\ ProcsOK => WeightsOK
  BY FilesWorkType, TodoWorkType DEF WeightsOK
<1> QED BY <1>1, PTL

\* A process that is done, or keeps its files to load, has no more of them.
LEMMA TodoWorkKept ==
  ASSUME ProcsOK, NEW p \in Procs,
         \/ Done(p)
         \/ job'["ntf"].todo = job["ntf"].todo
  PROVE  TodoWork' <= TodoWork
<1>1. TodoWork \in Nat
  BY TodoWorkType
<1>2. CASE job'["ntf"].todo = job["ntf"].todo
  BY <1>1, <1>2 DEF TodoWork
<1>3. CASE Done(p)
  <2>1. job'["ntf"] = NoJob \/ job'["ntf"] = job["ntf"]
    BY <1>3 DEF Done, ProcsOK, Procs
  <2>2. CASE job'["ntf"] = NoJob
    <3>1. TodoWork' = 0
      BY <2>2, FS_EmptySet DEF TodoWork, NoJob
    <3> QED BY <1>1, <3>1
  <2> QED BY <1>1, <2>1, <2>2 DEF TodoWork
<1> QED BY <1>2, <1>3

\* The sum goes down when the process gains more than the rest loses.
LEMMA Shrinks ==
  ASSUME FilesOK, ProcsOK, FilesOK', ProcsOK',
         NEW p \in Procs, NEW l \in Labels, pc' = [pc EXCEPT ![p] = l],
         FilesWork' + TodoWork' + Stage(l) < FilesWork + TodoWork + Stage(pc[p])
  PROVE  Work' < Work
<1>1. FilesWork \in Nat /\ FilesWork' \in Nat /\ TodoWork \in Nat /\ TodoWork' \in Nat
  BY WeightsType DEF WeightsOK
<1>2. /\ ProcsWork \in Nat /\ ProcsWork' \in Nat
      /\ Stage(pc[p]) \in Nat /\ Stage(l) \in Nat
      /\ ProcsWork' = ProcsWork - Stage(pc[p]) + Stage(l)
  BY MoveWork
<1> QED BY <1>1, <1>2 DEF Work

\* Adding and replacing a rule.
LEMMA UserStepShrinks ==
  ASSUME IndInv, NEW p \in Procs, UserStep(p)
  PROVE  Work' < Work
<1>0. FilesOK /\ ProcsOK /\ StoreOK /\ FilesOK' /\ ProcsOK'
  BY UserStepType, IndInvParts, IndInvAfter
<1>1. FilesWork \in Nat /\ FilesWork' \in Nat /\ TodoWork \in Nat /\ TodoWork' \in Nat
  BY <1>0, WeightsType DEF WeightsOK
<1>2. job[p].rule \in Rule /\ job[p].rule.name \in Names /\ job[p].old \in RuleOrNone
  BY <1>0 DEF UserStep, LookupOld, CleanAndCompile, StoreRule, ScheduleRule, SaveTruncate, SaveWrite,
              ProcsOK, JobOK, JobType, Rule
<1>3. CASE LookupOld(p)
  <2>1. FilesWork' = FilesWork
    BY <1>3, FilesWorkUnchanged DEF LookupOld, files
  <2>2. TodoWork' <= TodoWork
    <3>1. job'["ntf"].todo = job["ntf"].todo
      BY <1>0, <1>3 DEF LookupOld, ProcsOK, Procs, JobType
    <3> QED BY <1>0, <3>1, TodoWorkKept
  <2>3. pc[p] = "lookup" /\ pc' = [pc EXCEPT ![p] = "clean"]
    BY <1>3 DEF LookupOld, Goto
  <2>4. Stage("clean") = 16 /\ Stage("lookup") = 17 /\ "clean" \in Labels
    BY DEF Stage, Labels
  <2>9. FilesWork' + TodoWork' + Stage("clean") < FilesWork + TodoWork + Stage(pc[p])
    BY <1>1, <2>1, <2>2, <2>3, <2>4
  <2> QED BY <1>0, <2>1, <2>2, <2>3, <2>4, <2>9, Shrinks
<1>4. CASE CleanAndCompile(p)
  <2>1. FilesWork' <= FilesWork
    BY <1>0, <1>2, <1>4, DeleteOldWork DEF CleanAndCompile
  <2>2. TodoWork' <= TodoWork
    BY <1>0, <1>4, TodoWorkKept DEF CleanAndCompile
  <2>3. PICK l \in {"store", "truncate", "idle"} : pc' = [pc EXCEPT ![p] = l]
    BY <1>4 DEF CleanAndCompile, Goto, Done
  <2>4. Stage(l) <= 15 /\ Stage(l) \in Nat /\ Stage("clean") = 16 /\ l \in Labels
    <3>1. Stage("store") = 15 /\ Stage("truncate") = 14 /\ Stage("idle") = 0 /\ Stage("clean") = 16
      BY DEF Stage
    <3> QED BY <3>1 DEF Labels
  <2>5. pc[p] = "clean"
    BY <1>4 DEF CleanAndCompile
  <2>9. FilesWork' + TodoWork' + Stage(l) < FilesWork + TodoWork + Stage(pc[p])
    BY <1>1, <2>1, <2>2, <2>3, <2>4, <2>5
  <2> QED BY <1>0, <2>1, <2>2, <2>3, <2>4, <2>5, <2>9, Shrinks
<1>5. CASE StoreRule(p)
  <2>1. FilesWork' = FilesWork
    BY <1>5, FilesWorkUnchanged DEF StoreRule, files
  <2>2. TodoWork' <= TodoWork
    BY <1>0, <1>5, TodoWorkKept DEF StoreRule
  <2>3. PICK l \in {"schedule", "truncate", "idle"} : pc' = [pc EXCEPT ![p] = l]
    BY <1>5 DEF StoreRule, Goto, Done
  <2>4. Stage(l) <= 14 /\ Stage(l) \in Nat /\ Stage("store") = 15 /\ l \in Labels
    <3>1. /\ Stage("schedule") = 1 /\ Stage("truncate") = 14 /\ Stage("idle") = 0
          /\ Stage("store") = 15
      BY DEF Stage
    <3> QED BY <3>1 DEF Labels
  <2>5. pc[p] = "store"
    BY <1>5 DEF StoreRule
  <2>9. FilesWork' + TodoWork' + Stage(l) < FilesWork + TodoWork + Stage(pc[p])
    BY <1>1, <2>1, <2>2, <2>3, <2>4, <2>5
  <2> QED BY <1>0, <2>1, <2>2, <2>3, <2>4, <2>5, <2>9, Shrinks
<1>6. CASE ScheduleRule(p)
  <2>1. FilesWork' = FilesWork
    BY <1>6, FilesWorkUnchanged DEF ScheduleRule, files
  <2>2. TodoWork' <= TodoWork
    BY <1>0, <1>6, TodoWorkKept DEF ScheduleRule
  <2>3. pc[p] = "schedule" /\ pc' = [pc EXCEPT ![p] = "idle"]
    BY <1>6 DEF ScheduleRule, Done
  <2>4. Stage("schedule") = 1 /\ Stage("idle") = 0 /\ "idle" \in Labels
    BY DEF Stage, Labels
  <2>9. FilesWork' + TodoWork' + Stage("idle") < FilesWork + TodoWork + Stage(pc[p])
    BY <1>1, <2>1, <2>2, <2>3, <2>4
  <2> QED BY <1>0, <2>1, <2>2, <2>3, <2>4, <2>9, Shrinks
<1>7. CASE SaveTruncate(p)
  <2>1. FilesWork' <= FilesWork + 6
    BY <1>0, <1>2, <1>7, WriteFileWork DEF SaveTruncate
  <2>2. TodoWork' <= TodoWork
    BY <1>0, <1>7, TodoWorkKept DEF SaveTruncate
  <2>3. pc[p] = "truncate" /\ pc' = [pc EXCEPT ![p] = "write"]
    BY <1>7 DEF SaveTruncate, Goto
  <2>4. Stage("truncate") = 14 /\ Stage("write") = 7 /\ "write" \in Labels
    BY DEF Stage, Labels
  <2>9. FilesWork' + TodoWork' + Stage("write") < FilesWork + TodoWork + Stage(pc[p])
    BY <1>1, <2>1, <2>2, <2>3, <2>4
  <2> QED BY <1>0, <2>1, <2>2, <2>3, <2>4, <2>9, Shrinks
<1>8. CASE SaveWrite(p)
  <2>1. FilesWork' <= FilesWork + 6
    BY <1>0, <1>2, <1>8, WriteFileWork DEF SaveWrite
  <2>2. TodoWork' <= TodoWork
    BY <1>0, <1>8, TodoWorkKept DEF SaveWrite
  <2>3. pc[p] = "write" /\ pc' = [pc EXCEPT ![p] = "idle"]
    BY <1>8 DEF SaveWrite, Done
  <2>4. Stage("write") = 7 /\ Stage("idle") = 0 /\ "idle" \in Labels
    BY DEF Stage, Labels
  <2>9. FilesWork' + TodoWork' + Stage("idle") < FilesWork + TodoWork + Stage(pc[p])
    BY <1>1, <2>1, <2>2, <2>3, <2>4
  <2> QED BY <1>0, <2>1, <2>2, <2>3, <2>4, <2>9, Shrinks
<1> QED BY <1>3, <1>4, <1>5, <1>6, <1>7, <1>8 DEF UserStep

\* Loading a file, by Reload or by the worker.
LEMMA LoadRuleShrinks ==
  ASSUME IndInv, NEW p \in {"ntf", "live"}, LoadRule(p), FilesOK', ProcsOK'
  PROVE  Work' < Work
<1>0. FilesOK /\ ProcsOK /\ StoreOK /\ p \in Procs
  BY IndInvParts DEF Procs
<1>1. FilesWork \in Nat /\ FilesWork' \in Nat /\ TodoWork \in Nat /\ TodoWork' \in Nat
  BY <1>0, WeightsType DEF WeightsOK
<1>2. job[p].rule \in Rule \cup {Garbage}
  BY <1>0 DEF LoadRule, ProcsOK, JobOK
<1>3. FilesWork' <= FilesWork
  <2>1. CASE UNCHANGED files
    BY <1>1, <2>1, FilesWorkUnchanged DEF files
  <2>2. CASE job[p].rule # Garbage /\ deleteOldRuleFromDisk(rules[job[p].rule.name], job[p].rule)
    <3>1. job[p].rule \in Rule /\ rules[job[p].rule.name] \in RuleOrNone
      BY <1>0, <1>2, <2>2 DEF StoreOK, Rule
    <3> QED BY <1>0, <2>2, <3>1, DeleteOldWork
  <2> QED BY <2>1, <2>2 DEF LoadRule, files
<1>4. TodoWork' <= TodoWork
  <2>1. CASE Done(p)
    BY <1>0, <2>1, TodoWorkKept
  <2>2. CASE p = "ntf" /\ job' = [job EXCEPT ![p].rule = NoRule]
    <3>1. job'["ntf"].todo = job["ntf"].todo
      BY <1>0, <2>2 DEF ProcsOK, Procs, JobType
    <3> QED BY <1>0, <3>1, TodoWorkKept
  <2> QED BY <2>1, <2>2 DEF LoadRule
<1>5. PICK l \in {"next", "idle"} : pc' = [pc EXCEPT ![p] = l]
  BY DEF LoadRule, Goto, Done
<1>6. Stage(l) <= 1 /\ Stage(l) \in Nat /\ Stage("load") = 2 /\ l \in Labels
  <2>1. Stage("next") = 1 /\ Stage("idle") = 0 /\ Stage("load") = 2
    BY DEF Stage
  <2> QED BY <2>1 DEF Labels
<1>7. pc[p] = "load"
  BY DEF LoadRule
<1>8. FilesWork' + TodoWork' + Stage(l) < FilesWork + TodoWork + Stage(pc[p])
  BY <1>1, <1>3, <1>4, <1>5, <1>6, <1>7
<1> QED BY <1>0, <1>3, <1>4, <1>5, <1>6, <1>7, <1>8, Shrinks

\* Reload, after it has begun.
LEMMA ReloadStepShrinks ==
  ASSUME IndInv, ReloadStep
  PROVE  Work' < Work
<1>0. FilesOK /\ ProcsOK /\ StoreOK /\ FilesOK' /\ ProcsOK' /\ "ntf" \in Procs
  BY ReloadStepType, IndInvParts, IndInvAfter DEF Procs
<1>1. FilesWork \in Nat /\ FilesWork' \in Nat /\ TodoWork \in Nat /\ TodoWork' \in Nat
  BY <1>0, WeightsType DEF WeightsOK
<1>2. NumNames \in Nat /\ job["ntf"] \in JobType
  BY <1>0, NamesAssumption DEF ProcsOK
<1>3. CASE ReloadClear
  <2>1. FilesWork' = FilesWork /\ TodoWork' = TodoWork
    BY <1>3, FilesWorkUnchanged DEF ReloadClear, TodoWork
  <2>2. pc["ntf"] = "clear" /\ pc' = [pc EXCEPT !["ntf"] = "glob"]
    BY <1>3 DEF ReloadClear, Goto
  <2>3. Stage("clear") = 2 * NumNames + 5 /\ Stage("glob") = 2 * NumNames + 4 /\ "glob" \in Labels
    BY DEF Stage, Labels
  <2>9. FilesWork' + TodoWork' + Stage("glob") < FilesWork + TodoWork + Stage(pc["ntf"])
    BY <1>1, <1>2, <2>1, <2>2, <2>3
  <2> QED BY <1>0, <1>2, <2>1, <2>2, <2>3, <2>9, Shrinks
<1>4. CASE LoadGlob
  <2>1. FilesWork' = FilesWork
    BY <1>4, FilesWorkUnchanged DEF LoadGlob, files
  <2>2. TodoWork' <= 2 * NumNames
    <3>1. job'["ntf"].todo \in SUBSET Names
      BY <1>0 DEF ProcsOK, JobType
    <3>2. Cardinality(job'["ntf"].todo) \in 0..NumNames
      BY <3>1, SetsOfNames
    <3> QED BY <1>2, <3>2 DEF TodoWork
  <2>3. pc["ntf"] = "glob" /\ pc' = [pc EXCEPT !["ntf"] = "count"]
    BY <1>4 DEF LoadGlob, Goto
  <2>4. Stage("glob") = 2 * NumNames + 4 /\ Stage("count") = 3 /\ "count" \in Labels
    BY DEF Stage, Labels
  <2>9. FilesWork' + TodoWork' + Stage("count") < FilesWork + TodoWork + Stage(pc["ntf"])
    BY <1>1, <1>2, <2>1, <2>2, <2>3, <2>4
  <2> QED BY <1>0, <1>2, <2>1, <2>2, <2>3, <2>4, <2>9, Shrinks
<1>8. CASE LoadCount \/ LoadMakeMap
  <2>1. FilesWork' = FilesWork /\ TodoWork' = TodoWork
    BY <1>8, FilesWorkUnchanged DEF LoadCount, LoadMakeMap, files, TodoWork
  <2>2. PICK l \in {"make", "next"} : pc' = [pc EXCEPT !["ntf"] = l] /\ Stage(l) < Stage(pc["ntf"])
    BY <1>8 DEF LoadCount, LoadMakeMap, Goto, Stage
  <2>3. l \in Labels /\ Stage(l) \in Nat /\ Stage(pc["ntf"]) \in Nat
    BY <1>0, StageType DEF ProcsOK, Labels
  <2>9. FilesWork' + TodoWork' + Stage(l) < FilesWork + TodoWork + Stage(pc["ntf"])
    BY <1>1, <2>1, <2>2, <2>3
  <2> QED BY <1>0, <2>1, <2>2, <2>3, <2>9, Shrinks
<1>5. CASE LoadNext
  <2>1. FilesWork' = FilesWork
    BY <1>5, FilesWorkUnchanged DEF LoadNext, files
  <2>2. TodoWork' = TodoWork - 2
    <3>1. PICK n \in job["ntf"].todo : job'["ntf"].todo = job["ntf"].todo \ {n}
      <4>1. PICK n \in job["ntf"].todo :
              job' = [job EXCEPT !["ntf"] = [NoJob EXCEPT !.rule = disk[n],
                                                          !.todo = job["ntf"].todo \ {n}]]
        BY <1>5 DEF LoadNext
      <4>2. job'["ntf"].todo = job["ntf"].todo \ {n}
        BY <1>0, <4>1 DEF ProcsOK, NoJob
      <4> QED BY <4>2
    <3>2. IsFiniteSet(job["ntf"].todo) /\ Cardinality(job["ntf"].todo) \in Nat
      BY <1>2, SetsOfNames DEF JobType
    <3>3. Cardinality(job'["ntf"].todo) = Cardinality(job["ntf"].todo) - 1
      BY <3>1, <3>2, FS_RemoveElement
    <3> QED BY <3>2, <3>3 DEF TodoWork
  <2>3. pc["ntf"] = "next"
    BY <1>5 DEF LoadNext
  <2>4. PICK l \in {"next", "load"} : pc' = [pc EXCEPT !["ntf"] = l]
    BY <1>0, <1>5 DEF LoadNext, Goto, ProcsOK
  <2>5. Stage(l) <= 2 /\ Stage(l) \in Nat /\ Stage("next") = 1 /\ l \in Labels
    <3>1. Stage("next") = 1 /\ Stage("load") = 2
      BY DEF Stage
    <3> QED BY <3>1 DEF Labels
  <2>9. FilesWork' + TodoWork' + Stage(l) < FilesWork + TodoWork + Stage(pc["ntf"])
    BY <1>1, <2>1, <2>2, <2>3, <2>4, <2>5
  <2> QED BY <1>0, <2>1, <2>2, <2>3, <2>4, <2>5, <2>9, Shrinks
<1>6. CASE LoadRule("ntf")
  BY <1>0, <1>6, LoadRuleShrinks
<1>7. CASE LoadEnd
  <2>1. FilesWork' = FilesWork
    BY <1>7, FilesWorkUnchanged DEF LoadEnd, files
  <2>2. TodoWork' <= TodoWork
    BY <1>0, <1>7, TodoWorkKept DEF LoadEnd
  <2>3. pc["ntf"] = "next" /\ pc' = [pc EXCEPT !["ntf"] = "idle"]
    BY <1>7 DEF LoadEnd, Done
  <2>4. Stage("next") = 1 /\ Stage("idle") = 0 /\ "idle" \in Labels
    BY DEF Stage, Labels
  <2>9. FilesWork' + TodoWork' + Stage("idle") < FilesWork + TodoWork + Stage(pc["ntf"])
    BY <1>1, <2>1, <2>2, <2>3, <2>4
  <2> QED BY <1>0, <2>1, <2>2, <2>3, <2>4, <2>9, Shrinks
<1> QED BY <1>3, <1>4, <1>5, <1>6, <1>7, <1>8 DEF ReloadStep

\* The live reload worker: the event it takes weighs more than what it does about it.
LEMMA LiveStepShrinks ==
  ASSUME IndInv, LiveStep, IndInv'
  PROVE  Work' < Work
<1>0. FilesOK /\ ProcsOK /\ StoreOK /\ FilesOK' /\ ProcsOK' /\ "live" \in Procs
  BY IndInvParts, IndInvAfter DEF Procs
<1>1. FilesWork \in Nat /\ FilesWork' \in Nat /\ TodoWork \in Nat /\ TodoWork' \in Nat
  BY <1>0, WeightsType DEF WeightsOK
<1>2. CASE WorkerWriteEvent \/ WorkerRemoveEvent
  <2>1. FilesWork' = FilesWork - 3
    <3>1. events # <<>> /\ events' = Tail(events) /\ UNCHANGED disk
      BY <1>2 DEF WorkerWriteEvent, WorkerRemoveEvent
    <3>2. Len(events') = Len(events) - 1 /\ Len(events) \in Nat
      BY <1>0, <3>1 DEF FilesOK
    <3>3. Existing' = Existing /\ Cardinality(Existing) \in Nat
      BY <3>1, SetsOfNames, NamesAssumption DEF Existing
    <3> HIDE DEF Existing
    <3> QED BY <3>2, <3>3 DEF FilesWork
  <2>2. TodoWork' <= TodoWork
    <3>1. job'["ntf"].todo = job["ntf"].todo
      BY <1>0, <1>2 DEF WorkerWriteEvent, WorkerRemoveEvent, ReadRuleFile, ProcsOK, Procs, procs
    <3> QED BY <1>0, <3>1, TodoWorkKept
  <2>3. pc["live"] = "idle"
    BY <1>2 DEF WorkerWriteEvent, WorkerRemoveEvent
  <2>4. PICK l \in {"load", "delete", "idle"} : pc' = [pc EXCEPT !["live"] = l]
    BY <1>0, <1>2, <2>3 DEF WorkerWriteEvent, WorkerRemoveEvent, Goto, ProcsOK, procs
  <2>5. Stage(l) <= 2 /\ Stage(l) \in Nat /\ Stage("idle") = 0 /\ l \in Labels
    <3>1. Stage("load") = 2 /\ Stage("delete") = 1 /\ Stage("idle") = 0
      BY DEF Stage
    <3> QED BY <3>1 DEF Labels
  <2>9. FilesWork' + TodoWork' + Stage(l) < FilesWork + TodoWork + Stage(pc["live"])
    BY <1>1, <2>1, <2>2, <2>3, <2>4, <2>5
  <2> QED BY <1>0, <2>1, <2>2, <2>3, <2>4, <2>5, <2>9, Shrinks
<1>3. CASE WorkerDelete
  <2>1. FilesWork' <= FilesWork
    <3>1. PICK n \in job["live"].todo : DeleteLocked(n)
      BY <1>3 DEF WorkerDelete
    <3>2. n \in Names
      BY <1>0, <3>1 DEF ProcsOK, JobType
    <3> QED BY <1>0, <3>1, <3>2, DeleteLockedWork
  <2>2. TodoWork' <= TodoWork
    BY <1>0, <1>3, TodoWorkKept DEF WorkerDelete
  <2>3. pc["live"] = "delete" /\ pc' = [pc EXCEPT !["live"] = "idle"]
    BY <1>3 DEF WorkerDelete, Done
  <2>4. Stage("delete") = 1 /\ Stage("idle") = 0 /\ "idle" \in Labels
    BY DEF Stage, Labels
  <2>9. FilesWork' + TodoWork' + Stage("idle") < FilesWork + TodoWork + Stage(pc["live"])
    BY <1>1, <2>1, <2>2, <2>3, <2>4
  <2> QED BY <1>0, <2>1, <2>2, <2>3, <2>4, <2>9, Shrinks
<1>4. CASE LoadRule("live")
  BY <1>0, <1>4, LoadRuleShrinks
<1> QED BY <1>2, <1>3, <1>4 DEF LiveStep

\* Once the user and the administrator stop, the daemon can take only so many steps before
\* it comes to rest: the live reload worker does not feed itself (loader.go:482-515).
THEOREM LiveReloadDoesNotFeedItself == Spec => WorkShrinks
<1>1. IndInv /\ [Next]_vars =>
        [/\ Work \in Nat
         /\ UserStep("asker") \/ UserStep("ntf") \/ ReloadStep \/ LiveStep => Work' < Work
         /\ Fire => Work' = Work]_vars
  <2> SUFFICES ASSUME IndInv, Next, IndInv'
               PROVE  /\ Work \in Nat
                      /\ UserStep("asker") \/ UserStep("ntf") \/ ReloadStep \/ LiveStep
                           => Work' < Work
                      /\ Fire => Work' = Work
    BY StepType
  <2>1. Work \in Nat
    <3>1. FilesOK /\ ProcsOK
      BY IndInvParts
    <3>2. FilesWork \in Nat /\ TodoWork \in Nat
      BY <3>1, WeightsType DEF WeightsOK
    <3>3. \A p \in Procs : Stage(pc[p]) \in Nat
      BY <3>1, StageType DEF ProcsOK
    <3>4. ProcsWork \in Nat
      BY <3>3 DEF ProcsWork, Procs
    <3> QED BY <3>2, <3>4 DEF Work
  <2>2. UserStep("asker") \/ UserStep("ntf") => Work' < Work
    BY UserStepShrinks DEF Procs
  <2>3. Fire => Work' = Work
    BY DEF Fire, TimerFires, files, procs, Work, FilesWork, Existing, TodoWork, ProcsWork
  <2> QED BY <2>1, <2>2, <2>3, ReloadStepShrinks, LiveStepShrinks
<1>2. Spec => []IndInv
  BY InitType, StepType, PTL DEF Spec
<1> QED BY <1>1, <1>2, PTL DEF Spec, WorkShrinks
=============================================================================
