------------------------ MODULE FindFirstMatch_proofs ------------------------
(***************************************************************************)
(* FindFirstMatch returns what the reference picks from one list of rules, *)
(* and implements the atomic RuleLookup, for any number of packet workers, *)
(* names and connections and whatever lists are published meanwhile.       *)
(***************************************************************************)
EXTENDS FindFirstMatch, Integers, TLAPS

IndInv == TypeOK /\ WalkOK

\* The matches that the loop of r has passed.
Seen(r) == {n \in Matching(snapshot[r], con[r], hasChecksums[r]) : n < next[r]}

\* The loop invariant of one reader.
LoopOK(r) ==
    pc[r] = "walking" =>
      /\ \A n \in Seen(r) : ~Decides(snapshot[r][n])
      /\ \/ Seen(r) = {} /\ match[r] = NoRule
         \/ \E n \in Seen(r) : match[r] = snapshot[r][n] /\ \A m \in Seen(r) : m <= n

\* The invariant, reader by reader.
LEMMA WalkOKByReader == WalkOK <=> \A r \in Readers : LoopOK(r)
  BY DEF WalkOK, LoopOK, Seen

\* The same after a step.
LEMMA WalkOKByReaderPrime == WalkOK' <=> \A r \in Readers : LoopOK(r)'
  BY DEF WalkOK, LoopOK, Seen

\* Names are natural numbers.
LEMMA NamesAreNumbers == Names \subseteq Nat /\ NumNames \in Nat
  BY NumNamesAssumption DEF Names

\* Every step keeps the types.
LEMMA TypeStep == TypeOK /\ [Next]_vars => TypeOK'
<1> SUFFICES ASSUME TypeOK, [Next]_vars PROVE TypeOK'
  OBVIOUS
<1> USE DEF TypeOK
<1>1. CASE sortRules \/ EnableChecksums
  BY <1>1 DEF sortRules, EnableChecksums, locals
<1>2. ASSUME NEW r \in Readers, NEW c \in Conns, LoadSnapshot(r, c) PROVE TypeOK'
  BY <1>2, PublishedAssumption DEF LoadSnapshot
<1>3. ASSUME NEW r \in Readers, LoadChecksums(r) PROVE TypeOK'
  BY <1>3, NumNamesAssumption DEF LoadChecksums
<1>4. ASSUME NEW r \in Readers, Walk(r) PROVE TypeOK'
  <2>1. next[r] \in Names /\ snapshot[r][next[r]] \in Rule \cup {NoRule}
    BY <1>4 DEF Walk, RuleList
  <2>2. next[r] + 1 \in 1..(NumNames + 1)
    BY <2>1, NumNamesAssumption DEF Names
  <2> QED BY <1>4, <2>1, <2>2 DEF Walk, Return
<1>5. ASSUME NEW r \in Readers, EndOfList(r) PROVE TypeOK'
  BY <1>5 DEF EndOfList, Return
<1>6. CASE UNCHANGED vars
  BY <1>6 DEF vars, locals
<1> QED BY <1>1, <1>2, <1>3, <1>4, <1>5, <1>6 DEF Next, ReaderStep

\* A step of one reader does not disturb the loop of another.
LEMMA OthersUndisturbed ==
  ASSUME NEW r \in Readers, NEW q \in Readers, LoopOK(q),
         pc'[q] = pc[q], con'[q] = con[q], snapshot'[q] = snapshot[q],
         hasChecksums'[q] = hasChecksums[q], next'[q] = next[q], match'[q] = match[q]
  PROVE  LoopOK(q)'
  BY DEF LoopOK, Seen

\* Going past one rule keeps the loop invariant.
LEMMA WalkStep ==
  ASSUME IndInv, NEW r \in Readers, Walk(r)
  PROVE  LoopOK(r)'
<1>0. LoopOK(r) /\ TypeOK
  BY WalkOKByReader DEF IndInv
<1>1. CASE Hit(r) /\ Decides(snapshot[r][next[r]]) /\ Return(r, snapshot[r][next[r]])
  BY <1>0, <1>1 DEF TypeOK, LoopOK, Return
<1>2. CASE ~(Hit(r) /\ Decides(snapshot[r][next[r]]))
  <2> DEFINE k == next[r]
  <2>1. /\ pc[r] = "walking" /\ k \in Names
        /\ match'[r] = IF Hit(r) THEN snapshot[r][k] ELSE match[r]
        /\ next'[r] = k + 1
        /\ UNCHANGED <<con, snapshot, hasChecksums>>
    BY <1>0, <1>2 DEF Walk, Return, TypeOK
  <2>2. Matching(snapshot[r], con[r], hasChecksums[r]) \subseteq Nat /\ k \in Nat
    BY <2>1, NamesAreNumbers DEF Matching
  <2>3. Hit(r) <=> k \in Matching(snapshot[r], con[r], hasChecksums[r])
    BY <2>1 DEF Hit, Matching
  <2>4. Seen(r)' = {n \in Matching(snapshot[r], con[r], hasChecksums[r]) : n < k + 1}
    BY <2>1 DEF Seen
  <2>5. Seen(r)' = IF Hit(r) THEN Seen(r) \cup {k} ELSE Seen(r)
    BY <2>2, <2>3, <2>4 DEF Seen
  <2>6. \A n \in Seen(r) : n \in Nat /\ n <= k
    BY <2>2 DEF Seen
  <2>7. \A n \in Seen(r) : ~Decides(snapshot[r][n])
    BY <1>0, <2>1 DEF LoopOK
  <2>8. CASE Hit(r)
    <3>1. ~Decides(snapshot[r][k])
      BY <1>2, <2>8
    <3> QED BY <2>1, <2>2, <2>5, <2>6, <2>7, <2>8, <3>1 DEF LoopOK
  <2>9. CASE ~Hit(r)
    BY <1>0, <2>1, <2>5, <2>7, <2>9 DEF LoopOK
  <2> QED BY <2>8, <2>9
<1> QED BY <1>1, <1>2 DEF Walk

\* Every step keeps the loop invariant of every reader.
LEMMA WalkOKStep == IndInv /\ [Next]_vars => WalkOK'
<1> SUFFICES ASSUME IndInv, [Next]_vars, NEW q \in Readers PROVE LoopOK(q)'
  BY WalkOKByReaderPrime
<1>0. LoopOK(q) /\ TypeOK
  BY WalkOKByReader DEF IndInv
<1>1. CASE sortRules \/ EnableChecksums \/ UNCHANGED vars
  BY <1>0, <1>1, OthersUndisturbed DEF sortRules, EnableChecksums, vars, locals
<1>2. ASSUME NEW r \in Readers, NEW c \in Conns, LoadSnapshot(r, c) PROVE LoopOK(q)'
  <2>1. CASE q = r
    BY <1>0, <1>2, <2>1 DEF LoadSnapshot, LoopOK, TypeOK
  <2>2. CASE q # r
    BY <1>0, <1>2, <2>2, OthersUndisturbed DEF LoadSnapshot, TypeOK
  <2> QED BY <2>1, <2>2
<1>3. ASSUME NEW r \in Readers, LoadChecksums(r) PROVE LoopOK(q)'
  <2>1. CASE q = r
    <3>1. next'[q] = 1 /\ match'[q] = NoRule
      BY <1>0, <1>3, <2>1 DEF LoadChecksums, TypeOK
    <3>2. Seen(q)' = {}
      BY <3>1, NamesAreNumbers DEF Seen, Matching, Names
    <3> QED BY <3>1, <3>2 DEF LoopOK
  <2>2. CASE q # r
    BY <1>0, <1>3, <2>2, OthersUndisturbed DEF LoadChecksums, TypeOK
  <2> QED BY <2>1, <2>2
<1>4. ASSUME NEW r \in Readers, Walk(r) PROVE LoopOK(q)'
  <2>1. CASE q = r
    BY <1>4, <2>1, WalkStep
  <2>2. CASE q # r
    BY <1>0, <1>4, <2>2, OthersUndisturbed DEF Walk, Return, TypeOK
  <2> QED BY <2>1, <2>2
<1>5. ASSUME NEW r \in Readers, EndOfList(r) PROVE LoopOK(q)'
  <2>1. CASE q = r
    BY <1>0, <1>5, <2>1 DEF EndOfList, Return, LoopOK, TypeOK
  <2>2. CASE q # r
    BY <1>0, <1>5, <2>2, OthersUndisturbed DEF EndOfList, Return, TypeOK
  <2> QED BY <2>1, <2>2
<1> QED BY <1>1, <1>2, <1>3, <1>4, <1>5 DEF Next, ReaderStep

\* The initial state.
LEMMA InitInv == Init => IndInv
  BY NumNamesAssumption, PublishedAssumption DEF Init, IndInv, TypeOK, WalkOK, RuleList

\* The types, and the loop invariant of every search in progress, hold for any number of
\* workers and whatever lists are published.
THEOREM LoopInvariant == Spec => [](TypeOK /\ WalkOK)
<1>1. IndInv /\ [Next]_vars => IndInv'
  BY TypeStep, WalkOKStep DEF IndInv
<1> QED BY InitInv, <1>1, PTL DEF Spec, IndInv

\* What a search has loaded and has found so far is of its type (loader.go:521-546).
THEOREM TypeCorrect == Spec => []TypeOK
  BY LoopInvariant, PTL

\* When the loop returns, it returns the first match of the list it has loaded.
LEMMA ReturnIsFirstMatch ==
  ASSUME IndInv, NEW r \in Readers, Walk(r) \/ EndOfList(r), pc'[r] = "idle"
  PROVE  IsFirstMatch(snapshot[r], con[r], hasChecksums[r], result'[r])
<1> DEFINE some == Matching(snapshot[r], con[r], hasChecksums[r])
<1>0. LoopOK(r) /\ TypeOK /\ pc[r] = "walking"
  BY WalkOKByReader DEF IndInv, Walk, EndOfList
<1>1. some \subseteq Names /\ Names \subseteq Nat /\ Names = 1..NumNames /\ NumNames \in Nat
  BY NamesAreNumbers DEF Matching, Names
<1>2. Deciding(snapshot[r], con[r], hasChecksums[r]) = {n \in some : Decides(snapshot[r][n])}
  BY DEF Deciding
<1>3. CASE Walk(r)
  <2> DEFINE k == next[r]
  <2>1. Hit(r) /\ Decides(snapshot[r][k]) /\ result'[r] = snapshot[r][k] /\ k \in Names
    BY <1>0, <1>3 DEF Walk, Return, TypeOK
  <2>2. k \in some
    BY <2>1 DEF Hit, Matching
  <2>3. \A m \in some : Decides(snapshot[r][m]) => k <= m
    BY <1>0, <1>1, <2>1 DEF LoopOK, Seen
  <2> QED BY <1>2, <2>1, <2>2, <2>3 DEF IsFirstMatch
<1>4. CASE EndOfList(r)
  <2>1. next[r] \notin Names /\ next[r] \in 1..(NumNames + 1) /\ result'[r] = match[r]
    BY <1>0, <1>4 DEF EndOfList, Return, TypeOK
  <2>2. Seen(r) = some
    BY <1>1, <2>1 DEF Seen
  <2> QED BY <1>0, <1>2, <2>1, <2>2 DEF LoopOK, IsFirstMatch
<1> QED BY <1>3, <1>4

\* A search never mixes two lists of rules, and never misses the rule that decides.
THEOREM SearchIsCorrect == Spec => ReturnsFirstMatch
<1>1. IndInv /\ [Next]_vars =>
        [\A r \in Readers :
           pc[r] = "walking" /\ pc'[r] = "idle" =>
             IsFirstMatch(snapshot[r], con[r], hasChecksums[r], result'[r])]_vars
  <2> SUFFICES ASSUME IndInv, Next, NEW r \in Readers, pc[r] = "walking", pc'[r] = "idle"
               PROVE  IsFirstMatch(snapshot[r], con[r], hasChecksums[r], result'[r])
    OBVIOUS
  <2>1. Walk(r) \/ EndOfList(r)
    BY DEF Next, ReaderStep, sortRules, EnableChecksums, LoadSnapshot, LoadChecksums, Walk,
           EndOfList, Return, locals, IndInv, TypeOK
  <2> QED BY <2>1, ReturnIsFirstMatch
<1>2. Spec => []IndInv
  BY LoopInvariant, PTL DEF IndInv
<1> QED BY <1>1, <1>2, PTL DEF Spec, ReturnsFirstMatch

-----------------------------------------------------------------------------
(* Refinement *)

\* The lookup that r has in progress, as the abstract specification sees it.
QueryOf(r) ==
  CASE pc[r] = "idle"    -> {}
    [] pc[r] = "loaded"  -> {[con |-> con[r], list |-> snapshot[r], sums |-> {}]}
    [] pc[r] = "walking" -> {[con |-> con[r], list |-> snapshot[r], sums |-> {hasChecksums[r]}]}

Queries == [r \in Readers |-> QueryOf(r)]

\* The abstract specification uses the operators of RuleSemantics that this one uses.
LEMMA SameOperators ==
  /\ Lookup!Names = Names /\ Lookup!Rule = Rule /\ Lookup!RuleList = RuleList
  /\ \A l, c, s, m : Lookup!IsFirstMatch(l, c, s, m) <=> IsFirstMatch(l, c, s, m)
  BY DEF Lookup!Names, Names, Lookup!Rule, Rule, Lookup!RuleList, RuleList,
         Lookup!IsFirstMatch, IsFirstMatch, Lookup!Matching, Matching, Lookup!Deciding, Deciding,
         Lookup!Match, Match, Lookup!ConditionHolds, ConditionHolds, Lookup!Decides, Decides,
         Lookup!Condition, Condition

\* The query of a reader changes alone.
LEMMA QueriesChange ==
  ASSUME NEW r \in Readers,
         \A q \in Readers : q # r => /\ pc'[q] = pc[q] /\ con'[q] = con[q] /\ snapshot'[q] = snapshot[q]
                                     /\ hasChecksums'[q] = hasChecksums[q]
  PROVE  Queries' = [Queries EXCEPT ![r] = QueryOf(r)']
<1>1. \A q \in Readers : q # r => QueryOf(q)' = QueryOf(q)
  BY DEF QueryOf
<1>2. Queries' = [q \in Readers |-> QueryOf(q)']
  BY DEF Queries
<1> QED BY <1>1, <1>2 DEF Queries

\* Loading the list begins a lookup.
LEMMA LoadSnapshotAsks ==
  ASSUME IndInv, NEW r \in Readers, NEW c \in Conns, LoadSnapshot(r, c)
  PROVE  Lookup!Ask(r, c)
<1>1. Queries' = [Queries EXCEPT ![r] = QueryOf(r)']
  BY QueriesChange DEF LoadSnapshot, IndInv, TypeOK
<1>2. Queries[r] = {} /\ QueryOf(r)' = {[con |-> c, list |-> active, sums |-> {}]}
  BY DEF LoadSnapshot, QueryOf, Queries, IndInv, TypeOK
<1>3. UNCHANGED <<active, checkSums, result>>
  BY DEF LoadSnapshot
<1> QED BY <1>1, <1>2, <1>3 DEF Lookup!Ask, Queries, QueryOf

\* Loading the flag fixes it.
LEMMA LoadChecksumsFixes ==
  ASSUME IndInv, NEW r \in Readers, LoadChecksums(r)
  PROVE  Lookup!Fix(r)
<1> DEFINE q == [con |-> con[r], list |-> snapshot[r], sums |-> {}]
<1>1. Queries' = [Queries EXCEPT ![r] = QueryOf(r)']
  BY QueriesChange DEF LoadChecksums, IndInv, TypeOK
<1>2. Queries[r] = {q} /\ QueryOf(r)' = {[q EXCEPT !.sums = {checkSums}]}
  BY DEF LoadChecksums, QueryOf, Queries, IndInv, TypeOK
<1>3. UNCHANGED <<active, checkSums, result>> /\ q.sums = {}
  BY DEF LoadChecksums
<1> QED BY <1>1, <1>2, <1>3 DEF Lookup!Fix, Queries, QueryOf

\* Returning answers.
LEMMA ReturnAnswers ==
  ASSUME IndInv, NEW r \in Readers, Walk(r) \/ EndOfList(r), pc'[r] = "idle"
  PROVE  \E rule \in Lookup!Answers(r) : Lookup!Answer(r, rule)
<1> DEFINE q == [con |-> con[r], list |-> snapshot[r], sums |-> {hasChecksums[r]}]
<1>1. Queries' = [Queries EXCEPT ![r] = QueryOf(r)']
  BY QueriesChange DEF Walk, EndOfList, Return, IndInv, TypeOK
<1>2. Queries[r] = {q} /\ QueryOf(r)' = {}
  BY DEF Walk, EndOfList, QueryOf, Queries
<1>3. IsFirstMatch(snapshot[r], con[r], hasChecksums[r], result'[r])
  BY ReturnIsFirstMatch
<1>4. UNCHANGED <<active, checkSums>> /\ result' = [result EXCEPT ![r] = result'[r]]
  BY DEF Walk, EndOfList, Return, IndInv, TypeOK
<1>5. result'[r] \in {snapshot[r][n] : n \in Names} \cup {NoRule}
  BY <1>3 DEF IsFirstMatch, Matching, Deciding
<1>6. PICK rule : rule = result'[r]
  OBVIOUS
<1>7. rule \in Lookup!Answers(r)
  <2>1. Lookup!Answers(r) = UNION {{k.list[n] : n \in Names} \cup {NoRule} : k \in Queries[r]}
    BY SameOperators DEF Lookup!Answers, Queries, QueryOf
  <2> QED BY <1>2, <1>5, <1>6, <2>1
<1>8. Lookup!Answer(r, rule)
  <2>1. Lookup!IsFirstMatch(q.list, q.con, hasChecksums[r], rule)
    BY <1>3, <1>6, SameOperators
  <2>2. \E k \in Queries[r] : \E sums \in k.sums : Lookup!IsFirstMatch(k.list, k.con, sums, rule)
    BY <1>2, <2>1
  <2>3. Queries' = [Queries EXCEPT ![r] = {}] /\ result' = [result EXCEPT ![r] = rule]
    BY <1>1, <1>2, <1>4, <1>6
  <2> QED BY <1>4, <2>2, <2>3 DEF Lookup!Answer, Queries, QueryOf
<1> QED BY <1>7, <1>8

\* The search implements the atomic lookup: loading the list begins it, loading the flag
\* fixes it, returning answers it, and the turns of the loop in between do not show.
THEOREM SearchImplementsLookup == Spec => ImplementsLookup
<1>1. Init => Lookup!LookupInit
  BY DEF Init, Lookup!LookupInit
<1>2. IndInv /\ [Next]_vars => [Lookup!LookupNext]_(Lookup!lookupVars)
  <2> SUFFICES ASSUME IndInv, [Next]_vars
               PROVE  Lookup!LookupNext \/ UNCHANGED Lookup!lookupVars
    BY Zenon
  <2> USE DEF Lookup!lookupVars
  <2>1. CASE sortRules
    BY <2>1 DEF sortRules, locals, Lookup!LookupNext, Lookup!Publish
  <2>2. CASE EnableChecksums
    BY <2>2 DEF EnableChecksums, locals, Lookup!LookupNext, Lookup!SwitchChecksums
  <2>3. ASSUME NEW r \in Readers, NEW c \in Conns, LoadSnapshot(r, c) PROVE Lookup!LookupNext
    BY <2>3, LoadSnapshotAsks DEF Lookup!LookupNext
  <2>4. ASSUME NEW r \in Readers, LoadChecksums(r) PROVE Lookup!LookupNext
    BY <2>4, LoadChecksumsFixes DEF Lookup!LookupNext
  <2>5. ASSUME NEW r \in Readers, Walk(r) \/ EndOfList(r), pc'[r] = "idle"
        PROVE  Lookup!LookupNext
    BY <2>5, ReturnAnswers DEF Lookup!LookupNext
  <2>6. ASSUME NEW r \in Readers, Walk(r), pc'[r] # "idle"
        PROVE  UNCHANGED Lookup!lookupVars
    BY <2>6 DEF Walk, Return, IndInv, TypeOK
  <2>7. ASSUME NEW r \in Readers, EndOfList(r)
        PROVE  pc'[r] = "idle"
    BY <2>7 DEF EndOfList, Return, IndInv, TypeOK
  <2>8. CASE UNCHANGED vars
    BY <2>8 DEF vars, locals
  <2> QED BY <2>1, <2>2, <2>3, <2>4, <2>5, <2>6, <2>7, <2>8 DEF Next, ReaderStep
<1>3. Spec => []IndInv
  BY LoopInvariant, PTL DEF IndInv
<1> QED BY <1>1, <1>2, <1>3, PTL DEF Spec, ImplementsLookup, Lookup!LookupSpec
-----------------------------------------------------------------------------
(* What a search may return, and what that means for a rule that stands *)

\* Given a list, a connection and a flag, the reference admits one rule at most.
LEMMA FirstMatchIsUnique ==
  ASSUME NEW list \in RuleList, NEW c \in Conns, NEW sums \in BOOLEAN,
         NEW rule, NEW other,
         IsFirstMatch(list, c, sums, rule), IsFirstMatch(list, c, sums, other)
  PROVE  rule = other
<1> DEFINE some == Matching(list, c, sums)
           deciding == Deciding(list, c, sums)
<1>1. some \subseteq Nat /\ deciding \subseteq some
  BY NamesAreNumbers DEF Matching, Deciding
<1>2. CASE deciding # {}
  <2>1. \A m \in {rule, other} : \E n \in deciding : m = list[n] /\ \A k \in deciding : n <= k
    BY <1>1, <1>2 DEF IsFirstMatch
  <2>2. PICK n \in deciding : rule = list[n] /\ \A k \in deciding : n <= k
    BY <2>1
  <2>3. PICK m \in deciding : other = list[m] /\ \A k \in deciding : m <= k
    BY <2>1
  <2>4. n = m
    BY <1>1, <2>2, <2>3
  <2> QED BY <2>2, <2>3, <2>4
<1>3. CASE deciding = {} /\ some # {}
  <2>1. \A m \in {rule, other} : \E n \in some : m = list[n] /\ \A k \in some : k <= n
    BY <1>3 DEF IsFirstMatch
  <2>2. PICK n \in some : rule = list[n] /\ \A k \in some : k <= n
    BY <2>1
  <2>3. PICK m \in some : other = list[m] /\ \A k \in some : k <= m
    BY <2>1
  <2>4. n = m
    BY <1>1, <2>2, <2>3
  <2> QED BY <2>2, <2>3, <2>4
<1>4. CASE some = {}
  BY <1>1, <1>4 DEF IsFirstMatch
<1> QED BY <1>2, <1>3, <1>4

\* The rule that a search returns is the one that its list, its flag and its connection
\* determine, and no other is: neither how its steps interleave with those of other packet
\* workers nor what is published meanwhile makes a difference (loader.go:521-546).
THEOREM AnswerIsDetermined ==
  Spec => [][\A r \in Readers :
               pc[r] = "walking" /\ pc'[r] = "idle" =>
                 \A rule : IsFirstMatch(snapshot[r], con[r], hasChecksums[r], rule) <=>
                             rule = result'[r]]_vars
<1>1. IndInv /\ [Next]_vars =>
        [\A r \in Readers :
           pc[r] = "walking" /\ pc'[r] = "idle" =>
             \A rule : IsFirstMatch(snapshot[r], con[r], hasChecksums[r], rule) <=>
                         rule = result'[r]]_vars
  <2> SUFFICES ASSUME IndInv, Next, NEW r \in Readers, pc[r] = "walking", pc'[r] = "idle", NEW rule
               PROVE  IsFirstMatch(snapshot[r], con[r], hasChecksums[r], rule) <=> rule = result'[r]
    OBVIOUS
  <2>1. Walk(r) \/ EndOfList(r)
    BY DEF Next, ReaderStep, sortRules, EnableChecksums, LoadSnapshot, LoadChecksums, Walk,
           EndOfList, Return, locals, IndInv, TypeOK
  <2>2. IsFirstMatch(snapshot[r], con[r], hasChecksums[r], result'[r])
    BY <2>1, ReturnIsFirstMatch
  <2>3. snapshot[r] \in RuleList /\ con[r] \in Conns /\ hasChecksums[r] \in BOOLEAN
    BY PublishedAssumption DEF IndInv, TypeOK
  <2> QED BY <2>2, <2>3, FirstMatchIsUnique
<1>2. Spec => []IndInv
  BY LoopInvariant, PTL DEF IndInv
<1> QED BY <1>1, <1>2, PTL DEF Spec

\* Rule n decides about connection c in every list that may be published, with checksums
\* and so without them.
Stands(n, c) == \A list \in Published : n \in Deciding(list, c, TRUE)

\* Switching checksums off only lets a rule match more connections.
LEMMA ChecksumsOnlyNarrow ==
  ASSUME NEW list, NEW c \in Conns, NEW sums \in BOOLEAN, NEW n \in Deciding(list, c, TRUE)
  PROVE  n \in Deciding(list, c, sums)
  BY DEF Deciding, Matching, Match, ConditionHolds

\* Every search goes through a list that has been published.
SnapshotOK == \A r \in Readers : snapshot[r] \in Published

\* A search loads what is active, and nothing changes the list it has loaded.
LEMMA SnapshotStep == IndInv /\ SnapshotOK /\ [Next]_vars => SnapshotOK'
<1> SUFFICES ASSUME IndInv, SnapshotOK, [Next]_vars PROVE SnapshotOK'
  OBVIOUS
<1>1. CASE UNCHANGED snapshot
  BY <1>1 DEF SnapshotOK
<1>2. ASSUME NEW r \in Readers, NEW c \in Conns, LoadSnapshot(r, c) PROVE SnapshotOK'
  BY <1>2 DEF LoadSnapshot, SnapshotOK, IndInv, TypeOK
<1> QED
  BY <1>1, <1>2 DEF Next, ReaderStep, sortRules, EnableChecksums, LoadChecksums, Walk, EndOfList,
                    vars, locals

\* A rule that stands is never missed, whatever is published and however checksums are
\* switched during the search: what FindFirstMatch returns is a rule that decides, at that
\* name or before it, never the last of the rules that merely match, and never nothing.
THEOREM StandingRuleDecides ==
  ASSUME NEW n \in Names, NEW c \in Conns, Stands(n, c)
  PROVE  Spec => [][\A r \in Readers :
                      pc[r] = "walking" /\ pc'[r] = "idle" /\ con[r] = c =>
                        \E m \in Deciding(snapshot[r], c, hasChecksums[r]) :
                          m <= n /\ result'[r] = snapshot[r][m]]_vars
<1>1. Init => SnapshotOK
  BY DEF Init, SnapshotOK
<1>2. Spec => [](IndInv /\ SnapshotOK)
  BY <1>1, InitInv, TypeStep, WalkOKStep, SnapshotStep, PTL DEF Spec, IndInv
<1>3. IndInv /\ SnapshotOK /\ [Next]_vars =>
        [\A r \in Readers :
           pc[r] = "walking" /\ pc'[r] = "idle" /\ con[r] = c =>
             \E m \in Deciding(snapshot[r], c, hasChecksums[r]) :
               m <= n /\ result'[r] = snapshot[r][m]]_vars
  <2> SUFFICES ASSUME IndInv, SnapshotOK, Next, NEW r \in Readers,
                      pc[r] = "walking", pc'[r] = "idle", con[r] = c
               PROVE  \E m \in Deciding(snapshot[r], c, hasChecksums[r]) :
                        m <= n /\ result'[r] = snapshot[r][m]
    OBVIOUS
  <2>1. Walk(r) \/ EndOfList(r)
    BY DEF Next, ReaderStep, sortRules, EnableChecksums, LoadSnapshot, LoadChecksums, Walk,
           EndOfList, Return, locals, IndInv, TypeOK
  <2>2. IsFirstMatch(snapshot[r], c, hasChecksums[r], result'[r])
    BY <2>1, ReturnIsFirstMatch
  <2>3. n \in Deciding(snapshot[r], c, hasChecksums[r])
    BY ChecksumsOnlyNarrow DEF Stands, SnapshotOK, IndInv, TypeOK
  <2> QED BY <2>2, <2>3 DEF IsFirstMatch, Deciding
<1> QED BY <1>2, <1>3, PTL DEF Spec

-----------------------------------------------------------------------------
(* A search is bounded *)

\* How many steps the search of r still takes at most.
Remaining(r) ==
  CASE pc[r] = "idle"    -> 0
    [] pc[r] = "loaded"  -> NumNames + 2
    [] pc[r] = "walking" -> NumNames + 2 - next[r]

\* Every step of a search brings it nearer to its end, and no step of anything else, such
\* as publishing a list, takes it further away.  With a worker that keeps running this is
\* why SearchEnds holds.
SearchAdvances ==
    [][\A r \in Readers :
         /\ Remaining(r) \in 0..(NumNames + 2)
         /\ pc[r] # "idle" => Remaining(r)' <= Remaining(r)
         /\ ReaderStep(r) => Remaining(r)' < Remaining(r)]_vars

\* FindFirstMatch takes at most one step for each name and two more, however often the
\* lists change meanwhile (loader.go:521-546).
THEOREM SearchIsBounded == Spec => SearchAdvances
<1>1. IndInv /\ [Next]_vars =>
        [\A r \in Readers :
           /\ Remaining(r) \in 0..(NumNames + 2)
           /\ pc[r] # "idle" => Remaining(r)' <= Remaining(r)
           /\ ReaderStep(r) => Remaining(r)' < Remaining(r)]_vars
  <2> SUFFICES ASSUME IndInv, Next, NEW r \in Readers
               PROVE  /\ Remaining(r) \in 0..(NumNames + 2)
                      /\ pc[r] # "idle" => Remaining(r)' <= Remaining(r)
                      /\ ReaderStep(r) => Remaining(r)' < Remaining(r)
    OBVIOUS
  <2>0. TypeOK /\ next[r] \in 1..(NumNames + 1) /\ NumNames \in Nat
    BY NumNamesAssumption DEF IndInv, TypeOK
  <2>1. Remaining(r) \in 0..(NumNames + 2)
    BY <2>0 DEF TypeOK, Remaining
  <2>2. ReaderStep(r) => Remaining(r)' < Remaining(r)
    <3>1. ASSUME LoadChecksums(r) PROVE Remaining(r)' < Remaining(r)
      BY <2>0, <3>1 DEF LoadChecksums, TypeOK, Remaining
    <3>2. ASSUME Walk(r) PROVE Remaining(r)' < Remaining(r)
      <4>1. pc[r] = "walking" /\ next[r] \in 1..NumNames
        BY <3>2 DEF Walk, Names
      <4>2. CASE pc' = [pc EXCEPT ![r] = "idle"]
        BY <2>0, <4>1, <4>2 DEF TypeOK, Remaining
      <4>3. CASE next' = [next EXCEPT ![r] = next[r] + 1] /\ UNCHANGED pc
        BY <2>0, <4>1, <4>3 DEF TypeOK, Remaining
      <4> QED BY <3>2, <4>2, <4>3 DEF Walk, Return
    <3>3. ASSUME EndOfList(r) PROVE Remaining(r)' < Remaining(r)
      BY <2>0, <3>3 DEF EndOfList, Return, TypeOK, Remaining
    <3> QED BY <3>1, <3>2, <3>3 DEF ReaderStep
  <2>3. ASSUME pc[r] # "idle" PROVE Remaining(r)' <= Remaining(r)
    <3>1. CASE ReaderStep(r)
      <4>1. Remaining(r)' \in Int
        BY <2>0, <3>1, TypeStep DEF TypeOK, Remaining, IndInv
      <4> QED BY <2>1, <2>2, <3>1, <4>1
    <3>2. ASSUME ~ReaderStep(r) PROVE pc'[r] = pc[r] /\ next'[r] = next[r]
      <4>1. CASE sortRules \/ EnableChecksums
        BY <4>1 DEF sortRules, EnableChecksums, locals
      <4>2. ASSUME NEW q \in Readers, NEW c \in Conns, LoadSnapshot(q, c)
            PROVE  pc'[r] = pc[r] /\ next'[r] = next[r]
        BY <2>0, <2>3, <4>2 DEF LoadSnapshot, TypeOK
      <4>3. ASSUME NEW q \in Readers, ReaderStep(q) PROVE pc'[r] = pc[r] /\ next'[r] = next[r]
        <5>1. q # r
          BY <3>2, <4>3
        <5> QED BY <2>0, <4>3, <5>1 DEF ReaderStep, LoadChecksums, Walk, EndOfList, Return, TypeOK
      <4> QED BY <4>1, <4>2, <4>3 DEF Next
    <3>3. CASE ~ReaderStep(r)
      <4>1. pc'[r] = pc[r] /\ next'[r] = next[r] /\ pc[r] \in {"loaded", "walking"}
        BY <2>0, <2>3, <3>2, <3>3 DEF TypeOK
      <4> QED BY <2>0, <4>1 DEF Remaining
    <3> QED BY <3>1, <3>3
  <2> QED BY <2>1, <2>2, <2>3
<1>2. Spec => []IndInv
  BY LoopInvariant, PTL DEF IndInv
<1> QED BY <1>1, <1>2, PTL DEF Spec, SearchAdvances
=============================================================================
