--------------------------- MODULE FindFirstMatch ---------------------------
(***************************************************************************)
(* The search of Loader.FindFirstMatch (daemon/rule/loader.go), step by    *)
(* step: a packet worker loads the pointer to the list of active rules,    *)
(* then whether checksums are computed, and walks through the list while   *)
(* other goroutines publish new lists and switch checksums on and off.     *)
(* It takes no lock, and it implements RuleLookup.                         *)
(***************************************************************************)
EXTENDS RuleSemantics

CONSTANTS
    Readers,    \* packet workers
    Published   \* the lists of active rules the loader may publish

ASSUME PublishedAssumption == Published \subseteq RuleList

VARIABLES
    active,     \* Loader.activeSnapshot
    checkSums,  \* Loader.checkSums
    pc,         \* per reader: "idle", "loaded" (the list), "walking"
    con,        \* per reader: the connection
    snapshot,   \* per reader: the list it has loaded
    hasChecksums,   \* per reader: the flag it has loaded
    next,       \* per reader: the name to look at next
    match,      \* per reader: the last rule that matched
    result      \* per reader: what FindFirstMatch returned last

locals == <<pc, con, snapshot, hasChecksums, next, match, result>>
vars == <<active, checkSums, locals>>

-----------------------------------------------------------------------------

\* sortRules publishes a list with one atomic store, and Reload publishes none.
sortRules == active' \in Published /\ UNCHANGED <<checkSums, locals>>

EnableChecksums == checkSums' \in BOOLEAN /\ UNCHANGED <<active, locals>>

LoadSnapshot(r, c) ==
    /\ pc[r] = "idle"
    /\ pc' = [pc EXCEPT ![r] = "loaded"]
    /\ con' = [con EXCEPT ![r] = c]
    /\ snapshot' = [snapshot EXCEPT ![r] = active]
    /\ UNCHANGED <<active, checkSums, hasChecksums, next, match, result>>

\* Mutant: the index of the loop starts one too low.
LoadChecksumsFromZero(r) ==
    /\ pc[r] = "loaded"
    /\ pc' = [pc EXCEPT ![r] = "walking"]
    /\ hasChecksums' = [hasChecksums EXCEPT ![r] = checkSums]
    /\ next' = [next EXCEPT ![r] = 0]
    /\ match' = [match EXCEPT ![r] = NoRule]
    /\ UNCHANGED <<active, checkSums, con, snapshot, result>>

LoadChecksums(r) ==
    /\ pc[r] = "loaded"
    /\ pc' = [pc EXCEPT ![r] = "walking"]
    /\ hasChecksums' = [hasChecksums EXCEPT ![r] = checkSums]
    /\ next' = [next EXCEPT ![r] = 1]
    /\ match' = [match EXCEPT ![r] = NoRule]
    /\ UNCHANGED <<active, checkSums, con, snapshot, result>>

\* The rule at hand matches.
Hit(r) ==
    LET rule == snapshot[r][next[r]]
    IN rule # NoRule /\ Match(rule, con[r], hasChecksums[r])

Return(r, rule) ==
    /\ result' = [result EXCEPT ![r] = rule]
    /\ pc' = [pc EXCEPT ![r] = "idle"]

\* Mutant: a rule that decides is remembered like any other.
WalkToTheEnd(r) ==
    /\ pc[r] = "walking" /\ next[r] \in Names
    /\ match' = [match EXCEPT ![r] = IF Hit(r) THEN snapshot[r][next[r]] ELSE @]
    /\ next' = [next EXCEPT ![r] = @ + 1]
    /\ UNCHANGED <<active, checkSums, pc, con, snapshot, hasChecksums, result>>

\* Mutant: the walk reads the published list again for every rule.
WalkWhatIsActive(r) ==
    LET rule == active[next[r]] IN
    /\ pc[r] = "walking" /\ next[r] \in Names
    /\ IF rule # NoRule /\ Match(rule, con[r], hasChecksums[r])
       THEN /\ match' = [match EXCEPT ![r] = rule]
            /\ IF Decides(rule)
               THEN Return(r, rule) /\ UNCHANGED next
               ELSE next' = [next EXCEPT ![r] = @ + 1] /\ UNCHANGED <<pc, result>>
       ELSE next' = [next EXCEPT ![r] = @ + 1] /\ UNCHANGED <<pc, match, result>>
    /\ UNCHANGED <<active, checkSums, con, snapshot, hasChecksums>>

\* Mutant: the walk starts over when a new list has been published.
WalkAgain(r) ==
    /\ pc[r] = "walking" /\ next[r] \in Names
    /\ IF active # snapshot[r]
       THEN /\ snapshot' = [snapshot EXCEPT ![r] = active]
            /\ match' = [match EXCEPT ![r] = NoRule]
            /\ next' = [next EXCEPT ![r] = 1]
            /\ UNCHANGED <<pc, result>>
       ELSE /\ UNCHANGED snapshot
            /\ IF Hit(r) /\ Decides(snapshot[r][next[r]])
               THEN Return(r, snapshot[r][next[r]]) /\ UNCHANGED <<match, next>>
               ELSE /\ match' = [match EXCEPT ![r] = IF Hit(r) THEN snapshot[r][next[r]] ELSE @]
                    /\ next' = [next EXCEPT ![r] = @ + 1]
                    /\ UNCHANGED <<pc, result>>
    /\ UNCHANGED <<active, checkSums, con, hasChecksums>>

\* One turn of the loop: a match that decides is returned, any other is remembered.
Walk(r) ==
    LET rule == snapshot[r][next[r]] IN
    /\ pc[r] = "walking" /\ next[r] \in Names
    /\ \/ Hit(r) /\ Decides(rule) /\ Return(r, rule) /\ UNCHANGED <<next, match>>
       \/ /\ ~(Hit(r) /\ Decides(rule))
          /\ match' = [match EXCEPT ![r] = IF Hit(r) THEN rule ELSE @]
          /\ next' = [next EXCEPT ![r] = @ + 1]
          /\ UNCHANGED <<pc, result>>
    /\ UNCHANGED <<active, checkSums, con, snapshot, hasChecksums>>

EndOfList(r) ==
    /\ pc[r] = "walking" /\ next[r] \notin Names
    /\ Return(r, match[r])
    /\ UNCHANGED <<active, checkSums, con, snapshot, hasChecksums, next, match>>

-----------------------------------------------------------------------------

Init ==
    /\ active \in Published /\ checkSums \in BOOLEAN
    /\ pc = [r \in Readers |-> "idle"]
    /\ con \in [Readers -> Conns]
    /\ snapshot = [r \in Readers |-> active]
    /\ hasChecksums = [r \in Readers |-> FALSE]
    /\ next = [r \in Readers |-> 1]
    /\ match = [r \in Readers |-> NoRule] /\ result = [r \in Readers |-> NoRule]

ReaderStep(r) == LoadChecksums(r) \/ Walk(r) \/ EndOfList(r)

Next ==
    \/ sortRules \/ EnableChecksums
    \/ \E r \in Readers : ReaderStep(r) \/ \E c \in Conns : LoadSnapshot(r, c)

Spec == Init /\ [][Next]_vars

\* A packet worker that is searching keeps running.
FairSpec == Spec /\ \A r \in Readers : WF_vars(ReaderStep(r))

-----------------------------------------------------------------------------
(* Properties *)

\* Every variable has its type.
TypeOK ==
    /\ active \in Published /\ checkSums \in BOOLEAN
    /\ pc \in [Readers -> {"idle", "loaded", "walking"}]
    /\ con \in [Readers -> Conns]
    /\ snapshot \in [Readers -> RuleList]
    /\ hasChecksums \in [Readers -> BOOLEAN]
    /\ next \in [Readers -> 1..(NumNames + 1)]
    /\ match \in [Readers -> Rule \cup {NoRule}]
    /\ result \in [Readers -> Rule \cup {NoRule}]

\* In the middle of the list no rule that decides has been passed, and match is the last
\* rule that matched so far: the loop invariant of FindFirstMatch.
WalkOK ==
    \A r \in Readers :
      LET seen == {n \in Matching(snapshot[r], con[r], hasChecksums[r]) : n < next[r]}
      IN pc[r] = "walking" =>
           /\ \A n \in seen : ~Decides(snapshot[r][n])
           /\ \/ seen = {} /\ match[r] = NoRule
              \/ \E n \in seen : match[r] = snapshot[r][n] /\ \A m \in seen : m <= n

\* Whatever is published during the search, the rule that is returned is the one the
\* reference picks from the list that was loaded, never a mixture of two lists: a
\* deny rule that was active all along is not missed because the lists changed.
ReturnsFirstMatch ==
    [][\A r \in Readers :
         pc[r] = "walking" /\ pc'[r] = "idle" =>
           IsFirstMatch(snapshot[r], con[r], hasChecksums[r], result'[r])]_vars

\* A search ends, however often new lists are published.
SearchEnds == \A r \in Readers : pc[r] = "loaded" ~> pc[r] = "idle"

\* The search implements the atomic lookup.
Lookup == INSTANCE RuleLookup WITH
    query  <- [r \in Readers |->
                 CASE pc[r] = "idle"    -> {}
                   [] pc[r] = "loaded"  -> {[con |-> con[r], list |-> snapshot[r], sums |-> {}]}
                   [] pc[r] = "walking" -> {[con |-> con[r], list |-> snapshot[r],
                                             sums |-> {hasChecksums[r]}]}],
    answer <- result

ImplementsLookup == Lookup!LookupSpec
=============================================================================
