----------------------------- MODULE RuleLookup -----------------------------
(***************************************************************************)
(* What a packet worker may rely on when it looks for the rule of a        *)
(* connection, whatever happens to the rules meanwhile: the answer is the  *)
(* one the reference gives for a single list of active rules, the one that *)
(* was active when the lookup began, and for a single state of the         *)
(* checksums.  FindFirstMatch implements this.                             *)
(***************************************************************************)
EXTENDS RuleSemantics

CONSTANTS
    Readers,    \* packet workers
    Published   \* the lists of active rules the loader may publish

VARIABLES
    active,     \* the published list
    checkSums,  \* whether the checksums of processes are computed
    query,      \* per reader: the lookup in progress, as a set of at most one query
    answer      \* per reader: its last answer

lookupVars == <<active, checkSums, query, answer>>

Publish == active' \in Published /\ UNCHANGED <<checkSums, query, answer>>

SwitchChecksums == checkSums' \in BOOLEAN /\ UNCHANGED <<active, query, answer>>

Ask(r, con) ==
    /\ query[r] = {}
    /\ query' = [query EXCEPT ![r] = {[con |-> con, list |-> active, sums |-> {}]}]
    /\ UNCHANGED <<active, checkSums, answer>>

Fix(r) ==
    /\ \E q \in query[r] : /\ q.sums = {}
                           /\ query' = [query EXCEPT ![r] = {[q EXCEPT !.sums = {checkSums}]}]
    /\ UNCHANGED <<active, checkSums, answer>>

Answer(r, rule) ==
    /\ \E q \in query[r] : \E sums \in q.sums : IsFirstMatch(q.list, q.con, sums, rule)
    /\ query' = [query EXCEPT ![r] = {}]
    /\ answer' = [answer EXCEPT ![r] = rule]
    /\ UNCHANGED <<active, checkSums>>

LookupInit ==
    /\ active \in Published /\ checkSums \in BOOLEAN
    /\ query = [r \in Readers |-> {}] /\ answer = [r \in Readers |-> NoRule]

\* The rules that Answer may give are those of the list of the query.
Answers(r) == UNION {{q.list[n] : n \in Names} \cup {NoRule} : q \in query[r]}

LookupNext ==
    \/ Publish \/ SwitchChecksums
    \/ \E r \in Readers : \/ \E con \in Conns : Ask(r, con)
                          \/ Fix(r)
                          \/ \E rule \in Answers(r) : Answer(r, rule)

LookupSpec == LookupInit /\ [][LookupNext]_lookupVars
=============================================================================
