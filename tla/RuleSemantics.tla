---------------------------- MODULE RuleSemantics ----------------------------
(***************************************************************************)
(* Rules, what they match and which of them decides about a connection     *)
(* (daemon/rule/rule.go, operator.go and loader.go).                       *)
(*                                                                         *)
(* A list of rules is a function of the ranks of their names, as in        *)
(* RuleLoader.  A rule matches when all its conditions do; a rule without  *)
(* conditions is the operand "true".  What a condition compares is left    *)
(* out: it accepts some connections.  A condition on the checksum of the   *)
(* process accepts everything as long as checksums are not computed.       *)
(***************************************************************************)
EXTENDS Naturals

CONSTANTS
    NumNames,   \* how many rule names there are
    Conns,      \* connections
    NoRule      \* no rule under a name; no rule found

ASSUME NumNamesAssumption == NumNames \in Nat

Names == 1..NumNames

Condition == [hash : BOOLEAN, accepts : SUBSET Conns]

Rule == [action : {"allow", "deny", "reject"}, precedence : BOOLEAN, conds : SUBSET Condition]

ASSUME NoRuleAssumption == NoRule \notin Rule

RuleList == [Names -> Rule \cup {NoRule}]

\* Operator.Match, for one condition
ConditionHolds(cond, con, hasChecksums) == (cond.hash /\ ~hasChecksums) \/ con \in cond.accepts

\* Rule.Match, with listMatch for a rule of several conditions
Match(rule, con, hasChecksums) ==
    \A cond \in rule.conds : ConditionHolds(cond, con, hasChecksums)

\* A rule that ends the search as soon as it matches.
Decides(rule) == rule.action \in {"deny", "reject"} \/ rule.precedence

\* The reference: the first match that decides, in the order of the names; if there is
\* none, the last match; if nothing matches, no rule.
Matching(list, con, sums) == {n \in Names : list[n] # NoRule /\ Match(list[n], con, sums)}

Deciding(list, con, sums) == {n \in Matching(list, con, sums) : Decides(list[n])}

IsFirstMatch(list, con, sums, rule) ==
    LET some == Matching(list, con, sums)
        deciding == Deciding(list, con, sums)
    IN \/ \E n \in deciding : rule = list[n] /\ \A m \in deciding : n <= m
       \/ deciding = {} /\ \E n \in some : rule = list[n] /\ \A m \in some : m <= n
       \/ some = {} /\ rule = NoRule
=============================================================================
