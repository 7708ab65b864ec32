---------------------------- MODULE MCRuleLoader ----------------------------
(* Small instances of RuleLoader for TLC. *)
EXTENDS RuleLoader

R(n, d, e, o) == [name |-> n, dur |-> d, enabled |-> e, ok |-> o]

\* The user sends, under one name, rules of every duration that the loader tells apart,
\* one of them disabled and one that does not compile.
MCUserRules ==
    {R(1, "always", TRUE, TRUE), R(1, "always", TRUE, FALSE), R(1, "5m", TRUE, TRUE),
     R(1, "5m", TRUE, FALSE), R(1, "soon", TRUE, TRUE), R(1, "once", TRUE, TRUE),
     R(1, "until restart", FALSE, TRUE)}

\* An administrator may leave a lasting or a temporary rule, or a file that is no rule.
MCFileContents == {R(1, "always", FALSE, TRUE), R(1, "5m", TRUE, TRUE), Garbage}

MCInitFiles == {[n \in Names |-> NoRule], [n \in Names |-> R(n, "always", TRUE, TRUE)]}
=============================================================================
