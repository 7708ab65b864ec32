-------------------------- MODULE MCFindFirstMatch --------------------------
(* A small instance of FindFirstMatch for TLC.  Readers write no shared state, so one is enough. *)
EXTENDS FindFirstMatch

CONSTANTS r1, c1, c2

Cond(h, cs) == [hash |-> h, accepts |-> cs]
R(a, p, cs) == [action |-> a, precedence |-> p, conds |-> cs]

AllowAll == R("allow", FALSE, {})
DenyOne  == R("deny", FALSE, {Cond(FALSE, {c1})})
First    == R("allow", TRUE, {Cond(FALSE, {c1, c2}), Cond(TRUE, {c1})})
Hash     == R("reject", FALSE, {Cond(TRUE, {c2})})
AllowTwo == R("allow", FALSE, {Cond(FALSE, {c2})})

MCPublished ==
    {<<AllowAll, DenyOne, First, AllowTwo>>, <<First, DenyOne, AllowTwo, NoRule>>,
     <<DenyOne, AllowAll, AllowTwo, Hash>>, <<AllowTwo, NoRule, Hash, AllowAll>>,
     <<AllowTwo, AllowAll, First, DenyOne>>, <<NoRule, NoRule, NoRule, NoRule>>}
=============================================================================
