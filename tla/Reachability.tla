---------------------------- MODULE Reachability ----------------------------
(* Which objects a set of objects leads to along the references refs, a     *)
(* function from objects to sets of objects.                                 *)
EXTENDS Integers, FiniteSets

Reachable(S, refs) ==
    LET r[n \in 0..Cardinality(DOMAIN refs)] ==
            IF n = 0 THEN S ELSE r[n - 1] \cup UNION {refs[o] : o \in r[n - 1]}
    IN  r[Cardinality(DOMAIN refs)]
=============================================================================
