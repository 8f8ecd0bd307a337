------------------------------- MODULE Selection -------------------------------
(* What is left of a linked list when nodes are unlinked.                     *)
EXTENDS Naturals, Sequences

\* The members of sequence q that are in D, in order.
Select(q, D) ==
    LET pass[n \in 0..Len(q)] ==
            IF n = 0 THEN <<>>
            ELSE IF q[n] \in D THEN Append(pass[n - 1], q[n]) ELSE pass[n - 1]
    IN  pass[Len(q)]
===============================================================================
