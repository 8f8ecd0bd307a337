------------------------------- MODULE TableMap -------------------------------
(* What a Lua table promises: a finite map with no nil values, and a         *)
(* traversal that visits once every key that is still there.                 *)
EXTENDS FiniteSets

CONSTANT Key   \* what can be a key
VARIABLES map, \* the values of the keys that have one
          left \* keys a traversal has yet to visit, or one of the next two
vars == <<map, left>>

NoTraversal == {<<"none">>}
Finished == {<<"end">>}

Init == /\ \E S \in SUBSET Key : map = [k \in S |-> k]
        /\ left = NoTraversal

\* A step gives values to keys or takes one away; a traversal goes on over
\* both, unless a key is assigned that is not there: what next does then is
\* undefined (reference manual of Lua, next).
Change == LET old == map
              new == map'
              gone == DOMAIN old \ DOMAIN new
              added == DOMAIN new \ DOMAIN old
          IN  /\ new = [k \in DOMAIN new |-> k]
              /\ gone = {} \/ (added = {} /\ Cardinality(gone) = 1)
              /\ \/ left' = NoTraversal
                 \/ added = {} /\ left \notin {NoTraversal, Finished} /\ left' = left \ gone
Due == IF left \in {NoTraversal, Finished} THEN DOMAIN map ELSE left
Visit == /\ \E k \in Due : left' = Due \ {k}
         /\ UNCHANGED map
Finish == Due = {} /\ left' = Finished /\ UNCHANGED map

Next == Change \/ Visit \/ Finish
Spec == Init /\ [][Next]_vars
===============================================================================
