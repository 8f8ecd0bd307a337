-------------------------------- MODULE Heap --------------------------------
(***************************************************************************)
(* What automatic memory management promises a Lua program, without colours,*)
(* lists and phases: an object stays as long as the program has a way to it, *)
(* a weak table loses only entries nobody else holds, and a userdata that   *)
(* was lost is handed over once to be finalized.                            *)
(***************************************************************************)
EXTENDS Reachability

CONSTANT Obj
VARIABLES tt, ref, mode, finalized,
          tmudata,      \* userdata to be handed over
          roots         \* objects the program has without reading another

vars == <<tt, ref, mode, finalized, tmudata, roots>>

Free == {o \in Obj : tt[o] = "free"}
Weak == {o \in Obj : tt[o] = "table" /\ mode[o] # "strong"}
Usable == Reachable(roots, ref)

\* What S leads to, past neither a weak table nor an object of stop.
Kept(S, stop) == Reachable(S, [o \in Obj |-> IF o \in Weak \cup stop THEN {} ELSE ref[o]])

Init ==
    /\ roots \subseteq Obj
    /\ tt \in [Obj -> {"free", "table", "thread"}] /\ \A o \in Obj : tt[o] = "free" <=> o \notin roots
    /\ ref = [o \in Obj |-> {}] /\ mode = [o \in Obj |-> "strong"]
    /\ finalized = [o \in Obj |-> FALSE] /\ tmudata = {}

\* The program makes objects and changes those it can use.  It stores what it
\* can use, what it has just made, and strings (they are found by content).
Program ==
    /\ \A o \in Obj \ Free : tt'[o] = tt[o]
    /\ \A o \in Obj \ (Usable \cup Free) : ref'[o] = ref[o] /\ mode'[o] = mode[o]
    /\ \A o \in Obj, v \in Obj :
         v \in ref'[o] \ ref[o] => v \in Usable \cup Free \/ tt[v] = "string"
    /\ roots' \subseteq roots \cup Usable
    /\ UNCHANGED <<finalized, tmudata>>

Reclaim ==
    \E lost \in SUBSET (Obj \ (Usable \cup tmudata)) :
        /\ tt' = [o \in Obj |-> IF o \in lost THEN "free" ELSE tt[o]]
        /\ ref' = [o \in Obj |-> IF o \in lost THEN {} ELSE ref[o]]
        /\ mode' = [o \in Obj |-> IF o \in lost THEN "strong" ELSE mode[o]]
        /\ finalized' = [o \in Obj |-> IF o \in lost THEN FALSE ELSE finalized[o]]
        /\ UNCHANGED <<tmudata, roots>>

\* Lost userdata are set aside for their finalizers, once each; weak entries go.
\* A userdata that only one still waiting for its finalizer leads to counts as
\* lost, even where the program came to the waiting one again.
SetAside ==
    \E due \in SUBSET {u \in Obj \ Kept(roots, tmudata) :
                          tt[u] = "userdata" /\ ~finalized[u]} :
        /\ tmudata' = tmudata \cup due
        /\ finalized' = [o \in Obj |-> finalized[o] \/ o \in due]
        /\ \A t \in Obj : /\ ref'[t] \subseteq ref[t]
                          /\ ref'[t] # ref[t] => t \in Weak
                          /\ \A v \in ref[t] \ ref'[t] :
                                \/ v \notin Kept(roots \cup tmudata', {})
                                \/ mode[t] = "v" /\ finalized'[v]
        /\ UNCHANGED <<tt, mode, roots>>

HandOver ==
    \E u \in tmudata, r \in roots :
        /\ tmudata' = tmudata \ {u}
        /\ ref' = [ref EXCEPT ![r] = @ \cup {u}]
        /\ UNCHANGED <<tt, mode, finalized, roots>>

Next == Program \/ Reclaim \/ SetAside \/ HandOver

Spec == Init /\ [][Next]_vars
=============================================================================
