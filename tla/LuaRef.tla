-------------------------------- MODULE LuaRef --------------------------------
(* References into a table (src/lua/src/lauxlib.c, luaL_ref and luaL_unref): *)
(* freed places form a list in the table itself, from entry 0 on.            *)
(*                                                                           *)
(* The variables are the table (Nil where nothing is) and what the callers   *)
(* know: held, each reference in use with the value it was made for.  A      *)
(* caller releases a reference once.                                         *)
EXTENDS Integers, FiniteSets

CONSTANTS Values,       \* what is stored, none of them a number of the list
          MaxRef        \* bounds the references
VARIABLES entries, held

Nil == <<"nil">>
FREELIST_REF == 0
Number(n) == <<"number", n>>
\* lua_tointeger: 0 for nil
ToInteger(v) == IF v = Nil THEN 0 ELSE v[2]
\* lua_objlen may answer any boundary of a table with holes.
Boundaries(t) == {n \in 0..MaxRef : /\ n = 0 \/ t[n] # Nil
                                    /\ n = MaxRef \/ t[n + 1] = Nil}

\* What the proofs assume of the constants.
RefConstants == MaxRef \in Nat /\ \A v \in Values : v # Nil

Init == entries = [n \in 0..MaxRef |-> Nil] /\ held = {}

\* The first free place, or else one after the table's end.
First == ToInteger(entries[FREELIST_REF])
Candidates == IF First # 0 THEN {First} ELSE {n + 1 : n \in Boundaries(entries) \ {MaxRef}}
\* mutant: the place stays in the list
RefKept(v) == \E ref \in Candidates :
    entries' = [entries EXCEPT ![ref] = v] /\ held' = held \cup {<<ref, v>>}
\* luaL_ref
Ref(v) == \E ref \in Candidates :
    LET t == IF First # 0 THEN [entries EXCEPT ![FREELIST_REF] = entries[First]] ELSE entries
    IN  entries' = [t EXCEPT ![ref] = v] /\ held' = held \cup {<<ref, v>>}
\* luaL_unref
Unref(h) ==
    /\ entries' = [entries EXCEPT ![h[1]] = entries[FREELIST_REF], ![FREELIST_REF] = Number(h[1])]
    /\ held' = held \ {h}
Next == (\E v \in Values : Ref(v)) \/ (\E h \in held : Unref(h))
Spec == Init /\ [][Next]_<<entries, held>>

-----------------------------------------------------------------------------
\* However references are made and released, two in use are different and each
\* still finds its value in the table, although the free places keep the list
\* in it and leave holes at its end (luaL_ref, luaL_unref).
RefsFindTheirValues ==
    /\ \A h \in held : entries[h[1]] = h[2]
    /\ \A g, h \in held : g[1] = h[1] => g = h
===============================================================================
