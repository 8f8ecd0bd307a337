------------------------------ MODULE MCLuaGC ------------------------------
(* Instances of LuaGC: two roots and two or three addresses for objects.     *)
EXTENDS LuaGCHeap, TLC

CONSTANTS a, b, c

Sym == Permutations(Obj \ {Main, Registry})
=============================================================================
