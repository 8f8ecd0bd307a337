----------------------------- MODULE LuaGCHeap -----------------------------
(* The collector of LuaGC gives the program the heap that Heap describes.    *)
EXTENDS LuaGC

H == INSTANCE Heap WITH roots <- ProgramRoots

\* Colours, barriers, lists and phases implement the promise of Heap: what the
\* program can still come to stays, entries leave weak tables only when lost,
\* and a finalizer is due once, when no strong path is left (lgc.c).
ImplementsHeap == H!Spec
=============================================================================
