-------------------------------- MODULE Parts --------------------------------
(***************************************************************************)
(* Parts of the program that work each on their own, side by side and with  *)
(* their constants left open: the phone application, coroutines, finalizers, *)
(* references, upvalues, tables, string buffers and lists.  What is proved  *)
(* of them is proved of this module; MCParts runs them with the others.     *)
(***************************************************************************)
EXTENDS Naturals

CONSTANTS
    MAX_ISLANDS, Marks, ScreenSizes, NoSize, Unset, LayoutInTime,         \* Archipelago
    MainThread, Co, BoundaryYields, MaxCcalls, Slack, MaxFrames,          \* Coroutine
    N, MaxActive,                                                         \* LuaFinalize
    Values, MaxRef,                                                       \* LuaRef
    MaxObj, MaxThreads, MaxStack, SweepMax,                               \* LuaUpval
    Key, MaxInt, TableSizes, Lasts,                                       \* LuaTable
    BufferSize, Limit, Lengths, MaxText,                                  \* LuaBuffer
    Keys, MaxLen                                                          \* LuaSort
VARIABLES
    running, screen, timer, locating, mapSize, placed, top, buttons, fixes, \* Archipelago
    status, frames, fresh, nCcalls, baseCcalls, nest, wild,         \* Coroutine
    faulty, created, list, tmudata, finalized, called, active,      \* LuaFinalize
    allowhook, pending, phase, failed,
    entries, held,                                                  \* LuaRef
    heap, marked, uvhead, gcstate, gray, grayagain, sweepgc, nested, full,  \* LuaUpval
    table, map, cursor, left,                                       \* LuaTable
    library                                                         \* LuaBuffer, LuaSort

P == INSTANCE Archipelago WITH Sizes <- ScreenSizes, Nil <- Unset
C == INSTANCE Coroutine WITH Main <- MainThread
F == INSTANCE LuaFinalize
R == INSTANCE LuaRef
U == INSTANCE LuaUpval
H == INSTANCE LuaTable WITH Sizes <- TableSizes
Buf == INSTANCE LuaBuffer WITH buffer <- library
Lst == INSTANCE LuaSort WITH list <- library

\* LUAI_MAXCCALLS is 200 and the slack an eighth of it; there is an address for
\* the main thread.
ASSUME PartsConstants ==
    /\ P!PhoneConstants
    /\ MainThread \notin Co
    /\ MaxCcalls \in Nat \ {0} /\ Slack \in Nat \ {0}
    /\ R!RefConstants
    /\ MaxObj \in Nat \ {0} /\ MaxStack \in Nat
    /\ H!TableConstants
    /\ Buf!BufferConstants
    /\ Lst!ListConstants

\* The properties, as those modules state them.
FixShowsItsIslands == P!FixShowsItsIslands
CountIsDepth == C!CountIsDepth
ResumedWasWaiting == C!ResumedWasWaiting
FinalizedOnce == F!FinalizedOnce
HooksBack == F!HooksBack
RefsFindTheirValues == R!RefsFindTheirValues
UpvalsAreSafe == U!UpvalsAreSafe
RehashLeavesRoom == H!RehashLeavesRoom
LenIsBoundary == H!LenIsBoundary
ImplementsMap == H!ImplementsMap
BufferHoldsText == Buf!BufferHoldsText
ListsKept == Lst!ListsKept
=============================================================================
