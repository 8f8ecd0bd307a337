------------------------------ MODULE Archipelago -----------------------------
(* The phone application (src/main.cpp, Interpreter.cpp, Renderer.cpp and    *)
(* script.lua): a timer that reads the size of the map once, and location    *)
(* fixes that make the Lua script place its islands on ten buttons.          *)
(*                                                                           *)
(* The application runs on the thread that takes the events, so nothing      *)
(* comes between the steps of a handler but the layout of the screen, which  *)
(* the widgets library does on its own.  A position is <<k, size>>: where    *)
(* the k-th newIsland of the script puts an island on a map of that size.    *)
(* The coordinates of a fix are left out: the script does not use them.      *)
EXTENDS Integers

CONSTANTS
    MAX_ISLANDS,        \* buttons
    Marks,              \* calls of newIsland in script.lua
    Sizes, NoSize,      \* sizes of the map on screen, and that of a screen not laid out
    Nil,                \* a Lua global that is not set
    LayoutInTime        \* whether the screen has its size 200 ms after it is shown

\* What the proofs assume of the constants.
PhoneConstants ==
    /\ MAX_ISLANDS \in Nat /\ Marks \in Nat /\ Marks <= MAX_ISLANDS
    /\ NoSize \notin Sizes /\ Nil \notin Sizes \cup {NoSize} /\ LayoutInTime \in BOOLEAN

Hidden == <<0, NoSize>>         \* an invisible button
Base == 5                       \* what the luaopen functions leave on the Lua stack

VARIABLES
    running,        \* the moblet's event loop runs
    screen,         \* size of mMapScreen
    timer,          \* the one-shot timer is still to fire
    locating,       \* maLocationStart was called
    mapSize,        \* globals mapWidth and mapHeight of the Lua state
    placed,         \* progress of newCoords: islands placed, Marks + 1 when it does not run
    top,            \* height of the Lua stack
    buttons,        \* mIslandButtons: position, or Hidden
    fixes           \* whether a qualified fix was handled

vars == <<running, screen, timer, locating, mapSize, placed, top, buttons, fixes>>
Button == 1..MAX_ISLANDS
Idle == placed = Marks + 1

\* The constructor: screen shown, script loaded, timer added.
Init ==
    /\ running = TRUE /\ screen = NoSize /\ timer = TRUE /\ locating = FALSE
    /\ mapSize = Nil /\ placed = Marks + 1 /\ top = Base
    /\ buttons = [i \in Button |-> Hidden] /\ fixes = FALSE

\* The widgets library gives the screen its size, once.
Layout ==
    /\ screen = NoSize /\ \E size \in Sizes : screen' = size
    /\ UNCHANGED <<running, timer, locating, mapSize, placed, top, buttons, fixes>>

\* mutant: the script is not told the size
RunTimerEventUnsized ==
    /\ running /\ Idle /\ timer /\ (LayoutInTime => screen # NoSize)
    /\ timer' = FALSE /\ locating' = TRUE
    /\ UNCHANGED <<running, screen, mapSize, placed, top, buttons, fixes>>
\* runTimerEvent: getMapSize, setMapSize and maLocationStart.
RunTimerEvent ==
    /\ running /\ Idle /\ timer /\ (LayoutInTime => screen # NoSize)
    /\ timer' = FALSE /\ locating' = TRUE /\ mapSize' = screen
    /\ UNCHANGED <<running, screen, placed, top, buttons, fixes>>

\* customEvent with any other state of the fix.
OtherFix == running /\ Idle /\ locating /\ UNCHANGED vars

ClearIslands == buttons' = [i \in Button |-> Hidden]

\* customEvent with MA_LOC_QUALIFIED: Interpreter::newCoord pushes the function
\* and the coordinates; the script begins with clearIslands.
NewCoord ==
    /\ running /\ Idle /\ locating
    /\ ClearIslands
    /\ placed' = 0 /\ top' = top + 3 /\ fixes' = TRUE
    /\ UNCHANGED <<running, screen, timer, locating, mapSize>>

\* addIsland: the first invisible button; without one, nothing.
AddIsland(position) ==
    LET free == {i \in Button : buttons[i] = Hidden}
        first == CHOOSE i \in free : \A j \in free : i <= j
    IN  buttons' = IF free = {} THEN buttons ELSE [buttons EXCEPT ![first] = position]
\* newIsland of the script; mapWidth * 0.1 fails when mapWidth is nil, and the
\* message replaces the function and its arguments on the stack.
NewIsland ==
    /\ placed < Marks
    /\ IF mapSize = Nil
       THEN placed' = Marks + 1 /\ top' = (top - 3) + 1 /\ UNCHANGED buttons
       ELSE placed' = placed + 1 /\ AddIsland(<<placed + 1, mapSize>>) /\ UNCHANGED top
    /\ UNCHANGED <<running, screen, timer, locating, mapSize, fixes>>
\* The script returns to lua_pcall, which takes no results.
NewCoordsReturns ==
    /\ placed = Marks /\ placed' = Marks + 1 /\ top' = top - 3
    /\ UNCHANGED <<running, screen, timer, locating, mapSize, buttons, fixes>>

\* keyPressEvent with MAK_BACK or MAK_0
Close ==
    /\ running /\ Idle /\ running' = FALSE
    /\ UNCHANGED <<screen, timer, locating, mapSize, placed, top, buttons, fixes>>

Next == Layout \/ RunTimerEvent \/ OtherFix \/ NewCoord \/ NewIsland \/ NewCoordsReturns \/ Close
Spec == Init /\ [][Next]_vars

-----------------------------------------------------------------------------
TypeOK ==
    /\ running \in BOOLEAN /\ timer \in BOOLEAN /\ locating \in BOOLEAN /\ fixes \in BOOLEAN
    /\ screen \in Sizes \cup {NoSize} /\ mapSize \in Sizes \cup {NoSize, Nil}
    /\ placed \in 0..(Marks + 1) /\ top \in Nat
    /\ buttons \in [Button -> (0..Marks) \X (Sizes \cup {NoSize})]

\* Between events the buttons show exactly the script's islands, each once and
\* for the size of the screen, whatever fixes came before: no fix arrives
\* before the script knows the size, none of the islands of an earlier fix is
\* left, and no island is dropped for want of a button (newCoord, addIsland).
\* And no call of the script leaves anything on the Lua stack, although
\* newCoord drops the result of lua_pcall: none of them fails.
StackKept == Idle => top = Base
FixShowsItsIslands ==
    /\ StackKept
    /\ Idle /\ fixes =>
         \A i \in Button : buttons[i] = IF i <= Marks THEN <<i, screen>> ELSE Hidden
===============================================================================
