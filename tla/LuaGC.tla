------------------------------- MODULE LuaGC -------------------------------
(***************************************************************************)
(* The incremental mark-and-sweep collector of the Lua interpreter (lgc.c), *)
(* with the operations of lapi.c, lstring.c and lstate.c that create,       *)
(* read and write objects and call its barriers.                            *)
(*                                                                          *)
(* A program step and a collector step (singlestep) interleave in any       *)
(* order: luaC_checkGC stands at every allocation and the pacing arithmetic *)
(* (GCthreshold, estimate, gcdept) is abstracted away.  What an object      *)
(* refers to is a set: array part, hash part, metatable and environment of  *)
(* a table, upvalues of a C function, the stack of a thread.  Entries of a  *)
(* weak table have one collectable side, its key or its value.  Lua closures*)
(* with their shared upvalues are in LuaUpval; function prototypes are not   *)
(* represented.                                                             *)
(***************************************************************************)
EXTENDS Integers, Sequences, FiniteSets, Reachability

CONSTANTS
    Obj,            \* addresses an object can occupy
    Main,           \* g->mainthread
    Registry,       \* registry(L) and the global table: a root that is never freed
    Kinds,          \* kinds of object the program creates
    Modes,          \* values of __mode the program gives to tables
    SweepMax,       \* GCSWEEPMAX: objects swept in a step
    MaxBasic,       \* bound: basic types with a metatable
    MaxRefs,        \* bound: references held by an object
    MaxStack        \* bound: references held by a thread

Types == {"table", "function", "userdata", "string", "thread"}

ASSUME GCConstants ==
    /\ IsFiniteSet(Obj) /\ Main \in Obj /\ Registry \in Obj /\ Main # Registry
    /\ Kinds \subseteq Types
    /\ Modes \subseteq {"strong", "k", "v"}
    /\ SweepMax \in Nat \ {0} /\ MaxBasic \in Nat /\ MaxRefs \in Nat /\ MaxStack \in Nat

Whites == {"white0", "white1"}
Colours == Whites \cup {"gray", "black"}
States == {"pause", "propagate", "sweepstring", "sweep", "finalize"}

VARIABLES
    tt,             \* kind of the object at each address, "free" when there is none
    ref,            \* what it refers to
    mode,           \* __mode of its metatable: "strong", weak "k"eys or weak "v"alues
    marked,         \* its colour
    finalized,      \* FINALIZEDBIT: its finalizer is due, was called or is not needed
    gcstate, currentwhite,
    gray, grayagain, weak,  \* the three gclist lists
    sweepgc,        \* objects the sweep has not come to yet
    tmudata,        \* userdata whose finalizers are due
    basic,          \* g->mt: metatables of the basic types
    nest,           \* running coroutine last, the main thread first
    full            \* inside luaC_fullgc, where no program code runs

heap == <<tt, ref, mode>>
lists == <<gray, grayagain, weak>>
vars == <<tt, ref, mode, marked, finalized, gcstate, currentwhite, gray, grayagain,
          weak, sweepgc, tmudata, basic, nest, full>>

Allocated == {o \in Obj : tt[o] # "free"}
Of(kind) == {o \in Obj : tt[o] = kind}
L == nest[Len(nest)]                            \* the running thread
OtherWhite == IF currentwhite = "white0" THEN "white1" ELSE "white0"
White == {o \in Allocated : marked[o] \in Whites}
Dead == {o \in Allocated : marked[o] = OtherWhite}
Weak == {o \in Of("table") : mode[o] # "strong"}
Strong(o) == IF o \in Weak THEN {} ELSE ref[o]   \* what traversing o marks
Listable == Of("table") \cup Of("function") \cup Of("thread")

Init ==
    /\ tt = [o \in Obj |-> IF o = Main THEN "thread" ELSE IF o = Registry THEN "table" ELSE "free"]
    /\ ref = [o \in Obj |-> {}]
    /\ mode = [o \in Obj |-> "strong"]
    /\ marked = [o \in Obj |-> "white0"]
    /\ finalized = [o \in Obj |-> FALSE]
    /\ gcstate = "pause" /\ currentwhite = "white0"
    /\ gray = {} /\ grayagain = {} /\ weak = {}
    /\ sweepgc = {} /\ tmudata = {} /\ basic = {}
    /\ nest = <<Main>> /\ full = FALSE

-----------------------------------------------------------------------------
(* Marking.                                                                 *)

\* reallymarkobject on the white members of S: a userdata is blackened at once
\* and marks its environment and metatable, strings leave no work, the others
\* are linked to the gray list.
Reached(S) == LET W == S \cap White
              IN  W \cup (White \cap UNION {ref[u] : u \in W \cap Of("userdata")})
Painted(M) == [o \in Obj |-> IF o \notin M THEN marked[o]
                             ELSE IF tt[o] = "userdata" THEN "black" ELSE "gray"]

\* Everything white that propagateall reaches once S has been marked.
Marks(S) ==
    LET Closed(X) == S \cap White \subseteq X
                     /\ \A x \in X : Strong(x) \cap White \subseteq X
    IN  {o \in White : \A X \in SUBSET White : Closed(X) => o \in X}

\* mutant: a traversed thread turns black though its stack has no barrier
TraversedThreadBlack(o) == IF o \in Of("string") \cup Weak THEN "gray" ELSE "black"

\* Colour of a traversed object: threads and weak tables stay gray.
Traversed(o) == IF o \in Of("thread") \cup Of("string") \cup Weak THEN "gray" ELSE "black"

-----------------------------------------------------------------------------
(* Barriers: called when o starts to refer to v.                            *)

ForwardKinds == {"function", "userdata"}

BarrierForward(o, v) ==
    /\ IF gcstate = "propagate"
       THEN /\ marked' = Painted(Reached({v}))
            /\ gray' = gray \cup (Reached({v}) \cap Listable)
       ELSE /\ marked' = [marked EXCEPT ![o] = currentwhite]
            /\ UNCHANGED gray
    /\ UNCHANGED grayagain

\* mutant: the table turns gray but is not linked
BarrierBackUnlinked(t) ==
    /\ marked' = [marked EXCEPT ![t] = "gray"]
    /\ UNCHANGED <<gray, grayagain>>

BarrierBack(t) ==
    /\ marked' = [marked EXCEPT ![t] = "gray"]
    /\ grayagain' = grayagain \cup {t}
    /\ UNCHANGED gray

NeedsBarrier(o, v) == marked[o] = "black" /\ v \in White

\* luaC_barrier, luaC_objbarrier / luaC_barriert, luaC_objbarriert
Barrier(o, v) ==
    IF ~NeedsBarrier(o, v) THEN UNCHANGED <<marked, gray, grayagain>>
    ELSE IF tt[o] = "table" THEN BarrierBack(o) ELSE BarrierForward(o, v)

-----------------------------------------------------------------------------
(* The program: L works on what is on its stack and on the registry.        *)

Accessible == ref[L] \cup {Registry}

Push(v) == /\ Cardinality(ref[L] \cup {v}) <= MaxStack
           /\ ref' = [ref EXCEPT ![L] = @ \cup {v}]

\* luaC_link, luaS_newudata, newlstr: a new object gets the current white.
New(o, kind) ==
    /\ ~full /\ tt[o] = "free"
    /\ tt' = [tt EXCEPT ![o] = kind]
    /\ marked' = [marked EXCEPT ![o] = currentwhite]
    /\ Push(o)
    /\ UNCHANGED <<mode, finalized, gcstate, currentwhite, lists, sweepgc, tmudata,
                   basic, nest, full>>

\* mutant: a dead string is returned as it is
InternDead(s) ==
    /\ ~full /\ tt[s] = "string"
    /\ Push(s)
    /\ UNCHANGED <<tt, mode, marked, finalized, gcstate, currentwhite, lists, sweepgc,
                   tmudata, basic, nest, full>>

\* luaS_newlstr for a string that exists: it may be dead and not yet swept.
Intern(s) ==
    /\ ~full /\ tt[s] = "string"
    /\ marked' = [marked EXCEPT ![s] = IF s \in Dead THEN currentwhite ELSE @]
    /\ Push(s)
    /\ UNCHANGED <<tt, mode, finalized, gcstate, currentwhite, lists, sweepgc, tmudata,
                   basic, nest, full>>

Read(o, v) ==
    /\ ~full /\ o \in Accessible /\ v \in ref[o] \ ref[L]
    /\ tt[o] # "thread"
    /\ Push(v)
    /\ UNCHANGED <<tt, mode, marked, finalized, gcstate, currentwhite, lists, sweepgc,
                   tmudata, basic, nest, full>>

Pop(v) ==
    /\ ~full /\ v \in ref[L]
    /\ ref' = [ref EXCEPT ![L] = @ \ {v}]
    /\ UNCHANGED <<tt, mode, marked, finalized, gcstate, currentwhite, lists, sweepgc,
                   tmudata, basic, nest, full>>

\* lua_rawset, lua_settable, lua_setfield, lua_setmetatable, lua_setfenv and
\* lua_replace of an upvalue.  A userdata refers to tables only.
Write(o, v) ==
    /\ ~full /\ o \in Accessible /\ v \in ref[L] \ ref[o]
    /\ tt[o] \in {"table", "function", "userdata"}
    /\ tt[o] = "userdata" => tt[v] = "table"
    /\ Cardinality(ref[o]) < MaxRefs
    /\ ref' = [ref EXCEPT ![o] = @ \cup {v}]
    /\ Barrier(o, v)
    /\ UNCHANGED <<tt, mode, finalized, gcstate, currentwhite, weak, sweepgc, tmudata,
                   basic, nest, full>>

Erase(o, v) ==
    /\ ~full /\ o \in Accessible /\ v \in ref[o]
    /\ tt[o] \in {"table", "function", "userdata"}
    /\ ref' = [ref EXCEPT ![o] = @ \ {v}]
    /\ UNCHANGED <<tt, mode, marked, finalized, gcstate, currentwhite, lists, sweepgc,
                   tmudata, basic, nest, full>>

\* A new __mode field in the metatable of t: nothing tells the collector.
SetMode(t, m) ==
    /\ ~full /\ t \in ref[L] /\ tt[t] = "table" /\ mode[t] # m
    /\ mode' = [mode EXCEPT ![t] = m]
    /\ UNCHANGED <<tt, ref, marked, finalized, gcstate, currentwhite, lists, sweepgc,
                   tmudata, basic, nest, full>>

\* lua_setmetatable of a value of a basic type: a root changes, no barrier.
SetBasic(mt) ==
    /\ ~full /\ mt \in SUBSET (ref[L] \cap Of("table")) /\ Cardinality(mt) <= MaxBasic
    /\ basic' = mt /\ basic # mt
    /\ UNCHANGED <<tt, ref, mode, marked, finalized, gcstate, currentwhite, lists,
                   sweepgc, tmudata, nest, full>>

\* lua_xmove from the running thread to another one.
XMove(t, v) ==
    /\ ~full /\ v \in ref[L]
    /\ t \in (ref[L] \cap Of("thread")) \cup {nest[i] : i \in 1..Len(nest)}
    /\ t # L /\ v # t
    /\ Cardinality(ref[t] \cup {v}) <= MaxStack
    /\ ref' = [ref EXCEPT ![L] = @ \ {v}, ![t] = @ \cup {v}]
    /\ UNCHANGED <<tt, mode, marked, finalized, gcstate, currentwhite, lists, sweepgc,
                   tmudata, basic, nest, full>>

\* lua_resume and lua_yield; lua_resume keeps no reference to t, its caller does.
Resume(t) ==
    /\ ~full /\ t \in ref[L] /\ tt[t] = "thread"
    /\ \A i \in 1..Len(nest) : nest[i] # t
    /\ nest' = Append(nest, t)
    /\ UNCHANGED <<heap, marked, finalized, gcstate, currentwhite, lists, sweepgc,
                   tmudata, basic, full>>

Yield ==
    /\ ~full /\ Len(nest) > 1
    /\ nest' = SubSeq(nest, 1, Len(nest) - 1)
    /\ UNCHANGED <<heap, marked, finalized, gcstate, currentwhite, lists, sweepgc,
                   tmudata, basic, full>>

-----------------------------------------------------------------------------
(* The collector.                                                           *)

Roots == {Main, Registry} \cup basic

MarkRoot ==
    LET M == Reached(Roots)
    IN  /\ marked' = Painted(M)
        /\ gray' = M \cap Listable
        /\ grayagain' = {} /\ weak' = {}
        /\ gcstate' = "propagate"

StartCycle ==
    /\ gcstate = "pause"
    /\ MarkRoot
    /\ UNCHANGED <<heap, finalized, currentwhite, sweepgc, tmudata, basic, nest, full>>

\* mutant: a thread goes back to the gray list instead of grayagain
PropagateAgain(o) ==
    /\ gcstate = "propagate" /\ o \in gray
    /\ LET M == Reached(Strong(o))
       IN  /\ marked' = [Painted(M) EXCEPT ![o] = Traversed(o)]
           /\ gray' = (gray \ ({o} \ Of("thread"))) \cup (M \cap Listable)
    /\ weak' = weak \cup ({o} \cap Weak)
    /\ UNCHANGED <<heap, finalized, gcstate, currentwhite, grayagain, sweepgc, tmudata,
                   basic, nest, full>>

\* propagatemark
Propagate(o) ==
    /\ gcstate = "propagate" /\ o \in gray
    /\ LET M == Reached(Strong(o))
       IN  /\ marked' = [Painted(M) EXCEPT ![o] = Traversed(o)]
           /\ gray' = (gray \ {o}) \cup (M \cap Listable)
    /\ grayagain' = grayagain \cup ({o} \cap Of("thread"))
    /\ weak' = weak \cup ({o} \cap Weak)
    /\ UNCHANGED <<heap, finalized, gcstate, currentwhite, sweepgc, tmudata, basic,
                   nest, full>>

\* iscleared, for the side of the entries of t that is weak
Cleared(t, v, live, done) ==
    /\ v \notin Of("string")
    /\ \/ v \notin live
       \/ mode[t] = "v" /\ v \in Of("userdata") /\ done[v]

\* mutant: FINALIZEDBIT is not looked at
SeparatedAgain(reached) == (Of("userdata") \cap White) \ reached

\* luaC_separateudata: the userdata that stayed white, if not done before
Separated(reached) == {u \in (Of("userdata") \cap White) \ reached : ~finalized[u]}

\* atomic: the weak tables, the running thread, the basic metatables and the
\* objects the barriers caught are traversed again; then the dead userdata are
\* set aside with what they refer to, weak tables are cleared, the whites swap.
Atomic ==
    /\ gcstate = "propagate" /\ gray = {}
    /\ LET again == weak \cup grayagain
           first == Marks({L} \cup basic \cup UNION {Strong(o) : o \in again})
           due == Separated(first)
           tmu == tmudata \cup due
           second == first \cup Marks(UNION {ref[u] : u \in tmu})
           trav == again \cup second \cup tmu
           wtab == trav \cap Weak
           live == (Allocated \ White) \cup trav
           done == [o \in Obj |-> finalized[o] \/ o \in due]
       IN  /\ marked' = [o \in Obj |->
                 IF o \in trav \cup (Of("string") \cap UNION {ref[t] : t \in wtab})
                 THEN Traversed(o) ELSE marked[o]]
           /\ finalized' = done
           /\ tmudata' = tmu
           /\ ref' = [o \in Obj |-> IF o \in wtab
                                    THEN {v \in ref[o] : ~Cleared(o, v, live, done)}
                                    ELSE ref[o]]
           /\ grayagain' = trav \cap Of("thread")
           /\ weak' = wtab
           /\ sweepgc' = Allocated \ tmu
    /\ currentwhite' = OtherWhite
    /\ gcstate' = "sweepstring"
    /\ UNCHANGED <<tt, mode, gray, basic, nest, full>>

\* sweeplist over the objects S
Swept(S) ==
    LET freed == S \cap Dead
    IN  /\ tt' = [o \in Obj |-> IF o \in freed THEN "free" ELSE tt[o]]
        /\ ref' = [o \in Obj |-> IF o \in freed THEN {} ELSE ref[o]]
        /\ mode' = [o \in Obj |-> IF o \in freed THEN "strong" ELSE mode[o]]
        /\ finalized' = [o \in Obj |-> IF o \in freed THEN FALSE ELSE finalized[o]]

\* mutant: survivors keep their marks
WhitenedNot(S) == [o \in Obj |-> IF o \in S \cap Dead THEN "white0" ELSE marked[o]]

Whitened(S) == [o \in Obj |-> IF o \in S \ Dead THEN currentwhite
                              ELSE IF o \in S THEN "white0" ELSE marked[o]]

\* A bucket of the string table, here with one string.
SweepString ==
    /\ gcstate = "sweepstring"
    /\ LET todo == sweepgc \cap Of("string")
       IN  \E S \in SUBSET todo :
             /\ Cardinality(S) = IF todo = {} THEN 0 ELSE 1
             /\ Swept(S) /\ marked' = Whitened(S)
             /\ sweepgc' = sweepgc \ S
             /\ gcstate' = IF S = todo THEN "sweep" ELSE "sweepstring"
    /\ UNCHANGED <<currentwhite, lists, tmudata, basic, nest, full>>

Sweep ==
    /\ gcstate = "sweep"
    /\ \E S \in SUBSET sweepgc :
         /\ Cardinality(S) = SweepMax \/ (S = sweepgc /\ Cardinality(S) < SweepMax)
         /\ Swept(S) /\ marked' = Whitened(S)
         /\ sweepgc' = sweepgc \ S
         /\ gcstate' = IF S = sweepgc THEN "finalize" ELSE "sweep"
    /\ UNCHANGED <<currentwhite, lists, tmudata, basic, nest, full>>

\* GCTM: the userdata goes back to the heap, and the program gets it.
Finalize(u) ==
    /\ gcstate = "finalize" /\ u \in tmudata
    /\ tmudata' = tmudata \ {u}
    /\ marked' = [marked EXCEPT ![u] = currentwhite]
    /\ ref' = [ref EXCEPT ![L] = @ \cup {u}]
    /\ full' = FALSE
    /\ UNCHANGED <<tt, mode, finalized, gcstate, currentwhite, lists, sweepgc, basic,
                   nest>>

EndCycle ==
    /\ gcstate = "finalize" /\ tmudata = {}
    /\ gcstate' = "pause" /\ full' = FALSE
    /\ UNCHANGED <<heap, marked, finalized, currentwhite, lists, sweepgc, tmudata,
                   basic, nest>>

\* luaC_fullgc up to its markroot: a cycle in progress is swept to its end (a
\* marking phase is given up, and all it leaves is a heap without dead objects).
FullGC ==
    /\ ~full
    /\ LET S == IF gcstate \in {"pause", "propagate"} THEN Allocated \ tmudata ELSE sweepgc
       IN  /\ Swept(S)
           /\ marked' = [o \in Obj |-> IF o \in Roots THEN "gray" ELSE Whitened(S)[o]]
    /\ gray' = Roots
    /\ grayagain' = {} /\ weak' = {} /\ sweepgc' = {}
    /\ gcstate' = "propagate" /\ full' = TRUE
    /\ UNCHANGED <<currentwhite, tmudata, basic, nest>>

-----------------------------------------------------------------------------
Program ==
    \/ \E o \in Obj : (\E k \in Kinds : New(o, k)) \/ Intern(o) \/ Pop(o) \/ Resume(o)
    \/ \E o, v \in Obj : Read(o, v) \/ Write(o, v) \/ Erase(o, v) \/ XMove(o, v)
    \/ \E o \in Obj, m \in Modes : SetMode(o, m)
    \/ \E S \in SUBSET Obj : SetBasic(S)
    \/ Yield
    \/ FullGC

SingleStep ==
    \/ StartCycle \/ Atomic \/ SweepString \/ Sweep \/ EndCycle
    \/ \E o \in Obj : Propagate(o) \/ Finalize(o)

Next == Program \/ SingleStep

Spec == Init /\ [][Next]_vars

\* A program that goes on allocating reaches luaC_checkGC again and again.
FairSpec == Spec /\ WF_vars(SingleStep)

-----------------------------------------------------------------------------
(* Properties.                                                              *)

TypeOK ==
    /\ tt \in [Obj -> Types \cup {"free"}]
    /\ ref \in [Obj -> SUBSET Obj]
    /\ mode \in [Obj -> {"strong", "k", "v"}]
    /\ marked \in [Obj -> Colours]
    /\ finalized \in [Obj -> BOOLEAN]
    /\ gcstate \in States /\ currentwhite \in Whites
    /\ gray \subseteq Obj /\ grayagain \subseteq Obj /\ weak \subseteq Obj
    /\ sweepgc \subseteq Obj /\ tmudata \subseteq Obj /\ basic \subseteq Obj
    /\ nest \in Seq(Obj) /\ nest # <<>> /\ nest[1] = Main
    /\ full \in BOOLEAN

ProgramRoots == {Registry} \cup basic \cup {nest[i] : i \in 1..Len(nest)}
Usable == Reachable(ProgramRoots, ref)

\* What the program can come to use, weak references included, is never freed
\* nor condemned to be, whatever it did between the collector's steps.  And
\* while marking, no traversed object refers to one the collector has not seen:
\* what reallymarkobject and the barriers maintain.  (Userdata waiting for
\* their finalizer keep the colour of an earlier cycle.)
NothingUsableIsFreed == Usable \cup tmudata \subseteq Allocated \ Dead
BlackSeesNoWhite ==
    gcstate = "propagate" =>
        \A o \in Allocated \ tmudata : marked[o] = "black" => ref[o] \cap White = {}
UsableIsSafe == NothingUsableIsFreed /\ BlackSeesNoWhite

\* While marking, the gray objects that have a gclist field are each on exactly
\* one list, and no other object is on a list: linking an object twice through
\* its one gclist field would lose or close the list.
OneListEach ==
    gcstate = "propagate" =>
        /\ gray \cap grayagain = {} /\ gray \cap weak = {} /\ grayagain \cap weak = {}
        /\ gray \cup grayagain \cup weak = {o \in Listable : marked[o] = "gray"}

\* Dead objects exist only where the sweep has still to come, and a cycle
\* begins with every object white.
DeadAwaitSweep ==
    /\ gcstate \in {"sweepstring", "sweep"} => Dead \subseteq sweepgc
    /\ gcstate \notin {"sweepstring", "sweep"} => Dead = {}
    /\ gcstate \in {"pause", "finalize"} =>
           \A o \in Allocated \ tmudata : marked[o] = currentwhite

\* Garbage does not stay: an object the program lost is freed (or given back:
\* a string made again, a userdata to its finalizer).
GarbageIsCollected ==
    \A o \in Obj : o \notin Usable ~> (o \in Usable \/ tt[o] = "free")

=============================================================================
