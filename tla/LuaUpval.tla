------------------------------- MODULE LuaUpval -------------------------------
(* Upvalues between the program and the collector, src/lua/src/lfunc.c and   *)
(* lgc.c.  A closure reaches the local it captured through an upvalue: open, *)
(* and the value is on the stack of a thread, which may be lost before the   *)
(* closure; or closed, and it is in the upvalue.  Open upvalues are not on   *)
(* rootgc: their thread is swept with its list openupval.                    *)
(*                                                                           *)
(* The program steps between the collector's steps.  Addresses are reused,   *)
(* the lowest first; the two whites are the current one, "white", and the    *)
(* other one.  What else the collector does is in LuaGC: strings, tables and *)
(* finalizers are left out here with the phases that serve them.             *)
EXTENDS Integers, Sequences, SequencesExt, Reachability, Selection

CONSTANTS MaxObj,      \* bound: addresses
          MaxThreads,  \* bound: threads
          MaxStack,    \* bound: values on a stack
          SweepMax     \* GCSWEEPMAX: objects swept in a step

VARIABLES heap,        \* the object at each address
          marked,      \* and its colour
          uvhead,      \* the double-linked list of all open upvalues, as a set
          gcstate, gray, grayagain,
          sweepgc,     \* objects on rootgc the sweep has not come to yet
          nested,      \* the threads that run or wait for a resume, L last
          full         \* inside luaC_fullgc, where no program code runs
uvars == <<heap, marked, uvhead, gcstate, gray, grayagain, sweepgc, nested, full>>

Obj == 1..MaxObj
Main == 1
Nil == 0
Free == [tt |-> "free"]
Thread(values) == [tt |-> "thread", stack |-> values, open |-> <<>>]
Closure(us) == [tt |-> "closure", ups |-> us]
\* v points to position at of the stack of thread on; to own when on is 0.
Upval(t, level) == [tt |-> "upval", on |-> t, at |-> level, own |-> Nil]

Of(kind) == {o \in Obj : heap[o].tt = kind}
Allocated == Obj \ Of("free")
Open == {u \in Of("upval") : heap[u].on # 0}
L == Last(nested)
Stack == heap[L].stack
ValueOf(u) == IF u \in Open THEN heap[heap[u].on].stack[heap[u].at] ELSE heap[u].own
FreeIn(h) == {o \in Obj : h[o].tt = "free"}
NextFree(h) == CHOOSE o \in FreeIn(h) : \A p \in FreeIn(h) : o <= p

White == {o \in Allocated : marked[o] \in {"white", "other"}}
Gray == {o \in Allocated : marked[o] = "gray"}
Dead == {o \in Allocated : marked[o] = "other"}

\* What an object refers to; a thread does not refer to its open upvalues, but
\* has the thread it resumed on its stack, as the argument of the call.
Callee(t) == {nested[i] : i \in {j \in 2..Len(nested) : nested[j - 1] = t}}
Refs == [o \in Obj |->
            CASE heap[o].tt = "thread" -> (ToSet(heap[o].stack) \ {Nil}) \cup Callee(o)
              [] heap[o].tt = "closure" -> heap[o].ups
              [] heap[o].tt = "upval" -> {ValueOf(o)} \ {Nil}
              [] OTHER -> {}]

Init ==
    /\ heap = [o \in Obj |-> IF o = Main THEN Thread(<<>>) ELSE Free]
    /\ marked = [o \in Obj |-> "white"]
    /\ uvhead = {} /\ gcstate = "pause"
    /\ gray = {} /\ grayagain = {} /\ sweepgc = {}
    /\ nested = <<Main>> /\ full = FALSE

-----------------------------------------------------------------------------
(* Marking.                                                                  *)

\* reallymarkobject on the white members of S: an upvalue marks its value at
\* once and is black if it is closed; the others wait on the gray list.
Reached(S) == LET W == S \cap White
              IN  W \cup (White \cap UNION {Refs[u] : u \in W \cap Of("upval")})
Painted(M) == [o \in Obj |-> IF o \notin M THEN marked[o]
                             ELSE IF o \in Of("upval") \ Open THEN "black" ELSE "gray"]
Listed(M) == M \ Of("upval")
\* propagateall after marking S: the white objects that S leads to through white ones.
Propagated(S) ==
    {o \in White : \A X \in SUBSET White :
        S \cap White \subseteq X /\ (\A x \in X : Refs[x] \cap White \subseteq X) => o \in X}

-----------------------------------------------------------------------------
(* The program.                                                              *)

collector == <<gcstate, grayagain, sweepgc, full>>
Pushed(h, v) == [h EXCEPT ![L].stack = Append(@, v)]
Put(h, i, v) == IF i > Len(Stack) THEN Pushed(h, v) ELSE [h EXCEPT ![L].stack[i] = v]
Room == ~full /\ Len(Stack) < MaxStack

\* How many upvalues the loops of luaF_findupval and luaF_close pass: those at the
\* front of the list of L that are at the level or above.
Passed(h, level) ==
    LET list == h[L].open
    IN  CHOOSE n \in 0..Len(list) : /\ \A i \in 1..n : h[list[i]].at >= level
                                    /\ n < Len(list) => h[list[n + 1]].at < level
\* luaF_findupval for closure c: the upvalue of L for the level, or a new one,
\* chained behind those passed.
Found(h, level) == {u \in ToSet(h[L].open) : h[u].at = level}
Chained(h, u, level) == InsertAt(h[L].open, Passed(h, level) + 1, u)
FindUpval(h, c, level) ==
    IF Found(h, level) # {} THEN [h EXCEPT ![c].ups = @ \cup Found(h, level)]
    ELSE LET u == NextFree(h)
         IN  [h EXCEPT ![u] = Upval(L, level), ![L].open = Chained(h, u, level),
                       ![c].ups = @ \cup {u}]
\* A new upvalue is white, and so is one that was dead when it was found.
Resurrected(us) ==
    [o \in Obj |-> IF o \in us \ (Allocated \ Dead) THEN "white" ELSE marked[o]]

\* OP_CLOSURE capturing one or two locals of the running function, in this order: luaC_link
\* gives the closure the current white, and it replaces a local or comes on top.
Capture(levels, ra) ==
    /\ ~full /\ ra <= Len(Stack) + 1 /\ ToSet(levels) \subseteq DOMAIN Stack
    /\ Cardinality(FreeIn(heap)) > Cardinality({l \in ToSet(levels) : Found(heap, l) = {}})
    /\ LET c == NextFree(heap)
           g == FindUpval([heap EXCEPT ![c] = Closure({})], c, levels[1])
           h == IF Len(levels) = 1 THEN g ELSE FindUpval(g, c, levels[2])
       IN  /\ heap' = Put(h, ra, c)
           /\ marked' = [Resurrected(h[c].ups) EXCEPT ![c] = "white"]
           /\ uvhead' = uvhead \cup h[c].ups
    /\ UNCHANGED <<gray, nested, collector>>
\* OP_CLOSURE in the running closure f, capturing what f has captured.
CaptureAgain(f) ==
    /\ Room /\ f \in ToSet(Stack) \cap Of("closure") /\ FreeIn(heap) # {}
    /\ LET c == NextFree(heap)
       IN  /\ heap' = Pushed([heap EXCEPT ![c] = heap[f]], c)
           /\ marked' = [marked EXCEPT ![c] = "white"]
    /\ UNCHANGED <<uvhead, gray, nested, collector>>

\* coroutine.create(f): luaE_newthread, and f is moved to the new stack.  A
\* function without upvalues is nothing there.
NewThread(f) ==
    /\ Room /\ f \in {Nil} \cup (ToSet(Stack) \cap Of("closure"))
    /\ FreeIn(heap) # {} /\ Cardinality(Of("thread")) < MaxThreads
    /\ LET t == NextFree(heap)
       IN  /\ heap' = Pushed([heap EXCEPT ![t] = Thread(IF f = Nil THEN <<>> ELSE <<f>>)], t)
           /\ marked' = [marked EXCEPT ![t] = "white"]
    /\ UNCHANGED <<uvhead, gray, nested, collector>>

\* Stack slots are written without a barrier.
Local == /\ Room /\ heap' = Pushed(heap, Nil)
         /\ UNCHANGED <<marked, uvhead, gray, nested, collector>>
SetLocal(i, v) ==
    /\ ~full /\ i \in DOMAIN Stack /\ v \in ToSet(Stack) \cup {Nil}
    /\ heap' = [heap EXCEPT ![L].stack[i] = v]
    /\ UNCHANGED <<marked, uvhead, gray, nested, collector>>

\* OP_GETUPVAL in a closure of the stack.
GetUpval(f) ==
    /\ Room /\ f \in ToSet(Stack) \cap Of("closure")
    /\ \E u \in heap[f].ups : heap' = Pushed(heap, ValueOf(u))
    /\ UNCHANGED <<marked, uvhead, gray, nested, collector>>

\* OP_SETUPVAL: luaC_barrier acts on a closed upvalue only, open ones are never
\* black.  The barrier marks the value, or after marking whitens the upvalue.
SetUpval(f, v) ==
    /\ ~full /\ f \in ToSet(Stack) \cap Of("closure") /\ v \in ToSet(Stack) \cup {Nil}
    /\ \E u \in heap[f].ups :
         /\ heap' = IF u \in Open THEN [heap EXCEPT ![heap[u].on].stack[heap[u].at] = v]
                    ELSE [heap EXCEPT ![u].own = v]
         /\ LET caught == marked[u] = "black" /\ v \in White
                M == IF caught /\ gcstate = "propagate" THEN Reached({v}) ELSE {}
            IN  /\ marked' = [Painted(M) EXCEPT
                      ![u] = IF caught /\ gcstate # "propagate" THEN "white" ELSE @]
                /\ gray' = gray \cup Listed(M)
    /\ UNCHANGED <<uvhead, nested, collector>>

\* luaC_linkupval: a gray upvalue that is closed turns black, and its value is
\* marked, or white when the marking is over.
Linked(closing) ==
    LET M == IF gcstate = "propagate"
             THEN Reached(UNION {Refs[u] : u \in closing \cap Gray}) ELSE {}
    IN  /\ marked' = [o \in Obj |->
               IF o \notin closing \cap Gray THEN Painted(M)[o]
               ELSE IF gcstate = "propagate" THEN "black" ELSE "white"]
        /\ gray' = gray \cup Listed(M)

ClosedOver(u) == [heap[u] EXCEPT !.on = 0, !.at = 0, !.own = ValueOf(u)]

\* luaF_close when a block or a function ends; a dead upvalue is freed.
Close(level) ==
    /\ ~full /\ level \in DOMAIN Stack
    /\ LET n == Passed(heap, level)
           ended == {heap[L].open[i] : i \in 1..n}
           dead == ended \cap Dead
       IN  /\ heap' = [o \in Obj |->
                 IF o \in ended THEN (IF o \in dead THEN Free ELSE ClosedOver(o))
                 ELSE IF o = L THEN [heap[L] EXCEPT !.stack = SubSeq(@, 1, level - 1),
                                        !.open = SubSeq(@, n + 1, Len(@))]
                 ELSE heap[o]]
           /\ uvhead' = uvhead \ ended
           /\ Linked(ended \ dead)
    /\ UNCHANGED <<nested, collector>>

\* lua_resume, without arguments, and lua_yield, with a value moved or none.
Resume(t) ==
    /\ ~full /\ t \in ToSet(Stack) \cap Of("thread") /\ t \notin ToSet(nested)
    /\ nested' = Append(nested, t)
    /\ UNCHANGED <<heap, marked, uvhead, gray, collector>>
Yield ==
    /\ ~full /\ Len(nested) > 1
    /\ nested' = Front(nested)
    /\ \/ UNCHANGED heap
       \/ /\ Len(heap[Last(nested')].stack) < MaxStack
          /\ \E v \in ToSet(Stack) :
                heap' = [heap EXCEPT ![Last(nested')].stack = Append(@, v)]
    /\ UNCHANGED <<marked, uvhead, gray, collector>>

-----------------------------------------------------------------------------
(* The collector.                                                            *)

StartCycle ==
    /\ gcstate = "pause"
    /\ marked' = [marked EXCEPT ![Main] = "gray"]
    /\ gray' = {Main} /\ grayagain' = {} /\ gcstate' = "propagate"
    /\ UNCHANGED <<heap, uvhead, sweepgc, nested, full>>

\* propagatemark: a thread stays gray, and is traversed again at the end.
Propagate(o) ==
    /\ gcstate = "propagate" /\ o \in gray
    /\ LET M == Reached(Refs[o])
       IN  /\ marked' = [Painted(M) EXCEPT ![o] = IF o \in Of("thread") THEN "gray" ELSE "black"]
           /\ gray' = (gray \ {o}) \cup Listed(M)
    /\ grayagain' = grayagain \cup ({o} \cap Of("thread"))
    /\ UNCHANGED <<heap, uvhead, gcstate, sweepgc, nested, full>>

\* mutant: only the threads that are traversed again count
RemarkedNone == {}

\* remarkupvals: the values of gray open upvalues, whose threads may be lost.
Remarked == UNION {Refs[u] : u \in uvhead \cap Gray}

\* The mark phase ends: the running thread and the threads seen before are
\* traversed, and the whites swap.
Atomic ==
    /\ gcstate = "propagate" /\ gray = {}
    /\ LET M == Propagated(Remarked \cup {L} \cup UNION {Refs[t] : t \in grayagain})
       IN  /\ marked' = [o \in Obj |-> IF o \in M \cap Of("closure") THEN "black"
                                      ELSE IF o \in White \ M THEN "other" ELSE Painted(M)[o]]
           /\ grayagain' = grayagain \cup (M \cap Of("thread"))
    /\ sweepgc' = Allocated \ Open
    /\ gcstate' = "sweep"
    /\ UNCHANGED <<heap, uvhead, gray, nested, full>>

\* sweeplist over the objects S, and over the open upvalues of the threads among
\* them.  A thread that is freed closes those that are left (luaE_freethread).
OpenIn(S) == {u \in Open : heap[u].on \in S}
Freed(S) == (S \cup OpenIn(S)) \cap Dead
Swept(S) ==
    /\ heap' = [o \in Obj |->
          IF o \in Freed(S) THEN Free
          ELSE IF o \in OpenIn(Freed(S)) THEN ClosedOver(o)
          ELSE IF o \in Of("thread")
               THEN [heap[o] EXCEPT !.open = Select(@, Obj \ Freed(S))]
          ELSE heap[o]]
    /\ uvhead' = uvhead \ (Freed(S) \cup OpenIn(Freed(S)))
Whitened(S) == [o \in Obj |-> IF o \in S \cup OpenIn(S) THEN "white" ELSE marked[o]]

Sweep ==
    /\ gcstate = "sweep"
    /\ \E S \in SUBSET sweepgc :
         /\ Cardinality(S) = SweepMax \/ (S = sweepgc /\ Cardinality(S) < SweepMax)
         /\ Swept(S) /\ marked' = Whitened(S)
         /\ sweepgc' = sweepgc \ S
         /\ gcstate' = (IF S = sweepgc THEN "pause" ELSE "sweep")
         /\ full' = (full /\ S # sweepgc)
    /\ UNCHANGED <<gray, grayagain, nested>>

\* luaC_fullgc up to its markroot.
FullGC ==
    /\ ~full
    /\ LET S == IF gcstate = "sweep" THEN sweepgc ELSE Allocated \ Open
       IN  Swept(S) /\ marked' = [Whitened(S) EXCEPT ![Main] = "gray"]
    /\ gray' = {Main} /\ grayagain' = {} /\ sweepgc' = {}
    /\ gcstate' = "propagate" /\ full' = TRUE
    /\ UNCHANGED nested

\* The locals a function captures, one or two in either order.
Captures == {<<i>> : i \in 1..MaxStack} \cup {<<i, 3 - i>> : i \in 1..2}

Next ==
    \/ \E levels \in Captures, ra \in 1..MaxStack : Capture(levels, ra)
    \/ \E i \in 1..MaxStack : Close(i) \/ \E v \in Obj \cup {Nil} : SetLocal(i, v)
    \/ \E f \in Obj : CaptureAgain(f) \/ GetUpval(f) \/ Resume(f)
    \/ \E f \in Obj, v \in Obj \cup {Nil} : SetUpval(f, v)
    \/ \E f \in Obj \cup {Nil} : NewThread(f)
    \/ Local \/ Yield
    \/ StartCycle \/ Atomic \/ Sweep \/ FullGC
    \/ \E o \in Obj : Propagate(o)

Spec == Init /\ [][Next]_uvars

-----------------------------------------------------------------------------
(* What must hold.                                                           *)

\* Nothing a closure or a stack can come to is freed or condemned, whoever
\* captured, wrote, closed or lost what between the collector's steps; and while
\* marking, what is black refers to nothing white (luaC_linkupval, lgc.c:695-713;
\* remarkupvals, lgc.c:516-523).
CapturedIsSafe ==
    /\ Reachable(ToSet(nested), Refs) \subseteq Allocated \ Dead
    /\ gcstate = "propagate" =>
           \A o \in Allocated : marked[o] = "black" => Refs[o] \cap White = {}

\* The lists of open upvalues agree: each is on its thread's list, at a level of
\* its own that the stack has, highest first, and on uvhead.  None is ever black
\* (the assertion in lfunc.c:101), and only those of threads still to be swept
\* are gray or dead once marking is over (the assertion in lgc.c:708).
OpenListsAgree ==
    /\ uvhead = Open
    /\ \A t \in Of("thread") :
         LET list == heap[t].open
         IN  /\ ToSet(list) = {u \in Open : heap[u].on = t}
             /\ \A i \in DOMAIN list : /\ heap[list[i]].at <= Len(heap[t].stack)
                                       /\ i > 1 => heap[list[i]].at < heap[list[i - 1]].at
    /\ \A u \in Open :
         /\ heap[u].on \in Of("thread") /\ marked[u] # "black"
         /\ gcstate = "propagate" => u \notin Dead
         /\ gcstate = "pause" \/ (gcstate = "sweep" /\ heap[u].on \notin sweepgc) =>
                marked[u] = "white"

\* Both, for the hazards of lfunc.c and lgc.c:701.
UpvalsAreSafe == OpenListsAgree /\ CapturedIsSafe

===============================================================================
