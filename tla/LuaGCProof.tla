----------------------------- MODULE LuaGCProof -----------------------------
(***************************************************************************)
(* What the collector of LuaGC guarantees for any finite number of objects, *)
(* coroutines and references: its safety, and that it implements Heap.      *)
(***************************************************************************)
EXTENDS LuaGCHeap, Induction, FiniteSetTheorems, TLAPS

\* Objects that are not condemned.
Live == Allocated \ Dead

\* What objects of each kind refer to, whatever the collector is doing.
Shape ==
    /\ tt[Main] = "thread" /\ tt[Registry] = "table"
    /\ \A o \in Obj : tt[o] \in {"free", "string"} => ref[o] = {}
    /\ \A u \in Live : tt[u] = "userdata" => ref[u] \subseteq Of("table")
    /\ basic \subseteq Of("table")
    /\ tmudata \subseteq Of("userdata")

\* The running coroutines: distinct threads, each held by the one that resumed it
\* (resume leaves the thread on the stack of its caller, lua_resume).
Nested ==
    /\ \A i \in 1..Len(nest) : tt[nest[i]] = "thread"
    /\ \A i, j \in 1..Len(nest) : nest[i] = nest[j] => i = j
    /\ \A i \in 1..Len(nest) - 1 : nest[i + 1] \in ref[nest[i]]

\* No reference of the living leads to a condemned object, and no root is one.
Closed ==
    /\ ProgramRoots \cup tmudata \subseteq Live
    /\ \A o \in Live : ref[o] \subseteq Live

\* What the colours of an object say of its kind.
Coloured ==
    /\ \A o \in Of("thread") : marked[o] # "black"
    /\ \A o \in Of("userdata") : marked[o] # "gray"
    /\ \A u \in tmudata : marked[u] \in {"black", currentwhite}
    /\ gcstate = "propagate" => {Main, Registry} \cap White = {}

\* What the sweep has passed has the colour of the coming cycle.
SweptAreWhite ==
    gcstate \in {"sweepstring", "sweep"} =>
        \A o \in Allocated \ (tmudata \cup sweepgc) : marked[o] = currentwhite

\* The inductive invariant.
IInv == TypeOK /\ Shape /\ Nested /\ Closed /\ Coloured
        /\ OneListEach /\ DeadAwaitSweep /\ SweptAreWhite /\ BlackSeesNoWhite


-----------------------------------------------------------------------------
(* The invariant holds at first, and the program keeps it.                  *)

\* lua_newstate: the main thread and the registry, everything white, nothing listed.
LEMMA InitInv == Init => IInv
  <1> SUFFICES ASSUME Init PROVE IInv
    OBVIOUS
  <1> USE GCConstants
  <1>1. TypeOK
    <2>1. nest \in Seq(Obj) /\ nest # <<>> /\ nest[1] = Main
      BY DEF Init
    <2>2. /\ tt \in [Obj -> Types \cup {"free"}]
          /\ mode \in [Obj -> {"strong", "k", "v"}] /\ marked \in [Obj -> Colours]
      BY DEF Init, Types, Colours, Whites
    <2>3. ref \in [Obj -> SUBSET Obj] /\ finalized \in [Obj -> BOOLEAN] /\ full \in BOOLEAN
      BY DEF Init
    <2>4. gcstate \in States /\ currentwhite \in Whites
      BY DEF Init, States, Whites
    <2> QED BY <2>1, <2>2, <2>3, <2>4 DEF Init, TypeOK
  <1>2. Allocated = {Main, Registry} /\ Dead = {} /\ Live = {Main, Registry}
        /\ White = {Main, Registry}
    BY DEF Init, Allocated, Dead, Live, White, OtherWhite, Whites
  <1>3. Shape /\ Coloured
    BY <1>2 DEF Init, Shape, Of, Coloured
  <1>4. Nested
    BY DEF Init, Nested
  <1>5. Closed
    BY <1>2 DEF Init, Closed, ProgramRoots
  <1>6. OneListEach /\ DeadAwaitSweep /\ SweptAreWhite /\ BlackSeesNoWhite
    BY <1>2 DEF Init, OneListEach, DeadAwaitSweep, SweptAreWhite, BlackSeesNoWhite
  <1> QED BY <1>1, <1>3, <1>4, <1>5, <1>6 DEF IInv

\* A step that changes nothing but references keeps the invariant if new references
\* lead to the living, and a black object takes no new reference to a white one.
LEMMA RefsChange ==
    ASSUME IInv, ref' \in [Obj -> SUBSET Obj], full' \in BOOLEAN,
           UNCHANGED <<tt, mode, marked, finalized, gcstate, currentwhite, lists, sweepgc,
                       tmudata, basic, nest>>,
           \A o \in Obj : \/ ref'[o] = ref[o]
                          \/ /\ o \in Live /\ tt[o] # "string" /\ ref'[o] \subseteq Live
                             /\ tt[o] = "userdata" => ref'[o] \subseteq ref[o] \cup Of("table")
                             /\ marked[o] = "black" => ref'[o] \cap White \subseteq ref[o],
           \A i \in 1..Len(nest) - 1 : nest[i + 1] \in ref'[nest[i]]
    PROVE  IInv'
  <1>1. TypeOK' /\ Allocated' = Allocated /\ Dead' = Dead /\ Live' = Live /\ White' = White
    BY DEF IInv, TypeOK, Allocated, Dead, Live, White, OtherWhite, lists
  <1>2. Of("thread")' = Of("thread") /\ Of("table")' = Of("table")
        /\ Of("userdata")' = Of("userdata") /\ Listable' = Listable
    BY DEF Of, Listable
  <1>3. Shape'
    BY <1>1, <1>2 DEF IInv, Shape, Live, Allocated
  <1>4. Nested'
    BY DEF IInv, Nested
  <1>5. Closed'
    BY <1>1 DEF IInv, Closed, ProgramRoots, Live, Allocated
  <1>6. Coloured'
    BY <1>1, <1>2 DEF IInv, Coloured
  <1>7. OneListEach' /\ DeadAwaitSweep' /\ SweptAreWhite'
    BY <1>1, <1>2 DEF IInv, OneListEach, DeadAwaitSweep, SweptAreWhite, lists
  <1>8. BlackSeesNoWhite'
    BY <1>1 DEF IInv, BlackSeesNoWhite, Allocated
  <1> QED BY <1>1, <1>3, <1>4, <1>5, <1>6, <1>7, <1>8 DEF IInv

\* The running thread: alive, and never black.
LEMMA Running ==
    ASSUME IInv
    PROVE  /\ L \in Live /\ tt[L] = "thread" /\ marked[L] # "black"
           /\ Len(nest) \in Nat \ {0} /\ Accessible \subseteq Live
           /\ \A i \in 1..Len(nest) : nest[i] \in Live
  <1>1. Len(nest) \in Nat \ {0} /\ Len(nest) \in 1..Len(nest)
    BY DEF IInv, TypeOK
  <1>2. \A i \in 1..Len(nest) : nest[i] \in Live
    BY DEF IInv, Closed, ProgramRoots
  <1>3. tt[L] = "thread" /\ L \in Live
    BY <1>1, <1>2 DEF IInv, Nested, L
  <1>4. marked[L] # "black"
    BY <1>3 DEF IInv, Coloured, Of, Live, Allocated
  <1> QED BY <1>1, <1>2, <1>3, <1>4 DEF IInv, Closed, Accessible, ProgramRoots

\* lua_rawget and the like: the value was referred to, and the thread is not black.
LEMMA ReadInv ==
    ASSUME IInv, NEW o \in Obj, NEW v \in Obj, Read(o, v)
    PROVE  IInv'
  <1>1. o \in Live /\ v \in Live
    BY Running DEF Read, IInv, Closed
  <1>2. L \in Obj /\ ref \in [Obj -> SUBSET Obj] /\ ref' = [ref EXCEPT ![L] = ref[L] \cup {v}]
    BY Running DEF Read, Push, IInv, TypeOK, Live, Allocated
  <1>3. \A x \in Obj : ref[x] \subseteq ref'[x] /\ (x # L => ref'[x] = ref[x])
    BY <1>2
  <1>4. ref'[L] \subseteq Live /\ tt[L] = "thread" /\ marked[L] # "black" /\ L \in Live
    BY <1>1, <1>2, Running DEF IInv, Closed
  <1>5. \A i \in 1..Len(nest) - 1 : nest[i + 1] \in ref'[nest[i]]
    BY <1>3, Running DEF IInv, Nested, Live, Allocated
  <1> QED BY <1>2, <1>3, <1>4, <1>5, RefsChange DEF Read, IInv, TypeOK

\* lua_settop: the resumed coroutines stay referred to through nest.
LEMMA PopInv ==
    ASSUME IInv, NEW v \in Obj, Pop(v)
    PROVE  IInv'
  <1>1. L \in Obj /\ ref \in [Obj -> SUBSET Obj] /\ ref' = [ref EXCEPT ![L] = ref[L] \ {v}]
    BY Running DEF Pop, IInv, TypeOK, Live, Allocated
  <1>2. ref'[L] \subseteq Live /\ ref'[L] \subseteq ref[L] /\ L \in Live /\ tt[L] = "thread"
    BY <1>1, Running DEF IInv, Closed
  <1>3. \A i \in 1..Len(nest) - 1 : nest[i] # L
    BY Running DEF IInv, Nested, L
  <1>4. \A i \in 1..Len(nest) - 1 : nest[i + 1] \in ref'[nest[i]]
    BY <1>1, <1>3, Running DEF IInv, Nested, Live, Allocated
  <1> QED BY <1>1, <1>2, <1>4, RefsChange DEF Pop, IInv, TypeOK

\* Assigning nil takes a reference away.
LEMMA EraseInv ==
    ASSUME IInv, NEW o \in Obj, NEW v \in Obj, Erase(o, v)
    PROVE  IInv'
  <1>1. ref \in [Obj -> SUBSET Obj] /\ ref' = [ref EXCEPT ![o] = ref[o] \ {v}]
    BY DEF Erase, IInv, TypeOK
  <1>2. o \in Live /\ tt[o] \notin {"string", "thread"}
    BY Running DEF Erase
  <1>3. ref'[o] \subseteq Live /\ ref'[o] \subseteq ref[o]
    BY <1>1, <1>2 DEF IInv, Closed
  <1>4. \A i \in 1..Len(nest) - 1 : nest[i] \in Obj /\ nest[i] # o
    BY <1>2, Running DEF IInv, Nested, Live, Allocated
  <1>5. \A i \in 1..Len(nest) - 1 : nest[i + 1] \in ref'[nest[i]]
    BY <1>1, <1>4 DEF IInv, Nested
  <1> QED BY <1>1, <1>2, <1>3, <1>5, RefsChange DEF Erase, IInv, TypeOK

\* lua_xmove: neither thread is black, so no barrier is needed.
LEMMA XMoveInv ==
    ASSUME IInv, NEW t \in Obj, NEW v \in Obj, XMove(t, v)
    PROVE  IInv'
  <1>1. L \in Obj /\ ref \in [Obj -> SUBSET Obj]
        /\ ref' = [ref EXCEPT ![L] = ref[L] \ {v}, ![t] = ref[t] \cup {v}]
    BY Running DEF XMove, IInv, TypeOK, Live, Allocated
  <1>2. t \in Live /\ tt[t] = "thread" /\ marked[t] # "black" /\ v \in Live
    BY Running DEF XMove, IInv, Closed, Nested, Coloured, Of, Live, Allocated
  <1>3. ref'[L] \subseteq Live /\ ref'[L] \subseteq ref[L] /\ L \in Live /\ tt[L] = "thread"
    BY <1>1, Running DEF IInv, Closed, XMove
  <1>4. ref'[t] \subseteq Live /\ ref[t] \subseteq ref'[t]
    BY <1>1, <1>2 DEF IInv, Closed, XMove
  <1>5. \A o \in Obj \ {L, t} : ref'[o] = ref[o]
    BY <1>1
  <1>6. \A i \in 1..Len(nest) - 1 : nest[i] # L
    BY Running DEF IInv, Nested, L
  <1>7. \A i \in 1..Len(nest) - 1 : nest[i + 1] \in ref'[nest[i]]
    BY <1>4, <1>5, <1>6, Running DEF IInv, Nested, Live, Allocated
  <1>8. ASSUME NEW o \in Obj
        PROVE  \/ ref'[o] = ref[o]
               \/ o \in Live /\ tt[o] = "thread" /\ marked[o] # "black" /\ ref'[o] \subseteq Live
    BY <1>2, <1>3, <1>4, <1>5, Running
  <1>9. ref' \in [Obj -> SUBSET Obj]
    BY <1>1
  <1> QED BY <1>7, <1>8, <1>9, RefsChange DEF XMove, IInv, TypeOK

\* luaS_newlstr: a dead string found in the string table is given the current white.
LEMMA InternInv ==
    ASSUME IInv, NEW s \in Obj, Intern(s)
    PROVE  IInv'
  <1>1. L \in Obj /\ L \in Live /\ tt[L] = "thread" /\ marked[L] # "black" /\ s # L
    BY Running DEF Intern, Live, Allocated
  <1>2. /\ ref \in [Obj -> SUBSET Obj] /\ ref' = [ref EXCEPT ![L] = ref[L] \cup {s}]
        /\ marked \in [Obj -> Colours]
        /\ marked' = [marked EXCEPT ![s] = IF s \in Dead THEN currentwhite ELSE marked[s]]
    BY DEF Intern, Push, IInv, TypeOK
  <1>3. UNCHANGED <<tt, mode, finalized, gcstate, currentwhite, gray, grayagain, weak, sweepgc,
        tmudata, basic, nest, full>>
    BY DEF Intern, lists
  <1>4. TypeOK'
    BY <1>1, <1>2, <1>3 DEF IInv, TypeOK, Colours
  <1>5. Allocated' = Allocated /\ Dead' = Dead \ {s} /\ Live' = Live \cup {s} /\ White' = White
    BY <1>2, <1>3 DEF IInv, TypeOK, Allocated, Dead, Live, White, OtherWhite, Whites, Intern
  <1>6. /\ Of("thread")' = Of("thread") /\ Of("table")' = Of("table")
        /\ Of("userdata")' = Of("userdata") /\ Listable' = Listable /\ s \notin Listable
        /\ s \notin Of("thread") /\ s \notin Of("userdata")
    BY <1>3 DEF Of, Listable, Intern
  <1>7. \A o \in Obj \ {L} : ref'[o] = ref[o]
    BY <1>2
  <1>8. ref'[L] = ref[L] \cup {s}
    BY <1>1, <1>2
  <1>9. \A o \in Obj \ {s} : marked'[o] = marked[o]
    BY <1>2
  <1>10. Shape'
    BY <1>1, <1>3, <1>5, <1>6, <1>7 DEF IInv, Shape, Live, Allocated, Intern
  <1>11. Nested'
    BY <1>3, <1>7, <1>8, Running DEF IInv, Nested, Live, Allocated
  <1>12. Closed'
    <2>1. ref'[s] = {}
      BY <1>1, <1>7 DEF IInv, Shape, Intern
    <2>2. ProgramRoots' = ProgramRoots
      BY <1>3 DEF ProgramRoots
    <2> QED BY <1>3, <1>5, <1>7, <1>8, <2>1, <2>2 DEF IInv, Closed, Live, Allocated
  <1>13. Coloured'
    BY <1>3, <1>5, <1>6, <1>9 DEF IInv, Coloured, Shape, Of
  <1>14. OneListEach'
    <2>1. {o \in Listable : marked'[o] = "gray"} = {o \in Listable : marked[o] = "gray"}
      BY <1>6, <1>9 DEF Listable, Of
    <2> QED BY <1>3, <1>6, <2>1 DEF IInv, OneListEach
  <1>15. DeadAwaitSweep' /\ SweptAreWhite'
    BY <1>2, <1>3, <1>5, <1>9 DEF IInv, DeadAwaitSweep, SweptAreWhite
  <1>16. BlackSeesNoWhite'
    <2>1. marked'[s] # "black" \/ ref'[s] = {}
      BY <1>1, <1>7 DEF IInv, Shape, Intern
    <2> QED BY <1>1, <1>3, <1>5, <1>7, <1>9, <2>1 DEF IInv, BlackSeesNoWhite, Allocated
  <1> QED BY <1>4, <1>10, <1>11, <1>12, <1>13, <1>14, <1>15, <1>16 DEF IInv

\* luaC_link: a new object has the current white, so the sweep does not take it.
LEMMA NewInv ==
    ASSUME IInv, NEW o \in Obj, NEW kind \in Kinds, New(o, kind)
    PROVE  IInv'
  <1>1. L \in Obj /\ L \in Live /\ tt[L] = "thread" /\ marked[L] # "black" /\ o # L
    BY Running DEF New, Live, Allocated
  <1>2. /\ ref \in [Obj -> SUBSET Obj] /\ ref' = [ref EXCEPT ![L] = ref[L] \cup {o}]
        /\ marked \in [Obj -> Colours] /\ marked' = [marked EXCEPT ![o] = currentwhite]
        /\ tt' = [tt EXCEPT ![o] = kind] /\ kind \in Types /\ tt[o] = "free"
        /\ tt \in [Obj -> Types \cup {"free"}] /\ currentwhite \in Whites
    BY GCConstants DEF New, Push, IInv, TypeOK
  <1>3. UNCHANGED <<mode, finalized, gcstate, currentwhite, gray, grayagain, weak, sweepgc,
        tmudata, basic, nest, full>>
    BY DEF New, lists
  <1>4. TypeOK'
    BY <1>1, <1>2, <1>3 DEF IInv, TypeOK, Colours
  <1>5. \A x \in Obj \ {o} : marked'[x] = marked[x] /\ tt'[x] = tt[x]
    BY <1>2
  <1>6. marked'[o] = currentwhite /\ tt'[o] = kind
    BY <1>2
  <1>7. /\ Allocated' = Allocated \cup {o} /\ Dead' = Dead /\ Live' = Live \cup {o}
        /\ White' = White \cup {o} /\ o \notin Allocated
    BY <1>2, <1>3, <1>5, <1>6 DEF Types, Allocated, Dead, Live, White, OtherWhite, Whites
  <1>8. \A x \in Obj \ {L} : ref'[x] = ref[x]
    BY <1>2
  <1>9. ref'[L] = ref[L] \cup {o} /\ ref'[o] = {}
    BY <1>1, <1>2 DEF IInv, Shape
  <1>10. Shape'
    BY <1>1, <1>2, <1>3, <1>5, <1>7, <1>8, <1>9 DEF IInv, Shape, Live, Allocated, Of
  <1>11. Nested'
    BY <1>3, <1>5, <1>7, <1>8, <1>9, Running DEF IInv, Nested, Live, Allocated
  <1>12. Closed'
    <2>2. ProgramRoots' = ProgramRoots
      BY <1>3 DEF ProgramRoots
    <2> QED BY <1>3, <1>7, <1>8, <1>9, <2>2 DEF IInv, Closed, Live, Allocated
  <1>13. Coloured'
    BY <1>2, <1>3, <1>5, <1>6, <1>7 DEF IInv, Coloured, Shape, Of, Whites, Allocated
  <1>14. OneListEach'
    BY <1>2, <1>3, <1>5, <1>6 DEF IInv, OneListEach, Listable, Of, Whites
  <1>15. DeadAwaitSweep' /\ SweptAreWhite'
    BY <1>3, <1>5, <1>6, <1>7 DEF IInv, DeadAwaitSweep, SweptAreWhite, Allocated
  <1>16. BlackSeesNoWhite'
    <2>1. gcstate = "propagate" => Allocated \subseteq Live
      BY DEF IInv, DeadAwaitSweep, Live
    <2>2. \A x \in Live : o \notin ref[x]
      BY <1>7 DEF IInv, Closed, Live
    <2> QED BY <1>1, <1>2, <1>3, <1>5, <1>6, <1>7, <1>8, <2>1, <2>2 DEF IInv, BlackSeesNoWhite,
        Allocated, Whites
  <1> QED BY <1>4, <1>10, <1>11, <1>12, <1>13, <1>14, <1>15, <1>16 DEF IInv

\* reallymarkobject marks white objects only, and what a userdata it blackens
\* refers to is no longer white.
LEMMA ReachedProps ==
    ASSUME IInv, Dead = {}, NEW S
    PROVE  /\ Reached(S) \subseteq White /\ S \cap White \subseteq Reached(S)
           /\ \A u \in Reached(S) : tt[u] = "userdata" => ref[u] \cap White \subseteq Reached(S)
  <1>1. Reached(S) \subseteq White /\ S \cap White \subseteq Reached(S)
    BY DEF Reached
  <1>2. ASSUME NEW u \in Reached(S), tt[u] = "userdata"
        PROVE  ref[u] \cap White \subseteq Reached(S)
    <2>1. u \in S \/ \E w \in White : tt[w] = "userdata" /\ u \in ref[w]
      BY DEF Reached, Of
    <2>2. ~ \E w \in White : tt[w] = "userdata" /\ u \in ref[w]
      BY <1>2 DEF IInv, Shape, Live, White, Of
    <2>3. u \in S \cap White \cap Of("userdata")
      BY <1>1, <1>2, <2>1, <2>2 DEF White, Allocated, Of
    <2> QED BY <2>3 DEF Reached
  <1> QED BY <1>1, <1>2

\* The colours reallymarkobject leaves: gray, black for a userdata, and no new white.
LEMMA PaintedProps ==
    ASSUME IInv, Dead = {}, NEW M, M \subseteq White,
           marked' = Painted(M), UNCHANGED <<tt, currentwhite>>
    PROVE  /\ marked' \in [Obj -> Colours]
           /\ \A o \in Obj : marked'[o] = IF o \notin M THEN marked[o]
                                          ELSE IF tt[o] = "userdata" THEN "black" ELSE "gray"
           /\ White' = White \ M /\ Allocated' = Allocated /\ Dead' = {} /\ Live' = Live
  <1>1. /\ marked \in [Obj -> Colours] /\ currentwhite \in Whites
        /\ OtherWhite \in Whites
    BY DEF IInv, TypeOK, OtherWhite, Whites
  <1>2. marked' \in [Obj -> Colours]
    BY <1>1 DEF Painted, Colours
  <1>3. \A o \in Obj : marked'[o] = IF o \notin M THEN marked[o]
                                    ELSE IF tt[o] = "userdata" THEN "black" ELSE "gray"
    BY DEF Painted
  <1>4. Allocated' = Allocated /\ OtherWhite' = OtherWhite
    BY DEF Allocated, OtherWhite
  <1>5. White' = White \ M
    BY <1>3, <1>4 DEF White, Whites, Allocated
  <1>6. Dead' = {}
    BY <1>1, <1>3, <1>4 DEF Dead, Whites, Allocated
  <1> QED BY <1>2, <1>3, <1>4, <1>5, <1>6 DEF Live

\* A write with its barrier: forward for functions and userdata, back for tables.
LEMMA WriteInv ==
    ASSUME IInv, NEW o \in Obj, NEW v \in Obj, Write(o, v)
    PROVE  IInv'
  <1>1. /\ o \in Live /\ v \in Live /\ tt[o] \in {"table", "function", "userdata"}
        /\ tt[o] = "userdata" => tt[v] = "table"
    BY Running DEF Write, IInv, Closed
  <1>2. /\ ref \in [Obj -> SUBSET Obj] /\ ref' = [ref EXCEPT ![o] = ref[o] \cup {v}]
        /\ marked \in [Obj -> Colours] /\ currentwhite \in Whites /\ Live \subseteq Allocated
    BY DEF Write, IInv, TypeOK, Live
  <1>3. /\ ref'[o] = ref[o] \cup {v} /\ ref' \in [Obj -> SUBSET Obj]
        /\ \A x \in Obj \ {o} : ref'[x] = ref[x]
    BY <1>2
  <1>4. UNCHANGED <<tt, mode, finalized, gcstate, currentwhite, weak, sweepgc, tmudata, basic,
        nest, full>>
    BY DEF Write
  <1>5. \A i \in 1..Len(nest) - 1 : nest[i + 1] \in ref'[nest[i]]
    BY <1>1, <1>3, Running DEF IInv, Nested, Live, Allocated
  <1>6. ref'[o] \subseteq Live
    BY <1>1, <1>3 DEF IInv, Closed
  <1>7. CASE ~NeedsBarrier(o, v)
    <2>1. UNCHANGED <<marked, gray, grayagain>>
      BY <1>7 DEF Write, Barrier
    <2>2. marked[o] = "black" => ref'[o] \cap White \subseteq ref[o]
      BY <1>3, <1>7 DEF NeedsBarrier
    <2>3. tt[o] = "userdata" => ref'[o] \subseteq ref[o] \cup Of("table")
      BY <1>1, <1>3 DEF Of
    <2> QED BY <1>1, <1>3, <1>4, <1>5, <1>6, <2>1, <2>2, <2>3, RefsChange DEF IInv, TypeOK, lists
  <1>8. CASE NeedsBarrier(o, v)
    <2>1. marked[o] = "black" /\ v \in White
      BY <1>8 DEF NeedsBarrier
    <2> DEFINE back == tt[o] = "table"
               paint == tt[o] # "table" /\ gcstate = "propagate"
               turn == tt[o] # "table" /\ gcstate # "propagate"
               M == Reached({v})
    <2>2. /\ back => /\ marked' = [marked EXCEPT ![o] = "gray"]
                     /\ grayagain' = grayagain \cup {o} /\ gray' = gray
          /\ paint => /\ marked' = Painted(M)
                      /\ gray' = gray \cup (M \cap Listable) /\ grayagain' = grayagain
          /\ turn => /\ marked' = [marked EXCEPT ![o] = currentwhite]
                     /\ gray' = gray /\ grayagain' = grayagain
      BY <1>8 DEF Write, Barrier, BarrierBack, BarrierForward
    <2>3. Of("thread")' = Of("thread") /\ Of("table")' = Of("table")
          /\ Of("userdata")' = Of("userdata") /\ Listable' = Listable /\ Allocated' = Allocated
      BY <1>4 DEF Of, Listable, Allocated
    <2>4. Nested'
      BY <1>4, <1>5 DEF IInv, Nested
    <2>5. ProgramRoots' = ProgramRoots /\ OtherWhite' = OtherWhite
      BY <1>4 DEF ProgramRoots, OtherWhite
    <2>6. CASE back
      <3>1. \A x \in Obj : marked'[x] = IF x = o THEN "gray" ELSE marked[x]
        BY <1>2, <2>2, <2>6
      <3>2. White' = White /\ Dead' = Dead /\ Live' = Live
        BY <1>2, <2>1, <2>3, <2>5, <3>1 DEF White, Dead, Live, Whites, OtherWhite, Allocated
      <3>3. TypeOK'
        BY <1>2, <1>3, <1>4, <2>2, <2>6 DEF IInv, TypeOK, Colours
      <3>4. Shape'
        BY <1>1, <1>3, <1>4, <2>3, <2>6, <3>2 DEF IInv, Shape, Live, Allocated
      <3>5. Closed'
        BY <1>3, <1>4, <1>6, <2>5, <3>2 DEF IInv, Closed, Live, Allocated
      <3>6. Coloured'
        BY <1>4, <2>3, <2>6, <3>1, <3>2 DEF IInv, Coloured, Shape, Of
      <3>7. OneListEach'
        BY <1>1, <1>2, <1>4, <2>1, <2>2, <2>3, <2>6, <3>1 DEF IInv, OneListEach, Listable, Of
      <3>8. DeadAwaitSweep' /\ SweptAreWhite'
        BY <1>1, <1>2, <1>4, <2>1, <2>3, <2>6, <3>1, <3>2 DEF IInv, DeadAwaitSweep,
            SweptAreWhite, Allocated, Shape, Of, Whites
      <3>9. BlackSeesNoWhite'
        BY <1>3, <1>4, <2>3, <3>1, <3>2 DEF IInv, BlackSeesNoWhite, Allocated
      <3> QED BY <2>4, <3>3, <3>4, <3>5, <3>6, <3>7, <3>8, <3>9 DEF IInv
    <2>7. CASE paint
      <3>1. Dead = {}
        BY <2>7 DEF IInv, DeadAwaitSweep
      <3>2. M \subseteq White /\ v \in M
            /\ \A u \in M : tt[u] = "userdata" => ref[u] \cap White \subseteq M
        BY <2>1, <3>1, ReachedProps
      <3> HIDE DEF M
      <3>3. marked' = Painted(M)
        BY <2>2, <2>7
      <3>4. /\ marked' \in [Obj -> Colours]
            /\ \A x \in Obj : marked'[x] = IF x \notin M THEN marked[x]
                                           ELSE IF tt[x] = "userdata" THEN "black" ELSE "gray"
            /\ White' = White \ M /\ Dead' = {} /\ Live' = Live
        BY <1>4, <3>1, <3>2, <3>3, PaintedProps
      <3>5. TypeOK'
        BY <1>3, <1>4, <2>2, <2>7, <3>2, <3>4 DEF IInv, TypeOK, White, Allocated
      <3>6. Shape'
        BY <1>1, <1>3, <1>4, <2>3, <2>7, <3>4 DEF IInv, Shape, Live, Allocated, Of
      <3>7. Closed'
        BY <1>3, <1>4, <1>6, <2>5, <3>4 DEF IInv, Closed, Live, Allocated
      <3>8. Coloured'
        BY <1>2, <1>4, <2>3, <3>2, <3>4 DEF IInv, Coloured, Shape, Of, White, Allocated
      <3>9. OneListEach'
        BY <1>2, <1>4, <2>2, <2>3, <2>7, <3>2, <3>4 DEF IInv, OneListEach, Listable, Of, White,
            Whites, Allocated
      <3>10. DeadAwaitSweep' /\ SweptAreWhite'
        BY <1>4, <2>7, <3>4 DEF DeadAwaitSweep, SweptAreWhite
      <3>11. BlackSeesNoWhite'
        BY <1>3, <1>4, <2>1, <2>3, <2>7, <3>2, <3>4 DEF IInv, BlackSeesNoWhite, Allocated
      <3> QED BY <2>4, <3>5, <3>6, <3>7, <3>8, <3>9, <3>10, <3>11 DEF IInv
    <2>8. CASE turn
      <3>1. \A x \in Obj : marked'[x] = IF x = o THEN currentwhite ELSE marked[x]
        BY <1>2, <2>2, <2>8
      <3>2. White' = White \cup {o} /\ Dead' = Dead /\ Live' = Live
        BY <1>1, <1>2, <2>1, <2>3, <2>5, <3>1 DEF White, Dead, Live, Whites, OtherWhite, Allocated
      <3>3. TypeOK'
        BY <1>2, <1>3, <1>4, <2>2, <2>8 DEF IInv, TypeOK, Colours
      <3>4. Shape'
        BY <1>1, <1>3, <1>4, <2>3, <2>8, <3>2 DEF IInv, Shape, Live, Allocated, Of
      <3>5. Closed'
        BY <1>3, <1>4, <1>6, <2>5, <3>2 DEF IInv, Closed, Live, Allocated
      <3>6. Coloured'
        BY <1>2, <1>4, <2>3, <2>8, <3>1 DEF IInv, Coloured, Shape, Of, Whites
      <3>7. OneListEach' /\ BlackSeesNoWhite'
        BY <1>4, <2>8 DEF OneListEach, BlackSeesNoWhite
      <3>8. DeadAwaitSweep' /\ SweptAreWhite'
        BY <1>1, <1>2, <1>4, <2>1, <2>3, <3>1, <3>2 DEF IInv, DeadAwaitSweep, SweptAreWhite,
            Allocated
      <3> QED BY <2>4, <3>3, <3>4, <3>5, <3>6, <3>7, <3>8 DEF IInv
    <2> QED BY <2>6, <2>7, <2>8
  <1> QED BY <1>7, <1>8

\* A table that becomes weak or strong while the collector is at work.
LEMMA SetModeInv ==
    ASSUME IInv, NEW t \in Obj, NEW m \in Modes, SetMode(t, m)
    PROVE  IInv'
  <1>1. UNCHANGED <<tt, ref, marked, finalized, gcstate, currentwhite, gray, grayagain, weak,
        sweepgc, tmudata, basic, nest, full>>
    BY DEF SetMode, lists
  <1>2. mode' \in [Obj -> {"strong", "k", "v"}]
    BY GCConstants DEF SetMode, IInv, TypeOK
  <1>3. TypeOK'
    BY <1>1, <1>2 DEF IInv, TypeOK
  <1>4. Shape' /\ Nested' /\ Closed' /\ Coloured'
    BY <1>1 DEF IInv, Shape, Nested, Closed, Coloured, Live, Dead, White, Allocated, OtherWhite,
        Of, ProgramRoots
  <1>5. OneListEach' /\ DeadAwaitSweep' /\ SweptAreWhite' /\ BlackSeesNoWhite'
    BY <1>1 DEF IInv, OneListEach, DeadAwaitSweep, SweptAreWhite, BlackSeesNoWhite, Listable,
        Of, Dead, White, Allocated, OtherWhite
  <1> QED BY <1>3, <1>4, <1>5 DEF IInv

\* A step that changes nothing but the roots and their nesting.
LEMMA RootsChange ==
    ASSUME IInv, TypeOK', Nested', ProgramRoots' \subseteq Live, basic' \subseteq Of("table"),
           UNCHANGED <<heap, marked, finalized, gcstate, currentwhite, lists, sweepgc, tmudata,
                 full>>
    PROVE  IInv'
  <1>1. UNCHANGED <<tt, ref, mode, marked, finalized, gcstate, currentwhite, gray, grayagain,
        weak, sweepgc, tmudata, full>>
    BY DEF heap, lists
  <1>2. Live' = Live /\ Dead' = Dead /\ White' = White /\ Allocated' = Allocated
        /\ Listable' = Listable
        /\ Of("thread")' = Of("thread") /\ Of("table")' = Of("table")
        /\ Of("userdata")' = Of("userdata")
    BY <1>1 DEF Live, Dead, White, Allocated, OtherWhite, Listable, Of
  <1>3. Shape' /\ Closed' /\ Coloured'
    BY <1>1, <1>2 DEF IInv, Shape, Closed, Coloured
  <1>4. OneListEach' /\ DeadAwaitSweep' /\ SweptAreWhite' /\ BlackSeesNoWhite'
    BY <1>1, <1>2 DEF IInv, OneListEach, DeadAwaitSweep, SweptAreWhite, BlackSeesNoWhite
  <1> QED BY <1>3, <1>4 DEF IInv

\* lua_setmetatable of a basic type has no barrier: atomic marks these roots again.
LEMMA SetBasicInv ==
    ASSUME IInv, NEW mt \in SUBSET Obj, SetBasic(mt)
    PROVE  IInv'
  <1>1. basic' = mt /\ mt \subseteq Of("table") /\ mt \subseteq Live
    BY Running DEF SetBasic, IInv, Closed
  <1>2. TypeOK' /\ Nested'
    BY <1>1 DEF SetBasic, lists, IInv, TypeOK, Nested
  <1>3. ProgramRoots' \subseteq Live
    BY <1>1, Running DEF SetBasic, IInv, Closed, ProgramRoots
  <1> QED BY <1>1, <1>2, <1>3, RootsChange DEF SetBasic, heap

\* lua_resume of a thread that is not running: it is alive, its caller refers to it.
LEMMA ResumeInv ==
    ASSUME IInv, NEW t \in Obj, Resume(t)
    PROVE  IInv'
  <1>1. t \in Live /\ tt[t] = "thread" /\ t \in ref[L]
    BY Running DEF Resume, IInv, Closed
  <1>2. /\ nest \in Seq(Obj) /\ nest # <<>> /\ nest[1] = Main /\ nest' = Append(nest, t)
        /\ Len(nest) \in Nat \ {0}
    BY Running DEF Resume, IInv, TypeOK
  <1>3. /\ nest' \in Seq(Obj) /\ nest' # <<>> /\ nest'[1] = Main /\ Len(nest') = Len(nest) + 1
        /\ \A i \in 1..Len(nest) : nest'[i] = nest[i]
        /\ nest'[Len(nest) + 1] = t
    BY <1>2
  <1> HIDE <1>2
  <1>4. TypeOK'
    BY <1>3 DEF Resume, heap, lists, IInv, TypeOK
  <1>5. Nested'
    <2>1. tt' = tt /\ ref' = ref /\ \A i \in 1..Len(nest) : nest[i] # t
      BY DEF Resume, heap
    <2>2. nest[Len(nest)] = L
      BY DEF L
    <2>3. \A i \in 1..Len(nest)' : tt'[nest'[i]] = "thread"
      BY <1>1, <1>3, <2>1, Running DEF IInv, Nested
    <2>4. \A i, j \in 1..Len(nest)' : nest'[i] = nest'[j] => i = j
      BY <1>3, <2>1, Running DEF IInv, Nested
    <2>5. \A i \in 1..Len(nest)' - 1 : nest'[i + 1] \in ref'[nest'[i]]
      BY <1>1, <1>3, <2>1, <2>2, Running DEF IInv, Nested
    <2> QED BY <2>3, <2>4, <2>5 DEF Nested
  <1>6. ProgramRoots' \subseteq Live
    BY <1>1, <1>3, Running DEF Resume, IInv, Closed, ProgramRoots
  <1> QED BY <1>4, <1>5, <1>6, RootsChange DEF Resume, IInv, Shape

\* lua_yield: one running thread less.
LEMMA YieldInv ==
    ASSUME IInv, Yield
    PROVE  IInv'
  <1>1. nest \in Seq(Obj) /\ nest[1] = Main /\ nest' = SubSeq(nest, 1, Len(nest) - 1)
        /\ Len(nest) > 1
        /\ Len(nest) \in Nat
    BY Running DEF Yield, IInv, TypeOK
  <1>2. /\ nest' \in Seq(Obj) /\ nest' # <<>> /\ nest'[1] = Main /\ Len(nest') = Len(nest) - 1
        /\ \A i \in 1..Len(nest') : nest'[i] = nest[i]
    <2> DEFINE n == Len(nest) - 1
    <2>1. n \in Nat \ {0} /\ n <= Len(nest)
      BY <1>1
    <2>2. Len(nest') = n /\ nest' \in Seq(Obj) /\ \A i \in 1..n : nest'[i] = nest[i]
      BY <1>1, <2>1
    <2>3. nest' # <<>> /\ 1 \in 1..n
      BY <2>1, <2>2
    <2> HIDE DEF n
    <2> QED BY <1>1, <2>2, <2>3 DEF n
  <1>3. TypeOK'
    BY <1>2 DEF Yield, heap, lists, IInv, TypeOK
  <1>4. Nested'
    <2>1. tt' = tt /\ ref' = ref
      BY DEF Yield, heap
    <2>2. \A i \in 1..Len(nest') : i \in 1..Len(nest)
      BY <1>1, <1>2
    <2>3. \A i \in 1..Len(nest') - 1 : i \in 1..Len(nest) - 1 /\ i + 1 \in 1..Len(nest')
          /\ i \in 1..Len(nest')
      BY <1>1, <1>2
    <2> QED BY <1>2, <2>1, <2>2, <2>3 DEF IInv, Nested
  <1>5. ProgramRoots' \subseteq Live
    BY <1>2, Running DEF Yield, IInv, Closed, ProgramRoots
  <1> QED BY <1>3, <1>4, <1>5, RootsChange DEF Yield, IInv, Shape

-----------------------------------------------------------------------------
(* The collector keeps it.                                                  *)

\* singlestep in GCSfinalize without userdata left: every object is white.
LEMMA EndCycleInv ==
    ASSUME IInv, EndCycle
    PROVE  IInv'
  <1>1. /\ UNCHANGED <<tt, ref, mode, marked, finalized, currentwhite, gray, grayagain, weak,
                sweepgc, tmudata, basic, nest>>
        /\ gcstate = "finalize" /\ gcstate' = "pause" /\ full' = FALSE
    BY DEF EndCycle, heap, lists
  <1>2. TypeOK'
    BY <1>1 DEF IInv, TypeOK, States
  <1>3. Shape' /\ Nested' /\ Closed' /\ Coloured'
    BY <1>1 DEF IInv, Shape, Nested, Closed, Coloured, Live, Dead, White, Allocated, OtherWhite,
        Of, ProgramRoots
  <1>4. OneListEach' /\ DeadAwaitSweep' /\ SweptAreWhite' /\ BlackSeesNoWhite'
    BY <1>1 DEF IInv, OneListEach, DeadAwaitSweep, SweptAreWhite, BlackSeesNoWhite, Dead,
        Allocated, OtherWhite
  <1> QED BY <1>2, <1>3, <1>4 DEF IInv

\* GCTM: the userdata turns white and the running thread refers to it.
LEMMA FinalizeInv ==
    ASSUME IInv, NEW u \in Obj, Finalize(u)
    PROVE  IInv'
  <1>1. L \in Live /\ tt[L] = "thread" /\ u \in Live /\ tt[u] = "userdata" /\ u # L /\ L \in Obj
    BY Running DEF Finalize, IInv, Closed, Shape, Of, Live, Allocated
  <1>2. /\ UNCHANGED <<tt, mode, finalized, gcstate, currentwhite, gray, grayagain, weak,
                sweepgc, basic, nest>>
        /\ gcstate = "finalize" /\ full' = FALSE /\ tmudata' = tmudata \ {u}
    BY DEF Finalize, lists
  <1>3. /\ ref \in [Obj -> SUBSET Obj] /\ ref' = [ref EXCEPT ![L] = ref[L] \cup {u}]
        /\ marked \in [Obj -> Colours] /\ marked' = [marked EXCEPT ![u] = currentwhite]
        /\ currentwhite \in Whites
    BY DEF Finalize, IInv, TypeOK
  <1>4. /\ \A x \in Obj \ {L} : ref'[x] = ref[x]
        /\ ref'[L] = ref[L] \cup {u}
        /\ \A x \in Obj : marked'[x] = IF x = u THEN currentwhite ELSE marked[x]
    BY <1>1, <1>3
  <1>5. TypeOK'
    BY <1>1, <1>2, <1>3 DEF IInv, TypeOK, Colours
  <1>6. Allocated' = Allocated /\ Dead' = Dead /\ Live' = Live
    BY <1>1, <1>2, <1>3, <1>4 DEF Live, Dead, Allocated, OtherWhite, Whites
  <1>7. Shape'
    BY <1>1, <1>2, <1>4, <1>6 DEF IInv, Shape, Of, Live, Allocated
  <1>8. Nested'
    BY <1>2, <1>4, Running DEF IInv, Nested, Live, Allocated
  <1>9. Closed'
    BY <1>1, <1>2, <1>4, <1>6 DEF IInv, Closed, ProgramRoots, Live, Allocated
  <1>10. Coloured'
    BY <1>1, <1>2, <1>3, <1>4 DEF IInv, Coloured, Of, Whites
  <1>11. OneListEach' /\ DeadAwaitSweep' /\ SweptAreWhite' /\ BlackSeesNoWhite'
    BY <1>1, <1>2, <1>4, <1>6 DEF IInv, OneListEach, DeadAwaitSweep, SweptAreWhite,
        BlackSeesNoWhite, Allocated
  <1> QED BY <1>5, <1>7, <1>8, <1>9, <1>10, <1>11 DEF IInv

\* markroot on a heap of whites.
LEMMA StartCycleInv ==
    ASSUME IInv, StartCycle
    PROVE  IInv'
  <1> DEFINE M == Reached(Roots)
  <1>1. /\ UNCHANGED <<tt, ref, mode, finalized, currentwhite, sweepgc, tmudata, basic, nest,
                full>>
        /\ gcstate = "pause" /\ gcstate' = "propagate"
        /\ marked' = Painted(M) /\ gray' = M \cap Listable /\ grayagain' = {} /\ weak' = {}
    BY DEF StartCycle, MarkRoot, heap
  <1>2. Dead = {} /\ \A o \in Allocated \ tmudata : marked[o] = currentwhite
    BY <1>1 DEF IInv, DeadAwaitSweep
  <1>3. /\ M \subseteq White /\ Roots \cap White \subseteq M
        /\ \A u \in M : tt[u] = "userdata" => ref[u] \cap White \subseteq M
    BY <1>2, ReachedProps
  <1> HIDE DEF M
  <1>4. /\ marked' \in [Obj -> Colours]
        /\ \A x \in Obj : marked'[x] = IF x \notin M THEN marked[x]
                                       ELSE IF tt[x] = "userdata" THEN "black" ELSE "gray"
        /\ White' = White \ M /\ Allocated' = Allocated /\ Dead' = {} /\ Live' = Live
    BY <1>1, <1>2, <1>3, PaintedProps
  <1>5. Of("thread")' = Of("thread") /\ Of("table")' = Of("table")
        /\ Of("userdata")' = Of("userdata") /\ Listable' = Listable
    BY <1>1 DEF Of, Listable
  <1>6. TypeOK'
    BY <1>1, <1>4 DEF IInv, TypeOK, States, Listable, Of
  <1>7. Shape' /\ Nested' /\ Closed'
    BY <1>1, <1>4, <1>5 DEF IInv, Shape, Nested, Closed, ProgramRoots, Live, Allocated
  <1>8. currentwhite \in Whites
    BY DEF IInv, TypeOK
  <1>9. Coloured'
    BY <1>1, <1>3, <1>4, <1>5, <1>8 DEF IInv, Coloured, Shape, Of, White, Allocated, Roots
  <1>10. OneListEach'
    BY <1>1, <1>2, <1>3, <1>4, <1>5, <1>8 DEF IInv, OneListEach, Shape, Listable, Of, White,
        Whites, Allocated
  <1>11. DeadAwaitSweep' /\ SweptAreWhite'
    BY <1>1, <1>4 DEF DeadAwaitSweep, SweptAreWhite
  <1>12. BlackSeesNoWhite'
    BY <1>1, <1>2, <1>3, <1>4, <1>8 DEF BlackSeesNoWhite, Allocated, Whites
  <1> QED BY <1>6, <1>7, <1>9, <1>10, <1>11, <1>12 DEF IInv

\* propagatemark: the object leaves the gray list for the list of its kind, and
\* what it refers to strongly is marked.
LEMMA PropagateInv ==
    ASSUME IInv, NEW o \in Obj, Propagate(o)
    PROVE  IInv'
  <1> DEFINE M == Reached(Strong(o))
  <1>1. /\ UNCHANGED <<tt, ref, mode, finalized, gcstate, currentwhite, sweepgc, tmudata, basic,
                nest, full>>
        /\ gcstate = "propagate" /\ o \in gray
        /\ marked' = [Painted(M) EXCEPT ![o] = Traversed(o)]
        /\ gray' = (gray \ {o}) \cup (M \cap Listable)
        /\ grayagain' = grayagain \cup ({o} \cap Of("thread"))
        /\ weak' = weak \cup ({o} \cap Weak)
    BY DEF Propagate, heap
  <1>2. Dead = {} /\ o \in Listable /\ marked[o] = "gray" /\ o \notin White
    BY <1>1 DEF IInv, DeadAwaitSweep, OneListEach, White, Whites
  <1>3. /\ M \subseteq White /\ Strong(o) \cap White \subseteq M
        /\ \A u \in M : tt[u] = "userdata" => ref[u] \cap White \subseteq M
    BY <1>2, ReachedProps
  <1> HIDE DEF M
  <1>4. /\ currentwhite \in Whites /\ OtherWhite \in Whites /\ marked \in [Obj -> Colours]
        /\ o \notin M
    BY <1>2, <1>3 DEF IInv, TypeOK, OtherWhite, Whites
  <1>5. Traversed(o) = IF o \in Of("thread") \cup Weak THEN "gray" ELSE "black"
    BY <1>2 DEF Traversed, Listable, Of
  <1>6. /\ marked' \in [Obj -> Colours]
        /\ \A x \in Obj : marked'[x] = IF x = o THEN Traversed(o) ELSE
             IF x \notin M THEN marked[x] ELSE IF tt[x] = "userdata" THEN "black" ELSE "gray"
    BY <1>1, <1>4, <1>5 DEF Painted, Colours
  <1>7. Allocated' = Allocated /\ OtherWhite' = OtherWhite /\ ProgramRoots' = ProgramRoots
        /\ Of("thread")' = Of("thread") /\ Of("table")' = Of("table")
        /\ Of("userdata")' = Of("userdata")
        /\ Listable' = Listable
    BY <1>1 DEF Allocated, OtherWhite, Of, Listable, ProgramRoots
  <1>8. White' = White \ M
    BY <1>2, <1>4, <1>5, <1>6, <1>7 DEF White, Whites, Allocated
  <1>9. Dead' = {} /\ Live' = Live
    BY <1>2, <1>4, <1>5, <1>6, <1>7 DEF Dead, Whites, Allocated, Live
  <1>10. TypeOK'
    BY <1>1, <1>6 DEF IInv, TypeOK, Listable, Of
  <1>11. Shape' /\ Nested' /\ Closed'
    BY <1>1, <1>7, <1>9 DEF IInv, Shape, Nested, Closed, Live, Allocated
  <1>12. Coloured'
    BY <1>1, <1>2, <1>3, <1>4, <1>5, <1>6, <1>7, <1>8 DEF IInv, Coloured, Shape, Of, Listable,
        White, Allocated
  <1>13. OneListEach'
    <2>1. /\ gray \cap grayagain = {} /\ gray \cap weak = {} /\ grayagain \cap weak = {}
          /\ gray \cup grayagain \cup weak = {x \in Listable : marked[x] = "gray"}
      BY <1>1 DEF IInv, OneListEach
    <2>2. \A x \in M : marked[x] \in Whites /\ x \in Obj
      BY <1>3 DEF White, Allocated
    <2>3. \A x \in M : x \notin gray \cup grayagain \cup weak
      BY <2>1, <2>2 DEF Whites
    <2>4. Of("thread") \cap Weak = {}
      BY DEF Of, Weak
    <2>5. gray' \cap grayagain' = {} /\ gray' \cap weak' = {} /\ grayagain' \cap weak' = {}
      BY <1>1, <1>4, <2>1, <2>3, <2>4
    <2>6. {x \in Listable : marked'[x] = "gray"} =
            ({x \in Listable : marked[x] = "gray"} \ {o}) \cup (M \cap Listable)
                  \cup ({o} \cap (Of("thread") \cup Weak))
      BY <1>2, <1>5, <1>6, <2>2 DEF Listable, Of, Whites
    <2>7. gray' \cup grayagain' \cup weak' = {x \in Listable : marked'[x] = "gray"}
      BY <1>1, <2>1, <2>6
    <2> QED BY <1>7, <2>5, <2>7 DEF OneListEach
  <1>14. DeadAwaitSweep' /\ SweptAreWhite'
    BY <1>1, <1>9 DEF DeadAwaitSweep, SweptAreWhite
  <1>15. BlackSeesNoWhite'
    <2>1. marked'[o] = "black" => ref[o] \cap White \subseteq M
      BY <1>3, <1>5, <1>6 DEF Strong
    <2> QED BY <1>1, <1>3, <1>6, <1>7, <1>8, <2>1 DEF IInv, BlackSeesNoWhite, Allocated
  <1> QED BY <1>10, <1>11, <1>12, <1>13, <1>14, <1>15 DEF IInv

\* Freeing the dead objects of S leaves the heap of the living as it is.
LEMMA SweptProps ==
    ASSUME IInv, NEW S, S \subseteq Obj, Swept(S)
    PROVE  /\ tt' \in [Obj -> Types \cup {"free"}] /\ ref' \in [Obj -> SUBSET Obj]
           /\ mode' \in [Obj -> {"strong", "k", "v"}] /\ finalized' \in [Obj -> BOOLEAN]
           /\ Allocated' = Allocated \ (S \cap Dead)
           /\ \A o \in Live : tt'[o] = tt[o] /\ ref'[o] = ref[o] /\ tt'[o] # "free"
           /\ \A o \in Obj :
                 (tt'[o] = tt[o] /\ ref'[o] = ref[o]) \/ (tt'[o] = "free" /\ ref'[o] = {})
  <1> DEFINE freed == S \cap Dead
  <1>1. /\ tt' = [o \in Obj |-> IF o \in freed THEN "free" ELSE tt[o]]
        /\ ref' = [o \in Obj |-> IF o \in freed THEN {} ELSE ref[o]]
        /\ mode' = [o \in Obj |-> IF o \in freed THEN "strong" ELSE mode[o]]
        /\ finalized' = [o \in Obj |-> IF o \in freed THEN FALSE ELSE finalized[o]]
    BY DEF Swept
  <1>2. freed \subseteq Dead /\ freed \cap Live = {}
    BY DEF Live
  <1> HIDE DEF freed
  <1>3. tt' \in [Obj -> Types \cup {"free"}] /\ ref' \in [Obj -> SUBSET Obj]
    BY <1>1 DEF IInv, TypeOK
  <1>4. mode' \in [Obj -> {"strong", "k", "v"}] /\ finalized' \in [Obj -> BOOLEAN]
    BY <1>1 DEF IInv, TypeOK
  <1>5. Allocated' = Allocated \ freed
    BY <1>1 DEF Allocated
  <1>6. \A o \in Live : tt'[o] = tt[o] /\ ref'[o] = ref[o] /\ tt'[o] # "free"
    BY <1>1, <1>2 DEF Live, Allocated
  <1>7. \A o \in Obj : (tt'[o] = tt[o] /\ ref'[o] = ref[o]) \/ (tt'[o] = "free" /\ ref'[o] = {})
    BY <1>1
  <1> QED BY <1>3, <1>4, <1>5, <1>6, <1>7 DEF freed

\* Colours and references once the dead objects of S are freed and the rest whitened.
LEMMA SweptHeap ==
    ASSUME IInv, NEW S, S \subseteq Obj, Swept(S), Live' = Live, UNCHANGED <<tmudata, basic,
          nest>>
    PROVE  Shape' /\ Nested' /\ Closed'
  <1>1. /\ \A o \in Live : tt'[o] = tt[o] /\ ref'[o] = ref[o]
        /\ \A o \in Obj :
              (tt'[o] = tt[o] /\ ref'[o] = ref[o]) \/ (tt'[o] = "free" /\ ref'[o] = {})
    BY SweptProps
  <1>2. ProgramRoots' = ProgramRoots /\ ProgramRoots \cup tmudata \subseteq Live
        /\ Live \subseteq Obj
    BY DEF ProgramRoots, IInv, Closed, Live, Allocated
  <1>3. Main \in Live /\ Registry \in Live /\ \A i \in 1..Len(nest) : nest[i] \in Live
    <2>1. Main = nest[1] /\ 1 \in 1..Len(nest)
      BY Running DEF IInv, TypeOK
    <2> QED BY <1>2, <2>1, Running DEF ProgramRoots
  <1>4. Closed'
    BY <1>1, <1>2 DEF IInv, Closed
  <1>5. Nested'
    BY <1>1, <1>3 DEF IInv, Nested
  <1>6. Shape'
    BY <1>1, <1>2, <1>3 DEF IInv, Shape, Closed, ProgramRoots, Of
  <1> QED BY <1>4, <1>5, <1>6

\* Sweeping part of what is left keeps the invariant.
LEMMA SweepStep ==
    ASSUME IInv, NEW S, S \subseteq sweepgc, Swept(S), marked' = Whitened(S),
           sweepgc' = sweepgc \ S, UNCHANGED <<currentwhite, lists, tmudata, basic, nest, full>>,
           gcstate \in {"sweepstring", "sweep"}, gcstate' \in {"sweepstring", "sweep",
                 "finalize"},
           gcstate' = "finalize" => S = sweepgc
    PROVE  IInv'
  <1>1. S \subseteq Obj /\ marked \in [Obj -> Colours] /\ currentwhite \in Whites
        /\ OtherWhite \in Whites
        /\ OtherWhite # currentwhite
    BY DEF IInv, TypeOK, OtherWhite, Whites
  <1>2. /\ Allocated' = Allocated \ (S \cap Dead) /\ Dead \subseteq sweepgc
        /\ \A o \in Obj :
              (tt'[o] = tt[o] /\ ref'[o] = ref[o]) \/ (tt'[o] = "free" /\ ref'[o] = {})
        /\ tt' \in [Obj -> Types \cup {"free"}] /\ ref' \in [Obj -> SUBSET Obj]
        /\ mode' \in [Obj -> {"strong", "k", "v"}] /\ finalized' \in [Obj -> BOOLEAN]
    BY <1>1, SweptProps DEF IInv, DeadAwaitSweep
  <1>3. /\ marked' \in [Obj -> Colours]
        /\ \A o \in Obj : marked'[o] = IF o \in S \ Dead THEN currentwhite
                                       ELSE IF o \in S THEN "white0" ELSE marked[o]
    BY <1>1 DEF Whitened, Colours, Whites
  <1>4. OtherWhite' = OtherWhite
    BY DEF OtherWhite
  <1>5. Dead' = Dead \ S
    BY <1>1, <1>2, <1>3, <1>4 DEF Dead, Allocated
  <1>6. Live' = Live
    BY <1>2, <1>5 DEF Live
  <1>7. TypeOK'
    BY <1>2, <1>3 DEF IInv, TypeOK, lists, States
  <1>8. Shape' /\ Nested' /\ Closed'
    BY <1>1, <1>6, SweptHeap
  <1>9. gcstate' # "propagate"
    OBVIOUS
  <1>10. Coloured'
    <2>1. tmudata' = tmudata /\ currentwhite' = currentwhite /\ tmudata \cap Dead = {}
          /\ tmudata \subseteq Obj
      BY DEF IInv, TypeOK, Closed, Live
    <2> QED BY <1>1, <1>2, <1>3, <1>9, <2>1 DEF IInv, Coloured, Of, Whites
  <1>11. OneListEach' /\ BlackSeesNoWhite'
    BY <1>9 DEF OneListEach, BlackSeesNoWhite
  <1>12. \A o \in Allocated' \ (tmudata \cup sweepgc') : marked'[o] = currentwhite
    BY <1>1, <1>2, <1>3 DEF IInv, SweptAreWhite, Allocated
  <1>13. SweptAreWhite'
    BY <1>12 DEF SweptAreWhite
  <1>14. DeadAwaitSweep'
    BY <1>2, <1>5, <1>12 DEF DeadAwaitSweep
  <1> QED BY <1>7, <1>8, <1>10, <1>11, <1>13, <1>14 DEF IInv

\* singlestep in GCSsweepstring and GCSsweep.
LEMMA SweepInv ==
    ASSUME IInv, Sweep \/ SweepString
    PROVE  IInv'
  <1>1. CASE Sweep
    <2>1. PICK S \in SUBSET sweepgc :
            /\ Swept(S) /\ marked' = Whitened(S) /\ sweepgc' = sweepgc \ S
            /\ gcstate' = IF S = sweepgc THEN "finalize" ELSE "sweep"
      BY <1>1 DEF Sweep
    <2> QED BY <1>1, <2>1, SweepStep DEF Sweep
  <1>2. CASE SweepString
    <2>1. PICK S \in SUBSET (sweepgc \cap Of("string")) :
            /\ Swept(S) /\ marked' = Whitened(S) /\ sweepgc' = sweepgc \ S
            /\ gcstate' \in {"sweepstring", "sweep"}
      BY <1>2 DEF SweepString
    <2> QED BY <1>2, <2>1, SweepStep DEF SweepString
  <1> QED BY <1>1, <1>2

\* luaC_fullgc: the cycle in progress is swept to its end and the roots are marked.
LEMMA FullGCInv ==
    ASSUME IInv, FullGC
    PROVE  IInv'
  <1> DEFINE S == IF gcstate \in {"pause", "propagate"} THEN Allocated \ tmudata ELSE sweepgc
  <1>1. /\ Swept(S)
        /\ marked' = [o \in Obj |-> IF o \in Roots THEN "gray" ELSE Whitened(S)[o]]
        /\ gray' = Roots /\ grayagain' = {} /\ weak' = {} /\ sweepgc' = {}
        /\ gcstate' = "propagate" /\ full' = TRUE
        /\ UNCHANGED <<currentwhite, tmudata, basic, nest>>
    BY DEF FullGC
  <1>2. /\ S \subseteq Obj /\ marked \in [Obj -> Colours] /\ currentwhite \in Whites
        /\ OtherWhite \in Whites /\ OtherWhite # currentwhite
    BY DEF IInv, TypeOK, OtherWhite, Whites, Allocated
  <1>3. Dead \subseteq S
    BY DEF IInv, DeadAwaitSweep, TypeOK, States
  <1>4. \A o \in Allocated \ (tmudata \cup S) : marked[o] = currentwhite
    BY DEF IInv, DeadAwaitSweep, SweptAreWhite, TypeOK, States
  <1> HIDE DEF S
  <1>5. /\ Allocated' = Allocated \ Dead
        /\ \A o \in Live : tt'[o] = tt[o] /\ ref'[o] = ref[o]
        /\ \A o \in Obj :
              (tt'[o] = tt[o] /\ ref'[o] = ref[o]) \/ (tt'[o] = "free" /\ ref'[o] = {})
        /\ tt' \in [Obj -> Types \cup {"free"}] /\ ref' \in [Obj -> SUBSET Obj]
        /\ mode' \in [Obj -> {"strong", "k", "v"}] /\ finalized' \in [Obj -> BOOLEAN]
    BY <1>1, <1>2, <1>3, SweptProps
  <1>6. /\ Roots \subseteq Live /\ Roots \subseteq Of("table") \cup Of("thread")
        /\ Main \in Roots /\ Registry \in Roots
        /\ tmudata \subseteq Of("userdata") /\ Live \subseteq Obj
    <2>1. Main = nest[1] /\ 1 \in 1..Len(nest)
      BY Running DEF IInv, TypeOK
    <2> QED BY <2>1, Running, GCConstants DEF IInv, Shape, Closed, ProgramRoots, Roots, Of,
        Live, Allocated
  <1>7. \A o \in Obj : marked'[o] = IF o \in Roots THEN "gray"
                                    ELSE IF o \in S \ Dead THEN currentwhite
                                    ELSE IF o \in S THEN "white0" ELSE marked[o]
    BY <1>1 DEF Whitened
  <1>8. marked' \in [Obj -> Colours]
    <2>1. \A o \in Obj : marked'[o] \in Colours
      BY <1>2, <1>7 DEF Colours, Whites
    <2> QED BY <1>1, <2>1
  <1>9. OtherWhite' = OtherWhite
    BY <1>1 DEF OtherWhite
  <1>10. \A o \in Allocated' : IF o \in Roots THEN marked'[o] = "gray" ELSE
                                IF o \in tmudata THEN marked'[o] \in {"black",
                                      currentwhite} ELSE marked'[o] = currentwhite
    BY <1>2, <1>4, <1>5, <1>6, <1>7 DEF IInv, Coloured, Allocated
  <1>11. Dead' = {}
    BY <1>2, <1>9, <1>10 DEF Dead, Whites
  <1>12. Live' = Live
    BY <1>5, <1>11 DEF Live
  <1>13. TypeOK'
    BY <1>1, <1>2, <1>5, <1>6, <1>8 DEF IInv, TypeOK, States
  <1>14. Shape' /\ Nested' /\ Closed'
    BY <1>1, <1>2, <1>12, SweptHeap
  <1>15. Of("thread")' \subseteq Allocated' /\ Of("userdata")' \subseteq Allocated'
        /\ Listable' \subseteq Allocated'
    BY DEF Of, Listable, Allocated
  <1>16. \A o \in Roots : tt'[o] = tt[o] /\ tt[o] \in {"table", "thread"}
    BY <1>5, <1>6 DEF Of
  <1>17. \A o \in tmudata : tt'[o] = "userdata" /\ o \in Live
    BY <1>5, <1>6 DEF IInv, Closed, Of
  <1>18. Coloured'
    BY <1>1, <1>2, <1>6, <1>10, <1>15, <1>16, <1>17 DEF Coloured, Of, White, Whites
  <1>19. OneListEach'
    <2>1. {o \in Listable' : marked'[o] = "gray"} = Roots
      BY <1>2, <1>6, <1>10, <1>15, <1>16, <1>17 DEF Listable, Of, Whites
    <2> QED BY <1>1, <2>1 DEF OneListEach
  <1>20. DeadAwaitSweep' /\ SweptAreWhite'
    BY <1>1, <1>11 DEF DeadAwaitSweep, SweptAreWhite
  <1>21. BlackSeesNoWhite'
    BY <1>1, <1>2, <1>10 DEF BlackSeesNoWhite, Whites
  <1> QED BY <1>13, <1>14, <1>18, <1>19, <1>20, <1>21 DEF IInv
\* What the marking of S leaves white is not referred to by what it marked.
LEMMA MarksProps ==
    ASSUME NEW S
    PROVE  /\ Marks(S) \subseteq White /\ S \cap White \subseteq Marks(S)
           /\ \A x \in Marks(S) : Strong(x) \cap White \subseteq Marks(S)
  <1> DEFINE C(X) == S \cap White \subseteq X /\ \A x \in X : Strong(x) \cap White \subseteq X
  <1>1. Marks(S) = {o \in White : \A X \in SUBSET White : C(X) => o \in X}
    BY DEF Marks
  <1>2. Marks(S) \subseteq White
    BY <1>1
  <1>3. S \cap White \subseteq Marks(S)
    BY <1>1
  <1>4. ASSUME NEW x \in Marks(S), NEW y \in Strong(x) \cap White
        PROVE  y \in Marks(S)
    <2>1. ASSUME NEW X \in SUBSET White, C(X) PROVE y \in X
      <3>1. x \in X
        BY <1>1, <2>1
      <3> QED BY <2>1, <3>1
    <2> QED BY <1>1, <2>1
  <1> QED BY <1>2, <1>3, <1>4

\* What atomic marks, step by step: first from the running thread, the basic
\* metatables and the lists, then from the userdata set aside.
Again == weak \cup grayagain
First == Marks({L} \cup basic \cup UNION {Strong(o) : o \in Again})
Due == Separated(First)
Second == First \cup Marks(UNION {ref[u] : u \in tmudata \cup Due})
Found == (Allocated \ White) \cup First

\* Marking is complete where atomic separates the userdata: the roots are found,
\* and what a found object refers to strongly, unless it waits for its finalizer.
LEMMA AtomicMarks ==
    ASSUME IInv, gcstate = "propagate", gray = {}
    PROVE  /\ First \subseteq White /\ Due \subseteq Of("userdata") \cap White
           /\ Due \cap First = {}
           /\ basic \cap White \subseteq First
           /\ \A o \in Again \cup First : Strong(o) \cap White \subseteq First
           /\ Second \subseteq White /\ First \subseteq Second
           /\ \A o \in tmudata \cup Due : ref[o] \cap White \subseteq Second
           /\ \A o \in Second : Strong(o) \cap White \subseteq Second
           /\ ProgramRoots \subseteq Found
           /\ \A o \in Found \ tmudata : Strong(o) \subseteq Found
  <1>1. Dead = {} /\ Again = {o \in Listable : marked[o] = "gray"} /\ Live = Allocated
    BY DEF IInv, DeadAwaitSweep, OneListEach, Live, Again
  <1>2. /\ First \subseteq White /\ (L \in White => L \in First)
        /\ basic \cap White \subseteq First
        /\ \A o \in Again \cup First : Strong(o) \cap White \subseteq First
    <2> DEFINE from == {L} \cup basic \cup UNION {Strong(o) : o \in Again}
    <2>1. L \in from /\ basic \subseteq from /\ \A o \in Again : Strong(o) \subseteq from
      OBVIOUS
    <2>2. First = Marks(from)
      BY DEF First
    <2> HIDE DEF from
    <2> QED BY <2>1, <2>2, MarksProps
  <1>3. Due \subseteq Of("userdata") \cap White /\ Due \cap First = {}
    BY DEF Due, Separated
  <1>4. /\ Second \subseteq White /\ First \subseteq Second
        /\ \A o \in tmudata \cup Due : ref[o] \cap White \subseteq Second
        /\ \A o \in Second : Strong(o) \cap White \subseteq Second
    <2> DEFINE more == UNION {ref[u] : u \in tmudata \cup Due}
    <2>1. \A o \in tmudata \cup Due : ref[o] \subseteq more
      OBVIOUS
    <2>2. Second = First \cup Marks(more)
      BY DEF Second
    <2> HIDE DEF more
    <2>3. /\ Marks(more) \subseteq White /\ more \cap White \subseteq Marks(more)
          /\ \A o \in Marks(more) : Strong(o) \cap White \subseteq Marks(more)
      BY MarksProps
    <2> QED BY <1>2, <2>1, <2>2, <2>3
  <1>5. \A o \in Weak : tt[o] = "table"
    BY DEF Weak, Of
  <1>6. ASSUME NEW o \in Found \ tmudata PROVE Strong(o) \subseteq Found
    <2>1. o \in Allocated /\ Strong(o) \subseteq ref[o] /\ ref[o] \subseteq Allocated
      BY <1>1, <1>2 DEF Found, White, Strong, IInv, Closed
    <2>2. CASE o \in First
      BY <1>2, <2>1, <2>2 DEF Found
    <2>3. CASE o \in Allocated \ White
      <3>1. marked[o] \in {"gray", "black"} /\ o \in Obj
        BY <2>3 DEF IInv, TypeOK, Colours, White, Allocated
      <3>2. CASE marked[o] = "black"
        BY <2>1, <3>2 DEF IInv, BlackSeesNoWhite, Found
      <3>3. CASE marked[o] = "gray" /\ o \in Listable
        BY <1>1, <1>2, <2>1, <3>3 DEF Found
      <3>4. CASE marked[o] = "gray" /\ o \notin Listable
        <4>1. o \notin Of("userdata")
          BY <3>4 DEF IInv, Coloured
        <4>2. tt[o] = "string"
          BY <2>1, <3>1, <3>4, <4>1 DEF IInv, TypeOK, Types, Listable, Of, Allocated
        <4> QED BY <2>1, <3>1, <4>2 DEF IInv, Shape
      <3> QED BY <3>1, <3>2, <3>3, <3>4
    <2> QED BY <2>2, <2>3 DEF Found
  <1>7. \A i \in 1..Len(nest) : nest[i] \in Found
    <2> DEFINE bad == {i \in 1..Len(nest) : nest[i] \notin Found}
    <2> SUFFICES ASSUME bad # {} PROVE FALSE
      OBVIOUS
    <2>1. PICK i \in bad : \A j \in bad : i <= j
      <3>1. bad \subseteq Nat
        OBVIOUS
      <3> QED BY <3>1, LeastNumber
    <2>2. nest[1] = Main /\ Main \in Found
      BY <1>1, Running DEF IInv, TypeOK, Coloured, Found, Live, Allocated, Shape, GCConstants
    <2>3. i - 1 \in 1..Len(nest) - 1 /\ (i - 1) + 1 = i /\ i \in 1..Len(nest)
          /\ i - 1 \in 1..Len(nest)
      BY <2>1, <2>2, Running
    <2>4. nest[i - 1] \in Found
      BY <2>1, <2>3
    <2>5. nest[i] \in ref[nest[i - 1]] /\ tt[nest[i - 1]] = "thread"
      BY <2>3, Running DEF IInv, Nested
    <2>6. Strong(nest[i - 1]) = ref[nest[i - 1]] /\ nest[i - 1] \notin tmudata
      BY <1>5, <2>5 DEF Strong, IInv, Shape, Of
    <2> QED BY <1>6, <2>1, <2>4, <2>5, <2>6
  <1>8. ProgramRoots \subseteq Found
    <2>1. Registry \in Found /\ basic \subseteq Found
      BY <1>1, <1>2 DEF IInv, Coloured, Closed, ProgramRoots, Found
    <2> QED BY <1>7, <2>1 DEF ProgramRoots
  <1> QED BY <1>2, <1>3, <1>4, <1>6, <1>8

\* atomic: what stays white is referred to by nothing that does not, once the weak
\* tables are cleared, so the other white can be condemned.
LEMMA AtomicInv ==
    ASSUME IInv, Atomic
    PROVE  IInv'
  <1> DEFINE tmu == tmudata \cup Due
             trav == Again \cup Second \cup tmu
             wtab == trav \cap Weak
             live == (Allocated \ White) \cup trav
             done == [o \in Obj |-> finalized[o] \/ o \in Due]
             held == Of("string") \cap UNION {ref[t] : t \in wtab}
  <1>1. /\ marked' = [o \in Obj |-> IF o \in trav \cup held THEN Traversed(o) ELSE marked[o]]
        /\ finalized' = done /\ tmudata' = tmu
        /\ ref' = [o \in Obj |-> IF o \in wtab THEN {v \in ref[o] : ~Cleared(o, v, live,
              done)} ELSE ref[o]]
        /\ grayagain' = trav \cap Of("thread") /\ weak' = wtab /\ sweepgc' = Allocated \ tmu
        /\ currentwhite' = OtherWhite /\ gcstate' = "sweepstring"
        /\ UNCHANGED <<tt, mode, gray, basic, nest, full>>
        /\ gcstate = "propagate" /\ gray = {}
    BY DEF Atomic, Again, First, Due, Second
  <1>2. Dead = {} /\ Again \cup gray = {o \in Listable : marked[o] = "gray"} /\ Live = Allocated
    BY <1>1 DEF IInv, DeadAwaitSweep, OneListEach, Live, Again
  <1>3. /\ First \subseteq White /\ basic \cap White \subseteq First
        /\ \A o \in Again \cup First : Strong(o) \cap White \subseteq First
        /\ ProgramRoots \subseteq Found
    BY <1>1, AtomicMarks
  <1>4. Due \subseteq Of("userdata") \cap White
    BY <1>1, AtomicMarks
  <1>5. /\ Second \subseteq White /\ First \subseteq Second
        /\ \A o \in tmu : ref[o] \cap White \subseteq Second
        /\ \A o \in Second : Strong(o) \cap White \subseteq Second
    BY <1>1, AtomicMarks
  <1>6. trav \subseteq Allocated /\ trav \subseteq Obj /\ held \subseteq Allocated
        /\ Allocated \subseteq Obj
    BY <1>2, <1>4, <1>5 DEF IInv, Shape, Of, Listable, White, Allocated

  <1> DEFINE kept == (Allocated \ White) \cup trav \cup held
  <1>7. /\ currentwhite \in Whites /\ OtherWhite \in Whites /\ OtherWhite # currentwhite
        /\ OtherWhite' = currentwhite /\ Allocated' = Allocated
        /\ \A o \in White : marked[o] = currentwhite
    BY <1>1, <1>2 DEF IInv, TypeOK, OtherWhite, Whites, Allocated, White, Dead
  <1>8. /\ \A o \in Obj : marked'[o] = IF o \in trav \cup held THEN Traversed(o) ELSE marked[o]
        /\ \A o \in Obj : Traversed(o) \in {"gray", "black"}
        /\ \A o \in Obj : ref'[o] \subseteq ref[o] /\ (o \notin wtab => ref'[o] = ref[o])
    BY <1>1 DEF Traversed
  <1>9. Dead' = White \ (trav \cup held)
    BY <1>6, <1>7, <1>8 DEF Dead, White, Whites
  <1>10. Live' = kept
    BY <1>6, <1>7, <1>9 DEF Live, White
  <1>11. TypeOK'
    <2>1. marked' \in [Obj -> Colours]
      BY <1>1, <1>8 DEF IInv, TypeOK, Colours
    <2>2. ref' \in [Obj -> SUBSET Obj]
      BY <1>1 DEF IInv, TypeOK
    <2>3. finalized' \in [Obj -> BOOLEAN]
      <3>1. finalized' = done
        BY <1>1
      <3>2. \A o \in Obj : (finalized[o] \/ o \in Due) \in BOOLEAN
        OBVIOUS
      <3> QED BY <3>1, <3>2
    <2>4. grayagain' \subseteq Obj /\ weak' \subseteq Obj /\ sweepgc' \subseteq Obj
          /\ tmudata' \subseteq Obj
      BY <1>1, <1>6
    <2> QED BY <1>1, <1>7, <2>1, <2>2, <2>3, <2>4 DEF IInv, TypeOK, States
  <1>12. \A o \in Weak : tt[o] = "table"
    BY DEF Weak, Of
  <1>13. Shape'
    BY <1>1, <1>2, <1>4, <1>6, <1>7, <1>8, <1>10 DEF IInv, Shape, Of, White
  <1>14. Nested'
    BY <1>1, <1>2, <1>8, <1>12, Running DEF IInv, Nested, Live, Allocated
  <1>16. ProgramRoots' \subseteq kept
    <2>1. Found \subseteq kept
      BY <1>5 DEF Found
    <2> QED BY <1>1, <1>3, <2>1 DEF ProgramRoots
  <1>17. ASSUME NEW o \in kept, NEW v \in ref'[o]
         PROVE  v \in kept
    <2>1. o \in Allocated /\ v \in ref[o] /\ v \in Allocated /\ o \in Obj /\ v \in Obj
      BY <1>2, <1>6, <1>8 DEF IInv, Closed
    <2>2. CASE o \in wtab
      <3>1. ~Cleared(o, v, live, done)
        BY <1>1, <2>1, <2>2
      <3>2. v \in Of("string") => v \in held
        BY <2>1, <2>2
      <3> QED BY <3>1, <3>2 DEF Cleared
    <2>3. CASE o \in trav \ wtab
      <3>1. Strong(o) = ref[o]
        BY <2>3 DEF Strong
      <3> QED BY <1>3, <1>5, <2>1, <2>3, <3>1
    <2>4. CASE o \in held
      BY <2>1, <2>4 DEF IInv, Shape, Of
    <2>5. CASE o \in (Allocated \ White) \ (trav \cup held)
      <3>1. marked[o] \in {"gray", "black"}
        BY <2>1, <2>5 DEF IInv, TypeOK, Colours, White
      <3>2. CASE marked[o] = "gray"
        <4>1. o \notin Listable /\ o \notin Of("userdata")
          BY <1>1, <1>2, <2>5, <3>2 DEF IInv, Coloured
        <4>2. tt[o] = "string"
          BY <2>1, <4>1 DEF IInv, TypeOK, Types, Listable, Of, Allocated
        <4> QED BY <2>1, <4>2 DEF IInv, Shape
      <3>3. CASE marked[o] = "black"
        BY <1>1, <2>1, <2>5, <3>3 DEF IInv, BlackSeesNoWhite
      <3> QED BY <3>1, <3>2, <3>3
    <2> QED BY <2>2, <2>3, <2>4, <2>5
  <1>18. Closed'
    BY <1>1, <1>10, <1>16, <1>17 DEF Closed
  <1>19. Coloured'
    <2>1. \A o \in Of("thread") : Traversed(o) = "gray"
      BY DEF Traversed
    <2>2. \A o \in Of("userdata") : Traversed(o) = "black"
      BY <1>12 DEF Traversed, Of
    <2>3. tmu \subseteq Of("userdata")
      BY <1>4 DEF IInv, Shape
    <2> QED BY <1>1, <1>8, <2>1, <2>2, <2>3 DEF IInv, Coloured, Of
  <1>20. DeadAwaitSweep' /\ SweptAreWhite'
    BY <1>1, <1>7, <1>9 DEF DeadAwaitSweep, SweptAreWhite, White
  <1>21. OneListEach' /\ BlackSeesNoWhite'
    BY <1>1 DEF OneListEach, BlackSeesNoWhite
  <1> QED BY <1>11, <1>13, <1>14, <1>18, <1>19, <1>20, <1>21 DEF IInv

-----------------------------------------------------------------------------
(* What a set of objects leads to.                                          *)

\* What is two references away is reached, if there are two objects.
LEMMA ReachGrows ==
    ASSUME NEW D, IsFiniteSet(D), Cardinality(D) >= 2, NEW refs \in [D -> SUBSET D],
           NEW S, S \subseteq D
    PROVE  /\ S \subseteq Reachable(S, refs)
           /\ \A o \in S : refs[o] \subseteq Reachable(S, refs)
           /\ \A o \in S : \A p \in refs[o] : refs[p] \subseteq Reachable(S, refs)
  <1> DEFINE c == Cardinality(D)
  <1>1. PICK r : /\ c \in Nat /\ Reachable(S, refs) = r[c] /\ r[0] = S
                 /\ \A n \in 1..c : r[n] = r[n - 1] \cup UNION {refs[o] : o \in r[n - 1]}
    <2>1. S \subseteq D
      OBVIOUS
    <2>2. PICK r : Rounds(r, S, refs, c)
      BY <2>1, ReachSteps
    <2> QED BY <2>2 DEF Rounds
  <1>2. c >= 2
    OBVIOUS
  <1> HIDE DEF c
  <1> DEFINE T == {n \in Nat : n + 2 <= c => r[2] \subseteq r[n + 2]}
  <1>3. 0 \in T
    OBVIOUS
  <1>4. ASSUME NEW n \in T PROVE n + 1 \in T
    <2>1. CASE n + 3 <= c
      <3>1. r[n + 3] = r[n + 2] \cup UNION {refs[o] : o \in r[n + 2]} /\ r[2] \subseteq r[n + 2]
        BY <1>1, <2>1
      <3> QED BY <3>1
    <2>2. CASE ~(n + 3 <= c)
      BY <2>2
    <2> QED BY <2>1, <2>2
  <1>5. T = Nat
    BY <1>3, <1>4, NatSetInduction
  <1>6. c - 2 \in Nat /\ (c - 2) + 2 = c
    BY <1>1, <1>2
  <1>7. r[2] \subseteq Reachable(S, refs)
    <2>1. c - 2 \in T
      BY <1>5, <1>6
    <2> QED BY <1>1, <1>6, <2>1
  <1>8. r[1] = S \cup UNION {refs[o] : o \in S} /\ r[2] = r[1] \cup UNION {refs[o] : o \in r[1]}
    BY <1>1, <1>2
  <1> QED BY <1>7, <1>8

-----------------------------------------------------------------------------
(* What the collector guarantees.                                           *)

\* Every step of the program and of the collector keeps the invariant.
LEMMA NextInv == IInv /\ [Next]_vars => IInv'
  <1> SUFFICES ASSUME IInv, [Next]_vars PROVE IInv'
    OBVIOUS
  <1>1. ASSUME NEW o \in Obj, NEW k \in Kinds, New(o, k) PROVE IInv'
    BY <1>1, NewInv
  <1>2. ASSUME NEW o \in Obj, Intern(o) \/ Pop(o) \/ Resume(o) PROVE IInv'
    BY <1>2, InternInv, PopInv, ResumeInv
  <1>3. ASSUME NEW o \in Obj, NEW v \in Obj, Read(o, v) \/ Write(o, v) \/ Erase(o,
        v) \/ XMove(o, v)
        PROVE  IInv'
    BY <1>3, ReadInv, WriteInv, EraseInv, XMoveInv
  <1>4. ASSUME NEW o \in Obj, NEW m \in Modes, SetMode(o, m) PROVE IInv'
    BY <1>4, SetModeInv
  <1>5. ASSUME NEW S \in SUBSET Obj, SetBasic(S) PROVE IInv'
    BY <1>5, SetBasicInv
  <1>6. CASE Yield \/ FullGC
    BY <1>6, YieldInv, FullGCInv
  <1>7. CASE StartCycle \/ Atomic \/ SweepString \/ Sweep \/ EndCycle
    BY <1>7, StartCycleInv, AtomicInv, SweepInv, EndCycleInv
  <1>8. ASSUME NEW o \in Obj, Propagate(o) \/ Finalize(o) PROVE IInv'
    BY <1>8, PropagateInv, FinalizeInv
  <1>9. CASE UNCHANGED vars
    BY <1>9 DEF vars, lists, IInv, TypeOK, Shape, Nested, Closed, Coloured, OneListEach,
        DeadAwaitSweep,
        SweptAreWhite, BlackSeesNoWhite, Live, Dead, White, Allocated, OtherWhite, Of, Listable,
              ProgramRoots
  <1> QED BY <1>1, <1>2, <1>3, <1>4, <1>5, <1>6, <1>7, <1>8, <1>9 DEF Next, Program, SingleStep

\* Where no living object refers to a condemned one, nothing usable is condemned.
LEMMA InvIsSafe == IInv => UsableIsSafe
  <1> SUFFICES ASSUME IInv PROVE UsableIsSafe
    OBVIOUS
  <1>1. IsFiniteSet(Obj) /\ ref \in [Obj -> SUBSET Obj] /\ Live \subseteq Obj
    BY GCConstants DEF IInv, TypeOK, Live, Allocated
  <1>2. ProgramRoots \subseteq Live /\ \A o \in Live : ref[o] \subseteq Live
    BY DEF IInv, Closed
  <1>3. Usable \subseteq Live
    BY <1>1, <1>2, ReachStays DEF Usable
  <1> QED BY <1>3 DEF UsableIsSafe, NothingUsableIsFreed, Live, IInv, Closed

\* In every behaviour of the program and the collector (lgc.c, lapi.c), interleaved
\* in any order, the invariant holds.
THEOREM Collector == Spec => []IInv
  BY InitInv, NextInv, PTL DEF Spec

\* What the program can come to use is never freed nor condemned, and while marking
\* no traversed object refers to one the collector has not seen (lgc.c, the barriers
\* of lgc.h, luaS_newlstr).
THEOREM SafeFromTheCollector == Spec => []UsableIsSafe
  BY Collector, InvIsSafe, PTL

\* While marking, every gray object with a gclist field is on exactly one of the
\* lists gray, grayagain and weak, whatever barriers and traversals linked (lgc.c).
THEOREM ListsAreDisjoint == Spec => []OneListEach
  <1>1. IInv => OneListEach
    BY DEF IInv
  <1> QED BY <1>1, Collector, PTL

\* Dead objects exist only where the sweep has still to come, and a cycle begins
\* with every object white, after luaC_fullgc too (lgc.c, sweeplist and luaC_fullgc).
THEOREM DeadWait == Spec => []DeadAwaitSweep
  <1>1. IInv => DeadAwaitSweep
    BY DEF IInv
  <1> QED BY <1>1, Collector, PTL

-----------------------------------------------------------------------------
(* The refinement of Heap.                                                  *)

\* The state of lua_newstate is an initial heap.
LEMMA HeapInit == Init => H!Init
  <1> SUFFICES ASSUME Init PROVE H!Init
    OBVIOUS
  <1>1. ProgramRoots = {Main, Registry}
    BY DEF Init, ProgramRoots
  <1>2. tt \in [Obj -> {"free", "table", "thread"}]
        /\ \A o \in Obj : tt[o] = "free" <=> o \notin ProgramRoots
    BY <1>1, GCConstants DEF Init
  <1> QED BY <1>1, <1>2, GCConstants DEF Init, H!Init

\* What the program has at hand is usable.
LEMMA AccessibleIsUsable ==
    ASSUME IInv
    PROVE  /\ ProgramRoots \subseteq H!Usable /\ Accessible \subseteq H!Usable
           /\ L \in ProgramRoots
           /\ \A o \in Accessible : ref[o] \subseteq H!Usable
           /\ H!Usable \subseteq Live
  <1>1. H!Usable = Reachable(ProgramRoots, ref)
    BY Zenon DEF H!Usable, Reachable, H!Reachable, Cardinality, H!Cardinality, IsFiniteSet, H!IsFiniteSet
  <1>2. IsFiniteSet(Obj) /\ ref \in [Obj -> SUBSET Obj] /\ ProgramRoots \subseteq Live
        /\ Live \subseteq Obj
    BY GCConstants DEF IInv, TypeOK, Closed, Live, Allocated
  <1>3. Cardinality(Obj) >= 2
    <2>1. Cardinality({Main, Registry}) = 2
      <3>1. Main # Registry
        BY GCConstants
      <3>2. Cardinality({}) = 0 /\ IsFiniteSet({})
        BY FS_EmptySet
      <3>3. PICK one : one = {Main}
        OBVIOUS
      <3>4. PICK two : two = {Main, Registry}
        OBVIOUS
      <3>5. one = {} \cup {Main} /\ Main \notin {}
        BY <3>3
      <3>6. two = one \cup {Registry} /\ Registry \notin one
        BY <3>1, <3>3, <3>4
      <3>7. IsFiniteSet(one) /\ Cardinality(one) = 1
        BY ONLY <3>2, <3>5, FS_AddElement
      <3>8. Cardinality(two) = 2
        BY ONLY <3>6, <3>7, FS_AddElement
      <3> QED BY <3>4, <3>8
    <2>2. {Main, Registry} \subseteq Obj
      BY GCConstants
    <2>3. Cardinality({Main, Registry}) <= Cardinality(Obj) /\ Cardinality(Obj) \in Nat
      BY <1>2, <2>2, FS_Subset, FS_CardinalityType
    <2> QED BY <2>1, <2>3
  <1>4. /\ ProgramRoots \subseteq H!Usable
        /\ \A o \in ProgramRoots : ref[o] \subseteq H!Usable
        /\ \A o \in ProgramRoots : \A p \in ref[o] : ref[p] \subseteq H!Usable
    <2> HIDE DEF H!Usable
    <2>1. ProgramRoots \subseteq Obj
      BY <1>2
    <2> QED BY <1>1, <1>2, <1>3, <2>1, ReachGrows
  <1>5. L \in ProgramRoots /\ Registry \in ProgramRoots
    BY Running DEF ProgramRoots, L
  <1>6. H!Usable \subseteq Live
    BY <1>1, <1>2, ReachStays DEF IInv, Closed
  <1> QED BY <1>4, <1>5, <1>6 DEF Accessible

\* A program step that changes nothing but references, to what is at hand.
LEMMA RefsAreProgram ==
    ASSUME IInv, UNCHANGED <<tt, mode, finalized, tmudata, basic, nest>>,
           \A o \in Obj : \/ ref'[o] = ref[o]
                          \/ o \in H!Usable /\ ref'[o] \subseteq ref[o] \cup H!Usable
    PROVE  H!Program
  <1>1. ProgramRoots' = ProgramRoots
    BY DEF ProgramRoots
  <1> QED BY <1>1 DEF H!Program

\* The operations of lapi.c change only what the program can use.
LEMMA ProgramIsProgram ==
    ASSUME IInv, Program, ~FullGC
    PROVE  H!Program
  <1> USE DEF lists
  <1>1. ref \in [Obj -> SUBSET Obj] /\ L \in H!Usable /\ ref[L] \subseteq H!Usable /\ L \in Obj
        /\ H!Usable \subseteq Live
    BY AccessibleIsUsable DEF IInv, TypeOK, Accessible, Live, Allocated
  <1> HIDE DEF H!Usable
  <1>2. ASSUME NEW o \in Obj, NEW kind \in Kinds, New(o, kind) PROVE H!Program
    <2>1. o \in H!Free
      BY <1>2 DEF New, H!Free
    <2>2. (\A x \in Obj \ {o} : tt'[x] = tt[x]) /\ (\A x \in Obj \ {L} : ref'[x] = ref[x])
          /\ mode' = mode
          /\ ref'[L] = ref[L] \cup {o}
      BY <1>1, <1>2 DEF New, Push, IInv, TypeOK
    <2>3. UNCHANGED <<finalized, tmudata>> /\ ProgramRoots' = ProgramRoots
      BY <1>2 DEF New, ProgramRoots
    <2> QED BY <1>1, <2>1, <2>2, <2>3 DEF H!Program
  <1>3. ASSUME NEW o \in Obj, Intern(o) PROVE H!Program
    <2>1. (\A x \in Obj \ {L} : ref'[x] = ref[x]) /\ ref'[L] = ref[L] \cup {o} /\ tt[o] = "string"
      BY <1>1, <1>3 DEF Intern, Push
    <2>2. UNCHANGED <<tt, mode, finalized, tmudata>> /\ ProgramRoots' = ProgramRoots
      BY <1>3 DEF Intern, ProgramRoots
    <2> QED BY <1>1, <2>1, <2>2 DEF H!Program
  <1>4. ASSUME NEW o \in Obj, NEW v \in Obj, Read(o, v) PROVE H!Program
    <2>1. v \in H!Usable
      BY <1>4, AccessibleIsUsable DEF Read
    <2>2. (\A x \in Obj \ {L} : ref'[x] = ref[x]) /\ ref'[L] = ref[L] \cup {v}
      BY <1>1, <1>4 DEF Read, Push
    <2> QED BY <1>1, <1>4, <2>1, <2>2, RefsAreProgram DEF Read
  <1>5. ASSUME NEW v \in Obj, Pop(v) PROVE H!Program
    <2>1. (\A x \in Obj \ {L} : ref'[x] = ref[x]) /\ ref'[L] \subseteq ref[L]
      BY <1>1, <1>5 DEF Pop
    <2> QED BY <1>1, <1>5, <2>1, RefsAreProgram DEF Pop
  <1>6. ASSUME NEW o \in Obj, NEW v \in Obj, Write(o, v) PROVE H!Program
    <2>1. o \in H!Usable /\ v \in H!Usable
      BY <1>1, <1>6, AccessibleIsUsable DEF Write
    <2>2. (\A x \in Obj \ {o} : ref'[x] = ref[x]) /\ ref'[o] = ref[o] \cup {v}
      BY <1>1, <1>6 DEF Write
    <2> QED BY <1>6, <2>1, <2>2, RefsAreProgram DEF Write
  <1>7. ASSUME NEW o \in Obj, NEW v \in Obj, Erase(o, v) PROVE H!Program
    <2>1. o \in H!Usable
      BY <1>7, AccessibleIsUsable DEF Erase
    <2>2. (\A x \in Obj \ {o} : ref'[x] = ref[x]) /\ ref'[o] \subseteq ref[o]
      BY <1>1, <1>7 DEF Erase
    <2> QED BY <1>7, <2>1, <2>2, RefsAreProgram DEF Erase
  <1>8. ASSUME NEW t \in Obj, NEW v \in Obj, XMove(t, v) PROVE H!Program
    <2>1. t \in H!Usable /\ v \in H!Usable
      BY <1>1, <1>8, AccessibleIsUsable DEF XMove, ProgramRoots
    <2>2. (\A x \in Obj \ {L, t} : ref'[x] = ref[x]) /\ ref'[L] \subseteq ref[L]
          /\ ref'[t] = ref[t] \cup {v}
      BY <1>1, <1>8 DEF XMove
    <2> QED BY <1>1, <1>8, <2>1, <2>2, RefsAreProgram DEF XMove
  <1>9. ASSUME NEW t \in Obj, NEW m \in Modes, SetMode(t, m) PROVE H!Program
    <2>1. t \in H!Usable /\ \A x \in Obj \ {t} : mode'[x] = mode[x]
      BY <1>1, <1>9 DEF SetMode, IInv, TypeOK
    <2>2. UNCHANGED <<tt, ref, finalized, tmudata>> /\ ProgramRoots' = ProgramRoots
      BY <1>9 DEF SetMode, ProgramRoots
    <2> QED BY <2>1, <2>2 DEF H!Program
  <1>10. ASSUME NEW mt \in SUBSET Obj, SetBasic(mt) PROVE H!Program
    <2>1. UNCHANGED <<tt, ref, mode, finalized, tmudata>> /\ basic' \subseteq ref[L]
          /\ nest' = nest
      BY <1>10 DEF SetBasic
    <2>2. ProgramRoots' \subseteq ProgramRoots \cup H!Usable
      BY <1>1, <2>1 DEF ProgramRoots
    <2> QED BY <2>1, <2>2 DEF H!Program
  <1>11. ASSUME NEW t \in Obj, Resume(t) PROVE H!Program
    <2>1. UNCHANGED <<tt, ref, mode, finalized, tmudata, basic>> /\ nest' = Append(nest, t)
          /\ t \in H!Usable
      BY <1>1, <1>11 DEF Resume, heap
    <2>2. nest \in Seq(Obj)
      BY DEF IInv, TypeOK
    <2>3. \A i \in 1..Len(nest') : nest'[i] = t \/ \E j \in 1..Len(nest) : nest'[i] = nest[j]
      BY <2>1, <2>2
    <2>4. ProgramRoots' \subseteq ProgramRoots \cup H!Usable
      BY <2>1, <2>3 DEF ProgramRoots
    <2> QED BY <2>1, <2>4 DEF H!Program
  <1>12. ASSUME Yield PROVE H!Program
    <2>1. UNCHANGED <<tt, ref, mode, finalized, tmudata, basic>>
          /\ nest' = SubSeq(nest, 1, Len(nest) - 1)
      BY <1>12 DEF Yield, heap
    <2>2. nest \in Seq(Obj) /\ Len(nest) - 1 \in Nat /\ Len(nest) \in Nat
      BY Running DEF IInv, TypeOK
    <2>3. \A i \in 1..Len(nest') : i \in 1..Len(nest) /\ nest'[i] = nest[i]
      BY <2>1, <2>2
    <2>4. ProgramRoots' \subseteq ProgramRoots
      BY <2>1, <2>3 DEF ProgramRoots
    <2> QED BY <2>1, <2>4 DEF H!Program
  <1> QED BY <1>2, <1>3, <1>4, <1>5, <1>6, <1>7, <1>8, <1>9, <1>10, <1>11, <1>12 DEF Program

\* What is swept was lost.
LEMMA SweptIsReclaim ==
    ASSUME IInv, NEW S, S \subseteq Obj, Swept(S), UNCHANGED <<tmudata, basic, nest>>
    PROVE  H!Reclaim
  <1>1. S \cap Dead \in SUBSET (Obj \ (H!Usable \cup tmudata))
    BY AccessibleIsUsable DEF IInv, Closed, Live
  <1>2. ProgramRoots' = ProgramRoots
    BY DEF ProgramRoots
  <1> HIDE DEF H!Usable
  <1> QED BY <1>1, <1>2 DEF Swept, H!Reclaim

\* What is kept, in the terms of the collector: a set of its objects that holds S
\* and what they refer to strongly, past the objects of stop, holds all of it.
LEMMA KeptStays ==
    ASSUME IInv, NEW S, NEW stop, NEW X, X \subseteq Obj, S \subseteq X,
           \A o \in X \ stop : Strong(o) \subseteq X
    PROVE  H!Kept(S, stop) \subseteq X
  <1> DEFINE refs == [o \in Obj |-> IF o \in Weak \cup stop THEN {} ELSE ref[o]]
  <1>1. H!Kept(S, stop) = Reachable(S, [o \in Obj |-> IF o \in H!Weak \cup stop THEN {} ELSE ref[o]])
    BY Zenon DEF H!Kept, Reachable, H!Reachable, Cardinality, H!Cardinality, IsFiniteSet, H!IsFiniteSet
  <1>2. H!Weak = Weak
    BY DEF H!Weak, Weak, Of
  <1>3. refs \in [Obj -> SUBSET Obj] /\ \A o \in X : refs[o] \subseteq X
    BY DEF IInv, TypeOK, Strong
  <1> HIDE DEF refs
  <1>4. Reachable(S, refs) \subseteq X
    BY <1>3, GCConstants, ReachStays
  <1> QED BY <1>1, <1>2, <1>4 DEF refs

\* atomic sets aside userdata that no strong path leads to, and takes from weak
\* tables only what nobody else holds.
LEMMA AtomicIsSetAside ==
    ASSUME IInv, Atomic
    PROVE  H!SetAside
  <1> DEFINE tmu == tmudata \cup Due
             trav == Again \cup Second \cup tmu
             wtab == trav \cap Weak
             live == (Allocated \ White) \cup trav
             done == [o \in Obj |-> finalized[o] \/ o \in Due]
  <1>1. /\ finalized' = done /\ tmudata' = tmu
        /\ ref' = [o \in Obj |-> IF o \in wtab THEN {v \in ref[o] : ~Cleared(o, v, live,
              done)} ELSE ref[o]]
        /\ UNCHANGED <<tt, mode, basic, nest>>
        /\ gcstate = "propagate" /\ gray = {}
    BY DEF Atomic, Again, First, Due, Second
  <1>2. /\ First \subseteq White /\ Due \subseteq Of("userdata") \cap White /\ Due \cap First = {}
        /\ \A o \in Again \cup First : Strong(o) \cap White \subseteq First
        /\ Second \subseteq White /\ First \subseteq Second
        /\ \A o \in tmu : ref[o] \cap White \subseteq Second
        /\ \A o \in Second : Strong(o) \cap White \subseteq Second
        /\ ProgramRoots \subseteq Found
        /\ \A o \in Found \ tmudata : Strong(o) \subseteq Found
    BY <1>1, AtomicMarks
  <1>3. Live = Allocated /\ Allocated \subseteq Obj /\ Again \subseteq Allocated
        /\ Found \subseteq Obj
    BY <1>1, <1>2 DEF IInv, DeadAwaitSweep, Live, OneListEach, Again, Listable, Of, Allocated,
        Found, White
  <1>4. \A u \in Due : tt[u] = "userdata" /\ ~finalized[u] /\ u \in Obj
    BY DEF Due, Separated, Of
  <1>5. Due \subseteq Obj \ H!Kept(ProgramRoots, tmudata)
    <2>1. H!Kept(ProgramRoots, tmudata) \subseteq Found
      BY <1>2, <1>3, KeptStays
    <2> QED BY <1>2, <1>4, <2>1 DEF Found
  <1>6. H!Kept(ProgramRoots \cup tmu, {}) \subseteq live
    <2>1. live \subseteq Obj /\ live \subseteq Allocated
      BY <1>2, <1>3 DEF White, Of, Allocated, IInv, Shape
    <2>2. ProgramRoots \cup tmu \subseteq live
      BY <1>2 DEF Found
    <2>3. ASSUME NEW o \in live PROVE Strong(o) \subseteq live
      <3>1. Strong(o) \subseteq ref[o] /\ ref[o] \subseteq Allocated
        BY <1>3, <2>1 DEF Strong, IInv, Closed
      <3>2. CASE o \in trav
        BY <1>2, <3>1, <3>2
      <3>3. CASE o \notin trav
        BY <1>2, <3>3 DEF Found
      <3> QED BY <3>2, <3>3
    <2> HIDE DEF live, tmu
    <2>4. \A o \in live \ {} : Strong(o) \subseteq live
      BY <2>3
    <2> QED BY <2>1, <2>2, <2>4, KeptStays
  <1>7. /\ tmudata' = tmudata \cup Due /\ finalized' = done
        /\ UNCHANGED <<tt, mode>> /\ ProgramRoots' = ProgramRoots
    BY <1>1 DEF ProgramRoots
  <1>8. ASSUME NEW t \in Obj
        PROVE  /\ ref'[t] \subseteq ref[t]
               /\ ref'[t] # ref[t] => t \in H!Weak
               /\ \A v \in ref[t] \ ref'[t] :
                        v \notin H!Kept(ProgramRoots \cup tmudata', {}) \/ (mode[t] = "v"
                              /\ finalized'[v])
    <2> HIDE DEF live, done, trav
    <2>1. CASE t \notin wtab
      <3>1. ref'[t] = ref[t]
        BY <1>1, <2>1
      <3> QED BY <3>1
    <2>2. CASE t \in wtab
      <3> DEFINE gone(v) == Cleared(t, v, live, done)
      <3>1. ref'[t] = {v \in ref[t] : ~gone(v)} /\ t \in H!Weak
        BY <1>1, <2>2 DEF Weak, H!Weak, Of
      <3>2. ASSUME NEW v \in ref[t], gone(v)
            PROVE  v \notin H!Kept(ProgramRoots \cup tmudata', {}) \/ (mode[t] = "v"
                  /\ finalized'[v])
        <4>1. v \notin live \/ (mode[t] = "v" /\ done[v])
          BY <3>2 DEF Cleared
        <4>2. H!Kept(ProgramRoots \cup tmudata', {}) \subseteq live
          BY <1>1, <1>6
        <4> QED BY <1>1, <4>1, <4>2
      <3> HIDE DEF gone
      <3>3. \A v \in ref[t] \ ref'[t] : gone(v)
        BY <3>1
      <3>4. ref'[t] \subseteq ref[t]
        BY <3>1
      <3> QED BY <3>1, <3>2, <3>3, <3>4
    <2> QED BY <2>1, <2>2
  <1> QED BY <1>4, <1>5, <1>7, <1>8 DEF H!SetAside

\* GCTM hands one userdata to the running thread.
LEMMA FinalizeIsHandOver ==
    ASSUME IInv, NEW u \in Obj, Finalize(u)
    PROVE  H!HandOver
  <1>1. L \in ProgramRoots /\ ProgramRoots' = ProgramRoots
    BY AccessibleIsUsable DEF Finalize, ProgramRoots
  <1> QED BY <1>1 DEF Finalize, H!HandOver

\* Each step of the program and of the collector is a step of the heap, or none.
LEMMA StepIsHeapStep == IInv /\ [Next]_vars => [H!Next]_H!vars
  <1> SUFFICES ASSUME IInv, [Next]_vars PROVE H!Next \/ UNCHANGED H!vars
    OBVIOUS
  <1> USE DEF H!Next
  <1>1. CASE Program /\ ~FullGC
    BY <1>1, ProgramIsProgram
  <1>2. CASE Atomic
    BY <1>2, AtomicIsSetAside
  <1>3. ASSUME NEW u \in Obj, Finalize(u) PROVE H!Next
    BY <1>3, FinalizeIsHandOver
  <1>4. CASE SweepString \/ Sweep
    <2>1. PICK S : S \subseteq sweepgc /\ Swept(S)
      BY <1>4 DEF SweepString, Sweep
    <2>2. S \subseteq Obj /\ UNCHANGED <<tmudata, basic, nest>>
      BY <1>4, <2>1 DEF SweepString, Sweep, IInv, TypeOK
    <2> QED BY <2>1, <2>2, SweptIsReclaim
  <1>5. CASE FullGC
    <2>1. PICK S : S \subseteq Obj /\ Swept(S)
      BY <1>5 DEF FullGC, IInv, TypeOK, Allocated
    <2> QED BY <1>5, <2>1, SweptIsReclaim DEF FullGC
  <1>6. CASE StartCycle \/ EndCycle \/ (\E o \in Obj : Propagate(o)) \/ UNCHANGED vars
    BY <1>6 DEF StartCycle, EndCycle, Propagate, vars, heap, H!vars, ProgramRoots
  <1> QED BY <1>1, <1>2, <1>3, <1>4, <1>5, <1>6 DEF Next, SingleStep

\* Colours, barriers, lists and phases (lgc.c) implement the heap that Heap promises
\* the program: for any number of objects, every step is a step of the heap or none.
THEOREM CollectorIsHeap == Spec => ImplementsHeap
  BY HeapInit, StepIsHeapStep, Collector, PTL DEF Spec, ImplementsHeap, H!Spec
=============================================================================
