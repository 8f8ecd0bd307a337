----------------------------- MODULE UpvalProof -----------------------------
(***************************************************************************)
(* What holds in LuaUpval for any number of addresses and of threads, any   *)
(* size of a stack and of a step of the sweep: nothing a running program can *)
(* come to is freed, and the lists of open upvalues agree.                  *)
(***************************************************************************)
EXTENDS Parts, Integers, Sequences, Induction, FiniteSetTheorems, SequenceTheorems, TLAPS

-----------------------------------------------------------------------------
(* What is left of a list.                                                  *)

\* k is what the first n members of q leave when those outside D are unlinked.
Leaves(k, q, n, D) ==
    \E f \in [1..Len(k) -> 1..n] :
        /\ \A i \in 1..Len(k) : k[i] = q[f[i]] /\ q[f[i]] \in D
        /\ \A i, j \in 1..Len(k) : i < j => f[i] < f[j]
        /\ \A j \in 1..n : q[j] \in D => \E i \in 1..Len(k) : f[i] = j

\* p collects the members of q that are in D, one after the other.
Collects(p, q, D) ==
    /\ p[0] = <<>> /\ U!Select(q, D) = p[Len(q)]
    /\ \A n \in 1..Len(q) : p[n] = IF q[n] \in D THEN Append(p[n - 1], q[n]) ELSE p[n - 1]

\* Select is where that ends.
LEMMA SelectCollects ==
    ASSUME NEW M, NEW q \in Seq(M), NEW D
    PROVE  \E p : Collects(p, q, D)
  <1> DEFINE c == Len(q)
             V == Seq(M)
             add(n, k) == IF q[n] \in D THEN Append(k, q[n]) ELSE k
             pass == CHOOSE p : p = [n \in 0..c |-> IF n = 0 THEN <<>> ELSE add(n, p[n - 1])]
             Step == [n \in Nat |-> [k \in V |-> IF n < c THEN add(n + 1, k) ELSE k]]
  <1>1. U!Select(q, D) = pass[c]
    BY Zenon DEF U!Select
  <1>2. c \in Nat /\ <<>> \in V /\ \A n \in 1..c : \A k \in V : add(n, k) \in V
    <2>1. \A n \in 1..c : q[n] \in M
      OBVIOUS
    <2> QED BY <2>1
  <1> HIDE DEF c, add, V
  <1>3. Step \in [Nat -> [V -> V]]
    <2>1. ASSUME NEW n \in Nat
          PROVE  [k \in V |-> IF n < c THEN add(n + 1, k) ELSE k] \in [V -> V]
      <3>1. CASE n < c
        <4>1. n + 1 \in 1..c
          BY <1>2, <3>1
        <4> QED BY <1>2, <3>1, <4>1
      <3>2. CASE ~(n < c)
        BY <3>2
      <3> QED BY <3>1, <3>2
    <2> QED BY <2>1
  <1>4. PICK g \in [0..c -> V] : g = [n \in 0..c |-> IF n = 0 THEN <<>> ELSE Step[n - 1][g[n - 1]]]
    <2> HIDE DEF Step
    <2>1. RecursiveUpTo(V, <<>>, Step, c)
      BY <1>2, <1>3, BoundedRecursion
    <2> QED BY <2>1 DEF RecursiveUpTo
  <1>5. ASSUME NEW n \in 1..c
        PROVE  Step[n - 1][g[n - 1]] = add(n, g[n - 1])
    <2>1. n - 1 \in 0..c /\ n - 1 \in Nat /\ n - 1 < c /\ (n - 1) + 1 = n
      BY <1>2
    <2>2. g[n - 1] \in V
      BY <2>1
    <2>3. Step[n - 1] = [k \in V |-> IF n - 1 < c THEN add((n - 1) + 1, k) ELSE k]
      BY <2>1
    <2> HIDE DEF Step
    <2> QED BY <2>1, <2>2, <2>3
  <1> HIDE DEF Step
  <1>6. ASSUME NEW n \in 0..c
        PROVE  (IF n = 0 THEN <<>> ELSE Step[n - 1][g[n - 1]])
                 = IF n = 0 THEN <<>> ELSE add(n, g[n - 1])
    <2>1. n = 0 \/ n \in 1..c
      BY <1>2
    <2> QED BY <1>5, <2>1
  <1>7. g = [n \in 0..c |-> IF n = 0 THEN <<>> ELSE add(n, g[n - 1])]
    BY <1>4, <1>6
  <1>8. pass = [n \in 0..c |-> IF n = 0 THEN <<>> ELSE add(n, pass[n - 1])]
    BY <1>7
  <1> HIDE DEF pass
  <1>9. pass[0] = <<>> /\ \A n \in 1..c : pass[n] = add(n, pass[n - 1])
    <2>1. 0 \in 0..c /\ \A n \in 1..c : n \in 0..c /\ n # 0
      BY <1>2
    <2> QED BY <1>8, <2>1
  <1> QED BY <1>1, <1>9 DEF Collects, c, add

\* One member more is left, or the same.
LEMMA LeavesNext ==
    ASSUME NEW M, NEW q \in Seq(M), NEW D, NEW n \in Nat, n + 1 \in 1..Len(q),
           NEW k \in Seq(M), Leaves(k, q, n, D)
    PROVE  IF q[n + 1] \in D THEN Leaves(Append(k, q[n + 1]), q, n + 1, D)
           ELSE Leaves(k, q, n + 1, D)
  <1> DEFINE c == Len(k)
  <1>1. PICK f \in [1..c -> 1..n] :
           /\ \A i \in 1..c : k[i] = q[f[i]] /\ q[f[i]] \in D
           /\ \A i, j \in 1..c : i < j => f[i] < f[j]
           /\ \A j \in 1..n : q[j] \in D => \E i \in 1..c : f[i] = j
    BY DEF Leaves
  <1>2. c \in Nat /\ \A i \in 1..c : f[i] \in 1..n /\ f[i] \in 1..n + 1 /\ f[i] < n + 1
    OBVIOUS
  <1>3. \A j \in 1..n + 1 : j = n + 1 \/ j \in 1..n
    OBVIOUS
  <1>4. CASE q[n + 1] \in D
    <2> DEFINE r == Append(k, q[n + 1])
               g == [i \in 1..c + 1 |-> IF i = c + 1 THEN n + 1 ELSE f[i]]
    <2>1. r \in Seq(M) /\ Len(r) = c + 1 /\ r[c + 1] = q[n + 1] /\ \A i \in 1..c : r[i] = k[i]
      BY <1>2
    <2>2. \A i \in 1..c + 1 : i = c + 1 \/ (i \in 1..c /\ i # c + 1)
      BY <1>2
    <2>3. c + 1 \in 1..c + 1 /\ \A i \in 1..c : i \in 1..c + 1 /\ i # c + 1 /\ i < c + 1
      BY <1>2
    <2> HIDE DEF r, c
    <2>4. g \in [1..c + 1 -> 1..n + 1]
      BY <1>2, <2>2
    <2>5. g[c + 1] = n + 1 /\ \A i \in 1..c : g[i] = f[i]
      BY <2>3
    <2> HIDE DEF g
    <2>6. \A i \in 1..c + 1 : r[i] = q[g[i]] /\ q[g[i]] \in D
      BY <1>1, <1>4, <2>1, <2>2, <2>5
    <2>7. \A i, j \in 1..c + 1 : i < j => g[i] < g[j]
      <3> SUFFICES ASSUME NEW i \in 1..c + 1, NEW j \in 1..c + 1, i < j PROVE g[i] < g[j]
        OBVIOUS
      <3>1. i \in 1..c
        BY <1>2, <2>2
      <3>2. CASE j = c + 1
        BY <1>2, <2>5, <3>1, <3>2
      <3>3. CASE j \in 1..c
        BY <1>1, <2>5, <3>1, <3>3
      <3> QED BY <2>2, <3>2, <3>3
    <2>8. \A j \in 1..n + 1 : q[j] \in D => \E i \in 1..c + 1 : g[i] = j
      BY <1>1, <1>3, <2>3, <2>5
    <2> HIDE DEF r
    <2>9. Leaves(r, q, n + 1, D)
      <3>1. 1..Len(r) = 1..c + 1
        BY <2>1
      <3>2. /\ g \in [1..Len(r) -> 1..n + 1]
            /\ \A i \in 1..Len(r) : r[i] = q[g[i]] /\ q[g[i]] \in D
            /\ \A i, j \in 1..Len(r) : i < j => g[i] < g[j]
            /\ \A j \in 1..n + 1 : q[j] \in D => \E i \in 1..Len(r) : g[i] = j
        BY <2>4, <2>6, <2>7, <2>8, <3>1
      <3> QED BY ONLY <3>2, Zenon DEF Leaves
    <2> QED BY <1>4, <2>9 DEF r
  <1>5. CASE q[n + 1] \notin D
    <2>1. f \in [1..c -> 1..n + 1]
      BY <1>2
    <2>2. \A j \in 1..n + 1 : q[j] \in D => \E i \in 1..c : f[i] = j
      BY <1>1, <1>3, <1>5
    <2> QED BY <1>1, <1>5, <2>1, <2>2 DEF Leaves
  <1> QED BY <1>4, <1>5

\* Select leaves the members that are in D, in their order.
LEMMA SelectLeaves ==
    ASSUME NEW M, NEW q \in Seq(M), NEW D
    PROVE  U!Select(q, D) \in Seq(M) /\ Leaves(U!Select(q, D), q, Len(q), D)
  <1>1. PICK p : Collects(p, q, D)
    BY SelectCollects
  <1> DEFINE c == Len(q)
             T == {n \in Nat : n <= c => p[n] \in Seq(M) /\ Leaves(p[n], q, n, D)}
  <1>2. c \in Nat /\ \A i \in 1..c : q[i] \in M
    OBVIOUS
  <1>3. p[0] = <<>> /\ \A n \in 1..c : p[n] = IF q[n] \in D THEN Append(p[n - 1], q[n]) ELSE p[n - 1]
    BY <1>1 DEF Collects
  <1>4. 0 \in T
    <2>1. <<>> \in Seq(M) /\ Leaves(<<>>, q, 0, D)
      <3> DEFINE f == [i \in 1..0 |-> i]
      <3> DEFINE k == <<>>
      <3>1. /\ f \in [1..Len(k) -> 1..0]
            /\ \A i \in 1..Len(k) : k[i] = q[f[i]] /\ q[f[i]] \in D
            /\ \A i, j \in 1..Len(k) : i < j => f[i] < f[j]
            /\ \A j \in 1..0 : q[j] \in D => \E i \in 1..Len(k) : f[i] = j
        OBVIOUS
      <3>2. <<>> \in Seq(M)
        OBVIOUS
      <3> HIDE DEF f
      <3> QED BY ONLY <3>1, <3>2, Zenon DEF Leaves
    <2> QED BY <1>3, <2>1
  <1>5. ASSUME NEW n \in T PROVE n + 1 \in T
    <2>1. CASE n + 1 <= c
      <3>1. /\ n \in Nat /\ n + 1 \in 1..c /\ (n + 1) - 1 = n
            /\ p[n] \in Seq(M) /\ Leaves(p[n], q, n, D)
        BY <1>2, <2>1
      <3>2. q[n + 1] \in M
        BY <1>2, <3>1
      <3>3. p[n + 1] = IF q[n + 1] \in D THEN Append(p[n], q[n + 1]) ELSE p[n]
        BY <1>3, <3>1
      <3>4. p[n + 1] \in Seq(M)
        BY <3>1, <3>2, <3>3
      <3>5. IF q[n + 1] \in D THEN Leaves(Append(p[n], q[n + 1]), q, n + 1, D)
            ELSE Leaves(p[n], q, n + 1, D)
        BY <3>1, LeavesNext
      <3>6. Leaves(p[n + 1], q, n + 1, D)
        <4>1. CASE q[n + 1] \in D
          BY <3>3, <3>5, <4>1
        <4>2. CASE q[n + 1] \notin D
          BY <3>3, <3>5, <4>2
        <4> QED BY <4>1, <4>2
      <3> QED BY <3>1, <3>4, <3>6
    <2>2. CASE ~(n + 1 <= c)
      BY <2>2
    <2> QED BY <2>1, <2>2
  <1>6. T = Nat
    BY <1>4, <1>5, NatSetInduction
  <1>7. c \in T /\ c <= c
    BY <1>2, <1>6
  <1> QED BY <1>1, <1>7 DEF Collects

-----------------------------------------------------------------------------
(* The heap, and what objects refer to.                                     *)

Value == U!Obj \cup {U!Nil}
Threads == [tt : {"thread"}, stack : Seq(Value), open : Seq(U!Obj)]
Closures == [tt : {"closure"}, ups : SUBSET U!Obj]
Upvals == [tt : {"upval"}, on : U!Obj \cup {0}, at : Nat, own : Value]
Heaps == [U!Obj -> Threads \cup Closures \cup Upvals \cup {U!Free}]

\* What each kind of object is made of.
LEMMA Kinds ==
    ASSUME NEW h \in Heaps, NEW o \in U!Obj
    PROVE  /\ h[o].tt \in {"free", "thread", "closure", "upval"}
           /\ h[o].tt = "free" => h[o] = U!Free
           /\ h[o].tt = "thread" => /\ h[o] \in Threads /\ h[o].stack \in Seq(Value)
                                    /\ h[o].open \in Seq(U!Obj)
           /\ h[o].tt = "closure" => h[o] \in Closures /\ h[o].ups \subseteq U!Obj
           /\ h[o].tt = "upval" => /\ h[o] \in Upvals /\ h[o].on \in U!Obj \cup {0}
                                   /\ h[o].at \in Nat /\ h[o].own \in Value
  <1>1. h[o] \in Threads \cup Closures \cup Upvals \cup {U!Free}
    BY DEF Heaps
  <1>2. CASE h[o] \in Threads
    BY <1>2 DEF Threads
  <1>3. CASE h[o] \in Closures
    BY <1>3 DEF Closures
  <1>4. CASE h[o] \in Upvals
    BY <1>4 DEF Upvals
  <1>5. CASE h[o] = U!Free
    BY <1>5 DEF U!Free
  <1> QED BY <1>1, <1>2, <1>3, <1>4, <1>5

\* ValueOf and Refs of a heap h while the threads ns are nested.
ValueIn(h, u) == IF h[u].on # 0 THEN h[h[u].on].stack[h[u].at] ELSE h[u].own
CalleeIn(ns, t) == {ns[i] : i \in {j \in 2..Len(ns) : ns[j - 1] = t}}
RefsIn(h, ns, o) ==
    CASE h[o].tt = "thread" -> (U!ToSet(h[o].stack) \ {U!Nil}) \cup CalleeIn(ns, o)
      [] h[o].tt = "closure" -> h[o].ups
      [] h[o].tt = "upval" -> {ValueIn(h, o)} \ {U!Nil}
      [] OTHER -> {}

\* The references of the model are those of its heap.
LEMMA RefsAre ==
    /\ \A o \in U!Obj : U!Refs[o] = RefsIn(heap, nested, o) /\ U!Refs'[o] = RefsIn(heap', nested', o)
    /\ \A u \in U!Obj : heap[u].tt = "upval" => U!ValueOf(u) = ValueIn(heap, u)
  <1>1. \A u \in U!Obj : heap[u].tt = "upval" => U!ValueOf(u) = ValueIn(heap, u)
    BY DEF U!ValueOf, ValueIn, U!Open, U!Of
  <1>2. \A u \in U!Obj : heap'[u].tt = "upval" => U!ValueOf(u)' = ValueIn(heap', u)
    BY DEF U!ValueOf, ValueIn, U!Open, U!Of
  <1>3. ASSUME NEW o \in U!Obj PROVE U!Refs[o] = RefsIn(heap, nested, o)
    BY <1>1 DEF U!Refs, RefsIn, U!Callee, CalleeIn
  <1>4. ASSUME NEW o \in U!Obj PROVE U!Refs'[o] = RefsIn(heap', nested', o)
    BY <1>2 DEF U!Refs, RefsIn, U!Callee, CalleeIn
  <1> QED BY <1>1, <1>3, <1>4

\* By the kind of the object.
LEMMA RefsOf ==
    ASSUME NEW h, NEW ns, NEW o
    PROVE  /\ h[o].tt = "thread" => RefsIn(h, ns, o) = (U!ToSet(h[o].stack) \ {U!Nil}) \cup CalleeIn(ns, o)
           /\ h[o].tt = "closure" => RefsIn(h, ns, o) = h[o].ups
           /\ h[o].tt = "upval" => RefsIn(h, ns, o) = {ValueIn(h, o)} \ {U!Nil}
           /\ h[o].tt = "free" => RefsIn(h, ns, o) = {}
  BY DEF RefsIn

-----------------------------------------------------------------------------
(* The inductive invariant.                                                 *)

Colours == {"white", "other", "gray", "black"}
TypeOK ==
    /\ heap \in Heaps /\ marked \in [U!Obj -> Colours]
    /\ gcstate \in {"pause", "propagate", "sweep"}
    /\ nested \in Seq(U!Obj)

\* Objects that are not condemned.
Live == U!Allocated \ U!Dead

\* The threads that run or wait for a resume are distinct.
Nested ==
    /\ nested # <<>> /\ nested[1] = U!Main
    /\ \A i \in 1..Len(nested) : nested[i] \in U!Of("thread")
    /\ \A i, j \in 1..Len(nested) : nested[i] = nested[j] => i = j

\* No reference of the living leads to a condemned object, and no root is one.
Closed ==
    /\ \A i \in 1..Len(nested) : nested[i] \in Live
    /\ \A o \in Live : U!Refs[o] \subseteq Live

\* Closures refer to upvalues, and nothing else does.
Shape ==
    \A o \in Live : IF o \in U!Of("closure") THEN U!Refs[o] \subseteq U!Of("upval")
                    ELSE U!Refs[o] \cap U!Of("upval") = {}

\* Threads and open upvalues are never black, and condemned is only what awaits the sweep.
Coloured ==
    /\ \A o \in U!Of("thread") \cup U!Open : marked[o] # "black"
    /\ gcstate # "sweep" => U!Dead = {}

\* While marking: where each gray object is found, and the tricolour invariant.
Marking ==
    gcstate = "propagate" =>
        /\ U!Main \notin U!White
        /\ gray \subseteq U!Of("thread") \cup U!Of("closure")
        /\ \A o \in U!Gray : \/ o \in gray
                             \/ o \in U!Of("thread") /\ o \in grayagain
                             \/ o \in U!Open
        /\ \A o \in U!Allocated : marked[o] = "black" => U!Refs[o] \cap U!White = {}

\* What the sweep has passed is white.
Awaited == sweepgc \cup U!OpenIn(sweepgc)
Sweeping ==
    /\ gcstate = "sweep" => /\ sweepgc \subseteq U!Allocated \ U!Open
                            /\ \A o \in U!Allocated \ Awaited : marked[o] = "white"
    /\ gcstate = "pause" => \A o \in U!Allocated : marked[o] = "white"

\* The lists of open upvalues of a heap.
OpenOf(h) == {u \in U!Obj : h[u].tt = "upval" /\ h[u].on # 0}
Listing(h, t) ==
    LET q == h[t].open
    IN  /\ U!ToSet(q) = {u \in OpenOf(h) : h[u].on = t}
        /\ \A i \in 1..Len(q) : /\ h[q[i]].at <= Len(h[t].stack)
                                /\ i > 1 => h[q[i]].at < h[q[i - 1]].at
ListsIn(h) ==
    /\ \A t \in U!Obj : h[t].tt = "thread" => Listing(h, t)
    /\ \A u \in OpenOf(h) : h[h[u].on].tt = "thread" /\ h[u].at >= 1
Lists == uvhead = U!Open /\ ListsIn(heap)

IInv == TypeOK /\ Nested /\ Closed /\ Shape /\ Coloured /\ Marking /\ Sweeping /\ Lists

-----------------------------------------------------------------------------
(* Open upvalues and the slots they stand for.                              *)

\* An open upvalue stands for a slot that its thread's stack has.
LEMMA OpenSlot ==
    ASSUME NEW h \in Heaps, ListsIn(h), NEW u \in OpenOf(h)
    PROVE  /\ u \in U!Obj /\ h[u].tt = "upval" /\ h[u].on \in U!Obj /\ h[u].on # 0
           /\ h[h[u].on].tt = "thread" /\ h[h[u].on].stack \in Seq(Value)
           /\ h[u].at \in 1..Len(h[h[u].on].stack)
           /\ ValueIn(h, u) = h[h[u].on].stack[h[u].at] /\ ValueIn(h, u) \in Value
           /\ h[h[u].on].open \in Seq(U!Obj)
           /\ \E i \in 1..Len(h[h[u].on].open) : h[h[u].on].open[i] = u
  <1>1. u \in U!Obj /\ h[u].tt = "upval" /\ h[u].on # 0
    BY DEF OpenOf
  <1>2. h[u].on \in U!Obj /\ h[u].at \in Nat
    BY <1>1, Kinds
  <1> DEFINE t == h[u].on
  <1>3. h[t].tt = "thread" /\ h[u].at >= 1
    BY DEF ListsIn
  <1>4. h[t].stack \in Seq(Value) /\ h[t].open \in Seq(U!Obj)
    BY <1>2, <1>3, Kinds
  <1>5. Listing(h, t)
    BY <1>2, <1>3 DEF ListsIn
  <1>6. PICK i \in 1..Len(h[t].open) : h[t].open[i] = u
    <2>1. u \in U!ToSet(h[t].open)
      BY <1>5 DEF Listing
    <2> QED BY <1>4, <2>1 DEF U!ToSet
  <1>7. h[u].at \in 1..Len(h[t].stack)
    BY <1>2, <1>3, <1>4, <1>5, <1>6 DEF Listing
  <1>8. ValueIn(h, u) = h[t].stack[h[u].at] /\ ValueIn(h, u) \in Value
    BY <1>1, <1>4, <1>7 DEF ValueIn
  <1> QED BY <1>1, <1>2, <1>3, <1>4, <1>6, <1>7, <1>8

\* References are to objects.
LEMMA RefsTyped ==
    ASSUME NEW h \in Heaps, ListsIn(h), NEW ns \in Seq(U!Obj), NEW o \in U!Obj
    PROVE  RefsIn(h, ns, o) \subseteq U!Obj
  <1>1. CalleeIn(ns, o) \subseteq U!Obj
    BY DEF CalleeIn
  <1>2. CASE h[o].tt = "thread"
    <2>1. U!ToSet(h[o].stack) \subseteq Value
      BY <1>2, Kinds DEF U!ToSet
    <2> QED BY <1>1, <1>2, <2>1, RefsOf DEF Value
  <1>3. CASE h[o].tt = "closure"
    BY <1>3, Kinds, RefsOf
  <1>4. CASE h[o].tt = "upval"
    <2>1. ValueIn(h, o) \in Value
      <3>1. CASE h[o].on # 0
        BY <1>4, <3>1, OpenSlot DEF OpenOf
      <3>2. CASE h[o].on = 0
        BY <1>4, <3>2, Kinds DEF ValueIn
      <3> QED BY <3>1, <3>2
    <2> QED BY <1>4, <2>1, RefsOf DEF Value
  <1>5. CASE h[o].tt = "free"
    BY <1>5, RefsOf
  <1> QED BY <1>2, <1>3, <1>4, <1>5, Kinds

-----------------------------------------------------------------------------
(* It holds at first, and says what the run's property says.                *)

\* It holds at first.
LEMMA InitInv == U!Init => IInv
  <1> SUFFICES ASSUME U!Init PROVE IInv
    OBVIOUS
  <1>0. MaxObj \in Nat \ {0} /\ MaxStack \in Nat
    BY PartsConstants
  <1> USE <1>0 DEF U!Obj, U!Main
  <1>1. /\ heap \in [U!Obj -> {U!Thread(<<>>), U!Free}] /\ heap[U!Main] = U!Thread(<<>>)
        /\ \A o \in U!Obj : o # U!Main => heap[o] = U!Free
    BY DEF U!Init
  <1>2. U!Thread(<<>>) \in Threads /\ U!Thread(<<>>).tt = "thread" /\ U!Free.tt = "free"
        /\ U!Thread(<<>>).stack = <<>> /\ U!Thread(<<>>).open = <<>>
    BY DEF U!Thread, Threads, U!Free
  <1>3. TypeOK
    <2>1. heap \in Heaps
      BY <1>1, <1>2 DEF Heaps
    <2>2. nested \in Seq(U!Obj) /\ marked \in [U!Obj -> Colours]
      BY DEF U!Init, Colours
    <2> QED BY <2>1, <2>2 DEF TypeOK, U!Init
  <1>4. /\ U!Of("thread") = {U!Main} /\ U!Of("upval") = {} /\ U!Of("closure") = {} /\ U!Open = {}
        /\ U!Allocated = {U!Main} /\ U!Dead = {} /\ Live = {U!Main}
    BY <1>1, <1>2 DEF U!Of, U!Open, U!Allocated, U!Dead, Live, U!Init
  <1>5. Nested
    BY <1>4 DEF U!Init, Nested
  <1>6. U!Refs[U!Main] = {}
    <2>1. U!ToSet(heap[U!Main].stack) = {} /\ U!Callee(U!Main) = {}
      BY <1>1, <1>2 DEF U!Callee, U!Init, U!ToSet
    <2>2. U!Main \in U!Obj /\ heap[U!Main].tt = "thread"
      BY <1>1, <1>2
    <2> QED BY <2>1, <2>2 DEF U!Refs
  <1>7. Closed /\ Shape
    BY <1>4, <1>6 DEF Closed, Shape, U!Init
  <1>8. Coloured /\ Marking /\ Sweeping
    BY <1>4 DEF Coloured, Marking, Sweeping, U!Init
  <1>9. Lists
    <2>1. OpenOf(heap) = {}
      BY <1>1, <1>2 DEF OpenOf
    <2>2. ASSUME NEW t \in U!Obj, heap[t].tt = "thread" PROVE Listing(heap, t)
      <3>1. heap[t].open = <<>>
        BY <1>1, <1>2, <2>2
      <3> QED BY <2>1, <3>1 DEF Listing, U!ToSet
    <2> QED BY <1>4, <2>1, <2>2 DEF Lists, ListsIn, U!Init
  <1> QED BY <1>3, <1>5, <1>7, <1>8, <1>9 DEF IInv

\* The running thread, its stack and its list.
LEMMA Running ==
    ASSUME IInv
    PROVE  /\ U!L \in Live /\ U!L \in U!Obj /\ heap[U!L].tt = "thread" /\ U!L \in U!Of("thread")
           /\ marked[U!L] # "black"
           /\ Len(nested) \in Nat \ {0} /\ U!L = nested[Len(nested)]
           /\ U!Stack \in Seq(Value) /\ heap[U!L].open \in Seq(U!Obj)
           /\ \A i \in 1..Len(U!Stack) :
                 U!Stack[i] # U!Nil => U!Stack[i] \in Live /\ U!Stack[i] \notin U!Of("upval")
  <1>1. Len(nested) \in Nat \ {0} /\ Len(nested) \in 1..Len(nested) /\ U!L = nested[Len(nested)]
    BY DEF IInv, TypeOK, Nested, U!L, U!Last
  <1>2. U!L \in Live /\ U!L \in U!Of("thread")
    BY <1>1 DEF IInv, Nested, Closed
  <1>3. U!L \in U!Obj /\ heap[U!L].tt = "thread" /\ marked[U!L] # "black" /\ U!L \notin U!Of("closure")
    BY <1>2 DEF IInv, Coloured, U!Of
  <1>4. U!Stack \in Seq(Value) /\ heap[U!L].open \in Seq(U!Obj)
    BY <1>3, Kinds DEF IInv, TypeOK, U!Stack
  <1>5. U!Refs[U!L] \subseteq Live /\ U!Refs[U!L] \cap U!Of("upval") = {}
    BY <1>2, <1>3 DEF IInv, Closed, Shape
  <1>6. ASSUME NEW i \in 1..Len(U!Stack), U!Stack[i] # U!Nil PROVE U!Stack[i] \in U!Refs[U!L]
    <2>1. i \in DOMAIN U!Stack
      BY <1>4
    <2>2. U!Refs[U!L] = (U!ToSet(heap[U!L].stack) \ {U!Nil}) \cup CalleeIn(nested, U!L)
      BY <1>3, RefsAre, RefsOf
    <2> QED BY <1>6, <2>1, <2>2 DEF U!ToSet, U!Stack
  <1> QED BY <1>1, <1>2, <1>3, <1>4, <1>5, <1>6

\* It says what the property says: the closed set of the living holds what is reachable.
LEMMA InvIsSafe == IInv => UpvalsAreSafe
  <1> SUFFICES ASSUME IInv PROVE UpvalsAreSafe
    OBVIOUS
  <1>1. U!OpenListsAgree
    <2>1. uvhead = U!Open /\ U!Open = OpenOf(heap)
      BY DEF IInv, Lists, U!Open, OpenOf, U!Of
    <2>2. ASSUME NEW t \in U!Of("thread")
          PROVE  LET q == heap[t].open
                 IN  /\ U!ToSet(q) = {u \in U!Open : heap[u].on = t}
                     /\ \A i \in DOMAIN q : /\ heap[q[i]].at <= Len(heap[t].stack)
                                            /\ i > 1 => heap[q[i]].at < heap[q[i - 1]].at
      <3>1. t \in U!Obj /\ heap[t].tt = "thread"
        BY DEF U!Of
      <3>2. heap[t].open \in Seq(U!Obj)
        BY <3>1, Kinds DEF IInv, TypeOK
      <3>3. Listing(heap, t)
        BY <3>1 DEF IInv, Lists, ListsIn
      <3>4. U!ToSet(heap[t].open) = {u \in U!Open : heap[u].on = t}
        BY <2>1, <3>3 DEF Listing
      <3>5. DOMAIN heap[t].open = 1..Len(heap[t].open)
        BY <3>2
      <3>6. \A i \in 1..Len(heap[t].open) :
              /\ heap[heap[t].open[i]].at <= Len(heap[t].stack)
              /\ i > 1 => heap[heap[t].open[i]].at < heap[heap[t].open[i - 1]].at
        BY <3>3 DEF Listing
      <3> QED BY <3>4, <3>5, <3>6
    <2>3. ASSUME NEW u \in U!Open
          PROVE  /\ heap[u].on \in U!Of("thread") /\ marked[u] # "black"
                 /\ gcstate = "propagate" => u \notin U!Dead
                 /\ gcstate = "pause" \/ (gcstate = "sweep" /\ heap[u].on \notin sweepgc) =>
                        marked[u] = "white"
      <3>1. u \in U!Obj /\ heap[u].tt = "upval" /\ heap[u].on # 0
        BY DEF U!Open, U!Of
      <3>2. heap[u].on \in U!Obj
        BY <3>1, Kinds DEF IInv, TypeOK
      <3>3. heap[u].on \in U!Of("thread") /\ marked[u] # "black" /\ u \in U!Allocated
        BY <2>1, <3>1, <3>2 DEF IInv, Lists, ListsIn, Coloured, U!Of, U!Allocated
      <3>4. gcstate = "propagate" => u \notin U!Dead
        BY DEF IInv, Coloured
      <3>5. gcstate = "pause" => marked[u] = "white"
        BY <3>3 DEF IInv, Sweeping
      <3>6. gcstate = "sweep" /\ heap[u].on \notin sweepgc => marked[u] = "white"
        BY <3>3 DEF IInv, Sweeping, Awaited, U!OpenIn
      <3> QED BY <3>3, <3>4, <3>5, <3>6
    <2> QED BY <2>1, <2>2, <2>3 DEF U!OpenListsAgree
  <1>2. U!CapturedIsSafe
    <2>1. Live \subseteq U!Obj /\ U!ToSet(nested) \subseteq Live
      BY DEF IInv, TypeOK, Closed, Live, U!Allocated, U!ToSet
    <2>2. \A o \in Live : U!Refs[o] \subseteq Live
      BY DEF IInv, Closed
    <2>3. U!Refs \in [U!Obj -> SUBSET U!Obj]
      <3>1. DOMAIN U!Refs = U!Obj /\ U!Refs = [o \in U!Obj |-> U!Refs[o]]
        BY DEF U!Refs
      <3> QED BY <3>1, RefsAre, RefsTyped DEF IInv, TypeOK, Lists
    <2>4. IsFiniteSet(U!Obj)
      BY PartsConstants, FS_Interval DEF U!Obj
    <2>5. Reachable(U!ToSet(nested), U!Refs) \subseteq Live
      BY <2>1, <2>2, <2>3, <2>4, ReachStays
    <2>6. gcstate = "propagate" => \A o \in U!Allocated : marked[o] = "black" => U!Refs[o] \cap U!White = {}
      BY DEF IInv, Marking
    <2>7. U!Reachable(U!ToSet(nested), U!Refs) = Reachable(U!ToSet(nested), U!Refs)
      BY Zenon DEF U!Reachable, Reachable, Cardinality, U!Cardinality, IsFiniteSet, U!IsFiniteSet
    <2> QED BY <2>5, <2>6, <2>7 DEF U!CapturedIsSafe, Live
  <1> QED BY <1>1, <1>2 DEF UpvalsAreSafe, U!UpvalsAreSafe

-----------------------------------------------------------------------------
(* The program: a step makes the objects A, brings the dead upvalues W of   *)
(* the running thread back, and writes values of V to stacks.               *)

\* Stacks do not shrink, and new values on them are in V; the rest stays as it is.
Written(V) ==
    /\ \A o \in U!Of("closure") \cup U!Of("upval") : heap'[o] = heap[o]
    /\ \A t \in U!Of("thread") :
         /\ heap'[t].tt = "thread" /\ Len(heap'[t].stack) >= Len(heap[t].stack)
         /\ \A i \in 1..Len(heap'[t].stack) :
              \/ heap'[t].stack[i] \in V \cup {U!Nil}
              \/ i \in 1..Len(heap[t].stack) /\ heap'[t].stack[i] = heap[t].stack[i]

\* New closures refer to upvalues, new upvalues are the running thread's.
Made(A, W, V) ==
    \A a \in A :
        /\ heap'[a].tt # "free"
        /\ heap'[a].tt = "closure" =>
               heap'[a].ups \subseteq (Live \cap U!Of("upval")) \cup W \cup (A \cap U!Of("upval")')
        /\ heap'[a].tt = "upval" => heap'[a].on = U!L
        /\ heap'[a].tt = "thread" =>
               \A i \in 1..Len(heap'[a].stack) : heap'[a].stack[i] \in V \cup {U!Nil}

\* The kinds of all objects after such a step.
LEMMA StepKinds ==
    ASSUME IInv, TypeOK', NEW A, NEW W, NEW V, A \subseteq U!Of("free"), Written(V), Made(A, W, V),
           \A o \in U!Of("free") \ A : heap'[o] = heap[o]
    PROVE  /\ A \subseteq U!Obj /\ A \cap U!Allocated = {} /\ U!Allocated' = U!Allocated \cup A
           /\ \A o \in U!Allocated : o \in U!Obj /\ heap'[o].tt = heap[o].tt
           /\ \A k \in {"thread", "closure", "upval"} : /\ U!Of(k) \subseteq U!Of(k)' \cap U!Allocated
                                                         /\ U!Of(k)' \subseteq U!Of(k) \cup A
           /\ U!Open = OpenOf(heap) /\ U!Open' = OpenOf(heap')
           /\ U!Open \subseteq U!Open' /\ U!Open' \subseteq U!Open \cup A
           /\ \A u \in U!Open : heap'[u] = heap[u]
  <1>1. ASSUME NEW o \in U!Allocated PROVE o \in U!Obj /\ heap'[o].tt = heap[o].tt
    <2>1. o \in U!Obj /\ heap[o].tt # "free"
      BY DEF U!Allocated, U!Of
    <2>2. heap[o].tt \in {"thread", "closure", "upval"}
      BY <2>1, Kinds DEF IInv, TypeOK
    <2> QED BY <2>1, <2>2 DEF Written, U!Of
  <1>2. A \subseteq U!Obj /\ A \cap U!Allocated = {}
    BY DEF U!Of, U!Allocated
  <1>3. \A o \in U!Obj \ A : heap'[o].tt = heap[o].tt
    BY <1>1 DEF U!Allocated, U!Of
  <1>4. \A a \in A : heap'[a].tt # "free"
    BY DEF Made
  <1>5. U!Allocated' = U!Allocated \cup A
    BY <1>2, <1>3, <1>4 DEF U!Allocated, U!Of
  <1>6. ASSUME NEW k \in {"thread", "closure", "upval"}
        PROVE  U!Of(k) \subseteq U!Of(k)' \cap U!Allocated /\ U!Of(k)' \subseteq U!Of(k) \cup A
    BY <1>2, <1>3 DEF U!Of, U!Allocated
  <1>7. U!Open = OpenOf(heap) /\ U!Open' = OpenOf(heap')
    BY DEF U!Open, OpenOf, U!Of
  <1>8. \A u \in U!Open : heap'[u] = heap[u]
    BY DEF U!Open, Written
  <1>9. U!Open \subseteq U!Open' /\ U!Open' \subseteq U!Open \cup A
    <2>1. \A u \in U!Open : u \in U!Of("upval") /\ u \in U!Of("upval")'
      BY <1>6 DEF U!Open
    <2>2. \A u \in U!Open' : u \in U!Of("upval")' /\ heap'[u].on # 0
      BY DEF U!Open
    <2>3. ASSUME NEW u \in U!Open', u \notin A PROVE u \in U!Open
      <3>1. u \in U!Of("upval") /\ heap'[u].on # 0
        BY <1>6, <2>2, <2>3
      <3> QED BY <3>1 DEF Written, U!Open
    <2>4. ASSUME NEW u \in U!Open PROVE u \in U!Open'
      BY <1>8, <2>1 DEF U!Open
    <2> QED BY <2>3, <2>4
  <1> QED BY <1>1, <1>2, <1>5, <1>6, <1>7, <1>8, <1>9

\* Such a step keeps the invariant if what it writes is alive.
LEMMA ProgramStep ==
    ASSUME IInv, TypeOK', Nested', Lists', NEW A, NEW W, NEW V,
           UNCHANGED <<gcstate, gray, grayagain, sweepgc>>,
           A \subseteq U!Of("free"), W \subseteq {u \in U!Open \cap U!Dead : heap[u].on = U!L},
           V \subseteq Live', V \cap U!Of("upval")' = {},
           marked' = [o \in U!Obj |-> IF o \in A \cup W THEN "white" ELSE marked[o]],
           Written(V), Made(A, W, V), \A o \in U!Of("free") \ A : heap'[o] = heap[o],
           \A t \in U!Obj : CalleeIn(nested', t) \subseteq CalleeIn(nested, t) \cup V,
           \A i \in 1..Len(nested') : nested'[i] \in Live
    PROVE  IInv'
  <1>1. /\ A \subseteq U!Obj /\ A \cap U!Allocated = {} /\ U!Allocated' = U!Allocated \cup A
        /\ \A o \in U!Allocated : o \in U!Obj /\ heap'[o].tt = heap[o].tt
        /\ \A k \in {"thread", "closure", "upval"} : /\ U!Of(k) \subseteq U!Of(k)' \cap U!Allocated
                                                      /\ U!Of(k)' \subseteq U!Of(k) \cup A
        /\ U!Open = OpenOf(heap) /\ U!Open' = OpenOf(heap')
        /\ U!Open \subseteq U!Open' /\ U!Open' \subseteq U!Open \cup A
        /\ \A u \in U!Open : heap'[u] = heap[u]
    BY StepKinds
  <1>2. /\ heap \in Heaps /\ heap' \in Heaps /\ ListsIn(heap) /\ ListsIn(heap')
        /\ nested \in Seq(U!Obj) /\ nested' \in Seq(U!Obj)
    BY DEF IInv, TypeOK, Lists
  <1>3. /\ W \subseteq U!Open /\ W \subseteq U!Allocated /\ W \cap Live = {}
        /\ \A w \in W : heap[w].on = U!L /\ marked[w] = "other"
        /\ U!Dead' = U!Dead \ W /\ Live' = Live \cup A \cup W
    <2>1. W \subseteq U!Open /\ W \subseteq U!Dead /\ \A w \in W : heap[w].on = U!L /\ marked[w] = "other"
      BY DEF U!Dead
    <2>2. U!Dead' = U!Dead \ W
      BY <1>1 DEF U!Dead
    <2> QED BY <1>1, <2>1, <2>2 DEF Live, U!Dead
  <1>4. /\ U!L \in Live /\ U!L \in U!Obj /\ heap[U!L].tt = "thread"
        /\ U!L \in U!Of("thread")' /\ U!L \notin U!Of("closure")'
    BY <1>1, Running DEF U!Of, Live
  <1>5. \A t \in U!Of("thread") : RefsIn(heap', nested', t) \subseteq U!Refs[t] \cup V
    <2> SUFFICES ASSUME NEW t \in U!Of("thread"), NEW v \in RefsIn(heap', nested', t), v \notin V
                 PROVE  v \in U!Refs[t]
      OBVIOUS
    <2>1. t \in U!Obj /\ heap[t].tt = "thread" /\ heap'[t].tt = "thread"
      BY DEF U!Of, Written
    <2>2. /\ U!Refs[t] = (U!ToSet(heap[t].stack) \ {U!Nil}) \cup CalleeIn(nested, t)
          /\ RefsIn(heap', nested', t) = (U!ToSet(heap'[t].stack) \ {U!Nil}) \cup CalleeIn(nested', t)
      BY <2>1, RefsAre, RefsOf
    <2>3. CASE v \in CalleeIn(nested', t)
      BY <2>1, <2>2, <2>3
    <2>4. CASE v \in U!ToSet(heap'[t].stack) \ {U!Nil}
      <3>1. heap[t].stack \in Seq(Value) /\ heap'[t].stack \in Seq(Value)
        BY <1>2, <2>1, Kinds
      <3>2. PICK i \in 1..Len(heap'[t].stack) : heap'[t].stack[i] = v
        BY <2>4, <3>1 DEF U!ToSet
      <3>3. i \in 1..Len(heap[t].stack) /\ heap[t].stack[i] = v
        BY <2>4, <3>2 DEF Written
      <3> QED BY <2>2, <2>4, <3>1, <3>3 DEF U!ToSet
    <2> QED BY <2>2, <2>3, <2>4
  <1>6. \A u \in U!Open : RefsIn(heap', nested', u) \subseteq U!Refs[u] \cup V
    <2> SUFFICES ASSUME NEW u \in U!Open PROVE RefsIn(heap', nested', u) \subseteq U!Refs[u] \cup V
      OBVIOUS
    <2> DEFINE t == heap[u].on
               i == heap[u].at
    <2>1. /\ u \in U!Obj /\ heap[u].tt = "upval" /\ t \in U!Of("thread") /\ i \in 1..Len(heap[t].stack)
          /\ ValueIn(heap, u) = heap[t].stack[i]
      BY <1>1, <1>2, OpenSlot DEF U!Of
    <2>2. heap'[u] = heap[u] /\ u \in OpenOf(heap')
      BY <1>1
    <2>3. i \in 1..Len(heap'[t].stack) /\ ValueIn(heap', u) = heap'[t].stack[i]
      BY <1>2, <2>2, OpenSlot
    <2>4. heap'[t].stack[i] \in V \cup {U!Nil} \/ heap'[t].stack[i] = heap[t].stack[i]
      BY <2>1, <2>3 DEF Written
    <2>5. /\ RefsIn(heap', nested', u) = {ValueIn(heap', u)} \ {U!Nil}
          /\ U!Refs[u] = {ValueIn(heap, u)} \ {U!Nil}
      BY <2>1, <2>2, RefsAre, RefsOf
    <2> QED BY <2>1, <2>3, <2>4, <2>5
  <1>7. \A o \in U!Allocated : o \notin U!Of("thread") \cup U!Open => RefsIn(heap', nested', o) = U!Refs[o]
    <2> SUFFICES ASSUME NEW o \in U!Allocated, o \notin U!Of("thread") \cup U!Open
                 PROVE  RefsIn(heap', nested', o) = U!Refs[o]
      OBVIOUS
    <2>1. o \in U!Obj /\ heap[o].tt \in {"closure", "upval"} /\ heap'[o] = heap[o]
      BY <1>2, Kinds DEF U!Of, U!Allocated, Written
    <2>2. CASE heap[o].tt = "closure"
      BY <2>1, <2>2, RefsAre, RefsOf
    <2>3. CASE heap[o].tt = "upval"
      <3>1. heap[o].on = 0
        BY <2>1, <2>3 DEF U!Open, U!Of
      <3>2. /\ RefsIn(heap', nested', o) = {ValueIn(heap', o)} \ {U!Nil}
            /\ U!Refs[o] = {ValueIn(heap, o)} \ {U!Nil}
        BY <2>1, <2>3, RefsAre, RefsOf
      <3>3. ValueIn(heap', o) = ValueIn(heap, o)
        BY <2>1, <3>1 DEF ValueIn
      <3> QED BY <3>2, <3>3
    <2> QED BY <2>1, <2>2, <2>3
  <1>8. \A o \in Live : /\ RefsIn(heap', nested', o) \subseteq U!Refs[o] \cup V
                        /\ U!Refs[o] \subseteq Live
                        /\ o \in U!Of("closure") => RefsIn(heap', nested', o) \subseteq U!Of("upval")
                        /\ o \notin U!Of("closure") => RefsIn(heap', nested', o) \cap U!Of("upval")' = {}
    <2> SUFFICES ASSUME NEW o \in Live
                 PROVE  /\ RefsIn(heap', nested', o) \subseteq U!Refs[o] \cup V
                        /\ U!Refs[o] \subseteq Live
                        /\ o \in U!Of("closure") => RefsIn(heap', nested', o) \subseteq U!Of("upval")
                        /\ o \notin U!Of("closure") => RefsIn(heap', nested', o) \cap U!Of("upval")' = {}
      OBVIOUS
    <2>1. o \in U!Allocated /\ U!Refs[o] \subseteq Live
      BY DEF Live, IInv, Closed
    <2>2. RefsIn(heap', nested', o) \subseteq U!Refs[o] \cup V
      BY <1>5, <1>6, <1>7, <2>1
    <2>3. ASSUME o \in U!Of("closure") PROVE RefsIn(heap', nested', o) \subseteq U!Of("upval")
      <3>1. o \notin U!Of("thread") \cup U!Open
        BY <2>3 DEF U!Of, U!Open
      <3> QED BY <1>7, <2>1, <2>3, <3>1 DEF IInv, Shape
    <2>4. ASSUME o \notin U!Of("closure") PROVE RefsIn(heap', nested', o) \cap U!Of("upval")' = {}
      <3>1. U!Refs[o] \cap U!Of("upval") = {} /\ U!Refs[o] \cap A = {}
        BY <1>1, <2>1, <2>4 DEF IInv, Shape, Live
      <3>2. U!Of("upval")' \subseteq U!Of("upval") \cup A
        BY <1>1
      <3> QED BY <2>2, <3>1, <3>2
    <2> QED BY <2>1, <2>2, <2>3, <2>4
  <1>9. RefsIn(heap', nested', U!L) \subseteq Live' /\ RefsIn(heap', nested', U!L) \cap U!Of("upval")' = {}
    <2>1. U!L \notin U!Of("closure")
      BY <1>4 DEF U!Of
    <2> QED BY <1>3, <1>4, <1>8, <2>1
  <1>10. ASSUME NEW u \in U!Open', u \in W \cup A
         PROVE  /\ RefsIn(heap', nested', u) \subseteq Live'
                /\ RefsIn(heap', nested', u) \cap U!Of("upval")' = {}
    <2>1. heap'[u].tt = "upval" /\ heap'[u].on = U!L
      <3>1. heap'[u].tt = "upval"
        BY <1>1 DEF OpenOf
      <3>2. CASE u \in A
        BY <3>1, <3>2 DEF Made
      <3>3. CASE u \in W
        BY <1>1, <1>3, <3>1, <3>3
      <3> QED BY <1>10, <3>1, <3>2, <3>3
    <2>2. /\ heap'[U!L].tt = "thread" /\ heap'[U!L].stack \in Seq(Value)
          /\ heap'[u].at \in 1..Len(heap'[U!L].stack)
          /\ ValueIn(heap', u) = heap'[U!L].stack[heap'[u].at]
      BY <1>1, <1>2, <2>1, OpenSlot
    <2>3. ValueIn(heap', u) \in U!ToSet(heap'[U!L].stack)
      BY <2>2 DEF U!ToSet
    <2>4. RefsIn(heap', nested', u) \subseteq RefsIn(heap', nested', U!L)
      BY <2>1, <2>2, <2>3, RefsOf
    <2> QED BY <1>9, <2>4
  <1>11. ASSUME NEW a \in A
         PROVE  /\ RefsIn(heap', nested', a) \subseteq Live'
                /\ a \in U!Of("closure")' => RefsIn(heap', nested', a) \subseteq U!Of("upval")'
                /\ a \notin U!Of("closure")' => RefsIn(heap', nested', a) \cap U!Of("upval")' = {}
    <2>1. a \in U!Obj /\ heap'[a].tt \in {"thread", "closure", "upval"}
      BY <1>1, <1>2, Kinds DEF Made
    <2>2. CASE heap'[a].tt = "thread"
      <3>1. CalleeIn(nested', a) \subseteq V
        <4>1. CalleeIn(nested, a) = {}
          <5>1. \A i \in 1..Len(nested) : nested[i] \in U!Allocated
            BY DEF IInv, Closed, Live
          <5>2. \A j \in 2..Len(nested) : j - 1 \in 1..Len(nested)
            BY <1>2
          <5> QED BY <1>1, <5>1, <5>2 DEF CalleeIn
        <4> QED BY <2>1, <4>1
      <3>2. heap'[a].stack \in Seq(Value)
        BY <1>2, <2>1, <2>2, Kinds
      <3>3. U!ToSet(heap'[a].stack) \subseteq V \cup {U!Nil}
        BY <2>2, <3>2 DEF Made, U!ToSet
      <3>4. RefsIn(heap', nested', a) \subseteq V
        BY <2>2, <3>1, <3>3, RefsOf
      <3> QED BY <2>2, <3>4 DEF U!Of
    <2>3. CASE heap'[a].tt = "closure"
      <3>1. RefsIn(heap', nested', a)
                \subseteq (Live \cap U!Of("upval")) \cup W \cup (A \cap U!Of("upval")')
        BY <2>3, RefsOf DEF Made
      <3>2. W \subseteq U!Of("upval") /\ U!Of("upval") \subseteq U!Of("upval")'
        BY <1>1, <1>3 DEF U!Open
      <3>3. a \in U!Of("closure")'
        BY <2>1, <2>3 DEF U!Of
      <3> QED BY <1>3, <3>1, <3>2, <3>3
    <2>4. CASE heap'[a].tt = "upval"
      <3>1. a \in U!Open' /\ a \notin U!Of("closure")'
        <4>1. heap'[a].on = U!L /\ U!L # 0
          BY <1>4, <2>4 DEF Made, U!Obj
        <4> QED BY <1>1, <2>1, <2>4, <4>1 DEF OpenOf, U!Of
      <3> QED BY <1>10, <3>1
    <2> QED BY <2>1, <2>2, <2>3, <2>4
  <1>12. Closed'
    <2>1. \A i \in 1..Len(nested') : nested'[i] \in Live'
      BY <1>3
    <2>2. ASSUME NEW o \in Live' PROVE RefsIn(heap', nested', o) \subseteq Live'
      <3>1. CASE o \in Live
        BY <1>3, <1>8, <3>1
      <3>2. CASE o \in A
        BY <1>11, <3>2
      <3>3. CASE o \in W
        BY <1>1, <1>3, <1>10, <3>3
      <3> QED BY <1>3, <3>1, <3>2, <3>3
    <2>3. Live' \subseteq U!Obj
      BY DEF Live, U!Allocated
    <2> QED BY <2>1, <2>2, <2>3, RefsAre DEF Closed
  <1>13. Shape'
    <2>1. ASSUME NEW o \in Live'
          PROVE  IF o \in U!Of("closure")' THEN RefsIn(heap', nested', o) \subseteq U!Of("upval")'
                 ELSE RefsIn(heap', nested', o) \cap U!Of("upval")' = {}
      <3>1. CASE o \in Live
        <4>1. o \in U!Of("closure")' <=> o \in U!Of("closure")
          BY <1>1, <3>1 DEF Live, U!Of
        <4>2. U!Of("upval") \subseteq U!Of("upval")'
          BY <1>1
        <4> QED BY <1>8, <3>1, <4>1, <4>2
      <3>2. CASE o \in A
        BY <1>11, <3>2
      <3>3. CASE o \in W
        <4>1. o \in U!Open' /\ o \notin U!Of("closure")'
          BY <1>1, <1>3, <3>3 DEF U!Open, U!Of
        <4> QED BY <1>10, <3>3, <4>1
      <3> QED BY <1>3, <3>1, <3>2, <3>3
    <2>2. Live' \subseteq U!Obj
      BY DEF Live, U!Allocated
    <2> QED BY <2>1, <2>2, RefsAre DEF Shape
  <1>14. \A o \in U!Obj : marked'[o] = IF o \in A \cup W THEN "white" ELSE marked[o]
    OBVIOUS
  <1>15. Coloured'
    <2>1. ASSUME NEW o \in U!Of("thread")' \cup U!Open' PROVE marked'[o] # "black"
      <3>1. o \in U!Obj /\ (o \in A \/ o \in U!Of("thread") \cup U!Open)
        BY <1>1 DEF U!Of, U!Open
      <3> QED BY <1>14, <3>1 DEF IInv, Coloured
    <2>2. gcstate' # "sweep" => U!Dead' = {}
      BY <1>3 DEF IInv, Coloured
    <2> QED BY <2>1, <2>2 DEF Coloured
  <1>16. Marking'
    <2> SUFFICES ASSUME gcstate = "propagate" PROVE Marking'
      BY DEF Marking
    <2>1. U!Dead = {} /\ W = {} /\ Live = U!Allocated
      BY DEF IInv, Coloured, Live
    <2>2. /\ U!White' = U!White \cup A /\ U!Gray' = U!Gray
          /\ \A o \in U!Allocated' : marked'[o] = "black" => o \in U!Allocated /\ marked[o] = "black"
      <3>1. \A o \in U!Allocated : marked'[o] = marked[o]
        BY <1>1, <1>14, <2>1
      <3>2. \A a \in A : marked'[a] = "white"
        BY <1>1, <1>14
      <3> QED BY <1>1, <3>1, <3>2 DEF U!White, U!Gray
    <2>3. U!Main \notin U!White'
      <3>1. U!Main \in U!Allocated
        <4>1. 1 \in 1..Len(nested)
          BY <1>2 DEF IInv, Nested
        <4> QED BY <4>1 DEF IInv, Nested, Closed, Live
      <3> QED BY <1>1, <2>2, <3>1 DEF IInv, Marking
    <2>4. gray' \subseteq U!Of("thread")' \cup U!Of("closure")'
      BY <1>1 DEF IInv, Marking
    <2>5. \A o \in U!Gray' : o \in gray' \/ (o \in U!Of("thread")' /\ o \in grayagain') \/ o \in U!Open'
      BY <1>1, <2>2 DEF IInv, Marking
    <2>6. ASSUME NEW o \in U!Allocated', marked'[o] = "black"
          PROVE  RefsIn(heap', nested', o) \cap U!White' = {}
      <3>1. o \in Live /\ marked[o] = "black" /\ o \notin U!Of("thread") \cup U!Open
        BY <2>1, <2>2, <2>6 DEF IInv, Coloured
      <3>2. RefsIn(heap', nested', o) = U!Refs[o] /\ U!Refs[o] \subseteq Live
        BY <1>7, <1>8, <2>1, <3>1
      <3>3. U!Refs[o] \cap U!White = {} /\ U!Refs[o] \cap A = {}
        BY <1>1, <2>1, <3>1, <3>2 DEF IInv, Marking
      <3> QED BY <2>2, <3>2, <3>3
    <2>7. U!Allocated' \subseteq U!Obj
      BY DEF U!Allocated
    <2> QED BY <2>3, <2>4, <2>5, <2>6, <2>7, RefsAre DEF Marking
  <1>17. Sweeping'
    <2>1. \A o \in U!Allocated' : marked'[o] = "white" \/ (o \in U!Allocated /\ marked'[o] = marked[o])
      BY <1>1, <1>14 DEF U!Allocated
    <2>2. gcstate = "sweep" => sweepgc \subseteq U!Allocated' \ U!Open'
      BY <1>1 DEF IInv, Sweeping
    <2>3. Awaited \subseteq Awaited'
      BY <1>1 DEF Awaited, U!OpenIn
    <2> QED BY <2>1, <2>2, <2>3 DEF IInv, Sweeping
  <1> QED BY <1>12, <1>13, <1>15, <1>16, <1>17 DEF IInv

\* The lists hold if no upvalue is made and no list written.
LEMMA OpenListsStay ==
    ASSUME IInv, TypeOK', NEW A, NEW W, NEW V, A \subseteq U!Of("free"), Written(V), Made(A, W, V),
           \A o \in U!Of("free") \ A : heap'[o] = heap[o],
           \A t \in U!Of("thread") : heap'[t].open = heap[t].open,
           \A a \in A : /\ heap'[a].tt # "upval"
                        /\ heap'[a].tt = "thread" => heap'[a].open = <<>>
    PROVE  U!Open' = U!Open /\ ListsIn(heap')
  <1>1. /\ A \subseteq U!Obj /\ A \cap U!Allocated = {}
        /\ \A o \in U!Allocated : o \in U!Obj /\ heap'[o].tt = heap[o].tt
        /\ U!Of("thread") \subseteq U!Of("thread")' /\ U!Of("thread")' \subseteq U!Of("thread") \cup A
        /\ U!Open = OpenOf(heap) /\ U!Open' = OpenOf(heap')
        /\ U!Open \subseteq U!Open' /\ U!Open' \subseteq U!Open \cup A
        /\ \A u \in U!Open : heap'[u] = heap[u]
    BY StepKinds
  <1>2. heap \in Heaps /\ heap' \in Heaps /\ ListsIn(heap)
    BY DEF IInv, TypeOK, Lists
  <1>3. OpenOf(heap') = OpenOf(heap)
    <2>1. \A a \in A : a \notin OpenOf(heap')
      BY DEF OpenOf
    <2> QED BY <1>1, <2>1
  <1>4. \A u \in OpenOf(heap) : /\ heap'[u] = heap[u] /\ u \in U!Obj /\ heap[u].on \in U!Of("thread")
                                /\ heap[u].on \notin A /\ heap[u].at >= 1
    <2>1. \A t \in U!Of("thread") : t \notin A
      BY DEF U!Of
    <2>2. \A u \in OpenOf(heap) : heap[u].at \in 1..Len(heap[heap[u].on].stack)
                                  /\ heap[u].on \in U!Of("thread") /\ u \in U!Obj
      BY <1>2, OpenSlot DEF U!Of
    <2>3. \A u \in OpenOf(heap) : heap[u].at >= 1
      BY <1>2 DEF ListsIn
    <2> QED BY <1>1, <2>1, <2>2, <2>3
  <1>5. ASSUME NEW t \in U!Obj, heap'[t].tt = "thread" PROVE Listing(heap', t)
    <2>1. CASE t \in A
      <3>1. heap'[t].open = <<>>
        BY <1>5, <2>1
      <3>2. {u \in OpenOf(heap') : heap'[u].on = t} = {}
        BY <1>3, <1>4, <2>1
      <3> QED BY <3>1, <3>2 DEF Listing, U!ToSet
    <2>2. CASE t \notin A
      <3>1. t \in U!Of("thread") /\ heap[t].tt = "thread"
        BY <1>1, <1>5, <2>2 DEF U!Of
      <3>2. Listing(heap, t) /\ heap'[t].open = heap[t].open /\ heap[t].open \in Seq(U!Obj)
        BY <1>2, <3>1, Kinds DEF ListsIn
      <3>3. Len(heap'[t].stack) >= Len(heap[t].stack) /\ Len(heap[t].stack) \in Nat
            /\ Len(heap'[t].stack) \in Nat
        <4>1. heap[t].stack \in Seq(Value) /\ heap'[t].stack \in Seq(Value)
          BY <1>2, <1>5, <3>1, Kinds
        <4> QED BY <3>1, <4>1 DEF Written
      <3> DEFINE q == heap[t].open
      <3>4. U!ToSet(q) = {u \in OpenOf(heap') : heap'[u].on = t}
        BY <1>3, <1>4, <3>2 DEF Listing
      <3>5. \A i \in 1..Len(q) : q[i] \in OpenOf(heap)
        <4>1. \A i \in 1..Len(q) : q[i] \in U!ToSet(q)
          BY <3>2 DEF U!ToSet
        <4> QED BY <3>2, <4>1 DEF Listing
      <3>6. ASSUME NEW i \in 1..Len(q)
            PROVE  /\ heap'[q[i]].at <= Len(heap'[t].stack)
                   /\ i > 1 => heap'[q[i]].at < heap'[q[i - 1]].at
        <4>1. heap[q[i]].at <= Len(heap[t].stack) /\ (i > 1 => heap[q[i]].at < heap[q[i - 1]].at)
          BY <3>2 DEF Listing
        <4>2. heap'[q[i]] = heap[q[i]] /\ (i > 1 => heap'[q[i - 1]] = heap[q[i - 1]])
          <5>1. i > 1 => i - 1 \in 1..Len(q)
            BY <3>2
          <5> QED BY <1>4, <3>5, <5>1
        <4>3. heap[q[i]].at \in Nat
          <5>1. q[i] \in U!Obj /\ heap[q[i]].tt = "upval"
            BY <3>5 DEF OpenOf
          <5> QED BY <1>2, <5>1, Kinds
        <4> QED BY <3>3, <4>1, <4>2, <4>3
      <3> QED BY <3>2, <3>4, <3>6 DEF Listing
    <2> QED BY <2>1, <2>2
  <1>6. \A u \in OpenOf(heap') : heap'[heap'[u].on].tt = "thread" /\ heap'[u].at >= 1
    BY <1>3, <1>4 DEF Written
  <1> QED BY <1>1, <1>3, <1>5, <1>6 DEF ListsIn

\* What the nested threads become.
NestedStays(V) ==
    /\ nested' \in Seq(U!Obj) /\ Nested'
    /\ \A i \in 1..Len(nested') : nested'[i] \in Live
    /\ \A o \in U!Obj : CalleeIn(nested', o) \subseteq CalleeIn(nested, o) \cup V

\* Of the objects there are, only thread t is written, and its stack becomes s.
OnlyStack(t, s, V) ==
    /\ \A o \in U!Allocated : o # t => heap'[o] = heap[o]
    /\ heap'[t].tt = "thread" /\ heap'[t].stack = s
    /\ Len(s) >= Len(heap[t].stack)
    /\ \A i \in 1..Len(s) : \/ s[i] \in V \cup {U!Nil}
                            \/ i \in 1..Len(heap[t].stack) /\ s[i] = heap[t].stack[i]

\* Such a step writes values of V to stacks.
LEMMA OnlyStackWritten ==
    ASSUME IInv, NEW t \in U!Of("thread"), NEW s, NEW V, OnlyStack(t, s, V)
    PROVE  Written(V)
  <1> USE DEF OnlyStack
  <1>1. \A o \in U!Of("closure") \cup U!Of("upval") : heap'[o] = heap[o]
    BY DEF U!Of, U!Allocated
  <1>2. ASSUME NEW o \in U!Of("thread")
        PROVE  /\ heap'[o].tt = "thread" /\ Len(heap'[o].stack) >= Len(heap[o].stack)
               /\ \A i \in 1..Len(heap'[o].stack) :
                    \/ heap'[o].stack[i] \in V \cup {U!Nil}
                    \/ i \in 1..Len(heap[o].stack) /\ heap'[o].stack[i] = heap[o].stack[i]
    <2>1. CASE o = t
      BY <2>1
    <2>2. CASE o # t
      <3>1. o \in U!Obj /\ heap[o].tt = "thread" /\ heap'[o] = heap[o]
        BY <2>2 DEF U!Of, U!Allocated
      <3>2. Len(heap[o].stack) \in Nat
        BY <3>1, Kinds DEF IInv, TypeOK
      <3> QED BY <3>1, <3>2
    <2> QED BY <2>1, <2>2
  <1> QED BY <1>1, <1>2 DEF Written

\* A step that only writes values of V to the stack of thread t, which becomes s.
StackBecomes(t, s, V) ==
    /\ s \in Seq(Value) /\ V \subseteq Live /\ V \cap U!Of("upval") = {}
    /\ heap' \in Heaps /\ \A o \in U!Obj : o # t => heap'[o] = heap[o]
    /\ heap'[t].tt = "thread" /\ heap'[t].stack = s /\ heap'[t].open = heap[t].open
    /\ Len(s) >= Len(heap[t].stack)
    /\ \A i \in 1..Len(s) : \/ s[i] \in V \cup {U!Nil}
                            \/ i \in 1..Len(heap[t].stack) /\ s[i] = heap[t].stack[i]
    /\ UNCHANGED <<marked, uvhead, gray, U!collector>> /\ NestedStays(V)

\* Such a step keeps the invariant.
LEMMA StackStep ==
    ASSUME IInv, NEW t \in U!Of("thread"), NEW s, NEW V, StackBecomes(t, s, V)
    PROVE  IInv'
  <1> USE DEF StackBecomes
  <1>1. TypeOK' /\ heap \in Heaps /\ t \in U!Obj /\ heap[t].tt = "thread"
    BY DEF IInv, TypeOK, NestedStays, U!collector, U!Of
  <1>2. Written(V)
    <2>1. OnlyStack(t, s, V)
      BY DEF OnlyStack, U!Allocated
    <2> QED BY <2>1, OnlyStackWritten
  <1> PICK A : A = {}
    OBVIOUS
  <1>3. /\ Made(A, A, V) /\ A \subseteq U!Of("free")
        /\ \A o \in U!Of("free") \ A : heap'[o] = heap[o]
    BY <1>1 DEF Made, U!Of
  <1>4. /\ U!Allocated' = U!Allocated /\ U!Of("upval")' \subseteq U!Of("upval")
        /\ U!Of("upval") \subseteq U!Allocated
    <2>1. U!Allocated' = U!Allocated \cup A
      BY <1>1, <1>2, <1>3, StepKinds
    <2>2. /\ U!Of("upval") \subseteq U!Of("upval")' \cap U!Allocated
          /\ U!Of("upval")' \subseteq U!Of("upval") \cup A
      BY <1>1, <1>2, <1>3, StepKinds
    <2> QED BY <2>1, <2>2
  <1>5. V \subseteq Live' /\ V \cap U!Of("upval")' = {}
    BY <1>4 DEF Live, U!Dead
  <1>6. Lists'
    <2>1. U!Open' = U!Open /\ ListsIn(heap')
      <3>1. \A o \in U!Of("thread") : heap'[o].open = heap[o].open
        BY DEF U!Of
      <3> QED BY <1>1, <1>2, <1>3, <3>1, OpenListsStay
    <2> QED BY <2>1 DEF IInv, Lists
  <1>7. marked' = [o \in U!Obj |-> IF o \in A \cup A THEN "white" ELSE marked[o]]
    BY DEF IInv, TypeOK
  <1> QED BY <1>1, <1>2, <1>3, <1>5, <1>6, <1>7, ProgramStep DEF NestedStays, U!collector

\* Writing the stack of a thread changes nothing else.
WithStack(h, t, s) == [h EXCEPT ![t].stack = s]
StackIs(g, h, t, s) ==
    /\ g \in Heaps /\ \A o \in U!Obj : o # t => g[o] = h[o]
    /\ g[t].tt = "thread" /\ g[t].stack = s /\ g[t].open = h[t].open

\* So does the record assignment of the model.
LEMMA StackWritten ==
    ASSUME NEW h \in Heaps, NEW t \in U!Obj, h[t].tt = "thread", NEW s \in Seq(Value)
    PROVE  StackIs(WithStack(h, t, s), h, t, s)
  <1>1. h[t] \in Threads
    BY Kinds
  <1> DEFINE r == [h[t] EXCEPT !.stack = s]
  <1>2. r \in Threads /\ r.tt = "thread" /\ r.stack = s /\ r.open = h[t].open
    BY <1>1 DEF Threads
  <1>3. WithStack(h, t, s) = [h EXCEPT ![t] = r]
    BY DEF WithStack
  <1> HIDE DEF r
  <1> QED BY <1>2, <1>3 DEF Heaps, StackIs

\* Threads that keep running stay nested.
LEMMA NestedAsBefore == ASSUME IInv, UNCHANGED nested, heap' \in Heaps,
                               \A o \in U!Of("thread") : heap'[o].tt = "thread", NEW V
                        PROVE  NestedStays(V)
  <1>1. nested \in Seq(U!Obj) /\ \A i \in 1..Len(nested) : nested[i] \in Live
    BY DEF IInv, TypeOK, Closed
  <1>2. Nested'
    BY DEF IInv, Nested, U!Of
  <1> QED BY <1>1, <1>2 DEF NestedStays

\* A value pushed, or a slot written, on the stack of a thread.
LEMMA PushStep ==
    ASSUME IInv, NEW t \in U!Of("thread"), NEW v \in Value, v # U!Nil => v \in Live \ U!Of("upval"),
           heap' = [heap EXCEPT ![t].stack = Append(@, v)],
           UNCHANGED <<marked, uvhead, gray, U!collector>>,
           UNCHANGED nested \/ NestedStays({v} \ {U!Nil})
    PROVE  IInv'
  <1> DEFINE q == heap[t].stack
             s == Append(q, v)
  <1>1. t \in U!Obj /\ heap \in Heaps /\ heap[t].tt = "thread" /\ q \in Seq(Value)
    BY Kinds DEF U!Of, IInv, TypeOK
  <1>2. s \in Seq(Value) /\ Len(s) = Len(q) + 1 /\ Len(q) \in Nat
        /\ \A i \in 1..Len(s) : s[i] = v \/ (i \in 1..Len(q) /\ s[i] = q[i])
    BY <1>1
  <1>3. heap' = WithStack(heap, t, s)
    BY DEF WithStack
  <1> HIDE DEF s
  <1>4. /\ heap' \in Heaps /\ \A o \in U!Obj : o # t => heap'[o] = heap[o]
        /\ heap'[t].tt = "thread" /\ heap'[t].stack = s /\ heap'[t].open = heap[t].open
    <2>1. StackIs(WithStack(heap, t, s), heap, t, s)
      BY <1>1, <1>2, StackWritten
    <2> QED BY <1>3, <2>1 DEF StackIs
  <1> DEFINE V == {v} \ {U!Nil}
  <1>5. V \subseteq Live /\ V \cap U!Of("upval") = {}
    OBVIOUS
  <1>6. \A i \in 1..Len(s) : s[i] \in V \cup {U!Nil} \/ (i \in 1..Len(q) /\ s[i] = q[i])
    BY <1>2
  <1>7. Len(s) >= Len(q)
    BY <1>2
  <1> HIDE DEF V
  <1>8. NestedStays(V)
    <2>1. CASE UNCHANGED nested
      BY <1>4, <2>1, NestedAsBefore DEF U!Of
    <2>2. CASE NestedStays({v} \ {U!Nil})
      BY <2>2 DEF V
    <2> QED BY <2>1, <2>2
  <1>9. StackBecomes(t, s, V)
    BY <1>2, <1>4, <1>5, <1>6, <1>7, <1>8 DEF StackBecomes
  <1> QED BY <1>9, StackStep

\* A slot of a stack is written.
LEMMA SlotStep ==
    ASSUME IInv, NEW t \in U!Of("thread"), NEW v \in Value, v # U!Nil => v \in Live \ U!Of("upval"),
           NEW j \in 1..Len(heap[t].stack), heap' = [heap EXCEPT ![t].stack[j] = v],
           UNCHANGED <<marked, uvhead, gray, U!collector>>, UNCHANGED nested
    PROVE  IInv'
  <1> DEFINE q == heap[t].stack
             s == [q EXCEPT ![j] = v]
  <1>1. t \in U!Obj /\ heap \in Heaps /\ heap[t].tt = "thread" /\ q \in Seq(Value)
    BY Kinds DEF U!Of, IInv, TypeOK
  <1>2. s \in Seq(Value) /\ Len(s) = Len(q) /\ Len(q) \in Nat
        /\ \A i \in 1..Len(s) : s[i] = v \/ (i \in 1..Len(q) /\ s[i] = q[i])
    BY <1>1
  <1>3. heap' = WithStack(heap, t, s)
    BY DEF WithStack
  <1> HIDE DEF s
  <1>4. /\ heap' \in Heaps /\ \A o \in U!Obj : o # t => heap'[o] = heap[o]
        /\ heap'[t].tt = "thread" /\ heap'[t].stack = s /\ heap'[t].open = heap[t].open
    <2>1. StackIs(WithStack(heap, t, s), heap, t, s)
      BY <1>1, <1>2, StackWritten
    <2> QED BY <1>3, <2>1 DEF StackIs
  <1> DEFINE V == {v} \ {U!Nil}
  <1>5. V \subseteq Live /\ V \cap U!Of("upval") = {}
    OBVIOUS
  <1>6. \A i \in 1..Len(s) : s[i] \in V \cup {U!Nil} \/ (i \in 1..Len(q) /\ s[i] = q[i])
    BY <1>2
  <1>7. Len(s) >= Len(q)
    BY <1>2
  <1> HIDE DEF V
  <1>8. NestedStays(V)
    BY <1>4, NestedAsBefore DEF U!Of
  <1>9. StackBecomes(t, s, V)
    BY <1>2, <1>4, <1>5, <1>6, <1>7, <1>8 DEF StackBecomes
  <1> QED BY <1>9, StackStep

\* What is on the running stack may be written anywhere.
LEMMA OnStack ==
    ASSUME IInv, NEW v \in U!ToSet(U!Stack) \cup {U!Nil}
    PROVE  v \in Value /\ (v # U!Nil => v \in Live \ U!Of("upval"))
  <1>1. CASE v = U!Nil
    BY <1>1 DEF Value
  <1>2. CASE v # U!Nil
    <2>1. PICK i \in 1..Len(U!Stack) : U!Stack[i] = v
      BY <1>2, Running DEF U!ToSet
    <2> QED BY <1>2, <2>1, Running
  <1> QED BY <1>1, <1>2

\* A local without a value.
LEMMA LocalInv == ASSUME IInv, U!Local PROVE IInv'
  <1>1. heap' = [heap EXCEPT ![U!L].stack = Append(@, U!Nil)]
    BY DEF U!Local, U!Pushed
  <1>2. U!Nil \in Value /\ U!L \in U!Of("thread")
    BY Running DEF Value
  <1> QED BY <1>1, <1>2, PushStep DEF U!Local

\* OP_MOVE writes a slot of the running stack without a barrier.
LEMMA SetLocalInv == ASSUME IInv, NEW i \in 1..MaxStack, NEW v \in Value, U!SetLocal(i, v) PROVE IInv'
  <1>1. i \in 1..Len(heap[U!L].stack) /\ v \in U!ToSet(U!Stack) \cup {U!Nil} /\ U!L \in U!Of("thread")
    BY Running DEF U!SetLocal, U!Stack
  <1> QED BY <1>1, OnStack, SlotStep DEF U!SetLocal

\* A closure on the stack and its upvalues are alive, and so is what those hold.
LEMMA HeldByUpval ==
    ASSUME IInv, NEW f \in U!ToSet(U!Stack) \cap U!Of("closure"), NEW u \in heap[f].ups
    PROVE  /\ f \in Live /\ u \in Live /\ u \in U!Of("upval") /\ heap[f].ups \subseteq Live
           /\ U!ValueOf(u) \in Value /\ (U!ValueOf(u) # U!Nil => U!ValueOf(u) \in Live \ U!Of("upval"))
  <1>1. f \in U!Obj /\ heap[f].tt = "closure" /\ f # U!Nil
    BY DEF U!Of, U!Obj, U!Nil
  <1>2. f \in Live
    BY <1>1, OnStack
  <1>3. U!Refs[f] = heap[f].ups
    BY <1>1, RefsAre, RefsOf
  <1>4. heap[f].ups \subseteq Live /\ u \in Live /\ u \in U!Of("upval")
    BY <1>2, <1>3 DEF IInv, Closed, Shape
  <1>5. u \in U!Obj /\ heap[u].tt = "upval" /\ u \notin U!Of("closure")
    BY <1>4 DEF U!Of
  <1>6. U!ValueOf(u) = ValueIn(heap, u) /\ U!Refs[u] = {ValueIn(heap, u)} \ {U!Nil}
    BY <1>5, RefsAre, RefsOf
  <1>7. U!Refs[u] \subseteq Live /\ U!Refs[u] \cap U!Of("upval") = {}
    BY <1>4, <1>5 DEF IInv, Closed, Shape
  <1>8. U!ValueOf(u) # U!Nil => U!ValueOf(u) \in Live \ U!Of("upval")
    BY <1>6, <1>7
  <1>9. U!ValueOf(u) \in Value
    BY <1>8 DEF Value, Live, U!Allocated
  <1> QED BY <1>2, <1>4, <1>8, <1>9

\* OP_GETUPVAL pushes what an upvalue holds.
LEMMA GetUpvalInv == ASSUME IInv, NEW f \in U!Obj, U!GetUpval(f) PROVE IInv'
  <1>1. f \in U!ToSet(U!Stack) \cap U!Of("closure")
    BY DEF U!GetUpval
  <1>2. PICK u \in heap[f].ups : heap' = U!Pushed(heap, U!ValueOf(u))
    BY DEF U!GetUpval
  <1>3. U!ValueOf(u) \in Value /\ (U!ValueOf(u) # U!Nil => U!ValueOf(u) \in Live \ U!Of("upval"))
    BY <1>1, HeldByUpval
  <1>4. heap' = [heap EXCEPT ![U!L].stack = Append(@, U!ValueOf(u))] /\ U!L \in U!Of("thread")
    BY <1>2, Running DEF U!Pushed
  <1> QED BY <1>3, <1>4, PushStep DEF U!GetUpval

\* A thread is resumed: it was on the stack of the one that resumes it.
LEMMA ResumeInv == ASSUME IInv, NEW t \in U!Obj, U!Resume(t) PROVE IInv'
  <1>1. /\ t \in U!ToSet(U!Stack) \cap U!Of("thread") /\ t \notin U!ToSet(nested)
        /\ nested' = Append(nested, t) /\ UNCHANGED <<heap, marked, uvhead, gray, U!collector>>
    BY DEF U!Resume
  <1> DEFINE c == Len(nested)
             V == {t}
  <1>2. /\ nested \in Seq(U!Obj) /\ c \in Nat \ {0} /\ nested[c] = U!L
        /\ U!L \in U!Of("thread") /\ U!L \in U!Obj /\ U!Stack \in Seq(Value)
    BY Running DEF IInv, TypeOK
  <1>3. t \in Live /\ t \notin U!Of("upval") /\ t \in U!Of("thread")
    <2>1. t # U!Nil
      BY DEF U!Obj, U!Nil
    <2> QED BY <1>1, <2>1, OnStack
  <1>4. nested' \in Seq(U!Obj) /\ Len(nested') = c + 1 /\ nested'[c + 1] = t
        /\ \A i \in 1..c : nested'[i] = nested[i] /\ nested[i] # t
    BY <1>1, <1>2 DEF U!ToSet
  <1>5. \A i \in 1..Len(nested') : i \in 1..c \/ i = c + 1
    BY <1>2, <1>4
  <1>6. Nested'
    <2>1. nested' # <<>> /\ nested'[1] = U!Main
      <3>1. 1 \in 1..c
        BY <1>2
      <3> QED BY <1>2, <1>4, <3>1 DEF IInv, Nested
    <2>2. \A i \in 1..Len(nested') : nested'[i] \in U!Of("thread")'
      BY <1>1, <1>3, <1>4, <1>5 DEF IInv, Nested, U!Of
    <2>3. \A i, j \in 1..Len(nested') : nested'[i] = nested'[j] => i = j
      BY <1>4, <1>5 DEF IInv, Nested
    <2> QED BY <2>1, <2>2, <2>3 DEF Nested
  <1>7. \A i \in 1..Len(nested') : nested'[i] \in Live
    BY <1>3, <1>4, <1>5 DEF IInv, Closed
  <1>8. ASSUME NEW o \in U!Obj PROVE CalleeIn(nested', o) \subseteq CalleeIn(nested, o) \cup V
    <2> SUFFICES ASSUME NEW i \in 2..Len(nested'), nested'[i - 1] = o, nested'[i] # t
                 PROVE  nested'[i] \in CalleeIn(nested, o)
      BY DEF CalleeIn
    <2>1. i \in 2..c /\ i \in 1..c /\ i - 1 \in 1..c
      BY <1>2, <1>4
    <2>2. nested'[i] = nested[i] /\ nested[i - 1] = o
      BY <1>4, <2>1
    <2> QED BY <2>1, <2>2 DEF CalleeIn
  <1>9. NestedStays(V)
    BY <1>4, <1>6, <1>7, <1>8 DEF NestedStays
  <1>10. /\ Len(U!Stack) >= Len(heap[U!L].stack)
         /\ \A i \in 1..Len(U!Stack) : i \in 1..Len(heap[U!L].stack) /\ U!Stack[i] = heap[U!L].stack[i]
    BY <1>2 DEF U!Stack
  <1>11. StackBecomes(U!L, U!Stack, V)
    <2>1. heap' \in Heaps /\ heap' = heap /\ heap[U!L].tt = "thread"
      BY <1>1, <1>2 DEF IInv, TypeOK, U!Of
    <2> HIDE DEF c
    <2> QED BY <1>1, <1>2, <1>3, <1>9, <1>10, <2>1 DEF StackBecomes, U!Stack
  <1> QED BY <1>2, <1>11, StackStep

\* A thread yields: what it hands over is alive.
LEMMA YieldInv == ASSUME IInv, U!Yield PROVE IInv'
  <1> DEFINE c == Len(nested)
             t == U!Last(nested')
  <1>1. nested \in Seq(U!Obj) /\ c \in Nat /\ c > 1 /\ nested' = U!Front(nested)
        /\ UNCHANGED <<marked, uvhead, gray, U!collector>>
    BY DEF U!Yield, IInv, TypeOK
  <1>2. nested' \in Seq(U!Obj) /\ Len(nested') = c - 1 /\ \A i \in 1..c - 1 : nested'[i] = nested[i]
    BY <1>1 DEF U!Front
  <1>3. t = nested'[c - 1] /\ c - 1 \in 1..c - 1 /\ \A i \in 1..c - 1 : i \in 1..c
    BY <1>1, <1>2 DEF U!Last
  <1>4. t \in Live /\ t \in U!Of("thread")
    BY <1>2, <1>3 DEF IInv, Nested, Closed
  <1>5. ASSUME NEW V, heap' \in Heaps, \A o \in U!Of("thread") : heap'[o].tt = "thread"
        PROVE  NestedStays(V)
    <2>1. Nested'
      <3>1. nested' # <<>> /\ nested'[1] = U!Main
        <4>1. 1 \in 1..c - 1
          BY <1>1
        <4> QED BY <1>2, <4>1 DEF IInv, Nested
      <3>2. \A i \in 1..c - 1 : nested'[i] \in U!Of("thread")'
        BY <1>2, <1>3, <1>5 DEF IInv, Nested, U!Of
      <3>3. \A i, j \in 1..c - 1 : nested'[i] = nested'[j] => i = j
        BY <1>2, <1>3 DEF IInv, Nested
      <3> QED BY <1>2, <3>1, <3>2, <3>3 DEF Nested
    <2>2. \A i \in 1..Len(nested') : nested'[i] \in Live
      BY <1>2, <1>3 DEF IInv, Closed
    <2>3. \A o \in U!Obj : CalleeIn(nested', o) \subseteq CalleeIn(nested, o) \cup V
      <3>1. \A i \in 2..c - 1 : i \in 2..c /\ i \in 1..c - 1 /\ i - 1 \in 1..c - 1
        BY <1>1
      <3> QED BY <1>2, <3>1 DEF CalleeIn
    <2> QED BY <1>2, <2>1, <2>2, <2>3 DEF NestedStays
  <1>6. CASE UNCHANGED heap
    <2> DEFINE s == heap[t].stack
               V == {}
    <2>1. /\ heap' \in Heaps /\ heap' = heap /\ heap[t].tt = "thread" /\ s \in Seq(Value)
      BY <1>4, <1>6, Kinds DEF IInv, TypeOK, U!Of
    <2>2. NestedStays(V)
      BY <1>5, <2>1 DEF U!Of
    <2>3. Len(s) >= Len(heap[t].stack)
          /\ \A i \in 1..Len(s) : i \in 1..Len(heap[t].stack) /\ s[i] = heap[t].stack[i]
      BY <2>1
    <2>4. StackBecomes(t, s, V)
      <3>1. V \subseteq Live /\ V \cap U!Of("upval") = {}
        OBVIOUS
      <3> HIDE DEF V, t
      <3> QED BY <1>1, <2>1, <2>2, <2>3, <3>1 DEF StackBecomes
    <2> HIDE DEF s, V, t
    <2> QED BY <1>4, <2>4, StackStep
  <1>7. ASSUME NEW v \in U!ToSet(U!Stack), heap' = [heap EXCEPT ![t].stack = Append(@, v)] PROVE IInv'
    <2>1. v \in Value /\ (v # U!Nil => v \in Live \ U!Of("upval"))
      BY OnStack
    <2>2. heap \in Heaps /\ t \in U!Obj /\ heap[t].tt = "thread" /\ heap[t].stack \in Seq(Value)
      BY <1>4, Kinds DEF IInv, TypeOK, U!Of
    <2> HIDE DEF t
    <2>3. Append(heap[t].stack, v) \in Seq(Value) /\ heap' = WithStack(heap, t, Append(heap[t].stack, v))
      BY <1>7, <2>1, <2>2 DEF WithStack
    <2>4. heap' \in Heaps /\ \A o \in U!Of("thread") : heap'[o].tt = "thread"
      <3>1. StackIs(WithStack(heap, t, Append(heap[t].stack, v)), heap, t, Append(heap[t].stack, v))
        BY <2>2, <2>3, StackWritten
      <3> QED BY <2>3, <3>1 DEF StackIs, U!Of
    <2>5. NestedStays({v} \ {U!Nil})
      BY <1>5, <2>4
    <2> QED BY <1>1, <1>4, <1>7, <2>1, <2>5, PushStep
  <1> QED BY <1>6, <1>7 DEF U!Yield

-----------------------------------------------------------------------------
(* New objects.                                                             *)

\* The next free address is free.
LEMMA NextFreeIs ==
    ASSUME NEW h, U!FreeIn(h) # {}
    PROVE  U!NextFree(h) \in U!FreeIn(h)
  <1>1. U!FreeIn(h) \subseteq Nat
    BY PartsConstants DEF U!FreeIn, U!Obj
  <1>2. \E o \in U!FreeIn(h) : \A p \in U!FreeIn(h) : o <= p
    BY <1>1, LeastNumber
  <1> QED BY <1>2 DEF U!NextFree

\* A new closure or thread r at address c, pushed on the running stack.
LEMMA NewStep ==
    ASSUME IInv, NEW c \in U!FreeIn(heap), NEW r, NEW E, E \subseteq Live, E \cap U!Of("upval") = {},
           \/ r \in Closures /\ r.ups \subseteq Live \cap U!Of("upval")
           \/ /\ r \in Threads /\ r.open = <<>>
              /\ \A i \in 1..Len(r.stack) : r.stack[i] \in E \cup {U!Nil},
           heap' = U!Pushed([heap EXCEPT ![c] = r], c), marked' = [marked EXCEPT ![c] = "white"],
           UNCHANGED <<uvhead, gray, nested, U!collector>>
    PROVE  IInv'
  <1> DEFINE V == E \cup {c}
             h == [heap EXCEPT ![c] = r]
             q == heap[U!L].stack
             s == Append(q, c)
  <1> PICK A : A = {c}
    OBVIOUS
  <1> PICK W : W = {}
    OBVIOUS
  <1>1. c \in U!Obj /\ heap[c].tt = "free" /\ c # U!Nil /\ A \subseteq U!Of("free") /\ c # U!L
    BY Running DEF U!FreeIn, U!Of, U!Obj, U!Nil
  <1>2. /\ U!L \in U!Of("thread") /\ U!L \in U!Obj /\ heap \in Heaps /\ heap[U!L].tt = "thread"
        /\ q \in Seq(Value) /\ U!L \in Live
    BY Running DEF IInv, TypeOK, U!Stack
  <1>3. r.tt \in {"closure", "thread"} /\ (r.tt = "closure" => r \in Closures)
        /\ (r.tt = "thread" => r \in Threads)
    BY DEF Closures, Threads
  <1>4. h \in Heaps /\ h[c] = r /\ \A o \in U!Obj : o # c => h[o] = heap[o]
    BY <1>1, <1>2 DEF Heaps
  <1>5. /\ s \in Seq(Value) /\ Len(s) = Len(q) + 1 /\ Len(q) \in Nat
        /\ \A i \in 1..Len(s) : s[i] = c \/ (i \in 1..Len(q) /\ s[i] = q[i])
    BY <1>1, <1>2 DEF Value
  <1> HIDE DEF h
  <1>6. heap' = WithStack(h, U!L, s)
    <2>1. h[U!L] = heap[U!L]
      BY <1>1, <1>2, <1>4
    <2>2. heap' = [h EXCEPT ![U!L].stack = Append(@, c)]
      BY DEF U!Pushed, h
    <2> QED BY <2>1, <2>2 DEF WithStack
  <1> HIDE DEF s
  <1>7. /\ heap' \in Heaps /\ heap'[c] = r /\ \A o \in U!Obj : o # c /\ o # U!L => heap'[o] = heap[o]
        /\ heap'[U!L].tt = "thread" /\ heap'[U!L].stack = s /\ heap'[U!L].open = heap[U!L].open
    <2>1. StackIs(WithStack(h, U!L, s), h, U!L, s)
      BY <1>1, <1>2, <1>4, <1>5, StackWritten
    <2> QED BY <1>1, <1>2, <1>4, <1>6, <2>1 DEF StackIs
  <1>8. TypeOK' /\ NestedStays(V)
    <2>1. \A o \in U!Of("thread") : heap'[o].tt = "thread"
      BY <1>1, <1>7 DEF U!Of
    <2>2. NestedStays(V)
      BY <1>7, <2>1, NestedAsBefore
    <2>3. marked' \in [U!Obj -> Colours]
      BY DEF IInv, TypeOK, Colours
    <2> QED BY <1>7, <2>2, <2>3 DEF IInv, TypeOK, U!collector
  <1>9. Written(V)
    <2>1. OnlyStack(U!L, s, V)
      <3>1. \A o \in U!Allocated : o # U!L => heap'[o] = heap[o]
        BY <1>1, <1>7 DEF U!Allocated, U!Of
      <3>2. Len(s) >= Len(q) /\ \A i \in 1..Len(s) :
                s[i] \in V \cup {U!Nil} \/ (i \in 1..Len(q) /\ s[i] = q[i])
        BY <1>5
      <3> QED BY <1>7, <3>1, <3>2 DEF OnlyStack
    <2> QED BY <1>2, <2>1, OnlyStackWritten
  <1>10. Made(A, W, V)
    <2>1. heap'[c].tt = "closure" => heap'[c].ups \subseteq Live \cap U!Of("upval")
      BY <1>3, <1>7 DEF Closures, Threads
    <2>2. heap'[c].tt = "thread" => \A i \in 1..Len(heap'[c].stack) : heap'[c].stack[i] \in V \cup {U!Nil}
      BY <1>3, <1>7 DEF Closures, Threads
    <2>3. heap'[c].tt # "free" /\ heap'[c].tt # "upval"
      BY <1>3, <1>7
    <2> QED BY <2>1, <2>2, <2>3 DEF Made
  <1>11. \A o \in U!Of("free") \ A : heap'[o] = heap[o]
    BY <1>2, <1>7 DEF U!Of
  <1>12. V \subseteq Live' /\ V \cap U!Of("upval")' = {}
    <2>1. U!Allocated' = U!Allocated \cup A
      BY <1>1, <1>8, <1>9, <1>10, <1>11, StepKinds
    <2>2. U!Of("upval")' = U!Of("upval")
      BY <1>1, <1>2, <1>3, <1>7 DEF U!Of
    <2>3. c \notin U!Of("upval")
      BY <1>1 DEF U!Of
    <2>4. marked'[c] = "white" /\ \A o \in U!Obj : o # c => marked'[o] = marked[o]
      BY <1>1 DEF IInv, TypeOK
    <2>5. E \cup {c} \subseteq Live'
      <3>1. \A o \in E : o \in U!Allocated /\ o # c /\ marked[o] # "other"
        BY <1>1 DEF Live, U!Dead, U!Allocated, U!Of
      <3> QED BY <1>1, <2>1, <2>4, <3>1 DEF Live, U!Dead, U!Allocated
    <2> QED BY <2>2, <2>3, <2>5
  <1>13. Lists'
    <2>1. \A t \in U!Of("thread") : heap'[t].open = heap[t].open
      BY <1>1, <1>7 DEF U!Of
    <2>2. \A a \in A : heap'[a].tt # "upval" /\ (heap'[a].tt = "thread" => heap'[a].open = <<>>)
      BY <1>3, <1>7 DEF Closures, Threads
    <2> HIDE DEF V
    <2>3. U!Open' = U!Open /\ ListsIn(heap')
      BY <1>1, <1>8, <1>9, <1>10, <1>11, <2>1, <2>2, OpenListsStay
    <2> QED BY <2>3 DEF IInv, Lists
  <1>14. marked' = [o \in U!Obj |-> IF o \in A \cup W THEN "white" ELSE marked[o]]
    BY <1>1 DEF IInv, TypeOK
  <1>15. W \subseteq {u \in U!Open \cap U!Dead : heap[u].on = U!L}
    OBVIOUS
  <1> HIDE DEF V
  <1> QED BY <1>1, <1>8, <1>9, <1>10, <1>11, <1>12, <1>13, <1>14, <1>15, ProgramStep
          DEF NestedStays, U!collector

\* OP_CLOSURE with the upvalues of the running closure.
LEMMA CaptureAgainInv == ASSUME IInv, NEW f \in U!Obj, U!CaptureAgain(f) PROVE IInv'
  <1> DEFINE c == U!NextFree(heap)
  <1>1. f \in U!ToSet(U!Stack) \cap U!Of("closure") /\ c \in U!FreeIn(heap)
    BY NextFreeIs DEF U!CaptureAgain
  <1>2. heap[f] \in Closures /\ heap[f].tt = "closure"
    BY <1>1, Kinds DEF IInv, TypeOK, U!Of
  <1>3. heap[f].ups \subseteq Live \cap U!Of("upval")
    BY <1>1, HeldByUpval
  <1>4. {} \subseteq Live /\ {} \cap U!Of("upval") = {}
    OBVIOUS
  <1> HIDE DEF c
  <1>5. heap' = U!Pushed([heap EXCEPT ![c] = heap[f]], c) /\ marked' = [marked EXCEPT ![c] = "white"]
    BY DEF U!CaptureAgain, c
  <1> QED BY <1>1, <1>2, <1>3, <1>4, <1>5, NewStep DEF U!CaptureAgain

\* luaE_newthread.
LEMMA NewThreadInv == ASSUME IInv, NEW f \in Value, U!NewThread(f) PROVE IInv'
  <1> DEFINE t == U!NextFree(heap)
             values == IF f = U!Nil THEN <<>> ELSE <<f>>
             E == {f} \ {U!Nil}
  <1>1. f \in {U!Nil} \cup (U!ToSet(U!Stack) \cap U!Of("closure")) /\ t \in U!FreeIn(heap)
    BY NextFreeIs DEF U!NewThread
  <1>2. f # U!Nil => f \in Live \ U!Of("upval")
    BY <1>1, OnStack
  <1>3. E \subseteq Live /\ E \cap U!Of("upval") = {}
    BY <1>2
  <1>4. values \in Seq(Value) /\ \A i \in 1..Len(values) : values[i] \in E \cup {U!Nil}
    OBVIOUS
  <1> HIDE DEF values
  <1>5. /\ U!Thread(values) \in Threads /\ U!Thread(values).open = <<>>
        /\ \A i \in 1..Len(U!Thread(values).stack) : U!Thread(values).stack[i] \in E \cup {U!Nil}
    BY <1>4 DEF U!Thread, Threads
  <1> HIDE DEF t, E
  <1>6. /\ heap' = U!Pushed([heap EXCEPT ![t] = U!Thread(values)], t)
        /\ marked' = [marked EXCEPT ![t] = "white"]
    BY DEF U!NewThread, t, values
  <1> QED BY <1>1, <1>3, <1>5, <1>6, NewStep DEF U!NewThread

-----------------------------------------------------------------------------
(* The list of a thread, and the place of a level in it.                    *)

\* The levels of a list decrease from its front to its end.
LEMMA Decreasing ==
    ASSUME NEW h \in Heaps, ListsIn(h), NEW t \in U!Obj, h[t].tt = "thread"
    PROVE  /\ h[t].open \in Seq(U!Obj) /\ h[t].stack \in Seq(Value)
           /\ \A i \in 1..Len(h[t].open) :
                /\ h[t].open[i] \in OpenOf(h) /\ h[h[t].open[i]].on = t
                /\ h[h[t].open[i]].at \in 1..Len(h[t].stack)
           /\ \A i, j \in 1..Len(h[t].open) : i < j => h[h[t].open[j]].at < h[h[t].open[i]].at
           /\ \A u \in OpenOf(h) : h[u].on = t => \E i \in 1..Len(h[t].open) : h[t].open[i] = u
  <1> DEFINE q == h[t].open
             c == Len(q)
  <1>1. q \in Seq(U!Obj) /\ h[t].stack \in Seq(Value) /\ c \in Nat /\ Len(h[t].stack) \in Nat
    BY Kinds
  <1>2. Listing(h, t)
    BY DEF ListsIn
  <1>3. ASSUME NEW i \in 1..c
        PROVE  q[i] \in OpenOf(h) /\ h[q[i]].on = t /\ h[q[i]].at \in 1..Len(h[t].stack)
    <2>1. q[i] \in U!ToSet(q)
      BY <1>1 DEF U!ToSet
    <2>2. q[i] \in OpenOf(h) /\ h[q[i]].on = t
      BY <1>2, <2>1 DEF Listing
    <2> QED BY <2>2, OpenSlot
  <1>4. ASSUME NEW u \in OpenOf(h), h[u].on = t PROVE \E i \in 1..c : q[i] = u
    BY <1>4, OpenSlot
  <1> DEFINE at(i) == h[q[i]].at
             T == {k \in Nat : \A i \in 1..c : i + k + 1 \in 1..c => at(i + k + 1) < at(i)}
  <1>5. \A i \in 1..c : at(i) \in Nat
    BY <1>1, <1>3
  <1>6. \A i \in 1..c : i + 1 \in 1..c => at(i + 1) < at(i)
    <2> SUFFICES ASSUME NEW i \in 1..c, i + 1 \in 1..c PROVE at(i + 1) < at(i)
      OBVIOUS
    <2>1. i + 1 > 1 /\ (i + 1) - 1 = i
      OBVIOUS
    <2> QED BY <1>2, <2>1 DEF Listing
  <1> HIDE DEF at
  <1>7. 0 \in T
    BY <1>6
  <1>8. ASSUME NEW k \in T PROVE k + 1 \in T
    <2> SUFFICES ASSUME NEW i \in 1..c, i + (k + 1) + 1 \in 1..c PROVE at(i + (k + 1) + 1) < at(i)
      OBVIOUS
    <2>1. k \in Nat /\ i + k + 1 \in 1..c /\ (i + k + 1) + 1 = i + (k + 1) + 1
      BY <1>1
    <2>2. at(i + k + 1) < at(i)
      BY <2>1
    <2>3. at((i + k + 1) + 1) < at(i + k + 1)
      <3> HIDE DEF T
      <3> QED BY <1>6, <2>1
    <2> HIDE DEF T, c, q
    <2> QED BY <1>5, <2>1, <2>2, <2>3
  <1>9. T = Nat
    BY <1>7, <1>8, NatSetInduction
  <1>10. ASSUME NEW i \in 1..c, NEW j \in 1..c, i < j PROVE at(j) < at(i)
    <2>1. j - i - 1 \in T /\ i + (j - i - 1) + 1 = j
      <3> HIDE DEF T
      <3> QED BY <1>1, <1>9, <1>10
    <2> QED BY <2>1
  <1> QED BY <1>1, <1>3, <1>4, <1>10 DEF at

\* The loops pass the upvalues at the level or above.
LEMMA PassedIs ==
    ASSUME NEW h \in Heaps, ListsIn(h), U!L \in U!Obj, h[U!L].tt = "thread", NEW level \in Nat
    PROVE  /\ U!Passed(h, level) \in 0..Len(h[U!L].open)
           /\ \A i \in 1..U!Passed(h, level) : h[h[U!L].open[i]].at >= level
           /\ \A i \in U!Passed(h, level) + 1..Len(h[U!L].open) : h[h[U!L].open[i]].at < level
  <1> DEFINE q == h[U!L].open
             c == Len(q)
             at(i) == h[q[i]].at
             Stop(n) == (\A i \in 1..n : at(i) >= level) /\ (n < c => at(n + 1) < level)
             n == U!Passed(h, level)
  <1>1. /\ c \in Nat /\ \A i \in 1..c : at(i) \in Nat
        /\ \A i, j \in 1..c : i < j => at(j) < at(i)
    BY Decreasing
  <1>2. U!Passed(h, level) = CHOOSE m \in 0..c : Stop(m)
    BY DEF U!Passed
  <1> HIDE DEF at, q, n
  <1>3. \E m \in 0..c : Stop(m)
    <2> DEFINE T == {m \in 0..c : m < c => at(m + 1) < level}
    <2>1. T \subseteq Nat /\ c \in T
      BY <1>1
    <2>2. PICK m \in T : \A k \in T : m <= k
      BY <2>1, LeastNumber
    <2>3. ASSUME NEW i \in 1..m PROVE at(i) >= level
      <3>1. i - 1 \in 0..c /\ i - 1 < c /\ (i - 1) + 1 = i /\ i \in 1..c /\ i - 1 < m
        BY <1>1
      <3>2. i - 1 \notin T
        BY <2>2, <3>1
      <3> QED BY <1>1, <3>1, <3>2
    <2> QED BY <2>2, <2>3
  <1>4. n \in 0..c /\ Stop(n)
    <2> HIDE DEF Stop
    <2> QED BY <1>2, <1>3 DEF n
  <1>5. ASSUME NEW i \in n + 1..c PROVE at(i) < level
    <2>1. n < c /\ n + 1 \in 1..c /\ i \in 1..c /\ at(n + 1) < level
      BY <1>1, <1>4
    <2>2. CASE i = n + 1
      BY <2>1, <2>2
    <2>3. CASE n + 1 < i
      <3>1. at(i) < at(n + 1)
        BY <1>1, <2>1, <2>3
      <3> QED BY <1>1, <2>1, <3>1
    <2> QED BY <1>1, <1>4, <2>2, <2>3
  <1> QED BY <1>4, <1>5 DEF n, at, q

\* p is q with e put behind its first n members.
Inserts(p, q, n, e) ==
    /\ Len(p) = Len(q) + 1 /\ p[n + 1] = e
    /\ \A i \in 1..n : p[i] = q[i]
    /\ \A i \in n + 2..Len(q) + 1 : p[i] = q[i - 1]

\* In the words of the model.
LEMMA Inserted ==
    ASSUME NEW S, NEW q \in Seq(S), NEW n \in 0..Len(q), NEW e \in S
    PROVE  U!InsertAt(q, n + 1, e) \in Seq(S) /\ Inserts(U!InsertAt(q, n + 1, e), q, n, e)
  <1> DEFINE c == Len(q)
             a == SubSeq(q, 1, n)
             b == SubSeq(q, n + 1, c)
             r == (a \o <<e>>) \o b
  <1>1. c \in Nat /\ n \in Nat /\ n <= c
    OBVIOUS
  <1>2. U!InsertAt(q, n + 1, e) = r
    <2>1. (n + 1) - 1 = n
      BY <1>1
    <2>2. U!InsertAt(q, n + 1, e) = SubSeq(q, 1, (n + 1) - 1) \o <<e>> \o SubSeq(q, n + 1, Len(q))
      BY Zenon DEF U!InsertAt
    <2> QED BY <2>1, <2>2, Zenon
  <1>3. a \in Seq(S) /\ Len(a) = n /\ \A i \in 1..n : a[i] = q[i]
    BY <1>1
  <1>4. b \in Seq(S) /\ Len(b) = c - n /\ \A i \in 1..c - n : b[i] = q[n + i]
    BY <1>1
  <1> HIDE DEF a, b, c
  <1> DEFINE d == a \o <<e>>
  <1>5. d \in Seq(S) /\ Len(d) = n + 1 /\ d[n + 1] = e /\ \A i \in 1..n : d[i] = q[i]
    BY <1>1, <1>3
  <1> HIDE DEF d
  <1>6. r = d \o b
    BY DEF d
  <1>7. /\ r \in Seq(S) /\ Len(r) = c + 1 /\ \A i \in 1..n + 1 : r[i] = d[i]
        /\ \A i \in n + 2..c + 1 : r[i] = b[i - (n + 1)]
    <2> HIDE DEF r
    <2>1. /\ d \o b \in Seq(S) /\ Len(d \o b) = Len(d) + Len(b)
          /\ \A i \in 1..Len(d) + Len(b) :
                (d \o b)[i] = IF i <= Len(d) THEN d[i] ELSE b[i - Len(d)]
      BY <1>4, <1>5, ConcatProperties
    <2>2. /\ r \in Seq(S) /\ Len(r) = c + 1
          /\ \A i \in 1..c + 1 : r[i] = IF i <= n + 1 THEN d[i] ELSE b[i - (n + 1)]
      BY <1>1, <1>4, <1>5, <1>6, <2>1
    <2>3. /\ \A i \in 1..n + 1 : i \in 1..c + 1 /\ i <= n + 1
          /\ \A i \in n + 2..c + 1 : i \in 1..c + 1 /\ ~(i <= n + 1)
      BY <1>1
    <2> QED BY <2>2, <2>3
  <1> HIDE DEF r
  <1>8. \A i \in n + 2..c + 1 : r[i] = q[i - 1]
    <2> SUFFICES ASSUME NEW i \in n + 2..c + 1 PROVE r[i] = q[i - 1]
      OBVIOUS
    <2>1. i - (n + 1) \in 1..c - n /\ n + (i - (n + 1)) = i - 1
      BY <1>1
    <2> QED BY <1>4, <1>7, <2>1
  <1>9. r[n + 1] = e /\ \A i \in 1..n : r[i] = q[i]
    BY <1>1, <1>5, <1>7
  <1> QED BY <1>2, <1>7, <1>8, <1>9 DEF c, Inserts

\* The heap while closure c is being made: new are c and the upvalues found for it.
Capturing(h, c) ==
    /\ h \in Heaps /\ ListsIn(h)
    /\ h[c] \in Closures /\ h[c].ups \subseteq {u \in OpenOf(h) : h[u].on = U!L}
    /\ h[U!L].tt = "thread" /\ h[U!L].stack = U!Stack
    /\ \A o \in U!Allocated : o # U!L => h[o] = heap[o]
    /\ \A o \in U!Of("free") : \/ o = c \/ h[o] = heap[o]
                               \/ h[o].tt = "upval" /\ h[o].on = U!L /\ o \in h[c].ups

\* g is h after luaF_findupval for a level: at most one address is taken, and what was
\* chained is still there.
Takes(g, h, level) ==
    /\ \A l : U!Found(g, l) = {} => U!Found(h, l) = {}
    /\ U!FreeIn(h) \ U!FreeIn(g) \subseteq IF U!Found(h, level) = {} THEN {U!NextFree(h)} ELSE {}

\* What is chained for a level.
LEMMA FoundIs ==
    ASSUME NEW h \in Heaps, ListsIn(h), U!L \in U!Obj, h[U!L].tt = "thread", NEW l
    PROVE  U!Found(h, l) = {u \in OpenOf(h) : h[u].on = U!L /\ h[u].at = l}
  <1>1. U!ToSet(h[U!L].open) = {u \in OpenOf(h) : h[u].on = U!L}
    BY DEF ListsIn, Listing
  <1> QED BY <1>1 DEF U!Found

\* luaF_findupval finds an upvalue or chains a new one.
LEMMA FindUpvalKeeps ==
    ASSUME IInv, NEW c \in U!Of("free"), NEW h, Capturing(h, c), NEW level \in 1..Len(U!Stack),
           U!Found(h, level) = {} => U!FreeIn(h) # {}
    PROVE  /\ Capturing(U!FindUpval(h, c, level), c)
           /\ Takes(U!FindUpval(h, c, level), h, level)
  <1>1. /\ h \in Heaps /\ ListsIn(h) /\ h[c] \in Closures /\ h[c].tt = "closure"
        /\ h[U!L].tt = "thread" /\ U!L \in U!Obj /\ c \in U!Obj /\ c # U!L /\ level \in Nat
        /\ h[U!L].open \in Seq(U!Obj) /\ h[c].ups \subseteq U!Obj /\ U!L # 0
    <2>1. h[c].tt = "closure"
      BY DEF Capturing, Closures
    <2> QED BY <2>1, Running, Kinds DEF Capturing, U!Of, U!Obj
  <1>2. CASE U!Found(h, level) # {}
    <2> DEFINE E == U!Found(h, level)
               r == [h[c] EXCEPT !.ups = @ \cup E]
               k == [h EXCEPT ![c] = r]
    <2>1. U!FindUpval(h, c, level) = k
      BY <1>2 DEF U!FindUpval
    <2>2. E \subseteq {u \in OpenOf(h) : h[u].on = U!L} /\ E \subseteq U!Obj
      <3>1. U!ToSet(h[U!L].open) = {u \in OpenOf(h) : h[u].on = U!L}
        BY <1>1 DEF ListsIn, Listing
      <3> QED BY <3>1 DEF U!Found, OpenOf
    <2> HIDE DEF E
    <2>3. r \in Closures /\ r.ups = h[c].ups \cup E /\ r.tt = "closure"
      BY <1>1, <2>2 DEF Closures
    <2> HIDE DEF r
    <2>4. k \in Heaps /\ k[c] = r /\ \A o \in U!Obj : o # c => k[o] = h[o]
      BY <1>1, <2>3 DEF Heaps
    <2> HIDE DEF k
    <2>5. OpenOf(k) = OpenOf(h)
      BY <1>1, <2>3, <2>4 DEF OpenOf
    <2>6. \A u \in OpenOf(h) : u # c /\ u \in U!Obj /\ k[u] = h[u] /\ h[u].on # c /\ h[u].on \in U!Obj
      BY <1>1, <2>4, OpenSlot DEF OpenOf
    <2>7. ListsIn(k)
      <3>1. ASSUME NEW t \in U!Obj, k[t].tt = "thread" PROVE Listing(k, t)
        <4>1. k[t] = h[t] /\ h[t].tt = "thread"
          BY <2>3, <2>4, <3>1
        <4>2. /\ Listing(h, t) /\ h[t].open \in Seq(U!Obj)
              /\ \A i \in 1..Len(h[t].open) : h[t].open[i] \in OpenOf(h)
          BY <1>1, <4>1, Decreasing DEF ListsIn
        <4>3. \A i \in 1..Len(h[t].open) : i > 1 => i - 1 \in 1..Len(h[t].open)
          BY <4>2
        <4>4. U!ToSet(k[t].open) = {u \in OpenOf(k) : k[u].on = t}
          BY <2>5, <2>6, <4>1, <4>2 DEF Listing
        <4>5. \A i \in 1..Len(k[t].open) : /\ k[k[t].open[i]].at <= Len(k[t].stack)
                                           /\ i > 1 => k[k[t].open[i]].at < k[k[t].open[i - 1]].at
          BY <2>6, <4>1, <4>2, <4>3 DEF Listing
        <4> QED BY <4>4, <4>5 DEF Listing
      <3>2. \A u \in OpenOf(k) : k[k[u].on].tt = "thread" /\ k[u].at >= 1
        BY <1>1, <2>4, <2>5, <2>6 DEF ListsIn
      <3> QED BY <3>1, <3>2 DEF ListsIn
    <2>8. \A o \in U!Of("free") : \/ o = c \/ k[o] = heap[o]
                                  \/ k[o].tt = "upval" /\ k[o].on = U!L /\ o \in k[c].ups
      BY <2>3, <2>4 DEF Capturing, U!Of
    <2>9. \A o \in U!Allocated : o # U!L => k[o] = heap[o]
      BY <2>4 DEF Capturing, U!Allocated, U!Of
    <2>10. k[c] \in Closures /\ k[c].ups \subseteq {u \in OpenOf(k) : k[u].on = U!L}
      BY <2>2, <2>3, <2>4, <2>5, <2>6 DEF Capturing
    <2>11. k[U!L].tt = "thread" /\ k[U!L].stack = U!Stack
      BY <1>1, <2>4 DEF Capturing
    <2>12. Takes(k, h, level)
      <3>1. ASSUME NEW l PROVE U!Found(k, l) = U!Found(h, l)
        <4>1. k[U!L].tt = "thread"
          BY <2>11
        <4>2. U!Found(k, l) = {u \in OpenOf(k) : k[u].on = U!L /\ k[u].at = l}
          BY <1>1, <2>4, <2>7, <4>1, FoundIs
        <4>3. U!Found(h, l) = {u \in OpenOf(h) : h[u].on = U!L /\ h[u].at = l}
          BY <1>1, FoundIs
        <4> QED BY <2>5, <2>6, <4>2, <4>3
      <3>2. U!FreeIn(k) = U!FreeIn(h)
        BY <1>1, <2>3, <2>4 DEF U!FreeIn
      <3> QED BY <3>1, <3>2 DEF Takes
    <2> QED BY <2>1, <2>4, <2>7, <2>8, <2>9, <2>10, <2>11, <2>12 DEF Capturing
  <1>3. CASE U!Found(h, level) = {}
    <2> DEFINE u == U!NextFree(h)
               n == U!Passed(h, level)
               q == h[U!L].open
               p == U!Chained(h, u, level)
               r == [h[U!L] EXCEPT !.open = p]
               f == [h[c] EXCEPT !.ups = @ \cup {u}]
               k == [h EXCEPT ![u] = U!Upval(U!L, level), ![U!L].open = p, ![c].ups = @ \cup {u}]
    <2>1. U!FindUpval(h, c, level) = k
      BY <1>3 DEF U!FindUpval
    <2>2. u \in U!Obj /\ h[u].tt = "free" /\ u # U!L /\ u # c
      BY <1>1, <1>3, NextFreeIs DEF U!FreeIn
    <2>3. /\ n \in 0..Len(q) /\ (\A i \in 1..n : h[q[i]].at >= level)
          /\ \A i \in n + 1..Len(q) : h[q[i]].at < level
      BY <1>1, PassedIs
    <2>4. p = U!InsertAt(q, n + 1, u)
      BY DEF U!Chained
    <2> HIDE DEF u, n, p
    <2> HIDE DEF q
    <2>5. /\ p \in Seq(U!Obj) /\ Len(p) = Len(q) + 1 /\ (\A i \in 1..n : p[i] = q[i])
          /\ p[n + 1] = u /\ \A i \in n + 2..Len(q) + 1 : p[i] = q[i - 1]
      <3>1. q \in Seq(U!Obj) /\ n \in 0..Len(q) /\ u \in U!Obj
        BY <1>1, <2>2, <2>3 DEF q
      <3>2. U!InsertAt(q, n + 1, u) \in Seq(U!Obj) /\ Inserts(U!InsertAt(q, n + 1, u), q, n, u)
        BY <3>1, Inserted
      <3> QED BY <2>4, <3>2 DEF Inserts
    <2> USE DEF q
    <2>6. r \in Threads /\ r.tt = "thread" /\ r.open = p /\ r.stack = h[U!L].stack
      BY <1>1, <2>5, Kinds DEF Threads
    <2>7. f \in Closures /\ f.tt = "closure" /\ f.ups = h[c].ups \cup {u}
      BY <1>1, <2>2 DEF Closures
    <2>8. U!Upval(U!L, level) \in Upvals /\ U!Upval(U!L, level).tt = "upval" /\ U!Upval(U!L, level).on = U!L
          /\ U!Upval(U!L, level).at = level
      BY <1>1 DEF U!Upval, Upvals, Value
    <2>9. k = [[[h EXCEPT ![u] = U!Upval(U!L, level)] EXCEPT ![U!L] = r] EXCEPT ![c] = f]
      <3>1. [h EXCEPT ![u] = U!Upval(U!L, level)][U!L] = h[U!L]
        BY <1>1, <2>2 DEF Heaps
      <3>2. [[h EXCEPT ![u] = U!Upval(U!L, level)] EXCEPT ![U!L] = r][c] = h[c]
        BY <1>1, <2>2 DEF Heaps
      <3> QED BY <3>1, <3>2
    <2> HIDE DEF r, f
    <2>10. /\ k \in Heaps /\ k[u] = U!Upval(U!L, level) /\ k[U!L] = r /\ k[c] = f
           /\ \A o \in U!Obj : o # u /\ o # U!L /\ o # c => k[o] = h[o]
      <3>1. [h EXCEPT ![u] = U!Upval(U!L, level)] \in Heaps
        BY <1>1, <2>8 DEF Heaps
      <3>2. [[h EXCEPT ![u] = U!Upval(U!L, level)] EXCEPT ![U!L] = r] \in Heaps
        BY <2>6, <3>1 DEF Heaps
      <3>3. k \in Heaps
        BY <2>7, <2>9, <3>2 DEF Heaps
      <3>4. /\ k[u] = U!Upval(U!L, level) /\ k[U!L] = r /\ k[c] = f
            /\ \A o \in U!Obj : o # u /\ o # U!L /\ o # c => k[o] = h[o]
        BY <1>1, <2>2, <2>9 DEF Heaps
      <3> QED BY <3>3, <3>4
    <2> HIDE DEF k
    <2>11. OpenOf(k) = OpenOf(h) \cup {u} /\ u \notin OpenOf(h)
      BY <1>1, <2>2, <2>6, <2>7, <2>8, <2>10 DEF OpenOf
    <2>12. \A v \in OpenOf(h) : /\ v \in U!Obj /\ k[v] = h[v] /\ v # u /\ v # U!L /\ v # c
                                /\ h[v].on \in U!Obj /\ h[v].on # u /\ h[v].on # c
                                /\ h[h[v].on].tt = "thread"
      BY <1>1, <2>2, <2>10, OpenSlot DEF OpenOf
    <2>13. Listing(k, U!L)
      <3> DEFINE c1 == Len(q)
      <3>1. /\ q \in Seq(U!Obj) /\ c1 \in Nat /\ Listing(h, U!L)
            /\ \A i \in 1..c1 : q[i] \in OpenOf(h) /\ h[q[i]].at \in 1..Len(h[U!L].stack)
        BY <1>1, Decreasing DEF ListsIn
      <3>2. U!ToSet(p) = U!ToSet(q) \cup {u}
        <4>1. \A i \in 1..c1 + 1 : i \in 1..n \/ i = n + 1 \/ (i \in n + 2..c1 + 1 /\ i - 1 \in 1..c1)
          BY <2>3, <3>1
        <4>2. \A i \in 1..c1 : (i \in 1..n /\ i \in 1..c1 + 1)
                               \/ (i + 1 \in n + 2..c1 + 1 /\ i + 1 \in 1..c1 + 1 /\ (i + 1) - 1 = i)
          BY <2>3, <3>1
        <4>3. n + 1 \in 1..c1 + 1 /\ \A i \in 1..n : i \in 1..c1
          BY <2>3, <3>1
        <4> HIDE DEF q
        <4>0. U!ToSet(p) = {p[i] : i \in 1..c1 + 1} /\ U!ToSet(q) = {q[i] : i \in 1..c1}
          BY <2>5, <3>1 DEF U!ToSet
        <4> HIDE DEF c1
        <4>4. ASSUME NEW i \in 1..c1 + 1 PROVE p[i] \in U!ToSet(q) \cup {u}
          BY <2>5, <4>0, <4>1, <4>3 DEF c1
        <4>5. ASSUME NEW i \in 1..c1 PROVE q[i] \in U!ToSet(p)
          BY <2>5, <4>0, <4>2 DEF c1
        <4>6. u \in U!ToSet(p)
          BY <2>5, <4>0, <4>3 DEF c1
        <4> QED BY <4>0, <4>4, <4>5, <4>6
      <3>3. U!ToSet(p) = {v \in OpenOf(k) : k[v].on = U!L}
        BY <2>8, <2>10, <2>11, <2>12, <3>1, <3>2 DEF Listing
      <3>4. ASSUME NEW i \in 1..c1 + 1
            PROVE  /\ k[p[i]].at <= Len(h[U!L].stack)
                   /\ i > 1 => k[p[i]].at < k[p[i - 1]].at
        <4> DEFINE at(j) == k[p[j]].at
        <4>1. \A j \in 1..c1 : k[q[j]].at = h[q[j]].at /\ h[q[j]].at \in 1..Len(h[U!L].stack)
          BY <2>12, <3>1
        <4>2. /\ \A j \in 1..n : at(j) = h[q[j]].at
              /\ at(n + 1) = level
              /\ \A j \in n + 2..c1 + 1 : at(j) = h[q[j - 1]].at
          <5>1. \A j \in 1..n : j \in 1..c1
            BY <2>3, <3>1
          <5>2. \A j \in n + 2..c1 + 1 : j - 1 \in 1..c1
            BY <2>3, <3>1
          <5> QED BY <2>5, <2>8, <2>10, <4>1, <5>1, <5>2
        <4> HIDE DEF at
        <4>3. level <= Len(h[U!L].stack)
          BY DEF Capturing
        <4>4. \A j \in 1..c1 : h[q[j]].at # level
          <5>1. \A j \in 1..c1 : q[j] \in U!ToSet(q)
            BY <3>1 DEF U!ToSet
          <5> QED BY <1>3, <5>1 DEF U!Found
        <4>5. \A j \in 1..c1 : j > 1 => h[q[j]].at < h[q[j - 1]].at
          BY <3>1 DEF Listing
        <4> HIDE DEF q, c1
        <4>6. Len(h[U!L].stack) \in Nat
          BY <1>1, Kinds
        <4>7. CASE i \in 1..n
          <5>1. i \in 1..c1 /\ (i > 1 => i - 1 \in 1..n)
            BY <2>3, <3>1, <4>7 DEF c1
          <5> QED BY <4>1, <4>2, <4>5, <4>7, <5>1, <4>6 DEF at
        <4>8. CASE i = n + 1
          <5>1. i > 1 => n \in 1..n /\ n \in 1..c1 /\ i - 1 = n
            BY <2>3, <3>1, <4>8 DEF c1
          <5>2. i > 1 => h[q[n]].at > level
            BY <1>1, <2>3, <4>1, <4>4, <5>1
          <5> QED BY <4>2, <4>3, <4>8, <5>1, <5>2 DEF at
        <4>9. CASE i = n + 2
          <5>1. i \in n + 2..c1 + 1 /\ i - 1 = n + 1 /\ n + 1 \in n + 1..c1 /\ n + 1 \in 1..c1
            BY <2>3, <3>1, <4>9 DEF c1
          <5>2. h[q[n + 1]].at < level
            BY <2>3, <5>1 DEF c1
          <5> QED BY <4>1, <4>2, <4>6, <5>1, <5>2 DEF at
        <4>10. CASE i \in n + 3..c1 + 1
          <5>1. /\ i \in n + 2..c1 + 1 /\ i - 1 \in n + 2..c1 + 1
                /\ i - 1 \in 1..c1 /\ i - 1 > 1
            BY <2>3, <3>1, <4>10 DEF c1
          <5>2. h[q[i - 1]].at < h[q[(i - 1) - 1]].at
            BY <4>5, <5>1
          <5> QED BY <4>1, <4>2, <4>6, <5>1, <5>2 DEF at
        <4>11. i \in 1..n \/ i = n + 1 \/ i = n + 2 \/ i \in n + 3..c1 + 1
          BY <2>3, <3>1 DEF c1
        <4> QED BY <4>7, <4>8, <4>9, <4>10, <4>11
      <3> QED BY <2>5, <2>6, <2>10, <3>1, <3>3, <3>4 DEF Listing
    <2>14. ListsIn(k)
      <3>1. ASSUME NEW t \in U!Obj, k[t].tt = "thread", t # U!L PROVE Listing(k, t)
        <4>1. k[t] = h[t] /\ h[t].tt = "thread"
          BY <2>7, <2>8, <2>10, <3>1
        <4>2. /\ Listing(h, t) /\ h[t].open \in Seq(U!Obj)
              /\ \A i \in 1..Len(h[t].open) : h[t].open[i] \in OpenOf(h)
          BY <1>1, <4>1, Decreasing DEF ListsIn
        <4>3. \A i \in 1..Len(h[t].open) : i > 1 => i - 1 \in 1..Len(h[t].open)
          BY <4>2
        <4>4. U!ToSet(k[t].open) = {v \in OpenOf(k) : k[v].on = t}
          BY <2>8, <2>10, <2>11, <2>12, <3>1, <4>1, <4>2 DEF Listing
        <4>5. \A i \in 1..Len(k[t].open) : /\ k[k[t].open[i]].at <= Len(k[t].stack)
                                           /\ i > 1 => k[k[t].open[i]].at < k[k[t].open[i - 1]].at
          BY <2>12, <4>1, <4>2, <4>3 DEF Listing
        <4> QED BY <4>4, <4>5 DEF Listing
      <3>2. \A v \in OpenOf(k) : k[k[v].on].tt = "thread" /\ k[v].at >= 1
        <4>1. ASSUME NEW v \in OpenOf(h) PROVE k[k[v].on].tt = "thread" /\ k[v].at >= 1
          <5>1. h[v].at >= 1
            BY <1>1 DEF ListsIn
          <5> QED BY <2>6, <2>10, <2>12, <5>1
        <4> QED BY <2>6, <2>8, <2>10, <2>11, <4>1
      <3> QED BY <2>13, <3>1, <3>2 DEF ListsIn
    <2>15. \A o \in U!Of("free") : \/ o = c \/ k[o] = heap[o]
                                   \/ k[o].tt = "upval" /\ k[o].on = U!L /\ o \in k[c].ups
      <3> SUFFICES ASSUME NEW o \in U!Of("free"), o # c
                   PROVE  k[o] = heap[o] \/ (k[o].tt = "upval" /\ k[o].on = U!L /\ o \in k[c].ups)
        OBVIOUS
      <3>1. o \in U!Obj /\ o # U!L
        BY Running DEF U!Of
      <3>2. CASE o = u
        BY <2>7, <2>8, <2>10, <3>2
      <3>3. CASE o # u
        BY <2>7, <2>10, <3>1, <3>3 DEF Capturing
      <3> QED BY <3>2, <3>3
    <2>16. ASSUME NEW o \in U!Allocated, o # U!L PROVE k[o] = heap[o]
      <3>1. o \in U!Obj /\ o # c /\ h[o] = heap[o] /\ heap[o].tt # "free"
        BY <2>16 DEF Capturing, U!Allocated, U!Of
      <3> QED BY <2>2, <2>10, <2>16, <3>1
    <2>17. k[c] \in Closures /\ k[c].ups \subseteq {v \in OpenOf(k) : k[v].on = U!L}
      BY <2>7, <2>8, <2>10, <2>11, <2>12 DEF Capturing
    <2>18. k[U!L].tt = "thread" /\ k[U!L].stack = U!Stack
      BY <2>6, <2>10 DEF Capturing
    <2>19. Takes(k, h, level)
      <3>1. ASSUME NEW l, U!Found(k, l) = {} PROVE U!Found(h, l) = {}
        <4>1. k[U!L].tt = "thread"
          BY <2>18
        <4>2. U!Found(h, l) \subseteq U!Found(k, l)
          BY <1>1, <2>10, <2>11, <2>12, <2>14, <4>1, FoundIs
        <4> QED BY <3>1, <4>2
      <3>2. U!FreeIn(h) \ U!FreeIn(k) \subseteq {u}
        BY <1>1, <2>6, <2>7, <2>10 DEF U!FreeIn
      <3> QED BY <1>3, <3>1, <3>2 DEF Takes, u
    <2> QED BY <2>1, <2>10, <2>14, <2>15, <2>16, <2>17, <2>18, <2>19 DEF Capturing
  <1> QED BY <1>2, <1>3

\* A longer stack leaves the lists as they are.
LEMMA ListsWithStack ==
    ASSUME NEW h \in Heaps, ListsIn(h), NEW t \in U!Obj, h[t].tt = "thread", NEW s \in Seq(Value),
           Len(s) >= Len(h[t].stack), NEW g, StackIs(g, h, t, s)
    PROVE  OpenOf(g) = OpenOf(h) /\ ListsIn(g)
  <1>1. /\ g \in Heaps /\ \A o \in U!Obj : o # t => g[o] = h[o]
        /\ g[t].tt = "thread" /\ g[t].stack = s /\ g[t].open = h[t].open
    BY DEF StackIs
  <1>2. OpenOf(g) = OpenOf(h)
    BY <1>1 DEF OpenOf
  <1>3. \A u \in OpenOf(h) : u \in U!Obj /\ u # t /\ g[u] = h[u] /\ h[u].at \in Nat /\ h[u].on \in U!Obj
                             /\ h[h[u].on].tt = "thread" /\ h[u].at >= 1
    BY <1>1, OpenSlot, Kinds DEF OpenOf, ListsIn
  <1>4. ASSUME NEW o \in U!Obj, g[o].tt = "thread" PROVE Listing(g, o)
    <2>1. h[o].tt = "thread" /\ g[o].open = h[o].open
      BY <1>1, <1>4
    <2>2. /\ Listing(h, o) /\ h[o].open \in Seq(U!Obj)
          /\ \A i \in 1..Len(h[o].open) : h[o].open[i] \in OpenOf(h)
      BY <2>1, Decreasing DEF ListsIn
    <2>3. \A i \in 1..Len(h[o].open) : i > 1 => i - 1 \in 1..Len(h[o].open)
      BY <2>2
    <2>4. /\ Len(g[o].stack) \in Nat /\ Len(h[o].stack) \in Nat /\ Len(g[o].stack) >= Len(h[o].stack)
      <3>1. g[o].stack \in Seq(Value) /\ h[o].stack \in Seq(Value)
        BY <1>1, <1>4, <2>1, Kinds
      <3>2. CASE o = t
        BY <1>1, <3>1, <3>2
      <3>3. CASE o # t
        BY <1>1, <3>1, <3>3
      <3> QED BY <3>2, <3>3
    <2>5. U!ToSet(g[o].open) = {u \in OpenOf(g) : g[u].on = o}
      BY <1>2, <1>3, <2>1, <2>2 DEF Listing
    <2>6. ASSUME NEW i \in 1..Len(h[o].open)
          PROVE  /\ g[h[o].open[i]].at <= Len(g[o].stack)
                 /\ i > 1 => g[h[o].open[i]].at < g[h[o].open[i - 1]].at
      <3>1. /\ h[h[o].open[i]].at <= Len(h[o].stack)
            /\ i > 1 => h[h[o].open[i]].at < h[h[o].open[i - 1]].at
        BY <2>2 DEF Listing
      <3>2. g[h[o].open[i]] = h[h[o].open[i]] /\ h[h[o].open[i]].at \in Nat
            /\ (i > 1 => g[h[o].open[i - 1]] = h[h[o].open[i - 1]])
        BY <1>3, <2>2, <2>3
      <3> QED BY <2>4, <3>1, <3>2
    <2> QED BY <2>1, <2>5, <2>6 DEF Listing
  <1>5. \A u \in OpenOf(g) : g[g[u].on].tt = "thread" /\ g[u].at >= 1
    BY <1>1, <1>2, <1>3
  <1> QED BY <1>2, <1>4, <1>5 DEF ListsIn

\* A set that is larger than another has members left when it loses as many.
LEMMA Roomy ==
    ASSUME NEW B, IsFiniteSet(B), NEW X, IsFiniteSet(X), Cardinality(B) > Cardinality(X)
    PROVE  /\ B # {}
           /\ \A d : X # {} => B \ {d} # {}
           /\ \A d, e : (\E x, y \in X : x # y) => B \ {d, e} # {}
  <1>0. ASSUME NEW G, IsFiniteSet(G), NEW d
        PROVE  /\ Cardinality(G \ {d}) >= Cardinality(G) - 1 /\ Cardinality(G \ {d}) \in Nat
               /\ IsFiniteSet(G \ {d})
    <2>1. Cardinality(G) \in Nat
      BY <1>0, FS_CardinalityType
    <2>2. IsFiniteSet(G \ {d}) /\ Cardinality(G \ {d}) =
             IF d \in G THEN Cardinality(G) - 1 ELSE Cardinality(G)
      BY <1>0, FS_RemoveElement, Zenon
    <2>3. Cardinality(G \ {d}) \in Nat
      BY <2>2, FS_CardinalityType
    <2>4. Cardinality(G \ {d}) >= Cardinality(G) - 1
      BY <2>1, <2>2
    <2> QED BY <2>2, <2>3, <2>4
  <1>1. Cardinality(B) \in Nat /\ Cardinality(X) \in Nat
    BY FS_CardinalityType
  <1>2. B # {}
    BY <1>1, FS_EmptySet
  <1>3. ASSUME NEW d, X # {} PROVE B \ {d} # {}
    <2>1. Cardinality(X) # 0
      BY <1>3, FS_EmptySet
    <2>2. Cardinality(B \ {d}) >= Cardinality(B) - 1 /\ Cardinality(B \ {d}) \in Nat
      BY <1>0
    <2> QED BY <1>1, <2>1, <2>2, FS_EmptySet
  <1>4. ASSUME NEW d, NEW e, NEW x \in X, NEW y \in X, x # y PROVE B \ {d, e} # {}
    <2>1. Cardinality(X) >= 2
      <3>1. Cardinality(X \ {x}) = Cardinality(X) - 1 /\ IsFiniteSet(X \ {x}) /\ y \in X \ {x}
        BY <1>4, FS_RemoveElement
      <3>2. Cardinality(X \ {x}) # 0 /\ Cardinality(X \ {x}) \in Nat
        BY <3>1, FS_EmptySet, FS_CardinalityType
      <3> QED BY <1>1, <3>1, <3>2
    <2> DEFINE G == B \ {d}
    <2>2. Cardinality(G) >= Cardinality(B) - 1 /\ Cardinality(G) \in Nat /\ IsFiniteSet(G)
      BY <1>0
    <2> HIDE DEF G
    <2>3. Cardinality(G \ {e}) >= Cardinality(G) - 1 /\ Cardinality(G \ {e}) \in Nat
          /\ IsFiniteSet(G \ {e})
      BY <1>0, <2>2
    <2>4. G \ {e} # {}
      BY <1>1, <2>1, <2>2, <2>3, FS_EmptySet
    <2> QED BY <2>4 DEF G
  <1> QED BY <1>2, <1>3, <1>4

\* OP_CLOSURE from its upvalues on: it goes to stack s of the running thread.
LEMMA CapturedStep ==
    ASSUME IInv, NEW c \in U!Of("free"), NEW h, Capturing(h, c), NEW s \in Seq(Value),
           Len(s) >= Len(U!Stack),
           \A i \in 1..Len(s) : s[i] = c \/ (i \in 1..Len(U!Stack) /\ s[i] = U!Stack[i]),
           heap' = WithStack(h, U!L, s), uvhead' = uvhead \cup h[c].ups,
           marked' = [U!Resurrected(h[c].ups) EXCEPT ![c] = "white"],
           UNCHANGED <<gray, nested, U!collector>>
    PROVE  IInv'
  <1> DEFINE A == {c} \cup (OpenOf(h) \ U!Open)
             W == h[c].ups \cap U!Dead
             V == {c}
  <1>1. /\ h \in Heaps /\ ListsIn(h) /\ h[c] \in Closures /\ h[c].tt = "closure"
        /\ h[c].ups \subseteq {u \in OpenOf(h) : h[u].on = U!L}
        /\ h[U!L].tt = "thread" /\ h[U!L].stack = U!Stack
        /\ \A o \in U!Allocated : o # U!L => h[o] = heap[o]
        /\ \A o \in U!Of("free") : \/ o = c \/ h[o] = heap[o]
                                   \/ h[o].tt = "upval" /\ h[o].on = U!L /\ o \in h[c].ups
    <2>1. h[c].tt = "closure"
      BY DEF Capturing, Closures
    <2> QED BY <2>1 DEF Capturing
  <1>2. /\ c \in U!Obj /\ heap[c].tt = "free" /\ c # U!L /\ U!L \in U!Obj /\ U!L # 0
        /\ U!L \in U!Of("thread")
        /\ U!L \in U!Allocated /\ heap \in Heaps /\ heap[U!L].tt = "thread" /\ U!Stack \in Seq(Value)
        /\ c \notin U!Allocated
    BY Running DEF U!Of, U!Obj, Live, U!Allocated, IInv, TypeOK
  <1>3. /\ heap' \in Heaps /\ \A o \in U!Obj : o # U!L => heap'[o] = h[o]
        /\ heap'[U!L].tt = "thread" /\ heap'[U!L].stack = s
        /\ OpenOf(heap') = OpenOf(h) /\ ListsIn(heap')
    <2>1. StackIs(heap', h, U!L, s)
      BY <1>1, <1>2, StackWritten
    <2>2. Len(s) >= Len(h[U!L].stack)
      BY <1>1
    <2>3. OpenOf(heap') = OpenOf(h) /\ ListsIn(heap')
      BY <1>1, <1>2, <2>1, <2>2, ListsWithStack
    <2> QED BY <2>1, <2>3 DEF StackIs
  <1>4. \A o \in U!Obj : o \in U!Of("free") \/ o \in U!Allocated
    BY DEF U!Allocated
  <1>5. U!Open = OpenOf(heap) /\ uvhead = U!Open /\ U!Open \subseteq U!Allocated
    BY DEF U!Open, OpenOf, U!Of, U!Allocated, IInv, Lists
  <1>6. U!Open \subseteq OpenOf(h) /\ \A u \in U!Open : h[u] = heap[u]
    <2>1. \A u \in U!Open : u # U!L /\ u \in U!Allocated
      BY <1>2, <1>5 DEF OpenOf
    <2> QED BY <1>1, <1>5, <2>1 DEF OpenOf
  <1>7. ASSUME NEW u \in OpenOf(h), u \notin U!Open
        PROVE  u \in U!Of("free") /\ u \in h[c].ups /\ h[u].on = U!L /\ u # c
    <2>1. u \in U!Obj /\ h[u].tt = "upval" /\ h[u].on # 0 /\ u # U!L /\ u # c
      BY <1>1 DEF OpenOf
    <2>2. u \in U!Of("free")
      <3>1. u \in U!Allocated => h[u] = heap[u]
        BY <1>1, <2>1
      <3> QED BY <1>4, <1>5, <1>7, <2>1, <3>1 DEF OpenOf
    <2>3. h[u] # heap[u]
      BY <2>1, <2>2 DEF U!Of
    <2> QED BY <1>1, <2>1, <2>2, <2>3
  <1>8. OpenOf(h) = U!Open \cup h[c].ups
    BY <1>1, <1>6, <1>7
  <1>9. A \subseteq U!Of("free") /\ W \subseteq {u \in U!Open \cap U!Dead : heap[u].on = U!L}
    <2>1. A \subseteq U!Of("free")
      BY <1>7
    <2>2. ASSUME NEW w \in W PROVE w \in U!Open /\ w \in U!Dead /\ heap[w].on = U!L
      <3>1. w \in U!Allocated /\ w \in OpenOf(h) /\ h[w].on = U!L /\ w # U!L
        BY <1>1 DEF U!Dead, OpenOf
      <3>2. h[w] = heap[w]
        BY <1>1, <3>1
      <3> QED BY <1>5, <3>1, <3>2 DEF OpenOf
    <2> QED BY <2>1, <2>2
  <1>10. marked' = [o \in U!Obj |-> IF o \in A \cup W THEN "white" ELSE marked[o]]
    <2>1. \A u \in h[c].ups : u \in U!Obj /\ u \in OpenOf(h) /\ u # c
      BY <1>1 DEF OpenOf
    <2>2. \A o \in U!Obj : o # c => (o \in h[c].ups \ (U!Allocated \ U!Dead) <=> o \in A \cup W)
      <3> SUFFICES ASSUME NEW o \in U!Obj, o # c
                   PROVE  o \in h[c].ups \ (U!Allocated \ U!Dead) <=> o \in A \cup W
        OBVIOUS
      <3>1. ASSUME o \in h[c].ups, o \notin U!Allocated \ U!Dead PROVE o \in A \cup W
        <4>1. CASE o \in U!Allocated
          BY <3>1, <4>1
        <4>2. CASE o \notin U!Allocated
          BY <1>5, <2>1, <3>1, <4>2
        <4> QED BY <4>1, <4>2
      <3>2. ASSUME o \in A PROVE o \in h[c].ups \ (U!Allocated \ U!Dead)
        <4>1. o \in U!Of("free") /\ o \in h[c].ups
          BY <1>7, <3>2
        <4> QED BY <4>1 DEF U!Allocated
      <3> QED BY <3>1, <3>2
    <2>3. marked' = [o \in U!Obj |-> IF o = c THEN "white"
                                     ELSE IF o \in h[c].ups \ (U!Allocated \ U!Dead) THEN "white"
                                     ELSE marked[o]]
      BY <1>2 DEF U!Resurrected
    <2>4. c \in A
      OBVIOUS
    <2> HIDE DEF A, W
    <2> QED BY <2>2, <2>3, <2>4
  <1>11. Written(V)
    <2>1. OnlyStack(U!L, s, V)
      <3>1. \A o \in U!Allocated : o # U!L => heap'[o] = heap[o]
        BY <1>1, <1>3 DEF U!Allocated
      <3> QED BY <1>3, <3>1 DEF OnlyStack, U!Stack
    <2> QED BY <1>2, <2>1, OnlyStackWritten
  <1>12. \A o \in U!Of("upval")' : o \in OpenOf(h) \/ o \notin A
    BY <1>2, <1>3, <1>1 DEF U!Of
  <1>13. Made(A, W, V)
    <2>1. heap'[c] = h[c]
      BY <1>2, <1>3
    <2>2. h[c].ups \subseteq (Live \cap U!Of("upval")) \cup W \cup (A \cap U!Of("upval")')
      <3> SUFFICES ASSUME NEW u \in h[c].ups, u \notin W
                   PROVE  u \in (Live \cap U!Of("upval")) \cup (A \cap U!Of("upval")')
        OBVIOUS
      <3>1. u \in OpenOf(h) /\ u # U!L /\ heap'[u] = h[u] /\ u \in U!Obj /\ h[u].tt = "upval"
        BY <1>1, <1>3 DEF OpenOf
      <3>2. CASE u \in U!Open
        BY <1>5, <3>2 DEF U!Open, Live
      <3>3. CASE u \notin U!Open
        BY <3>1, <3>3 DEF U!Of
      <3> QED BY <3>2, <3>3
    <2>3. ASSUME NEW a \in OpenOf(h) \ U!Open
          PROVE  heap'[a].tt = "upval" /\ heap'[a].on = U!L
      BY <1>1, <1>3, <1>7, <2>3 DEF OpenOf
    <2>4. h[c].tt = "closure"
      BY <1>1
    <2>5. \A a \in A : a = c \/ a \in OpenOf(h) \ U!Open
      OBVIOUS
    <2> HIDE DEF A, W, V
    <2> QED BY <2>1, <2>2, <2>3, <2>4, <2>5 DEF Made
  <1>14. \A o \in U!Of("free") \ A : heap'[o] = heap[o]
    <2> SUFFICES ASSUME NEW o \in U!Of("free"), o \notin A PROVE heap'[o] = heap[o]
      OBVIOUS
    <2>1. o \in U!Obj /\ o # U!L /\ o # c /\ o \notin U!Allocated
      BY <1>2 DEF U!Of, U!Allocated
    <2>2. o \notin OpenOf(h)
      BY <1>5, <2>1
    <2>3. h[o] = heap[o]
      BY <1>1, <1>2, <2>1, <2>2 DEF OpenOf
    <2> QED BY <1>3, <2>1, <2>3
  <1>15. TypeOK'
    <2>1. marked' \in [U!Obj -> Colours]
      <3> HIDE DEF A, W
      <3> QED BY <1>10 DEF IInv, TypeOK, Colours
    <2> QED BY <1>3, <2>1 DEF IInv, TypeOK, U!collector
  <1>16. NestedStays(V)
    <2>1. \A o \in U!Of("thread") : heap'[o].tt = "thread"
      BY <1>11 DEF Written
    <2> QED BY <1>3, <2>1, NestedAsBefore
  <1>17. Lists'
    <2>1. U!Open' = OpenOf(heap')
      BY DEF U!Open, OpenOf, U!Of
    <2> QED BY <1>3, <1>5, <1>8, <2>1 DEF Lists
  <1> HIDE DEF A, W
  <1>18. V \subseteq Live' /\ V \cap U!Of("upval")' = {}
    <2>1. U!Allocated' = U!Allocated \cup A
      BY <1>9, <1>11, <1>13, <1>14, <1>15, StepKinds
    <2>2. c \in A /\ marked'[c] = "white"
      BY <1>2, <1>10 DEF A
    <2>3. c \notin U!Of("upval")'
      BY <1>1, <1>2, <1>3 DEF U!Of
    <2> QED BY <2>1, <2>2, <2>3 DEF Live, U!Dead
  <1> HIDE DEF V
  <1> QED BY <1>9, <1>10, <1>11, <1>13, <1>14, <1>15, <1>16, <1>17, <1>18, ProgramStep
          DEF NestedStays, U!collector

\* OP_CLOSURE with luaF_findupval for each local it captures.
LEMMA CaptureInv ==
    ASSUME IInv, NEW levels \in U!Captures, NEW ra \in 1..MaxStack, U!Capture(levels, ra)
    PROVE  IInv'
  <1> DEFINE B == U!FreeIn(heap)
             X == {l \in U!ToSet(levels) : U!Found(heap, l) = {}}
             c == U!NextFree(heap)
             h0 == [heap EXCEPT ![c] = U!Closure({})]
             g == U!FindUpval(h0, c, levels[1])
             h == IF Len(levels) = 1 THEN g ELSE U!FindUpval(g, c, levels[2])
  <1>1. /\ ra <= Len(U!Stack) + 1 /\ U!ToSet(levels) \subseteq DOMAIN U!Stack
        /\ U!Cardinality(B) > U!Cardinality(X)
        /\ heap' = U!Put(h, ra, c) /\ marked' = [U!Resurrected(h[c].ups) EXCEPT ![c] = "white"]
        /\ uvhead' = uvhead \cup h[c].ups /\ UNCHANGED <<gray, nested, U!collector>>
    BY DEF U!Capture
  <1>2. /\ U!L \in U!Obj /\ U!L # 0 /\ heap \in Heaps /\ heap[U!L].tt = "thread" /\ U!Stack \in Seq(Value)
        /\ ListsIn(heap) /\ Len(U!Stack) \in Nat /\ DOMAIN U!Stack = 1..Len(U!Stack)
    BY Running DEF IInv, TypeOK, Lists, U!Obj
  <1>3. /\ levels[1] \in 1..Len(U!Stack) /\ levels[1] \in U!ToSet(levels)
        /\ \/ Len(levels) = 1
           \/ /\ Len(levels) = 2 /\ levels[2] \in 1..Len(U!Stack) /\ levels[2] \in U!ToSet(levels)
              /\ levels[1] # levels[2]
    <2>1. CASE \E i \in 1..MaxStack : levels = <<i>>
      <3>1. Len(levels) = 1 /\ levels[1] \in U!ToSet(levels)
        BY <2>1 DEF U!ToSet
      <3> QED BY <1>1, <1>2, <3>1
    <2>2. CASE \E i \in 1..2 : levels = <<i, 3 - i>>
      <3>1. PICK i \in 1..2 : levels = <<i, 3 - i>>
        BY <2>2
      <3>2. /\ Len(levels) = 2 /\ levels[1] = i /\ levels[2] = 3 - i /\ i # 3 - i
            /\ levels[1] \in U!ToSet(levels) /\ levels[2] \in U!ToSet(levels)
        BY <3>1 DEF U!ToSet
      <3> QED BY <1>1, <1>2, <3>2
    <2> QED BY <2>1, <2>2 DEF U!Captures
  <1>4. IsFiniteSet(B) /\ IsFiniteSet(X)
    <2>1. IsFiniteSet(U!Obj) /\ B \subseteq U!Obj
      <3>1. MaxObj \in Nat
        BY PartsConstants
      <3> QED BY <3>1, FS_Interval DEF U!Obj, U!FreeIn
    <2>2. IsFiniteSet(1..Len(U!Stack)) /\ X \subseteq 1..Len(U!Stack)
      BY <1>1, <1>2, FS_Interval
    <2> QED BY <2>1, <2>2, FS_Subset
  <1> HIDE DEF B, X
  <1>5. /\ B # {}
        /\ \A d : X # {} => B \ {d} # {}
        /\ \A d, e : (\E x, y \in X : x # y) => B \ {d, e} # {}
    <2>1. Cardinality(B) > Cardinality(X)
      BY <1>1 DEF Cardinality, U!Cardinality
    <2> QED BY <1>4, <2>1, Roomy
  <1>6. c \in U!Of("free") /\ c \in U!Obj /\ heap[c].tt = "free" /\ c # U!L
    <2>1. c \in U!FreeIn(heap)
      BY <1>5, NextFreeIs DEF B
    <2> QED BY <1>2, <2>1 DEF U!FreeIn, U!Of
  <1> HIDE DEF c
  <1>7. U!Closure({}) \in Closures /\ U!Closure({}).tt = "closure" /\ U!Closure({}).ups = {}
    BY DEF U!Closure, Closures
  <1>8. /\ h0 \in Heaps /\ h0[c] = U!Closure({}) /\ \A o \in U!Obj : o # c => h0[o] = heap[o]
    BY <1>2, <1>6, <1>7 DEF Heaps
  <1> HIDE DEF h0
  <1>9. OpenOf(h0) = OpenOf(heap) /\ U!FreeIn(h0) = B \ {c}
    BY <1>6, <1>7, <1>8 DEF OpenOf, U!FreeIn, B
  <1>10. \A u \in OpenOf(heap) : /\ u \in U!Obj /\ u # c /\ h0[u] = heap[u] /\ heap[u].on # c
                                 /\ heap[u].on \in U!Obj
    BY <1>2, <1>6, <1>8, OpenSlot DEF OpenOf
  <1>11. ListsIn(h0)
    <2>1. ASSUME NEW t \in U!Obj, h0[t].tt = "thread" PROVE Listing(h0, t)
      <3>1. h0[t] = heap[t] /\ heap[t].tt = "thread"
        BY <1>7, <1>8, <2>1
      <3>2. /\ Listing(heap, t) /\ heap[t].open \in Seq(U!Obj)
            /\ \A i \in 1..Len(heap[t].open) : heap[t].open[i] \in OpenOf(heap)
        BY <1>2, <3>1, Decreasing DEF ListsIn
      <3>3. \A i \in 1..Len(heap[t].open) : i > 1 => i - 1 \in 1..Len(heap[t].open)
        BY <3>2
      <3>4. U!ToSet(h0[t].open) = {u \in OpenOf(h0) : h0[u].on = t}
        BY <1>9, <1>10, <3>1, <3>2 DEF Listing
      <3>5. \A i \in 1..Len(h0[t].open) : /\ h0[h0[t].open[i]].at <= Len(h0[t].stack)
                                          /\ i > 1 => h0[h0[t].open[i]].at < h0[h0[t].open[i - 1]].at
        BY <1>10, <3>1, <3>2, <3>3 DEF Listing
      <3> QED BY <3>4, <3>5 DEF Listing
    <2>2. \A u \in OpenOf(h0) : h0[h0[u].on].tt = "thread" /\ h0[u].at >= 1
      BY <1>2, <1>8, <1>9, <1>10 DEF ListsIn
    <2> QED BY <2>1, <2>2 DEF ListsIn
  <1>12. Capturing(h0, c)
    <2>1. h0[U!L] = heap[U!L]
      BY <1>2, <1>6, <1>8
    <2>2. \A o \in U!Allocated : h0[o] = heap[o]
      BY <1>6, <1>8 DEF U!Allocated, U!Of
    <2>3. \A o \in U!Of("free") : o = c \/ h0[o] = heap[o]
      BY <1>8 DEF U!Of
    <2> QED BY <1>2, <1>7, <1>8, <1>11, <2>1, <2>2, <2>3 DEF Capturing, U!Stack
  <1>13. \A l : U!Found(h0, l) = U!Found(heap, l)
    <2>1. h0[U!L] = heap[U!L]
      BY <1>2, <1>6, <1>8
    <2>2. \A u \in U!ToSet(heap[U!L].open) : h0[u] = heap[u]
      <3>1. U!ToSet(heap[U!L].open) \subseteq OpenOf(heap)
        BY <1>2 DEF ListsIn, Listing
      <3> QED BY <1>10, <3>1
    <2> QED BY <2>1, <2>2 DEF U!Found
  <1> DEFINE l1 == levels[1]
             l2 == levels[2]
  <1>14. U!Found(h0, l1) = {} => U!FreeIn(h0) # {}
    <2> SUFFICES ASSUME U!Found(h0, l1) = {} PROVE B \ {c} # {}
      BY <1>9
    <2>1. l1 \in X
      BY <1>3, <1>13 DEF X
    <2> QED BY <1>5, <2>1
  <1>15. Capturing(g, c) /\ Takes(g, h0, l1)
    BY <1>3, <1>6, <1>12, <1>14, FindUpvalKeeps
  <1>16. Capturing(h, c)
    <2>1. CASE Len(levels) = 1
      BY <1>15, <2>1
    <2>2. CASE Len(levels) # 1
      <3>1. l2 \in 1..Len(U!Stack) /\ l2 \in U!ToSet(levels) /\ l1 # l2
        BY <1>3, <2>2
      <3> HIDE DEF g, l1, l2
      <3>2. U!Found(g, l2) = {} => U!FreeIn(g) # {}
        <4> SUFFICES ASSUME U!Found(g, l2) = {} PROVE U!FreeIn(g) # {}
          OBVIOUS
        <4>1. U!Found(h0, l2) = {}
          BY <1>15 DEF Takes
        <4>2. l2 \in X
          BY <1>13, <3>1, <4>1 DEF X
        <4>3. CASE U!Found(h0, l1) = {}
          <5>1. l1 \in X
            BY <1>3, <1>13, <4>3 DEF X, l1
          <5>2. B \ {c, U!NextFree(h0)} # {}
            BY <1>5, <3>1, <4>2, <5>1
          <5>3. U!FreeIn(h0) \ U!FreeIn(g) \subseteq {U!NextFree(h0)}
            BY <1>15, <4>3 DEF Takes
          <5> QED BY <1>9, <5>2, <5>3
        <4>4. CASE U!Found(h0, l1) # {}
          <5>1. U!FreeIn(h0) \subseteq U!FreeIn(g)
            BY <1>15, <4>4 DEF Takes
          <5>2. B \ {c} # {}
            BY <1>5, <4>2
          <5> QED BY <1>9, <5>1, <5>2
        <4> QED BY <4>3, <4>4
      <3>3. Capturing(U!FindUpval(g, c, l2), c)
        BY <1>6, <1>15, <3>1, <3>2, FindUpvalKeeps
      <3> QED BY <2>2, <3>3 DEF l2
    <2> QED BY <2>1, <2>2
  <1> HIDE DEF h, g
  <1> DEFINE s == IF ra > Len(U!Stack) THEN Append(U!Stack, c) ELSE [U!Stack EXCEPT ![ra] = c]
  <1>17. /\ s \in Seq(Value) /\ Len(s) >= Len(U!Stack)
         /\ \A i \in 1..Len(s) : s[i] = c \/ (i \in 1..Len(U!Stack) /\ s[i] = U!Stack[i])
    <2>0. c \in Value
      BY <1>6 DEF Value
    <2>1. CASE ra > Len(U!Stack)
      <3>1. s = Append(U!Stack, c)
        BY <2>1
      <3> HIDE DEF s
      <3>2. /\ s \in Seq(Value) /\ Len(s) = Len(U!Stack) + 1 /\ s[Len(U!Stack) + 1] = c
            /\ \A i \in 1..Len(U!Stack) : s[i] = U!Stack[i]
        BY <1>2, <2>0, <3>1
      <3>3. \A i \in 1..Len(U!Stack) + 1 : i = Len(U!Stack) + 1 \/ i \in 1..Len(U!Stack)
        BY <1>2
      <3> QED BY <1>2, <3>2, <3>3
    <2>2. CASE ~(ra > Len(U!Stack))
      <3>1. s = [U!Stack EXCEPT ![ra] = c] /\ ra \in 1..Len(U!Stack)
        BY <1>2, <2>2, PartsConstants
      <3> HIDE DEF s
      <3>2. s \in Seq(Value) /\ Len(s) = Len(U!Stack)
        BY <1>2, <2>0, <3>1
      <3>3. \A i \in 1..Len(U!Stack) : s[i] = IF i = ra THEN c ELSE U!Stack[i]
        BY <1>2, <3>1
      <3> QED BY <1>2, <3>2, <3>3
    <2> QED BY <2>1, <2>2
  <1>18. heap' = WithStack(h, U!L, s)
    <2>1. h[U!L].stack = U!Stack
      BY <1>16 DEF Capturing
    <2>2. CASE ra > Len(U!Stack)
      BY <1>1, <2>1, <2>2 DEF U!Put, U!Pushed, WithStack
    <2>3. CASE ~(ra > Len(U!Stack))
      BY <1>1, <2>1, <2>3 DEF U!Put, WithStack
    <2> QED BY <2>2, <2>3
  <1> HIDE DEF s
  <1> QED BY <1>1, <1>6, <1>16, <1>17, <1>18, CapturedStep DEF h

-----------------------------------------------------------------------------
(* Marking.                                                                 *)

\* What a marking of S reaches: the closed upvalues reached have their values reached.
LEMMA ReachedIs ==
    ASSUME IInv, U!Dead = {}, NEW S, S \subseteq U!Allocated
    PROVE  /\ U!Reached(S) \subseteq U!White /\ S \cap U!White \subseteq U!Reached(S)
           /\ \A u \in U!Reached(S) \cap U!Of("upval") : U!Refs[u] \cap U!White \subseteq U!Reached(S)
           /\ S \cap U!Of("upval") = {} => U!Reached(S) = S \cap U!White
  <1> DEFINE W == S \cap U!White
  <1>1. U!Reached(S) = W \cup (U!White \cap UNION {U!Refs[u] : u \in W \cap U!Of("upval")})
    BY DEF U!Reached
  <1>2. W \subseteq Live
    BY DEF Live, U!White
  <1>3. \A w \in W \cap U!Of("upval") : U!Refs[w] \cap U!Of("upval") = {}
    BY <1>2 DEF IInv, Shape, U!Of
  <1>4. ASSUME NEW u \in U!Reached(S) \cap U!Of("upval") PROVE U!Refs[u] \cap U!White \subseteq U!Reached(S)
    <2>1. u \in W
      BY <1>1, <1>3
    <2> QED BY <1>1, <2>1
  <1> QED BY <1>1, <1>4

\* Only the value of the closed upvalue u is written.
OwnIs(g, h, u, v) ==
    /\ g \in Heaps /\ \A o \in U!Obj : o # u => g[o] = h[o]
    /\ g[u].tt = "upval" /\ g[u].on = 0 /\ g[u].own = v

\* In the words of the model.
LEMMA OwnWritten ==
    ASSUME NEW h \in Heaps, NEW u \in U!Obj, h[u].tt = "upval", h[u].on = 0, NEW v \in Value
    PROVE  OwnIs([h EXCEPT ![u].own = v], h, u, v)
  <1> DEFINE r == [h[u] EXCEPT !.own = v]
  <1>1. r \in Upvals /\ r.tt = "upval" /\ r.on = 0 /\ r.own = v
    BY Kinds DEF Upvals
  <1>2. [h EXCEPT ![u].own = v] = [h EXCEPT ![u] = r]
    OBVIOUS
  <1> HIDE DEF r
  <1> QED BY <1>1, <1>2 DEF Heaps, OwnIs

\* Such a step keeps the kinds and the lists, and only u refers to something else.
LEMMA OwnStep ==
    ASSUME IInv, NEW u \in U!Of("upval") \ U!Open, u \in Live, NEW v \in Value,
           v # U!Nil => v \in Live \ U!Of("upval"),
           OwnIs(heap', heap, u, v), UNCHANGED <<uvhead, nested>>
    PROVE  /\ heap' \in Heaps /\ \A k \in {"free", "thread", "closure", "upval"} : U!Of(k)' = U!Of(k)
           /\ U!Open' = U!Open /\ U!Allocated' = U!Allocated
           /\ \A o \in U!Obj : o # u => U!Refs'[o] = U!Refs[o]
           /\ U!Refs'[u] = {v} \ {U!Nil} /\ Nested' /\ Lists'
  <1>1. /\ heap \in Heaps /\ ListsIn(heap) /\ u \in U!Obj /\ heap[u].tt = "upval" /\ heap[u].on = 0
        /\ uvhead = U!Open /\ U!Open = OpenOf(heap)
    BY DEF IInv, TypeOK, Lists, U!Open, OpenOf, U!Of
  <1> DEFINE r == heap'[u]
  <1>2. r.tt = "upval" /\ r.on = 0 /\ r.own = v
    BY DEF OwnIs
  <1>4. heap' \in Heaps /\ heap'[u] = r /\ \A o \in U!Obj : o # u => heap'[o] = heap[o]
    BY DEF OwnIs
  <1>5. \A k \in {"free", "thread", "closure", "upval"} : U!Of(k)' = U!Of(k)
    BY <1>1, <1>2, <1>4 DEF U!Of
  <1>6. U!Open' = U!Open /\ U!Allocated' = U!Allocated
    <2>1. U!Of("upval")' = U!Of("upval") /\ U!Of("free")' = U!Of("free")
      BY <1>5
    <2>2. \A o \in U!Of("upval") : heap'[o].on = heap[o].on
      BY <1>1, <1>2, <1>4 DEF U!Of
    <2> QED BY <2>1, <2>2 DEF U!Open, U!Allocated
  <1>7. \A x \in U!Open : /\ x \in U!Obj /\ x # u /\ heap'[x] = heap[x]
                          /\ heap[x].on \in U!Obj /\ heap[x].on # u
                          /\ heap'[heap[x].on] = heap[heap[x].on] /\ heap[heap[x].on].tt = "thread"
    BY <1>1, <1>4, OpenSlot
  <1>8. ASSUME NEW o \in U!Obj, o # u PROVE RefsIn(heap', nested', o) = RefsIn(heap, nested, o)
    <2>1. heap'[o] = heap[o]
      BY <1>4, <1>8
    <2>2. heap[o].tt = "upval" => ValueIn(heap', o) = ValueIn(heap, o)
      BY <1>1, <1>7, <1>8, <2>1 DEF ValueIn, OpenOf
    <2>3. CalleeIn(nested', o) = CalleeIn(nested, o)
      OBVIOUS
    <2>4. heap[o].tt \in {"free", "thread", "closure", "upval"}
      BY <1>1, Kinds
    <2>5. CASE heap[o].tt = "thread"
      BY <2>1, <2>3, <2>5, RefsOf
    <2>6. CASE heap[o].tt = "closure"
      BY <2>1, <2>6, RefsOf
    <2>7. CASE heap[o].tt = "upval"
      BY <2>1, <2>2, <2>7, RefsOf
    <2>8. CASE heap[o].tt = "free"
      BY <2>1, <2>8, RefsOf
    <2> QED BY <2>4, <2>5, <2>6, <2>7, <2>8
  <1>9. RefsIn(heap', nested', u) = {v} \ {U!Nil}
    <2>1. heap'[u].tt = "upval" /\ ValueIn(heap', u) = v
      BY <1>2, <1>4 DEF ValueIn
    <2> QED BY <2>1 DEF RefsIn
  <1>10. Nested'
    BY <1>5 DEF IInv, Nested
  <1>11. Lists'
    <2>1. OpenOf(heap') = OpenOf(heap)
      BY <1>1, <1>6 DEF U!Open, OpenOf, U!Of
    <2>2. ASSUME NEW t \in U!Obj, heap'[t].tt = "thread" PROVE Listing(heap', t)
      <3>1. heap'[t] = heap[t] /\ heap[t].tt = "thread"
        BY <1>1, <1>2, <1>4, <2>2
      <3>2. /\ Listing(heap, t) /\ heap[t].open \in Seq(U!Obj)
            /\ \A i \in 1..Len(heap[t].open) : heap[t].open[i] \in U!Open
        BY <1>1, <3>1, Decreasing DEF ListsIn
      <3>3. \A i \in 1..Len(heap[t].open) : i > 1 => i - 1 \in 1..Len(heap[t].open)
        BY <3>2
      <3>4. U!ToSet(heap'[t].open) = {x \in OpenOf(heap') : heap'[x].on = t}
        BY <1>1, <1>7, <2>1, <3>1, <3>2 DEF Listing
      <3>5. \A i \in 1..Len(heap'[t].open) : /\ heap'[heap'[t].open[i]].at <= Len(heap'[t].stack)
                                             /\ i > 1 =>
                                                  heap'[heap'[t].open[i]].at < heap'[heap'[t].open[i - 1]].at
        BY <1>7, <3>1, <3>2, <3>3 DEF Listing
      <3> QED BY <3>4, <3>5 DEF Listing
    <2>3. \A x \in OpenOf(heap') : heap'[heap'[x].on].tt = "thread" /\ heap'[x].at >= 1
      BY <1>1, <1>7, <2>1 DEF ListsIn
    <2> QED BY <1>1, <1>6, <2>2, <2>3 DEF Lists, ListsIn
  <1>12. /\ \A o \in U!Obj : o # u => U!Refs'[o] = U!Refs[o]
         /\ U!Refs'[u] = {v} \ {U!Nil}
    BY <1>1, <1>8, <1>9, RefsAre
  <1> QED BY <1>4, <1>5, <1>6, <1>10, <1>11, <1>12

\* The colours after marking M.
LEMMA PaintedIs ==
    ASSUME IInv, NEW M
    PROVE  /\ U!Painted(M) \in [U!Obj -> Colours]
           /\ \A o \in U!Obj : o \notin M => U!Painted(M)[o] = marked[o]
           /\ \A o \in U!Obj \cap M : U!Painted(M)[o] = IF o \in U!Of("upval") \ U!Open THEN "black"
                                                        ELSE "gray"
  BY DEF U!Painted, IInv, TypeOK, Colours

\* OP_SETUPVAL with its barrier, for an open upvalue and a closed one.
LEMMA SetUpvalInv ==
    ASSUME IInv, NEW f \in U!Obj, NEW v \in Value, U!SetUpval(f, v) PROVE IInv'
  <1>1. /\ f \in U!ToSet(U!Stack) \cap U!Of("closure") /\ v \in U!ToSet(U!Stack) \cup {U!Nil}
        /\ UNCHANGED <<uvhead, nested, U!collector>>
    BY DEF U!SetUpval
  <1>2. PICK u \in heap[f].ups :
         /\ heap' = IF u \in U!Open THEN [heap EXCEPT ![heap[u].on].stack[heap[u].at] = v]
                    ELSE [heap EXCEPT ![u].own = v]
         /\ LET caught == marked[u] = "black" /\ v \in U!White
                M == IF caught /\ gcstate = "propagate" THEN U!Reached({v}) ELSE {}
            IN  /\ marked' = [U!Painted(M) EXCEPT
                      ![u] = IF caught /\ gcstate # "propagate" THEN "white" ELSE @]
                /\ gray' = gray \cup U!Listed(M)
    BY DEF U!SetUpval
  <1> DEFINE caught == marked[u] = "black" /\ v \in U!White
             M == IF caught /\ gcstate = "propagate" THEN U!Reached({v}) ELSE {}
  <1>3. u \in Live /\ u \in U!Of("upval") /\ u \in U!Obj /\ (v # U!Nil => v \in Live \ U!Of("upval"))
    BY <1>1, HeldByUpval, OnStack DEF U!Of
  <1>4. /\ marked' = [U!Painted(M) EXCEPT ![u] = IF caught /\ gcstate # "propagate" THEN "white" ELSE @]
        /\ gray' = gray \cup U!Listed(M)
    BY <1>2
  <1>5. CASE u \in U!Open
    <2> DEFINE t == heap[u].on
    <2>1. marked[u] # "black"
      BY <1>5 DEF IInv, Coloured
    <2>2. M = {}
      BY <2>1
    <2>3. marked' = marked /\ gray' = gray
      <3> HIDE DEF M
      <3>1. U!Painted(M) = marked /\ U!Listed(M) = {}
        BY <2>2 DEF U!Painted, U!Listed, IInv, TypeOK
      <3> QED BY <1>3, <1>4, <2>1, <3>1 DEF IInv, TypeOK
    <2>4. heap \in Heaps /\ ListsIn(heap) /\ u \in OpenOf(heap)
      BY <1>5 DEF IInv, TypeOK, Lists, U!Open, OpenOf, U!Of
    <2>5. t \in U!Of("thread") /\ heap[u].at \in 1..Len(heap[t].stack)
      BY <2>4, OpenSlot DEF U!Of
    <2>6. heap' = [heap EXCEPT ![t].stack[heap[u].at] = v]
      BY <1>2, <1>5
    <2> HIDE DEF M, t
    <2> QED BY <1>1, <1>3, <2>3, <2>5, <2>6, SlotStep
  <1>6. CASE u \notin U!Open
    <2>0. heap' = [heap EXCEPT ![u].own = v] /\ u \in U!Of("upval") \ U!Open
      BY <1>2, <1>3, <1>6
    <2>1. /\ heap' \in Heaps /\ \A k \in {"free", "thread", "closure", "upval"} : U!Of(k)' = U!Of(k)
          /\ U!Open' = U!Open /\ U!Allocated' = U!Allocated
          /\ \A o \in U!Obj : o # u => U!Refs'[o] = U!Refs[o]
          /\ U!Refs'[u] = {v} \ {U!Nil} /\ Nested' /\ Lists'
      <3>1. OwnIs(heap', heap, u, v)
        BY <1>3, <2>0, OwnWritten DEF IInv, TypeOK, U!Open, U!Of
      <3> QED BY <1>1, <1>3, <2>0, <3>1, OwnStep
    <2>2. M \subseteq U!White /\ M \subseteq {v} /\ M \cap U!Of("upval") = {} /\ u \notin M
          /\ (gcstate = "propagate" /\ caught => v \in M) /\ (gcstate # "propagate" => M = {})
      <3>1. CASE caught /\ gcstate = "propagate"
        <4>1. U!Dead = {} /\ v \in U!Allocated /\ v # U!Nil /\ v \in U!White
          BY <3>1, PartsConstants DEF IInv, Coloured, U!White, U!Allocated, U!Obj, U!Nil
        <4>2. {v} \subseteq U!Allocated /\ {v} \cap U!Of("upval") = {} /\ M = U!Reached({v})
          BY <1>3, <3>1, <4>1
        <4>3. M = {v} \cap U!White
          <5> HIDE DEF M
          <5> QED BY <4>1, <4>2, ReachedIs
        <4> HIDE DEF M
        <4> QED BY <1>3, <3>1, <4>1, <4>2, <4>3
      <3>2. CASE ~(caught /\ gcstate = "propagate")
        <4>1. M = {}
          BY <3>2
        <4> QED BY <3>2, <4>1
      <3> QED BY <3>1, <3>2
    <2> HIDE DEF M
    <2>3. /\ \A o \in U!Obj : o \in M => marked'[o] = "gray"
          /\ \A o \in U!Obj : o # u /\ o \notin M => marked'[o] = marked[o]
          /\ marked'[u] = IF caught /\ gcstate # "propagate" THEN "white" ELSE marked[u]
          /\ marked' \in [U!Obj -> Colours]
      <3>1. U!Painted(M)[u] = marked[u]
        BY <1>3, <2>2, PaintedIs
      <3>2. marked' \in [U!Obj -> Colours]
        <4>1. U!Painted(M)[u] \in Colours /\ "white" \in Colours
          BY <1>3, PaintedIs DEF Colours
        <4> QED BY <1>3, <1>4, <4>1, PaintedIs
      <3>3. \A o \in U!Obj : o # u => marked'[o] = U!Painted(M)[o]
        BY <1>4, PaintedIs
      <3>4. marked'[u] = IF caught /\ gcstate # "propagate" THEN "white" ELSE marked[u]
        BY <1>3, <1>4, <3>1, PaintedIs
      <3> QED BY <2>2, <3>2, <3>3, <3>4, PaintedIs
    <2>4. U!Dead' = U!Dead /\ Live' = Live
      <3>1. \A o \in U!Obj : marked'[o] = "other" <=> marked[o] = "other"
        <4> SUFFICES ASSUME NEW o \in U!Obj PROVE marked'[o] = "other" <=> marked[o] = "other"
          OBVIOUS
        <4>1. CASE o \in M
          <5>1. gcstate = "propagate" /\ o \in U!White /\ U!Dead = {}
            BY <2>2, <4>1 DEF IInv, Coloured
          <5> QED BY <2>3, <4>1, <5>1 DEF U!Dead, U!White
        <4>2. CASE o = u
          BY <2>3, <4>2
        <4>3. CASE o # u /\ o \notin M
          BY <2>3, <4>3
        <4> QED BY <4>1, <4>2, <4>3
      <3> QED BY <2>1, <3>1 DEF U!Dead, Live, U!Allocated
    <2>5. Closed' /\ Shape'
      <3>1. \A o \in Live : U!Refs'[o] \subseteq Live
        BY <1>3, <2>1 DEF IInv, Closed, Live, U!Allocated
      <3>2. \A i \in 1..Len(nested') : nested'[i] \in Live
        BY <1>1 DEF IInv, Closed
      <3>3. U!Of("closure")' = U!Of("closure") /\ U!Of("upval")' = U!Of("upval")
        BY <2>1
      <3>4. u \notin U!Of("closure")
        BY <1>3 DEF U!Of
      <3>5. ASSUME NEW o \in Live
            PROVE  IF o \in U!Of("closure") THEN U!Refs'[o] \subseteq U!Of("upval")
                   ELSE U!Refs'[o] \cap U!Of("upval") = {}
        <4>1. CASE o = u
          BY <1>3, <2>1, <3>4, <4>1
        <4>2. CASE o # u
          BY <2>1, <4>2 DEF IInv, Shape, Live, U!Allocated
        <4> QED BY <4>1, <4>2
      <3> QED BY <2>4, <3>1, <3>2, <3>3, <3>5 DEF Closed, Shape
    <2>6. Coloured'
      <3>1. U!Of("thread")' = U!Of("thread")
        BY <2>1
      <3>2. \A o \in U!Of("thread") \cup U!Open : o \in U!Obj /\ o # u /\ marked'[o] # "black"
        <4>1. \A o \in U!Of("thread") \cup U!Open : o \in U!Obj /\ o # u
          BY <1>3, <1>6 DEF U!Of, U!Open
        <4>2. \A o \in U!Of("thread") \cup U!Open : marked[o] # "black"
          BY DEF IInv, Coloured
        <4> QED BY <2>3, <4>1, <4>2
      <3> QED BY <1>1, <2>1, <2>4, <3>1, <3>2 DEF Coloured, IInv, U!collector
    <2>7. Marking'
      <3> SUFFICES ASSUME gcstate = "propagate" PROVE Marking'
        BY <1>1 DEF Marking, U!collector
      <3>1. U!White' = U!White \ M
        BY <2>1, <2>2, <2>3 DEF U!White, U!Allocated
      <3>2. gray' \subseteq U!Of("thread") \cup U!Of("closure")
        <4>1. M \subseteq U!Of("thread") \cup U!Of("closure")
          <5>1. \A o \in M : o \in U!Obj /\ heap[o].tt # "free" /\ heap[o].tt # "upval"
            BY <2>2 DEF U!White, U!Allocated, U!Of
          <5> QED BY <5>1, Kinds DEF U!Of, IInv, TypeOK
        <4> QED BY <1>4, <4>1 DEF IInv, Marking, U!Listed
      <3>3. ASSUME NEW o \in U!Gray'
            PROVE  o \in gray' \/ (o \in U!Of("thread") /\ o \in grayagain) \/ o \in U!Open
        <4>1. o \in U!Obj /\ o \in U!Allocated /\ marked'[o] = "gray"
          BY <2>1 DEF U!Gray, U!Allocated
        <4>2. CASE o \in M
          BY <1>4, <2>2, <4>2 DEF U!Listed
        <4>3. CASE o \notin M
          <5>1. o \in U!Gray
            BY <2>3, <4>1, <4>3 DEF U!Gray
          <5> QED BY <1>4, <5>1 DEF IInv, Marking
        <4> QED BY <4>2, <4>3
      <3>4. ASSUME NEW o \in U!Allocated, marked'[o] = "black" PROVE U!Refs'[o] \cap U!White' = {}
        <4>1. o \in U!Obj /\ marked[o] = "black"
          BY <2>3, <3>4 DEF U!Allocated
        <4>2. CASE o = u
          <5>1. v \in U!White => v \in M
            BY <2>2, <4>1, <4>2
          <5> QED BY <2>1, <3>1, <4>2, <5>1
        <4>3. CASE o # u
          BY <2>1, <3>1, <4>1, <4>3 DEF IInv, Marking
        <4> QED BY <4>2, <4>3
      <3>5. U!Main \notin U!White'
        BY <3>1 DEF IInv, Marking
      <3>6. U!Of("thread")' = U!Of("thread") /\ U!Of("closure")' = U!Of("closure")
        BY <2>1
      <3> QED BY <1>1, <2>1, <3>2, <3>3, <3>4, <3>5, <3>6 DEF Marking, U!collector
    <2>8. Sweeping'
      <3>1. Awaited' = Awaited
        <4>1. \A x \in U!Open : heap'[x] = heap[x]
          BY <1>3, <1>6, <2>0 DEF IInv, TypeOK, U!Open, U!Of, Heaps
        <4> QED BY <1>1, <2>1, <4>1 DEF Awaited, U!OpenIn, U!collector
      <3>2. ASSUME NEW o \in U!Allocated, gcstate # "propagate", marked[o] = "white"
            PROVE  marked'[o] = "white"
        BY <2>2, <2>3, <3>2 DEF U!Allocated
      <3> QED BY <1>1, <2>1, <3>1, <3>2 DEF IInv, Sweeping, U!collector
    <2>9. TypeOK'
      BY <1>1, <2>1, <2>3 DEF IInv, TypeOK, U!collector
    <2> QED BY <2>1, <2>5, <2>6, <2>7, <2>8, <2>9 DEF IInv
  <1> QED BY <1>5, <1>6

-----------------------------------------------------------------------------
(* Closing.                                                                 *)

\* The open upvalues of the running thread at the level or above.
Ended(level) == {heap[U!L].open[i] : i \in 1..U!Passed(heap, level)}

\* g is the heap when they are closed, or freed if they are dead, and the stack is cut.
ClosesAt(g, level) ==
    /\ g \in Heaps
    /\ \A o \in U!Obj : o \notin Ended(level) /\ o # U!L => g[o] = heap[o]
    /\ \A u \in Ended(level) \cap U!Dead : g[u] = U!Free
    /\ \A u \in Ended(level) \ U!Dead : g[u].tt = "upval" /\ g[u].on = 0 /\ g[u].own = U!ValueOf(u)
    /\ g[U!L].tt = "thread" /\ Len(g[U!L].stack) = level - 1
    /\ \A i \in 1..level - 1 : g[U!L].stack[i] = U!Stack[i]
    /\ g[U!L].open = SubSeq(heap[U!L].open, U!Passed(heap, level) + 1, Len(heap[U!L].open))

\* Those that end are the open upvalues of the running thread at the level or above.
LEMMA EndedAre ==
    ASSUME IInv, NEW level \in 1..Len(U!Stack)
    PROVE  /\ U!Passed(heap, level) \in 0..Len(heap[U!L].open) /\ Ended(level) \subseteq U!Obj
           /\ Ended(level) = {u \in U!Open : heap[u].on = U!L /\ heap[u].at >= level}
           /\ \A i \in U!Passed(heap, level) + 1..Len(heap[U!L].open) : heap[heap[U!L].open[i]].at < level
  <1> DEFINE q == heap[U!L].open
             n == U!Passed(heap, level)
  <1>1. /\ U!L \in U!Obj /\ heap[U!L].tt = "thread" /\ heap \in Heaps /\ ListsIn(heap)
        /\ U!Open = OpenOf(heap)
        /\ level \in Nat
    BY Running DEF IInv, TypeOK, Lists, U!Open, OpenOf, U!Of
  <1>2. /\ n \in 0..Len(q) /\ (\A i \in 1..n : heap[q[i]].at >= level)
        /\ \A i \in n + 1..Len(q) : heap[q[i]].at < level
    BY <1>1, PassedIs
  <1>3. /\ q \in Seq(U!Obj) /\ Len(q) \in Nat
        /\ \A i \in 1..Len(q) : q[i] \in U!Open /\ heap[q[i]].on = U!L /\ heap[q[i]].at \in Nat
        /\ \A u \in U!Open : heap[u].on = U!L => \E i \in 1..Len(q) : q[i] = u
    BY <1>1, Decreasing
  <1>4. \A i \in 1..Len(q) : i \in 1..n \/ i \in n + 1..Len(q)
    BY <1>2, <1>3
  <1>5. \A i \in 1..n : i \in 1..Len(q)
    BY <1>2, <1>3
  <1> HIDE DEF q, n
  <1>6. Ended(level) = {q[i] : i \in 1..n}
    BY DEF Ended, q, n
  <1>7. ASSUME NEW u \in U!Open, heap[u].on = U!L, heap[u].at >= level PROVE u \in {q[i] : i \in 1..n}
    <2>1. PICK i \in 1..Len(q) : q[i] = u
      BY <1>3, <1>7
    <2>2. ~(heap[q[i]].at < level)
      BY <1>1, <1>3, <1>7, <2>1
    <2> QED BY <1>2, <1>4, <2>1, <2>2
  <1>8. Ended(level) = {u \in U!Open : heap[u].on = U!L /\ heap[u].at >= level}
    BY <1>2, <1>3, <1>5, <1>6, <1>7
  <1>9. Ended(level) \subseteq U!Obj
    BY <1>8 DEF U!Open, U!Of
  <1> QED BY <1>2, <1>8, <1>9 DEF q, n

\* The heap after luaF_close.
LEMMA CloseHeap ==
    ASSUME IInv, NEW level \in 1..Len(U!Stack), U!Close(level)
    PROVE  ClosesAt(heap', level)
  <1> DEFINE q == heap[U!L].open
             n == U!Passed(heap, level)
             E == Ended(level)
             r == [heap[U!L] EXCEPT !.stack = SubSeq(@, 1, level - 1), !.open = SubSeq(@, n + 1, Len(@))]
             val(o) == IF o \in E THEN (IF o \in E \cap U!Dead THEN U!Free ELSE U!ClosedOver(o))
                       ELSE IF o = U!L THEN r ELSE heap[o]
  <1>1. heap' = [o \in U!Obj |-> val(o)]
    BY DEF U!Close, Ended
  <1>2. /\ U!L \in U!Obj /\ heap[U!L].tt = "thread" /\ heap \in Heaps /\ ListsIn(heap)
        /\ U!Open = OpenOf(heap)
        /\ U!Stack \in Seq(Value) /\ U!Stack = heap[U!L].stack /\ q \in Seq(U!Obj) /\ heap[U!L] \in Threads
    BY Running, Kinds DEF IInv, TypeOK, Lists, U!Open, OpenOf, U!Of, U!Stack
  <1>3. n \in 0..Len(q) /\ E = {u \in U!Open : heap[u].on = U!L /\ heap[u].at >= level} /\ U!L \notin E
    BY <1>2, EndedAre DEF OpenOf
  <1>4. /\ SubSeq(U!Stack, 1, level - 1) \in Seq(Value) /\ Len(SubSeq(U!Stack, 1, level - 1)) = level - 1
        /\ \A i \in 1..level - 1 : SubSeq(U!Stack, 1, level - 1)[i] = U!Stack[i]
    BY <1>2
  <1>5. SubSeq(q, n + 1, Len(q)) \in Seq(U!Obj)
    BY <1>2, <1>3
  <1>6. /\ r \in Threads /\ r.tt = "thread" /\ r.stack = SubSeq(U!Stack, 1, level - 1)
        /\ r.open = SubSeq(q, n + 1, Len(q))
    <2> DEFINE x == SubSeq(U!Stack, 1, level - 1)
               y == SubSeq(q, n + 1, Len(q))
    <2>1. r = [heap[U!L] EXCEPT !.stack = x, !.open = y]
      BY <1>2
    <2> HIDE DEF x, y, r
    <2>2. x \in Seq(Value) /\ y \in Seq(U!Obj)
      BY <1>4, <1>5 DEF x, y
    <2>3. r \in Threads /\ r.tt = "thread" /\ r.stack = x /\ r.open = y
      BY <1>2, <2>1, <2>2 DEF Threads
    <2> QED BY <2>3 DEF x, y
  <1>7. ASSUME NEW u \in E
        PROVE  /\ U!ClosedOver(u) \in Upvals /\ U!ClosedOver(u).tt = "upval" /\ U!ClosedOver(u).on = 0
               /\ U!ClosedOver(u).own = U!ValueOf(u)
    <2>1. u \in OpenOf(heap) /\ u \in U!Obj /\ heap[u].tt = "upval"
      BY <1>2, <1>3 DEF OpenOf
    <2>2. heap[u] \in Upvals /\ U!ValueOf(u) \in Value
      BY <1>2, <2>1, Kinds, RefsAre, OpenSlot
    <2> QED BY <2>2 DEF U!ClosedOver, Upvals
  <1> HIDE DEF r, E, n, q
  <1>8. ASSUME NEW o \in U!Obj PROVE val(o) \in Threads \cup Closures \cup Upvals \cup {U!Free}
    <2>1. heap[o] \in Threads \cup Closures \cup Upvals \cup {U!Free}
      BY <1>2 DEF Heaps
    <2> QED BY <1>6, <1>7, <2>1
  <1>9. heap' \in Heaps /\ \A o \in U!Obj : heap'[o] = val(o)
    BY <1>1, <1>8 DEF Heaps
  <1>10. E \subseteq U!Obj
    BY EndedAre DEF E
  <1>11. heap'[U!L] = r
    BY <1>2, <1>3, <1>9
  <1>12. \A u \in E : heap'[u] = IF u \in U!Dead THEN U!Free ELSE U!ClosedOver(u)
    BY <1>9, <1>10
  <1>13. \A o \in U!Obj : o \notin E /\ o # U!L => heap'[o] = heap[o]
    BY <1>9
  <1> HIDE DEF val
  <1> QED BY <1>4, <1>6, <1>7, <1>9, <1>11, <1>12, <1>13 DEF ClosesAt, E, n, q

\* What closing does to the kinds, to the lists and to what refers to what.
LEMMA ClosedHeap ==
    ASSUME IInv, NEW level \in 1..Len(U!Stack), ClosesAt(heap', level), UNCHANGED nested,
           uvhead' = uvhead \ Ended(level)
    PROVE  /\ U!Of("thread")' = U!Of("thread") /\ U!Of("closure")' = U!Of("closure")
           /\ U!Of("upval")' = U!Of("upval") \ (Ended(level) \cap U!Dead)
           /\ U!Allocated' = U!Allocated \ (Ended(level) \cap U!Dead)
           /\ U!Open' = U!Open \ Ended(level) /\ \A u \in U!Open' : heap'[u] = heap[u]
           /\ \A o \in U!Allocated' : U!Refs'[o] \subseteq U!Refs[o]
           /\ \A o \in U!Of("closure") : U!Refs'[o] = U!Refs[o]
           /\ Nested' /\ Lists'
  <1> DEFINE q == heap[U!L].open
             n == U!Passed(heap, level)
             E == Ended(level)
  <1>1. /\ U!L \in U!Obj /\ U!L # 0 /\ heap[U!L].tt = "thread" /\ heap \in Heaps /\ ListsIn(heap)
        /\ U!Open = OpenOf(heap) /\ uvhead = U!Open /\ U!Stack \in Seq(Value) /\ U!Stack = heap[U!L].stack
        /\ q \in Seq(U!Obj) /\ level \in Nat /\ level - 1 \in Nat /\ level - 1 < Len(U!Stack)
        /\ Len(q) \in Nat
    BY Running, Kinds DEF IInv, TypeOK, Lists, U!Open, OpenOf, U!Of, U!Stack, U!Obj
  <1>2. /\ n \in 0..Len(q) /\ E \subseteq U!Obj
        /\ E = {u \in U!Open : heap[u].on = U!L /\ heap[u].at >= level} /\ U!L \notin E
        /\ \A i \in n + 1..Len(q) : heap[q[i]].at < level
    BY <1>1, EndedAre DEF OpenOf
  <1>3. /\ heap' \in Heaps
        /\ \A o \in U!Obj : o \notin E /\ o # U!L => heap'[o] = heap[o]
        /\ \A u \in E \cap U!Dead : heap'[u] = U!Free
        /\ \A u \in E \ U!Dead : heap'[u].tt = "upval" /\ heap'[u].on = 0 /\ heap'[u].own = U!ValueOf(u)
        /\ heap'[U!L].tt = "thread" /\ Len(heap'[U!L].stack) = level - 1
        /\ \A i \in 1..level - 1 : heap'[U!L].stack[i] = U!Stack[i]
        /\ heap'[U!L].open = SubSeq(q, n + 1, Len(q))
    BY DEF ClosesAt
  <1> DEFINE k == heap'[U!L].open
  <1> HIDE DEF E, n, q, k
  <1>4. /\ k \in Seq(U!Obj) /\ Len(k) = Len(q) - n /\ \A i \in 1..Len(q) - n : k[i] = q[n + i]
    <2>1. k = SubSeq(q, n + 1, Len(q))
      BY <1>3 DEF k
    <2> DEFINE y == SubSeq(q, n + 1, Len(q))
    <2>2. y \in Seq(U!Obj) /\ Len(y) = Len(q) - n
      BY <1>1, <1>2
    <2>3. \A i \in 1..Len(q) - n : y[i] = q[n + i]
      BY <1>1, <1>2
    <2> QED BY <2>1, <2>2, <2>3
  <1>5. \A u \in E : u \in U!Obj /\ u \in U!Open /\ heap[u].tt = "upval" /\ heap[u].on = U!L /\ u # U!L
    BY <1>1, <1>2 DEF OpenOf
  <1>6. /\ U!Of("thread")' = U!Of("thread") /\ U!Of("closure")' = U!Of("closure")
        /\ U!Of("upval")' = U!Of("upval") \ (E \cap U!Dead)
        /\ U!Allocated' = U!Allocated \ (E \cap U!Dead)
    <2>1. \A o \in U!Obj : o \notin E => heap'[o].tt = heap[o].tt
      BY <1>1, <1>3
    <2>2. \A u \in E : IF u \in U!Dead THEN heap'[u].tt = "free" ELSE heap'[u].tt = "upval"
      BY <1>3 DEF U!Free
    <2> QED BY <1>5, <2>1, <2>2 DEF U!Of, U!Allocated
  <1>7. U!Open' = OpenOf(heap') /\ U!Open' = U!Open \ E /\ \A u \in U!Open' : heap'[u] = heap[u]
    <2>1. U!Open' = OpenOf(heap')
      BY DEF U!Open, OpenOf, U!Of
    <2>2. ASSUME NEW u \in U!Open \ E PROVE u \in OpenOf(heap') /\ heap'[u] = heap[u]
      BY <1>1, <1>3 DEF OpenOf
    <2>3. ASSUME NEW u \in OpenOf(heap') PROVE u \in U!Open \ E
      <3>1. u \in U!Obj /\ heap'[u].tt = "upval" /\ heap'[u].on # 0 /\ u # U!L
        BY <1>3 DEF OpenOf
      <3>2. u \notin E
        BY <1>3, <3>1 DEF U!Free
      <3> QED BY <1>1, <1>3, <3>1, <3>2 DEF OpenOf
    <2> QED BY <2>1, <2>2, <2>3
  <1>8. \A u \in U!Open' : /\ u \in U!Obj /\ u \in OpenOf(heap)
                           /\ heap[u].on \in U!Obj /\ heap[u].on \notin E
                           /\ heap[heap[u].on].tt = "thread"
                           /\ heap[u].at \in 1..Len(heap[heap[u].on].stack)
                           /\ (heap[u].on = U!L => heap[u].at \in 1..level - 1)
    <2> SUFFICES ASSUME NEW u \in U!Open'
                 PROVE  /\ u \in U!Obj /\ u \in OpenOf(heap)
                           /\ heap[u].on \in U!Obj /\ heap[u].on \notin E
                        /\ heap[heap[u].on].tt = "thread"
                        /\ heap[u].at \in 1..Len(heap[heap[u].on].stack)
                        /\ (heap[u].on = U!L => heap[u].at \in 1..level - 1)
      OBVIOUS
    <2>1. u \in OpenOf(heap) /\ u \notin E
      BY <1>1, <1>7
    <2>2. /\ u \in U!Obj /\ heap[u].on \in U!Obj /\ heap[heap[u].on].tt = "thread"
          /\ heap[u].at \in 1..Len(heap[heap[u].on].stack)
      BY <1>1, <2>1, OpenSlot
    <2>3. heap[u].on \notin E
      BY <1>5, <2>2
    <2>4. heap[u].on = U!L => heap[u].at < level
      BY <1>1, <1>2, <2>1, <2>2
    <2> QED BY <1>1, <2>1, <2>2, <2>3, <2>4
  <1>9. \A u \in U!Open' : ValueIn(heap', u) = ValueIn(heap, u)
    <2> SUFFICES ASSUME NEW u \in U!Open' PROVE ValueIn(heap', u) = ValueIn(heap, u)
      OBVIOUS
    <2> DEFINE t == heap[u].on
    <2>1. heap'[u] = heap[u] /\ u \in OpenOf(heap) /\ u \in OpenOf(heap')
      BY <1>7, <1>8
    <2>2. ValueIn(heap, u) = heap[t].stack[heap[u].at] /\ ValueIn(heap', u) = heap'[t].stack[heap[u].at]
      BY <2>1 DEF ValueIn, OpenOf
    <2>3. CASE t = U!L
      BY <1>1, <1>3, <1>8, <2>2, <2>3
    <2>4. CASE t # U!L
      BY <1>3, <1>8, <2>2, <2>4
    <2> QED BY <2>3, <2>4
  <1>10. \A o \in U!Obj : CalleeIn(nested', o) = CalleeIn(nested, o)
    OBVIOUS
  <1>11. ASSUME NEW o \in U!Allocated' PROVE RefsIn(heap', nested', o) \subseteq RefsIn(heap, nested, o)
    <2>0. o \in U!Obj
      BY DEF U!Allocated
    <2>1. CASE o = U!L
      <3>1. heap'[o].stack \in Seq(Value)
        BY <1>1, <1>3, <2>1, Kinds
      <3>2. U!ToSet(heap'[o].stack) \subseteq U!ToSet(heap[o].stack)
        <4>1. \A i \in 1..level - 1 : i \in 1..Len(heap[o].stack) /\ heap'[o].stack[i] = heap[o].stack[i]
          BY <1>1, <1>3, <2>1
        <4>2. /\ U!ToSet(heap'[o].stack) = {heap'[o].stack[i] : i \in 1..level - 1}
              /\ U!ToSet(heap[o].stack) = {heap[o].stack[i] : i \in 1..Len(heap[o].stack)}
          BY <1>1, <1>3, <2>1, <3>1 DEF U!ToSet
        <4> QED BY <4>1, <4>2
      <3> QED BY <1>1, <1>3, <1>10, <2>0, <2>1, <3>2, RefsOf
    <2>2. CASE o \in E
      <3>1. o \notin U!Dead
        BY <1>6, <2>2
      <3>2. heap'[o].tt = "upval" /\ ValueIn(heap', o) = U!ValueOf(o)
        BY <1>3, <2>2, <3>1 DEF ValueIn
      <3>3. heap[o].tt = "upval" /\ U!ValueOf(o) = ValueIn(heap, o)
        BY <1>5, <2>0, <2>2, RefsAre
      <3> QED BY <3>2, <3>3, RefsOf
    <2>3. CASE o # U!L /\ o \notin E
      <3>1. heap'[o] = heap[o]
        BY <1>3, <2>0, <2>3
      <3>2. heap[o].tt \in {"free", "thread", "closure", "upval"}
        BY <1>1, <2>0, Kinds
      <3>3. CASE heap[o].tt = "upval"
        <4>1. ValueIn(heap', o) = ValueIn(heap, o)
          <5>1. CASE heap[o].on # 0
            <6>1. o \in U!Open'
              BY <1>1, <1>7, <2>0, <2>3, <3>3, <5>1 DEF OpenOf
            <6> QED BY <1>9, <6>1
          <5>2. CASE heap[o].on = 0
            BY <3>1, <5>2 DEF ValueIn
          <5> QED BY <5>1, <5>2
        <4> QED BY <3>1, <3>3, <4>1, RefsOf
      <3>4. CASE heap[o].tt # "upval"
        BY <1>10, <2>0, <3>1, <3>2, <3>4, RefsOf
      <3> QED BY <3>3, <3>4
    <2> QED BY <2>1, <2>2, <2>3
  <1>12. ASSUME NEW o \in U!Of("closure") PROVE RefsIn(heap', nested', o) = RefsIn(heap, nested, o)
    <2>1. o \in U!Obj /\ heap[o].tt = "closure" /\ o \notin E /\ o # U!L
      BY <1>1, <1>5 DEF U!Of
    <2> QED BY <1>3, <2>1, RefsOf
  <1>13. Nested'
    BY <1>6 DEF IInv, Nested
  <1>14. Listing(heap', U!L)
    <2>1. /\ \A i \in 1..Len(q) : q[i] \in U!Open /\ heap[q[i]].on = U!L /\ heap[q[i]].at \in Nat
          /\ \A i, j \in 1..Len(q) : i < j => heap[q[j]].at < heap[q[i]].at
          /\ \A u \in U!Open : heap[u].on = U!L => \E i \in 1..Len(q) : q[i] = u
      BY <1>1, Decreasing DEF q
    <2>2. \A i \in 1..Len(q) - n : n + i \in n + 1..Len(q) /\ n + i \in 1..Len(q)
      BY <1>1, <1>2
    <2>3. \A i \in 1..Len(k) : /\ k[i] = q[n + i] /\ k[i] \in U!Open' /\ heap'[k[i]] = heap[k[i]]
                               /\ heap[k[i]].on = U!L /\ heap[k[i]].at < level /\ heap[k[i]].at \in Nat
      <3> SUFFICES ASSUME NEW i \in 1..Len(k)
                   PROVE  /\ k[i] = q[n + i] /\ k[i] \in U!Open' /\ heap'[k[i]] = heap[k[i]]
                          /\ heap[k[i]].on = U!L /\ heap[k[i]].at < level /\ heap[k[i]].at \in Nat
        OBVIOUS
      <3>1. k[i] = q[n + i] /\ n + i \in n + 1..Len(q) /\ n + i \in 1..Len(q)
        BY <1>4, <2>2
      <3>2. k[i] \in U!Open /\ heap[k[i]].on = U!L /\ heap[k[i]].at < level /\ heap[k[i]].at \in Nat
        BY <1>2, <2>1, <3>1
      <3>3. k[i] \notin E
        BY <1>1, <1>2, <3>2
      <3> QED BY <1>7, <3>1, <3>2, <3>3
    <2>4. ASSUME NEW u \in U!Open', heap'[u].on = U!L PROVE \E i \in 1..Len(k) : k[i] = u
      <3>1. u \in U!Open /\ u \notin E /\ heap[u].on = U!L /\ heap[u].at < level
        BY <1>1, <1>7, <1>8, <2>4
      <3>2. PICK j \in 1..Len(q) : q[j] = u
        BY <2>1, <3>1
      <3>3. \A i \in 1..n : q[i] \in E
        BY <1>1 DEF E, Ended, n, q
      <3>4. j \notin 1..n
        BY <3>1, <3>2, <3>3
      <3>5. j - n \in 1..Len(k) /\ n + (j - n) = j
        BY <1>1, <1>2, <1>4, <3>4
      <3> QED BY <2>3, <3>2, <3>5
    <2>5. U!ToSet(k) = {u \in OpenOf(heap') : heap'[u].on = U!L}
      <3>1. U!ToSet(k) = {k[i] : i \in 1..Len(k)}
        BY <1>4 DEF U!ToSet
      <3> QED BY <1>7, <2>3, <2>4, <3>1
    <2>6. \A i \in 1..Len(k) : heap'[k[i]].at <= Len(heap'[U!L].stack)
      BY <1>1, <1>3, <2>3
    <2>7. ASSUME NEW i \in 1..Len(k), i > 1 PROVE heap'[k[i]].at < heap'[k[i - 1]].at
      <3>1. i - 1 \in 1..Len(k) /\ n + i \in 1..Len(q) /\ n + (i - 1) \in 1..Len(q) /\ n + (i - 1) < n + i
        BY <1>1, <1>2, <1>4, <2>7
      <3> QED BY <2>1, <2>3, <3>1
    <2> QED BY <2>5, <2>6, <2>7 DEF Listing, k
  <1>15. ASSUME NEW t \in U!Obj, heap'[t].tt = "thread", t # U!L PROVE Listing(heap', t)
    <2>1. t \notin E
      BY <1>3, <1>15 DEF U!Free
    <2>2. heap'[t] = heap[t] /\ heap[t].tt = "thread"
      BY <1>3, <1>15, <2>1
    <2>3. Listing(heap, t) /\ heap[t].open \in Seq(U!Obj)
          /\ \A i \in 1..Len(heap[t].open) : heap[t].open[i] \in U!Open /\ heap[heap[t].open[i]].on = t
      BY <1>1, <2>2, Decreasing DEF ListsIn
    <2>4. \A i \in 1..Len(heap[t].open) : i > 1 => i - 1 \in 1..Len(heap[t].open)
      BY <2>3
    <2>5. \A u \in U!Open : heap[u].on = t => u \in U!Open' /\ heap'[u] = heap[u]
      BY <1>2, <1>7, <1>15
    <2>6. U!ToSet(heap'[t].open) = {u \in OpenOf(heap') : heap'[u].on = t}
      BY <1>1, <1>7, <2>2, <2>3, <2>5 DEF Listing
    <2>7. \A i \in 1..Len(heap'[t].open) : /\ heap'[heap'[t].open[i]].at <= Len(heap'[t].stack)
                                           /\ i > 1 =>
                                                heap'[heap'[t].open[i]].at < heap'[heap'[t].open[i - 1]].at
      BY <2>2, <2>3, <2>4, <2>5 DEF Listing
    <2> QED BY <2>6, <2>7 DEF Listing
  <1>16. \A u \in OpenOf(heap') : heap'[heap'[u].on].tt = "thread" /\ heap'[u].at >= 1
    <2> SUFFICES ASSUME NEW u \in U!Open' PROVE heap'[heap'[u].on].tt = "thread" /\ heap'[u].at >= 1
      BY <1>7
    <2>1. heap'[u] = heap[u] /\ heap[u].at >= 1 /\ heap[heap[u].on].tt = "thread"
      BY <1>7, <1>8
    <2> QED BY <1>3, <1>8, <2>1
  <1>17. Lists'
    BY <1>1, <1>7, <1>14, <1>15, <1>16 DEF Lists, ListsIn, E
  <1>18. /\ \A o \in U!Allocated' : U!Refs'[o] \subseteq U!Refs[o]
         /\ \A o \in U!Of("closure") : U!Refs'[o] = U!Refs[o]
    <2>1. U!Allocated' \subseteq U!Obj /\ U!Of("closure") \subseteq U!Obj
      BY DEF U!Allocated, U!Of
    <2> QED BY <1>11, <1>12, <2>1, RefsAre
  <1> QED BY <1>6, <1>7, <1>13, <1>17, <1>18 DEF E

\* luaF_close with luaC_linkupval.
LEMMA CloseInv ==
    ASSUME IInv, NEW level \in 1..MaxStack, U!Close(level) PROVE IInv'
  <1> DEFINE E == Ended(level)
             closing == E \ (E \cap U!Dead)
             S == UNION {U!Refs[u] : u \in closing \cap U!Gray}
             M == IF gcstate = "propagate" THEN U!Reached(S) ELSE {}
  <1>1. level \in 1..Len(U!Stack) /\ UNCHANGED <<nested, U!collector>>
    BY Running DEF U!Close
  <1>2. /\ uvhead' = uvhead \ E /\ gray' = gray \cup U!Listed(M)
        /\ marked' = [o \in U!Obj |-> IF o \notin closing \cap U!Gray THEN U!Painted(M)[o]
                                   ELSE IF gcstate = "propagate" THEN "black" ELSE "white"]
    BY DEF U!Close, U!Linked, Ended
  <1>3. ClosesAt(heap', level)
    BY <1>1, CloseHeap
  <1>4. /\ U!Of("thread")' = U!Of("thread") /\ U!Of("closure")' = U!Of("closure")
        /\ U!Of("upval")' = U!Of("upval") \ (E \cap U!Dead)
        /\ U!Allocated' = U!Allocated \ (E \cap U!Dead)
        /\ U!Open' = U!Open \ E /\ \A u \in U!Open' : heap'[u] = heap[u]
        /\ \A o \in U!Allocated' : U!Refs'[o] \subseteq U!Refs[o]
        /\ \A o \in U!Of("closure") : U!Refs'[o] = U!Refs[o]
        /\ Nested' /\ Lists'
    BY <1>1, <1>2, <1>3, ClosedHeap
  <1>5. /\ E \subseteq U!Obj /\ E \subseteq U!Open /\ \A u \in E : heap[u].on = U!L
        /\ \A u \in E : u \in U!Of("upval") /\ u \notin U!Of("closure") /\ u \in U!Allocated
    <2>1. E = {u \in U!Open : heap[u].on = U!L /\ heap[u].at >= level} /\ E \subseteq U!Obj
      BY <1>1, EndedAre
    <2> QED BY <2>1 DEF U!Open, U!Of, U!Allocated
  <1> HIDE DEF E
  <1>6. /\ \A o \in U!Obj : o \notin closing \cap U!Gray => marked'[o] = U!Painted(M)[o]
        /\ \A o \in closing \cap U!Gray :
              o \in U!Obj /\ marked'[o] = IF gcstate = "propagate" THEN "black" ELSE "white"
    BY <1>2, <1>5
  <1>7. gcstate = "propagate" => M = S \cap U!White /\ S \cap U!Of("upval") = {} /\ U!Dead = {}
    <2> SUFFICES ASSUME gcstate = "propagate"
                 PROVE  M = S \cap U!White /\ S \cap U!Of("upval") = {} /\ U!Dead = {}
      OBVIOUS
    <2>1. U!Dead = {}
      BY DEF IInv, Coloured
    <2>2. \A u \in closing \cap U!Gray : u \in Live /\ u \notin U!Of("closure")
      BY <1>5, <2>1 DEF Live
    <2>3. \A u \in closing \cap U!Gray : U!Refs[u] \subseteq Live /\ U!Refs[u] \cap U!Of("upval") = {}
      BY <2>2 DEF IInv, Closed, Shape
    <2>4. S \subseteq U!Allocated /\ S \cap U!Of("upval") = {}
      BY <2>3 DEF Live
    <2>5. M = U!Reached(S)
      OBVIOUS
    <2> HIDE DEF S, M
    <2> QED BY <2>1, <2>4, <2>5, ReachedIs
  <1>8. /\ M \subseteq U!White /\ M \cap U!Of("upval") = {} /\ M \cap (closing \cap U!Gray) = {}
        /\ gcstate # "propagate" => M = {}
    <2>1. M \subseteq U!White /\ M \cap U!Of("upval") = {}
      BY <1>7
    <2> QED BY <1>5, <2>1
  <1> HIDE DEF M
  <1>9. /\ \A o \in U!Obj : o \in M => marked'[o] = "gray"
        /\ \A o \in U!Obj : o \notin M /\ o \notin closing \cap U!Gray => marked'[o] = marked[o]
        /\ marked' \in [U!Obj -> Colours]
    <2>1. \A o \in U!Obj : o \in M => marked'[o] = "gray"
      BY <1>6, <1>8, PaintedIs
    <2>2. \A o \in U!Obj : o \notin M /\ o \notin closing \cap U!Gray => marked'[o] = marked[o]
      BY <1>6, PaintedIs
    <2>3. \A o \in U!Obj : marked'[o] \in Colours
      <3>1. \A o \in U!Obj : marked[o] \in Colours
        BY DEF IInv, TypeOK
      <3> QED BY <1>6, <2>1, <2>2, <3>1 DEF Colours
    <2> QED BY <1>2, <2>1, <2>2, <2>3
  <1>10. U!Dead' = U!Dead \ (E \cap U!Dead) /\ Live' = Live
    <2>1. ASSUME NEW o \in U!Obj, o \in U!Allocated PROVE marked'[o] = "other" <=> marked[o] = "other"
      <3>1. CASE o \in M
        <4>1. marked[o] # "other"
          BY <1>7, <1>8, <2>1, <3>1 DEF U!Dead
        <4> QED BY <1>9, <3>1, <4>1
      <3>2. CASE o \in closing \cap U!Gray
        BY <1>6, <3>2 DEF U!Gray
      <3>3. CASE o \notin M /\ o \notin closing \cap U!Gray
        BY <1>9, <3>3
      <3> QED BY <3>1, <3>2, <3>3
    <2>2. \A o \in U!Allocated : o \in U!Obj
      BY DEF U!Allocated
    <2>3. U!Dead' = U!Dead \ (E \cap U!Dead)
      BY <1>4, <2>1, <2>2 DEF U!Dead
    <2> QED BY <1>4, <2>3 DEF Live, U!Dead
  <1>11. Closed' /\ Shape'
    <2>1. Live \subseteq U!Allocated' /\ Live \cap (E \cap U!Dead) = {}
      BY <1>4 DEF Live
    <2>2. \A o \in Live : U!Refs'[o] \subseteq U!Refs[o] /\ U!Refs[o] \subseteq Live
      BY <1>4, <2>1 DEF IInv, Closed
    <2>3. \A i \in 1..Len(nested') : nested'[i] \in Live
      BY <1>1 DEF IInv, Closed
    <2>4. ASSUME NEW o \in Live
          PROVE  IF o \in U!Of("closure") THEN U!Refs'[o] \subseteq U!Of("upval")'
                 ELSE U!Refs'[o] \cap U!Of("upval")' = {}
      <3>1. CASE o \in U!Of("closure")
        BY <1>4, <2>1, <2>2, <3>1 DEF IInv, Shape
      <3>2. CASE o \notin U!Of("closure")
        BY <1>4, <2>2, <3>2 DEF IInv, Shape
      <3> QED BY <3>1, <3>2
    <2> QED BY <1>4, <1>10, <2>2, <2>3, <2>4 DEF Closed, Shape
  <1>12. Coloured'
    <2>1. \A o \in U!Of("thread") \cup U!Open' : /\ o \in U!Obj /\ o \notin closing \cap U!Gray
                                                 /\ marked[o] # "black"
      <3>1. \A o \in U!Of("thread") : o \in U!Obj /\ o \notin E
        BY <1>5 DEF U!Of
      <3>2. \A o \in U!Open' : o \in U!Obj /\ o \notin E /\ o \in U!Open
        BY <1>4 DEF U!Open, U!Of
      <3> QED BY <3>1, <3>2 DEF IInv, Coloured
    <2>2. \A o \in U!Of("thread")' \cup U!Open' : marked'[o] # "black"
      BY <1>4, <1>9, <2>1
    <2>3. gcstate' = gcstate
      BY <1>1 DEF U!collector
    <2> QED BY <1>10, <2>2, <2>3 DEF Coloured, IInv
  <1>13. Marking'
    <2> SUFFICES ASSUME gcstate = "propagate" PROVE Marking'
      BY <1>1 DEF Marking, U!collector
    <2>1. U!Dead = {} /\ U!Allocated' = U!Allocated /\ closing = E
      BY <1>4, <1>7
    <2>2. U!White' = U!White \ M
      <3> SUFFICES ASSUME NEW o \in U!Allocated
                   PROVE  marked'[o] \in {"white", "other"}
                             <=> marked[o] \in {"white", "other"} /\ o \notin M
        BY <2>1, <1>8 DEF U!White
      <3>0. o \in U!Obj
        BY DEF U!Allocated
      <3>1. CASE o \in M
        BY <1>9, <3>0, <3>1
      <3>2. CASE o \in closing \cap U!Gray
        BY <1>6, <1>8, <3>2 DEF U!Gray
      <3>3. CASE o \notin M /\ o \notin closing \cap U!Gray
        BY <1>9, <3>0, <3>3
      <3> QED BY <3>1, <3>2, <3>3
    <2>3. gray' \subseteq U!Of("thread") \cup U!Of("closure")
      <3>1. \A o \in M : o \in U!Obj /\ heap[o].tt # "free" /\ heap[o].tt # "upval"
        BY <1>8 DEF U!White, U!Allocated, U!Of
      <3>2. M \subseteq U!Of("thread") \cup U!Of("closure")
        BY <3>1, Kinds DEF U!Of, IInv, TypeOK
      <3> QED BY <1>2, <3>2 DEF IInv, Marking, U!Listed
    <2>4. ASSUME NEW o \in U!Gray'
          PROVE  o \in gray' \/ (o \in U!Of("thread") /\ o \in grayagain) \/ o \in U!Open'
      <3>1. o \in U!Obj /\ o \in U!Allocated /\ marked'[o] = "gray"
        BY <2>1 DEF U!Gray, U!Allocated
      <3>2. o \notin closing \cap U!Gray
        BY <1>6, <3>1
      <3>3. CASE o \in M
        BY <1>2, <1>8, <3>3 DEF U!Listed
      <3>4. CASE o \notin M
        <4>1. o \in U!Gray
          BY <1>9, <3>1, <3>2, <3>4 DEF U!Gray
        <4>2. o \notin E
          BY <2>1, <3>2, <4>1
        <4> QED BY <1>2, <1>4, <4>1, <4>2 DEF IInv, Marking
      <3> QED BY <3>3, <3>4
    <2>5. ASSUME NEW o \in U!Allocated, marked'[o] = "black" PROVE U!Refs'[o] \cap U!White' = {}
      <3>1. o \in U!Obj /\ o \notin M
        BY <1>9, <2>5 DEF U!Allocated
      <3>2. U!Refs'[o] \subseteq U!Refs[o]
        BY <1>4, <2>1
      <3>3. CASE o \in closing \cap U!Gray
        <4>1. U!Refs[o] \subseteq S
          BY <3>3
        <4> QED BY <1>7, <2>2, <3>2, <4>1
      <3>4. CASE o \notin closing \cap U!Gray
        <4>1. marked[o] = "black"
          BY <1>9, <2>5, <3>1, <3>4
        <4> QED BY <2>2, <3>2, <4>1 DEF IInv, Marking
      <3> QED BY <3>3, <3>4
    <2>6. U!Main \notin U!White'
      BY <2>2 DEF IInv, Marking
    <2> QED BY <1>1, <1>4, <2>1, <2>3, <2>4, <2>5, <2>6 DEF Marking, U!collector
  <1>14. Sweeping'
    <2>1. gcstate' = gcstate /\ sweepgc' = sweepgc
      BY <1>1 DEF U!collector
    <2>2. ASSUME gcstate = "sweep" PROVE sweepgc \subseteq U!Allocated' \ U!Open'
      BY <1>4, <1>5, <2>2 DEF IInv, Sweeping
    <2>3. ASSUME NEW o \in U!Allocated', gcstate # "propagate",
                 (marked[o] \in {"white", "gray"} /\ o \in E) \/ marked[o] = "white"
          PROVE  marked'[o] = "white"
      <3>1. o \in U!Obj /\ o \notin M /\ o \in U!Allocated /\ o \notin E \cap U!Dead
        BY <1>4, <1>8, <2>3 DEF U!Allocated
      <3>2. CASE o \in closing \cap U!Gray
        BY <1>6, <2>3, <3>2
      <3>3. CASE o \notin closing \cap U!Gray
        <4>1. marked[o] = "white"
          BY <2>3, <3>1, <3>3 DEF U!Gray
        <4> QED BY <1>9, <3>1, <3>3, <4>1
      <3> QED BY <3>2, <3>3
    <2>4. ASSUME gcstate = "sweep", NEW o \in U!Allocated', o \notin Awaited' PROVE marked'[o] = "white"
      <3>1. o \in U!Allocated /\ o \notin E \cap U!Dead /\ o \in U!Obj /\ marked[o] \in Colours
        BY <1>4 DEF U!Allocated, IInv, TypeOK
      <3>2. CASE o \notin Awaited
        BY <2>3, <2>4, <3>1, <3>2 DEF IInv, Sweeping
      <3>3. CASE o \in Awaited
        <4>1. o \in U!OpenIn(sweepgc) /\ o \notin U!OpenIn(sweepgc)'
          BY <2>1, <2>4, <3>3 DEF Awaited
        <4>2. o \in U!Open /\ heap[o].on \in sweepgc /\ ~(o \in U!Open' /\ heap'[o].on \in sweepgc)
          BY <2>1, <4>1 DEF U!OpenIn
        <4>3. o \in E
          BY <1>4, <4>2
        <4>4. marked[o] \in {"white", "gray"}
          BY <3>1, <4>2, <4>3 DEF IInv, Coloured, Colours, U!Dead
        <4> QED BY <2>3, <2>4, <4>3, <4>4
      <3> QED BY <3>2, <3>3
    <2>5. ASSUME gcstate = "pause", NEW o \in U!Allocated' PROVE marked'[o] = "white"
      BY <1>4, <2>3, <2>5 DEF IInv, Sweeping
    <2> QED BY <2>1, <2>2, <2>4, <2>5 DEF Sweeping
  <1>15. TypeOK'
    <2>1. heap' \in Heaps
      BY <1>3 DEF ClosesAt
    <2> QED BY <1>1, <1>9, <2>1 DEF IInv, TypeOK, U!collector
  <1> QED BY <1>4, <1>11, <1>12, <1>13, <1>14, <1>15 DEF IInv

-----------------------------------------------------------------------------
(* The collector: marking.                                                  *)

\* Marking leaves the heap as it is.
LEMMA HeapStays ==
    ASSUME IInv, UNCHANGED <<heap, uvhead, nested>>
    PROVE  /\ \A o \in U!Obj : U!Refs'[o] = U!Refs[o]
           /\ U!Allocated' = U!Allocated /\ U!Open' = U!Open /\ Nested' /\ Lists'
           /\ \A k \in {"thread", "closure", "upval"} : U!Of(k)' = U!Of(k)
  <1>1. ASSUME NEW o \in U!Obj PROVE U!Refs'[o] = U!Refs[o]
    <2>1. U!Refs[o] = RefsIn(heap, nested, o) /\ U!Refs'[o] = RefsIn(heap', nested', o)
      BY <1>1, RefsAre
    <2> QED BY <2>1
  <1>2. /\ U!Allocated' = U!Allocated /\ U!Open' = U!Open
        /\ \A k \in {"thread", "closure", "upval"} : U!Of(k)' = U!Of(k)
    BY DEF U!Allocated, U!Open, U!Of
  <1>3. Nested'
    BY <1>2 DEF IInv, Nested
  <1>4. Lists'
    BY <1>2 DEF IInv, Lists
  <1> QED BY <1>1, <1>2, <1>3, <1>4

\* Objects are of four kinds, and the main thread is one of them.
LEMMA KindsOf ==
    ASSUME IInv
    PROVE  /\ U!Allocated \subseteq U!Of("thread") \cup U!Of("closure") \cup U!Of("upval")
           /\ U!Of("thread") \subseteq U!Allocated /\ U!Of("closure") \subseteq U!Allocated
           /\ U!Of("upval") \subseteq U!Allocated /\ U!Open \subseteq U!Of("upval")
           /\ U!Of("thread") \cap U!Of("closure") = {} /\ U!Of("thread") \cap U!Of("upval") = {}
           /\ U!Of("closure") \cap U!Of("upval") = {} /\ U!Allocated \subseteq U!Obj
           /\ U!Main \in U!Obj /\ U!Main \in U!Of("thread") /\ U!Main \in Live
           /\ \A u \in U!Open : heap[u].on \in U!Of("thread")
  <1>1. \A o \in U!Allocated : o \in U!Obj /\ heap[o].tt # "free"
    BY DEF U!Allocated, U!Of
  <1>2. U!Allocated \subseteq U!Of("thread") \cup U!Of("closure") \cup U!Of("upval")
    BY <1>1, Kinds DEF U!Of, IInv, TypeOK
  <1>3. U!Main \in U!Of("thread") /\ U!Main \in Live /\ U!Main \in U!Obj
    <2>1. 1 \in 1..Len(nested)
      BY DEF IInv, TypeOK, Nested
    <2>2. nested[1] \in U!Of("thread") /\ nested[1] \in Live /\ nested[1] = U!Main
      BY <2>1 DEF IInv, Nested, Closed
    <2> QED BY <2>2 DEF U!Of
  <1>4. ASSUME NEW u \in U!Open PROVE heap[u].on \in U!Of("thread")
    <2>1. u \in OpenOf(heap) /\ heap \in Heaps /\ ListsIn(heap)
      BY DEF U!Open, OpenOf, U!Of, IInv, TypeOK, Lists
    <2> QED BY <2>1, OpenSlot DEF U!Of
  <1> QED BY <1>1, <1>2, <1>3, <1>4 DEF U!Of, U!Open, U!Allocated

\* A cycle starts: everything is white but the main thread.
LEMMA StartCycleInv == ASSUME IInv, U!StartCycle PROVE IInv'
  <1>1. /\ gcstate = "pause" /\ marked' = [marked EXCEPT ![U!Main] = "gray"]
        /\ gray' = {U!Main} /\ grayagain' = {} /\ gcstate' = "propagate"
        /\ UNCHANGED <<heap, uvhead, nested>>
    BY DEF U!StartCycle
  <1>2. /\ \A o \in U!Obj : U!Refs'[o] = U!Refs[o]
        /\ U!Allocated' = U!Allocated /\ U!Open' = U!Open /\ Nested' /\ Lists'
        /\ \A k \in {"thread", "closure", "upval"} : U!Of(k)' = U!Of(k)
    BY <1>1, HeapStays
  <1>3. /\ U!Main \in U!Obj /\ U!Main \in U!Of("thread") /\ U!Main \in U!Allocated
        /\ U!Allocated \subseteq U!Obj
    BY KindsOf
  <1>4. \A o \in U!Allocated : marked[o] = "white" /\ marked'[o] = IF o = U!Main THEN "gray" ELSE "white"
    BY <1>1, <1>3 DEF IInv, Sweeping, TypeOK
  <1>5. U!Dead' = {} /\ Live' = Live /\ U!White' = U!White \ {U!Main} /\ U!Gray' = {U!Main}
    <2>1. U!Dead = {} /\ U!Dead' = {}
      BY <1>2, <1>4 DEF U!Dead
    <2>2. U!White' = U!White \ {U!Main} /\ U!Gray' = {U!Main}
      BY <1>2, <1>3, <1>4 DEF U!White, U!Gray
    <2> QED BY <1>2, <2>1, <2>2 DEF Live
  <1>6. Closed' /\ Shape'
    <2>1. Live \subseteq U!Obj
      BY DEF Live, U!Allocated
    <2>2. Closed'
      BY <1>1, <1>2, <1>5, <2>1 DEF IInv, Closed
    <2>3. Shape'
      BY <1>2, <1>5, <2>1 DEF IInv, Shape
    <2> QED BY <2>2, <2>3
  <1>7. Coloured'
    <2>1. \A o \in U!Of("thread") \cup U!Open : o \in U!Allocated
      BY KindsOf
    <2>2. U!Of("thread")' = U!Of("thread")
      BY <1>2
    <2> QED BY <1>2, <1>4, <1>5, <2>1, <2>2 DEF Coloured
  <1>8. Marking'
    <2>1. U!Of("thread")' = U!Of("thread")
      BY <1>2
    <2> QED BY <1>1, <1>2, <1>3, <1>4, <1>5, <2>1 DEF Marking
  <1>9. Sweeping'
    BY <1>1 DEF Sweeping
  <1>10. TypeOK'
    <2>1. marked' \in [U!Obj -> Colours]
      BY <1>1 DEF IInv, TypeOK, Colours
    <2> QED BY <1>1, <2>1 DEF IInv, TypeOK
  <1> QED BY <1>2, <1>6, <1>7, <1>8, <1>9, <1>10 DEF IInv

\* propagatemark of one gray object.
LEMMA PropagateInv == ASSUME IInv, NEW o \in U!Obj, U!Propagate(o) PROVE IInv'
  <1> DEFINE M == U!Reached(U!Refs[o])
  <1>1. /\ gcstate = "propagate" /\ o \in gray /\ gcstate' = gcstate
        /\ marked' = [U!Painted(M) EXCEPT ![o] = IF o \in U!Of("thread") THEN "gray" ELSE "black"]
        /\ gray' = (gray \ {o}) \cup U!Listed(M)
        /\ grayagain' = grayagain \cup ({o} \cap U!Of("thread"))
        /\ UNCHANGED <<heap, uvhead, nested>>
    BY DEF U!Propagate
  <1>2. /\ \A x \in U!Obj : U!Refs'[x] = U!Refs[x]
        /\ U!Allocated' = U!Allocated /\ U!Open' = U!Open /\ Nested' /\ Lists'
        /\ \A k \in {"thread", "closure", "upval"} : U!Of(k)' = U!Of(k)
    BY <1>1, HeapStays
  <1>3. /\ U!Of("thread") \subseteq U!Allocated /\ U!Of("closure") \subseteq U!Allocated
        /\ U!Allocated \subseteq U!Of("thread") \cup U!Of("closure") \cup U!Of("upval")
        /\ U!Of("thread") \cap U!Of("closure") = {} /\ U!Of("thread") \cap U!Of("upval") = {}
        /\ U!Of("closure") \cap U!Of("upval") = {} /\ U!Allocated \subseteq U!Obj
        /\ U!Open \subseteq U!Of("upval")
    BY KindsOf
  <1>4. U!Dead = {} /\ Live = U!Allocated /\ o \in U!Of("thread") \cup U!Of("closure") /\ o \in U!Allocated
    BY <1>1, <1>3 DEF IInv, Coloured, Marking, Live
  <1>5. /\ M \subseteq U!White /\ U!Refs[o] \cap U!White \subseteq M
        /\ \A u \in M \cap U!Of("upval") : U!Refs[u] \cap U!White \subseteq M
    <2>1. U!Refs[o] \subseteq U!Allocated
      BY <1>4 DEF IInv, Closed
    <2> QED BY <1>4, <2>1, ReachedIs
  <1> HIDE DEF M
  <1>6. /\ marked' \in [U!Obj -> Colours]
        /\ marked'[o] = IF o \in U!Of("thread") THEN "gray" ELSE "black"
        /\ \A x \in U!Obj : x # o /\ x \notin M => marked'[x] = marked[x]
        /\ \A x \in M : x # o => marked'[x] = IF x \in U!Of("upval") \ U!Open THEN "black" ELSE "gray"
        /\ M \subseteq U!Obj
    <2>1. M \subseteq U!Obj
      BY <1>5 DEF U!White, U!Allocated
    <2>2. "gray" \in Colours /\ "black" \in Colours
      BY DEF Colours
    <2> QED BY <1>1, <2>1, <2>2, PaintedIs
  <1>7. U!Dead' = {} /\ Live' = Live /\ U!White' = U!White \ (M \cup {o})
    <2>1. \A x \in U!Allocated : marked[x] # "other" /\ marked[x] \in Colours
      BY <1>3, <1>4 DEF U!Dead, IInv, TypeOK
    <2>2. \A x \in U!Allocated : /\ marked'[x] # "other"
                                 /\ marked'[x] = "white" <=> marked[x] = "white" /\ x \notin M \cup {o}
      BY <1>3, <1>6, <2>1
    <2>3. U!Dead' = {}
      BY <1>2, <2>2 DEF U!Dead
    <2>4. U!White' = U!White \ (M \cup {o})
      BY <1>2, <2>1, <2>2 DEF U!White
    <2> QED BY <1>2, <1>4, <2>3, <2>4 DEF Live
  <1>8. Closed' /\ Shape'
    <2>1. Live \subseteq U!Obj
      BY DEF Live, U!Allocated
    <2>2. Closed'
      BY <1>1, <1>2, <1>7, <2>1 DEF IInv, Closed
    <2>3. Shape'
      BY <1>2, <1>7, <2>1 DEF IInv, Shape
    <2> QED BY <2>2, <2>3
  <1>9. Coloured'
    <2>1. \A x \in U!Of("thread") \cup U!Open :
             x \in U!Obj /\ marked[x] # "black" /\ x \notin U!Of("upval") \ U!Open
                                                /\ (x = o => x \in U!Of("thread"))
      BY <1>3, <1>4 DEF IInv, Coloured, U!Of
    <2>2. U!Of("thread")' = U!Of("thread")
      BY <1>2
    <2> QED BY <1>2, <1>6, <1>7, <2>1, <2>2 DEF Coloured
  <1>10. Marking'
    <2>1. U!Of("thread")' = U!Of("thread") /\ U!Of("closure")' = U!Of("closure")
      BY <1>2
    <2>2. U!Main \notin U!White'
      BY <1>1, <1>7 DEF IInv, Marking
    <2>3. gray' \subseteq U!Of("thread") \cup U!Of("closure")
      <3>1. M \subseteq U!Allocated
        BY <1>5 DEF U!White
      <3> QED BY <1>1, <1>3, <3>1 DEF IInv, Marking, U!Listed
    <2>4. ASSUME NEW x \in U!Gray'
          PROVE  x \in gray' \/ (x \in U!Of("thread") /\ x \in grayagain') \/ x \in U!Open
      <3>1. x \in U!Obj /\ x \in U!Allocated /\ marked'[x] = "gray"
        BY <1>2, <1>3 DEF U!Gray
      <3>2. CASE x = o
        BY <1>1, <1>6, <3>1, <3>2
      <3>3. CASE x # o /\ x \in M
        <4>1. x \notin U!Of("upval") \ U!Open
          BY <1>6, <3>1, <3>3
        <4> QED BY <1>1, <3>3, <4>1 DEF U!Listed
      <3>4. CASE x # o /\ x \notin M
        <4>1. x \in U!Gray
          BY <1>6, <3>1, <3>4 DEF U!Gray
        <4> QED BY <1>1, <3>4, <4>1 DEF IInv, Marking
      <3> QED BY <3>2, <3>3, <3>4
    <2>5. ASSUME NEW x \in U!Allocated, marked'[x] = "black" PROVE U!Refs[x] \cap U!White' = {}
      <3>1. CASE x = o
        BY <1>5, <1>7, <3>1
      <3>2. CASE x # o /\ x \in M
        <4>1. x \in U!Of("upval")
          BY <1>6, <2>5, <3>2
        <4> QED BY <1>5, <1>7, <3>2, <4>1
      <3>3. CASE x # o /\ x \notin M
        <4>1. marked[x] = "black"
          BY <1>3, <1>6, <2>5, <3>3
        <4> QED BY <1>1, <1>7, <4>1 DEF IInv, Marking
      <3> QED BY <3>1, <3>2, <3>3
    <2> QED BY <1>2, <1>3, <2>1, <2>2, <2>3, <2>4, <2>5 DEF Marking
  <1>11. Sweeping'
    BY <1>1 DEF Sweeping
  <1>12. TypeOK'
    BY <1>1, <1>6 DEF IInv, TypeOK
  <1> QED BY <1>2, <1>8, <1>9, <1>10, <1>11, <1>12 DEF IInv

\* propagateall reaches the white members of S and what these refer to.
LEMMA PropagatedIs ==
    ASSUME NEW S
    PROVE  /\ U!Propagated(S) \subseteq U!White /\ S \cap U!White \subseteq U!Propagated(S)
           /\ \A o \in U!Propagated(S) : U!Refs[o] \cap U!White \subseteq U!Propagated(S)
  <1>1. ASSUME NEW o \in U!Propagated(S), NEW p \in U!Refs[o] \cap U!White PROVE p \in U!Propagated(S)
    <2>1. ASSUME NEW X \in SUBSET U!White, S \cap U!White \subseteq X,
                 \A x \in X : U!Refs[x] \cap U!White \subseteq X
          PROVE  p \in X
      <3>1. o \in X
        BY <2>1 DEF U!Propagated
      <3> QED BY <2>1, <3>1
    <2> QED BY <2>1 DEF U!Propagated
  <1> QED BY <1>1 DEF U!Propagated

\* atomic: what is still white when all is marked is what no thread leads to.
LEMMA AtomicInv == ASSUME IInv, U!Atomic PROVE IInv'
  <1> DEFINE S == U!Remarked \cup {U!L} \cup UNION {U!Refs[t] : t \in grayagain}
             M == U!Propagated(S)
  <1>1. /\ gcstate = "propagate" /\ gray = {}
        /\ marked' = [o \in U!Obj |-> IF o \in M \cap U!Of("closure") THEN "black"
                                   ELSE IF o \in U!White \ M THEN "other" ELSE U!Painted(M)[o]]
        /\ sweepgc' = U!Allocated \ U!Open /\ gcstate' = "sweep"
        /\ UNCHANGED <<heap, uvhead, nested>>
    BY DEF U!Atomic
  <1>2. /\ \A x \in U!Obj : U!Refs'[x] = U!Refs[x]
        /\ U!Allocated' = U!Allocated /\ U!Open' = U!Open /\ Nested' /\ Lists'
        /\ \A k \in {"thread", "closure", "upval"} : U!Of(k)' = U!Of(k)
    BY <1>1, HeapStays
  <1>3. /\ U!Of("thread") \subseteq U!Allocated /\ U!Of("closure") \subseteq U!Allocated
        /\ U!Of("thread") \cap U!Of("closure") = {} /\ U!Of("thread") \cap U!Of("upval") = {}
        /\ U!Of("closure") \cap U!Of("upval") = {} /\ U!Allocated \subseteq U!Obj
        /\ U!Open \subseteq U!Of("upval")
        /\ U!Main \in U!Of("thread") /\ \A u \in U!Open : heap[u].on \in U!Of("thread")
    BY KindsOf
  <1>4. U!Dead = {} /\ Live = U!Allocated
    BY <1>1 DEF IInv, Coloured, Live
  <1>5. /\ M \subseteq U!White /\ S \cap U!White \subseteq M
        /\ \A o \in M : U!Refs[o] \cap U!White \subseteq M
    BY PropagatedIs
  <1>6. /\ U!Remarked \subseteq S /\ U!L \in S /\ \A t \in grayagain : U!Refs[t] \subseteq S
    OBVIOUS
  <1> HIDE DEF M, S
  <1>7. /\ marked' \in [U!Obj -> Colours]
        /\ \A o \in U!Obj : o \in U!White \ M => marked'[o] = "other"
        /\ \A o \in M : marked'[o] = IF o \in U!Of("closure") \/ o \in U!Of("upval") \ U!Open THEN "black"
                                     ELSE "gray"
        /\ \A o \in U!Obj : o \notin U!White => marked'[o] = marked[o]
    <2>1. M \subseteq U!Obj
      BY <1>5 DEF U!White, U!Allocated
    <2>2. \A o \in U!Obj : marked'[o] = IF o \in M \cap U!Of("closure") THEN "black"
                                        ELSE IF o \in U!White \ M THEN "other" ELSE U!Painted(M)[o]
      BY <1>1
    <2>3. \A o \in U!Obj : marked'[o] \in Colours
      <3>1. \A o \in U!Obj : U!Painted(M)[o] \in Colours
        BY PaintedIs
      <3> QED BY <2>2, <3>1 DEF Colours
    <2>4. \A o \in M : marked'[o] = IF o \in U!Of("closure") \/ o \in U!Of("upval") \ U!Open THEN "black"
                                    ELSE "gray"
      BY <1>3, <1>5, <2>1, <2>2, PaintedIs
    <2>5. \A o \in U!Obj : o \notin U!White => marked'[o] = marked[o]
      BY <1>5, <2>2, PaintedIs
    <2> QED BY <1>1, <2>2, <2>3, <2>4, <2>5
  <1>8. U!Dead' = U!White \ M /\ Live' = (U!Allocated \ U!White) \cup M
    <2>1. U!Dead' = U!White \ M
      BY <1>2, <1>3, <1>5, <1>7 DEF U!Dead, U!White
    <2> QED BY <1>2, <1>5, <2>1 DEF Live, U!White
  <1>9. ASSUME NEW o \in Live' PROVE U!Refs[o] \subseteq Live' /\ o \in Live /\ o \in U!Obj
    <2>1. o \in Live /\ o \in U!Obj /\ U!Refs[o] \subseteq U!Allocated
      BY <1>3, <1>4, <1>5, <1>8 DEF U!White, IInv, Closed
    <2>2. U!Refs[o] \cap U!White \subseteq M
      <3>1. CASE o \in M
        BY <1>5, <3>1
      <3>2. CASE o \notin M
        <4>1. o \in U!Allocated /\ (marked[o] = "gray" \/ marked[o] = "black")
          BY <1>3, <1>8, <3>2 DEF U!White, IInv, TypeOK, Colours
        <4>2. CASE marked[o] = "black"
          BY <1>1, <4>1, <4>2 DEF IInv, Marking
        <4>3. CASE marked[o] = "gray"
          <5>1. o \in U!Gray
            BY <4>1, <4>3 DEF U!Gray
          <5>2. o \in grayagain \/ o \in U!Open
            BY <1>1, <5>1 DEF IInv, Marking
          <5>3. CASE o \in grayagain
            BY <1>5, <1>6, <5>3
          <5>4. CASE o \in U!Open
            <6>1. U!Refs[o] \subseteq U!Remarked
              BY <5>1, <5>4 DEF U!Remarked, IInv, Lists
            <6> QED BY <1>5, <1>6, <6>1
          <5> QED BY <5>2, <5>3, <5>4
        <4> QED BY <4>1, <4>2, <4>3
      <3> QED BY <3>1, <3>2
    <2> QED BY <1>8, <2>1, <2>2
  <1>10. \A i \in 1..Len(nested) : nested[i] \in Live'
    <2> DEFINE T == {n \in Nat : n + 1 \in 1..Len(nested) => nested[n + 1] \in Live'}
    <2>0. nested \in Seq(U!Obj) /\ Len(nested) \in Nat
      BY DEF IInv, TypeOK
    <2>1. 0 \in T
      <3>1. nested[1] = U!Main /\ U!Main \notin U!White /\ U!Main \in U!Allocated
        BY <1>1, <1>3 DEF IInv, Nested, Marking
      <3> QED BY <1>8, <3>1
    <2>2. ASSUME NEW n \in T PROVE n + 1 \in T
      <3> SUFFICES ASSUME (n + 1) + 1 \in 1..Len(nested) PROVE nested[(n + 1) + 1] \in Live'
        OBVIOUS
      <3>1. /\ n \in Nat /\ n + 1 \in 1..Len(nested) /\ (n + 1) + 1 \in 2..Len(nested)
            /\ ((n + 1) + 1) - 1 = n + 1
        BY <2>0
      <3>2. nested[n + 1] \in Live' /\ nested[n + 1] \in U!Of("thread")
        BY <3>1 DEF IInv, Nested
      <3> DEFINE t == nested[n + 1]
      <3>3. nested[(n + 1) + 1] \in CalleeIn(nested, t)
        BY <3>1 DEF CalleeIn
      <3>4. CalleeIn(nested, t) \subseteq U!Refs[t]
        <4>1. t \in U!Obj /\ heap[t].tt = "thread"
          BY <3>2 DEF U!Of
        <4> HIDE DEF t
        <4>2. U!Refs[t] = RefsIn(heap, nested, t) /\ CalleeIn(nested, t) \subseteq RefsIn(heap, nested, t)
          BY <4>1, RefsAre, RefsOf
        <4> QED BY <4>2
      <3> QED BY <1>9, <3>2, <3>3, <3>4
    <2>3. T = Nat
      BY <2>1, <2>2, NatSetInduction
    <2> SUFFICES ASSUME NEW i \in 1..Len(nested) PROVE nested[i] \in Live'
      OBVIOUS
    <2>4. i - 1 \in T /\ (i - 1) + 1 = i
      <3> HIDE DEF T
      <3> QED BY <2>0, <2>3
    <2> QED BY <2>4
  <1>11. Closed' /\ Shape'
    <2>1. Closed'
      BY <1>1, <1>2, <1>9, <1>10 DEF Closed
    <2>2. U!Of("closure")' = U!Of("closure") /\ U!Of("upval")' = U!Of("upval")
      BY <1>2
    <2>3. Shape'
      BY <1>2, <1>9, <2>2 DEF IInv, Shape
    <2> QED BY <2>1, <2>3
  <1>12. Coloured'
    <2>1. \A x \in U!Of("thread") \cup U!Open : /\ x \in U!Obj /\ marked[x] # "black"
                                                /\ ~(x \in U!Of("closure") \/ x \in U!Of("upval") \ U!Open)
      BY <1>3 DEF IInv, Coloured, U!Of
    <2>2. U!Of("thread")' = U!Of("thread")
      BY <1>2
    <2>3. \A x \in U!Obj : x \in U!White \ M \/ x \in M \/ x \notin U!White
      OBVIOUS
    <2> QED BY <1>1, <1>2, <1>7, <2>1, <2>2, <2>3 DEF Coloured
  <1>13. Marking'
    BY <1>1 DEF Marking
  <1>14. Sweeping'
    <2>1. U!Allocated \subseteq Awaited'
      <3>1. \A u \in U!Open : u \in U!Open' /\ heap'[u].on \in U!Allocated \ U!Open
        BY <1>1, <1>2, <1>3
      <3> QED BY <1>1, <1>2, <3>1 DEF Awaited, U!OpenIn
    <2> QED BY <1>1, <1>2, <2>1 DEF Sweeping
  <1>15. TypeOK'
    BY <1>1, <1>7 DEF IInv, TypeOK
  <1> QED BY <1>2, <1>11, <1>12, <1>13, <1>14, <1>15 DEF IInv

-----------------------------------------------------------------------------
(* The collector: sweeping.                                                 *)

\* g is the heap when the condemned objects Gone are freed.
SweepsTo(g, Gone) ==
    /\ g \in Heaps
    /\ \A o \in Gone : g[o] = U!Free
    /\ \A u \in U!OpenIn(Gone) \ Gone : g[u].tt = "upval" /\ g[u].on = 0 /\ g[u].own = U!ValueOf(u)
    /\ \A t \in U!Of("thread") \ Gone : /\ g[t].tt = "thread" /\ g[t].stack = heap[t].stack
                                        /\ g[t].open = U!Select(heap[t].open, U!Obj \ Gone)
    /\ \A o \in U!Obj \ (Gone \cup U!OpenIn(Gone) \cup U!Of("thread")) : g[o] = heap[o]

\* In the words of the model.
LEMMA SweptHeap ==
    ASSUME IInv, NEW S, U!Swept(S)
    PROVE  SweepsTo(heap', U!Freed(S)) /\ uvhead' = uvhead \ (U!Freed(S) \cup U!OpenIn(U!Freed(S)))
  <1> DEFINE Gone == U!Freed(S)
             cut(o) == [heap[o] EXCEPT !.open = U!Select(@, U!Obj \ Gone)]
             val(o) == IF o \in Gone THEN U!Free
                       ELSE IF o \in U!OpenIn(Gone) THEN U!ClosedOver(o)
                       ELSE IF o \in U!Of("thread") THEN cut(o)
                       ELSE heap[o]
  <1>1. heap' = [o \in U!Obj |-> val(o)]
    BY DEF U!Swept
  <1>2. heap \in Heaps /\ ListsIn(heap) /\ U!Open = OpenOf(heap)
    BY DEF IInv, TypeOK, Lists, U!Open, OpenOf, U!Of
  <1>3. ASSUME NEW t \in U!Of("thread")
        PROVE  /\ cut(t) \in Threads /\ cut(t).tt = "thread" /\ cut(t).stack = heap[t].stack
               /\ cut(t).open = U!Select(heap[t].open, U!Obj \ Gone)
    <2>1. heap[t] \in Threads /\ heap[t].open \in Seq(U!Obj)
      BY <1>2, Kinds DEF U!Of
    <2>2. U!Select(heap[t].open, U!Obj \ Gone) \in Seq(U!Obj)
      BY <2>1, SelectLeaves
    <2> DEFINE y == U!Select(heap[t].open, U!Obj \ Gone)
    <2>3. cut(t) = [heap[t] EXCEPT !.open = y]
      OBVIOUS
    <2>4. y \in Seq(U!Obj)
      BY <2>2
    <2> HIDE DEF y, cut
    <2>5. cut(t) \in Threads /\ cut(t).tt = "thread" /\ cut(t).stack = heap[t].stack /\ cut(t).open = y
      BY <2>1, <2>3, <2>4 DEF Threads
    <2> QED BY <2>5 DEF y
  <1>4. ASSUME NEW u \in U!OpenIn(Gone)
        PROVE  /\ U!ClosedOver(u) \in Upvals /\ U!ClosedOver(u).tt = "upval" /\ U!ClosedOver(u).on = 0
               /\ U!ClosedOver(u).own = U!ValueOf(u)
    <2>1. u \in OpenOf(heap) /\ u \in U!Obj /\ heap[u].tt = "upval"
      BY <1>2 DEF U!OpenIn, OpenOf
    <2>2. heap[u] \in Upvals /\ U!ValueOf(u) \in Value
      BY <1>2, <2>1, Kinds, RefsAre, OpenSlot
    <2> QED BY <2>2 DEF U!ClosedOver, Upvals
  <1> HIDE DEF Gone, cut
  <1>5. ASSUME NEW o \in U!Obj PROVE val(o) \in Threads \cup Closures \cup Upvals \cup {U!Free}
    <2>1. heap[o] \in Threads \cup Closures \cup Upvals \cup {U!Free}
      BY <1>2 DEF Heaps
    <2> QED BY <1>3, <1>4, <2>1
  <1>6. heap' \in Heaps /\ \A o \in U!Obj : heap'[o] = val(o)
    BY <1>1, <1>5 DEF Heaps
  <1>7. Gone \subseteq U!Obj /\ U!OpenIn(Gone) \subseteq U!Obj /\ U!Of("thread") \subseteq U!Obj
        /\ U!OpenIn(Gone) \cap U!Of("thread") = {}
    BY DEF Gone, U!Freed, U!Dead, U!Allocated, U!OpenIn, U!Open, U!Of
  <1>8. \A o \in Gone : heap'[o] = U!Free
    BY <1>6, <1>7
  <1>9. \A u \in U!OpenIn(Gone) \ Gone : heap'[u] = U!ClosedOver(u)
    BY <1>6, <1>7
  <1>10. \A t \in U!Of("thread") \ Gone : heap'[t] = cut(t)
    BY <1>6, <1>7
  <1>11. \A o \in U!Obj \ (Gone \cup U!OpenIn(Gone) \cup U!Of("thread")) : heap'[o] = heap[o]
    BY <1>6
  <1>12. SweepsTo(heap', Gone)
    BY <1>3, <1>4, <1>6, <1>8, <1>9, <1>10, <1>11 DEF SweepsTo
  <1> QED BY <1>12 DEF Gone, U!Swept

\* The living and what they refer to stay as they are, and the lists hold.
LEMMA SweptKeeps ==
    ASSUME IInv, NEW Gone, Gone \subseteq U!Dead, SweepsTo(heap', Gone), UNCHANGED nested,
           uvhead' = uvhead \ (Gone \cup U!OpenIn(Gone))
    PROVE  /\ \A k \in {"thread", "closure", "upval"} : U!Of(k)' = U!Of(k) \ Gone
           /\ U!Allocated' = U!Allocated \ Gone /\ U!Open' = U!Open \ (Gone \cup U!OpenIn(Gone))
           /\ \A u \in U!Open' : heap'[u].on = heap[u].on
           /\ \A o \in U!Allocated' : U!Refs'[o] = U!Refs[o]
           /\ Nested' /\ Lists'
  <1> DEFINE D == U!OpenIn(Gone)
  <1>1. /\ heap \in Heaps /\ ListsIn(heap) /\ U!Open = OpenOf(heap) /\ uvhead = U!Open
        /\ Gone \subseteq U!Allocated /\ Gone \subseteq U!Obj
    BY DEF IInv, TypeOK, Lists, U!Open, OpenOf, U!Of, U!Dead, U!Allocated
  <1>2. /\ heap' \in Heaps
        /\ \A o \in Gone : heap'[o] = U!Free /\ heap'[o].tt = "free"
        /\ \A u \in D \ Gone : heap'[u].tt = "upval" /\ heap'[u].on = 0 /\ heap'[u].own = U!ValueOf(u)
        /\ \A t \in U!Of("thread") \ Gone : /\ heap'[t].tt = "thread" /\ heap'[t].stack = heap[t].stack
                                            /\ heap'[t].open = U!Select(heap[t].open, U!Obj \ Gone)
        /\ \A o \in U!Obj \ (Gone \cup D \cup U!Of("thread")) : heap'[o] = heap[o]
    <2>1. U!Free.tt = "free"
      BY DEF U!Free
    <2>2. /\ heap' \in Heaps
          /\ \A o \in Gone : heap'[o] = U!Free
          /\ \A u \in D \ Gone : heap'[u].tt = "upval" /\ heap'[u].on = 0 /\ heap'[u].own = U!ValueOf(u)
          /\ \A t \in U!Of("thread") \ Gone : /\ heap'[t].tt = "thread" /\ heap'[t].stack = heap[t].stack
                                              /\ heap'[t].open = U!Select(heap[t].open, U!Obj \ Gone)
          /\ \A o \in U!Obj \ (Gone \cup D \cup U!Of("thread")) : heap'[o] = heap[o]
      BY Zenon DEF SweepsTo
    <2> HIDE DEF D
    <2> QED BY <2>1, <2>2
  <1>3. D \subseteq U!Open /\ \A u \in U!Open : /\ u \in D <=> heap[u].on \in Gone
                                                /\ u \in U!Obj /\ heap[u].tt = "upval" /\ heap[u].on # 0
                                                /\ u \notin U!Of("thread") /\ heap[u].on \in U!Of("thread")
    <2>1. D \subseteq U!Open /\ \A u \in U!Open : u \in D <=> heap[u].on \in Gone
      BY DEF U!OpenIn
    <2> QED BY <1>1, <2>1, OpenSlot DEF OpenOf, U!Of
  <1> HIDE DEF D
  <1>4. \A o \in U!Obj : o \notin Gone => heap'[o].tt = heap[o].tt
    <2> SUFFICES ASSUME NEW o \in U!Obj, o \notin Gone PROVE heap'[o].tt = heap[o].tt
      OBVIOUS
    <2>1. CASE o \in D
      BY <1>2, <1>3, <2>1
    <2>2. CASE o \in U!Of("thread")
      BY <1>2, <2>2 DEF U!Of
    <2>3. CASE o \notin D \cup U!Of("thread")
      BY <1>2, <2>3
    <2> QED BY <2>1, <2>2, <2>3
  <1>5. /\ \A k \in {"thread", "closure", "upval"} : U!Of(k)' = U!Of(k) \ Gone
        /\ U!Allocated' = U!Allocated \ Gone
    BY <1>1, <1>2, <1>4 DEF U!Of, U!Allocated
  <1>6. \A u \in U!Open \ (Gone \cup D) : heap'[u] = heap[u] /\ heap[u].on \in U!Of("thread") \ Gone
    <2> SUFFICES ASSUME NEW u \in U!Open, u \notin Gone, u \notin D
                 PROVE  heap'[u] = heap[u] /\ heap[u].on \in U!Of("thread") \ Gone
      OBVIOUS
    <2>1. u \in U!Obj /\ u \notin U!Of("thread") /\ heap[u].on \in U!Of("thread") /\ heap[u].on \notin Gone
      BY <1>3
    <2> QED BY <1>2, <2>1
  <1>7. U!Open' = OpenOf(heap') /\ U!Open' = U!Open \ (Gone \cup D)
    <2>1. U!Open' = OpenOf(heap')
      BY DEF U!Open, OpenOf, U!Of
    <2>2. ASSUME NEW u \in U!Open \ (Gone \cup D) PROVE u \in OpenOf(heap')
      BY <1>3, <1>6 DEF OpenOf
    <2>3. ASSUME NEW u \in OpenOf(heap') PROVE u \in U!Open \ (Gone \cup D)
      <3>1. u \in U!Obj /\ heap'[u].tt = "upval" /\ heap'[u].on # 0
        BY DEF OpenOf
      <3>2. u \notin Gone /\ u \notin D
        BY <1>2, <3>1
      <3>3. u \notin U!Of("thread")
        BY <1>2, <3>1, <3>2
      <3>4. heap'[u] = heap[u]
        BY <1>2, <3>1, <3>2, <3>3
      <3> QED BY <1>1, <3>1, <3>2, <3>4 DEF OpenOf
    <2> QED BY <2>1, <2>2, <2>3
  <1>8. ASSUME NEW o \in U!Allocated' PROVE RefsIn(heap', nested', o) = RefsIn(heap, nested, o)
    <2>1. o \in U!Obj /\ o \notin Gone /\ heap'[o].tt = heap[o].tt
          /\ heap[o].tt \in {"thread", "closure", "upval"}
      <3>1. o \in U!Obj /\ o \notin Gone /\ heap[o].tt # "free"
        BY <1>5, <1>8 DEF U!Allocated, U!Of
      <3> QED BY <1>1, <1>4, <3>1, Kinds
    <2>2. CalleeIn(nested', o) = CalleeIn(nested, o)
      OBVIOUS
    <2>3. CASE heap[o].tt = "thread"
      <3>1. heap'[o].stack = heap[o].stack
        BY <1>2, <2>1, <2>3 DEF U!Of
      <3> QED BY <2>1, <2>2, <2>3, <3>1, RefsOf
    <2>4. CASE heap[o].tt = "closure"
      <3>1. o \notin D /\ o \notin U!Of("thread")
        BY <1>3, <2>4 DEF U!Of
      <3>2. heap'[o] = heap[o]
        BY <1>2, <2>1, <3>1
      <3> QED BY <2>4, <3>2, RefsOf
    <2>5. CASE heap[o].tt = "upval"
      <3>1. ValueIn(heap', o) = ValueIn(heap, o)
        <4>1. CASE o \in D
          <5>1. heap'[o].on = 0 /\ heap'[o].own = U!ValueOf(o) /\ U!ValueOf(o) = ValueIn(heap, o)
            BY <1>2, <2>1, <2>5, <4>1, RefsAre
          <5> QED BY <5>1 DEF ValueIn
        <4>2. CASE o \in U!Open /\ o \notin D
          <5>1. heap'[o] = heap[o] /\ heap[o].on \in U!Of("thread") \ Gone /\ heap[o].on # 0
            BY <1>3, <1>6, <2>1, <4>2
          <5>2. heap'[heap[o].on].stack = heap[heap[o].on].stack
            BY <1>2, <5>1
          <5> QED BY <5>1, <5>2 DEF ValueIn
        <4>3. CASE o \notin U!Open
          <5>1. heap[o].on = 0 /\ o \notin D /\ o \notin U!Of("thread")
            BY <1>1, <1>3, <2>1, <2>5, <4>3 DEF OpenOf, U!Of
          <5>2. heap'[o] = heap[o]
            BY <1>2, <2>1, <5>1
          <5> QED BY <5>1, <5>2 DEF ValueIn
        <4> QED BY <1>3, <4>1, <4>2, <4>3
      <3> QED BY <2>1, <2>5, <3>1, RefsOf
    <2> QED BY <2>1, <2>3, <2>4, <2>5
  <1>9. Nested'
    <2>1. U!Of("thread")' = U!Of("thread") \ Gone
      BY <1>5
    <2>2. \A i \in 1..Len(nested) : nested[i] \in Live /\ nested[i] \in U!Of("thread")
      BY DEF IInv, Nested, Closed
    <2> QED BY <2>1, <2>2 DEF IInv, Nested, Live
  <1>10. ASSUME NEW t \in U!Obj, heap'[t].tt = "thread" PROVE Listing(heap', t)
    <2>1. t \in U!Of("thread") /\ t \notin Gone /\ heap[t].tt = "thread"
      BY <1>2, <1>4, <1>10 DEF U!Of
    <2> DEFINE q == heap[t].open
               k == U!Select(q, U!Obj \ Gone)
    <2>2. heap'[t].open = k /\ heap'[t].stack = heap[t].stack
      BY <1>2, <2>1
    <2>3. /\ q \in Seq(U!Obj) /\ heap[t].stack \in Seq(Value)
          /\ \A i \in 1..Len(q) : /\ q[i] \in U!Open /\ heap[q[i]].on = t
                                  /\ heap[q[i]].at \in 1..Len(heap[t].stack)
          /\ \A i, j \in 1..Len(q) : i < j => heap[q[j]].at < heap[q[i]].at
          /\ \A u \in U!Open : heap[u].on = t => \E i \in 1..Len(q) : q[i] = u
      BY <1>1, <2>1, Decreasing
    <2>4. k \in Seq(U!Obj) /\ Leaves(k, q, Len(q), U!Obj \ Gone)
      BY <2>3, SelectLeaves
    <2> HIDE DEF q, k
    <2>5. PICK f \in [1..Len(k) -> 1..Len(q)] :
             /\ \A i \in 1..Len(k) : k[i] = q[f[i]] /\ q[f[i]] \in U!Obj \ Gone
             /\ \A i, j \in 1..Len(k) : i < j => f[i] < f[j]
             /\ \A j \in 1..Len(q) : q[j] \in U!Obj \ Gone => \E i \in 1..Len(k) : f[i] = j
      BY <2>4 DEF Leaves
    <2>6. \A i \in 1..Len(k) : /\ k[i] = q[f[i]] /\ f[i] \in 1..Len(q) /\ k[i] \in U!Open'
                               /\ heap'[k[i]] = heap[k[i]] /\ heap[k[i]].on = t
                               /\ heap[k[i]].at \in 1..Len(heap[t].stack)
      <3> SUFFICES ASSUME NEW i \in 1..Len(k)
                   PROVE  /\ k[i] = q[f[i]] /\ f[i] \in 1..Len(q) /\ k[i] \in U!Open'
                          /\ heap'[k[i]] = heap[k[i]] /\ heap[k[i]].on = t
                          /\ heap[k[i]].at \in 1..Len(heap[t].stack)
        OBVIOUS
      <3>1. k[i] = q[f[i]] /\ f[i] \in 1..Len(q) /\ k[i] \notin Gone
        BY <2>5
      <3>2. k[i] \in U!Open /\ heap[k[i]].on = t /\ heap[k[i]].at \in 1..Len(heap[t].stack)
        BY <2>3, <3>1
      <3>3. k[i] \notin D
        BY <1>3, <2>1, <3>2
      <3> QED BY <1>6, <1>7, <3>1, <3>2, <3>3
    <2>7. ASSUME NEW u \in U!Open', heap'[u].on = t PROVE \E i \in 1..Len(k) : k[i] = u
      <3>1. u \in U!Open /\ u \notin Gone /\ u \in U!Obj /\ heap[u].on = t
        BY <1>3, <1>6, <1>7, <2>7
      <3>2. PICK j \in 1..Len(q) : q[j] = u
        BY <2>3, <3>1
      <3>3. PICK i \in 1..Len(k) : f[i] = j
        BY <2>5, <3>1, <3>2
      <3> QED BY <2>6, <3>2, <3>3
    <2>8. U!ToSet(k) = {u \in OpenOf(heap') : heap'[u].on = t}
      <3>1. U!ToSet(k) = {k[i] : i \in 1..Len(k)}
        BY <2>4 DEF U!ToSet
      <3> QED BY <1>7, <2>6, <2>7, <3>1
    <2>9. \A i \in 1..Len(k) : heap'[k[i]].at <= Len(heap'[t].stack)
      BY <2>2, <2>3, <2>6
    <2>10. ASSUME NEW i \in 1..Len(k), i > 1 PROVE heap'[k[i]].at < heap'[k[i - 1]].at
      <3>1. i - 1 \in 1..Len(k) /\ i - 1 < i
        BY <2>4, <2>10
      <3>2. f[i - 1] < f[i]
        BY <2>5, <3>1
      <3>3. heap[q[f[i]]].at < heap[q[f[i - 1]]].at
        <4>1. f[i - 1] \in 1..Len(q) /\ f[i] \in 1..Len(q)
          BY <2>6, <3>1
        <4> QED BY <2>3, <3>2, <4>1
      <3> QED BY <2>6, <3>1, <3>3
    <2> QED BY <2>2, <2>8, <2>9, <2>10 DEF Listing
  <1>11. \A u \in OpenOf(heap') : heap'[heap'[u].on].tt = "thread" /\ heap'[u].at >= 1
    <2> SUFFICES ASSUME NEW u \in U!Open \ (Gone \cup D)
                 PROVE  heap'[heap'[u].on].tt = "thread" /\ heap'[u].at >= 1
      BY <1>7
    <2>1. heap'[u] = heap[u] /\ heap[u].on \in U!Of("thread") \ Gone /\ heap[u].at >= 1
      BY <1>1, <1>6 DEF ListsIn
    <2> QED BY <1>2, <2>1
  <1>12. Lists'
    BY <1>1, <1>7, <1>10, <1>11 DEF Lists, ListsIn, D
  <1>13. \A o \in U!Allocated' : U!Refs'[o] = U!Refs[o]
    <2>1. U!Allocated' \subseteq U!Obj
      BY DEF U!Allocated
    <2> QED BY <1>8, <2>1, RefsAre
  <1>14. \A u \in U!Open' : heap'[u].on = heap[u].on
    BY <1>6, <1>7
  <1> QED BY <1>5, <1>7, <1>9, <1>12, <1>13, <1>14 DEF D

\* What is alive stays alive, with what it refers to.
LEMMA SweptLive ==
    ASSUME IInv, NEW Gone, Gone \subseteq U!Dead, SweepsTo(heap', Gone), UNCHANGED nested,
           uvhead' = uvhead \ (Gone \cup U!OpenIn(Gone)), U!Dead' = U!Dead \ Gone
    PROVE  Live' = Live /\ Closed' /\ Shape'
  <1>1. /\ \A k \in {"thread", "closure", "upval"} : U!Of(k)' = U!Of(k) \ Gone
        /\ U!Allocated' = U!Allocated \ Gone
        /\ \A o \in U!Allocated' : U!Refs'[o] = U!Refs[o]
    BY SweptKeeps
  <1>2. Live' = Live /\ Live \cap Gone = {} /\ \A o \in Live : U!Refs'[o] = U!Refs[o]
    BY <1>1 DEF Live, U!Dead
  <1>3. Closed'
    BY <1>2 DEF IInv, Closed
  <1>4. Shape'
    <2>1. U!Of("closure")' = U!Of("closure") \ Gone /\ U!Of("upval")' = U!Of("upval") \ Gone
      BY <1>1
    <2>2. \A o \in Live : U!Refs[o] \subseteq Live
      BY DEF IInv, Closed
    <2> SUFFICES ASSUME NEW o \in Live
                 PROVE  IF o \in U!Of("closure")' THEN U!Refs'[o] \subseteq U!Of("upval")'
                        ELSE U!Refs'[o] \cap U!Of("upval")' = {}
      BY <1>2 DEF Shape
    <2>3. U!Refs'[o] = U!Refs[o] /\ o \notin Gone /\ U!Refs[o] \cap Gone = {}
      BY <1>2, <2>2
    <2>4. IF o \in U!Of("closure") THEN U!Refs[o] \subseteq U!Of("upval")
          ELSE U!Refs[o] \cap U!Of("upval") = {}
      BY DEF IInv, Shape
    <2> QED BY <2>1, <2>3, <2>4
  <1> QED BY <1>2, <1>3, <1>4

\* sweeplist over some objects, with the upvalues of the threads among them.
LEMMA SweepInv == ASSUME IInv, U!Sweep PROVE IInv'
  <1>1. PICK S \in SUBSET sweepgc :
           /\ U!Swept(S) /\ marked' = U!Whitened(S) /\ sweepgc' = sweepgc \ S
           /\ gcstate' = IF S = sweepgc THEN "pause" ELSE "sweep"
    BY DEF U!Sweep
  <1>2. gcstate = "sweep" /\ UNCHANGED nested
    BY DEF U!Sweep
  <1> DEFINE Gone == U!Freed(S)
             D == U!OpenIn(S)
  <1>3. /\ Gone = (S \cup D) \cap U!Dead /\ Gone \subseteq U!Dead /\ D \subseteq U!Open
        /\ D = {u \in U!Open : heap[u].on \in S}
        /\ \A o \in U!Obj : marked'[o] = IF o \in S \cup D THEN "white" ELSE marked[o]
    BY <1>1 DEF U!Freed, U!OpenIn, U!Whitened
  <1>4. SweepsTo(heap', Gone) /\ uvhead' = uvhead \ (Gone \cup U!OpenIn(Gone))
    BY <1>1, SweptHeap
  <1> HIDE DEF Gone, D
  <1>5. /\ U!Allocated' = U!Allocated \ Gone /\ U!Open' = U!Open \ (Gone \cup U!OpenIn(Gone))
        /\ U!Of("thread")' = U!Of("thread") \ Gone
        /\ \A u \in U!Open' : heap'[u].on = heap[u].on
        /\ Nested' /\ Lists'
    BY <1>2, <1>3, <1>4, SweptKeeps
  <1>6. /\ U!Of("thread") \subseteq U!Allocated /\ U!Open \subseteq U!Of("upval")
        /\ U!Of("upval") \subseteq U!Allocated /\ U!Of("thread") \cap U!Of("upval") = {}
        /\ U!Allocated \subseteq U!Obj /\ \A u \in U!Open : heap[u].on \in U!Of("thread")
    BY KindsOf
  <1>7. U!Dead' = U!Dead \ Gone
    BY <1>3, <1>5, <1>6 DEF U!Dead
  <1>8. Live' = Live /\ Closed' /\ Shape'
    BY <1>2, <1>3, <1>4, <1>7, SweptLive
  <1>9. /\ sweepgc \subseteq U!Allocated \ U!Open
        /\ \A o \in U!Allocated \ (sweepgc \cup U!OpenIn(sweepgc)) : marked[o] = "white"
    BY <1>2 DEF IInv, Sweeping, Awaited
  <1>10. S = sweepgc => \A o \in U!Allocated' : marked'[o] = "white"
    BY <1>3, <1>5, <1>6, <1>9 DEF U!OpenIn
  <1>11. Coloured'
    <2>1. \A o \in U!Of("thread") \cup U!Open : o \in U!Obj /\ marked[o] # "black"
      BY <1>6 DEF IInv, Coloured
    <2>2. gcstate' # "sweep" => U!Dead' = {}
      BY <1>1, <1>10 DEF U!Dead
    <2> QED BY <1>3, <1>5, <2>1, <2>2 DEF Coloured
  <1>12. Marking'
    BY <1>1 DEF Marking
  <1>13. Sweeping'
    <2>1. sweepgc' \subseteq U!Allocated' \ U!Open'
      BY <1>1, <1>3, <1>5, <1>9
    <2>2. ASSUME NEW o \in U!Allocated', o \notin sweepgc', o \notin U!OpenIn(sweepgc)'
          PROVE  marked'[o] = "white"
      <3>1. o \in U!Allocated /\ o \in U!Obj /\ o \notin Gone
        BY <1>5, <1>6
      <3>2. CASE o \in S \cup D
        BY <1>3, <3>1, <3>2
      <3>3. CASE o \notin S \cup D
        <4>1. o \notin sweepgc
          BY <1>1, <2>2, <3>3
        <4>2. o \notin U!OpenIn(sweepgc)
          <5> SUFFICES ASSUME o \in U!OpenIn(sweepgc) PROVE FALSE
            OBVIOUS
          <5>1. o \in U!Open /\ heap[o].on \in sweepgc /\ heap[o].on \notin S
            BY <1>3, <3>3 DEF U!OpenIn
          <5>2. heap[o].on \notin Gone
            BY <1>3, <1>6, <5>1
          <5>3. o \in U!Open'
            BY <1>5, <3>1, <5>1, <5>2 DEF U!OpenIn
          <5>4. heap'[o].on \in sweepgc'
            BY <1>1, <1>5, <5>1, <5>3
          <5> QED BY <2>2, <5>3, <5>4 DEF U!OpenIn
        <4>3. marked[o] = "white"
          BY <1>9, <3>1, <4>1, <4>2
        <4> QED BY <1>3, <3>1, <3>3, <4>3
      <3> QED BY <3>2, <3>3
    <2>3. \A o \in U!Allocated' \ Awaited' : marked'[o] = "white"
      BY <2>2 DEF Awaited
    <2>4. gcstate' = "pause" => \A o \in U!Allocated' : marked'[o] = "white"
      BY <1>1, <1>10
    <2> QED BY <2>1, <2>3, <2>4 DEF Sweeping
  <1>14. TypeOK'
    <2>1. heap' \in Heaps
      BY <1>4 DEF SweepsTo
    <2>2. marked' \in [U!Obj -> Colours]
      BY <1>1 DEF U!Whitened, IInv, TypeOK, Colours
    <2> QED BY <1>1, <1>2, <2>1, <2>2 DEF IInv, TypeOK
  <1> QED BY <1>5, <1>8, <1>11, <1>12, <1>13, <1>14 DEF IInv

\* The full collection frees what is condemned, and starts to mark again.
LEMMA FullGCInv == ASSUME IInv, U!FullGC PROVE IInv'
  <1> DEFINE S == IF gcstate = "sweep" THEN sweepgc ELSE U!Allocated \ U!Open
             Gone == U!Freed(S)
             D == U!OpenIn(S)
  <1>1. /\ U!Swept(S) /\ marked' = [U!Whitened(S) EXCEPT ![U!Main] = "gray"]
        /\ gray' = {U!Main} /\ gcstate' = "propagate" /\ UNCHANGED nested
    BY DEF U!FullGC
  <1>2. /\ U!Of("thread") \subseteq U!Allocated /\ U!Open \subseteq U!Of("upval")
        /\ U!Of("upval") \subseteq U!Allocated /\ U!Of("thread") \cap U!Of("upval") = {}
        /\ U!Allocated \subseteq U!Obj /\ \A u \in U!Open : heap[u].on \in U!Of("thread")
        /\ U!Main \in U!Of("thread") /\ U!Main \in Live /\ U!Main \in U!Obj
    BY KindsOf
  <1>3. \A o \in U!Allocated \ (S \cup D) : marked[o] = "white"
    <2>1. CASE gcstate = "sweep"
      BY <2>1 DEF IInv, Sweeping, Awaited
    <2>2. CASE gcstate # "sweep"
      <3>1. \A u \in U!Open : heap[u].on \in U!Allocated \ U!Open
        BY <1>2
      <3> QED BY <2>2, <3>1 DEF U!OpenIn
    <2> QED BY <2>1, <2>2
  <1>4. SweepsTo(heap', Gone) /\ uvhead' = uvhead \ (Gone \cup U!OpenIn(Gone))
    BY <1>1, SweptHeap
  <1>5. Gone = (S \cup D) \cap U!Dead
    BY DEF U!Freed
  <1>6. \A o \in U!Obj : marked'[o] = IF o = U!Main THEN "gray"
                                      ELSE IF o \in S \cup D THEN "white" ELSE marked[o]
    <2> DEFINE w == U!Whitened(S)
    <2>1. w = [o \in U!Obj |-> IF o \in S \cup D THEN "white" ELSE marked[o]]
      BY DEF U!Whitened
    <2>2. marked' = [w EXCEPT ![U!Main] = "gray"]
      BY <1>1
    <2> HIDE DEF w, S, D
    <2> QED BY <2>1, <2>2
  <1> HIDE DEF Gone, D, S
  <1>7. Gone = U!Dead
    BY <1>3, <1>5 DEF U!Dead
  <1>8. /\ U!Allocated' = U!Allocated \ Gone /\ U!Open' = U!Open \ (Gone \cup U!OpenIn(Gone))
        /\ U!Of("thread")' = U!Of("thread") \ Gone
        /\ Nested' /\ Lists'
    BY <1>1, <1>4, <1>7, SweptKeeps
  <1>9. /\ U!Main \in U!Allocated' /\ U!Main \in U!Of("thread")'
        /\ \A o \in U!Allocated' : marked'[o] = IF o = U!Main THEN "gray" ELSE "white"
    <2>1. U!Main \notin Gone
      BY <1>2, <1>7 DEF Live
    <2> QED BY <1>2, <1>3, <1>6, <1>8, <2>1
  <1>10. U!Dead' = {} /\ U!Gray' = {U!Main} /\ U!Main \notin U!White'
    BY <1>9 DEF U!Dead, U!Gray, U!White
  <1>11. Live' = Live /\ Closed' /\ Shape'
    <2>1. U!Dead' = U!Dead \ Gone
      BY <1>7, <1>10
    <2> QED BY <1>1, <1>4, <1>7, <2>1, SweptLive
  <1>12. Coloured'
    <2>1. U!Of("thread")' \cup U!Open' \subseteq U!Allocated'
      <3>1. \A u \in U!Open' : u \in U!Open /\ u \notin Gone
        BY <1>8
      <3> QED BY <1>2, <1>8, <3>1
    <2> QED BY <1>9, <1>10, <2>1 DEF Coloured
  <1>13. Marking'
    BY <1>1, <1>9, <1>10 DEF Marking
  <1>14. Sweeping'
    BY <1>1 DEF Sweeping
  <1>15. TypeOK'
    <2>1. heap' \in Heaps
      BY <1>4 DEF SweepsTo
    <2>2. marked' \in [U!Obj -> Colours]
      <3>1. U!Whitened(S) \in [U!Obj -> Colours]
        BY DEF U!Whitened, IInv, TypeOK, Colours
      <3>2. "gray" \in Colours
        BY DEF Colours
      <3> QED BY <1>1, <3>1, <3>2
    <2> QED BY <1>1, <2>1, <2>2 DEF IInv, TypeOK
  <1> QED BY <1>8, <1>11, <1>12, <1>13, <1>14, <1>15 DEF IInv

-----------------------------------------------------------------------------
(* It always holds.                                                         *)

\* No step breaks it.
LEMMA NextInv == IInv /\ [U!Next]_(U!uvars) => IInv'
  <1> SUFFICES ASSUME IInv, [U!Next]_(U!uvars) PROVE IInv'
    OBVIOUS
  <1>1. CASE UNCHANGED U!uvars
    <2>1. UNCHANGED <<heap, marked, uvhead, gcstate, gray, grayagain, sweepgc, nested>>
      BY <1>1 DEF U!uvars
    <2>2. /\ \A o \in U!Obj : U!Refs'[o] = U!Refs[o]
          /\ U!Allocated' = U!Allocated /\ U!Open' = U!Open /\ Nested' /\ Lists'
          /\ \A k \in {"thread", "closure", "upval"} : U!Of(k)' = U!Of(k)
      BY <2>1, HeapStays
    <2>3. /\ U!Of("thread")' = U!Of("thread") /\ U!Of("closure")' = U!Of("closure")
          /\ U!Of("upval")' = U!Of("upval")
      BY <2>2
    <2>4. U!Dead' = U!Dead /\ U!White' = U!White /\ U!Gray' = U!Gray /\ Live' = Live /\ Live \subseteq U!Obj
          /\ U!Allocated \subseteq U!Obj
      BY <2>1, <2>2 DEF U!Dead, U!White, U!Gray, Live, U!Allocated
    <2>5. Closed'
      BY <2>1, <2>2, <2>4 DEF IInv, Closed
    <2>6. Shape'
      BY <2>2, <2>3, <2>4 DEF IInv, Shape
    <2>7. Coloured'
      BY <2>1, <2>2, <2>3, <2>4 DEF IInv, Coloured
    <2>8. Marking'
      BY <2>1, <2>2, <2>3, <2>4 DEF IInv, Marking
    <2>9. Sweeping'
      <3>1. Awaited' = Awaited
        BY <2>1, <2>2 DEF Awaited, U!OpenIn
      <3> QED BY <2>1, <2>2, <3>1 DEF IInv, Sweeping
    <2>10. TypeOK'
      BY <2>1 DEF IInv, TypeOK
    <2> QED BY <2>2, <2>5, <2>6, <2>7, <2>8, <2>9, <2>10 DEF IInv
  <1>2. CASE \E levels \in U!Captures, ra \in 1..MaxStack : U!Capture(levels, ra)
    BY <1>2, CaptureInv
  <1>3. CASE \E i \in 1..MaxStack : U!Close(i)
    BY <1>3, CloseInv
  <1>4. CASE \E i \in 1..MaxStack, v \in Value : U!SetLocal(i, v)
    BY <1>4, SetLocalInv
  <1>5. CASE \E f \in U!Obj : U!CaptureAgain(f)
    BY <1>5, CaptureAgainInv
  <1>6. CASE \E f \in U!Obj : U!GetUpval(f)
    BY <1>6, GetUpvalInv
  <1>7. CASE \E f \in U!Obj : U!Resume(f)
    BY <1>7, ResumeInv
  <1>8. CASE \E f \in U!Obj, v \in Value : U!SetUpval(f, v)
    BY <1>8, SetUpvalInv
  <1>9. CASE \E f \in Value : U!NewThread(f)
    BY <1>9, NewThreadInv
  <1>10. CASE U!Local
    BY <1>10, LocalInv
  <1>11. CASE U!Yield
    BY <1>11, YieldInv
  <1>12. CASE U!StartCycle
    BY <1>12, StartCycleInv
  <1>13. CASE U!Atomic
    BY <1>13, AtomicInv
  <1>14. CASE U!Sweep
    BY <1>14, SweepInv
  <1>15. CASE U!FullGC
    BY <1>15, FullGCInv
  <1>16. CASE \E o \in U!Obj : U!Propagate(o)
    BY <1>16, PropagateInv
  <1>17. U!Obj \cup {U!Nil} = Value
    BY DEF Value
  <1> QED BY ONLY [U!Next]_(U!uvars), <1>1, <1>2, <1>3, <1>4, <1>5, <1>6, <1>7, <1>8, <1>9, <1>10, <1>11,
             <1>12, <1>13, <1>14, <1>15, <1>16, <1>17, Zenon DEF U!Next

\* The invariant holds whatever the program and the collector do between each other.
THEOREM Upvalues == U!Spec => []IInv
  BY InitInv, NextInv, PTL DEF U!Spec

\* luaF_findupval, luaF_close, the barriers and the sweep with luaE_freethread free
\* nothing that a closure or a stack leads to, and the lists of open upvalues, the
\* threads' and uvhead, agree.
THEOREM UpvaluesStaySafe == U!Spec => []UpvalsAreSafe
  BY Upvalues, InvIsSafe, PTL
=============================================================================
