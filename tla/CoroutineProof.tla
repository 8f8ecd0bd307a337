--------------------------- MODULE CoroutineProof ---------------------------
(***************************************************************************)
(* What holds in Coroutine for any number of coroutines, any limit of the C *)
(* calls and any depth of the activations, in a program that does not try   *)
(* to yield across a C call (what happens to one that does is a finding).   *)
(***************************************************************************)
EXTENDS Parts, Integers, Sequences, Induction, FiniteSetTheorems, SequenceTheorems, TLAPS

-----------------------------------------------------------------------------
(* Counting the C calls among activations.                                  *)

Frame == [kind : {"lua", "call", "pcall"}, ccalls : Nat]
Started == [kind |-> "lua", ccalls |-> 0]
HostCall == [kind |-> "pcall", ccalls |-> 0]
Threads == Co \cup {MainThread}

\* The activations among the first n that hold a luaD_call or lua_pcall on the C
\* stack, and how many they are.
Held(fs, n) == {i \in 1..n : fs[i].kind # "lua"}
Cs(fs, n) == Cardinality(Held(fs, n))

\* A thread's activations hold what CLevels says.
LEMMA CLevelsIs == \A t : C!CLevels(t) = Cs(frames[t], Len(frames[t]))
  BY DEF C!CLevels, Cs, Held, Cardinality, C!Cardinality

\* One activation more holds one C call more or none.
LEMMA CsNext ==
    ASSUME NEW fs, NEW n \in Nat
    PROVE  /\ Cs(fs, n) \in Nat /\ Cs(fs, 0) = 0
           /\ Cs(fs, n + 1) = Cs(fs, n) + IF fs[n + 1].kind = "lua" THEN 0 ELSE 1
  <1>1. IsFiniteSet(Held(fs, n))
    <2>1. IsFiniteSet(1..n)
      BY FS_Interval
    <2>2. Held(fs, n) \subseteq 1..n
      BY DEF Held
    <2> QED BY <2>1, <2>2, FS_Subset
  <1>2. Cs(fs, n) \in Nat
    BY <1>1, FS_CardinalityType DEF Cs
  <1>3. Held(fs, 0) = {}
    BY DEF Held
  <1>4. Cs(fs, 0) = 0
    BY <1>3, FS_EmptySet DEF Cs
  <1>5. CASE fs[n + 1].kind = "lua"
    <2>1. Held(fs, n + 1) = Held(fs, n)
      BY <1>5 DEF Held
    <2> QED BY <1>2, <1>4, <1>5, <2>1 DEF Cs
  <1>6. CASE fs[n + 1].kind # "lua"
    <2>1. Held(fs, n + 1) = Held(fs, n) \cup {n + 1} /\ n + 1 \notin Held(fs, n)
      BY <1>6 DEF Held
    <2>2. Cs(fs, n + 1) = Cs(fs, n) + 1
      BY <1>1, <2>1, FS_AddElement DEF Cs
    <2> QED BY <1>2, <1>4, <1>6, <2>2
  <1> QED BY <1>5, <1>6

\* Only the activations counted matter.
LEMMA CsSame ==
    ASSUME NEW fs, NEW gs, NEW n \in Nat, \A i \in 1..n : gs[i] = fs[i]
    PROVE  Cs(gs, n) = Cs(fs, n)
  <1>1. Held(gs, n) = Held(fs, n)
    BY DEF Held
  <1> QED BY <1>1 DEF Cs

\* fs are the activations of thread t on the C stack, entered with the count at
\* base, and count is where it stands now: what each of luaD_call and lua_pcall
\* saved is the count before it.
Counted(fs, base, count, t) ==
    /\ fs \in Seq(Frame) /\ fs # <<>> /\ base \in Nat /\ count \in Nat
    /\ fs[1] = IF t = MainThread THEN HostCall ELSE Started
    /\ \A i \in 1..Len(fs) : fs[i].kind # "lua" => fs[i].ccalls = base + Cs(fs, i - 1)
    /\ count = base + Cs(fs, Len(fs)) /\ count < MaxCcalls + Slack

\* A Lua function called by Lua.
LEMMA CountedCall ==
    ASSUME NEW fs, NEW base, NEW count, NEW t, Counted(fs, base, count, t)
    PROVE  Counted(Append(fs, Started), base, count, t)
  <1> DEFINE c == Len(fs)
             gs == Append(fs, Started)
  <1>1. /\ c \in Nat /\ c >= 1 /\ gs \in Seq(Frame) /\ Len(gs) = c + 1 /\ gs[c + 1] = Started
        /\ \A i \in 1..c : gs[i] = fs[i]
    BY DEF Counted, Started, Frame
  <1> HIDE DEF gs
  <1>2. \A i \in 0..c : Cs(gs, i) = Cs(fs, i)
    BY <1>1, CsSame
  <1>3. Cs(gs, c + 1) = Cs(gs, c) /\ Cs(gs, c) = Cs(fs, c)
    <2>1. gs[c + 1].kind = "lua"
      BY <1>1 DEF Started
    <2>2. Cs(gs, c + 1) = Cs(gs, c) + 0 /\ Cs(gs, c) \in Nat
      <3> HIDE DEF c
      <3> QED BY <1>1, <2>1, CsNext
    <2> QED BY <1>1, <1>2, <2>2
  <1>4. \A i \in 1..c + 1 : i = c + 1 \/ (i \in 1..c /\ i - 1 \in 0..c)
    BY <1>1
  <1>5. \A i \in 1..c + 1 : gs[i].kind # "lua" => gs[i].ccalls = base + Cs(gs, i - 1)
    <2> TAKE i \in 1..c + 1
    <2>1. CASE i = c + 1
      BY <1>1, <2>1 DEF Started
    <2>2. CASE i \in 1..c /\ i - 1 \in 0..c
      BY <1>1, <1>2, <2>2 DEF Counted
    <2> QED BY <1>4, <2>1, <2>2
  <1>6. gs # <<>> /\ gs[1] = fs[1]
    BY <1>1
  <1> QED BY <1>1, <1>3, <1>5, <1>6 DEF Counted, gs

\* luaD_call or lua_pcall: the count before it is kept.
LEMMA CountedEnter ==
    ASSUME NEW fs, NEW base, NEW count, NEW t, Counted(fs, base, count, t),
           NEW kind \in {"call", "pcall"}, count + 1 < MaxCcalls + Slack
    PROVE  Counted(Append(fs, [kind |-> kind, ccalls |-> count]), base, count + 1, t)
  <1> DEFINE c == Len(fs)
             e == [kind |-> kind, ccalls |-> count]
             gs == Append(fs, e)
  <1>1. e \in Frame /\ e.kind # "lua" /\ e.ccalls = count
    BY DEF Counted, Frame
  <1> HIDE DEF e
  <1>2. /\ c \in Nat /\ c >= 1 /\ gs \in Seq(Frame) /\ Len(gs) = c + 1 /\ gs[c + 1] = e
        /\ \A i \in 1..c : gs[i] = fs[i]
    BY <1>1 DEF Counted
  <1> HIDE DEF gs
  <1>3. \A i \in 0..c : Cs(gs, i) = Cs(fs, i)
    BY <1>2, CsSame
  <1>4. Cs(gs, c + 1) = Cs(fs, c) + 1 /\ Cs(fs, c) \in Nat
    <2>1. Cs(gs, c + 1) = Cs(gs, c) + 1 /\ Cs(fs, c) \in Nat
      BY <1>1, <1>2, CsNext
    <2>2. Cs(gs, c) = Cs(fs, c)
      BY <1>2, <1>3
    <2> QED BY <2>1, <2>2
  <1>5. \A i \in 1..c + 1 : i = c + 1 \/ (i \in 1..c /\ i - 1 \in 0..c)
    BY <1>2
  <1>6. \A i \in 1..c + 1 : gs[i].kind # "lua" => gs[i].ccalls = base + Cs(gs, i - 1)
    <2> TAKE i \in 1..c + 1
    <2>1. CASE i = c + 1
      <3>1. (c + 1) - 1 = c /\ c \in 0..c
        BY <1>2
      <3> QED BY <1>1, <1>2, <1>3, <2>1, <3>1 DEF Counted
    <2>2. CASE i \in 1..c /\ i - 1 \in 0..c
      BY <1>2, <1>3, <2>2 DEF Counted
    <2> QED BY <1>5, <2>1, <2>2
  <1>7. gs # <<>> /\ gs[1] = fs[1]
    BY <1>2
  <1>8. count + 1 = base + Cs(gs, Len(gs)) /\ count + 1 \in Nat
    BY <1>2, <1>4 DEF Counted
  <1> QED BY <1>2, <1>6, <1>7, <1>8 DEF Counted, gs, e

\* The first n activations are left, with the count at their end.
LEMMA CountedCut ==
    ASSUME NEW fs, NEW base, NEW count, NEW t, Counted(fs, base, count, t),
           NEW n \in 1..Len(fs)
    PROVE  Counted(SubSeq(fs, 1, n), base, base + Cs(fs, n), t) /\ base + Cs(fs, n) <= count
  <1> DEFINE c == Len(fs)
             gs == SubSeq(fs, 1, n)
  <1>1. c \in Nat /\ n \in Nat /\ 1 <= n /\ n <= c /\ fs \in Seq(Frame) /\ base \in Nat /\ count \in Nat
    BY DEF Counted
  <1>2. gs \in Seq(Frame) /\ Len(gs) = n /\ \A i \in 1..n : gs[i] = fs[i]
    <2>1. 1 \in Int /\ n \in Int /\ \A i \in 1..n : fs[i] \in Frame
      BY <1>1
    <2>2. /\ gs \in Seq(Frame) /\ Len(gs) = IF 1 <= n THEN n - 1 + 1 ELSE 0
          /\ \A i \in 1..n - 1 + 1 : gs[i] = fs[1 + i - 1]
      BY <2>1, SubSeqProperties
    <2> HIDE DEF gs
    <2>3. n - 1 + 1 = n /\ \A i \in 1..n : 1 + i - 1 = i
      BY <1>1
    <2> QED BY <1>1, <2>2, <2>3
  <1> HIDE DEF gs
  <1>3. \A i \in 0..n : Cs(gs, i) = Cs(fs, i)
    BY <1>1, <1>2, CsSame
  <1>4. \A i \in Nat : Cs(fs, i) \in Nat /\ Cs(fs, i) <= Cs(fs, i + 1)
    <2> TAKE i \in Nat
    <2>1. Cs(fs, i) \in Nat /\ Cs(fs, i + 1) = Cs(fs, i) + IF fs[i + 1].kind = "lua" THEN 0 ELSE 1
      BY CsNext
    <2> QED BY <2>1
  <1>5. Cs(fs, n) <= Cs(fs, c)
    <2> DEFINE T == {j \in Nat : Cs(fs, n) <= Cs(fs, n + j)}
    <2>0. Cs(fs, n) \in Nat /\ n + 0 = n
      BY <1>1, <1>4
    <2>1. 0 \in T
      BY <2>0
    <2>2. ASSUME NEW j \in T PROVE j + 1 \in T
      <3>1. n + j \in Nat /\ (n + j) + 1 = n + (j + 1) /\ n + (j + 1) \in Nat
        BY <1>1
      <3>2. /\ Cs(fs, n + j) <= Cs(fs, n + (j + 1))
            /\ Cs(fs, n + j) \in Nat /\ Cs(fs, n + (j + 1)) \in Nat
        BY <1>4, <3>1
      <3>3. Cs(fs, n) <= Cs(fs, n + j)
        OBVIOUS
      <3>4. Cs(fs, n) <= Cs(fs, n + (j + 1))
        BY <2>0, <3>2, <3>3
      <3> QED BY <3>4
    <2>3. T = Nat
      BY <2>1, <2>2, NatSetInduction
    <2>4. c - n \in Nat /\ n + (c - n) = c
      BY <1>1
    <2>5. c - n \in T
      BY <2>3, <2>4
    <2>6. Cs(fs, n) <= Cs(fs, n + (c - n))
      BY <2>5
    <2> QED BY <2>4, <2>6
  <1>6. base + Cs(fs, n) <= count /\ base + Cs(fs, n) \in Nat
    <2>1. count = base + Cs(fs, c)
      BY DEF Counted
    <2>2. Cs(fs, n) \in Nat /\ Cs(fs, c) \in Nat
      BY <1>1, <1>4
    <2> HIDE DEF c
    <2> QED BY <1>1, <1>5, <2>1, <2>2
  <1>7. base + Cs(fs, n) < MaxCcalls + Slack
    BY <1>1, <1>6, PartsConstants DEF Counted
  <1>8. \A i \in 1..n : gs[i].kind # "lua" => gs[i].ccalls = base + Cs(gs, i - 1)
    <2> TAKE i \in 1..n
    <2>1. i \in 1..c /\ i - 1 \in 0..n
      BY <1>1
    <2> QED BY <1>2, <1>3, <2>1 DEF Counted
  <1>9. gs # <<>> /\ gs[1] = fs[1] /\ Cs(gs, n) = Cs(fs, n)
    BY <1>1, <1>2, <1>3
  <1> QED BY <1>1, <1>2, <1>6, <1>7, <1>8, <1>9 DEF Counted, gs

-----------------------------------------------------------------------------
(* The invariant.                                                           *)

\* The types; and lua_resume never goes on with activations that are not there.
Kinds ==
    /\ frames \in [Threads -> Seq(Frame)]
    /\ nCcalls \in [Threads -> Nat] /\ baseCcalls \in [Threads -> Nat]
    /\ status \in [Threads -> {"ok", "yield", "error"}] /\ fresh \in [Threads -> BOOLEAN]
    /\ ~wild

\* On the C stack a thread stands once, and each counts on from the one below.
Nested ==
    /\ nest \in Seq(Threads) /\ nest # <<>> /\ nest[1] = MainThread /\ baseCcalls[MainThread] = 0
    /\ \A i, j \in 1..Len(nest) : nest[i] = nest[j] => i = j
    /\ \A i \in 1..Len(nest) : i # 1 => baseCcalls[nest[i]] = nCcalls[nest[i - 1]] + 1

\* All of them run and count their activations.
Running ==
    \A i \in 1..Len(nest) :
        /\ status[nest[i]] = "ok"
        /\ Counted(frames[nest[i]], baseCcalls[nest[i]], nCcalls[nest[i]], nest[i])

\* A coroutine that has yielded has activations, and no C call among them.
Waits(fs) == fs # <<>> /\ fs[1] = Started /\ Cs(fs, Len(fs)) = 0
Waiting == \A co \in Co : status[co] = "yield" => Waits(frames[co])

IInv == Kinds /\ Nested /\ Running /\ Waiting

\* The running thread.
LEMMA Top ==
    ASSUME IInv
    PROVE  /\ Len(nest) \in Nat /\ Len(nest) >= 1 /\ C!L = nest[Len(nest)] /\ C!L \in Threads
           /\ \A i \in 1..Len(nest) : nest[i] \in Threads /\ (nest[i] = C!L <=> i = Len(nest))
           /\ Counted(frames[C!L], baseCcalls[C!L], nCcalls[C!L], C!L) /\ status[C!L] = "ok"
           /\ C!L = MainThread => Len(nest) = 1
           /\ C!L # MainThread => C!L \in Co /\ Len(nest) > 1 /\ nCcalls[C!L] >= 1
  <1> DEFINE c == Len(nest)
  <1>1. nest \in Seq(Threads) /\ c \in Nat /\ c >= 1 /\ c \in 1..c /\ 1 \in 1..c
    BY DEF IInv, Nested
  <1>2. C!L = nest[c]
    BY DEF C!L
  <1>3. \A i \in 1..c : nest[i] \in Threads
    BY <1>1
  <1>4. Counted(frames[C!L], baseCcalls[C!L], nCcalls[C!L], C!L) /\ status[C!L] = "ok"
    BY <1>1, <1>2 DEF IInv, Running
  <1>5. \A i \in 1..c : nest[i] = C!L <=> i = c
    BY <1>1, <1>2 DEF IInv, Nested
  <1>6. C!L = MainThread => c = 1
    BY <1>1, <1>5 DEF IInv, Nested
  <1>7. ASSUME C!L # MainThread PROVE C!L \in Co /\ c > 1 /\ nCcalls[C!L] >= 1
    <2>1. C!L \in Co
      BY <1>1, <1>2, <1>3, <1>7 DEF Threads
    <2>2. c # 1
      BY <1>2, <1>7 DEF IInv, Nested
    <2>3. c > 1 /\ c - 1 \in 1..c
      <3> HIDE DEF c
      <3> QED BY <1>1, <2>2
    <2>5. nCcalls[nest[c - 1]] \in Nat
      BY <1>3, <2>3 DEF IInv, Kinds
    <2>6. baseCcalls[C!L] >= 1 /\ baseCcalls[C!L] \in Nat
      <3>1. baseCcalls[nest[c]] = nCcalls[nest[c - 1]] + 1
        BY <1>1, <2>2 DEF IInv, Nested
      <3> QED BY <1>2, <2>5, <3>1
    <2>7. Cs(frames[C!L], Len(frames[C!L])) \in Nat
      <3>1. Len(frames[C!L]) \in Nat
        BY <1>4 DEF Counted
      <3> QED BY <3>1, CsNext
    <2>8. nCcalls[C!L] >= 1
      BY <1>4, <2>6, <2>7 DEF Counted
    <2> QED BY <2>1, <2>3, <2>8
  <1> QED BY <1>1, <1>2, <1>3, <1>4, <1>5, <1>6, <1>7

\* Only thread t changes.
OnlyOf(t) ==
    \A x \in Threads : x # t =>
        /\ frames'[x] = frames[x] /\ status'[x] = status[x]
        /\ nCcalls'[x] = nCcalls[x] /\ baseCcalls'[x] = baseCcalls[x]

\* A coroutine that waits, if another thread is the one that changes.
LEMMA WaitsOn ==
    ASSUME IInv, NEW t, OnlyOf(t), t \in Co /\ status'[t] = "yield" => Waits(frames'[t])
    PROVE  Waiting'
  <1> SUFFICES ASSUME NEW co \in Co, status'[co] = "yield" PROVE Waits(frames'[co])
    BY DEF Waiting, Waits, Cs, Held
  <1>1. CASE co = t
    BY <1>1
  <1>2. CASE co # t
    <2>1. status[co] = "yield" /\ frames'[co] = frames[co]
      BY <1>2 DEF OnlyOf, Threads
    <2>2. Waits(frames[co])
      BY <2>1 DEF IInv, Waiting
    <2> QED BY <2>1, <2>2
  <1> QED BY <1>1, <1>2

\* The running thread goes on: it calls, returns, or catches an error.
LEMMA TopChanges ==
    ASSUME IInv, NEW fs, NEW n, Counted(fs, baseCcalls[C!L], n, C!L),
           frames' = [frames EXCEPT ![C!L] = fs], nCcalls' = [nCcalls EXCEPT ![C!L] = n],
           UNCHANGED <<status, fresh, baseCcalls, nest, wild>>
    PROVE  IInv'
  <1> DEFINE c == Len(nest)
  <1>1. PICK t : t = C!L
    OBVIOUS
  <1>2. /\ c \in Nat /\ t \in Threads /\ status[t] = "ok"
        /\ \A i \in 1..c : nest[i] \in Threads /\ (nest[i] = t <=> i = c)
    BY <1>1, Top
  <1>3. /\ frames'[t] = fs /\ nCcalls'[t] = n /\ fs \in Seq(Frame) /\ n \in Nat
        /\ Counted(fs, baseCcalls[t], n, t)
    BY <1>1, <1>2 DEF IInv, Kinds, Counted
  <1>4. OnlyOf(t)
    BY <1>1 DEF OnlyOf, IInv, Kinds
  <1>5. Kinds'
    BY <1>1, <1>2, <1>3 DEF IInv, Kinds
  <1>6. Nested'
    <2>1. ASSUME NEW i \in 1..c, i # 1 PROVE baseCcalls'[nest[i]] = nCcalls'[nest[i - 1]] + 1
      <3>1. i - 1 \in 1..c /\ i - 1 # c
        BY <1>2, <2>1
      <3>2. nCcalls'[nest[i - 1]] = nCcalls[nest[i - 1]]
        BY <1>2, <1>4, <3>1 DEF OnlyOf
      <3> QED BY <2>1, <3>2 DEF IInv, Nested
    <2> QED BY <2>1 DEF IInv, Nested
  <1>7. Running'
    <2> SUFFICES ASSUME NEW i \in 1..c
                 PROVE  /\ status'[nest'[i]] = "ok"
                        /\ Counted(frames'[nest'[i]], baseCcalls'[nest'[i]], nCcalls'[nest'[i]],
                                   nest'[i])
      BY Len(nest') = c DEF Running, Counted, Cs, Held
    <2>1. CASE i = c
      BY <1>2, <1>3, <2>1
    <2>2. CASE i # c
      BY <1>2, <1>4, <2>2 DEF OnlyOf, IInv, Running
    <2> QED BY <2>1, <2>2
  <1>8. Waiting'
    BY <1>2, <1>4, WaitsOn
  <1> QED BY <1>5, <1>6, <1>7, <1>8 DEF IInv

\* A thread that is not on the C stack changes.
LEMMA AsideChanges ==
    ASSUME IInv, NEW co \in Co, \A i \in 1..Len(nest) : nest[i] # co, OnlyOf(co), Kinds',
           status'[co] = "yield" => Waits(frames'[co]), nest' = nest
    PROVE  IInv'
  <1> DEFINE c == Len(nest)
  <1>1. c \in Nat /\ \A i \in 1..c : nest[i] \in Threads /\ nest[i] # co
    BY Top
  <1>2. Nested'
    <2>1. ASSUME NEW i \in 1..c, i # 1 PROVE baseCcalls'[nest[i]] = nCcalls'[nest[i - 1]] + 1
      <3>1. i - 1 \in 1..c
        BY <1>1, <2>1
      <3>2. /\ nCcalls'[nest[i - 1]] = nCcalls[nest[i - 1]]
            /\ baseCcalls'[nest[i]] = baseCcalls[nest[i]]
        BY <1>1, <3>1 DEF OnlyOf
      <3> QED BY <2>1, <3>2 DEF IInv, Nested
    <2>2. baseCcalls'[MainThread] = 0
      BY PartsConstants DEF OnlyOf, Threads, IInv, Nested
    <2> QED BY <2>1, <2>2 DEF IInv, Nested
  <1>3. Running'
    <2> SUFFICES ASSUME NEW i \in 1..c
                 PROVE  /\ status'[nest'[i]] = "ok"
                        /\ Counted(frames'[nest'[i]], baseCcalls'[nest'[i]], nCcalls'[nest'[i]],
                                   nest'[i])
      BY Len(nest') = c DEF Running, Counted, Cs, Held
    <2> QED BY <1>1 DEF OnlyOf, IInv, Running
  <1>4. Waiting'
    BY WaitsOn
  <1> QED BY <1>2, <1>3, <1>4 DEF IInv

\* The running coroutine leaves the C stack: it finishes, fails, or yields.
LEMMA TopLeaves ==
    ASSUME IInv, C!L # MainThread, nest' = SubSeq(nest, 1, Len(nest) - 1), OnlyOf(C!L), Kinds',
           status'[C!L] = "yield" => Waits(frames'[C!L])
    PROVE  IInv'
  <1> DEFINE c == Len(nest)
  <1>1. PICK t : t = C!L
    OBVIOUS
  <1>2. /\ c \in Nat /\ c > 1 /\ t \in Co
        /\ \A i \in 1..c : nest[i] \in Threads /\ (nest[i] = t <=> i = c)
    BY <1>1, Top
  <1>3. nest' \in Seq(Threads) /\ Len(nest') = c - 1 /\ \A i \in 1..c - 1 : nest'[i] = nest[i]
    <2>1. 1 \in Int /\ c - 1 \in Int /\ \A i \in 1..c - 1 : nest[i] \in Threads
      BY <1>2
    <2>2. /\ nest' \in Seq(Threads) /\ Len(nest') = IF 1 <= c - 1 THEN (c - 1) - 1 + 1 ELSE 0
          /\ \A i \in 1..(c - 1) - 1 + 1 : nest'[i] = nest[1 + i - 1]
      BY <2>1, SubSeqProperties
    <2> HIDE DEF c
    <2> QED BY <1>2, <2>2
  <1>4. \A i \in 1..c - 1 : i \in 1..c /\ nest'[i] = nest[i] /\ nest[i] # t /\ nest[i] \in Threads
    BY <1>2, <1>3
  <1>5. OnlyOf(t)
    BY <1>1
  <1>6. Nested'
    <2>1. nest' # <<>> /\ nest'[1] = MainThread
      <3>1. 1 \in 1..c - 1 /\ c - 1 # 0
        <4> HIDE DEF c
        <4> QED BY <1>2
      <3>2. nest'[1] = nest[1] /\ Len(nest') # 0
        BY <1>3, <3>1
      <3> QED BY <3>2 DEF IInv, Nested
    <2>2. ASSUME NEW i \in 1..c - 1, i # 1 PROVE baseCcalls'[nest'[i]] = nCcalls'[nest'[i - 1]] + 1
      <3>1. i - 1 \in 1..c - 1
        BY <1>2, <2>2
      <3>2. /\ nCcalls'[nest[i - 1]] = nCcalls[nest[i - 1]]
            /\ baseCcalls'[nest[i]] = baseCcalls[nest[i]]
        BY <1>4, <1>5, <3>1 DEF OnlyOf
      <3> QED BY <1>4, <2>2, <3>1, <3>2 DEF IInv, Nested
    <2>3. baseCcalls'[MainThread] = 0
      BY <1>2, <1>5, PartsConstants DEF OnlyOf, Threads, IInv, Nested
    <2>4. \A i, j \in 1..c - 1 : nest'[i] = nest'[j] => i = j
      BY <1>4 DEF IInv, Nested
    <2> QED BY <1>3, <2>1, <2>2, <2>3, <2>4 DEF Nested
  <1>7. Running'
    <2> SUFFICES ASSUME NEW i \in 1..c - 1
                 PROVE  /\ status'[nest'[i]] = "ok"
                        /\ Counted(frames'[nest'[i]], baseCcalls'[nest'[i]], nCcalls'[nest'[i]],
                                   nest'[i])
      BY <1>3 DEF Running, Counted, Cs, Held
    <2>1. i \in 1..c /\ nest'[i] = nest[i] /\ nest[i] # t /\ nest[i] \in Threads
      BY <1>4
    <2>2. /\ status'[nest[i]] = status[nest[i]] /\ frames'[nest[i]] = frames[nest[i]]
          /\ baseCcalls'[nest[i]] = baseCcalls[nest[i]] /\ nCcalls'[nest[i]] = nCcalls[nest[i]]
      BY <1>5, <2>1 DEF OnlyOf
    <2>3. /\ status[nest[i]] = "ok"
          /\ Counted(frames[nest[i]], baseCcalls[nest[i]], nCcalls[nest[i]], nest[i])
      BY <2>1 DEF IInv, Running
    <2> QED BY <2>1, <2>2, <2>3 DEF Counted
  <1>8. Waiting'
    BY <1>1, <1>5, WaitsOn
  <1> QED BY <1>6, <1>7, <1>8 DEF IInv

\* A coroutine comes on the C stack.
LEMMA TopEnters ==
    ASSUME IInv, NEW co \in Co, \A i \in 1..Len(nest) : nest[i] # co, OnlyOf(co), Kinds',
           nest' = Append(nest, co), status'[co] = "ok",
           baseCcalls'[co] = nCcalls[C!L] + 1,
           Counted(frames'[co], baseCcalls'[co], nCcalls'[co], co)
    PROVE  IInv'
  <1> DEFINE c == Len(nest)
  <1>1. /\ c \in Nat /\ c >= 1 /\ C!L = nest[c] /\ c \in 1..c
        /\ \A i \in 1..c : nest[i] \in Threads /\ nest[i] # co
    BY Top
  <1>2. /\ nest' \in Seq(Threads) /\ Len(nest') = c + 1 /\ nest'[c + 1] = co
        /\ \A i \in 1..c : nest'[i] = nest[i]
    BY DEF IInv, Nested, Threads
  <1>3. \A i \in 1..c + 1 : i = c + 1 \/ i \in 1..c
    BY <1>1
  <1>4. Nested'
    <2>1. nest' # <<>> /\ nest'[1] = MainThread
      BY <1>1, <1>2 DEF IInv, Nested
    <2>2. ASSUME NEW i \in 1..c + 1, i # 1 PROVE baseCcalls'[nest'[i]] = nCcalls'[nest'[i - 1]] + 1
      <3>1. i - 1 \in 1..c /\ (i = c + 1 => i - 1 = c)
        BY <1>1, <2>2
      <3>2. nest'[i - 1] = nest[i - 1] /\ nCcalls'[nest[i - 1]] = nCcalls[nest[i - 1]]
        BY <1>1, <1>2, <3>1 DEF OnlyOf
      <3>3. CASE i = c + 1
        BY <1>1, <1>2, <3>1, <3>2, <3>3
      <3>4. CASE i \in 1..c
        <4>1. baseCcalls'[nest[i]] = baseCcalls[nest[i]] /\ nest'[i] = nest[i]
          BY <1>1, <1>2, <3>4 DEF OnlyOf
        <4> QED BY <2>2, <3>2, <3>4, <4>1 DEF IInv, Nested
      <3> QED BY <1>3, <3>3, <3>4
    <2>3. baseCcalls'[MainThread] = 0
      BY PartsConstants DEF OnlyOf, Threads, IInv, Nested
    <2>4. \A i, j \in 1..c + 1 : nest'[i] = nest'[j] => i = j
      <3>1. \A i, j \in 1..c : nest[i] = nest[j] => i = j
        BY DEF IInv, Nested
      <3> HIDE DEF c
      <3> QED BY <1>1, <1>2, <1>3, <3>1
    <2> QED BY <1>2, <2>1, <2>2, <2>3, <2>4 DEF Nested
  <1>5. Running'
    <2> SUFFICES ASSUME NEW i \in 1..c + 1
                 PROVE  /\ status'[nest'[i]] = "ok"
                        /\ Counted(frames'[nest'[i]], baseCcalls'[nest'[i]], nCcalls'[nest'[i]],
                                   nest'[i])
      BY <1>2 DEF Running, Counted, Cs, Held
    <2>1. CASE i = c + 1
      BY <1>2, <2>1
    <2>2. CASE i \in 1..c
      BY <1>1, <1>2, <2>2 DEF OnlyOf, IInv, Running
    <2> QED BY <1>3, <2>1, <2>2
  <1>6. Waiting'
    BY WaitsOn
  <1> QED BY <1>4, <1>5, <1>6 DEF IInv

\* An error keeps the invariant: the protected call that catches it kept the count
\* its activations had, and where none catches it the coroutine leaves the C stack.
LEMMA RaiseKeeps ==
    ASSUME IInv, C!Raise(status[C!L]), UNCHANGED <<fresh, baseCcalls, wild>>
    PROVE  IInv'
  <1>1. PICK t : t = C!L
    OBVIOUS
  <1>2. PICK fs : fs = frames[t]
    OBVIOUS
  <1>3. /\ t \in Threads /\ status[t] = "ok" /\ Counted(fs, baseCcalls[t], nCcalls[t], t)
        /\ t # MainThread => t \in Co /\ nCcalls[t] >= 1
    BY <1>1, <1>2, Top
  <1>4. Len(fs) \in Nat /\ Len(fs) >= 1 /\ fs \in Seq(Frame)
    BY <1>3 DEF Counted
  <1>5. /\ frames \in [Threads -> Seq(Frame)] /\ nCcalls \in [Threads -> Nat]
        /\ status \in [Threads -> {"ok", "yield", "error"}]
    BY DEF IInv, Kinds
  <1>6. C!CaughtAt(fs) \subseteq 1..Len(fs) /\ \A i \in C!CaughtAt(fs) : fs[i].kind = "pcall"
    BY DEF C!CaughtAt
  <1>7. CASE C!CaughtAt(fs) # {}
    <2>1. PICK at : at = CHOOSE i \in C!CaughtAt(fs) : \A j \in C!CaughtAt(fs) : j <= i
      OBVIOUS
    <2>2. at \in 1..Len(fs) /\ fs[at].kind = "pcall"
      <3>1. \E i \in C!CaughtAt(fs) : \A j \in C!CaughtAt(fs) : j <= i
        BY <1>4, <1>6, <1>7, Greatest
      <3>2. at \in C!CaughtAt(fs)
        BY <2>1, <3>1
      <3> QED BY <1>6, <3>2
    <2> DEFINE gs == IF t = MainThread /\ at = 1 THEN <<HostCall>> ELSE SubSeq(fs, 1, at - 1)
               count == IF t = MainThread /\ at = 1 THEN 1 ELSE fs[at].ccalls
    <2>3. /\ status' = [status EXCEPT ![t] = status[t]] /\ nest' = nest
          /\ frames' = [frames EXCEPT ![t] = gs] /\ nCcalls' = [nCcalls EXCEPT ![t] = count]
      BY <1>1, <1>2, <1>7, <2>1 DEF C!Raise, C!HostCall, HostCall
    <2>4. status' = status
      BY <1>3, <1>5, <2>3
    <2>5. Counted(gs, baseCcalls[t], count, t)
      <3>1. CASE t = MainThread /\ at = 1
        <4>1. baseCcalls[t] = 0 /\ gs = <<HostCall>> /\ count = 1
          BY <3>1 DEF IInv, Nested
        <4> HIDE DEF gs, count
        <4>2. gs \in Seq(Frame) /\ Len(gs) = 1 /\ gs[1] = HostCall /\ gs # <<>>
          BY <4>1 DEF HostCall, Frame
        <4>3. Cs(gs, 0) = 0 /\ Cs(gs, 0 + 1) = Cs(gs, 0) + 1
          BY <4>2, CsNext, 0 \in Nat DEF HostCall
        <4>4. Cs(gs, 0) = 0 /\ Cs(gs, 1) = 1
          BY <4>3
        <4>5. 1 < MaxCcalls + Slack
          BY PartsConstants
        <4>6. \A i \in 1..1 : i = 1 /\ i - 1 = 0
          OBVIOUS
        <4> QED BY <3>1, <4>1, <4>2, <4>4, <4>5, <4>6 DEF Counted, HostCall
      <3>2. CASE ~(t = MainThread /\ at = 1)
        <4>1. at # 1
          BY <1>3, <2>2, <3>2 DEF Counted, Started
        <4>2. at - 1 \in 1..Len(fs)
          BY <1>4, <2>2, <4>1
        <4>3. fs[at].ccalls = baseCcalls[t] + Cs(fs, at - 1)
          BY <1>3, <2>2 DEF Counted
        <4>4. Counted(SubSeq(fs, 1, at - 1), baseCcalls[t], baseCcalls[t] + Cs(fs, at - 1), t)
          BY <1>3, <4>2, CountedCut
        <4> QED BY <3>2, <4>3, <4>4
      <3> QED BY <3>1, <3>2
    <2> HIDE DEF gs, count
    <2> QED BY <1>1, <2>3, <2>4, <2>5, TopChanges
  <1>8. CASE C!CaughtAt(fs) = {}
    <2>1. t # MainThread
      BY <1>3, <1>4, <1>8 DEF Counted, HostCall, C!CaughtAt
    <2>2. /\ status' = [status EXCEPT ![t] = "error"] /\ frames' = frames
          /\ nCcalls' = [nCcalls EXCEPT ![t] = nCcalls[t] - 1]
          /\ nest' = SubSeq(nest, 1, Len(nest) - 1)
      BY <1>1, <1>2, <1>8 DEF C!Raise
    <2>3. OnlyOf(t) /\ status'[t] = "error"
      BY <1>3, <1>5, <2>2 DEF OnlyOf
    <2>4. nCcalls[t] - 1 \in Nat
      BY <1>3, <1>5, <2>1
    <2>5. Kinds'
      BY <1>3, <2>2, <2>4 DEF IInv, Kinds
    <2> QED BY <1>1, <2>1, <2>2, <2>3, <2>5, TopLeaves
  <1> QED BY <1>7, <1>8

-----------------------------------------------------------------------------
(* The invariant holds at the start and is kept by every step.              *)

\* It holds at first.
LEMMA InitInv == C!Init => IInv
  <1> SUFFICES ASSUME C!Init PROVE IInv
    OBVIOUS
  <1>1. /\ Kinds /\ nest = <<MainThread>> /\ frames[MainThread] = <<HostCall>>
        /\ nCcalls[MainThread] = 1 /\ baseCcalls[MainThread] = 0
        /\ \A t \in Threads : status[t] = "ok"
    <2>1. MainThread \in Threads /\ HostCall \in Frame /\ C!Threads = Threads /\ C!HostCall = HostCall
      BY DEF C!Threads, C!HostCall, HostCall, Threads, Frame
    <2>2. /\ status = [t \in Threads |-> "ok"] /\ nest = <<MainThread>>
          /\ frames = [t \in Threads |-> IF t = MainThread THEN <<HostCall>> ELSE <<>>]
          /\ fresh = [t \in Threads |-> t # MainThread] /\ ~wild
          /\ nCcalls = [t \in Threads |-> IF t = MainThread THEN 1 ELSE 0]
          /\ baseCcalls = [t \in Threads |-> 0]
      BY <2>1 DEF C!Init
    <2>3. /\ frames \in [Threads -> Seq(Frame)] /\ nCcalls \in [Threads -> Nat]
          /\ baseCcalls \in [Threads -> Nat] /\ status \in [Threads -> {"ok", "yield", "error"}]
      BY <2>1, <2>2
    <2>4. fresh \in [Threads -> BOOLEAN]
      BY <2>2
    <2> QED BY <2>1, <2>2, <2>3, <2>4 DEF Kinds
  <1>2. Len(nest) = 1 /\ nest[1] = MainThread /\ \A i \in 1..1 : i = 1
    BY <1>1
  <1>3. Nested
    BY <1>1, <1>2 DEF Nested, Threads
  <1>4. Counted(<<HostCall>>, 0, 1, MainThread)
    <2>1. PICK gs : gs = <<HostCall>>
      OBVIOUS
    <2>2. gs \in Seq(Frame) /\ Len(gs) = 1 /\ gs[1] = HostCall /\ gs # <<>>
      BY <2>1 DEF HostCall, Frame
    <2>3. Cs(gs, 0) = 0 /\ Cs(gs, 0 + 1) = Cs(gs, 0) + 1
      BY <2>2, CsNext, 0 \in Nat DEF HostCall
    <2>4. Cs(gs, 0) = 0 /\ Cs(gs, 1) = 1
      BY <2>3
    <2>5. 1 < MaxCcalls + Slack
      BY PartsConstants
    <2>6. \A i \in 1..1 : i = 1 /\ i - 1 = 0
      OBVIOUS
    <2>7. Counted(gs, 0, 1, MainThread)
      BY <2>2, <2>4, <2>5, <2>6 DEF Counted, HostCall
    <2> QED BY <2>1, <2>7
  <1>5. Running
    BY <1>1, <1>2, <1>4 DEF Running, Threads
  <1>6. Waiting
    BY <1>1 DEF Waiting, Threads
  <1> QED BY <1>1, <1>3, <1>5, <1>6 DEF IInv

\* A protected call among the activations counts.
LEMMA HeldCounts ==
    ASSUME NEW fs, Len(fs) \in Nat
    PROVE  /\ Cs(fs, Len(fs)) \in Nat
           /\ Cs(fs, Len(fs)) = 0 <=> \A i \in 1..Len(fs) : fs[i].kind = "lua"
  <1>1. IsFiniteSet(1..Len(fs)) /\ Held(fs, Len(fs)) \subseteq 1..Len(fs)
    BY FS_Interval DEF Held
  <1>2. IsFiniteSet(Held(fs, Len(fs)))
    BY <1>1, FS_Subset
  <1>3. Cs(fs, Len(fs)) \in Nat /\ (Cs(fs, Len(fs)) = 0 <=> Held(fs, Len(fs)) = {})
    BY <1>2, FS_CardinalityType, FS_EmptySet DEF Cs
  <1> QED BY <1>3 DEF Held

\* A coroutine that costatus calls suspended is not on the C stack: it has yielded,
\* or was never started.
LEMMA SuspendedIsAside ==
    ASSUME IInv, NEW co \in Co, C!Costatus(co) = "suspended"
    PROVE  /\ \A i \in 1..Len(nest) : nest[i] # co
           /\ status[co] = "yield" \/ (status[co] = "ok" /\ frames[co] = <<>> /\ fresh[co])
  <1>1. C!L # co
    BY DEF C!Costatus
  <1>2. status[co] \in {"ok", "yield", "error"} /\ co \in Threads
    BY DEF IInv, Kinds, Threads
  <1>3. status[co] = "yield" \/ (status[co] = "ok" /\ frames[co] = <<>> /\ fresh[co])
    BY <1>1, <1>2 DEF C!Costatus
  <1>4. ASSUME NEW i \in 1..Len(nest), nest[i] = co PROVE FALSE
    BY <1>3, <1>4 DEF IInv, Running, Counted
  <1> QED BY <1>3, <1>4

\* Lua calls Lua.
LEMMA CallKeeps == ASSUME IInv, C!Call PROVE IInv'
  <1>1. Counted(frames[C!L], baseCcalls[C!L], nCcalls[C!L], C!L)
    BY Top
  <1>2. Counted(Append(frames[C!L], Started), baseCcalls[C!L], nCcalls[C!L], C!L)
    BY <1>1, CountedCall
  <1>3. /\ frames' = [frames EXCEPT ![C!L] = Append(frames[C!L], Started)]
        /\ UNCHANGED <<status, fresh, baseCcalls, nest, wild, nCcalls>>
    BY DEF C!Call, Started
  <1>4. nCcalls' = [nCcalls EXCEPT ![C!L] = nCcalls[C!L]]
    BY <1>3, Top DEF IInv, Kinds
  <1> QED BY <1>2, <1>3, <1>4, TopChanges

\* luaD_call or lua_pcall from C.
LEMMA CallFromCKeeps == ASSUME IInv, NEW kind \in {"call", "pcall"}, C!CallFromC(kind) PROVE IInv'
  <1> DEFINE n == nCcalls[C!L] + 1
             e == [kind |-> kind, ccalls |-> nCcalls[C!L]]
  <1>1. UNCHANGED <<fresh, baseCcalls, wild>>
    BY DEF C!CallFromC
  <1>2. CASE n = MaxCcalls \/ n >= MaxCcalls + Slack
    <2>1. C!Raise(status[C!L])
      BY <1>2 DEF C!CallFromC
    <2> QED BY <1>1, <2>1, RaiseKeeps
  <1>3. CASE ~(n = MaxCcalls \/ n >= MaxCcalls + Slack)
    <2>1. /\ frames' = [frames EXCEPT ![C!L] = Append(frames[C!L], e)]
          /\ nCcalls' = [nCcalls EXCEPT ![C!L] = n] /\ UNCHANGED <<status, nest>>
      BY <1>3 DEF C!CallFromC
    <2>2. Counted(frames[C!L], baseCcalls[C!L], nCcalls[C!L], C!L)
      BY Top
    <2>3. nCcalls[C!L] \in Nat
      BY <2>2 DEF Counted
    <2>4. nCcalls[C!L] + 1 < MaxCcalls + Slack
      BY <1>3, <2>3, PartsConstants
    <2>5. Counted(Append(frames[C!L], e), baseCcalls[C!L], n, C!L)
      BY <2>2, <2>4, CountedEnter
    <2> HIDE DEF n, e
    <2> QED BY <1>1, <2>1, <2>5, TopChanges
  <1> QED BY <1>2, <1>3

\* An activation returns, and gives back the C call it holds.
LEMMA ReturnKeeps == ASSUME IInv, C!Return PROVE IInv'
  <1>1. PICK fs : fs = frames[C!L]
    OBVIOUS
  <1>2. PICK c : c = Len(fs)
    OBVIOUS
  <1>3. Counted(fs, baseCcalls[C!L], nCcalls[C!L], C!L)
    BY <1>1, Top
  <1>4. c \in Nat /\ c > 1 /\ baseCcalls[C!L] \in Nat /\ nCcalls[C!L] \in Nat
    BY <1>1, <1>2, <1>3 DEF Counted, C!Return
  <1>5. c - 1 \in 1..Len(fs) /\ c - 1 \in Nat /\ (c - 1) + 1 = c
    BY <1>2, <1>4
  <1>6. Cs(fs, c - 1) \in Nat /\ Cs(fs, c) = Cs(fs, c - 1) + IF fs[c].kind = "lua" THEN 0 ELSE 1
    <2>1. Cs(fs, (c - 1) + 1) = Cs(fs, c - 1) + IF fs[(c - 1) + 1].kind = "lua" THEN 0 ELSE 1
      BY <1>5, CsNext
    <2>2. Cs(fs, c - 1) \in Nat
      BY <1>5, CsNext
    <2> QED BY <1>5, <2>1, <2>2
  <1>7. nCcalls[C!L] = baseCcalls[C!L] + Cs(fs, c)
    BY <1>2, <1>3 DEF Counted
  <1>8. nCcalls[C!L] - (IF fs[c].kind = "lua" THEN 0 ELSE 1) = baseCcalls[C!L] + Cs(fs, c - 1)
    BY <1>4, <1>6, <1>7
  <1>9. /\ frames' = [frames EXCEPT ![C!L] = SubSeq(fs, 1, c - 1)]
        /\ nCcalls' = [nCcalls EXCEPT ![C!L] = baseCcalls[C!L] + Cs(fs, c - 1)]
        /\ UNCHANGED <<status, fresh, baseCcalls, nest, wild>>
    BY <1>1, <1>2, <1>8 DEF C!Return
  <1>10. Counted(SubSeq(fs, 1, c - 1), baseCcalls[C!L], baseCcalls[C!L] + Cs(fs, c - 1), C!L)
    BY <1>3, <1>5, CountedCut
  <1> QED BY <1>9, <1>10, TopChanges

\* The first function of a coroutine returns.
LEMMA FinishKeeps == ASSUME IInv, C!Finish PROVE IInv'
  <1>1. PICK t : t = C!L
    OBVIOUS
  <1>2. t # MainThread /\ t \in Co /\ t \in Threads /\ status[t] = "ok" /\ nCcalls[t] >= 1
    BY <1>1, Top DEF C!Finish, Threads
  <1>3. /\ frames' = [frames EXCEPT ![t] = <<>>]
        /\ nCcalls' = [nCcalls EXCEPT ![t] = nCcalls[t] - 1]
        /\ nest' = SubSeq(nest, 1, Len(nest) - 1)
        /\ UNCHANGED <<status, fresh, baseCcalls, wild>>
    BY <1>1 DEF C!Finish
  <1>4. OnlyOf(t) /\ status'[t] # "yield"
    BY <1>2, <1>3 DEF OnlyOf, IInv, Kinds
  <1>5. nCcalls[t] - 1 \in Nat
    BY <1>2 DEF IInv, Kinds
  <1>6. <<>> \in Seq(Frame)
    OBVIOUS
  <1>7. Kinds'
    BY <1>2, <1>3, <1>5, <1>6 DEF IInv, Kinds
  <1> QED BY <1>1, <1>2, <1>3, <1>4, <1>7, TopLeaves

\* A yield leaves the coroutine without a C call.
LEMMA YieldKeeps == ASSUME IInv, C!Yield, ~BoundaryYields PROVE IInv'
  <1>1. PICK t : t = C!L
    OBVIOUS
  <1>2. /\ t \in Threads /\ (t # MainThread => t \in Co /\ nCcalls[t] >= 1)
        /\ Counted(frames[t], baseCcalls[t], nCcalls[t], t)
    BY <1>1, Top
  <1>3. /\ ~(nCcalls[t] > baseCcalls[t])
        /\ status' = [status EXCEPT ![t] = "yield"]
        /\ nCcalls' = [nCcalls EXCEPT ![t] = nCcalls[t] - 1]
        /\ nest' = SubSeq(nest, 1, Len(nest) - 1)
        /\ UNCHANGED <<frames, fresh, baseCcalls, wild>>
    BY <1>1 DEF C!Yield
  <1>4. PICK fs : fs = frames[t]
    OBVIOUS
  <1>5. Len(fs) \in Nat /\ Len(fs) >= 1
    BY <1>2, <1>4 DEF Counted
  <1>6. Cs(fs, Len(fs)) = 0
    <2>1. Cs(fs, Len(fs)) \in Nat
      BY <1>5, HeldCounts
    <2>2. baseCcalls[t] \in Nat /\ nCcalls[t] = baseCcalls[t] + Cs(fs, Len(fs))
      BY <1>2, <1>4 DEF Counted
    <2> QED BY <1>3, <2>1, <2>2
  <1>7. t # MainThread
    <2>1. fs[1].kind = "lua"
      BY <1>5, <1>6, HeldCounts
    <2> QED BY <1>2, <1>4, <2>1 DEF Counted, HostCall
  <1>8. Waits(frames'[t])
    BY <1>2, <1>3, <1>4, <1>6, <1>7 DEF Counted, Waits
  <1>9. OnlyOf(t)
    BY <1>2, <1>3 DEF OnlyOf, IInv, Kinds
  <1>10. nCcalls[t] - 1 \in Nat
    BY <1>2, <1>7 DEF IInv, Kinds
  <1>11. Kinds'
    BY <1>2, <1>3, <1>10 DEF IInv, Kinds
  <1> QED BY <1>1, <1>3, <1>7, <1>8, <1>9, <1>11, TopLeaves

\* lua_resume counts on from the thread that resumes.
LEMMA ResumeKeeps == ASSUME IInv, NEW co \in Co, C!Resume(co) PROVE IInv'
  <1>1. PICK n : n = nCcalls[C!L]
    OBVIOUS
  <1>2. n \in Nat /\ n < MaxCcalls /\ C!Costatus(co) = "suspended"
    BY <1>1, Top DEF C!Resume, C!Level, Counted
  <1>3. n + 1 < MaxCcalls + Slack /\ n + 1 \in Nat
    BY <1>2, PartsConstants
  <1>4. /\ \A i \in 1..Len(nest) : nest[i] # co
        /\ status[co] = "yield" \/ (status[co] = "ok" /\ frames[co] = <<>> /\ fresh[co])
    BY <1>2, SuspendedIsAside
  <1>5. co \in Threads
    BY DEF Threads
  <1>6. /\ nest' = Append(nest, co)
        /\ nCcalls' = [nCcalls EXCEPT ![co] = n + 1]
        /\ baseCcalls' = [baseCcalls EXCEPT ![co] = n + 1]
        /\ status' = [status EXCEPT ![co] = "ok"]
        /\ fresh' = [fresh EXCEPT ![co] = FALSE]
    BY <1>1 DEF C!Resume, C!Level
  <1>7. PICK fs : /\ frames' = [frames EXCEPT ![co] = fs]
                  /\ fs \in Seq(Frame) /\ fs # <<>> /\ fs[1] = Started /\ Cs(fs, Len(fs)) = 0 /\ ~wild'
    <2>1. CASE status[co] = "ok"
      <3>1. frames' = [frames EXCEPT ![co] = <<Started>>] /\ ~wild'
        BY <2>1 DEF C!Resume, Started, IInv, Kinds
      <3>2. PICK fs : fs = <<Started>>
        OBVIOUS
      <3>3. fs \in Seq(Frame) /\ Len(fs) = 1 /\ fs # <<>> /\ fs[1] = Started
        BY <3>2 DEF Started, Frame
      <3>4. Cs(fs, Len(fs)) = 0
        BY <3>3, HeldCounts DEF Started
      <3>5. frames' = [frames EXCEPT ![co] = fs]
        BY <3>1, <3>2
      <3> QED BY <3>1, <3>3, <3>4, <3>5
    <2>2. CASE status[co] = "yield"
      <3>1. Waits(frames[co]) /\ frames[co] \in Seq(Frame)
        BY <1>5, <2>2 DEF IInv, Waiting, Kinds
      <3>2. frames' = frames /\ wild' = (frames[co] = <<>> \/ \E i \in 1..Len(nest) : nest[i] = co)
        BY <2>2 DEF C!Resume
      <3>3. frames' = [frames EXCEPT ![co] = frames[co]] /\ ~wild'
        BY <1>4, <1>5, <3>1, <3>2 DEF Waits, IInv, Kinds
      <3> QED BY <3>1, <3>3 DEF Waits
    <2> QED BY <1>4, <2>1, <2>2
  <1>8. Counted(fs, n + 1, n + 1, co)
    <2>1. Len(fs) \in Nat
      BY <1>7
    <2>2. \A i \in 1..Len(fs) : fs[i].kind = "lua"
      BY <1>7, <2>1, HeldCounts
    <2>3. n + 1 = (n + 1) + Cs(fs, Len(fs))
      BY <1>3, <1>7
    <2>4. co # MainThread
      BY PartsConstants
    <2> QED BY <1>3, <1>7, <2>2, <2>3, <2>4 DEF Counted
  <1>9. OnlyOf(co) /\ status'[co] = "ok"
    BY <1>5, <1>6, <1>7 DEF OnlyOf, IInv, Kinds
  <1>10. Kinds'
    BY <1>3, <1>5, <1>6, <1>7 DEF IInv, Kinds
  <1>11. baseCcalls'[co] = nCcalls[C!L] + 1 /\ Counted(frames'[co], baseCcalls'[co], nCcalls'[co], co)
    BY <1>1, <1>5, <1>6, <1>7, <1>8 DEF IInv, Kinds
  <1> QED BY <1>4, <1>6, <1>9, <1>10, <1>11, TopEnters

\* lua_resume refuses.
LEMMA ResumeRefusedKeeps == ASSUME IInv, NEW co \in Co, C!ResumeRefused(co) PROVE IInv'
  <1>1. C!Costatus(co) = "suspended"
    BY DEF C!ResumeRefused
  <1>2. \A i \in 1..Len(nest) : nest[i] # co
    BY <1>1, SuspendedIsAside
  <1>3. nCcalls[C!L] \in Nat /\ co \in Threads
    BY Top DEF Counted, Threads
  <1>4. /\ nCcalls' = [nCcalls EXCEPT ![co] = nCcalls[C!L]]
        /\ fresh' = [fresh EXCEPT ![co] = FALSE]
        /\ UNCHANGED <<status, frames, baseCcalls, nest, wild>>
    BY DEF C!ResumeRefused, C!Level
  <1>5. OnlyOf(co)
    BY <1>3, <1>4 DEF OnlyOf, IInv, Kinds
  <1>6. Kinds'
    BY <1>3, <1>4 DEF IInv, Kinds
  <1>7. status'[co] = "yield" => Waits(frames'[co])
    BY <1>4 DEF IInv, Waiting
  <1> QED BY <1>2, <1>4, <1>5, <1>6, <1>7, AsideChanges

\* A new coroutine has not started.
LEMMA CreateKeeps == ASSUME IInv, NEW co \in Co, C!Create(co) PROVE IInv'
  <1>1. co \in Threads /\ \A i \in 1..Len(nest) : nest[i] # co
    BY DEF Threads, C!Create
  <1>2. /\ status' = [status EXCEPT ![co] = "ok"] /\ frames' = [frames EXCEPT ![co] = <<>>]
        /\ fresh' = [fresh EXCEPT ![co] = TRUE] /\ nCcalls' = [nCcalls EXCEPT ![co] = 0]
        /\ baseCcalls' = [baseCcalls EXCEPT ![co] = 0] /\ UNCHANGED <<nest, wild>>
    BY DEF C!Create
  <1>3. OnlyOf(co) /\ status'[co] = "ok"
    BY <1>1, <1>2 DEF OnlyOf, IInv, Kinds
  <1>4. <<>> \in Seq(Frame)
    OBVIOUS
  <1>5. Kinds'
    BY <1>1, <1>2, <1>4 DEF IInv, Kinds
  <1> QED BY <1>1, <1>2, <1>3, <1>5, AsideChanges

\* No step breaks it.
LEMMA NextInv == ASSUME IInv, [C!Next]_(C!vars), ~BoundaryYields PROVE IInv'
  <1>1. CASE C!Call
    BY <1>1, CallKeeps
  <1>2. CASE C!Return
    BY <1>2, ReturnKeeps
  <1>3. CASE C!Finish
    BY <1>3, FinishKeeps
  <1>4. CASE C!Error
    BY <1>4, RaiseKeeps DEF C!Error
  <1>5. CASE C!Yield
    BY <1>5, YieldKeeps
  <1>6. ASSUME NEW kind \in {"call", "pcall"}, C!CallFromC(kind) PROVE IInv'
    BY <1>6, CallFromCKeeps
  <1>7. ASSUME NEW co \in Co, C!Resume(co) PROVE IInv'
    BY <1>7, ResumeKeeps
  <1>8. ASSUME NEW co \in Co, C!ResumeRefused(co) PROVE IInv'
    BY <1>8, ResumeRefusedKeeps
  <1>9. ASSUME NEW co \in Co, C!Create(co) PROVE IInv'
    BY <1>9, CreateKeeps
  <1>10. CASE UNCHANGED C!vars
    <2>1. /\ frames' = frames /\ nCcalls' = nCcalls /\ baseCcalls' = baseCcalls /\ nest' = nest
          /\ status' = status /\ fresh' = fresh /\ wild' = wild
      BY <1>10 DEF C!vars
    <2>2. Kinds' /\ Nested'
      BY <2>1 DEF IInv, Kinds, Nested
    <2>3. Running'
      <3> SUFFICES ASSUME NEW i \in 1..Len(nest)
                   PROVE  /\ status'[nest'[i]] = "ok"
                          /\ Counted(frames'[nest'[i]], baseCcalls'[nest'[i]], nCcalls'[nest'[i]],
                                     nest'[i])
        BY <2>1 DEF Running, Counted, Cs, Held
      <3> QED BY <2>1 DEF IInv, Running
    <2>4. Waiting'
      BY <2>1 DEF IInv, Waiting, Waits, Cs, Held
    <2> QED BY <2>2, <2>3, <2>4 DEF IInv
  <1> QED BY <1>1, <1>2, <1>3, <1>4, <1>5, <1>6, <1>7, <1>8, <1>9, <1>10 DEF C!Next

\* The invariant that the two properties below rest on, for any number of
\* coroutines and any limit of the C calls: what is on the C stack counts up without
\* a gap, and a coroutine that waits holds none of it.
THEOREM CoroutinesCount == ~BoundaryYields => (C!Spec => []IInv)
  <1> SUFFICES ASSUME ~BoundaryYields PROVE C!Spec => []IInv
    OBVIOUS
  <1>1. IInv /\ [C!Next]_(C!vars) => IInv'
    BY NextInv
  <1> QED BY InitInv, <1>1, PTL DEF C!Spec

-----------------------------------------------------------------------------
(* What the invariant says of the depth, and of a resume.                   *)

\* The count of the running thread is the depth of the C stack.
LEMMA CountIs == ASSUME IInv PROVE C!Depth = nCcalls[C!L]
  <1> DEFINE levels(n) == C!CLevels(nest[n])
             g == [n \in 1..Len(nest) |-> nCcalls[nest[n]]]
  <1>1. PICK c : c = Len(nest)
    OBVIOUS
  <1>2. c \in Nat /\ c >= 1 /\ C!L = nest[c] /\ \A n \in 1..c : nest[n] \in Threads
    BY <1>1, Top
  <1>3. \A n \in 1..c : /\ levels(n) \in Nat /\ baseCcalls[nest[n]] \in Nat
                        /\ nCcalls[nest[n]] = baseCcalls[nest[n]] + levels(n)
    <2> TAKE n \in 1..c
    <2>1. Counted(frames[nest[n]], baseCcalls[nest[n]], nCcalls[nest[n]], nest[n])
      BY <1>1 DEF IInv, Running
    <2>2. levels(n) = Cs(frames[nest[n]], Len(frames[nest[n]]))
      BY CLevelsIs
    <2>3. Len(frames[nest[n]]) \in Nat
      BY <2>1 DEF Counted
    <2>4. Cs(frames[nest[n]], Len(frames[nest[n]])) \in Nat
      BY <2>3, HeldCounts
    <2> HIDE DEF levels
    <2> QED BY <2>1, <2>2, <2>4 DEF Counted
  <1>4. ASSUME NEW n \in 1..c
        PROVE  g[n] = IF n = 1 THEN levels(1) ELSE g[n - 1] + 1 + levels(n)
    <2>1. g[n] = baseCcalls[nest[n]] + levels(n)
      BY <1>1, <1>3
    <2>2. CASE n = 1
      <3>1. baseCcalls[nest[1]] = 0
        BY DEF IInv, Nested
      <3>2. levels(1) \in Nat
        BY <1>3, <2>2
      <3> HIDE DEF levels, g
      <3> QED BY <2>1, <2>2, <3>1, <3>2
    <2>3. CASE n # 1
      <3>1. n - 1 \in 1..c
        BY <1>2, <2>3
      <3>2. g[n - 1] = nCcalls[nest[n - 1]] /\ g[n - 1] \in Nat
        BY <1>1, <1>2, <3>1 DEF IInv, Kinds
      <3>3. baseCcalls[nest[n]] = nCcalls[nest[n - 1]] + 1
        BY <1>1, <2>3 DEF IInv, Nested
      <3>4. levels(n) \in Nat
        BY <1>3
      <3> HIDE DEF levels, g
      <3> QED BY <2>1, <2>3, <3>2, <3>3, <3>4
    <2> QED BY <2>2, <2>3
  <1>5. g = [n \in 1..Len(nest) |-> IF n = 1 THEN levels(1) ELSE g[n - 1] + 1 + levels(n)]
    <2>1. g = [n \in 1..Len(nest) |-> g[n]]
      OBVIOUS
    <2> HIDE DEF g, levels
    <2> QED BY <1>1, <1>4, <2>1
  <1>6. PICK d : d = CHOOSE f : f = [n \in 1..Len(nest) |->
                                        IF n = 1 THEN levels(1) ELSE f[n - 1] + 1 + levels(n)]
    OBVIOUS
  <1>7. d = [n \in 1..Len(nest) |-> IF n = 1 THEN levels(1) ELSE d[n - 1] + 1 + levels(n)]
    <2> HIDE DEF g, levels
    <2> QED BY <1>5, <1>6
  <1>8. C!Depth = d[c]
    BY <1>1, <1>6 DEF C!Depth
  <1>9. d[c] = g[c]
    <2> DEFINE T == {k \in Nat : k + 1 \in 1..c => d[k + 1] = g[k + 1]}
    <2> HIDE DEF g, levels
    <2>1. 0 \in T
      BY <1>1, <1>4, <1>7
    <2>2. ASSUME NEW k \in T PROVE k + 1 \in T
      <3> SUFFICES ASSUME (k + 1) + 1 \in 1..c PROVE d[(k + 1) + 1] = g[(k + 1) + 1]
        OBVIOUS
      <3>1. k + 1 \in 1..c /\ (k + 1) + 1 # 1 /\ ((k + 1) + 1) - 1 = k + 1
        BY <1>2
      <3>2. d[k + 1] = g[k + 1]
        BY <3>1
      <3> HIDE DEF T
      <3>3. d[(k + 1) + 1] = d[((k + 1) + 1) - 1] + 1 + levels((k + 1) + 1)
        BY <1>1, <1>7, <3>1
      <3>4. g[(k + 1) + 1] = g[((k + 1) + 1) - 1] + 1 + levels((k + 1) + 1)
        BY <1>4, <3>1
      <3> QED BY <3>1, <3>2, <3>3, <3>4
    <2>3. T = Nat
      BY <2>1, <2>2, NatSetInduction
    <2>4. c - 1 \in Nat /\ (c - 1) + 1 = c /\ c \in 1..c
      BY <1>2
    <2>5. c - 1 \in T
      BY <2>3, <2>4
    <2> QED BY <2>4, <2>5
  <1>10. g[c] = nCcalls[C!L]
    BY <1>1, <1>2
  <1> QED BY <1>8, <1>9, <1>10

\* However deep coroutines resume each other, the count by which luaD_call and
\* lua_resume judge the C stack (L->nCcalls) is its depth, and stays under the limit
\* with its slack.
THEOREM CountTellsDepth == ~BoundaryYields => (C!Spec => []CountIsDepth)
  <1> SUFFICES ASSUME ~BoundaryYields PROVE C!Spec => []CountIsDepth
    OBVIOUS
  <1>1. IInv => CountIsDepth
    <2> SUFFICES ASSUME IInv PROVE CountIsDepth
      OBVIOUS
    <2>1. nCcalls[C!L] < MaxCcalls + Slack
      BY Top DEF Counted
    <2> QED BY <2>1, CountIs DEF CountIsDepth, C!CountIsDepth
  <1> QED BY <1>1, CoroutinesCount, PTL

\* lua_resume never resumes a coroutine that is on the C stack, that has failed, or
\* whose interrupted call is not a yield's.
THEOREM ResumesOnlyWaiting == ~BoundaryYields => (C!Spec => ResumedWasWaiting)
  <1> SUFFICES ASSUME ~BoundaryYields PROVE C!Spec => ResumedWasWaiting
    OBVIOUS
  <1> DEFINE Good == \A co \in Co : C!Resume(co) =>
                        /\ \A i \in 1..Len(nest) : nest[i] # co
                        /\ status[co] # "error"
                        /\ fresh[co] \/ (frames[co] # <<>> /\ C!CLevels(co) = 0)
  <1>1. ASSUME IInv PROVE Good
    <2> SUFFICES ASSUME NEW co \in Co, C!Resume(co)
                 PROVE  /\ \A i \in 1..Len(nest) : nest[i] # co
                        /\ status[co] # "error"
                        /\ fresh[co] \/ (frames[co] # <<>> /\ C!CLevels(co) = 0)
      OBVIOUS
    <2>1. /\ \A i \in 1..Len(nest) : nest[i] # co
          /\ status[co] = "yield" \/ (status[co] = "ok" /\ frames[co] = <<>> /\ fresh[co])
      BY <1>1, SuspendedIsAside DEF C!Resume
    <2>2. status[co] = "yield" => frames[co] # <<>> /\ C!CLevels(co) = 0
      BY <1>1, CLevelsIs DEF IInv, Waiting, Waits
    <2> QED BY <2>1, <2>2
  <1>2. IInv /\ [C!Next]_(C!vars) => [Good]_(C!vars)
    BY <1>1
  <1> HIDE DEF Good
  <1>3. [][Good]_(C!vars) => ResumedWasWaiting
    BY DEF ResumedWasWaiting, C!ResumedWasWaiting, Good
  <1> QED BY <1>2, <1>3, CoroutinesCount, PTL DEF C!Spec
=============================================================================
