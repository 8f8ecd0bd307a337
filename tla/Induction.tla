------------------------------ MODULE Induction ------------------------------
(***************************************************************************)
(* Induction and primitive recursion over the naturals, stated of sets and  *)
(* functions: no operator is a parameter, so that the theorems can be cited *)
(* of any operator that is defined by a recursive function; and what the   *)
(* recursion of Reachability reaches.                                       *)
(***************************************************************************)
EXTENDS Reachability, WellFoundedInduction, FiniteSetTheorems, TLAPS

\* A set of naturals that is not empty has a least element.
LEMMA LeastNumber ==
    ASSUME NEW T, T \subseteq Nat, T # {}
    PROVE  \E x \in T : \A y \in T : x <= y
  <1> DEFINE R == {ss \in Nat \X Nat : ss[1] < ss[2]}
  <1>1. IsWellFoundedOn(R, Nat)
    BY NatLessThanWellFounded DEF OpToRel
  <1>2. PICK x \in T : \A y \in T : ~(<<y, x>> \in R)
    BY <1>1, WFMin
  <1>3. ASSUME NEW y \in T PROVE x <= y
    <2>1. <<y, x>> \notin R
      BY <1>2
    <2>2. x \in Nat /\ y \in Nat
      OBVIOUS
    <2>3. <<y, x>> \in Nat \X Nat /\ <<y, x>>[1] = y /\ <<y, x>>[2] = x
      BY <2>2
    <2>4. ~(y < x)
      BY <2>1, <2>3
    <2> QED BY <2>2, <2>4
  <1> QED BY <1>2, <1>3

\* A set of numbers up to n that is not empty has a greatest one.
LEMMA Greatest ==
    ASSUME NEW n \in Nat, NEW T, T \subseteq 1..n, T # {}
    PROVE  \E i \in T : \A j \in T : j <= i
  <1> DEFINE V == {n - i : i \in T}
  <1>1. V \subseteq Nat /\ V # {} /\ \A j \in T : j \in Nat /\ n - j \in V
    <2>1. \A j \in T : j \in Nat /\ n - j \in Nat
      OBVIOUS
    <2> QED BY <2>1
  <1>2. PICK x \in V : \A y \in V : x <= y
    BY <1>1, LeastNumber
  <1>3. PICK i \in T : x = n - i
    OBVIOUS
  <1>4. ASSUME NEW j \in T PROVE j <= i
    <2>1. n - i <= n - j /\ i \in Nat /\ j \in Nat
      <3> HIDE DEF V
      <3> QED BY <1>1, <1>2, <1>3
    <2> QED BY <2>1
  <1> QED BY <1>4

\* A set of naturals that holds 0 and the successor of each member holds them all.
THEOREM NatSetInduction ==
    ASSUME NEW T, T \subseteq Nat, 0 \in T, \A n \in T : n + 1 \in T
    PROVE  T = Nat
  <1> SUFFICES ASSUME Nat \ T # {} PROVE FALSE
    OBVIOUS
  <1>1. PICK x \in Nat \ T : \A y \in Nat \ T : x <= y
    BY LeastNumber
  <1>2. x # 0
    OBVIOUS
  <1>3. x - 1 \in Nat /\ x - 1 \in T
    BY <1>1, <1>2
  <1> QED BY <1>3

\* Some function starts at a and goes from each value to the next by Step.
Recursive(V, a, Step) ==
    \E f \in [Nat -> V] : f[0] = a /\ \A n \in Nat : f[n + 1] = Step[n][f[n]]

\* Primitive recursion: a function defined by its value at 0 and by each value from
\* the one before exists (what a LET f[n \in ...] == ... of the models relies on).
THEOREM Recursion ==
    ASSUME NEW V, NEW a \in V, NEW Step \in [Nat -> [V -> V]]
    PROVE  Recursive(V, a, Step)
  <1> DEFINE Part(g, n) == /\ g \in [0..n -> V] /\ g[0] = a
                           /\ \A k \in Nat : k < n => g[k + 1] = Step[k][g[k]]
             T == {n \in Nat : \E g : Part(g, n)}
  <1>1. T = Nat
    <2>1. 0 \in T
      <3> DEFINE g == [k \in 0..0 |-> a]
      <3>1. Part(g, 0)
        OBVIOUS
      <3> QED BY <3>1
    <2>2. ASSUME NEW n \in T PROVE n + 1 \in T
      <3>1. n \in Nat /\ n + 1 \in Nat
        OBVIOUS
      <3>2. PICK g : Part(g, n)
        OBVIOUS
      <3> DEFINE h == [k \in 0..n + 1 |-> IF k = n + 1 THEN Step[n][g[n]] ELSE g[k]]
      <3>3. g[n] \in V /\ Step[n] \in [V -> V] /\ Step[n][g[n]] \in V
        BY <3>1, <3>2
      <3>4. h \in [0..n + 1 -> V]
        BY <3>1, <3>2, <3>3
      <3>5. h[0] = a /\ h[n + 1] = Step[n][g[n]] /\ \A k \in 0..n : h[k] = g[k]
        BY <3>1, <3>2
      <3>6. ASSUME NEW k \in Nat, k < n + 1 PROVE h[k + 1] = Step[k][h[k]]
        <4>1. CASE k = n
          BY <3>1, <3>5, <4>1
        <4>2. CASE k < n
          BY <3>1, <3>2, <3>5, <4>2
        <4> QED BY <3>1, <3>6, <4>1, <4>2
      <3>7. Part(h, n + 1)
        BY <3>4, <3>5, <3>6
      <3> QED BY <3>1, <3>7
    <2> HIDE DEF Part
    <2> QED BY <2>1, <2>2, NatSetInduction
  <1>2. ASSUME NEW n \in Nat, NEW g, NEW h, Part(g, n), Part(h, n + 1)
        PROVE  g[n] = h[n]
    <2> DEFINE U == {k \in Nat : k <= n => g[k] = h[k]}
    <2>1. 0 \in U
      BY <1>2
    <2>2. ASSUME NEW k \in U PROVE k + 1 \in U
      BY <1>2
    <2>3. U = Nat
      BY <2>1, <2>2, NatSetInduction
    <2> QED BY <2>3
  <1>3. PICK part : \A n \in Nat : Part(part[n], n)
    <2> DEFINE all == [n \in Nat |-> CHOOSE g : Part(g, n)]
    <2> HIDE DEF Part
    <2>1. \A n \in Nat : \E g : Part(g, n)
      BY <1>1
    <2>2. ASSUME NEW n \in Nat PROVE Part(all[n], n)
      <3>1. \E g : Part(g, n)
        BY <2>1
      <3>2. all[n] = CHOOSE g : Part(g, n)
        OBVIOUS
      <3> QED BY ONLY <3>1, <3>2
    <2> HIDE DEF all
    <2> QED BY <2>2
  <1> DEFINE f == [n \in Nat |-> part[n][n]]
  <1>4. f \in [Nat -> V] /\ f[0] = a
    <2>1. \A n \in Nat : part[n][n] \in V
      BY <1>3
    <2>2. part[0][0] = a
      BY <1>3
    <2> QED BY <2>1, <2>2
  <1>5. ASSUME NEW n \in Nat PROVE f[n + 1] = Step[n][f[n]]
    <2>1. Part(part[n], n) /\ Part(part[n + 1], n + 1)
      BY <1>3
    <2>2. part[n][n] = part[n + 1][n]
      <3> HIDE DEF Part
      <3> QED BY <1>2, <2>1
    <2>3. part[n + 1][n + 1] = Step[n][part[n + 1][n]]
      BY <2>1
    <2> QED BY <2>2, <2>3
  <1> HIDE DEF f
  <1> QED BY <1>4, <1>5 DEF Recursive

\* The same up to c, in the form of a function definition.
RecursiveUpTo(V, a, Step, c) ==
    \E g \in [0..c -> V] : g = [n \in 0..c |-> IF n = 0 THEN a ELSE Step[n - 1][g[n - 1]]]

\* A recursive function on 0..c exists.
THEOREM BoundedRecursion ==
    ASSUME NEW V, NEW a \in V, NEW Step \in [Nat -> [V -> V]], NEW c \in Nat
    PROVE  RecursiveUpTo(V, a, Step, c)
  <1>1. Recursive(V, a, Step)
    BY Recursion
  <1>2. PICK f \in [Nat -> V] : f[0] = a /\ \A n \in Nat : f[n + 1] = Step[n][f[n]]
    BY <1>1 DEF Recursive
  <1> DEFINE g == [n \in 0..c |-> f[n]]
  <1>3. \A n \in 0..c : f[n] = IF n = 0 THEN a ELSE Step[n - 1][g[n - 1]]
    BY <1>2
  <1>4. g \in [0..c -> V] /\ g = [n \in 0..c |-> IF n = 0 THEN a ELSE Step[n - 1][g[n - 1]]]
    BY <1>2, <1>3
  <1> HIDE DEF g
  <1> QED BY <1>4 DEF RecursiveUpTo

\* The sets r[0] to r[c] that Reachable goes through, and its result.
Rounds(r, S, refs, c) ==
    /\ c \in Nat /\ Reachable(S, refs) = r[c] /\ r[0] = S
    /\ \A n \in 1..c : r[n] = r[n - 1] \cup UNION {refs[o] : o \in r[n - 1]}

\* Reachable is the last of the sets its recursion goes through.
LEMMA ReachSteps ==
    ASSUME NEW D, IsFiniteSet(D), NEW refs \in [D -> SUBSET D], NEW S, S \subseteq D
    PROVE  \E r : Rounds(r, S, refs, Cardinality(D))
  <1> DEFINE c == Cardinality(D)
             Step1(s) == s \cup UNION {refs[o] : o \in s}
             r == CHOOSE r : r = [n \in 0..c |-> IF n = 0 THEN S ELSE Step1(r[n - 1])]
             V == SUBSET D
             Step == [n \in Nat |-> [s \in V |-> Step1(s)]]
  <1>1. c \in Nat /\ DOMAIN refs = D
    BY FS_CardinalityType
  <1>2. (\A s \in V : Step1(s) \in V) /\ S \in V
    OBVIOUS
  <1>3. Reachable(S, refs) = r[c]
    BY <1>1, Zenon DEF Reachable
  <1>4. r = [n \in 0..c |-> IF n = 0 THEN S ELSE Step1(r[n - 1])]
    <2> HIDE DEF V, Step1, c
    <2>1. Step \in [Nat -> [V -> V]]
      BY <1>2
    <2>2. PICK f \in [Nat -> V] : f[0] = S /\ \A n \in Nat : f[n + 1] = Step[n][f[n]]
      <3> HIDE DEF Step
      <3>1. Recursive(V, S, Step)
        BY <1>2, <2>1, Recursion
      <3> QED BY <3>1 DEF Recursive
    <2>3. \A n \in Nat : f[n + 1] = Step1(f[n])
      BY <2>2
    <2> DEFINE g == [n \in 0..c |-> f[n]]
    <2>4. \A n \in 0..c : f[n] = IF n = 0 THEN S ELSE Step1(g[n - 1])
      BY <1>1, <2>2, <2>3
    <2>5. g = [n \in 0..c |-> IF n = 0 THEN S ELSE Step1(g[n - 1])]
      BY <2>4
    <2> QED BY <2>5
  <1> HIDE DEF r
  <1>5. r[0] = S /\ \A n \in 1..c : r[n] = Step1(r[n - 1])
    <2> HIDE DEF Step1
    <2> QED BY <1>1, <1>4
  <1> QED BY <1>1, <1>3, <1>5 DEF Rounds

\* A set that holds S and what its members refer to holds all S leads to.
LEMMA ReachStays ==
    ASSUME NEW D, IsFiniteSet(D), NEW refs \in [D -> SUBSET D], NEW S, NEW X, X \subseteq D,
           S \subseteq X, \A o \in X : refs[o] \subseteq X
    PROVE  Reachable(S, refs) \subseteq X
  <1> DEFINE c == Cardinality(D)
  <1>1. PICK r : /\ c \in Nat /\ Reachable(S, refs) = r[c] /\ r[0] = S
                 /\ \A n \in 1..c : r[n] = r[n - 1] \cup UNION {refs[o] : o \in r[n - 1]}
    <2>1. S \subseteq D
      OBVIOUS
    <2>2. PICK r : Rounds(r, S, refs, c)
      BY <2>1, ReachSteps
    <2> QED BY <2>2 DEF Rounds
  <1> HIDE DEF c
  <1> DEFINE T == {n \in Nat : n <= c => r[n] \subseteq X}
  <1>2. 0 \in T
    BY <1>1
  <1>3. ASSUME NEW n \in T PROVE n + 1 \in T
    <2>1. CASE n + 1 <= c
      <3>1. r[n + 1] = r[n] \cup UNION {refs[o] : o \in r[n]} /\ r[n] \subseteq X
        BY <1>1, <2>1
      <3> QED BY <3>1
    <2>2. CASE ~(n + 1 <= c)
      BY <2>2
    <2> QED BY <2>1, <2>2
  <1>4. T = Nat
    BY <1>2, <1>3, NatSetInduction
  <1> QED BY <1>1, <1>4
=============================================================================
