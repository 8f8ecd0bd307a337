----------------------------- MODULE TableProof -----------------------------
(***************************************************************************)
(* What holds in LuaTable for any keys, sizes and lists: the table is the   *)
(* map that TableMap promises, whatever nodes move, a rehash leaves room    *)
(* for everything, and the length is a boundary.                           *)
(***************************************************************************)
EXTENDS Parts, Integers, Sequences, Induction, FiniteSetTheorems, TLAPS

-----------------------------------------------------------------------------
(* Numbers.                                                                 *)

\* Pow2 is what its recursion says.
LEMMA Powers ==
    /\ H!Pow2[0] = 1
    /\ \A n \in Nat : H!Pow2[n] \in Nat /\ H!Pow2[n] > n /\ H!Pow2[n + 1] = 2 * H!Pow2[n]
  <1> DEFINE Step == [n \in Nat |-> [x \in Nat |-> 2 * x]]
             Is(f) == f = [n \in Nat |-> IF n = 0 THEN 1 ELSE 2 * f[n - 1]]
  <1>1. Step \in [Nat -> [Nat -> Nat]]
    OBVIOUS
  <1>2. PICK f \in [Nat -> Nat] : f[0] = 1 /\ \A n \in Nat : f[n + 1] = Step[n][f[n]]
    <2> HIDE DEF Step
    <2>1. Recursive(Nat, 1, Step)
      BY <1>1, Recursion
    <2> QED BY <2>1 DEF Recursive
  <1>3. \A n \in Nat : f[n + 1] = 2 * f[n]
    BY <1>2
  <1>4. Is(f)
    <2>1. ASSUME NEW n \in Nat PROVE f[n] = IF n = 0 THEN 1 ELSE 2 * f[n - 1]
      <3>1. CASE n = 0
        BY <1>2, <3>1
      <3>2. CASE n # 0
        <4>1. n - 1 \in Nat /\ (n - 1) + 1 = n
          BY <3>2
        <4> QED BY <1>3, <3>2, <4>1
      <3> QED BY <3>1, <3>2
    <2>2. f = [n \in Nat |-> f[n]]
      BY <1>2
    <2> QED BY <2>1, <2>2
  <1>5. Is(H!Pow2)
    <2>1. H!Pow2 = CHOOSE g : Is(g)
      BY Zenon DEF H!Pow2
    <2> HIDE DEF Is
    <2> QED BY <1>4, <2>1
  <1>6. H!Pow2[0] = 1 /\ \A n \in Nat : H!Pow2[n + 1] = 2 * H!Pow2[n]
    BY <1>5
  <1> DEFINE T == {n \in Nat : H!Pow2[n] \in Nat /\ H!Pow2[n] > n}
  <1>7. 0 \in T
    BY <1>6
  <1>8. ASSUME NEW n \in T PROVE n + 1 \in T
    BY <1>6
  <1>9. T = Nat
    BY <1>7, <1>8, NatSetInduction
  <1>10. \A n \in Nat : H!Pow2[n] \in Nat /\ H!Pow2[n] > n
    BY <1>9
  <1> QED BY <1>6, <1>10

\* CeilLog2 is a number whose power reaches n.
LEMMA CeilLog2Reaches ==
    ASSUME NEW n \in Nat \ {0}
    PROVE  H!CeilLog2(n) \in Nat /\ H!Pow2[H!CeilLog2(n)] >= n
  <1> DEFINE T == {x \in Nat : H!Pow2[x] >= n}
  <1>1. n \in T
    BY Powers
  <1>2. PICK x \in T : \A y \in T : x <= y
    BY <1>1, LeastNumber
  <1>3. x \in 0..n /\ H!Pow2[x] >= n
    BY <1>1, <1>2
  <1>4. x = 0 \/ H!Pow2[x - 1] < n
    <2>1. CASE x # 0
      <3>1. x - 1 \in Nat /\ x - 1 \notin T
        BY <1>2, <1>3, <2>1
      <3> QED BY <3>1, Powers
    <2> QED BY <2>1
  <1> HIDE DEF T
  <1>5. \E y \in 0..n : H!Pow2[y] >= n /\ (y = 0 \/ H!Pow2[y - 1] < n)
    BY <1>3, <1>4
  <1>6. H!CeilLog2(n) \in 0..n /\ H!Pow2[H!CeilLog2(n)] >= n
    BY <1>5, Zenon DEF H!CeilLog2
  <1> QED BY <1>6

\* The words of a double are a natural number.
LEMMA DoubleWordsIsNumber ==
    ASSUME NEW n \in Nat \ {0}
    PROVE  H!DoubleWords(n) \in Nat
  <1> DEFINE T == {x \in Nat : H!Pow2[x] > n}
             E(x) == H!Pow2[x] <= n /\ n < H!Pow2[x + 1]
             e == CHOOSE x \in 0..n : E(x)
  <1>1. n \in T
    BY Powers
  <1>2. PICK x \in T : \A y \in T : x <= y
    BY <1>1, LeastNumber
  <1>3. x # 0 /\ x \in 0..n
    BY <1>1, <1>2, Powers
  <1>4. x - 1 \in 0..n /\ x - 1 \notin T /\ (x - 1) + 1 = x
    BY <1>2, <1>3
  <1>5. E(x - 1)
    BY <1>2, <1>4, Powers
  <1>6. e \in 0..n /\ E(e)
    <2> HIDE DEF E
    <2> QED BY <1>4, <1>5
  <1>7. H!DoubleWords(n) = (1023 + e) * H!Pow2[20] + ((n - H!Pow2[e]) * H!Pow2[20]) \div H!Pow2[e]
    BY Zenon DEF H!DoubleWords
  <1> DEFINE p == H!Pow2[20]
             q == H!Pow2[e]
  <1>8. p \in Nat /\ q \in Nat /\ q > 0 /\ n - q \in Nat
    BY <1>6, Powers
  <1> HIDE DEF e, p, q
  <1>9. (n - q) * p \in Nat /\ (1023 + e) * p \in Nat
    BY <1>6, <1>8
  <1>10. ((n - q) * p) \div q \in Nat
    <2> DEFINE x1 == (n - q) * p
    <2>1. x1 \in Nat
      BY <1>9
    <2> HIDE DEF x1
    <2> QED BY <1>8, <2>1
  <1>11. H!DoubleWords(n) = (1023 + e) * p + ((n - q) * p) \div q
    BY <1>7 DEF p, q
  <1> QED BY <1>9, <1>10, <1>11

-----------------------------------------------------------------------------
(* Chains.                                                                  *)

Nodes(t) == 1..Len(t.node)
DeadKeys == {H!Dead(k) : k \in Key}
NodeType == [key : Key \cup DeadKeys \cup {H!Nil}, val : Key \cup {H!Nil}, next : Nat]
TableType == [array : Seq(Key \cup {H!Nil}), node : Seq(NodeType), lastfree : Nat,
              dummy : BOOLEAN, nested : BOOLEAN]

\* The node a node's next leads to.
Onward(t, i) == t.node[i].next

\* The members of a chain have falling ranks.
Ranks(t, r, M) ==
    /\ M \in Nat /\ Len(t.node) \in Nat /\ r \in [Nodes(t) -> 0..M]
    /\ \A i \in Nodes(t) : /\ Onward(t, i) \in 0..Len(t.node)
                           /\ Onward(t, i) # 0 => r[Onward(t, i)] < r[i]
Ranked(t) == \E M, r : Ranks(t, r, M)

\* What holds of a node when it holds of the next one, or it is the last, holds of all.
LEMMA ChainInduction ==
    ASSUME NEW t, Ranked(t), NEW X,
           \A p \in Nodes(t) : Onward(t, p) = 0 \/ Onward(t, p) \in X => p \in X
    PROVE  \A p \in Nodes(t) : p \in X
  <1>1. PICK M, r : Ranks(t, r, M)
    BY DEF Ranked
  <1>2. Len(t.node) \in Nat /\ \A p \in Nodes(t) : r[p] \in Nat /\ Onward(t, p) \in 0..Len(t.node)
    BY <1>1 DEF Ranks
  <1>3. \A p \in Nodes(t) : Onward(t, p) = 0 \/ (Onward(t, p) \in Nodes(t) /\ r[Onward(t, p)] < r[p])
    BY <1>1 DEF Ranks, Nodes
  <1> DEFINE T == {r[p] : p \in Nodes(t) \ X}
  <1>4. CASE T = {}
    BY <1>4
  <1>5. CASE T # {}
    <2>1. T \subseteq Nat
      BY <1>2
    <2>2. PICK x \in T : \A y \in T : x <= y
      BY <1>5, <2>1, LeastNumber
    <2>3. PICK p \in Nodes(t) \ X : x = r[p]
      BY <2>2
    <2> DEFINE q == Onward(t, p)
    <2>4. q # 0 /\ q \notin X
      BY <2>3
    <2>5. q \in Nodes(t) /\ r[q] < r[p]
      BY <1>3, <2>3, <2>4
    <2>6. r[q] \in T
      BY <2>4, <2>5
    <2>7. r[p] <= r[q] /\ r[p] \in Nat /\ r[q] \in Nat
      <3> HIDE DEF T
      <3> QED BY <1>2, <2>2, <2>3, <2>5, <2>6
    <2> QED BY <2>5, <2>7
  <1> QED BY <1>4, <1>5

\* What next leads to.
LEMMA OnwardIs ==
    ASSUME NEW t, Ranked(t)
    PROVE  /\ Len(t.node) \in Nat
           /\ \A p \in Nodes(t) : Onward(t, p) = 0 \/ Onward(t, p) \in Nodes(t)
           /\ \A p \in Nodes(t) : Onward(t, p) # p
  <1>1. PICK M, r : Ranks(t, r, M)
    BY DEF Ranked
  <1>2. ASSUME NEW p \in Nodes(t)
        PROVE  (Onward(t, p) = 0 \/ Onward(t, p) \in Nodes(t)) /\ Onward(t, p) # p
    <2>1. Onward(t, p) \in 0..Len(t.node) /\ r[p] \in Nat /\ Len(t.node) \in Nat
      BY <1>1 DEF Ranks
    <2>2. Onward(t, p) # 0 => r[Onward(t, p)] < r[p]
      BY <1>1 DEF Ranks
    <2>3. Onward(t, p) # p
      BY <2>1, <2>2 DEF Nodes
    <2> QED BY <2>1, <2>3 DEF Nodes
  <1> QED BY <1>1, <1>2 DEF Ranks

\* g tells for every node the first of S from it on.
Firsts(t, S, g) ==
    g = [i \in 0..Len(t.node) |-> IF i = 0 \/ i \in S THEN i ELSE g[Onward(t, i)]]

\* There is such a g: what the recursion comes to in as many rounds as there are ranks.
LEMMA FirstsExist ==
    ASSUME NEW t, Ranked(t), NEW S
    PROVE  \E g : Firsts(t, S, g)
  <1>1. PICK M, r : Ranks(t, r, M)
    BY DEF Ranked
  <1> DEFINE L == Len(t.node)
             V == [0..L -> 0..L]
             on(f, i) == IF i = 0 \/ i \in S THEN i ELSE f[Onward(t, i)]
             round(f) == [i \in 0..L |-> on(f, i)]
             Step == [n \in Nat |-> [f \in V |-> round(f)]]
             none == [i \in 0..L |-> 0]
  <1>2. M \in Nat /\ L \in Nat
    BY <1>1 DEF Ranks
  <1>3. \A i \in 0..L : i # 0 => r[i] \in 0..M /\ Onward(t, i) \in 0..L
    BY <1>1, <1>2 DEF Ranks, Nodes
  <1>4. \A i \in 0..L : i # 0 /\ Onward(t, i) # 0 => r[Onward(t, i)] < r[i]
    BY <1>1, <1>2 DEF Ranks, Nodes
  <1> HIDE DEF L
  <1>5. \A f \in V : round(f) \in V
    <2>1. ASSUME NEW f \in V, NEW i \in 0..L PROVE on(f, i) \in 0..L
      BY <1>2, <1>3
    <2> HIDE DEF on
    <2> QED BY <2>1
  <1>6. none \in V /\ \A i \in 0..L : none[i] = 0
    BY <1>2
  <1> HIDE DEF round, none
  <1>7. Step \in [Nat -> [V -> V]]
    BY <1>5
  <1>8. PICK f \in [Nat -> V] : f[0] = none /\ \A n \in Nat : f[n + 1] = Step[n][f[n]]
    <2> HIDE DEF Step, V
    <2>1. Recursive(V, none, Step)
      BY <1>6, <1>7, Recursion
    <2> QED BY <2>1 DEF Recursive
  <1>9. \A n \in Nat : f[n] \in V /\ f[n + 1] = round(f[n])
    <2> HIDE DEF V
    <2> QED BY <1>8
  <1>10. \A n \in Nat : \A i \in 0..L : f[n + 1][i] = on(f[n], i)
    <2> HIDE DEF on
    <2> QED BY <1>9 DEF round
  <1> DEFINE T == {n \in Nat : \A i \in 0..L : i = 0 \/ r[i] < n => f[n + 1][i] = f[n][i]}
  <1>11. 0 \in T
    <2>1. ASSUME NEW i \in 0..L, i = 0 \/ r[i] < 0 PROVE f[0 + 1][i] = f[0][i]
      <3>1. i = 0
        <4>1. i # 0 => r[i] \in 0..M
          BY <1>3
        <4> QED BY <1>2, <2>1, <4>1
      <3>2. f[0 + 1][i] = on(f[0], i)
        BY <1>10
      <3> QED BY <1>6, <1>8, <3>1, <3>2
    <2> QED BY <2>1
  <1>12. ASSUME NEW n \in T PROVE n + 1 \in T
    <2>1. n \in Nat /\ n + 1 \in Nat
      OBVIOUS
    <2>2. ASSUME NEW i \in 0..L, i = 0 \/ r[i] < n + 1
          PROVE  f[(n + 1) + 1][i] = f[n + 1][i]
      <3>1. f[(n + 1) + 1][i] = on(f[n + 1], i) /\ f[n + 1][i] = on(f[n], i)
        BY <1>10, <2>1
      <3>2. CASE i = 0 \/ i \in S
        BY <3>1, <3>2
      <3>3. CASE ~(i = 0 \/ i \in S)
        <4> DEFINE j == Onward(t, i)
        <4>1. j \in 0..L /\ (j # 0 => r[j] < r[i]) /\ r[i] \in 0..M
          BY <1>3, <1>4, <3>3
        <4>2. j = 0 \/ r[j] < n
          <5>1. CASE j # 0
            <6>1. r[j] \in 0..M /\ r[j] < r[i] /\ r[i] < n + 1
              BY <1>3, <2>2, <3>3, <4>1, <5>1
            <6> DEFINE x == r[j]
                       y == r[i]
            <6>2. x \in Nat /\ y \in Nat
              <7>1. x \in 0..M /\ y \in 0..M
                BY <4>1, <6>1
              <7> HIDE DEF x, y
              <7> QED BY ONLY <1>2, <7>1
            <6>3. x < y /\ y < n + 1
              BY <6>1
            <6> HIDE DEF x, y
            <6>4. x < n
              BY ONLY <2>1, <6>2, <6>3
            <6> QED BY <6>4 DEF x
          <5> QED BY <5>1
        <4>3. f[n + 1][j] = f[n][j]
          BY <4>1, <4>2
        <4> QED BY <3>1, <3>3, <4>3
      <3> QED BY <3>2, <3>3
    <2> QED BY <2>1, <2>2
  <1>13. T = Nat
    BY <1>11, <1>12, NatSetInduction
  <1> DEFINE g == f[M + 1]
  <1>14. M + 1 \in Nat /\ M + 1 \in T
    <2> HIDE DEF T
    <2> QED BY <1>2, <1>13
  <1>15. g \in V
    <2> HIDE DEF V
    <2> QED BY <1>9, <1>14
  <1>16. \A i \in 0..L : g[i] = on(g, i)
    <2>1. ASSUME NEW i \in 0..L PROVE g[i] = on(g, i)
      <3>1. i = 0 \/ r[i] < M + 1
        <4>1. CASE i # 0
          <5>1. r[i] \in 0..M
            BY <1>3, <4>1
          <5> DEFINE x == r[i]
          <5>2. x \in Nat /\ x <= M
            BY <1>2, <5>1
          <5> HIDE DEF x
          <5>3. x < M + 1
            BY ONLY <1>2, <5>2
          <5> QED BY <5>3 DEF x
        <4> QED BY <4>1
      <3>2. f[(M + 1) + 1][i] = f[M + 1][i]
        BY <1>14, <3>1
      <3>3. f[(M + 1) + 1][i] = on(f[M + 1], i)
        BY <1>10, <1>14
      <3> QED BY <3>2, <3>3
    <2> QED BY <2>1
  <1> HIDE DEF g, T
  <1>17. g = [i \in 0..L |-> on(g, i)]
    BY <1>15, <1>16
  <1> QED BY <1>17 DEF Firsts, L

\* And no other.
LEMMA FirstsUnique ==
    ASSUME NEW t, Ranked(t), NEW S, NEW g, Firsts(t, S, g), NEW h, Firsts(t, S, h)
    PROVE  g = h
  <1>1. /\ Len(t.node) \in Nat
        /\ \A p \in Nodes(t) : Onward(t, p) = 0 \/ Onward(t, p) \in Nodes(t)
    BY OnwardIs
  <1>2. g[0] = 0 /\ h[0] = 0
    BY <1>1 DEF Firsts
  <1>3. ASSUME NEW p \in Nodes(t)
        PROVE  /\ g[p] = IF p \in S THEN p ELSE g[Onward(t, p)]
               /\ h[p] = IF p \in S THEN p ELSE h[Onward(t, p)]
    BY <1>1 DEF Firsts, Nodes
  <1> DEFINE X == {p \in Nodes(t) : g[p] = h[p]}
  <1>4. ASSUME NEW p \in Nodes(t), Onward(t, p) = 0 \/ Onward(t, p) \in X PROVE p \in X
    BY <1>2, <1>3, <1>4
  <1>5. \A p \in Nodes(t) : p \in X
    <2> HIDE DEF X
    <2> QED BY <1>4, ChainInduction
  <1>6. \A i \in 0..Len(t.node) : g[i] = h[i]
    BY <1>1, <1>2, <1>5 DEF Nodes
  <1>7. /\ g = [i \in 0..Len(t.node) |-> g[i]]
        /\ h = [i \in 0..Len(t.node) |-> h[i]]
    BY DEF Firsts
  <1> QED BY <1>6, <1>7

\* Along is its value.
LEMMA AlongIs ==
    ASSUME NEW t, Ranked(t), NEW S, NEW g, Firsts(t, S, g)
    PROVE  \A p : H!Along(t, p, S) = g[p]
  <1> DEFINE h == CHOOSE f : Firsts(t, S, f)
  <1>1. \A p : H!Along(t, p, S) = h[p]
    BY Zenon DEF H!Along, Onward, Firsts
  <1>2. Firsts(t, S, h)
    OBVIOUS
  <1>3. g = h
    <2> HIDE DEF h
    <2> QED BY <1>2, FirstsUnique
  <1> QED BY <1>1, <1>3

\* Along a chain, step by step.
LEMMA AlongStep ==
    ASSUME NEW t, Ranked(t), NEW S
    PROVE  /\ H!Along(t, 0, S) = 0
           /\ \A p \in Nodes(t) : H!Along(t, p, S) = IF p \in S THEN p ELSE H!Along(t, Onward(t, p), S)
           /\ \A p \in Nodes(t) : H!Along(t, p, S) = 0 \/ H!Along(t, p, S) \in Nodes(t) \cap S
  <1>1. PICK g : Firsts(t, S, g)
    BY FirstsExist
  <1>2. \A p : H!Along(t, p, S) = g[p]
    BY <1>1, AlongIs
  <1>3. /\ Len(t.node) \in Nat
        /\ \A p \in Nodes(t) : Onward(t, p) = 0 \/ Onward(t, p) \in Nodes(t)
    BY OnwardIs
  <1>4. g[0] = 0 /\ \A p \in Nodes(t) : g[p] = IF p \in S THEN p ELSE g[Onward(t, p)]
    BY <1>1, <1>3 DEF Firsts, Nodes
  <1> DEFINE X == {p \in Nodes(t) : g[p] = 0 \/ g[p] \in Nodes(t) \cap S}
  <1>5. ASSUME NEW p \in Nodes(t), Onward(t, p) = 0 \/ Onward(t, p) \in X PROVE p \in X
    BY <1>4, <1>5
  <1>6. \A p \in Nodes(t) : p \in X
    <2> HIDE DEF X
    <2> QED BY <1>5, ChainInduction
  <1> QED BY <1>2, <1>4, <1>6

\* What is first in a set is first in a part of it that holds it.
LEMMA AlongPart ==
    ASSUME NEW t, Ranked(t), NEW S, NEW Q, Q \subseteq S, NEW p \in Nodes(t),
           H!Along(t, p, S) \in Q, H!Along(t, p, S) # 0
    PROVE  H!Along(t, p, Q) = H!Along(t, p, S)
  <1> DEFINE X == {q \in Nodes(t) : H!Along(t, q, S) \in Q /\ H!Along(t, q, S) # 0
                                      => H!Along(t, q, Q) = H!Along(t, q, S)}
  <1>1. ASSUME NEW q \in Nodes(t), Onward(t, q) = 0 \/ Onward(t, q) \in X PROVE q \in X
    <2>1. H!Along(t, q, S) = IF q \in S THEN q ELSE H!Along(t, Onward(t, q), S)
      BY AlongStep
    <2>2. H!Along(t, q, Q) = IF q \in Q THEN q ELSE H!Along(t, Onward(t, q), Q)
      BY AlongStep
    <2>3. H!Along(t, 0, S) = 0
      BY AlongStep
    <2> QED BY <1>1, <2>1, <2>2, <2>3
  <1>2. \A q \in Nodes(t) : q \in X
    <2> HIDE DEF X
    <2> QED BY <1>1, ChainInduction
  <1> QED BY <1>2

\* Before a node that is reached there is one that leads to it.
LEMMA AlongBefore ==
    ASSUME NEW t, Ranked(t), NEW S, NEW m \in Nodes(t), NEW B,
           \A i \in Nodes(t) : i \in B <=> Onward(t, i) = m,
           NEW p \in Nodes(t), p # m, H!Along(t, p, S) = m
    PROVE  H!Along(t, p, B) \in Nodes(t) /\ Onward(t, H!Along(t, p, B)) = m
  <1> DEFINE X == {q \in Nodes(t) : q # m /\ H!Along(t, q, S) = m => H!Along(t, q, B) # 0}
  <1>1. ASSUME NEW q \in Nodes(t), Onward(t, q) = 0 \/ Onward(t, q) \in X PROVE q \in X
    <2>1. H!Along(t, q, S) = IF q \in S THEN q ELSE H!Along(t, Onward(t, q), S)
      BY AlongStep
    <2>2. H!Along(t, q, B) = IF q \in B THEN q ELSE H!Along(t, Onward(t, q), B)
      BY AlongStep
    <2>3. H!Along(t, 0, S) = 0 /\ m # 0 /\ q # 0
      BY AlongStep DEF Nodes
    <2> QED BY <1>1, <2>1, <2>2, <2>3
  <1>2. \A q \in Nodes(t) : q \in X
    <2> HIDE DEF X
    <2> QED BY <1>1, ChainInduction
  <1>3. H!Along(t, p, B) # 0
    BY <1>2
  <1>4. H!Along(t, p, B) \in Nodes(t) \cap B
    BY <1>3, AlongStep
  <1> QED BY <1>4

-----------------------------------------------------------------------------
(* The invariant of a table.                                                *)

KeyOf(t, i) == t.node[i].key
ValOf(t, i) == t.node[i].val

\* It has an array and at least one node.
Typed(t) == t \in TableType /\ Len(t.node) > 0

\* What is stored under a key is the key.
Filled(t) ==
    /\ \A s \in 1..Len(t.array) : t.array[s] = H!Nil \/ (t.array[s] = H!Numeral(s) /\ H!Numeral(s) \in Key)
    /\ \A i \in Nodes(t) : ValOf(t, i) = H!Nil \/ (ValOf(t, i) = KeyOf(t, i) /\ KeyOf(t, i) \in Key)

\* Chains do not join.
Apart(t) == \A i, j \in Nodes(t) : Onward(t, i) = Onward(t, j) => Onward(t, i) = 0 \/ i = j

\* A node without a key is on no chain.
Loose(t) == \A i \in Nodes(t) : KeyOf(t, i) = H!Nil => /\ Onward(t, i) = 0
                                                       /\ \A j \in Nodes(t) : Onward(t, j) # i

\* From lastfree on there is no free node.
LastFree(t) == IF t.dummy THEN t.node = <<H!NoNode>> /\ t.lastfree = 1
               ELSE /\ t.lastfree \in 1..(Len(t.node) + 1)
                    /\ \A i \in Nodes(t) : i >= t.lastfree => KeyOf(t, i) # H!Nil

\* A search for the key of a node, alive or dead, ends at the node; it is not one
\* of the array.
Found(t) == \A i \in Nodes(t) : KeyOf(t, i) \in Key =>
                /\ ~H!InArray(t, KeyOf(t, i))
                /\ H!Along(t, H!MainPosition(t, KeyOf(t, i)),
                           H!Holding(t, {KeyOf(t, i), H!Dead(KeyOf(t, i))})) = i

\* The node in the main position of a key is in its own main position (ltable.c:16).
Home(t) == \A i \in Nodes(t) : LET m == H!MainPosition(t, KeyOf(t, i))
                               IN  KeyOf(t, i) \in Key /\ KeyOf(t, m) \in Key
                                     => H!MainPosition(t, KeyOf(t, m)) = m

Good(t) == /\ Typed(t) /\ Filled(t) /\ Ranked(t) /\ Apart(t) /\ Loose(t) /\ LastFree(t)
           /\ Found(t) /\ Home(t)

\* What can be looked for.
Hashable(k) == (H!IsInt(k) \/ H!Collectable(k)) /\ k[2] \in Nat

\* Keys can, and are neither Nil nor dead.
LEMMA KeysAre ==
    ASSUME H!TableConstants, NEW k \in Key
    PROVE  /\ Hashable(k) /\ k # H!Nil /\ H!Nil \notin Key /\ H!Nil \notin DeadKeys
           /\ k \notin DeadKeys /\ H!Dead(k) \notin Key
           /\ \A x : H!Dead(x) = H!Dead(k) <=> x = k
  <1>1. \A x \in Key : Hashable(x) /\ x[1] \in {"int", "str", "obj"}
    BY DEF H!TableConstants, Hashable, H!IsInt, H!Collectable
  <1>2. H!Nil[1] = "nil" /\ \A x : H!Dead(x)[1] = "dead" /\ H!Dead(x)[2] = x
    BY DEF H!Nil, H!Dead
  <1>3. H!Nil \notin Key /\ \A x : H!Dead(x) \notin Key
    BY <1>1, <1>2
  <1>4. \A x : H!Nil # H!Dead(x)
    BY <1>2
  <1> QED BY <1>1, <1>2, <1>3, <1>4 DEF DeadKeys

\* The main position is a node, the same for tables with as many.
LEMMA MainPositionIs ==
    ASSUME NEW t, Len(t.node) \in Nat \ {0}, NEW k, Hashable(k)
    PROVE  /\ H!MainPosition(t, k) \in Nodes(t)
           /\ \A u : Len(u.node) = Len(t.node) => H!MainPosition(u, k) = H!MainPosition(t, k)
  <1> DEFINE L == Len(t.node)
             odd == IF L = 1 THEN 1 ELSE L - 1
  <1>1. L \in Nat /\ odd \in Nat /\ odd > 0 /\ odd <= L /\ L > 0
    <2>1. L \in Nat \ {0}
      OBVIOUS
    <2> HIDE DEF L
    <2> QED BY <2>1
  <1>2. \A h \in Nat : H!HashMod(t, h) = 1 + (h % odd) /\ H!HashPow2(t, h) = 1 + (h % L)
    BY DEF H!HashMod, H!HashPow2
  <1> HIDE DEF odd, L
  <1>3. ASSUME NEW h \in Nat PROVE H!HashMod(t, h) \in 1..L /\ H!HashPow2(t, h) \in 1..L
    <2>1. h % odd \in 0..(odd - 1) /\ h % L \in 0..(L - 1)
      BY <1>1
    <2> DEFINE a == h % odd
               b == h % L
    <2>2. a \in 0..(odd - 1) /\ b \in 0..(L - 1)
      BY <2>1
    <2> HIDE DEF a, b
    <2>3. 1 + a \in 1..L /\ 1 + b \in 1..L
      BY <1>1, <2>2
    <2> QED BY <1>2, <2>3 DEF a, b
  <1>4. CASE H!IsInt(k)
    <2>1. H!MainPosition(t, k) = IF k[2] <= 0 THEN 1 ELSE H!HashMod(t, H!DoubleWords(k[2]))
      BY <1>4 DEF H!MainPosition, H!IsInt
    <2>2. k[2] <= 0 \/ H!DoubleWords(k[2]) \in Nat
      BY DoubleWordsIsNumber DEF Hashable
    <2>3. H!MainPosition(t, k) \in 1..L
      BY <1>1, <1>3, <2>1, <2>2
    <2> QED BY <1>4, <2>3 DEF L, Nodes, H!MainPosition, H!IsInt, H!HashMod
  <1>5. CASE k[1] = "str"
    <2>1. H!MainPosition(t, k) = H!HashPow2(t, k[2])
      BY <1>5 DEF H!MainPosition, H!IsInt
    <2> QED BY <1>3, <1>5, <2>1 DEF L, Nodes, H!MainPosition, H!IsInt, H!HashPow2, Hashable
  <1>6. CASE k[1] = "obj"
    <2>1. H!MainPosition(t, k) = H!HashMod(t, k[2])
      BY <1>6 DEF H!MainPosition, H!IsInt
    <2> QED BY <1>3, <1>6, <2>1 DEF L, Nodes, H!MainPosition, H!IsInt, H!HashMod, Hashable
  <1> QED BY <1>4, <1>5, <1>6 DEF Hashable, H!Collectable

\* What a good table is made of.
LEMMA GoodIs ==
    ASSUME H!TableConstants, NEW t, Good(t)
    PROVE  /\ Len(t.node) \in Nat \ {0} /\ Len(t.array) \in Nat /\ Ranked(t)
           /\ DOMAIN t.array = 1..Len(t.array) /\ DOMAIN t.node = 1..Len(t.node)
           /\ \A i \in Nodes(t) : /\ t.node[i] \in NodeType
                                  /\ KeyOf(t, i) \in Key \cup DeadKeys \cup {H!Nil}
                                  /\ \/ ValOf(t, i) = H!Nil
                                     \/ ValOf(t, i) = KeyOf(t, i) /\ KeyOf(t, i) \in Key
           /\ \A s \in 1..Len(t.array) :
                t.array[s] = H!Nil \/ (t.array[s] = H!Numeral(s) /\ H!Numeral(s) \in Key)
           /\ \A k \in Key : H!MainPosition(t, k) \in Nodes(t)
  <1>1. t \in TableType /\ Len(t.node) > 0
    BY DEF Good, Typed
  <1>2. t.node \in Seq(NodeType) /\ t.array \in Seq(Key \cup {H!Nil})
    BY <1>1 DEF TableType
  <1>3. Len(t.node) \in Nat \ {0} /\ Len(t.array) \in Nat
    BY <1>1, <1>2
  <1>4. ASSUME NEW i \in Nodes(t)
        PROVE  t.node[i] \in NodeType /\ KeyOf(t, i) \in Key \cup DeadKeys \cup {H!Nil}
    <2>1. t.node[i] \in NodeType
      BY <1>2 DEF Nodes
    <2> QED BY <2>1 DEF NodeType, KeyOf
  <1>5. \A k \in Key : H!MainPosition(t, k) \in Nodes(t)
    BY <1>3, KeysAre, MainPositionIs
  <1> QED BY <1>2, <1>3, <1>4, <1>5 DEF Good, Filled

\* A search that succeeds ends at the key.
LEMMA FirstOfIs ==
    ASSUME H!TableConstants, NEW t, Good(t), NEW k, Hashable(k), NEW keys
    PROVE  \/ H!FirstOf(t, k, keys) = 0
           \/ \E i \in Nodes(t) : /\ i = H!Along(t, H!MainPosition(t, k), H!Holding(t, keys))
                                  /\ H!FirstOf(t, k, keys) = Len(t.array) + i /\ KeyOf(t, i) \in keys
  <1> DEFINE i == H!Along(t, H!MainPosition(t, k), H!Holding(t, keys))
  <1>1. i = 0 \/ i \in Nodes(t) \cap H!Holding(t, keys)
    <2>1. H!MainPosition(t, k) \in Nodes(t)
      BY GoodIs, MainPositionIs
    <2> QED BY <2>1, GoodIs, AlongStep
  <1>2. H!FirstOf(t, k, keys) = IF i = 0 THEN 0 ELSE Len(t.array) + i
    BY DEF H!FirstOf
  <1> HIDE DEF i
  <1>3. i = 0 \/ KeyOf(t, i) \in keys
    BY <1>1 DEF H!Holding, KeyOf
  <1> QED BY <1>1, <1>2, <1>3 DEF i

\* The slot of a key holds the key.
LEMMA SlotIs ==
    ASSUME H!TableConstants, NEW t, Good(t), NEW k, Hashable(k)
    PROVE  \/ H!Slot(t, k) = 0 /\ ~H!InArray(t, k)
           \/ /\ H!Slot(t, k) \in 1..Len(t.array) /\ H!InArray(t, k) /\ H!Slot(t, k) = k[2]
           \/ /\ ~H!InArray(t, k)
              /\ \E i \in Nodes(t) : H!Slot(t, k) = Len(t.array) + i /\ KeyOf(t, i) = k
  <1>1. CASE H!InArray(t, k)
    BY <1>1 DEF H!Slot, H!InArray
  <1>2. CASE ~H!InArray(t, k)
    <2>1. H!Slot(t, k) = H!FirstOf(t, k, {k})
      BY <1>2 DEF H!Slot
    <2>2. \/ H!FirstOf(t, k, {k}) = 0
          \/ \E i \in Nodes(t) : H!FirstOf(t, k, {k}) = Len(t.array) + i /\ KeyOf(t, i) \in {k}
      BY FirstOfIs
    <2> QED BY <1>2, <2>1, <2>2
  <1> QED BY <1>1, <1>2

\* In the words of the model: the key and the value of a slot of the array and of a
\* node.
LEMMA SlotsAre ==
    ASSUME H!TableConstants, NEW t, Good(t)
    PROVE  /\ H!Slots(t) = 1..(Len(t.array) + Len(t.node))
           /\ \A s \in 1..Len(t.array) :
                s \in H!Slots(t) /\ H!KeyAt(t, s) = H!Numeral(s) /\ H!Val(t, s) = t.array[s]
           /\ \A i \in Nodes(t) : /\ Len(t.array) + i \in H!Slots(t)
                                  /\ H!KeyAt(t, Len(t.array) + i) = KeyOf(t, i)
                                  /\ H!Val(t, Len(t.array) + i) = ValOf(t, i)
           /\ \A s \in H!Slots(t) : \/ s \in 1..Len(t.array)
                                    \/ /\ s - Len(t.array) \in Nodes(t)
                                       /\ s = Len(t.array) + (s - Len(t.array))
           /\ 0 \notin H!Slots(t) /\ H!Slots(t) \subseteq Nat
  <1>1. Len(t.array) \in Nat /\ Len(t.node) \in Nat
    BY GoodIs
  <1> DEFINE a == Len(t.array)
             L == Len(t.node)
  <1>2. ASSUME NEW i \in 1..L
        PROVE  a + i \in 1..(a + L) /\ ~(a + i <= a) /\ (a + i) - a = i
    <2>1. a \in Nat /\ L \in Nat
      BY <1>1
    <2> HIDE DEF a, L
    <2> QED BY <2>1
  <1>3. ASSUME NEW s \in 1..(a + L)
        PROVE  s \in 1..a \/ (s - a \in 1..L /\ s = a + (s - a))
    <2>1. a \in Nat /\ L \in Nat
      BY <1>1
    <2> HIDE DEF a, L
    <2> QED BY <2>1
  <1>4. \A s \in 1..a : s \in 1..(a + L) /\ s <= a
    <2>1. a \in Nat /\ L \in Nat
      BY <1>1
    <2> HIDE DEF a, L
    <2> QED BY <2>1
  <1>5. H!Slots(t) = 1..(a + L)
    BY DEF H!Slots
  <1>8. 0 \notin 1..(a + L) /\ 1..(a + L) \subseteq Nat
    <2>1. a \in Nat /\ L \in Nat
      BY <1>1
    <2> HIDE DEF a, L
    <2> QED BY <2>1
  <1>6. \A i \in 1..L : H!KeyAt(t, a + i) = KeyOf(t, i) /\ H!Val(t, a + i) = ValOf(t, i)
    BY <1>2 DEF H!KeyAt, H!Val, KeyOf, ValOf
  <1>7. \A s \in 1..a : H!KeyAt(t, s) = H!Numeral(s) /\ H!Val(t, s) = t.array[s]
    BY <1>4 DEF H!KeyAt, H!Val
  <1> QED BY <1>2, <1>3, <1>4, <1>5, <1>6, <1>7, <1>8 DEF Nodes

\* A key that has a node is found there.
LEMMA NodeIsFound ==
    ASSUME H!TableConstants, NEW t, Good(t), NEW i \in Nodes(t), KeyOf(t, i) \in Key
    PROVE  /\ H!Slot(t, KeyOf(t, i)) = Len(t.array) + i
           /\ H!FindIndex(t, KeyOf(t, i)) = Len(t.array) + i
           /\ ~H!InArray(t, KeyOf(t, i))
  <1> DEFINE k == KeyOf(t, i)
             m == H!MainPosition(t, k)
             wide == H!Holding(t, {k, H!Dead(k)})
             part == H!Holding(t, {k})
  <1>1. ~H!InArray(t, k) /\ H!Along(t, m, wide) = i
    BY DEF Good, Found
  <1>2. m \in Nodes(t) /\ i # 0 /\ i \in part /\ part \subseteq wide /\ Ranked(t)
    BY GoodIs DEF H!Holding, KeyOf, Nodes
  <1>3. H!Along(t, m, part) = i
    <2> HIDE DEF m, wide, part
    <2> QED BY <1>1, <1>2, AlongPart
  <1> QED BY <1>1, <1>2, <1>3 DEF H!Slot, H!FindIndex, H!FirstOf

\* A value is found under its key.
LEMMA LiveIsFound ==
    ASSUME H!TableConstants, NEW t, Good(t), NEW s \in H!Slots(t), H!Val(t, s) # H!Nil
    PROVE  /\ H!KeyAt(t, s) \in Key /\ H!Val(t, s) = H!KeyAt(t, s)
           /\ H!Slot(t, H!KeyAt(t, s)) = s /\ H!FindIndex(t, H!KeyAt(t, s)) = s
  <1>1. CASE s \in 1..Len(t.array)
    <2>1. H!KeyAt(t, s) = H!Numeral(s) /\ H!Val(t, s) = H!Numeral(s) /\ H!Numeral(s) \in Key
      BY <1>1, SlotsAre, GoodIs
    <2>2. H!IsInt(H!Numeral(s)) /\ H!Numeral(s)[2] = s
      BY DEF H!IsInt, H!Numeral
    <2> QED BY <1>1, <2>1, <2>2 DEF H!Slot, H!FindIndex, H!InArray
  <1>2. CASE s \notin 1..Len(t.array)
    <2> DEFINE i == s - Len(t.array)
    <2>1. i \in Nodes(t) /\ s = Len(t.array) + i
      BY <1>2, SlotsAre
    <2> HIDE DEF i
    <2>2. H!KeyAt(t, s) = KeyOf(t, i) /\ H!Val(t, s) = ValOf(t, i)
      BY <2>1, SlotsAre
    <2>3. ValOf(t, i) = KeyOf(t, i) /\ KeyOf(t, i) \in Key
      BY <2>1, <2>2, GoodIs
    <2> QED BY <2>1, <2>2, <2>3, NodeIsFound
  <1> QED BY <1>1, <1>2

\* What is in a table.
Holds(t) == {k \in Key : H!Get(t, k) # H!Nil}

\* It has a slot with its value.
LEMMA HoldsIs ==
    ASSUME H!TableConstants, NEW t, Good(t)
    PROVE  /\ \A s \in H!Slots(t) : H!Val(t, s) # H!Nil => H!KeyAt(t, s) \in Holds(t)
           /\ \A k \in Key : k \in Holds(t) <=> H!Slot(t, k) # 0 /\ H!Val(t, H!Slot(t, k)) # H!Nil
           /\ \A k \in Key : H!Slot(t, k) # 0 => H!Slot(t, k) \in H!Slots(t) /\ H!KeyAt(t, H!Slot(t, k)) = k
           /\ \A k \in Holds(t) : H!Get(t, k) = k
  <1>1. ASSUME NEW k \in Key, H!Slot(t, k) # 0
        PROVE  H!Slot(t, k) \in H!Slots(t) /\ H!KeyAt(t, H!Slot(t, k)) = k
    <2>1. Hashable(k)
      BY KeysAre
    <2>2. CASE H!InArray(t, k)
      <3>1. H!Slot(t, k) \in 1..Len(t.array) /\ H!Slot(t, k) = k[2] /\ k = H!Numeral(k[2])
        BY <2>1, <2>2, SlotIs DEF H!TableConstants, H!InArray, H!IsInt, H!Collectable
      <3> QED BY <3>1, SlotsAre
    <2>3. CASE ~H!InArray(t, k)
      <3>1. PICK i \in Nodes(t) : H!Slot(t, k) = Len(t.array) + i /\ KeyOf(t, i) = k
        BY <1>1, <2>1, <2>3, SlotIs
      <3> QED BY <3>1, SlotsAre
    <2> QED BY <2>2, <2>3
  <1>2. \A k \in Key : H!Get(t, k) = IF H!Slot(t, k) = 0 THEN H!Nil ELSE H!Val(t, H!Slot(t, k))
    BY DEF H!Get
  <1>3. ASSUME NEW s \in H!Slots(t), H!Val(t, s) # H!Nil PROVE H!KeyAt(t, s) \in Holds(t)
    <2>1. H!KeyAt(t, s) \in Key /\ H!Slot(t, H!KeyAt(t, s)) = s
      BY <1>3, LiveIsFound
    <2>2. s # 0
      BY GoodIs DEF H!Slots
    <2> QED BY <1>2, <1>3, <2>1, <2>2 DEF Holds
  <1>4. ASSUME NEW k \in Holds(t) PROVE H!Get(t, k) = k
    <2>1. k \in Key /\ H!Slot(t, k) # 0 /\ H!Val(t, H!Slot(t, k)) # H!Nil
      BY <1>2 DEF Holds
    <2>2. H!Slot(t, k) \in H!Slots(t) /\ H!KeyAt(t, H!Slot(t, k)) = k
      BY <1>1, <2>1
    <2> QED BY <1>2, <2>1, <2>2, LiveIsFound
  <1> QED BY <1>1, <1>2, <1>3, <1>4 DEF Holds

-----------------------------------------------------------------------------
(* Changes that keep the chains.                                            *)

SameChains(t, u) == /\ Len(u.node) = Len(t.node)
                    /\ \A i \in Nodes(t) : Onward(u, i) = Onward(t, i)

\* Searches go the same way.
LEMMA SameAlong ==
    ASSUME NEW t, NEW u, Ranked(t), SameChains(t, u)
    PROVE  Ranked(u) /\ \A p, S : H!Along(u, p, S) = H!Along(t, p, S)
  <1>1. PICK M, r : Ranks(t, r, M)
    BY DEF Ranked
  <1>2. Len(u.node) = Len(t.node) /\ Nodes(u) = Nodes(t) /\ Len(t.node) \in Nat
    BY OnwardIs DEF SameChains, Nodes
  <1>3. Ranks(u, r, M)
    BY <1>1, <1>2 DEF Ranks, SameChains
  <1>4. Ranked(u)
    BY <1>3 DEF Ranked
  <1>5. ASSUME NEW S PROVE \A p : H!Along(u, p, S) = H!Along(t, p, S)
    <2>1. PICK g : Firsts(t, S, g)
      BY FirstsExist
    <2>2. \A i \in 0..Len(t.node) : i = 0 \/ Onward(u, i) = Onward(t, i)
      BY <1>2 DEF SameChains, Nodes
    <2>3. Firsts(u, S, g)
      <3> DEFINE on(x, i) == IF i = 0 \/ i \in S THEN i ELSE g[Onward(x, i)]
      <3>1. \A i \in 0..Len(t.node) : on(u, i) = on(t, i)
        BY <2>2
      <3>2. g = [i \in 0..Len(t.node) |-> on(t, i)]
        BY <2>1 DEF Firsts
      <3> HIDE DEF on
      <3>3. g = [i \in 0..Len(t.node) |-> on(u, i)]
        BY <3>1, <3>2
      <3> QED BY <1>2, <3>3 DEF Firsts, on
    <2> QED BY <1>4, <2>1, <2>3, AlongIs
  <1> QED BY <1>4, <1>5

\* u has the nodes of t, of which some keys may have died.
Faded(t, u) ==
    /\ SameChains(t, u) /\ Len(u.array) = Len(t.array)
    /\ u \in TableType /\ Filled(u)
    /\ u.lastfree = t.lastfree /\ u.dummy = t.dummy /\ u.nested = t.nested
    /\ u.dummy => u.node = <<H!NoNode>>
    /\ \A i \in Nodes(t) : \/ KeyOf(u, i) = KeyOf(t, i)
                           \/ KeyOf(t, i) \in Key /\ KeyOf(u, i) = H!Dead(KeyOf(t, i))

\* It is as good, and keys dead or alive are found where they were.
LEMMA FadedIsGood ==
    ASSUME H!TableConstants, NEW t, Good(t), NEW u, Faded(t, u)
    PROVE  Good(u) /\ \A k \in Key : H!FindIndex(u, k) = H!FindIndex(t, k)
  <1>1. /\ Len(u.node) = Len(t.node) /\ Len(t.node) \in Nat \ {0} /\ Nodes(u) = Nodes(t)
        /\ Ranked(t) /\ SameChains(t, u)
    BY GoodIs DEF Faded, SameChains, Nodes
  <1>2. Ranked(u) /\ \A p, S : H!Along(u, p, S) = H!Along(t, p, S)
    BY <1>1, SameAlong
  <1>3. \A k : Hashable(k) => /\ H!MainPosition(u, k) = H!MainPosition(t, k)
                              /\ H!MainPosition(t, k) \in Nodes(t)
    BY <1>1, MainPositionIs
  <1>4. ASSUME NEW k \in Key PROVE H!Holding(u, {k, H!Dead(k)}) = H!Holding(t, {k, H!Dead(k)})
    <2>1. ASSUME NEW i \in Nodes(t)
          PROVE  KeyOf(u, i) \in {k, H!Dead(k)} <=> KeyOf(t, i) \in {k, H!Dead(k)}
      <3>1. CASE KeyOf(u, i) = KeyOf(t, i)
        BY <3>1
      <3>2. CASE KeyOf(t, i) \in Key /\ KeyOf(u, i) = H!Dead(KeyOf(t, i))
        BY <3>2, KeysAre
      <3> QED BY <3>1, <3>2 DEF Faded
    <2> QED BY <1>1, <2>1 DEF H!Holding, KeyOf, Nodes
  <1>5. \A k : H!InArray(u, k) <=> H!InArray(t, k)
    BY DEF Faded, H!InArray
  <1>6. ASSUME NEW k \in Key PROVE H!FindIndex(u, k) = H!FindIndex(t, k)
    <2>1. H!FirstOf(u, k, {k, H!Dead(k)}) = H!FirstOf(t, k, {k, H!Dead(k)})
      <3>1. H!MainPosition(u, k) = H!MainPosition(t, k)
        BY <1>3, KeysAre
      <3> QED BY <1>2, <1>4, <3>1 DEF H!FirstOf, Faded
    <2> QED BY <1>5, <2>1 DEF H!FindIndex
  <1>7. \A i \in Nodes(t) : KeyOf(u, i) \in Key => KeyOf(u, i) = KeyOf(t, i)
    BY KeysAre DEF Faded
  <1>8. Typed(u) /\ Filled(u)
    BY <1>1 DEF Faded, Typed
  <1>9. Apart(u)
    BY <1>1 DEF Apart, SameChains, Good
  <1>10. \A i \in Nodes(t) : KeyOf(u, i) = H!Nil <=> KeyOf(t, i) = H!Nil
    <2>1. \A k \in Key : H!Dead(k) # H!Nil /\ k # H!Nil
      BY KeysAre DEF DeadKeys
    <2> QED BY <2>1 DEF Faded
  <1>11. Loose(u)
    BY <1>1, <1>10 DEF Loose, SameChains, Good
  <1>12. LastFree(u)
    BY <1>1, <1>10 DEF LastFree, Good, Faded
  <1>13. Found(u)
    <2> SUFFICES ASSUME NEW i \in Nodes(t), KeyOf(u, i) \in Key
                 PROVE  /\ ~H!InArray(u, KeyOf(u, i))
                        /\ H!Along(u, H!MainPosition(u, KeyOf(u, i)),
                                   H!Holding(u, {KeyOf(u, i), H!Dead(KeyOf(u, i))})) = i
      BY <1>1 DEF Found
    <2>1. KeyOf(u, i) = KeyOf(t, i)
      BY <1>7
    <2>2. H!MainPosition(u, KeyOf(t, i)) = H!MainPosition(t, KeyOf(t, i))
      BY <1>3, <2>1, KeysAre
    <2>3. /\ ~H!InArray(t, KeyOf(t, i))
          /\ H!Along(t, H!MainPosition(t, KeyOf(t, i)),
                     H!Holding(t, {KeyOf(t, i), H!Dead(KeyOf(t, i))})) = i
      BY <2>1 DEF Good, Found
    <2> QED BY <1>2, <1>4, <1>5, <2>1, <2>2, <2>3
  <1>14. Home(u)
    <2> SUFFICES ASSUME NEW i \in Nodes(t), KeyOf(u, i) \in Key,
                        KeyOf(u, H!MainPosition(u, KeyOf(u, i))) \in Key
                 PROVE  H!MainPosition(u, KeyOf(u, H!MainPosition(u, KeyOf(u, i))))
                          = H!MainPosition(u, KeyOf(u, i))
      BY <1>1 DEF Home
    <2> DEFINE m == H!MainPosition(t, KeyOf(t, i))
    <2>1. KeyOf(u, i) = KeyOf(t, i)
      BY <1>7
    <2>2. H!MainPosition(u, KeyOf(u, i)) = m /\ m \in Nodes(t)
      BY <1>3, <2>1, KeysAre
    <2>3. KeyOf(u, m) = KeyOf(t, m) /\ KeyOf(t, m) \in Key
      BY <1>7, <2>2
    <2>4. H!MainPosition(t, KeyOf(t, m)) = m
      BY <2>1, <2>3 DEF Good, Home
    <2>5. H!MainPosition(u, KeyOf(t, m)) = m
      BY <1>3, <2>3, <2>4, KeysAre
    <2> HIDE DEF m
    <2> QED BY <2>2, <2>3, <2>5
  <1> QED BY <1>2, <1>6, <1>8, <1>9, <1>11, <1>12, <1>13, <1>14 DEF Good

\* u is t with v in slot s.
Stored(t, u, s, v) ==
    /\ Faded(t, u)
    /\ \A i \in Nodes(t) : KeyOf(u, i) = KeyOf(t, i)
    /\ \A x \in H!Slots(t) : H!Val(u, x) = IF x = s THEN v ELSE H!Val(t, x)

\* SetVal does that.
LEMMA SetValStores ==
    ASSUME H!TableConstants, NEW t, Good(t), NEW s \in H!Slots(t), H!KeyAt(t, s) \in Key,
           NEW v \in {H!KeyAt(t, s), H!Nil}
    PROVE  Stored(t, H!SetVal(t, s, v), s, v)
  <1> DEFINE a == Len(t.array)
             u == H!SetVal(t, s, v)
  <1>1. /\ t \in TableType /\ a \in Nat /\ Len(t.node) \in Nat \ {0}
        /\ t.array \in Seq(Key \cup {H!Nil}) /\ t.node \in Seq(NodeType)
    BY GoodIs DEF Good, Typed, TableType
  <1>2. v \in Key \cup {H!Nil}
    OBVIOUS
  <1>3. CASE s \in 1..a
    <2>1. u = [t EXCEPT !.array[s] = v] /\ H!KeyAt(t, s) = H!Numeral(s)
      BY <1>3 DEF H!SetVal, H!KeyAt
    <2> DEFINE b == [t.array EXCEPT ![s] = v]
    <2>2. /\ b \in Seq(Key \cup {H!Nil}) /\ Len(b) = a
          /\ \A x \in 1..a : b[x] = IF x = s THEN v ELSE t.array[x]
      BY <1>1, <1>2, <1>3
    <2>3. /\ u.array = b /\ u.node = t.node /\ u.lastfree = t.lastfree /\ u.dummy = t.dummy
          /\ u.nested = t.nested /\ u = [t EXCEPT !.array = b]
      BY <1>1, <2>1 DEF TableType
    <2>4. u \in TableType
      <3> HIDE DEF b, u
      <3> QED BY <1>1, <2>2, <2>3 DEF TableType
    <2> HIDE DEF b, u
    <2>5. Filled(u)
      <3>1. \A x \in 1..a : b[x] = H!Nil \/ (b[x] = H!Numeral(x) /\ H!Numeral(x) \in Key)
        BY <2>1, <2>2, GoodIs
      <3> QED BY <2>2, <2>3, <3>1 DEF Filled, Good, Nodes, ValOf, KeyOf
    <2>6. Faded(t, u)
      BY <2>2, <2>3, <2>4, <2>5 DEF Faded, SameChains, Onward, KeyOf, Good, LastFree
    <2>7. \A x \in H!Slots(t) : H!Val(u, x) = IF x = s THEN v ELSE H!Val(t, x)
      <3>1. ASSUME NEW x \in H!Slots(t) PROVE H!Val(u, x) = IF x = s THEN v ELSE H!Val(t, x)
        <4>1. CASE x \in 1..a
          <5>1. x <= a
            BY <1>1, <4>1
          <5> QED BY <2>2, <2>3, <4>1, <5>1 DEF H!Val
        <4>2. CASE x \notin 1..a
          <5>1. ~(x <= a) /\ x # s
            BY <1>1, <1>3, <4>2 DEF H!Slots
          <5> QED BY <2>2, <2>3, <5>1 DEF H!Val
        <4> QED BY <4>1, <4>2
      <3> QED BY <3>1
    <2> QED BY <2>3, <2>6, <2>7 DEF Stored, KeyOf, u
  <1>4. CASE s \notin 1..a
    <2> DEFINE i == s - a
    <2>1. i \in 1..Len(t.node) /\ s = a + i /\ ~(s <= a)
      <3>1. i \in 1..Len(t.node) /\ s = a + i
        BY <1>4, SlotsAre DEF Nodes
      <3> HIDE DEF i, a
      <3>2. ~(s <= a)
        BY <1>1, <3>1
      <3> QED BY <3>1, <3>2
    <2>2. u = [t EXCEPT !.node[i].val = v] /\ H!KeyAt(t, s) = t.node[i].key
      BY <2>1 DEF H!SetVal, H!KeyAt
    <2> HIDE DEF i
    <2> DEFINE n == [t.node[i] EXCEPT !.val = v]
               b == [t.node EXCEPT ![i] = n]
    <2>3. n \in NodeType /\ n.key = t.node[i].key /\ n.next = t.node[i].next /\ n.val = v
      <3>1. t.node[i] \in NodeType
        BY <1>1, <2>1
      <3> QED BY <1>2, <3>1 DEF NodeType
    <2> HIDE DEF n
    <2>4. /\ b \in Seq(NodeType) /\ Len(b) = Len(t.node)
          /\ \A x \in 1..Len(t.node) : b[x] = IF x = i THEN n ELSE t.node[x]
      BY <1>1, <2>1, <2>3
    <2>5. /\ u.array = t.array /\ u.node = b /\ u.lastfree = t.lastfree /\ u.dummy = t.dummy
          /\ u.nested = t.nested /\ u = [t EXCEPT !.node = b]
      BY <1>1, <2>1, <2>2 DEF TableType, n
    <2>6. u \in TableType
      <3> HIDE DEF b, u
      <3> QED BY <1>1, <2>4, <2>5 DEF TableType
    <2> HIDE DEF b, u
    <2>7. \A x \in Nodes(t) : /\ KeyOf(u, x) = KeyOf(t, x) /\ Onward(u, x) = Onward(t, x)
                              /\ ValOf(u, x) = IF x = i THEN v ELSE ValOf(t, x)
      BY <2>1, <2>3, <2>4, <2>5 DEF KeyOf, ValOf, Onward, Nodes
    <2>8. Filled(u)
      <3>1. \A x \in Nodes(t) : ValOf(u, x) = H!Nil \/ (ValOf(u, x) = KeyOf(u, x) /\ KeyOf(u, x) \in Key)
        <4>1. H!KeyAt(t, s) = KeyOf(t, i)
          BY <2>2 DEF KeyOf
        <4> QED BY <2>7, <4>1, GoodIs
      <3> QED BY <2>4, <2>5, <3>1, GoodIs DEF Filled, Nodes
    <2>9. ~t.dummy
      <3>1. t.node[i].key # H!Nil
        BY <2>2, KeysAre
      <3>2. t.node = <<H!NoNode>> => t.node[i].key = H!Nil
        BY <1>1, <2>1 DEF H!NoNode
      <3> QED BY <3>1, <3>2 DEF Good, LastFree
    <2>10. Faded(t, u)
      BY <2>4, <2>5, <2>6, <2>7, <2>8, <2>9 DEF Faded, SameChains
    <2>11. \A x \in H!Slots(t) : H!Val(u, x) = IF x = s THEN v ELSE H!Val(t, x)
      <3>1. ASSUME NEW x \in H!Slots(t) PROVE H!Val(u, x) = IF x = s THEN v ELSE H!Val(t, x)
        <4>1. CASE x \in 1..a
          <5>1. x <= a /\ x # s
            BY <1>1, <1>4, <4>1
          <5> QED BY <2>5, <5>1 DEF H!Val
        <4>2. CASE x \notin 1..a
          <5>1. ~(x <= a) /\ x - a \in Nodes(t) /\ (x = s <=> x - a = i)
            <6>1. x - a \in Nodes(t) /\ x = a + (x - a)
              BY <4>2, SlotsAre
            <6>2. x \in Nat /\ i \in Nat /\ x - a \in 1..Len(t.node)
              BY <1>1, <2>1, <6>1 DEF H!Slots, Nodes
            <6> HIDE DEF a
            <6>3. ~(x <= a) /\ (x = s <=> x - a = i)
              BY <1>1, <2>1, <6>1, <6>2
            <6> QED BY <6>1, <6>3
          <5> QED BY <2>5, <2>7, <5>1 DEF H!Val, ValOf
        <4> QED BY <4>1, <4>2
      <3> QED BY <3>1
    <2> QED BY <2>7, <2>10, <2>11 DEF Stored, u
  <1> QED BY <1>3, <1>4

\* What that changes: only what is found in the slot.
LEMMA StoredIs ==
    ASSUME H!TableConstants, NEW t, Good(t), NEW s \in H!Slots(t), H!KeyAt(t, s) \in Key,
           H!Slot(t, H!KeyAt(t, s)) = s, NEW v \in {H!KeyAt(t, s), H!Nil}, NEW u, Stored(t, u, s, v)
    PROVE  /\ Good(u) /\ \A k \in Key : H!FindIndex(u, k) = H!FindIndex(t, k)
           /\ \A k \in Key : H!Slot(u, k) = H!Slot(t, k)
           /\ H!Slots(u) = H!Slots(t) /\ \A x \in H!Slots(t) : H!KeyAt(u, x) = H!KeyAt(t, x)
           /\ Holds(u) = IF v = H!Nil THEN Holds(t) \ {H!KeyAt(t, s)} ELSE Holds(t) \cup {H!KeyAt(t, s)}
  <1>1. Good(u) /\ \A k \in Key : H!FindIndex(u, k) = H!FindIndex(t, k)
    BY FadedIsGood DEF Stored
  <1>2. /\ Len(u.node) = Len(t.node) /\ Len(u.array) = Len(t.array) /\ Nodes(u) = Nodes(t)
        /\ Len(t.node) \in Nat \ {0} /\ Ranked(t) /\ SameChains(t, u)
    BY GoodIs DEF Stored, Faded, SameChains, Nodes
  <1>3. \A p, S : H!Along(u, p, S) = H!Along(t, p, S)
    BY <1>2, SameAlong
  <1>4. \A keys : H!Holding(u, keys) = H!Holding(t, keys)
    BY <1>2 DEF Stored, H!Holding, KeyOf, Nodes
  <1>5. ASSUME NEW k \in Key PROVE H!Slot(u, k) = H!Slot(t, k)
    <2>1. H!MainPosition(u, k) = H!MainPosition(t, k)
      BY <1>2, KeysAre, MainPositionIs
    <2> QED BY <1>2, <1>3, <1>4, <2>1 DEF H!Slot, H!FirstOf, H!InArray
  <1>6. H!Slots(u) = H!Slots(t)
    BY <1>2 DEF H!Slots
  <1>7. ASSUME NEW x \in H!Slots(t) PROVE H!KeyAt(u, x) = H!KeyAt(t, x)
    <2>1. CASE x \in 1..Len(t.array)
      BY <1>1, <1>2, <2>1, SlotsAre
    <2>2. CASE x \notin 1..Len(t.array)
      <3>1. x - Len(t.array) \in Nodes(t) /\ x = Len(t.array) + (x - Len(t.array))
        BY <2>2, SlotsAre
      <3> DEFINE i == x - Len(t.array)
      <3> HIDE DEF i
      <3>2. i \in Nodes(t) /\ x = Len(t.array) + i
        BY <3>1 DEF i
      <3>3. H!KeyAt(u, x) = KeyOf(u, i) /\ H!KeyAt(t, x) = KeyOf(t, i)
        BY <1>1, <1>2, <3>2, SlotsAre
      <3> QED BY <3>2, <3>3 DEF Stored
    <2> QED BY <2>1, <2>2
  <1>8. Holds(u) = IF v = H!Nil THEN Holds(t) \ {H!KeyAt(t, s)} ELSE Holds(t) \cup {H!KeyAt(t, s)}
    <2>1. ASSUME NEW k \in Key
          PROVE  k \in Holds(u) <=> IF k = H!KeyAt(t, s) THEN v # H!Nil ELSE k \in Holds(t)
      <3>1. k \in Holds(u) <=> H!Slot(t, k) # 0 /\ H!Val(u, H!Slot(t, k)) # H!Nil
        BY <1>1, <1>5, HoldsIs
      <3>2. k \in Holds(t) <=> H!Slot(t, k) # 0 /\ H!Val(t, H!Slot(t, k)) # H!Nil
        BY HoldsIs
      <3>3. H!Slot(t, k) # 0 => H!Slot(t, k) \in H!Slots(t) /\ H!KeyAt(t, H!Slot(t, k)) = k
        BY HoldsIs
      <3>4. s # 0
        <4>1. 0 \notin H!Slots(t)
          BY SlotsAre
        <4> QED BY <4>1
      <3>5. \A x \in H!Slots(t) : H!Val(u, x) = IF x = s THEN v ELSE H!Val(t, x)
        BY DEF Stored
      <3> QED BY <3>5, <3>1, <3>2, <3>3, <3>4
    <2>2. Holds(u) \subseteq Key /\ Holds(t) \subseteq Key
      BY DEF Holds
    <2> QED BY <2>1, <2>2
  <1> QED BY <1>1, <1>5, <1>6, <1>7, <1>8

-----------------------------------------------------------------------------
(* Insertion.                                                               *)

\* getfreepos finds a node without a key, the last one; when it finds none there is none.
LEMMA FreePos ==
    ASSUME H!TableConstants, NEW t, Good(t)
    PROVE  LET n == H!GetFreePos(t)
           IN  \/ n = 0 /\ (t.dummy \/ \A i \in Nodes(t) : KeyOf(t, i) # H!Nil)
               \/ /\ ~t.dummy /\ n \in Nodes(t) /\ KeyOf(t, n) = H!Nil
                  /\ \A i \in Nodes(t) : i > n => KeyOf(t, i) # H!Nil
  <1> DEFINE free == {i \in 1..(t.lastfree - 1) : t.node[i].key = H!Nil}
             n == H!GetFreePos(t)
  <1>1. Len(t.node) \in Nat \ {0}
    BY GoodIs
  <1>2. n = IF free = {} THEN 0 ELSE CHOOSE i \in free : \A j \in free : j <= i
    BY DEF H!GetFreePos
  <1>3. CASE t.dummy
    <2>1. t.lastfree = 1
      BY <1>3 DEF Good, LastFree
    <2>2. free = {}
      BY <2>1
    <2> QED BY <1>2, <1>3, <2>2
  <1>4. CASE ~t.dummy
    <2>1. t.lastfree \in 1..(Len(t.node) + 1) /\ \A i \in Nodes(t) : i >= t.lastfree => KeyOf(t, i) # H!Nil
      BY <1>4 DEF Good, LastFree
    <2>2. t.lastfree - 1 \in Nat /\ t.lastfree - 1 <= Len(t.node)
      BY <1>1, <2>1
    <2>3. \A i \in Nodes(t) : i \in free <=> i < t.lastfree /\ KeyOf(t, i) = H!Nil
      BY <1>1, <2>1 DEF Nodes, KeyOf
    <2>4. free \subseteq Nodes(t)
      BY <1>1, <2>2 DEF Nodes
    <2>5. CASE free = {}
      <3>1. ASSUME NEW i \in Nodes(t) PROVE KeyOf(t, i) # H!Nil
        <4>1. i < t.lastfree \/ i >= t.lastfree
          BY <1>1, <2>1 DEF Nodes
        <4> QED BY <2>1, <2>3, <2>5, <4>1
      <3> QED BY <1>2, <2>5, <3>1
    <2>6. CASE free # {}
      <3>1. \E i \in free : \A j \in free : j <= i
        BY <2>2, <2>6, Greatest
      <3>2. n \in free /\ \A j \in free : j <= n
        BY <1>2, <2>6, <3>1
      <3> HIDE DEF n
      <3>3. ASSUME NEW i \in Nodes(t), i > n PROVE KeyOf(t, i) # H!Nil
        <4>1. i \in Nat /\ n \in Nat /\ ~(i <= n)
          BY <1>1, <2>4, <3>2, <3>3 DEF Nodes
        <4>2. i \notin free
          <5> HIDE DEF free
          <5> QED BY <3>2, <4>1
        <4>3. i < t.lastfree \/ i >= t.lastfree
          BY <1>1, <2>1 DEF Nodes
        <4> QED BY <2>1, <2>3, <4>2, <4>3
      <3> QED BY <1>4, <2>3, <2>4, <3>2, <3>3 DEF n
    <2> QED BY <2>5, <2>6
  <1> QED BY <1>3, <1>4

\* u has as many nodes as t and the same array.
Alike(t, u) == /\ u \in TableType /\ Len(u.node) = Len(t.node) /\ u.array = t.array
               /\ u.dummy = t.dummy /\ u.nested = t.nested

LEMMA AlikeIs ==
    ASSUME H!TableConstants, NEW t, Good(t), NEW u, Alike(t, u)
    PROVE  /\ Nodes(u) = Nodes(t) /\ Typed(u) /\ Len(u.node) = Len(t.node) /\ u.array = t.array
           /\ Len(t.node) \in Nat \ {0}
           /\ \A k \in Key : /\ H!MainPosition(u, k) = H!MainPosition(t, k)
                             /\ H!MainPosition(t, k) \in Nodes(t)
                             /\ H!InArray(u, k) <=> H!InArray(t, k)
  <1>1. Len(t.node) \in Nat \ {0} /\ Len(u.node) = Len(t.node)
    BY GoodIs DEF Alike
  <1>2. \A k \in Key : /\ H!MainPosition(u, k) = H!MainPosition(t, k)
                       /\ H!MainPosition(t, k) \in Nodes(t)
    BY <1>1, KeysAre, MainPositionIs
  <1> QED BY <1>1, <1>2 DEF Alike, Nodes, Typed, H!InArray

\* The main position m is free: k replaces the key there, which has lost its value.
Replaced(t, u, k, m) ==
    /\ Alike(t, u) /\ u.lastfree = t.lastfree
    /\ \A i \in Nodes(t) : /\ Onward(u, i) = Onward(t, i) /\ ValOf(u, i) = ValOf(t, i)
                           /\ KeyOf(u, i) = IF i = m THEN k ELSE KeyOf(t, i)

LEMMA ReplacedIsGood ==
    ASSUME H!TableConstants, NEW t, Good(t), ~t.dummy, NEW k \in Key, ~H!InArray(t, k),
           \A i \in Nodes(t) : KeyOf(t, i) # k,
           ValOf(t, H!MainPosition(t, k)) = H!Nil,
           NEW u, Replaced(t, u, k, H!MainPosition(t, k))
    PROVE  Good(u)
  <1> DEFINE m == H!MainPosition(t, k)
  <1>1. /\ Nodes(u) = Nodes(t) /\ Typed(u) /\ Len(u.node) = Len(t.node) /\ u.array = t.array
        /\ \A x \in Key : /\ H!MainPosition(u, x) = H!MainPosition(t, x)
                          /\ H!MainPosition(t, x) \in Nodes(t)
                          /\ H!InArray(u, x) <=> H!InArray(t, x)
    BY AlikeIs DEF Replaced
  <1>2. m \in Nodes(t) /\ Ranked(t)
    BY <1>1, GoodIs
  <1>3. /\ u.lastfree = t.lastfree /\ u.dummy = t.dummy
        /\ \A i \in Nodes(t) : /\ Onward(u, i) = Onward(t, i) /\ ValOf(u, i) = ValOf(t, i)
                               /\ KeyOf(u, i) = IF i = m THEN k ELSE KeyOf(t, i)
    BY DEF Replaced, Alike
  <1>4. ValOf(t, m) = H!Nil /\ k # H!Nil
    BY KeysAre
  <1>5. Ranked(u) /\ \A p, S : H!Along(u, p, S) = H!Along(t, p, S)
    BY <1>1, <1>2, <1>3, SameAlong DEF SameChains
  <1> HIDE DEF m
  <1>6. Filled(u)
    BY <1>1, <1>3, <1>4 DEF Filled, Good
  <1>7. Apart(u)
    BY <1>1, <1>3 DEF Apart, Good
  <1>8. Loose(u)
    BY <1>1, <1>3, <1>4 DEF Loose, Good
  <1>9. LastFree(u)
    BY <1>1, <1>3, <1>4 DEF LastFree, Good
  <1>10. Found(u)
    <2> SUFFICES ASSUME NEW i \in Nodes(t), KeyOf(u, i) \in Key
                 PROVE  /\ ~H!InArray(u, KeyOf(u, i))
                        /\ H!Along(u, H!MainPosition(u, KeyOf(u, i)),
                                   H!Holding(u, {KeyOf(u, i), H!Dead(KeyOf(u, i))})) = i
      BY <1>1 DEF Found
    <2>1. CASE i = m
      <3>1. KeyOf(u, i) = k /\ H!MainPosition(u, k) = m
        BY <1>1, <1>2, <1>3, <2>1 DEF m
      <3>2. m \in H!Holding(u, {k, H!Dead(k)})
        BY <1>1, <1>2, <2>1, <3>1 DEF H!Holding, KeyOf, Nodes
      <3>3. H!Along(u, m, H!Holding(u, {k, H!Dead(k)})) = m
        <4> DEFINE S == H!Holding(u, {k, H!Dead(k)})
        <4>1. m \in Nodes(u) /\ m \in S /\ Ranked(u)
          BY <1>1, <1>2, <1>5, <3>2
        <4> HIDE DEF S
        <4>2. H!Along(u, m, S) = m
          BY <4>1, AlongStep
        <4> QED BY <4>2 DEF S
      <3> QED BY <1>1, <2>1, <3>1, <3>3
    <2>2. CASE i # m
      <3> DEFINE x == KeyOf(t, i)
                 S == H!Holding(t, {x, H!Dead(x)})
                 Q == H!Holding(u, {x, H!Dead(x)})
      <3>1. KeyOf(u, i) = x /\ x \in Key /\ x # k
        BY <1>3, <2>2
      <3>2. ~H!InArray(t, x) /\ H!Along(t, H!MainPosition(t, x), S) = i
        BY <3>1 DEF Good, Found
      <3>3. k # x /\ k # H!Dead(x)
        BY <3>1, KeysAre DEF DeadKeys
      <3>4. Q \subseteq S /\ i \in Q
        BY <1>1, <1>3, <3>1, <3>3 DEF H!Holding, KeyOf, Nodes
      <3>5. H!MainPosition(t, x) \in Nodes(t) /\ H!MainPosition(u, x) = H!MainPosition(t, x)
            /\ ~H!InArray(u, x)
        BY <1>1, <3>1, <3>2
      <3>6. i # 0
        BY <1>1 DEF Nodes
      <3> HIDE DEF x, S, Q
      <3>7. H!Along(t, H!MainPosition(t, x), Q) = i
        BY <1>2, <3>2, <3>4, <3>5, <3>6, AlongPart
      <3> QED BY <1>5, <3>1, <3>5, <3>7 DEF Q
    <2> QED BY <2>1, <2>2
  <1>11. Home(u)
    <2> SUFFICES ASSUME NEW i \in Nodes(t), KeyOf(u, i) \in Key,
                        KeyOf(u, H!MainPosition(u, KeyOf(u, i))) \in Key
                 PROVE  H!MainPosition(u, KeyOf(u, H!MainPosition(u, KeyOf(u, i))))
                          = H!MainPosition(u, KeyOf(u, i))
      BY <1>1 DEF Home
    <2> DEFINE x == KeyOf(u, i)
               q == H!MainPosition(t, x)
    <2>1. H!MainPosition(u, x) = q /\ q \in Nodes(t)
      BY <1>1
    <2>2. CASE q = m
      <3>1. KeyOf(u, m) = k /\ H!MainPosition(u, k) = m
        BY <1>1, <1>2, <1>3 DEF m
      <3> QED BY <2>1, <2>2, <3>1
    <2>3. CASE q # m
      <3>1. KeyOf(u, q) = KeyOf(t, q) /\ KeyOf(t, q) \in Key
        BY <1>3, <2>1, <2>3
      <3>2. i # m
        BY <1>3, <2>3 DEF m
      <3>3. x = KeyOf(t, i) /\ x \in Key
        BY <1>3, <3>2
      <3>4. H!MainPosition(t, KeyOf(t, q)) = q
        BY <3>1, <3>3 DEF Good, Home
      <3>5. H!MainPosition(u, KeyOf(t, q)) = q
        BY <1>1, <3>1, <3>4
      <3> HIDE DEF q
      <3> QED BY <2>1, <3>1, <3>5
    <2> QED BY <2>2, <2>3
  <1> QED BY <1>1, <1>5, <1>6, <1>7, <1>8, <1>9, <1>10, <1>11 DEF Good

\* The key in the main position m is in its own: k takes the free node n behind it.
Chained(t, u, k, m, n) ==
    /\ Alike(t, u) /\ u.lastfree = n
    /\ \A i \in Nodes(t) :
         /\ Onward(u, i) = IF i = n THEN Onward(t, m) ELSE IF i = m THEN n ELSE Onward(t, i)
         /\ ValOf(u, i) = ValOf(t, i)
         /\ KeyOf(u, i) = IF i = n THEN k ELSE KeyOf(t, i)

\* The ranks make room for n before m.
LEMMA ChainedIsRanked ==
    ASSUME H!TableConstants, NEW t, Good(t), NEW k, NEW m \in Nodes(t), NEW n \in Nodes(t), m # n,
           KeyOf(t, n) = H!Nil, NEW u, Chained(t, u, k, m, n)
    PROVE  Ranked(u)
  <1>1. PICK M, r : Ranks(t, r, M)
    BY GoodIs DEF Ranked
  <1> DEFINE q == [i \in Nodes(t) |-> IF i = n THEN 2 * r[m] ELSE 2 * r[i] + 1]
  <1>2. M \in Nat /\ Len(t.node) \in Nat /\ Nodes(u) = Nodes(t) /\ Len(u.node) = Len(t.node)
    BY <1>1 DEF Ranks, Chained, Alike, Nodes
  <1>3. \A i \in Nodes(t) : r[i] \in 0..M /\ r[i] \in Nat
    BY <1>1 DEF Ranks
  <1>4. \A i \in Nodes(t) : Onward(t, i) = 0 \/ (Onward(t, i) \in Nodes(t) /\ r[Onward(t, i)] < r[i])
    BY <1>1 DEF Ranks, Nodes
  <1>5. \A i \in Nodes(t) : Onward(t, i) # n
    BY DEF Good, Loose
  <1>6. \A i \in Nodes(t) : Onward(u, i) = IF i = n THEN Onward(t, m) ELSE IF i = m THEN n ELSE Onward(t, i)
    BY DEF Chained
  <1>7. 2 * M + 1 \in Nat /\ q \in [Nodes(t) -> 0..(2 * M + 1)]
    <2>1. ASSUME NEW i \in Nodes(t)
          PROVE  2 * r[i] \in 0..(2 * M + 1) /\ 2 * r[i] + 1 \in 0..(2 * M + 1)
      <3> DEFINE x == r[i]
      <3>1. x \in 0..M
        BY <1>3
      <3> HIDE DEF x
      <3>2. 2 * x \in 0..(2 * M + 1) /\ 2 * x + 1 \in 0..(2 * M + 1)
        BY <1>2, <3>1
      <3> QED BY <3>2 DEF x
    <2> QED BY <1>2, <2>1
  <1>8. ASSUME NEW i \in Nodes(t), Onward(u, i) # 0
        PROVE  Onward(u, i) \in Nodes(t) /\ q[Onward(u, i)] < q[i]
    <2>1. CASE i = n
      <3>1. Onward(u, i) = Onward(t, m) /\ Onward(t, m) \in Nodes(t)
        BY <1>4, <1>6, <1>8, <2>1
      <3> DEFINE j == Onward(t, m)
                 x == r[j]
                 y == r[m]
      <3>2. x < y /\ x \in Nat /\ y \in Nat
        BY <1>3, <1>4, <3>1, <1>8
      <3>3. q[i] = 2 * y /\ q[j] = 2 * x + 1
        BY <1>5, <2>1, <3>1
      <3> HIDE DEF j, x, y
      <3>4. 2 * x + 1 < 2 * y
        BY ONLY <3>2
      <3> QED BY <3>1, <3>3, <3>4 DEF j
    <2>2. CASE i # n /\ i = m
      <3> DEFINE y == r[m]
      <3>1. Onward(u, i) = n /\ q[n] = 2 * y /\ q[i] = 2 * y + 1 /\ y \in Nat
        BY <1>3, <1>6, <2>2
      <3> HIDE DEF y, q
      <3> QED BY <3>1
    <2>3. CASE i # n /\ i # m
      <3> DEFINE j == Onward(t, i)
                 x == r[j]
                 y == r[i]
      <3>1. Onward(u, i) = j /\ j \in Nodes(t) /\ j # n
        BY <1>4, <1>5, <1>6, <1>8, <2>3
      <3>2. x < y /\ x \in Nat /\ y \in Nat
        BY <1>3, <1>4, <3>1, <1>8
      <3>3. q[i] = 2 * y + 1 /\ q[j] = 2 * x + 1
        BY <2>3, <3>1
      <3> HIDE DEF j, x, y
      <3>4. 2 * x + 1 < 2 * y + 1
        BY ONLY <3>2
      <3> QED BY <3>1, <3>3, <3>4
    <2> QED BY <2>1, <2>2, <2>3
  <1> HIDE DEF q
  <1>9. Ranks(u, q, 2 * M + 1)
    BY <1>2, <1>7, <1>8 DEF Ranks, Nodes
  <1> QED BY <1>9 DEF Ranked

\* Searches for other keys end as before.
LEMMA ChainedAlong ==
    ASSUME H!TableConstants, NEW t, Good(t), NEW k, NEW m \in Nodes(t), NEW n \in Nodes(t), m # n,
           KeyOf(t, n) = H!Nil, NEW u, Chained(t, u, k, m, n), NEW S, n \notin S
    PROVE  \A p \in Nodes(t) : p # n => H!Along(u, p, S) = H!Along(t, p, S)
  <1>1. Ranked(t) /\ Ranked(u)
    BY ChainedIsRanked, GoodIs
  <1>2. Nodes(u) = Nodes(t)
    BY DEF Chained, Alike, Nodes
  <1>3. /\ H!Along(t, 0, S) = 0 /\ H!Along(u, 0, S) = 0
        /\ \A p \in Nodes(t) : H!Along(t, p, S) = IF p \in S THEN p ELSE H!Along(t, Onward(t, p), S)
        /\ \A p \in Nodes(t) : H!Along(u, p, S) = IF p \in S THEN p ELSE H!Along(u, Onward(u, p), S)
    BY <1>1, <1>2, AlongStep
  <1>4. \A i \in Nodes(t) : Onward(t, i) # n
    BY DEF Good, Loose
  <1>5. \A i \in Nodes(t) : Onward(u, i) = IF i = n THEN Onward(t, m) ELSE IF i = m THEN n ELSE Onward(t, i)
    BY DEF Chained
  <1> DEFINE X == {p \in Nodes(t) : p # n => H!Along(u, p, S) = H!Along(t, p, S)}
  <1>6. ASSUME NEW p \in Nodes(t), Onward(t, p) = 0 \/ Onward(t, p) \in X PROVE p \in X
    <2>1. H!Along(u, Onward(t, p), S) = H!Along(t, Onward(t, p), S)
      BY <1>3, <1>4, <1>6
    <2>2. CASE p = n
      BY <2>2
    <2>3. CASE p = m
      <3>1. H!Along(u, n, S) = H!Along(u, Onward(t, m), S) /\ Onward(u, m) = n
        BY <1>3, <1>5
      <3> QED BY <1>3, <2>1, <2>3, <3>1
    <2>4. CASE p # m /\ p # n
      BY <1>3, <1>5, <2>1, <2>4
    <2> QED BY <2>2, <2>3, <2>4
  <1>7. \A p \in Nodes(t) : p \in X
    <2> HIDE DEF X
    <2> QED BY <1>1, <1>6, ChainInduction
  <1> QED BY <1>7

LEMMA ChainedIsGood ==
    ASSUME H!TableConstants, NEW t, Good(t), ~t.dummy, NEW k \in Key, ~H!InArray(t, k),
           \A i \in Nodes(t) : KeyOf(t, i) # k,
           NEW m, m = H!MainPosition(t, k), ValOf(t, m) # H!Nil, H!MainPosition(t, KeyOf(t, m)) = m,
           NEW n \in Nodes(t), KeyOf(t, n) = H!Nil, \A i \in Nodes(t) : i > n => KeyOf(t, i) # H!Nil,
           NEW u, Chained(t, u, k, m, n)
    PROVE  Good(u) /\ ValOf(u, n) = H!Nil
  <1>1. /\ Nodes(u) = Nodes(t) /\ Typed(u) /\ Len(u.node) = Len(t.node) /\ u.array = t.array
        /\ \A x \in Key : /\ H!MainPosition(u, x) = H!MainPosition(t, x)
                          /\ H!MainPosition(t, x) \in Nodes(t)
                          /\ H!InArray(u, x) <=> H!InArray(t, x)
        /\ Len(t.node) \in Nat \ {0}
    BY AlikeIs DEF Chained
  <1>2. m \in Nodes(t) /\ KeyOf(t, m) \in Key /\ ValOf(t, n) = H!Nil
    BY <1>1, GoodIs, KeysAre
  <1>3. /\ u.lastfree = n /\ u.dummy = t.dummy
        /\ \A i \in Nodes(t) :
             /\ Onward(u, i) = IF i = n THEN Onward(t, m) ELSE IF i = m THEN n ELSE Onward(t, i)
             /\ ValOf(u, i) = ValOf(t, i)
             /\ KeyOf(u, i) = IF i = n THEN k ELSE KeyOf(t, i)
    BY DEF Chained, Alike
  <1>4. m # n /\ k # H!Nil /\ H!Nil \notin Key
    BY <1>2, KeysAre
  <1>5. Ranked(t) /\ Ranked(u)
    BY <1>2, <1>4, ChainedIsRanked, GoodIs
  <1>6. /\ Onward(t, n) = 0 /\ \A i \in Nodes(t) : Onward(t, i) # n
    BY DEF Good, Loose
  <1>7. Filled(u)
    BY <1>1, <1>2, <1>3 DEF Filled, Good
  <1>8. Apart(u)
    <2> SUFFICES ASSUME NEW i \in Nodes(t), NEW j \in Nodes(t), Onward(u, i) = Onward(u, j)
                 PROVE  Onward(u, i) = 0 \/ i = j
      BY <1>1 DEF Apart
    <2>1. \A x, y \in Nodes(t) : Onward(t, x) = Onward(t, y) => Onward(t, x) = 0 \/ x = y
      BY DEF Good, Apart
    <2> QED BY <1>2, <1>3, <1>4, <1>6, <2>1
  <1>9. Loose(u)
    <2> SUFFICES ASSUME NEW i \in Nodes(t), KeyOf(u, i) = H!Nil
                 PROVE  Onward(u, i) = 0 /\ \A j \in Nodes(t) : Onward(u, j) # i
      BY <1>1 DEF Loose
    <2>1. i # n /\ KeyOf(t, i) = H!Nil /\ i # m
      BY <1>2, <1>3, <1>4
    <2>2. Onward(t, i) = 0 /\ \A j \in Nodes(t) : Onward(t, j) # i
      BY <2>1 DEF Good, Loose
    <2> QED BY <1>2, <1>3, <2>1, <2>2
  <1>10. LastFree(u)
    <2>1. n \in 1..(Len(t.node) + 1) /\ n \in Nat
      BY <1>1 DEF Nodes
    <2>2. ASSUME NEW i \in Nodes(t), i >= n PROVE KeyOf(u, i) # H!Nil
      <3>1. i = n \/ i > n
        BY <1>1, <2>1, <2>2 DEF Nodes
      <3> QED BY <1>3, <1>4, <3>1
    <2> QED BY <1>1, <1>3, <2>1, <2>2 DEF LastFree
  <1>11. Found(u)
    <2> SUFFICES ASSUME NEW i \in Nodes(t), KeyOf(u, i) \in Key
                 PROVE  /\ ~H!InArray(u, KeyOf(u, i))
                        /\ H!Along(u, H!MainPosition(u, KeyOf(u, i)),
                                   H!Holding(u, {KeyOf(u, i), H!Dead(KeyOf(u, i))})) = i
      BY <1>1 DEF Found
    <2> DEFINE x == KeyOf(u, i)
               S == H!Holding(t, {x, H!Dead(x)})
               Q == H!Holding(u, {x, H!Dead(x)})
    <2>1. \A j \in Nodes(t) : /\ j \in S <=> KeyOf(t, j) \in {x, H!Dead(x)}
                              /\ j \in Q <=> KeyOf(u, j) \in {x, H!Dead(x)}
      BY <1>1 DEF H!Holding, KeyOf, Nodes
    <2>2. x \in Key /\ x # H!Nil /\ H!Dead(x) # H!Nil /\ \A y \in Key : y # H!Dead(x)
      BY KeysAre DEF DeadKeys
    <2>3. n \notin S
      BY <2>1, <2>2
    <2>4. H!MainPosition(u, x) = H!MainPosition(t, x) /\ H!MainPosition(t, x) \in Nodes(t)
          /\ (H!InArray(u, x) <=> H!InArray(t, x))
      BY <1>1
    <2>5. CASE i = n
      <3>1. x = k
        BY <1>3, <2>5
      <3>2. m \notin Q /\ n \in Q
        BY <1>2, <1>3, <1>4, <2>1, <2>2, <3>1
      <3>3. H!Along(u, m, Q) = H!Along(u, Onward(u, m), Q) /\ Onward(u, m) = n /\ H!Along(u, n, Q) = n
        <4> HIDE DEF Q
        <4> QED BY <1>1, <1>2, <1>3, <1>4, <1>5, <3>2, AlongStep
      <3> HIDE DEF x, Q
      <3> QED BY <2>4, <2>5, <3>1, <3>3 DEF x, Q
    <2>6. CASE i # n
      <3>1. x = KeyOf(t, i) /\ x # k
        BY <1>3, <2>6
      <3>2. ~H!InArray(t, x) /\ H!Along(t, H!MainPosition(t, x), S) = i
        BY <2>2, <3>1 DEF Good, Found
      <3>3. Q = S
        <4>1. \A j \in Nodes(t) : j \in Q <=> j \in S
          BY <1>3, <2>1, <2>2, <2>3, <3>1
        <4> QED BY <1>1, <4>1 DEF H!Holding, Nodes
      <3>4. H!MainPosition(t, x) # n
        <4> HIDE DEF x, S
        <4>1. H!Along(t, n, S) = H!Along(t, 0, S) /\ H!Along(t, 0, S) = 0 /\ i # 0
          BY <1>1, <1>5, <1>6, <2>3, AlongStep DEF Nodes
        <4> QED BY <3>2, <4>1
      <3>5. H!Along(u, H!MainPosition(t, x), S) = i
        <4> HIDE DEF x, S
        <4> QED BY <1>2, <1>4, <2>3, <2>4, <3>2, <3>4, ChainedAlong
      <3> HIDE DEF x, S, Q
      <3> QED BY <2>4, <3>2, <3>3, <3>5 DEF x, Q
    <2> QED BY <2>5, <2>6
  <1>12. Home(u)
    <2> SUFFICES ASSUME NEW i \in Nodes(t), KeyOf(u, i) \in Key,
                        KeyOf(u, H!MainPosition(u, KeyOf(u, i))) \in Key
                 PROVE  H!MainPosition(u, KeyOf(u, H!MainPosition(u, KeyOf(u, i))))
                          = H!MainPosition(u, KeyOf(u, i))
      BY <1>1 DEF Home
    <2> DEFINE x == KeyOf(u, i)
               q == H!MainPosition(t, x)
    <2>1. H!MainPosition(u, x) = q /\ q \in Nodes(t)
      BY <1>1
    <2>2. CASE i = n
      <3>1. x = k /\ q = m /\ KeyOf(u, m) = KeyOf(t, m)
        BY <1>2, <1>3, <1>4, <2>2
      <3> QED BY <1>1, <1>2, <2>1, <3>1
    <2>3. CASE i # n
      <3>1. x = KeyOf(t, i) /\ x \in Key
        BY <1>3, <2>3
      <3>2. q # n
        <4> DEFINE S == H!Holding(t, {x, H!Dead(x)})
        <4>1. H!Along(t, q, S) = i
          BY <3>1 DEF Good, Found
        <4>2. n \notin S
          <5>1. x # H!Nil /\ H!Dead(x) # H!Nil
            BY <3>1, KeysAre DEF DeadKeys
          <5> QED BY <5>1 DEF H!Holding, KeyOf
        <4> HIDE DEF x, q, S
        <4>3. H!Along(t, n, S) = H!Along(t, 0, S) /\ H!Along(t, 0, S) = 0 /\ i # 0
          BY <1>1, <1>5, <1>6, <4>2, AlongStep DEF Nodes
        <4> QED BY <4>1, <4>3
      <3>3. KeyOf(u, q) = KeyOf(t, q) /\ KeyOf(t, q) \in Key
        BY <1>3, <2>1, <3>2
      <3>4. H!MainPosition(t, KeyOf(t, q)) = q
        BY <3>1, <3>3 DEF Good, Home
      <3>5. H!MainPosition(u, KeyOf(t, q)) = q
        BY <1>1, <3>3, <3>4
      <3> HIDE DEF q
      <3> QED BY <2>1, <3>3, <3>5
    <2> QED BY <2>2, <2>3
  <1> QED BY <1>1, <1>2, <1>3, <1>5, <1>7, <1>8, <1>9, <1>10, <1>11, <1>12 DEF Good

\* The main position of a key that is there is not a free node.
LEMMA MainIsTaken ==
    ASSUME H!TableConstants, NEW t, Good(t), NEW i \in Nodes(t), KeyOf(t, i) \in Key
    PROVE  KeyOf(t, H!MainPosition(t, KeyOf(t, i))) # H!Nil
  <1> DEFINE x == KeyOf(t, i)
             n == H!MainPosition(t, x)
             S == H!Holding(t, {x, H!Dead(x)})
  <1> SUFFICES ASSUME KeyOf(t, n) = H!Nil PROVE FALSE
    OBVIOUS
  <1>1. H!Along(t, n, S) = i /\ n \in Nodes(t) /\ i # 0 /\ Ranked(t)
    BY GoodIs DEF Good, Found, Nodes
  <1>2. n \notin S
    <2>1. x # H!Nil /\ H!Dead(x) # H!Nil
      BY KeysAre DEF DeadKeys
    <2> QED BY <2>1 DEF H!Holding, KeyOf
  <1>3. Onward(t, n) = 0
    BY <1>1 DEF Good, Loose
  <1> HIDE DEF n, S, x
  <1>4. H!Along(t, n, S) = H!Along(t, 0, S) /\ H!Along(t, 0, S) = 0
    BY <1>1, <1>2, <1>3, AlongStep
  <1> QED BY <1>1, <1>4

\* The key in the main position m is not in its own: it goes to the free node n, which
\* takes the place of m behind b, and k takes m.
Moved(t, u, k, m, n, b) ==
    /\ Alike(t, u) /\ u.lastfree = n
    /\ \A i \in Nodes(t) :
         /\ Onward(u, i) = IF i = m THEN 0 ELSE IF i = n THEN Onward(t, m)
                           ELSE IF i = b THEN n ELSE Onward(t, i)
         /\ ValOf(u, i) = IF i = m THEN H!Nil ELSE IF i = n THEN ValOf(t, m) ELSE ValOf(t, i)
         /\ KeyOf(u, i) = IF i = m THEN k ELSE IF i = n THEN KeyOf(t, m) ELSE KeyOf(t, i)

\* n has no key, and b leads to m.
Moving(t, u, k, m, n, b) ==
    /\ Good(t) /\ Moved(t, u, k, m, n, b) /\ m # n /\ KeyOf(t, n) = H!Nil /\ Onward(t, b) = m
    /\ m \in Nodes(t) /\ n \in Nodes(t) /\ b \in Nodes(t)

\* What the nodes are then.
LEMMA MovedIs ==
    ASSUME H!TableConstants, NEW t, NEW u, NEW k, NEW m, NEW n, NEW b, Moving(t, u, k, m, n, b)
    PROVE  /\ b # m /\ b # n /\ \A i \in Nodes(t) : Onward(t, i) = m => i = b
           /\ Onward(t, n) = 0 /\ \A i \in Nodes(t) : Onward(t, i) # n
           /\ Onward(u, m) = 0 /\ Onward(u, n) = Onward(t, m) /\ Onward(u, b) = n
           /\ \A i \in Nodes(t) : i # m /\ i # n /\ i # b => Onward(u, i) = Onward(t, i)
           /\ Nodes(u) = Nodes(t) /\ Ranked(t) /\ Len(u.node) = Len(t.node) /\ m # 0 /\ n # 0
  <1> USE DEF Moving
  <1>1. Onward(t, n) = 0 /\ \A i \in Nodes(t) : Onward(t, i) # n
    BY DEF Good, Loose
  <1>2. Ranked(t) /\ m # 0 /\ n # 0 /\ b # m
    BY GoodIs, OnwardIs DEF Nodes
  <1>3. \A i \in Nodes(t) : Onward(t, i) = m => i = b
    BY <1>2 DEF Good, Apart
  <1>4. Len(u.node) = Len(t.node) /\ Nodes(u) = Nodes(t)
    BY DEF Moved, Alike, Nodes
  <1> QED BY <1>1, <1>2, <1>3, <1>4 DEF Moved

\* n has the rank of m.
LEMMA MovedIsRanked ==
    ASSUME H!TableConstants, NEW t, NEW u, NEW k, NEW m, NEW n, NEW b, Moving(t, u, k, m, n, b)
    PROVE  Ranked(u)
  <1>1. PICK M, r : Ranks(t, r, M)
    BY GoodIs DEF Ranked, Moving
  <1>9. m \in Nodes(t) /\ n \in Nodes(t) /\ b \in Nodes(t) /\ m # n /\ Onward(t, b) = m
    BY DEF Moving
  <1> DEFINE q == [i \in Nodes(t) |-> IF i = n THEN r[m] ELSE r[i]]
  <1>2. /\ M \in Nat /\ Len(t.node) \in Nat /\ r \in [Nodes(t) -> 0..M]
        /\ \A i \in Nodes(t) : Onward(t, i) = 0 \/ (Onward(t, i) \in Nodes(t) /\ r[Onward(t, i)] < r[i])
    BY <1>1 DEF Ranks, Nodes
  <1>3. /\ b # m /\ b # n /\ \A i \in Nodes(t) : Onward(t, i) = m => i = b
        /\ Onward(t, n) = 0 /\ \A i \in Nodes(t) : Onward(t, i) # n
        /\ Onward(u, m) = 0 /\ Onward(u, n) = Onward(t, m) /\ Onward(u, b) = n
        /\ \A i \in Nodes(t) : i # m /\ i # n /\ i # b => Onward(u, i) = Onward(t, i)
    BY MovedIs
  <1>8. Nodes(u) = Nodes(t) /\ Len(u.node) = Len(t.node) /\ m # 0
    BY MovedIs
  <1>4. q \in [Nodes(t) -> 0..M]
    BY <1>2, <1>9
  <1>5. ASSUME NEW i \in Nodes(t), Onward(u, i) # 0
        PROVE  Onward(u, i) \in Nodes(t) /\ q[Onward(u, i)] < q[i]
    <2>1. CASE i = m
      BY <1>3, <1>5, <2>1
    <2>2. CASE i = n
      <3>1. Onward(u, i) = Onward(t, m) /\ Onward(t, m) \in Nodes(t) /\ r[Onward(t, m)] < r[m]
            /\ Onward(t, m) # n
        BY <1>2, <1>3, <1>9, <1>5, <2>2
      <3> QED BY <1>9, <2>2, <3>1
    <2>3. CASE i = b
      <3>1. Onward(u, i) = n /\ r[m] < r[b]
        BY <1>2, <1>3, <1>8, <1>9, <2>3
      <3> QED BY <1>3, <1>9, <2>3, <3>1
    <2>4. CASE i # m /\ i # n /\ i # b
      <3>1. Onward(u, i) = Onward(t, i) /\ Onward(t, i) \in Nodes(t) /\ r[Onward(t, i)] < r[i]
            /\ Onward(t, i) # n
        BY <1>2, <1>3, <1>5, <2>4
      <3> QED BY <2>4, <3>1
    <2> QED BY <2>1, <2>2, <2>3, <2>4
  <1> HIDE DEF q
  <1>6. \A i \in Nodes(t) : Onward(u, i) \in 0..Len(t.node)
    BY <1>2, <1>5 DEF Nodes
  <1>7. Ranks(u, q, M)
    BY <1>2, <1>3, <1>4, <1>5, <1>6, <1>8 DEF Ranks
  <1> QED BY <1>7 DEF Ranked

\* Searches for other keys end as before, in n when it was in m.
LEMMA MovedAlong ==
    ASSUME H!TableConstants, NEW t, NEW u, NEW k, NEW m, NEW n, NEW b, Moving(t, u, k, m, n, b),
           NEW S, NEW Q, n \notin S, m \notin Q, n \in Q <=> m \in S,
           \A i \in Nodes(t) : i # m /\ i # n => (i \in Q <=> i \in S)
    PROVE  \A p \in Nodes(t) : p # n /\ p # m =>
              H!Along(u, p, Q) = IF H!Along(t, p, S) = m THEN n ELSE H!Along(t, p, S)
  <1> DEFINE now(p) == IF p = m THEN n ELSE p
             X == {p \in Nodes(t) : p # n => H!Along(u, now(p), Q) = now(H!Along(t, p, S))}
  <1>1. /\ b # m /\ b # n /\ \A i \in Nodes(t) : Onward(t, i) = m => i = b
        /\ Onward(t, n) = 0 /\ \A i \in Nodes(t) : Onward(t, i) # n
        /\ Onward(u, m) = 0 /\ Onward(u, n) = Onward(t, m) /\ Onward(u, b) = n
        /\ \A i \in Nodes(t) : i # m /\ i # n /\ i # b => Onward(u, i) = Onward(t, i)
    BY MovedIs
  <1>5. Nodes(u) = Nodes(t) /\ m # 0 /\ n # 0 /\ Ranked(t)
    BY MovedIs
  <1>6. /\ Ranked(u) /\ m \in Nodes(t) /\ n \in Nodes(t) /\ b \in Nodes(t) /\ m # n
        /\ Onward(t, b) = m
    BY MovedIsRanked DEF Moving
  <1>2. /\ H!Along(t, 0, S) = 0 /\ H!Along(u, 0, Q) = 0
        /\ \A p \in Nodes(t) : H!Along(t, p, S) = IF p \in S THEN p ELSE H!Along(t, Onward(t, p), S)
        /\ \A p \in Nodes(t) : H!Along(u, p, Q) = IF p \in Q THEN p ELSE H!Along(u, Onward(u, p), Q)
    BY <1>5, <1>6, AlongStep
  <1>3. ASSUME NEW p \in Nodes(t), Onward(t, p) = 0 \/ Onward(t, p) \in X PROVE p \in X
    <2> DEFINE q == Onward(t, p)
    <2>1. H!Along(u, now(q), Q) = now(H!Along(t, q, S))
      BY <1>1, <1>2, <1>3, <1>5
    <2>2. CASE p = n
      BY <2>2
    <2>3. CASE p = m
      <3>1. q # m /\ now(q) = q /\ H!Along(u, n, Q) = IF n \in Q THEN n ELSE H!Along(u, q, Q)
        BY <1>1, <1>2, <1>6, <2>3
      <3> QED BY <1>2, <2>1, <2>3, <3>1
    <2>4. CASE p = b
      <3>1. q = m /\ H!Along(u, p, Q) = IF p \in Q THEN p ELSE H!Along(u, n, Q)
        BY <1>1, <1>2, <1>6, <2>4
      <3> QED BY <1>1, <1>2, <2>1, <2>4, <3>1
    <2>5. CASE p # m /\ p # n /\ p # b
      <3>1. q # m /\ H!Along(u, p, Q) = IF p \in Q THEN p ELSE H!Along(u, q, Q)
        BY <1>1, <1>2, <2>5
      <3> QED BY <1>2, <2>1, <2>5, <3>1
    <2> QED BY <2>2, <2>3, <2>4, <2>5
  <1>4. \A p \in Nodes(t) : p \in X
    <2> HIDE DEF X
    <2> QED BY <1>3, <1>5, ChainInduction
  <1> QED BY <1>4

\* The table is as good: n is the main position of no key, and m only of k.
LEMMA MovedIsGood ==
    ASSUME H!TableConstants, NEW t, Good(t), ~t.dummy, NEW k \in Key, ~H!InArray(t, k),
           \A i \in Nodes(t) : KeyOf(t, i) # k,
           NEW m, m = H!MainPosition(t, k), ValOf(t, m) # H!Nil, H!MainPosition(t, KeyOf(t, m)) # m,
           NEW n \in Nodes(t), KeyOf(t, n) = H!Nil, \A i \in Nodes(t) : i > n => KeyOf(t, i) # H!Nil,
           NEW b \in Nodes(t), Onward(t, b) = m, NEW u, Moved(t, u, k, m, n, b)
    PROVE  Good(u) /\ ValOf(u, m) = H!Nil
  <1>1. /\ Nodes(u) = Nodes(t) /\ Typed(u) /\ Len(u.node) = Len(t.node) /\ u.array = t.array
        /\ \A x \in Key : /\ H!MainPosition(u, x) = H!MainPosition(t, x)
                          /\ H!MainPosition(t, x) \in Nodes(t)
                          /\ H!InArray(u, x) <=> H!InArray(t, x)
        /\ Len(t.node) \in Nat \ {0}
    BY AlikeIs DEF Moved
  <1>2. m \in Nodes(t) /\ KeyOf(t, m) \in Key /\ ValOf(t, m) = KeyOf(t, m)
    BY <1>1, GoodIs, KeysAre
  <1>3. /\ u.lastfree = n /\ u.dummy = t.dummy
        /\ \A i \in Nodes(t) :
             /\ ValOf(u, i) = IF i = m THEN H!Nil ELSE IF i = n THEN ValOf(t, m) ELSE ValOf(t, i)
             /\ KeyOf(u, i) = IF i = m THEN k ELSE IF i = n THEN KeyOf(t, m) ELSE KeyOf(t, i)
    BY DEF Moved, Alike
  <1>4. m # n /\ k # H!Nil /\ H!Nil \notin Key
    BY <1>2, KeysAre
  <1>15. Moving(t, u, k, m, n, b)
    BY <1>2, <1>4 DEF Moving
  <1>5. Ranked(t) /\ Ranked(u)
    BY <1>15, MovedIsRanked, GoodIs
  <1>6. /\ b # m /\ b # n /\ \A i \in Nodes(t) : Onward(t, i) = m => i = b
        /\ Onward(t, n) = 0 /\ \A i \in Nodes(t) : Onward(t, i) # n
        /\ Onward(u, m) = 0 /\ Onward(u, n) = Onward(t, m) /\ Onward(u, b) = n
        /\ \A i \in Nodes(t) : i # m /\ i # n /\ i # b => Onward(u, i) = Onward(t, i)
    BY <1>15, MovedIs
  <1>7. Filled(u)
    <2>1. \A i \in Nodes(t) : ValOf(t, i) = H!Nil \/ (ValOf(t, i) = KeyOf(t, i) /\ KeyOf(t, i) \in Key)
      BY GoodIs
    <2>2. \A i \in Nodes(t) : ValOf(u, i) = H!Nil \/ (ValOf(u, i) = KeyOf(u, i) /\ KeyOf(u, i) \in Key)
      BY <1>2, <1>3, <2>1
    <2> QED BY <1>1, <2>2 DEF Filled, Good
  <1>8. Apart(u)
    <2> SUFFICES ASSUME NEW i \in Nodes(t), NEW j \in Nodes(t), Onward(u, i) = Onward(u, j)
                 PROVE  Onward(u, i) = 0 \/ i = j
      BY <1>1 DEF Apart
    <2>1. \A x, y \in Nodes(t) : Onward(t, x) = Onward(t, y) => Onward(t, x) = 0 \/ x = y
      BY DEF Good, Apart
    <2>2. \A x \in Nodes(t) : Onward(u, x) = n => x = b
      BY <1>2, <1>6
    <2>3. CASE i = b \/ j = b
      BY <1>6, <2>2, <2>3
    <2>4. CASE i = m \/ j = m
      BY <1>6, <2>4
    <2>5. CASE i # b /\ j # b /\ i # m /\ j # m
      BY <1>2, <1>6, <2>1, <2>5
    <2> QED BY <2>3, <2>4, <2>5
  <1>9. Loose(u)
    <2> SUFFICES ASSUME NEW i \in Nodes(t), KeyOf(u, i) = H!Nil
                 PROVE  Onward(u, i) = 0 /\ \A j \in Nodes(t) : Onward(u, j) # i
      BY <1>1 DEF Loose
    <2>1. i # n /\ KeyOf(t, i) = H!Nil /\ i # m
      BY <1>2, <1>3, <1>4
    <2>2. Onward(t, i) = 0 /\ (\A j \in Nodes(t) : Onward(t, j) # i) /\ i # 0
      BY <2>1 DEF Good, Loose, Nodes
    <2>3. i # b
      BY <1>2, <2>2 DEF Nodes
    <2> QED BY <1>2, <1>6, <2>1, <2>2, <2>3
  <1>10. LastFree(u)
    <2>1. n \in 1..(Len(t.node) + 1) /\ n \in Nat
      BY <1>1 DEF Nodes
    <2>2. ASSUME NEW i \in Nodes(t), i >= n PROVE KeyOf(u, i) # H!Nil
      <3>1. i = n \/ i > n
        BY <1>1, <2>1, <2>2 DEF Nodes
      <3> QED BY <1>2, <1>3, <1>4, <3>1
    <2> QED BY <1>1, <1>3, <2>1, <2>2 DEF LastFree
  <1>11. ASSUME NEW i \in Nodes(t), i # n, KeyOf(t, i) \in Key
         PROVE  H!MainPosition(t, KeyOf(t, i)) # n /\ H!MainPosition(t, KeyOf(t, i)) # m
    <2>1. H!MainPosition(t, KeyOf(t, i)) # n
      BY <1>11, MainIsTaken
    <2>2. H!MainPosition(t, KeyOf(t, i)) # m
      BY <1>2, <1>11 DEF Good, Home
    <2> QED BY <2>1, <2>2
  <1>12. Found(u)
    <2> SUFFICES ASSUME NEW i \in Nodes(t), KeyOf(u, i) \in Key
                 PROVE  /\ ~H!InArray(u, KeyOf(u, i))
                        /\ H!Along(u, H!MainPosition(u, KeyOf(u, i)),
                                   H!Holding(u, {KeyOf(u, i), H!Dead(KeyOf(u, i))})) = i
      BY <1>1 DEF Found
    <2> DEFINE x == KeyOf(u, i)
               S == H!Holding(t, {x, H!Dead(x)})
               Q == H!Holding(u, {x, H!Dead(x)})
               w == H!MainPosition(t, x)
    <2>1. \A j \in Nodes(t) : /\ j \in S <=> KeyOf(t, j) \in {x, H!Dead(x)}
                              /\ j \in Q <=> KeyOf(u, j) \in {x, H!Dead(x)}
      BY <1>1 DEF H!Holding, KeyOf, Nodes
    <2>2. x \in Key /\ x # H!Nil /\ H!Dead(x) # H!Nil /\ \A y \in Key : y # H!Dead(x)
      BY KeysAre DEF DeadKeys
    <2>3. n \notin S
      BY <2>1, <2>2
    <2>4. H!MainPosition(u, x) = w /\ w \in Nodes(t) /\ (H!InArray(u, x) <=> H!InArray(t, x))
      BY <1>1
    <2>5. CASE i = m
      <3>1. x = k /\ w = m
        BY <1>3, <2>5
      <3>2. m \in Q
        BY <1>2, <2>1, <2>5
      <3>3. H!Along(u, m, Q) = m
        <4> HIDE DEF Q
        <4> QED BY <1>1, <1>2, <1>5, <3>2, AlongStep
      <3> HIDE DEF x, Q
      <3> QED BY <2>4, <2>5, <3>1, <3>3 DEF x, Q
    <2>6. CASE i # m
      <3> DEFINE j == IF i = n THEN m ELSE i
      <3>1. j \in Nodes(t) /\ j # n /\ x = KeyOf(t, j)
        BY <1>2, <1>3, <1>4, <2>6
      <3>2. x # k
        BY <3>1
      <3>3. ~H!InArray(t, x) /\ H!Along(t, w, S) = j
        <4>1. KeyOf(t, j) \in Key
          BY <2>2, <3>1
        <4> HIDE DEF j
        <4>2. ~H!InArray(t, KeyOf(t, j))
              /\ H!Along(t, H!MainPosition(t, KeyOf(t, j)),
                         H!Holding(t, {KeyOf(t, j), H!Dead(KeyOf(t, j))})) = j
          BY <3>1, <4>1 DEF Good, Found
        <4> QED BY <3>1, <4>2
      <3>4. w # n /\ w # m
        BY <1>11, <2>2, <3>1
      <3>5. /\ m \notin Q /\ (n \in Q <=> m \in S)
            /\ \A y \in Nodes(t) : y # m /\ y # n => (y \in Q <=> y \in S)
        BY <1>2, <1>3, <1>4, <2>1, <2>2, <3>2
      <3>6. H!Along(u, w, Q) = IF H!Along(t, w, S) = m THEN n ELSE H!Along(t, w, S)
        <4> HIDE DEF x, S, Q, w
        <4> QED BY <1>15, <2>3, <2>4, <3>4, <3>5, MovedAlong
      <3>7. (IF j = m THEN n ELSE j) = i
        BY <2>6
      <3> HIDE DEF x, S, Q, w, j
      <3> QED BY <2>4, <3>3, <3>6, <3>7 DEF x, Q
    <2> QED BY <2>5, <2>6
  <1>13. Home(u)
    <2> SUFFICES ASSUME NEW i \in Nodes(t), KeyOf(u, i) \in Key,
                        KeyOf(u, H!MainPosition(u, KeyOf(u, i))) \in Key
                 PROVE  H!MainPosition(u, KeyOf(u, H!MainPosition(u, KeyOf(u, i))))
                          = H!MainPosition(u, KeyOf(u, i))
      BY <1>1 DEF Home
    <2> DEFINE x == KeyOf(u, i)
               q == H!MainPosition(t, x)
    <2>1. H!MainPosition(u, x) = q /\ q \in Nodes(t)
      BY <1>1
    <2>2. CASE i = m
      <3>1. x = k /\ q = m /\ KeyOf(u, m) = k
        BY <1>2, <1>3, <2>2
      <3> QED BY <1>1, <1>2, <2>1, <3>1
    <2>3. CASE i # m
      <3> DEFINE j == IF i = n THEN m ELSE i
      <3>1. j \in Nodes(t) /\ j # n /\ x = KeyOf(t, j) /\ KeyOf(t, j) \in Key
        BY <1>2, <1>3, <1>4, <2>3
      <3>2. q # n /\ q # m
        BY <1>11, <3>1
      <3>3. KeyOf(u, q) = KeyOf(t, q) /\ KeyOf(t, q) \in Key
        BY <1>3, <2>1, <3>2
      <3>4. H!MainPosition(t, KeyOf(t, q)) = q
        BY <3>1, <3>3 DEF Good, Home
      <3>5. H!MainPosition(u, KeyOf(t, q)) = q
        BY <1>1, <3>3, <3>4
      <3> HIDE DEF q
      <3> QED BY <2>1, <3>3, <3>5
    <2> QED BY <2>2, <2>3
  <1>14. ValOf(u, m) = H!Nil
    BY <1>2, <1>3
  <1> QED BY <1>1, <1>5, <1>7, <1>8, <1>9, <1>10, <1>12, <1>13, <1>14 DEF Good

\* What is in a table is what its slots hold.
LEMMA HoldsAre ==
    ASSUME H!TableConstants, NEW t, Good(t)
    PROVE  Holds(t) = {x \in Key : \/ \E s \in 1..Len(t.array) : t.array[s] = x
                                   \/ \E i \in Nodes(t) : ValOf(t, i) = x}
  <1>1. ASSUME NEW x \in Holds(t)
        PROVE  x \in Key /\ \/ \E s \in 1..Len(t.array) : t.array[s] = x
                            \/ \E i \in Nodes(t) : ValOf(t, i) = x
    <2>1. x \in Key /\ H!Get(t, x) = x /\ H!Slot(t, x) # 0 /\ H!Slot(t, x) \in H!Slots(t)
      BY HoldsIs DEF Holds
    <2> DEFINE s == H!Slot(t, x)
    <2>2. H!Val(t, s) = x
      BY <2>1 DEF H!Get
    <2>3. s \in 1..Len(t.array) \/ (s - Len(t.array) \in Nodes(t) /\ s = Len(t.array) + (s - Len(t.array)))
      BY <2>1, SlotsAre
    <2> HIDE DEF s
    <2> QED BY <2>1, <2>2, <2>3, SlotsAre
  <1>2. ASSUME NEW x \in Key, NEW s \in H!Slots(t), H!Val(t, s) = x PROVE x \in Holds(t)
    <2>1. H!Val(t, s) # H!Nil
      BY <1>2, KeysAre
    <2> QED BY <1>2, <2>1, LiveIsFound, HoldsIs
  <1>3. ASSUME NEW x \in Key, NEW s \in 1..Len(t.array), t.array[s] = x PROVE x \in Holds(t)
    BY <1>2, <1>3, SlotsAre
  <1>4. ASSUME NEW x \in Key, NEW i \in Nodes(t), ValOf(t, i) = x PROVE x \in Holds(t)
    <2>1. Len(t.array) + i \in H!Slots(t) /\ H!Val(t, Len(t.array) + i) = x
      BY <1>4, SlotsAre
    <2> QED BY <1>2, <2>1
  <1> QED BY <1>1, <1>3, <1>4

\* A sequence of nodes with one replaced.
LEMMA PutNode ==
    ASSUME NEW s \in Seq(NodeType), NEW i \in 1..Len(s), NEW x \in NodeType
    PROVE  LET r == [s EXCEPT ![i] = x]
           IN  /\ r \in Seq(NodeType) /\ Len(r) = Len(s)
               /\ \A j \in 1..Len(s) : r[j] = IF j = i THEN x ELSE s[j]
  OBVIOUS

\* newkey put k in a slot of u, or there was no room.
NoRoom(t) == t.dummy \/ \A i \in Nodes(t) : KeyOf(t, i) # H!Nil
Placed(t, u, k, s) ==
    /\ Good(u) /\ ~u.dummy /\ u.array = t.array /\ Len(u.node) = Len(t.node)
    /\ u.dummy = t.dummy /\ u.nested = t.nested
    /\ s \in H!Slots(u) /\ H!Slot(u, k) = s /\ H!KeyAt(u, s) = k
    /\ Holds(u) = Holds(t)
    /\ \A i \in Nodes(u) : KeyOf(u, i) = k \/ \E j \in Nodes(t) : KeyOf(u, i) = KeyOf(t, j)

\* k is in node p of u, which has the values of t.
LEMMA PlacedIs ==
    ASSUME H!TableConstants, NEW t, Good(t), ~t.dummy, NEW k \in Key, NEW u, Good(u), Alike(t, u),
           NEW p \in Nodes(t), KeyOf(u, p) = k,
           \A i \in Nodes(t) : KeyOf(u, i) = k \/ \E j \in Nodes(t) : KeyOf(u, i) = KeyOf(t, j),
           \A x \in Key : (\E i \in Nodes(t) : ValOf(u, i) = x) <=> (\E i \in Nodes(t) : ValOf(t, i) = x)
    PROVE  Placed(t, u, k, Len(t.array) + p)
  <1>1. /\ Nodes(u) = Nodes(t) /\ u.array = t.array /\ Len(u.node) = Len(t.node)
        /\ u.dummy = t.dummy /\ u.nested = t.nested
    BY AlikeIs DEF Alike
  <1>2. H!Slot(u, k) = Len(t.array) + p
    BY <1>1, NodeIsFound
  <1>3. Len(t.array) + p \in H!Slots(u) /\ H!KeyAt(u, Len(t.array) + p) = k
    BY <1>1, SlotsAre
  <1>4. Holds(u) = Holds(t)
    <2> DEFINE X(x, y) == \/ \E s \in 1..Len(t.array) : t.array[s] = x
                          \/ \E i \in Nodes(t) : ValOf(y, i) = x
    <2>1. Holds(t) = {x \in Key : X(x, t)}
      BY HoldsAre
    <2>2. Holds(u) = {x \in Key : X(x, u)}
      BY <1>1, HoldsAre
    <2>3. \A x \in Key : X(x, u) <=> X(x, t)
      OBVIOUS
    <2> HIDE DEF X
    <2> QED BY <2>1, <2>2, <2>3
  <1> QED BY <1>1, <1>2, <1>3, <1>4 DEF Placed

\* The three ways to place a key, and none.
LEMMA PlaceIs ==
    ASSUME H!TableConstants, NEW t, Good(t), NEW k \in Key, H!Slot(t, k) = 0
    PROVE  \/ H!Place(t, k).t = t /\ H!Place(t, k).slot = 0 /\ NoRoom(t)
           \/ Placed(t, H!Place(t, k).t, k, H!Place(t, k).slot)
  <1> DEFINE m == H!MainPosition(t, k)
             n == H!GetFreePos(t)
             othern == H!MainPosition(t, t.node[m].key)
             a == Len(t.array)
  <1>1. /\ t \in TableType /\ t.node \in Seq(NodeType) /\ Len(t.node) \in Nat /\ a \in Nat
        /\ m \in 1..Len(t.node) /\ m \in Nodes(t) /\ Ranked(t)
    BY GoodIs DEF Good, Typed, TableType, Nodes
  <1>2. ~H!InArray(t, k) /\ \A i \in Nodes(t) : KeyOf(t, i) # k
    <2>1. ~H!InArray(t, k)
      BY SlotIs, KeysAre DEF H!InArray
    <2>2. ASSUME NEW i \in Nodes(t) PROVE KeyOf(t, i) # k
      <3>1. KeyOf(t, i) = k => H!Slot(t, k) = a + i
        BY NodeIsFound
      <3>2. a + i # 0
        BY <1>1 DEF Nodes
      <3> QED BY <3>1, <3>2
    <2> QED BY <2>1, <2>2
  <1>3. \/ n = 0 /\ NoRoom(t)
        \/ /\ ~t.dummy /\ n \in Nodes(t) /\ KeyOf(t, n) = H!Nil /\ n # 0
           /\ \A i \in Nodes(t) : i > n => KeyOf(t, i) # H!Nil
    BY FreePos DEF NoRoom, Nodes
  <1>4. k \in Key /\ k # H!Nil
    BY KeysAre
  <1>5. CASE ValOf(t, m) = H!Nil /\ ~t.dummy
    <2> DEFINE u == [t EXCEPT !.node[m].key = k]
    <2>1. H!Place(t, k) = [t |-> u, slot |-> Len(u.array) + m]
      BY <1>5 DEF H!Place, ValOf
    <2> HIDE DEF m
    <2> DEFINE x == [t.node[m] EXCEPT !.key = k]
               r == [t.node EXCEPT ![m] = x]
    <2>2. x \in NodeType /\ x.key = k /\ x.val = t.node[m].val /\ x.next = t.node[m].next
      <3>1. t.node[m] \in NodeType
        BY <1>1
      <3> QED BY <3>1 DEF NodeType
    <2>3. u = [t EXCEPT !.node = r]
      BY <1>1 DEF TableType
    <2> HIDE DEF x, u
    <2>4. /\ r \in Seq(NodeType) /\ Len(r) = Len(t.node)
          /\ \A j \in 1..Len(t.node) : r[j] = IF j = m THEN x ELSE t.node[j]
      BY <1>1, <2>2, PutNode
    <2> HIDE DEF r
    <2>5. /\ u \in TableType /\ u.node = r /\ u.array = t.array /\ u.lastfree = t.lastfree
          /\ u.dummy = t.dummy /\ u.nested = t.nested
      BY <1>1, <2>3, <2>4 DEF TableType
    <2>6. Replaced(t, u, k, m)
      BY <2>2, <2>4, <2>5 DEF Replaced, Alike, Nodes, Onward, ValOf, KeyOf
    <2>7. Good(u)
      BY <1>2, <1>5, <2>6, ReplacedIsGood DEF m
    <2>8. Placed(t, u, k, a + m)
      <3>1. Alike(t, u) /\ KeyOf(u, m) = k
        BY <1>1, <2>6 DEF Replaced
      <3>2. \A i \in Nodes(t) : KeyOf(u, i) = k \/ \E j \in Nodes(t) : KeyOf(u, i) = KeyOf(t, j)
        BY <2>6 DEF Replaced
      <3>3. \A i \in Nodes(t) : ValOf(u, i) = ValOf(t, i)
        BY <2>6 DEF Replaced
      <3>4. \A y \in Key : (\E i \in Nodes(t) : ValOf(u, i) = y) <=> (\E i \in Nodes(t) : ValOf(t, i) = y)
        BY <3>3
      <3> HIDE DEF a
      <3> QED BY <1>1, <1>5, <2>7, <3>1, <3>2, <3>4, PlacedIs DEF a
    <2>9. H!Place(t, k).t = u /\ H!Place(t, k).slot = a + m
      BY <2>1, <2>5
    <2> QED BY <2>8, <2>9
  <1>6. CASE (ValOf(t, m) # H!Nil \/ t.dummy) /\ n = 0
    <2>1. H!Place(t, k) = [t |-> t, slot |-> 0]
      BY <1>6 DEF H!Place, ValOf
    <2> QED BY <1>3, <1>6, <2>1
  <1>7. CASE ValOf(t, m) # H!Nil /\ n # 0 /\ othern # m
    <2> DEFINE b == H!Previous(t, othern, m)
               v == [[t EXCEPT !.lastfree = n] EXCEPT !.node[b].next = n, !.node[n] = t.node[m],
                                                      !.node[m] = H!NoNode]
               u == [v EXCEPT !.node[m].key = k]
    <2>1. H!Place(t, k) = [t |-> u, slot |-> Len(u.array) + m]
      BY <1>7 DEF H!Place, ValOf
    <2>2. KeyOf(t, m) \in Key /\ othern = H!MainPosition(t, KeyOf(t, m))
      BY <1>1, <1>7, GoodIs DEF KeyOf
    <2>3. othern \in Nodes(t)
      BY <2>2, GoodIs
    <2> HIDE DEF m, n, othern
    <2>4. b \in Nodes(t) /\ Onward(t, b) = m
      <3> DEFINE S == H!Holding(t, {KeyOf(t, m), H!Dead(KeyOf(t, m))})
                 B == {i \in 1..Len(t.node) : t.node[i].next = m}
      <3>1. H!Along(t, othern, S) = m
        BY <1>1, <2>2 DEF Good, Found
      <3>2. \A i \in Nodes(t) : i \in B <=> Onward(t, i) = m
        BY DEF Onward, Nodes
      <3>3. b = H!Along(t, othern, B)
        BY DEF H!Previous
      <3> HIDE DEF S, B
      <3> QED BY <1>1, <1>7, <2>3, <3>1, <3>2, <3>3, AlongBefore
    <2> HIDE DEF b
    <2> DEFINE x == [t.node[b] EXCEPT !.next = n]
               y == [H!NoNode EXCEPT !.key = k]
               r1 == [t.node EXCEPT ![b] = x]
               r2 == [r1 EXCEPT ![n] = t.node[m]]
               r3 == [r2 EXCEPT ![m] = H!NoNode]
               r4 == [r3 EXCEPT ![m] = y]
    <2>5. n \in 1..Len(t.node) /\ b \in 1..Len(t.node) /\ n \in Nat
      BY <1>1, <1>3, <1>7, <2>4 DEF Nodes
    <2>6. x \in NodeType /\ x.key = t.node[b].key /\ x.val = t.node[b].val /\ x.next = n
      <3>1. t.node[b] \in NodeType
        BY <1>1, <2>5
      <3> QED BY <2>5, <3>1 DEF NodeType
    <2>7. y \in NodeType /\ y.key = k /\ y.val = H!Nil /\ y.next = 0 /\ H!NoNode \in NodeType
      BY <1>4 DEF NodeType, H!NoNode
    <2>8. u = [t EXCEPT !.lastfree = n, !.node = r4]
      <3>1. v = [t EXCEPT !.lastfree = n, !.node = r3]
        BY <1>1, <2>5 DEF TableType
      <3>2. r3[m] = H!NoNode /\ v.node = r3
        BY <1>1, <3>1 DEF TableType
      <3> HIDE DEF r3, v
      <3>3. u = [v EXCEPT !.node = r4]
        BY <3>1, <3>2 DEF TableType
      <3> HIDE DEF r4
      <3> QED BY <1>1, <3>1, <3>3 DEF TableType
    <2> HIDE DEF x, y, u
    <2>9. t.node[m] \in NodeType
      BY <1>1
    <2>10. /\ r1 \in Seq(NodeType) /\ Len(r1) = Len(t.node)
           /\ \A j \in 1..Len(t.node) : r1[j] = IF j = b THEN x ELSE t.node[j]
      BY <1>1, <2>5, <2>6, PutNode
    <2> HIDE DEF r1
    <2>11. /\ r2 \in Seq(NodeType) /\ Len(r2) = Len(t.node)
           /\ \A j \in 1..Len(t.node) : r2[j] = IF j = n THEN t.node[m] ELSE r1[j]
      BY <2>5, <2>9, <2>10, PutNode
    <2> HIDE DEF r2
    <2>12. /\ r3 \in Seq(NodeType) /\ Len(r3) = Len(t.node)
           /\ \A j \in 1..Len(t.node) : r3[j] = IF j = m THEN H!NoNode ELSE r2[j]
      BY <1>1, <2>7, <2>11, PutNode
    <2> HIDE DEF r3
    <2>13. /\ r4 \in Seq(NodeType) /\ Len(r4) = Len(t.node)
           /\ \A j \in 1..Len(t.node) : r4[j] = IF j = m THEN y ELSE r3[j]
      BY <1>1, <2>7, <2>12, PutNode
    <2> HIDE DEF r4
    <2>14. /\ u \in TableType /\ u.node = r4 /\ u.array = t.array /\ u.lastfree = n
           /\ u.dummy = t.dummy /\ u.nested = t.nested
      BY <1>1, <2>5, <2>8, <2>13 DEF TableType
    <2>15. \A j \in Nodes(t) : u.node[j] = IF j = m THEN y ELSE IF j = n THEN t.node[m]
                                           ELSE IF j = b THEN x ELSE t.node[j]
      BY <2>10, <2>11, <2>12, <2>13, <2>14 DEF Nodes
    <2>16. Alike(t, u)
      BY <2>13, <2>14 DEF Alike
    <2>17. Moved(t, u, k, m, n, b)
      BY <2>6, <2>7, <2>14, <2>15, <2>16 DEF Moved, Onward, ValOf, KeyOf
    <2>18. Good(u)
      <3>1. ValOf(t, m) # H!Nil /\ H!MainPosition(t, KeyOf(t, m)) # m /\ m = H!MainPosition(t, k)
        BY <1>7, <2>2 DEF m
      <3>2. /\ ~t.dummy /\ n \in Nodes(t) /\ KeyOf(t, n) = H!Nil
            /\ \A i \in Nodes(t) : i > n => KeyOf(t, i) # H!Nil
        BY <1>3, <1>7
      <3> QED BY <1>2, <2>4, <2>17, <3>1, <3>2, MovedIsGood
    <2>19. Placed(t, u, k, a + m)
      <3>1. KeyOf(u, m) = k
        BY <1>1, <2>17 DEF Moved
      <3>2. \A i \in Nodes(t) : KeyOf(u, i) = k \/ \E j \in Nodes(t) : KeyOf(u, i) = KeyOf(t, j)
        BY <1>1, <2>17 DEF Moved
      <3>3. \A i \in Nodes(t) : ValOf(u, i) = IF i = m THEN H!Nil ELSE IF i = n THEN ValOf(t, m)
                                              ELSE ValOf(t, i)
        BY <2>17 DEF Moved
      <3>4. KeyOf(t, n) = H!Nil /\ n # m /\ ValOf(t, n) = H!Nil /\ n \in Nodes(t) /\ ~t.dummy
        <4>1. KeyOf(t, n) = H!Nil /\ n \in Nodes(t) /\ ~t.dummy
          BY <1>3, <1>7
        <4> QED BY <1>7, <2>2, <4>1, KeysAre, GoodIs
      <3>5. \A z \in Key : z # H!Nil
        BY KeysAre
      <3>6. \A z \in Key : (\E i \in Nodes(t) : ValOf(u, i) = z) <=> (\E i \in Nodes(t) : ValOf(t, i) = z)
        BY <1>1, <3>3, <3>4, <3>5
      <3> HIDE DEF a
      <3> QED BY <1>1, <2>16, <2>18, <3>1, <3>2, <3>4, <3>6, PlacedIs DEF a
    <2>20. H!Place(t, k).t = u /\ H!Place(t, k).slot = a + m
      BY <2>1, <2>14
    <2> QED BY <2>19, <2>20
  <1>8. CASE ValOf(t, m) # H!Nil /\ n # 0 /\ othern = m
    <2> DEFINE v == [[t EXCEPT !.lastfree = n] EXCEPT !.node[n].next = t.node[m].next,
                                                      !.node[m].next = n]
               u == [v EXCEPT !.node[n].key = k]
    <2>1. H!Place(t, k) = [t |-> u, slot |-> Len(u.array) + n]
      BY <1>8 DEF H!Place, ValOf
    <2>2. KeyOf(t, m) \in Key /\ H!MainPosition(t, KeyOf(t, m)) = m
      BY <1>1, <1>8, GoodIs DEF KeyOf
    <2>3. m = H!MainPosition(t, k)
      OBVIOUS
    <2> HIDE DEF m, n, othern
    <2>4. /\ ~t.dummy /\ n \in Nodes(t) /\ KeyOf(t, n) = H!Nil
          /\ \A i \in Nodes(t) : i > n => KeyOf(t, i) # H!Nil
      BY <1>3, <1>8
    <2>5. n \in 1..Len(t.node) /\ n \in Nat /\ n # m
      <3>1. KeyOf(t, m) # H!Nil
        BY <2>2, KeysAre
      <3> QED BY <1>1, <2>4, <3>1 DEF Nodes
    <2> DEFINE x == [t.node[n] EXCEPT !.next = t.node[m].next]
               y == [t.node[m] EXCEPT !.next = n]
               z == [x EXCEPT !.key = k]
               r1 == [t.node EXCEPT ![n] = x]
               r2 == [r1 EXCEPT ![m] = y]
               r3 == [r2 EXCEPT ![n] = z]
    <2>6. t.node[n] \in NodeType /\ t.node[m] \in NodeType
      BY <1>1, <2>5
    <2>7. x \in NodeType /\ x.key = t.node[n].key /\ x.val = t.node[n].val /\ x.next = t.node[m].next
      BY <2>6 DEF NodeType
    <2>8. y \in NodeType /\ y.key = t.node[m].key /\ y.val = t.node[m].val /\ y.next = n
      BY <2>5, <2>6 DEF NodeType
    <2>9. z \in NodeType /\ z.key = k /\ z.val = t.node[n].val /\ z.next = t.node[m].next
      <3> HIDE DEF x
      <3> QED BY <1>4, <2>7 DEF NodeType
    <2>10. u = [t EXCEPT !.lastfree = n, !.node = r3]
      <3>1. v = [t EXCEPT !.lastfree = n, !.node = r2]
        BY <1>1, <2>5 DEF TableType
      <3>2. r2[n] = x
        <4>1. DOMAIN t.node = 1..Len(t.node)
          BY <1>1
        <4> HIDE DEF x, y
        <4> QED BY <2>5, <4>1
      <3>4. v.node = r2
        <4> HIDE DEF r2
        <4> QED BY <1>1, <3>1 DEF TableType
      <3> HIDE DEF r2, v, x
      <3>3. u = [v EXCEPT !.node = r3]
        BY <3>1, <3>2, <3>4 DEF TableType
      <3> HIDE DEF r3
      <3> QED BY <1>1, <3>1, <3>3 DEF TableType
    <2> HIDE DEF x, y, z, u
    <2>11. /\ r1 \in Seq(NodeType) /\ Len(r1) = Len(t.node)
           /\ \A j \in 1..Len(t.node) : r1[j] = IF j = n THEN x ELSE t.node[j]
      BY <1>1, <2>5, <2>7, PutNode
    <2> HIDE DEF r1
    <2>12. /\ r2 \in Seq(NodeType) /\ Len(r2) = Len(t.node)
           /\ \A j \in 1..Len(t.node) : r2[j] = IF j = m THEN y ELSE r1[j]
      BY <1>1, <2>8, <2>11, PutNode
    <2> HIDE DEF r2
    <2>13. /\ r3 \in Seq(NodeType) /\ Len(r3) = Len(t.node)
           /\ \A j \in 1..Len(t.node) : r3[j] = IF j = n THEN z ELSE r2[j]
      BY <2>5, <2>9, <2>12, PutNode
    <2> HIDE DEF r3
    <2>14. /\ u \in TableType /\ u.node = r3 /\ u.array = t.array /\ u.lastfree = n
           /\ u.dummy = t.dummy /\ u.nested = t.nested
      BY <1>1, <2>5, <2>10, <2>13 DEF TableType
    <2>15. \A j \in Nodes(t) : u.node[j] = IF j = n THEN z ELSE IF j = m THEN y ELSE t.node[j]
      BY <2>11, <2>12, <2>13, <2>14 DEF Nodes
    <2>16. Alike(t, u)
      BY <2>13, <2>14 DEF Alike
    <2>17. Chained(t, u, k, m, n)
      BY <2>8, <2>9, <2>14, <2>15, <2>16 DEF Chained, Onward, ValOf, KeyOf
    <2>18. Good(u)
      BY <1>2, <1>8, <2>2, <2>3, <2>4, <2>17, ChainedIsGood
    <2>19. Placed(t, u, k, a + n)
      <3>1. KeyOf(u, n) = k
        BY <2>4, <2>17 DEF Chained
      <3>2. \A i \in Nodes(t) : KeyOf(u, i) = k \/ \E j \in Nodes(t) : KeyOf(u, i) = KeyOf(t, j)
        BY <2>17 DEF Chained
      <3>3. \A i \in Nodes(t) : ValOf(u, i) = ValOf(t, i)
        BY <2>17 DEF Chained
      <3>4. \A w \in Key : (\E i \in Nodes(t) : ValOf(u, i) = w) <=> (\E i \in Nodes(t) : ValOf(t, i) = w)
        BY <3>3
      <3> HIDE DEF a
      <3> QED BY <2>4, <2>16, <2>18, <3>1, <3>2, <3>4, PlacedIs DEF a
    <2>20. H!Place(t, k).t = u /\ H!Place(t, k).slot = a + n
      BY <2>1, <2>14
    <2> QED BY <2>19, <2>20
  <1>9. t.dummy => n = 0
    BY <1>3
  <1> QED BY <1>5, <1>6, <1>7, <1>8, <1>9

-----------------------------------------------------------------------------
(* Room.                                                                    *)

\* A set whose members are told apart in T is no larger than T.
LEMMA NotMore ==
    ASSUME NEW S, NEW T, IsFiniteSet(T), NEW f \in [S -> T], \A x, y \in S : f[x] = f[y] => x = y
    PROVE  /\ IsFiniteSet(S) /\ Cardinality(S) \in Nat /\ Cardinality(T) \in Nat
           /\ Cardinality(S) <= Cardinality(T)
  <1>1. f \in Injection(S, T)
    BY DEF Injection, IsInjective
  <1>2. IsFiniteSet(S) /\ Cardinality(S) <= Cardinality(T)
    BY <1>1, FS_Injection
  <1> QED BY <1>2, FS_CardinalityType

\* The slots with a value.
Live(t) == {s \in H!Slots(t) : H!Val(t, s) # H!Nil}

\* No more keys are in a table than it has slots with a value.
LEMMA HoldsAreLive ==
    ASSUME H!TableConstants, NEW t, Good(t)
    PROVE  /\ IsFiniteSet(Holds(t)) /\ Cardinality(Holds(t)) \in Nat /\ Cardinality(Live(t)) \in Nat
           /\ Cardinality(Holds(t)) <= Cardinality(Live(t))
  <1> DEFINE f == [x \in Holds(t) |-> H!Slot(t, x)]
  <1>1. IsFiniteSet(Live(t))
    <2>1. IsFiniteSet(H!Slots(t))
      <3> DEFINE a == Len(t.array)
                 b == Len(t.node)
                 L == a + b
      <3>1. L \in Nat
        <4>1. a \in Nat /\ b \in Nat
          BY GoodIs
        <4> HIDE DEF a, b
        <4> QED BY <4>1
      <3> HIDE DEF L
      <3>2. IsFiniteSet(1..L)
        BY <3>1, FS_Interval
      <3> QED BY <3>2 DEF L, H!Slots
    <2>2. Live(t) \in SUBSET H!Slots(t)
      BY DEF Live
    <2> QED BY <2>1, <2>2, FS_Subset
  <1>2. \A x \in Holds(t) : H!Slot(t, x) \in Live(t) /\ H!KeyAt(t, H!Slot(t, x)) = x
    BY HoldsIs DEF Holds, Live
  <1>3. f \in [Holds(t) -> Live(t)]
    BY <1>2
  <1>4. \A x, y \in Holds(t) : f[x] = f[y] => x = y
    BY <1>2
  <1> HIDE DEF f
  <1> QED BY <1>1, <1>3, <1>4, NotMore

\* A key of HK that is not there finds room when the keys of the nodes are of HK and the
\* nodes are as many as HK.
LEMMA RoomIsLeft ==
    ASSUME H!TableConstants, NEW t, Good(t), ~t.dummy, NEW HK, HK \subseteq Key, IsFiniteSet(HK),
           NEW k \in HK, H!Slot(t, k) = 0, Cardinality(HK) <= Len(t.node),
           \A i \in Nodes(t) : KeyOf(t, i) = H!Nil \/ KeyOf(t, i) \in HK
    PROVE  ~NoRoom(t)
  <1> SUFFICES ASSUME NoRoom(t) PROVE FALSE
    OBVIOUS
  <1> DEFINE f == [i \in Nodes(t) |-> KeyOf(t, i)]
             T == HK \ {k}
  <1>1. \A i \in Nodes(t) : KeyOf(t, i) # H!Nil /\ KeyOf(t, i) \in HK
    BY DEF NoRoom
  <1>2. Len(t.node) \in Nat /\ Len(t.array) \in Nat
    BY GoodIs
  <1>3. \A i \in Nodes(t) : H!Slot(t, KeyOf(t, i)) = Len(t.array) + i
    BY <1>1, NodeIsFound
  <1>4. f \in [Nodes(t) -> T]
    <2>1. ASSUME NEW i \in Nodes(t) PROVE KeyOf(t, i) # k
      <3>1. Len(t.array) + i # 0
        BY <1>2 DEF Nodes
      <3> QED BY <1>3, <3>1
    <2> QED BY <1>1, <2>1
  <1>5. \A i, j \in Nodes(t) : f[i] = f[j] => i = j
    <2>1. ASSUME NEW i \in Nodes(t), NEW j \in Nodes(t), KeyOf(t, i) = KeyOf(t, j) PROVE i = j
      <3>1. Len(t.array) + i = Len(t.array) + j
        BY <1>3, <2>1
      <3> QED BY <1>2, <3>1 DEF Nodes
    <2> QED BY <2>1
  <1>6. IsFiniteSet(T) /\ Cardinality(T) = Cardinality(HK) - 1 /\ Cardinality(HK) \in Nat
    BY FS_RemoveElement, FS_CardinalityType
  <1>7. Cardinality(Nodes(t)) <= Cardinality(T)
    <2> HIDE DEF f, T
    <2> QED BY <1>4, <1>5, <1>6, NotMore
  <1>8. Cardinality(Nodes(t)) = Len(t.node)
    <2> DEFINE L == Len(t.node)
    <2> HIDE DEF L
    <2>1. L \in Nat
      BY <1>2 DEF L
    <2>2. Cardinality(1..L) = L
      BY <2>1, FS_Interval
    <2> QED BY <2>2 DEF L, Nodes
  <1> DEFINE x == Cardinality(HK)
             y == Len(t.node)
  <1>9. x \in Nat /\ y \in Nat /\ x <= y /\ y <= x - 1
    BY <1>2, <1>6, <1>7, <1>8
  <1> HIDE DEF x, y
  <1> QED BY <1>9

-----------------------------------------------------------------------------
(* Inserting again.                                                         *)

\* u is t with v under k.
Updated(t, u, k, v) ==
    /\ Good(u) /\ u.nested = t.nested /\ u.dummy = t.dummy
    /\ Len(u.array) = Len(t.array) /\ Len(u.node) = Len(t.node)
    /\ Holds(u) = IF v = H!Nil THEN Holds(t) \ {k} ELSE Holds(t) \cup {k}
    /\ \A i \in Nodes(u) : \/ KeyOf(u, i) = k /\ ~H!InArray(u, k)
                           \/ \E j \in Nodes(t) : KeyOf(u, i) = KeyOf(t, j)

\* An assignment to the slot of the key.
LEMMA SetValUpdates ==
    ASSUME H!TableConstants, NEW t, Good(t), NEW k \in Key, NEW v \in {k, H!Nil}, H!Slot(t, k) # 0
    PROVE  /\ Updated(t, H!SetVal(t, H!Slot(t, k), v), k, v)
           /\ \A x \in Key : H!FindIndex(H!SetVal(t, H!Slot(t, k), v), x) = H!FindIndex(t, x)
           /\ \A x \in Key : H!Slot(H!SetVal(t, H!Slot(t, k), v), x) = H!Slot(t, x)
           /\ \A i \in Nodes(t) : KeyOf(H!SetVal(t, H!Slot(t, k), v), i) = KeyOf(t, i)
  <1> DEFINE s == H!Slot(t, k)
             u == H!SetVal(t, s, v)
  <1>1. s \in H!Slots(t) /\ H!KeyAt(t, s) = k
    BY HoldsIs
  <1> HIDE DEF s, u
  <1>2. H!Slot(t, H!KeyAt(t, s)) = s /\ v \in {H!KeyAt(t, s), H!Nil} /\ H!KeyAt(t, s) \in Key
    BY <1>1 DEF s
  <1>3. Stored(t, u, s, v)
    BY <1>1, <1>2, SetValStores DEF u
  <1>4. /\ Good(u) /\ \A x \in Key : H!FindIndex(u, x) = H!FindIndex(t, x)
        /\ \A x \in Key : H!Slot(u, x) = H!Slot(t, x)
        /\ Holds(u) = IF v = H!Nil THEN Holds(t) \ {H!KeyAt(t, s)} ELSE Holds(t) \cup {H!KeyAt(t, s)}
    BY <1>1, <1>2, <1>3, StoredIs
  <1>5. /\ u.nested = t.nested /\ u.dummy = t.dummy /\ Len(u.array) = Len(t.array)
        /\ Len(u.node) = Len(t.node) /\ \A i \in Nodes(t) : KeyOf(u, i) = KeyOf(t, i)
    BY <1>3 DEF Stored, Faded, SameChains
  <1>6. Nodes(u) = Nodes(t)
    BY <1>5 DEF Nodes
  <1>7. Updated(t, u, k, v)
    BY <1>1, <1>4, <1>5, <1>6 DEF Updated
  <1> QED BY <1>4, <1>5, <1>7 DEF s, u

\* newkey and the assignment.
LEMMA PlaceUpdates ==
    ASSUME H!TableConstants, NEW t, Good(t), NEW k \in Key, NEW v \in {k, H!Nil}, NEW w, NEW s,
           Placed(t, w, k, s), ~H!InArray(t, k)
    PROVE  s # 0 /\ Updated(t, H!SetVal(w, s, v), k, v)
  <1>1. /\ Good(w) /\ w.array = t.array /\ Len(w.node) = Len(t.node) /\ w.dummy = t.dummy
        /\ w.nested = t.nested /\ s \in H!Slots(w) /\ H!Slot(w, k) = s /\ Holds(w) = Holds(t)
        /\ \A i \in Nodes(w) : KeyOf(w, i) = k \/ \E j \in Nodes(t) : KeyOf(w, i) = KeyOf(t, j)
    BY DEF Placed
  <1>2. s # 0
    <2>1. 0 \notin H!Slots(w)
      BY <1>1, SlotsAre
    <2> QED BY <1>1, <2>1
  <1> DEFINE u == H!SetVal(w, s, v)
  <1>3. Updated(w, u, k, v) /\ \A i \in Nodes(w) : KeyOf(u, i) = KeyOf(w, i)
    BY <1>1, <1>2, SetValUpdates
  <1> HIDE DEF u
  <1>4. /\ Nodes(u) = Nodes(w) /\ Good(u) /\ u.nested = w.nested /\ u.dummy = w.dummy
        /\ Len(u.array) = Len(w.array) /\ Len(u.node) = Len(w.node)
        /\ Holds(u) = IF v = H!Nil THEN Holds(w) \ {k} ELSE Holds(w) \cup {k}
    BY <1>3 DEF Updated, Nodes
  <1>5. ~H!InArray(u, k)
    BY <1>1, <1>4 DEF H!InArray
  <1>6. \A i \in Nodes(u) : \/ KeyOf(u, i) = k /\ ~H!InArray(u, k)
                            \/ \E j \in Nodes(t) : KeyOf(u, i) = KeyOf(t, j)
    BY <1>1, <1>3, <1>4, <1>5
  <1>7. Updated(t, u, k, v)
    BY <1>1, <1>4, <1>6 DEF Updated
  <1> QED BY <1>2, <1>7 DEF u

\* luaH_set while resizing, when there is room.
LEMMA ReinsertUpdates ==
    ASSUME H!TableConstants, NEW t, Good(t), NEW k \in Key, NEW v \in {k, H!Nil},
           H!Slot(t, k) # 0 \/ ~NoRoom(t)
    PROVE  Updated(t, H!Reinsert(t, k, v), k, v)
  <1>1. CASE H!Slot(t, k) # 0
    <2>1. H!Reinsert(t, k, v) = H!SetVal(t, H!Slot(t, k), v)
      BY <1>1 DEF H!Reinsert
    <2> QED BY <1>1, <2>1, SetValUpdates
  <1>2. CASE H!Slot(t, k) = 0
    <2> DEFINE w == H!Place(t, k).t
               s == H!Place(t, k).slot
    <2>1. Placed(t, w, k, s) /\ ~H!InArray(t, k)
      BY <1>2, PlaceIs, SlotIs, KeysAre DEF H!InArray
    <2>2. H!Reinsert(t, k, v) = IF s = 0 THEN [t EXCEPT !.nested = TRUE] ELSE H!SetVal(w, s, v)
      BY <1>2 DEF H!Reinsert
    <2> HIDE DEF w, s
    <2> QED BY <2>1, <2>2, PlaceUpdates
  <1> QED BY <1>1, <1>2

-----------------------------------------------------------------------------
(* Resizing.                                                                *)

\* A new hash part for size keys holds none and has room for them.
LEMMA FreshIsGood ==
    ASSUME H!TableConstants, NEW t \in TableType, NEW size \in Nat,
           \A s \in 1..Len(t.array) :
             t.array[s] = H!Nil \/ (t.array[s] = H!Numeral(s) /\ H!Numeral(s) \in Key)
    PROVE  LET u == H!SetNodeVector(t, size)
           IN  /\ Good(u) /\ u.array = t.array /\ u.nested = t.nested /\ (u.dummy <=> size = 0)
               /\ Len(u.node) \in Nat /\ size <= Len(u.node)
               /\ \A i \in Nodes(u) : KeyOf(u, i) = H!Nil /\ ValOf(u, i) = H!Nil
  <1> DEFINE u == H!SetNodeVector(t, size)
             L == IF size = 0 THEN 1 ELSE H!Pow2[H!CeilLog2(size)]
             nodes == [i \in 1..L |-> H!NoNode]
             end == IF size = 0 THEN 1 ELSE L + 1
             e == (size = 0)
  <1>1. L \in Nat /\ L > 0 /\ size <= L
    <2>1. CASE size = 0
      BY <2>1
    <2>2. CASE size # 0
      <3>1. H!CeilLog2(size) \in Nat /\ H!Pow2[H!CeilLog2(size)] >= size
        BY <2>2, CeilLog2Reaches
      <3>2. H!Pow2[H!CeilLog2(size)] \in Nat
        BY <3>1, Powers
      <3> DEFINE p == H!Pow2[H!CeilLog2(size)]
      <3>3. L = p /\ p \in Nat /\ p >= size
        BY <2>2, <3>1, <3>2
      <3> HIDE DEF p, L
      <3> QED BY <2>2, <3>3
    <2> QED BY <2>1, <2>2
  <1>2. u = [t EXCEPT !.node = nodes, !.lastfree = end, !.dummy = e]
    BY DEF H!SetNodeVector
  <1>3. (size = 0 => L = 1) /\ e \in BOOLEAN
    OBVIOUS
  <1>16. end \in Nat
    BY <1>1
  <1> HIDE DEF L, u, end, e
  <1>4. H!NoNode \in NodeType /\ H!NoNode.key = H!Nil /\ H!NoNode.val = H!Nil /\ H!NoNode.next = 0
    BY DEF H!NoNode, NodeType
  <1>5. nodes \in Seq(NodeType) /\ Len(nodes) = L /\ \A i \in 1..L : nodes[i] = H!NoNode
    BY <1>1, <1>4
  <1>6. size = 0 => nodes = <<H!NoNode>>
    BY <1>3
  <1> HIDE DEF nodes
  <1>7. /\ u \in TableType /\ u.node = nodes /\ u.array = t.array /\ u.nested = t.nested
        /\ u.dummy = e /\ u.lastfree = end
    BY <1>2, <1>3, <1>5, <1>16 DEF TableType
  <1>8. Nodes(u) = 1..L /\ Len(u.node) = L
    BY <1>5, <1>7 DEF Nodes
  <1>9. \A i \in Nodes(u) : KeyOf(u, i) = H!Nil /\ ValOf(u, i) = H!Nil /\ Onward(u, i) = 0
    BY <1>4, <1>5, <1>7, <1>8 DEF KeyOf, ValOf, Onward
  <1>10. H!Nil \notin Key
    BY DEF H!TableConstants, H!IsInt, H!Collectable, H!Nil
  <1>11. Typed(u) /\ Filled(u)
    BY <1>1, <1>7, <1>8, <1>9 DEF Typed, Filled
  <1>12. Ranked(u)
    <2> DEFINE r == [i \in Nodes(u) |-> 0]
    <2>1. Ranks(u, r, 0)
      BY <1>1, <1>8, <1>9 DEF Ranks
    <2> QED BY <2>1 DEF Ranked
  <1>13. Apart(u) /\ Loose(u)
    BY <1>8, <1>9 DEF Apart, Loose
  <1>14. LastFree(u)
    <2>1. CASE size = 0
      BY <1>6, <1>7, <2>1 DEF LastFree, e, end
    <2>2. CASE size # 0
      <3>1. ~u.dummy /\ u.lastfree = L + 1
        BY <1>7, <2>2 DEF e, end
      <3>2. L + 1 \in 1..(L + 1) /\ \A i \in 1..L : ~(i >= L + 1)
        BY <1>1
      <3> QED BY <1>8, <3>1, <3>2 DEF LastFree
    <2> QED BY <2>1, <2>2
  <1>15. Found(u) /\ Home(u)
    BY <1>9, <1>10 DEF Found, Home
  <1>17. u.dummy <=> size = 0
    BY <1>7 DEF e
  <1> QED BY <1>1, <1>7, <1>8, <1>9, <1>11, <1>12, <1>13, <1>14, <1>15, <1>17 DEF Good, u

\* The keys of t that are not among the first nasize integers.
Others(t, nasize) == {k \in Holds(t) : ~(H!IsInt(k) /\ k[2] \in 1..nasize)}

\* The keys of the array that stay in it.
Stay(t, nasize) == {H!KeyAt(t, s) : s \in {x \in 1..Len(t.array) : x <= nasize /\ H!Val(t, x) # H!Nil}}

\* An array of the new size and a new hash part hold the keys of the array that stay.
LEMMA ResizeStarts ==
    ASSUME H!TableConstants, NEW t, Good(t), NEW nasize \in Nat, NEW nhsize \in Nat
    PROVE  LET u == H!SetNodeVector(H!SetArrayVector(t, nasize), nhsize)
           IN  /\ Good(u) /\ Len(u.array) = nasize /\ u.nested = t.nested /\ (u.dummy <=> nhsize = 0)
               /\ nhsize <= Len(u.node) /\ \A i \in Nodes(u) : KeyOf(u, i) = H!Nil
               /\ Holds(u) = Stay(t, nasize)
  <1> DEFINE w == H!SetArrayVector(t, nasize)
             u == H!SetNodeVector(w, nhsize)
             A == [i \in 1..nasize |-> IF i <= Len(t.array) THEN t.array[i] ELSE H!Nil]
             stay == {x \in 1..Len(t.array) : x <= nasize /\ H!Val(t, x) # H!Nil}
  <1>1. t \in TableType /\ t.array \in Seq(Key \cup {H!Nil}) /\ Len(t.array) \in Nat
    BY GoodIs DEF Good, Typed, TableType
  <1>2. w = [t EXCEPT !.array = A]
    BY DEF H!SetArrayVector
  <1>3. A \in Seq(Key \cup {H!Nil}) /\ Len(A) = nasize
        /\ \A i \in 1..nasize : A[i] = IF i <= Len(t.array) THEN t.array[i] ELSE H!Nil
    <2>1. \A i \in 1..nasize : (IF i <= Len(t.array) THEN t.array[i] ELSE H!Nil) \in Key \cup {H!Nil}
      BY <1>1
    <2> QED BY <2>1
  <1> HIDE DEF A, w
  <1>4. w \in TableType /\ w.array = A /\ w.nested = t.nested
    BY <1>1, <1>2, <1>3 DEF TableType
  <1>5. \A s \in 1..nasize : A[s] = H!Nil \/ (A[s] = H!Numeral(s) /\ H!Numeral(s) \in Key)
    BY <1>1, <1>3, GoodIs
  <1> HIDE DEF u
  <1>6. /\ Good(u) /\ u.array = A /\ u.nested = t.nested /\ (u.dummy <=> nhsize = 0)
        /\ Len(u.node) \in Nat /\ nhsize <= Len(u.node)
        /\ \A i \in Nodes(u) : KeyOf(u, i) = H!Nil /\ ValOf(u, i) = H!Nil
    BY <1>3, <1>4, <1>5, FreshIsGood DEF u
  <1>7. Holds(u) = {x \in Key : \E s \in 1..nasize : A[s] = x}
    <2>1. Holds(u) = {x \in Key : \/ \E s \in 1..Len(u.array) : u.array[s] = x
                                  \/ \E i \in Nodes(u) : ValOf(u, i) = x}
      BY <1>6, HoldsAre
    <2>2. \A x \in Key : x # H!Nil
      BY KeysAre
    <2> QED BY <1>3, <1>6, <2>1, <2>2
  <1>8. \A s \in 1..Len(t.array) : H!KeyAt(t, s) = H!Numeral(s) /\ H!Val(t, s) = t.array[s]
    BY SlotsAre
  <1>9. Holds(u) = {H!KeyAt(t, s) : s \in stay}
    <2>1. ASSUME NEW x \in Key, NEW s \in 1..nasize, A[s] = x PROVE s \in stay /\ x = H!KeyAt(t, s)
      <3>1. x # H!Nil
        BY KeysAre
      <3>2. s \in 1..Len(t.array) /\ t.array[s] = x /\ x = H!Numeral(s)
        BY <1>1, <1>3, <1>5, <2>1, <3>1
      <3> QED BY <1>8, <2>1, <3>1, <3>2
    <2>2. ASSUME NEW s \in stay PROVE H!KeyAt(t, s) \in Key /\ s \in 1..nasize /\ A[s] = H!KeyAt(t, s)
      <3>1. s \in 1..nasize /\ A[s] = t.array[s] /\ t.array[s] # H!Nil
        BY <1>1, <1>3, <1>8
      <3> QED BY <1>5, <1>8, <3>1
    <2> HIDE DEF stay
    <2> QED BY <1>7, <2>1, <2>2
  <1> QED BY <1>3, <1>6, <1>9 DEF u, w, Stay

\* While the others are inserted again.
Filling(t, u, nasize, nhsize, L) ==
    /\ Good(u) /\ Len(u.array) = nasize /\ u.nested = t.nested /\ (u.dummy <=> nhsize = 0)
    /\ Len(u.node) = L /\ \A i \in Nodes(u) : KeyOf(u, i) = H!Nil \/ KeyOf(u, i) \in Others(t, nasize)

\* There is room for each.
LEMMA ReinsertFills ==
    ASSUME H!TableConstants, NEW t, Good(t), NEW nasize \in Nat, NEW nhsize \in Nat, NEW L,
           Cardinality(Others(t, nasize)) <= nhsize, nhsize <= L, NEW u,
           Filling(t, u, nasize, nhsize, L), NEW k \in Holds(t)
    PROVE  /\ Filling(t, H!Reinsert(u, k, k), nasize, nhsize, L)
           /\ Holds(H!Reinsert(u, k, k)) = Holds(u) \cup {k}
  <1> DEFINE HK == Others(t, nasize)
  <1>1. IsFiniteSet(HK) /\ Cardinality(HK) \in Nat /\ HK \subseteq Key
    <2>1. IsFiniteSet(Holds(t)) /\ HK \in SUBSET Holds(t) /\ Holds(t) \subseteq Key
      BY HoldsAreLive DEF Others, Holds
    <2> HIDE DEF HK
    <2> QED BY <2>1, FS_Subset, FS_CardinalityType
  <1>2. /\ Good(u) /\ Len(u.array) = nasize /\ u.nested = t.nested /\ (u.dummy <=> nhsize = 0)
        /\ Len(u.node) = L /\ \A i \in Nodes(u) : KeyOf(u, i) = H!Nil \/ KeyOf(u, i) \in HK
    BY DEF Filling
  <1>3. k \in Key /\ k # H!Nil /\ (H!InArray(u, k) \/ k \in HK)
    BY <1>2, KeysAre DEF Holds, Others, H!InArray
  <1>4. H!Slot(u, k) # 0 \/ ~NoRoom(u)
    <2>1. CASE H!Slot(u, k) = 0
      <3>1. ~H!InArray(u, k)
        BY <1>2, <1>3, <2>1, SlotIs, KeysAre DEF H!InArray
      <3>2. k \in HK
        BY <1>3, <3>1
      <3>3. L \in Nat
        BY <1>2, GoodIs
      <3> HIDE DEF HK
      <3>4. Cardinality(HK) # 0
        BY <1>1, <3>2, FS_EmptySet
      <3> DEFINE c == Cardinality(HK)
      <3>5. c \in Nat /\ c # 0 /\ c <= nhsize
        BY <1>1, <3>4 DEF HK
      <3> HIDE DEF c
      <3>6. ~u.dummy
        BY <1>2, <3>5
      <3>7. Cardinality(HK) <= Len(u.node)
        BY <1>2, <3>3, <3>5 DEF c
      <3> QED BY <1>1, <1>2, <2>1, <3>2, <3>6, <3>7, RoomIsLeft
    <2> QED BY <2>1
  <1> DEFINE v == H!Reinsert(u, k, k)
  <1>5. Updated(u, v, k, k)
    <2>1. k \in {k, H!Nil}
      OBVIOUS
    <2> QED BY <1>2, <1>3, <1>4, <2>1, ReinsertUpdates
  <1> HIDE DEF v, HK
  <1>6. ASSUME NEW i \in Nodes(v) PROVE KeyOf(v, i) = H!Nil \/ KeyOf(v, i) \in HK
    <2>1. CASE KeyOf(v, i) = k /\ ~H!InArray(v, k)
      <3>1. ~H!InArray(u, k)
        BY <1>5, <2>1 DEF Updated, H!InArray
      <3> QED BY <1>3, <2>1, <3>1
    <2>2. CASE \E j \in Nodes(u) : KeyOf(v, i) = KeyOf(u, j)
      BY <1>2, <2>2
    <2> QED BY <1>5, <2>1, <2>2 DEF Updated
  <1> QED BY <1>2, <1>3, <1>5, <1>6 DEF Filling, Updated, v, HK

\* Resizing keeps what is in the table when the hash part has room for it.
LEMMA ResizeIs ==
    ASSUME H!TableConstants, NEW t, Good(t), NEW nasize \in Nat, NEW nhsize \in Nat,
           Cardinality(Others(t, nasize)) <= nhsize
    PROVE  LET u == H!Resize(t, nasize, nhsize)
           IN  /\ Good(u) /\ Len(u.array) = nasize /\ u.nested = t.nested /\ (u.dummy <=> nhsize = 0)
               /\ nhsize <= Len(u.node) /\ Holds(u) = Holds(t)
               /\ \A i \in Nodes(u) : KeyOf(u, i) = H!Nil \/ KeyOf(u, i) \in Others(t, nasize)
  <1> DEFINE a == Len(t.array)
             c == a + Len(t.node)
             slot(n) == IF n <= a THEN n ELSE c - (n - a) + 1
             base == H!SetNodeVector(H!SetArrayVector(t, nasize), nhsize)
             again(s) == (s > nasize \/ s > a) /\ H!Val(t, s) # H!Nil
             at(f, n) == LET s == slot(n)
                         IN  CASE n = 0 -> base
                               [] n > 0 /\ (s > nasize \/ s > a) /\ H!Val(t, s) # H!Nil ->
                                    H!Reinsert(f[n - 1], H!KeyAt(t, s), H!Val(t, s))
                               [] OTHER -> f[n - 1]
             Is(f) == f = [n \in 0..c |-> at(f, n)]
             fill == CHOOSE f : Is(f)
             L == Len(base.node)
             V == {u \in TableType : Filling(t, u, nasize, nhsize, L)}
             next(n, u) == IF n <= c /\ again(slot(n))
                           THEN H!Reinsert(u, H!KeyAt(t, slot(n)), H!KeyAt(t, slot(n)))
                           ELSE u
             Step == [n \in Nat |-> [u \in V |-> next(n + 1, u)]]
             stay == Stay(t, nasize)
             moved(n) == {H!KeyAt(t, slot(x)) : x \in {y \in 1..n : again(slot(y))}}
  <1>1. a \in Nat /\ c \in Nat /\ a <= c
    <2>1. a \in Nat /\ Len(t.node) \in Nat
      BY GoodIs
    <2> DEFINE b == Len(t.node)
    <2>2. b \in Nat
      BY <2>1
    <2>3. c = a + b
      OBVIOUS
    <2> HIDE DEF a, b, c
    <2> QED BY <2>1, <2>2, <2>3
  <1>18. H!Slots(t) = 1..c
    BY DEF H!Slots
  <1>2. \A n \in Nat : n <= c /\ n > 0 => slot(n) \in H!Slots(t)
    <2>1. \A n \in Nat : slot(n) = IF n <= a THEN n ELSE c - (n - a) + 1
      OBVIOUS
    <2> HIDE DEF slot, c, a
    <2>2. \A n \in Nat : n <= c /\ n > 0 => slot(n) \in 1..c
      BY <1>1, <2>1
    <2> QED BY <1>18, <2>2
  <1>3. /\ Good(base) /\ Len(base.array) = nasize /\ base.nested = t.nested
        /\ (base.dummy <=> nhsize = 0) /\ nhsize <= L /\ Holds(base) = stay
        /\ \A i \in Nodes(base) : KeyOf(base, i) = H!Nil
    BY ResizeStarts
  <1>4. Filling(t, base, nasize, nhsize, L) /\ base \in V
    <2> HIDE DEF base
    <2>1. Filling(t, base, nasize, nhsize, L)
      BY <1>3 DEF Filling
    <2> QED BY <1>3, <2>1 DEF Good, Typed
  <1>5. ASSUME NEW s \in H!Slots(t), H!Val(t, s) # H!Nil
        PROVE  H!KeyAt(t, s) \in Holds(t) /\ H!Val(t, s) = H!KeyAt(t, s)
    BY <1>5, LiveIsFound, HoldsIs
  <1>6. \A f : \A n \in Nat : n > 0 /\ n <= c => at(f, n) = next(n, f[n - 1])
    <2> SUFFICES ASSUME NEW n \in Nat, NEW f, n > 0, n <= c PROVE at(f, n) = next(n, f[n - 1])
      OBVIOUS
    <2> HIDE DEF slot, base, c, a
    <2>1. again(slot(n)) => H!Val(t, slot(n)) = H!KeyAt(t, slot(n))
      BY <1>2, <1>5
    <2>2. CASE again(slot(n))
      <3>1. at(f, n) = H!Reinsert(f[n - 1], H!KeyAt(t, slot(n)), H!Val(t, slot(n)))
        BY <2>2
      <3> QED BY <2>1, <2>2, <3>1
    <2>3. CASE ~again(slot(n))
      <3>1. at(f, n) = f[n - 1]
        BY <2>3
      <3> QED BY <2>3, <3>1
    <2> QED BY <2>2, <2>3
  <1>7. \A f : at(f, 0) = base
    <2> HIDE DEF slot, base
    <2> QED OBVIOUS
  <1> HIDE DEF L
  <1>8. ASSUME NEW n \in Nat, n > 0, NEW u \in V
        PROVE  next(n, u) \in V /\ (n <= c => Holds(next(n, u)) = Holds(u) \cup
                                      (IF again(slot(n)) THEN {H!KeyAt(t, slot(n))} ELSE {}))
    <2> HIDE DEF slot, base, c, a
    <2>1. CASE n <= c /\ again(slot(n))
      <3> DEFINE k == H!KeyAt(t, slot(n))
                 v == H!Reinsert(u, k, k)
      <3>1. k \in Holds(t)
        BY <1>2, <1>5, <1>8, <2>1
      <3>2. next(n, u) = v
        BY <2>1
      <3> HIDE DEF k, v, next
      <3>3. Filling(t, v, nasize, nhsize, L) /\ Holds(v) = Holds(u) \cup {k}
        BY <1>3, <3>1, ReinsertFills DEF v
      <3>4. v \in V
        BY <3>3 DEF Filling, Good, Typed
      <3> QED BY <2>1, <3>2, <3>3, <3>4 DEF k
    <2>2. CASE ~(n <= c /\ again(slot(n)))
      <3>1. next(n, u) = u
        BY <2>2
      <3> QED BY <2>2, <3>1
    <2> QED BY <2>1, <2>2
  <1>9. \E f : Is(f)
    <2> HIDE DEF V, next, at, base, c
    <2>1. Step \in [Nat -> [V -> V]]
      <3>1. \A n \in Nat : n + 1 \in Nat /\ n + 1 > 0
        OBVIOUS
      <3> QED BY <1>8, <3>1
    <2> HIDE DEF Step
    <2>2. RecursiveUpTo(V, base, Step, c)
      BY <1>1, <1>4, <2>1, BoundedRecursion
    <2>3. PICK g \in [0..c -> V] : g = [n \in 0..c |-> IF n = 0 THEN base ELSE Step[n - 1][g[n - 1]]]
      BY <2>2 DEF RecursiveUpTo
    <2>4. ASSUME NEW n \in 0..c PROVE (IF n = 0 THEN base ELSE Step[n - 1][g[n - 1]]) = at(g, n)
      <3>1. CASE n = 0
        BY <1>7, <3>1
      <3>2. CASE n # 0
        <4>1. n - 1 \in 0..c /\ n - 1 \in Nat /\ (n - 1) + 1 = n /\ n \in Nat /\ n > 0 /\ n <= c
          BY <1>1, <3>2
        <4>2. g[n - 1] \in V
          BY <4>1
        <4>3. Step[n - 1][g[n - 1]] = next(n, g[n - 1])
          BY <4>1, <4>2 DEF Step
        <4> QED BY <1>6, <3>2, <4>1, <4>3
      <3> QED BY <3>1, <3>2
    <2>5. g = [n \in 0..c |-> at(g, n)]
      BY <2>3, <2>4
    <2> QED BY <2>5
  <1>10. Is(fill)
    <2> HIDE DEF Is
    <2> QED BY <1>9
  <1>11. H!Resize(t, nasize, nhsize) = fill[c]
    BY Zenon DEF H!Resize
  <1> HIDE DEF fill, at, next, V, base, slot, c, a
  <1>12. fill[0] = base /\ \A n \in Nat : n > 0 /\ n <= c => fill[n] = next(n, fill[n - 1])
    <2>1. fill[0] = base
      BY <1>1, <1>7, <1>10
    <2>2. ASSUME NEW n \in Nat, n > 0, n <= c PROVE fill[n] = next(n, fill[n - 1])
      <3>1. n \in 0..c
        BY <1>1, <2>2
      <3>2. fill[n] = at(fill, n)
        BY <1>10, <3>1
      <3> QED BY <1>6, <2>2, <3>2
    <2> QED BY <2>1, <2>2
  <1> DEFINE T == {n \in Nat : n <= c => fill[n] \in V /\ Holds(fill[n]) = stay \cup moved(n)}
  <1> HIDE DEF again
  <1>13. 0 \in T
    <2>1. moved(0) = {}
      OBVIOUS
    <2> HIDE DEF moved, stay
    <2> QED BY <1>3, <1>4, <1>12, <2>1
  <1>14. ASSUME NEW n \in T PROVE n + 1 \in T
    <2>1. n \in Nat /\ n + 1 \in Nat /\ n + 1 > 0 /\ (n + 1) - 1 = n
      OBVIOUS
    <2>2. CASE n + 1 <= c
      <3>1. fill[n] \in V /\ Holds(fill[n]) = stay \cup moved(n)
        BY <1>1, <2>1, <2>2
      <3>2. fill[n + 1] = next(n + 1, fill[n])
        BY <1>12, <2>1, <2>2
      <3>3. fill[n + 1] \in V /\ Holds(fill[n + 1]) = Holds(fill[n]) \cup
               (IF again(slot(n + 1)) THEN {H!KeyAt(t, slot(n + 1))} ELSE {})
        BY <1>8, <2>1, <2>2, <3>1, <3>2
      <3>4. moved(n + 1) = moved(n) \cup (IF again(slot(n + 1)) THEN {H!KeyAt(t, slot(n + 1))} ELSE {})
        <4>1. 1..(n + 1) = 1..n \cup {n + 1}
          BY <2>1
        <4> QED BY <4>1
      <3> HIDE DEF moved, stay
      <3> QED BY <2>1, <3>1, <3>3, <3>4
    <2>3. CASE ~(n + 1 <= c)
      BY <2>1, <2>3
    <2> QED BY <2>2, <2>3
  <1>15. fill[c] \in V /\ Holds(fill[c]) = stay \cup moved(c)
    <2> HIDE DEF T
    <2>1. T = Nat
      <3>1. T \subseteq Nat
        BY DEF T
      <3> QED BY <1>13, <1>14, <3>1, NatSetInduction
    <2>2. c \in T
      BY <1>1, <2>1
    <2> HIDE DEF moved, stay
    <2> QED BY <1>1, <2>2 DEF T
  <1>16. stay \cup moved(c) = Holds(t)
    <2>1. ASSUME NEW x \in Holds(t) PROVE x \in stay \cup moved(c)
      <3> DEFINE s == H!Slot(t, x)
      <3>1. s \in H!Slots(t) /\ H!KeyAt(t, s) = x /\ H!Val(t, s) # H!Nil
        BY HoldsIs DEF Holds
      <3> HIDE DEF s
      <3>2. CASE s <= nasize /\ s <= a
        <4>1. s \in 1..a
          BY <1>1, <1>18, <3>1, <3>2
        <4> QED BY <3>1, <3>2, <4>1 DEF Stay, a
      <3>3. CASE ~(s <= nasize /\ s <= a)
        <4> DEFINE n == IF s <= a THEN s ELSE a + (c - s) + 1
        <4>1. s \in 1..c /\ s \in Nat
          BY <1>1, <1>18, <3>1
        <4>2. n \in 1..c /\ slot(n) = s
          <5>2. slot(n) = IF n <= a THEN n ELSE c - (n - a) + 1
            BY DEF slot
          <5> HIDE DEF a
          <5> QED BY <1>1, <4>1, <5>2
        <4> HIDE DEF n, a
        <4>3. again(slot(n))
          BY <1>1, <3>1, <3>3, <4>1, <4>2 DEF again
        <4> QED BY <3>1, <4>2, <4>3
      <3> QED BY <3>2, <3>3
    <2>2. ASSUME NEW x \in stay PROVE x \in Holds(t)
      <3>1. PICK s \in 1..a : x = H!KeyAt(t, s) /\ H!Val(t, s) # H!Nil
        BY <2>2 DEF Stay, a
      <3>2. s \in H!Slots(t)
        BY <3>1, SlotsAre DEF a
      <3> QED BY <1>5, <3>1, <3>2
    <2>3. ASSUME NEW x \in moved(c) PROVE x \in Holds(t)
      <3>1. PICK n \in 1..c : x = H!KeyAt(t, slot(n)) /\ again(slot(n))
        BY <2>3
      <3>2. slot(n) \in H!Slots(t) /\ H!Val(t, slot(n)) # H!Nil
        BY <1>1, <1>2, <1>18, <3>1 DEF again
      <3> QED BY <1>5, <3>1, <3>2
    <2> HIDE DEF stay, moved
    <2> QED BY <2>1, <2>2, <2>3
  <1>17. Filling(t, fill[c], nasize, nhsize, L)
    BY <1>15 DEF V
  <1> HIDE DEF moved, stay
  <1> QED BY <1>3, <1>11, <1>15, <1>16, <1>17 DEF Filling

-----------------------------------------------------------------------------
(* Rehashing.                                                               *)

\* computesizes counts the integers that will be in the array.
LEMMA ComputeSizesIs ==
    ASSUME NEW ints, ints \subseteq Nat \ {0}, IsFiniteSet(ints)
    PROVE  LET c == H!ComputeSizes(ints)
           IN  c.size \in Nat /\ c.inside = Cardinality({k \in ints : k <= c.size})
  <1> DEFINE n == Cardinality(ints)
             upto(i) == {k \in ints : k <= H!Pow2[i]}
             slice(i) == {k \in upto(i) : i = 0 \/ k > H!Pow2[i - 1]}
             good == {i \in 0..n : /\ H!Pow2[i] \div 2 < n /\ slice(i) # {}
                                   /\ Cardinality(upto(i)) > H!Pow2[i] \div 2}
             i == CHOOSE x \in good : \A y \in good : y <= x
  <1>1. H!ComputeSizes(ints) = IF good = {} THEN [size |-> 0, inside |-> 0]
                               ELSE [size |-> H!Pow2[i], inside |-> Cardinality(upto(i))]
    BY Zenon DEF H!ComputeSizes, H!Cardinality, Cardinality, H!IsFiniteSet, IsFiniteSet
  <1>2. n \in Nat /\ good \subseteq 0..n
    BY FS_CardinalityType
  <1>3. CASE good = {}
    <2>1. H!ComputeSizes(ints).size = 0 /\ H!ComputeSizes(ints).inside = 0
      BY <1>1, <1>3
    <2>2. {k \in ints : k <= 0} = {}
      <3>1. ASSUME NEW k \in ints PROVE ~(k <= 0)
        <4>1. k \in Nat /\ k # 0
          OBVIOUS
        <4> QED BY <4>1
      <3> QED BY <3>1
    <2>3. Cardinality({k \in ints : k <= 0}) = 0
      BY <2>2, FS_EmptySet
    <2> QED BY <2>1, <2>3
  <1>4. CASE good # {}
    <2> HIDE DEF n, good
    <2> DEFINE V == {n - x : x \in good}
    <2>1. V \subseteq Nat /\ V # {} /\ \A x \in good : x \in Nat /\ n - x \in V
      <3>1. \A x \in good : x \in Nat /\ n - x \in Nat
        BY <1>2
      <3> QED BY <1>4, <3>1
    <2>2. PICK z \in V : \A y \in V : z <= y
      BY <2>1, LeastNumber
    <2>3. PICK x \in good : z = n - x
      OBVIOUS
    <2>4. ASSUME NEW y \in good PROVE y <= x
      <3>1. n - x <= n - y /\ x \in Nat /\ y \in Nat
        <4> HIDE DEF V
        <4> QED BY <2>1, <2>2, <2>3
      <3> QED BY <1>2, <3>1
    <2>5. \E w \in good : \A y \in good : y <= w
      BY <2>3, <2>4
    <2>6. i \in good
      BY <2>5
    <2> HIDE DEF i
    <2>7. i \in Nat
      BY <1>2, <2>6
    <2>8. H!Pow2[i] \in Nat
      BY <2>7, Powers
    <2>9. H!ComputeSizes(ints).size = H!Pow2[i] /\ H!ComputeSizes(ints).inside = Cardinality(upto(i))
      <3> HIDE DEF upto
      <3> QED BY <1>1, <1>4
    <2> QED BY <2>8, <2>9
  <1> QED BY <1>3, <1>4

\* After a rehash there is room for the key.
LEMMA RehashIs ==
    ASSUME H!TableConstants, NEW t, Good(t), NEW ek \in Key
    PROVE  LET u == H!Rehash(t, ek)
           IN  /\ Good(u) /\ u.nested = t.nested /\ Holds(u) = Holds(t)
               /\ H!Slot(u, ek) # 0 \/ ~NoRoom(u)
  <1> DEFINE total == Cardinality(Live(t)) + 1
             ints == H!IntKeys(t) \cup (IF H!IsInt(ek) /\ ek[2] > 0 THEN {ek[2]} ELSE {})
             c == H!ComputeSizes(ints)
             size == c.size
             inside == c.inside
             All == Holds(t) \cup {ek}
             In == {x \in All : H!IsInt(x) /\ x[2] \in 1..size}
             Out == All \ In
             upto == {k \in ints : k <= size}
  <1>1. H!Rehash(t, ek) = H!Resize(t, size, total - inside)
    BY Zenon DEF H!Rehash, Live, H!Cardinality, Cardinality, H!IsFiniteSet, IsFiniteSet
  <1>2. \A k \in Key : H!IsInt(k) => k[2] \in Nat /\ k = H!Numeral(k[2])
    BY DEF H!TableConstants, H!IsInt, H!Collectable
  <1>3. \A n : H!IsInt(H!Numeral(n)) /\ H!Numeral(n)[2] = n
    BY DEF H!IsInt, H!Numeral
  <1>4. All \subseteq Key
    BY DEF Holds
  <1>5. ASSUME NEW n \in ints PROVE n \in Nat \ {0} /\ H!Numeral(n) \in All
    <2>1. CASE n \in H!IntKeys(t)
      <3>1. PICK s \in H!Slots(t) : /\ H!Val(t, s) # H!Nil /\ H!IsInt(H!KeyAt(t, s)) /\ H!KeyAt(t, s)[2] > 0
                                    /\ n = H!KeyAt(t, s)[2]
        BY <2>1 DEF H!IntKeys
      <3>2. H!KeyAt(t, s) \in Key /\ H!KeyAt(t, s) \in Holds(t)
        BY <3>1, LiveIsFound, HoldsIs
      <3>3. n \in Nat /\ H!KeyAt(t, s) = H!Numeral(n)
        BY <1>2, <3>1, <3>2
      <3> QED BY <3>1, <3>2, <3>3
    <2>2. CASE n \notin H!IntKeys(t)
      <3>1. H!IsInt(ek) /\ ek[2] > 0 /\ n = ek[2]
        BY <2>2
      <3> QED BY <1>2, <3>1
    <2> QED BY <2>1, <2>2
  <1>6. /\ IsFiniteSet(All) /\ Cardinality(All) \in Nat /\ total \in Nat
        /\ Cardinality(All) <= total
    <2> DEFINE x == Cardinality(Holds(t))
               y == Cardinality(Live(t))
    <2>1. IsFiniteSet(Holds(t)) /\ x \in Nat /\ y \in Nat /\ x <= y
      BY HoldsAreLive
    <2>2. IsFiniteSet(All) /\ Cardinality(All) = IF ek \in Holds(t) THEN x ELSE x + 1
      BY <2>1, FS_AddElement
    <2> DEFINE z == Cardinality(All)
    <2>3. z = x \/ z = x + 1
      BY <2>2
    <2>4. total = y + 1
      OBVIOUS
    <2> HIDE DEF x, y, z, total
    <2>5. z \in Nat /\ total \in Nat /\ z <= total
      BY <2>1, <2>3, <2>4
    <2> QED BY <2>2, <2>5 DEF z
  <1>7. IsFiniteSet(ints)
    <2> DEFINE f == [n \in ints |-> H!Numeral(n)]
    <2>1. f \in [ints -> All]
      <3> HIDE DEF ints, All
      <3> QED BY <1>5
    <2>2. \A x, y \in ints : f[x] = f[y] => x = y
      <3> HIDE DEF ints
      <3> QED BY <1>3
    <2> HIDE DEF f, ints, All
    <2> QED BY <1>6, <2>1, <2>2, NotMore
  <1>8. size \in Nat /\ inside = Cardinality(upto)
    <2>1. ints \subseteq Nat \ {0}
      BY <1>5
    <2> HIDE DEF ints
    <2> QED BY <1>7, <2>1, ComputeSizesIs
  <1> HIDE DEF ints, c, total, All
  <1>9. In \in SUBSET All /\ IsFiniteSet(In) /\ Cardinality(In) \in Nat
    <2>1. In \in SUBSET All
      OBVIOUS
    <2> HIDE DEF In
    <2>2. IsFiniteSet(In)
      BY <1>6, <2>1, FS_Subset
    <2> QED BY <2>1, <2>2, FS_CardinalityType
  <1>10. inside \in Nat /\ inside <= Cardinality(In)
    <2> DEFINE f == [n \in upto |-> H!Numeral(n)]
    <2>1. ASSUME NEW n \in upto PROVE H!Numeral(n) \in In
      <3>1. n \in Nat \ {0} /\ n <= size /\ H!Numeral(n) \in All
        BY <1>5
      <3>2. H!Numeral(n)[2] \in 1..size
        BY <1>3, <1>8, <3>1
      <3> QED BY <1>3, <3>1, <3>2
    <2>2. f \in [upto -> In]
      <3> HIDE DEF upto, In
      <3> QED BY <2>1
    <2>3. \A x, y \in upto : f[x] = f[y] => x = y
      <3> HIDE DEF upto
      <3> QED BY <1>3
    <2> HIDE DEF f, upto, In
    <2>4. Cardinality(upto) \in Nat /\ Cardinality(upto) <= Cardinality(In)
      BY <1>9, <2>2, <2>3, NotMore
    <2> QED BY <1>8, <2>4
  <1>11. /\ IsFiniteSet(Out) /\ Cardinality(Out) \in Nat
         /\ Cardinality(Out) = Cardinality(All) - Cardinality(In)
    <2>1. All \cap In = In
      OBVIOUS
    <2> HIDE DEF In
    <2>2. IsFiniteSet(Out) /\ Cardinality(Out) = Cardinality(All) - Cardinality(All \cap In)
      BY <1>6, FS_Difference
    <2> HIDE DEF Out
    <2>3. Cardinality(Out) \in Nat
      BY <2>2, FS_CardinalityType
    <2> QED BY <2>1, <2>2, <2>3
  <1> DEFINE nh == total - inside
             out == Cardinality(Out)
  <1>12. nh \in Nat /\ out <= nh /\ out \in Nat
    <2> DEFINE x == Cardinality(All)
               y == Cardinality(In)
    <2>1. x \in Nat /\ y \in Nat /\ out \in Nat /\ out = x - y /\ inside <= y /\ inside \in Nat
          /\ x <= total /\ total \in Nat
      BY <1>6, <1>9, <1>10, <1>11
    <2> HIDE DEF x, y, out, inside, In
    <2> QED BY <2>1
  <1>13. Others(t, size) \subseteq Out
    BY DEF Others, All
  <1>14. Cardinality(Others(t, size)) <= nh
    <2> HIDE DEF Out, nh, size
    <2>1. /\ IsFiniteSet(Others(t, size))
          /\ Cardinality(Others(t, size)) <= Cardinality(Out)
      BY <1>11, <1>13, FS_Subset
    <2> DEFINE x == Cardinality(Others(t, size))
    <2>2. x \in Nat /\ x <= out
      BY <2>1, FS_CardinalityType
    <2> HIDE DEF x, out
    <2>3. x <= nh
      BY <1>12, <2>2
    <2> QED BY <2>3 DEF x
  <1> DEFINE u == H!Resize(t, size, nh)
  <1>15. /\ Good(u) /\ Len(u.array) = size /\ u.nested = t.nested /\ (u.dummy <=> nh = 0)
         /\ nh <= Len(u.node) /\ Holds(u) = Holds(t)
         /\ \A i \in Nodes(u) : KeyOf(u, i) = H!Nil \/ KeyOf(u, i) \in Others(t, size)
    <2> HIDE DEF nh, size
    <2> QED BY <1>8, <1>12, <1>14, ResizeIs
  <1> HIDE DEF u, inside, nh
  <1>16. H!Slot(u, ek) # 0 \/ ~NoRoom(u)
    <2> SUFFICES ASSUME H!Slot(u, ek) = 0 PROVE ~NoRoom(u)
      OBVIOUS
    <2>1. ~H!InArray(u, ek)
      BY <1>15, SlotIs, KeysAre DEF H!InArray
    <2>2. ek \in Out
      <3>1. ~(H!IsInt(ek) /\ ek[2] \in 1..size)
        BY <1>15, <2>1 DEF H!InArray
      <3> QED BY <3>1 DEF All
    <2>3. Out \subseteq Key
      BY <1>4
    <2>4. \A i \in Nodes(u) : KeyOf(u, i) = H!Nil \/ KeyOf(u, i) \in Out
      BY <1>13, <1>15
    <2>5. Len(u.node) \in Nat
      BY <1>15, GoodIs
    <2> HIDE DEF Out, In, size
    <2>6. out # 0
      BY <1>11, <2>2, FS_EmptySet
    <2>7. ~u.dummy /\ Cardinality(Out) <= Len(u.node)
      <3>1. ~u.dummy
        <4> HIDE DEF out
        <4> QED BY <1>12, <1>15, <2>6
      <3>2. out <= Len(u.node)
        <4> HIDE DEF out
        <4> QED BY <1>12, <1>15, <2>5
      <3> QED BY <3>1, <3>2
    <2> QED BY <1>11, <1>15, <2>2, <2>3, <2>4, <2>7, RoomIsLeft
  <1>17. H!Rehash(t, ek) = u
    BY <1>1 DEF u, nh
  <1> QED BY <1>15, <1>16, <1>17

\* An assignment.
LEMMA SetIs ==
    ASSUME H!TableConstants, NEW t, Good(t), NEW k \in Key, NEW v \in {k, H!Nil}
    PROVE  LET u == H!Set(t, k, v)
           IN  /\ Good(u) /\ u.nested = t.nested
               /\ Holds(u) = IF v = H!Nil THEN Holds(t) \ {k} ELSE Holds(t) \cup {k}
               /\ H!Slot(t, k) # 0 => u = H!SetVal(t, H!Slot(t, k), v)
  <1> DEFINE s == H!Slot(t, k)
             p == H!Place(t, k)
             w == H!Rehash(t, k)
             u == H!Set(t, k, v)
  <1>1. u = CASE s # 0 -> H!SetVal(t, s, v)
              [] s = 0 /\ p.slot # 0 -> H!SetVal(p.t, p.slot, v)
              [] OTHER -> H!Reinsert(w, k, v)
    BY DEF H!Set
  <1> HIDE DEF p, w, u
  <1>2. CASE s # 0
    <2>1. u = H!SetVal(t, s, v)
      BY <1>1, <1>2
    <2>2. Updated(t, u, k, v)
      BY <1>2, <2>1, SetValUpdates
    <2> QED BY <2>1, <2>2 DEF Updated, u
  <1>3. CASE s = 0 /\ p.slot # 0
    <2>1. u = H!SetVal(p.t, p.slot, v)
      BY <1>1, <1>3
    <2>2. Placed(t, p.t, k, p.slot) /\ ~H!InArray(t, k)
      BY <1>3, PlaceIs, SlotIs, KeysAre DEF H!InArray, p
    <2>3. Updated(t, u, k, v)
      BY <2>1, <2>2, PlaceUpdates
    <2> QED BY <1>3, <2>3 DEF Updated, u
  <1>4. CASE s = 0 /\ p.slot = 0
    <2>1. u = H!Reinsert(w, k, v)
      BY <1>1, <1>4
    <2>2. Good(w) /\ w.nested = t.nested /\ Holds(w) = Holds(t) /\ (H!Slot(w, k) # 0 \/ ~NoRoom(w))
      BY RehashIs DEF w
    <2>3. Updated(w, u, k, v)
      BY <2>1, <2>2, ReinsertUpdates
    <2> QED BY <1>4, <2>2, <2>3 DEF Updated, u
  <1> QED BY <1>2, <1>3, <1>4

-----------------------------------------------------------------------------
(* The operations of the program and of the collector.                      *)

\* The hash part has room for the keys it keeps when the array grows.
LEMMA OthersFit ==
    ASSUME H!TableConstants, NEW t, Good(t), NEW last \in Nat, last > Len(t.array)
    PROVE  LET nh == IF t.dummy THEN 0 ELSE Len(t.node)
           IN  nh \in Nat /\ Cardinality(Others(t, last)) <= nh
  <1> DEFINE a == Len(t.array)
             HK == Others(t, last)
             L == Len(t.node)
             f == [x \in HK |-> H!Slot(t, x) - a]
  <1>1. a \in Nat /\ L \in Nat
    BY GoodIs
  <1>2. ASSUME NEW x \in HK
        PROVE  H!Slot(t, x) - a \in Nodes(t) /\ H!Slot(t, x) = a + (H!Slot(t, x) - a) /\ ~t.dummy
    <2>1. /\ x \in Key /\ H!Slot(t, x) \in H!Slots(t)
          /\ H!KeyAt(t, H!Slot(t, x)) = x /\ H!Val(t, H!Slot(t, x)) # H!Nil
      BY HoldsIs DEF Others, Holds
    <2> DEFINE s == H!Slot(t, x)
               i == s - a
    <2>2. s \notin 1..a
      <3>1. CASE s \in 1..a
        <4>1. x = H!Numeral(s)
          BY <2>1, <3>1, SlotsAre
        <4>2. H!IsInt(x) /\ x[2] = s
          BY <4>1 DEF H!IsInt, H!Numeral
        <4>3. s \in 1..last
          <5> HIDE DEF a, s
          <5> QED BY <1>1, <3>1 DEF a
        <4> QED BY <4>2, <4>3 DEF Others
      <3> QED BY <3>1
    <2>3. i \in Nodes(t) /\ s = a + i
      BY <2>1, <2>2, SlotsAre
    <2> HIDE DEF i, s
    <2>4. ValOf(t, i) # H!Nil
      BY <2>1, <2>3, SlotsAre DEF s
    <2>5. ~t.dummy
      <3>1. CASE t.dummy
        <4>1. t.node = <<H!NoNode>>
          BY <3>1 DEF Good, LastFree
        <4>2. i = 1
          BY <2>3, <4>1 DEF Nodes
        <4> QED BY <2>4, <4>1, <4>2 DEF ValOf, H!NoNode
      <3> QED BY <3>1
    <2> QED BY <2>3, <2>5 DEF i, s
  <1>3. f \in [HK -> Nodes(t)]
    <2> HIDE DEF HK, a
    <2> QED BY <1>2
  <1>4. ASSUME NEW x \in HK, NEW y \in HK, f[x] = f[y] PROVE x = y
    <2>1. H!Slot(t, x) = H!Slot(t, y)
      BY <1>2, <1>4
    <2>2. H!KeyAt(t, H!Slot(t, x)) = x /\ H!KeyAt(t, H!Slot(t, y)) = y
      BY HoldsIs DEF Others, Holds
    <2> QED BY <2>1, <2>2
  <1> HIDE DEF f, a
  <1>5. IsFiniteSet(Nodes(t)) /\ Cardinality(Nodes(t)) = L
    <2> HIDE DEF L
    <2>1. IsFiniteSet(1..L)
      BY <1>1, FS_Interval
    <2>2. Cardinality(1..L) = L
      BY <1>1, FS_Interval
    <2> QED BY <2>1, <2>2 DEF L, Nodes
  <1>6. Cardinality(HK) \in Nat /\ Cardinality(HK) <= L
    <2> HIDE DEF HK
    <2> QED BY <1>3, <1>4, <1>5, NotMore
  <1>7. CASE t.dummy
    <2>1. HK = {}
      BY <1>2, <1>7
    <2>2. Cardinality(HK) = 0
      <3> HIDE DEF HK
      <3> QED BY <2>1, FS_EmptySet
    <2> QED BY <1>7, <2>2
  <1>8. CASE ~t.dummy
    BY <1>1, <1>6, <1>8
  <1> QED BY <1>7, <1>8

\* The table OP_SETLIST leaves.
Listed(t, last) ==
    LET room == IF last > Len(t.array)
                THEN H!Resize(t, last, IF t.dummy THEN 0 ELSE Len(t.node)) ELSE t
        set[n \in 0..last] == IF n = 0 THEN room ELSE LET k == H!Numeral(last - n + 1)
                                                      IN  H!Set(set[n - 1], k, k)
    IN  set[last]

\* It keeps what was there.
LEMMA ListedIs ==
    ASSUME H!TableConstants, NEW t, Good(t), NEW last \in Lasts
    PROVE  /\ Good(Listed(t, last)) /\ Listed(t, last).nested = t.nested
           /\ Holds(t) \subseteq Holds(Listed(t, last))
  <1> DEFINE nh == IF t.dummy THEN 0 ELSE Len(t.node)
             room == IF last > Len(t.array) THEN H!Resize(t, last, nh) ELSE t
             V == {u \in TableType : Good(u) /\ u.nested = t.nested /\ Holds(t) \subseteq Holds(u)}
             key(n) == H!Numeral(last - n + 1)
             Is(f) == f = [n \in 0..last |-> IF n = 0 THEN room ELSE LET k == H!Numeral(last - n + 1)
                                                                    IN  H!Set(f[n - 1], k, k)]
             set == CHOOSE f : Is(f)
             Step == [n \in Nat |-> [u \in V |-> IF n + 1 <= last THEN H!Set(u, key(n + 1), key(n + 1))
                                                 ELSE u]]
  <1>1. last \in Nat /\ \A n \in 1..last : key(n) \in Key
    <2>1. last \in Nat /\ \A n \in 1..last : H!Numeral(n) \in Key
      BY DEF H!TableConstants
    <2>2. \A n \in 1..last : last - n + 1 \in 1..last
      BY <2>1
    <2> QED BY <2>1, <2>2
  <1>2. room \in V
    <2>1. CASE last > Len(t.array)
      <3>1. nh \in Nat /\ Cardinality(Others(t, last)) <= nh
        BY <1>1, <2>1, OthersFit
      <3> DEFINE u == H!Resize(t, last, nh)
      <3> HIDE DEF nh
      <3>2. Good(u) /\ u.nested = t.nested /\ Holds(u) = Holds(t)
        BY <1>1, <3>1, ResizeIs
      <3> HIDE DEF u
      <3>3. u \in V
        BY <3>2 DEF Good, Typed
      <3> QED BY <2>1, <3>3 DEF u
    <2>2. CASE ~(last > Len(t.array))
      BY <2>2 DEF Good, Typed
    <2> QED BY <2>1, <2>2
  <1> HIDE DEF room, key
  <1>3. ASSUME NEW u \in V, NEW k \in Key PROVE H!Set(u, k, k) \in V
    <2> DEFINE w == H!Set(u, k, k)
    <2>1. k \in {k, H!Nil} /\ k # H!Nil
      BY KeysAre
    <2>2. Good(w) /\ w.nested = u.nested
          /\ Holds(w) = IF k = H!Nil THEN Holds(u) \ {k} ELSE Holds(u) \cup {k}
      BY <2>1, SetIs
    <2> HIDE DEF w
    <2>3. w \in V
      BY <2>1, <2>2 DEF Good, Typed
    <2> QED BY <2>3 DEF w
  <1> HIDE DEF V
  <1>4. \E f : Is(f)
    <2>1. Step \in [Nat -> [V -> V]]
      <3>1. \A n \in Nat : n + 1 <= last => n + 1 \in 1..last
        BY <1>1
      <3> QED BY <1>1, <1>3, <3>1
    <2> HIDE DEF Step
    <2>2. RecursiveUpTo(V, room, Step, last)
      BY <1>1, <1>2, <2>1, BoundedRecursion
    <2>3. PICK g \in [0..last -> V] : g = [n \in 0..last |-> IF n = 0 THEN room ELSE Step[n - 1][g[n - 1]]]
      BY <2>2 DEF RecursiveUpTo
    <2>4. ASSUME NEW n \in 0..last, n # 0
          PROVE  Step[n - 1][g[n - 1]] = H!Set(g[n - 1], key(n), key(n))
      <3>1. n - 1 \in 0..last /\ n - 1 \in Nat /\ (n - 1) + 1 = n /\ n <= last
        BY <1>1, <2>4
      <3>2. g[n - 1] \in V
        BY <3>1
      <3> QED BY <3>1, <3>2 DEF Step
    <2>5. Is(g)
      BY <2>3, <2>4 DEF key
    <2> HIDE DEF Is
    <2> QED BY <2>5
  <1>5. Is(set)
    <2> HIDE DEF Is
    <2> QED BY <1>4
  <1>6. Listed(t, last) = set[last]
    BY Zenon DEF Listed, room
  <1> HIDE DEF set
  <1>7. set[0] = room /\ \A n \in 0..last : n # 0 => set[n] = H!Set(set[n - 1], key(n), key(n))
    BY <1>1, <1>5 DEF key
  <1> DEFINE T == {n \in Nat : n <= last => set[n] \in V}
  <1>8. 0 \in T
    BY <1>2, <1>7
  <1>9. ASSUME NEW n \in T PROVE n + 1 \in T
    <2>1. n \in Nat /\ n + 1 \in Nat /\ (n + 1) - 1 = n /\ n + 1 # 0
      OBVIOUS
    <2>2. CASE n + 1 <= last
      <3>1. n + 1 \in 0..last /\ n + 1 \in 1..last /\ set[n] \in V
        BY <1>1, <2>1, <2>2
      <3>2. set[n + 1] = H!Set(set[n], key(n + 1), key(n + 1))
        BY <1>7, <2>1, <3>1
      <3>3. set[n + 1] \in V
        BY <1>1, <1>3, <3>1, <3>2
      <3> QED BY <2>1, <3>3
    <2>3. CASE ~(n + 1 <= last)
      BY <2>1, <2>3
    <2> QED BY <2>2, <2>3
  <1>10. set[last] \in V
    <2> HIDE DEF T
    <2>1. T = Nat
      <3>1. T \subseteq Nat
        BY DEF T
      <3> QED BY <1>8, <1>9, <3>1, NatSetInduction
    <2> QED BY <1>1, <2>1 DEF T
  <1> QED BY <1>6, <1>10 DEF V

\* What the collector leaves.
Collected(t, k) == H!RemoveEntries(H!Emptied(t, k))

\* Empty entries, some with dead keys, where they were.
LEMMA CollectedIs ==
    ASSUME H!TableConstants, NEW t, Good(t), NEW k
    PROVE  LET u == Collected(t, k)
           IN  /\ Good(u) /\ u.nested = t.nested /\ Holds(u) = Holds(t) \ {k}
               /\ \A x \in Key : H!FindIndex(u, x) = H!FindIndex(t, x)
  <1> DEFINE u == Collected(t, k)
             A == [i \in DOMAIN t.array |-> IF H!Numeral(i) = k THEN H!Nil ELSE t.array[i]]
             n1(i) == IF t.node[i].key = k THEN [t.node[i] EXCEPT !.val = H!Nil] ELSE t.node[i]
             B1 == [i \in DOMAIN t.node |-> n1(i)]
             B2 == [i \in DOMAIN B1 |-> H!RemoveEntry(B1[i])]
  <1>1. /\ t \in TableType /\ t.array \in Seq(Key \cup {H!Nil}) /\ t.node \in Seq(NodeType)
        /\ Len(t.array) \in Nat /\ Len(t.node) \in Nat
        /\ DOMAIN t.array = 1..Len(t.array) /\ DOMAIN t.node = 1..Len(t.node)
    BY GoodIs DEF Good, Typed, TableType
  <1>2. u = [t EXCEPT !.array = A, !.node = B2]
    <2> DEFINE w == H!Emptied(t, k)
    <2>1. w = [t EXCEPT !.array = A, !.node = B1]
      BY <1>1 DEF H!Emptied, TableType
    <2> HIDE DEF A, B1
    <2>2. w.node = B1
      BY <1>1, <2>1 DEF TableType
    <2>3. u = H!RemoveEntries(w)
      BY DEF Collected
    <2> HIDE DEF w
    <2>4. H!RemoveEntries(w) = [w EXCEPT !.node = B2]
      <3> DEFINE G == [i \in DOMAIN w.node |-> H!RemoveEntry(w.node[i])]
      <3>1. H!RemoveEntries(w) = [w EXCEPT !.node = G]
        BY Zenon DEF H!RemoveEntries
      <3>2. G = B2
        BY <2>2
      <3> HIDE DEF G, B2
      <3> QED BY <3>1, <3>2
    <2> HIDE DEF B2, u
    <2> QED BY <1>1, <2>1, <2>3, <2>4 DEF TableType
  <1>3. ASSUME NEW i \in Nodes(t)
        PROVE  /\ B2[i] \in NodeType /\ B2[i].next = t.node[i].next
               /\ B2[i].val = IF t.node[i].key = k THEN H!Nil ELSE t.node[i].val
               /\ \/ B2[i].key = t.node[i].key
                  \/ /\ B2[i].val = H!Nil /\ H!Collectable(t.node[i].key)
                     /\ t.node[i].key \in Key /\ B2[i].key = H!Dead(t.node[i].key)
    <2> DEFINE x == t.node[i]
               y == n1(i)
    <2>1. x \in NodeType /\ x.key \in Key \cup DeadKeys \cup {H!Nil}
      <3>1. x \in NodeType
        BY <1>1 DEF Nodes
      <3> HIDE DEF x
      <3> QED BY <3>1 DEF NodeType
    <2>2. y = IF x.key = k THEN [x EXCEPT !.val = H!Nil] ELSE x
      OBVIOUS
    <2>3. B2[i] = H!RemoveEntry(y)
      BY <1>1 DEF Nodes
    <2> HIDE DEF x, y, B2
    <2>4. /\ y \in NodeType /\ y.key = x.key /\ y.next = x.next
          /\ y.val = IF x.key = k THEN H!Nil ELSE x.val
      BY <2>1, <2>2 DEF NodeType
    <2>5. H!Collectable(x.key) => x.key \in Key
      BY <2>1 DEF H!Collectable, DeadKeys, H!Dead, H!Nil
    <2>6. CASE y.val = H!Nil /\ H!Collectable(y.key)
      <3>1. B2[i] = [y EXCEPT !.key = H!Dead(y.key)] /\ H!Dead(y.key) \in DeadKeys
        BY <2>3, <2>4, <2>5, <2>6 DEF DeadKeys, H!RemoveEntry
      <3>2. /\ B2[i] \in NodeType /\ B2[i].next = y.next /\ B2[i].val = y.val
            /\ B2[i].key = H!Dead(y.key)
        BY <2>4, <3>1 DEF NodeType
      <3> QED BY <2>4, <2>5, <2>6, <3>2 DEF x
    <2>7. CASE ~(y.val = H!Nil /\ H!Collectable(y.key))
      <3>1. B2[i] = y
        BY <2>3, <2>7 DEF H!RemoveEntry
      <3> QED BY <2>4, <3>1 DEF x
    <2> QED BY <2>6, <2>7
  <1>4. DOMAIN B2 = 1..Len(t.node)
    BY <1>1
  <1>5. A \in Seq(Key \cup {H!Nil}) /\ Len(A) = Len(t.array)
        /\ \A i \in 1..Len(t.array) : A[i] = IF H!Numeral(i) = k THEN H!Nil ELSE t.array[i]
    <2>1. \A i \in 1..Len(t.array) : (IF H!Numeral(i) = k THEN H!Nil ELSE t.array[i]) \in Key \cup {H!Nil}
      BY <1>1
    <2> QED BY <1>1, <2>1
  <1>6. B2 \in Seq(NodeType) /\ Len(B2) = Len(t.node)
    <2>1. B2 = [i \in 1..Len(t.node) |-> B2[i]]
      BY <1>4
    <2> HIDE DEF B2
    <2>2. \A i \in 1..Len(t.node) : B2[i] \in NodeType
      BY <1>3 DEF Nodes
    <2> QED BY <1>1, <2>1, <2>2
  <1> HIDE DEF A, B2, u
  <1>7. /\ u \in TableType /\ u.array = A /\ u.node = B2 /\ u.lastfree = t.lastfree
        /\ u.dummy = t.dummy /\ u.nested = t.nested
    BY <1>1, <1>2, <1>5, <1>6 DEF TableType
  <1>8. Nodes(u) = Nodes(t)
    BY <1>6, <1>7 DEF Nodes
  <1>9. \A i \in Nodes(t) :
           /\ Onward(u, i) = Onward(t, i) /\ ValOf(u, i) = IF KeyOf(t, i) = k THEN H!Nil ELSE ValOf(t, i)
           /\ \/ KeyOf(u, i) = KeyOf(t, i)
              \/ ValOf(u, i) = H!Nil /\ KeyOf(t, i) \in Key /\ KeyOf(u, i) = H!Dead(KeyOf(t, i))
    BY <1>3, <1>7 DEF Onward, KeyOf, ValOf
  <1>10. Filled(u)
    <2>1. /\ \A i \in Nodes(t) : ValOf(t, i) = H!Nil \/ (ValOf(t, i) = KeyOf(t, i) /\ KeyOf(t, i) \in Key)
          /\ \A s \in 1..Len(t.array) :
               t.array[s] = H!Nil \/ (t.array[s] = H!Numeral(s) /\ H!Numeral(s) \in Key)
      BY GoodIs
    <2>2. \A i \in Nodes(t) : ValOf(u, i) = H!Nil \/ (ValOf(u, i) = KeyOf(u, i) /\ KeyOf(u, i) \in Key)
      BY <1>9, <2>1
    <2> QED BY <1>5, <1>7, <1>8, <2>1, <2>2 DEF Filled
  <1>11. u.dummy => u.node = <<H!NoNode>>
    <2> SUFFICES ASSUME u.dummy PROVE u.node = <<H!NoNode>>
      OBVIOUS
    <2>1. t.node = <<H!NoNode>>
      BY <1>7 DEF Good, LastFree
    <2>2. 1 \in Nodes(t) /\ Len(t.node) = 1 /\ t.node[1] = H!NoNode
      BY <2>1 DEF Nodes
    <2>3. ~H!Collectable(H!NoNode.key) /\ H!NoNode.val = H!Nil
      BY DEF H!NoNode, H!Collectable, H!Nil
    <2>4. B2[1] \in NodeType /\ B2[1].next = H!NoNode.next /\ B2[1].val = H!Nil /\ B2[1].key = H!NoNode.key
      BY <1>3, <2>2, <2>3
    <2>5. B2[1] = H!NoNode
      <3>1. \A x \in NodeType : x = [key |-> x.key, val |-> x.val, next |-> x.next]
        BY DEF NodeType
      <3>2. B2[1] = [key |-> B2[1].key, val |-> B2[1].val, next |-> B2[1].next]
        BY <2>4, <3>1
      <3> QED BY <2>4, <3>2 DEF H!NoNode
    <2> QED BY <1>6, <1>7, <2>2, <2>5
  <1>12. Faded(t, u)
    BY <1>5, <1>6, <1>7, <1>9, <1>10, <1>11 DEF Faded, SameChains
  <1>13. Good(u) /\ \A x \in Key : H!FindIndex(u, x) = H!FindIndex(t, x)
    BY <1>12, FadedIsGood
  <1>14. Holds(u) = Holds(t) \ {k}
    <2> DEFINE X(x, y) == \/ \E s \in 1..Len(y.array) : y.array[s] = x
                          \/ \E i \in Nodes(y) : ValOf(y, i) = x
    <2>1. Holds(t) = {x \in Key : X(x, t)}
      BY HoldsAre
    <2>2. Holds(u) = {x \in Key : X(x, u)}
      BY <1>13, HoldsAre
    <2>3. /\ \A i \in Nodes(t) : ValOf(t, i) = H!Nil \/ ValOf(t, i) = KeyOf(t, i)
          /\ \A s \in 1..Len(t.array) : t.array[s] = H!Nil \/ t.array[s] = H!Numeral(s)
      BY GoodIs
    <2>4. ASSUME NEW x \in Key PROVE X(x, u) <=> X(x, t) /\ x # k
      <3>1. x # H!Nil
        BY KeysAre
      <3>2. (\E s \in 1..Len(u.array) : u.array[s] = x)
              <=> (\E s \in 1..Len(t.array) : t.array[s] = x) /\ x # k
        BY <1>5, <1>7, <2>3, <3>1
      <3>3. (\E i \in Nodes(u) : ValOf(u, i) = x) <=> (\E i \in Nodes(t) : ValOf(t, i) = x) /\ x # k
        BY <1>8, <1>9, <2>3, <3>1
      <3> QED BY <3>2, <3>3
    <2> HIDE DEF X
    <2> QED BY <2>1, <2>2, <2>4
  <1> QED BY <1>7, <1>13, <1>14 DEF u

-----------------------------------------------------------------------------
(* The program, the collector and the traversal.                            *)

\* What the program reads: each key there with itself.
LEMMA ContentsAre ==
    ASSUME H!TableConstants, NEW t, Good(t)
    PROVE  H!Contents(t) = [k \in Holds(t) |-> k] /\ DOMAIN H!Contents(t) = Holds(t)
  <1>1. H!Contents(t) = [k \in Holds(t) |-> H!Get(t, k)]
    BY DEF H!Contents, Holds
  <1>2. \A k \in Holds(t) : H!Get(t, k) = k
    BY HoldsIs
  <1> QED BY <1>1, <1>2

\* The keys behind a slot.
Later(t, i) == {k \in Holds(t) : H!Slot(t, k) > i}

\* A traversal has yet to visit the keys behind the last one; there is none of a dead key.
Visiting == IF H!Traversing
            THEN /\ cursor \in Key /\ H!FindIndex(table, cursor) # 0
                 /\ left = Later(table, H!FindIndex(table, cursor))
            ELSE cursor = H!Nil

TableInv == Good(table) /\ ~table.nested /\ map = H!Contents(table) /\ Visiting

\* No set of keys is one of the marks.
LEMMA MarksAre ==
    ASSUME H!TableConstants
    PROVE  /\ H!NoTraversal = H!Promise!NoTraversal /\ H!Finished = H!Promise!Finished
           /\ \A S : S \subseteq Key => S # H!NoTraversal /\ S # H!Finished
  <1>1. \A k \in Key : k # <<"none">> /\ k # <<"end">>
    <2>1. \A k \in Key : k[1] \in {"int", "str", "obj"}
      BY DEF H!TableConstants, H!IsInt, H!Collectable
    <2>2. <<"none">>[1] = "none" /\ <<"end">>[1] = "end"
      OBVIOUS
    <2> QED BY <2>1, <2>2
  <1> QED BY <1>1 DEF H!NoTraversal, H!Finished, H!Promise!NoTraversal, H!Promise!Finished

\* What the invariant says of a traversal, or that there is none.
LEMMA VisitingIs ==
    ASSUME H!TableConstants, TableInv
    PROVE  /\ H!Traversing => left \subseteq Holds(table) /\ cursor \in Key
           /\ DOMAIN map = Holds(table) /\ map = [k \in Holds(table) |-> k] /\ Holds(table) \subseteq Key
           /\ \A k \in Holds(table) : H!Slot(table, k) = H!FindIndex(table, k)
  <1>1. Good(table) /\ map = H!Contents(table) /\ Visiting
    BY DEF TableInv
  <1>2. DOMAIN map = Holds(table) /\ map = [k \in Holds(table) |-> k]
    BY <1>1, ContentsAre
  <1>3. ASSUME NEW k \in Holds(table) PROVE H!Slot(table, k) = H!FindIndex(table, k)
    <2>1. /\ H!Slot(table, k) \in H!Slots(table)
          /\ H!KeyAt(table, H!Slot(table, k)) = k /\ H!Val(table, H!Slot(table, k)) # H!Nil
      BY <1>1, HoldsIs DEF Holds
    <2> QED BY <1>1, <2>1, LiveIsFound
  <1> QED BY <1>1, <1>2, <1>3 DEF Visiting, Later, Holds

\* Both modules count alike.
LEMMA CardinalitiesAre == \A S : H!Promise!Cardinality(S) = Cardinality(S)
  BY Zenon DEF H!Promise!Cardinality, Cardinality, H!Promise!IsFiniteSet, IsFiniteSet

\* A step of the map: keys are added, or one goes and the traversal goes on.
LEMMA MapChanges ==
    ASSUME H!TableConstants, NEW A, NEW B, map = [k \in A |-> k], map' = [k \in B |-> k],
           A \subseteq B \/ (B \subseteq A /\ \E k \in A : A \ B = {k}),
           left' = H!NoTraversal \/ (B \subseteq A /\ H!Traversing /\ left' = left \ (A \ B))
    PROVE  H!Promise!Change
  <1>1. DOMAIN map = A /\ DOMAIN map' = B
    OBVIOUS
  <1>2. A \ B = {} \/ (B \ A = {} /\ Cardinality(A \ B) = 1)
    BY FS_Singleton
  <1>3. left' = H!Promise!NoTraversal
           \/ /\ B \ A = {} /\ left \notin {H!Promise!NoTraversal, H!Promise!Finished}
              /\ left' = left \ (A \ B)
    BY MarksAre DEF H!Traversing
  <1>4. map' = [k \in DOMAIN map' |-> k]
    BY <1>1
  <1>5. \/ DOMAIN map \ DOMAIN map' = {}
        \/ DOMAIN map' \ DOMAIN map = {} /\ Cardinality(DOMAIN map \ DOMAIN map') = 1
    BY Zenon, <1>1, <1>2
  <1>6. \/ left' = H!Promise!NoTraversal
        \/ /\ DOMAIN map' \ DOMAIN map = {} /\ left \notin {H!Promise!NoTraversal, H!Promise!Finished}
           /\ left' = left \ (DOMAIN map \ DOMAIN map')
    BY Zenon, <1>1, <1>3
  <1> QED BY Zenon, <1>4, <1>5, <1>6, CardinalitiesAre DEF H!Promise!Change

\* The initial table is empty.
LEMMA InitIs ==
    ASSUME H!TableConstants, H!Init
    PROVE  TableInv /\ H!Promise!Init
  <1>1. PICK a \in TableSizes, h \in TableSizes : table = H!New(a, h)
    BY DEF H!Init
  <1> DEFINE t == [array |-> [i \in 1..a |-> H!Nil], node |-> <<H!NoNode>>, lastfree |-> 1,
                   dummy |-> TRUE, nested |-> FALSE]
  <1>2. a \in Nat /\ h \in Nat
    BY DEF H!TableConstants
  <1>3. /\ t \in TableType /\ Len(t.array) = a /\ \A s \in 1..a : t.array[s] = H!Nil
    <2>1. H!NoNode \in NodeType
      BY DEF H!NoNode, NodeType
    <2>2. <<H!NoNode>> \in Seq(NodeType)
      BY <2>1
    <2>3. [i \in 1..a |-> H!Nil] \in Seq(Key \cup {H!Nil})
      BY <1>2
    <2> QED BY <1>2, <2>2, <2>3 DEF TableType
  <1>4. t.nested = FALSE
    OBVIOUS
  <1>5. table = H!SetNodeVector(t, h)
    BY <1>1 DEF H!New
  <1> HIDE DEF t
  <1>6. Good(table) /\ ~table.nested
    BY <1>2, <1>3, <1>4, <1>5, FreshIsGood
  <1>7. map = H!Contents(table) /\ cursor = H!Nil /\ left = H!NoTraversal
    BY DEF H!Init
  <1>8. TableInv
    BY <1>6, <1>7 DEF TableInv, Visiting, H!Traversing
  <1>9. map = [k \in Holds(table) |-> k] /\ Holds(table) \in SUBSET Key
    BY <1>8, VisitingIs
  <1> QED BY <1>7, <1>8, <1>9, MarksAre DEF H!Promise!Init

\* The traversal goes on over an assignment to a key that is there.
LEMMA StoreIs ==
    ASSUME H!TableConstants, TableInv, NEW k \in Key, NEW v \in {k, H!Nil},
           table' = H!Set(table, k, v), map' = H!Contents(table'),
           IF H!Traversing /\ k \in DOMAIN map
           THEN left' = (IF v = H!Nil THEN left \ {k} ELSE left) /\ cursor' = cursor
           ELSE cursor' = H!Nil /\ left' = H!NoTraversal
    PROVE  TableInv' /\ H!Promise!Change
  <1> DEFINE D == Holds(table)
             G == IF v = H!Nil THEN D \ {k} ELSE D \cup {k}
  <1>1. Good(table) /\ ~table.nested /\ Visiting
    BY DEF TableInv
  <1>2. /\ Good(table') /\ table'.nested = table.nested /\ Holds(table') = G
        /\ H!Slot(table, k) # 0 => table' = H!SetVal(table, H!Slot(table, k), v)
    BY <1>1, SetIs
  <1>3. map' = [x \in G |-> x] /\ DOMAIN map' = G
    BY <1>2, ContentsAre
  <1>4. /\ DOMAIN map = D /\ map = [x \in D |-> x] /\ D \subseteq Key
        /\ H!Traversing => left \subseteq D /\ cursor \in Key
    BY VisitingIs
  <1>5. CASE H!Traversing /\ k \in D
    <2>1. H!Slot(table, k) # 0
      BY <1>1, <1>5, HoldsIs
    <2>2. /\ \A x \in Key : H!FindIndex(table', x) = H!FindIndex(table, x)
          /\ \A x \in Key : H!Slot(table', x) = H!Slot(table, x)
      BY <1>1, <1>2, <2>1, SetValUpdates
    <2>3. left' = (IF v = H!Nil THEN left \ {k} ELSE left) /\ cursor' = cursor
      BY <1>4, <1>5
    <2>4. /\ cursor \in Key /\ H!FindIndex(table, cursor) # 0
          /\ left = Later(table, H!FindIndex(table, cursor))
      BY <1>1, <1>5 DEF Visiting
    <2>5. left' = Later(table', H!FindIndex(table', cursor'))
      <3> DEFINE i == H!FindIndex(table, cursor)
      <3>1. H!FindIndex(table', cursor') = i
        BY <2>2, <2>3, <2>4
      <3>2. left = {x \in D : H!Slot(table, x) > i}
        BY <2>4 DEF Later
      <3>3. G \subseteq D
        BY <1>5
      <3>4. Later(table', i) = {x \in G : H!Slot(table, x) > i}
        BY <1>2, <1>4, <2>2, <3>3 DEF Later
      <3> HIDE DEF i, D
      <3>5. (IF v = H!Nil THEN left \ {k} ELSE left) = {x \in G : H!Slot(table, x) > i}
        BY <1>5, <3>2
      <3> QED BY <2>3, <3>1, <3>4, <3>5
    <2>6. H!Traversing'
      <3>1. left' \subseteq Key
        BY <1>4, <1>5, <2>3
      <3> QED BY <3>1, MarksAre DEF H!Traversing, H!NoTraversal, H!Finished
    <2>7. TableInv'
      <3>1. Visiting'
        BY <2>2, <2>3, <2>4, <2>5, <2>6 DEF Visiting
      <3> QED BY <1>1, <1>2, <3>1 DEF TableInv
    <2>8. H!Promise!Change
      <3>1. G \subseteq D /\ left' = left \ (D \ G)
        BY <1>4, <1>5, <2>3
      <3>2. D \subseteq G \/ \E x \in D : D \ G = {x}
        BY <1>5
      <3> HIDE DEF D, G
      <3> QED BY <1>3, <1>4, <1>5, <3>1, <3>2, MapChanges
    <2> QED BY <2>7, <2>8
  <1>6. CASE ~(H!Traversing /\ k \in D)
    <2>1. cursor' = H!Nil /\ left' = H!NoTraversal
      BY <1>4, <1>6
    <2>2. TableInv'
      <3>1. Visiting'
        BY <2>1 DEF Visiting, H!Traversing, H!NoTraversal
      <3> QED BY <1>1, <1>2, <3>1 DEF TableInv
    <2>3. H!Promise!Change
      <3>1. D \subseteq G \/ (G \subseteq D /\ \E x \in D : D \ G = {x})
        OBVIOUS
      <3> HIDE DEF D, G
      <3> QED BY <1>3, <1>4, <2>1, <3>1, MapChanges
    <2> QED BY <2>2, <2>3
  <1> QED BY <1>5, <1>6

\* A list is stored.
LEMMA SetListIs ==
    ASSUME H!TableConstants, TableInv, NEW last \in Lasts, H!SetList(last)
    PROVE  TableInv' /\ H!Promise!Change
  <1>1. Good(table) /\ ~table.nested
    BY DEF TableInv
  <1>2. /\ table' = Listed(table, last) /\ map' = H!Contents(table')
        /\ cursor' = H!Nil /\ left' = H!NoTraversal
    BY Zenon DEF H!SetList, Listed, H!Becomes, H!Abandon
  <1>3. Good(table') /\ ~table'.nested /\ Holds(table) \subseteq Holds(table')
    BY <1>1, <1>2, ListedIs
  <1>4. map = [x \in Holds(table) |-> x] /\ map' = [x \in Holds(table') |-> x]
    BY <1>2, <1>3, VisitingIs, ContentsAre
  <1>5. TableInv'
    <2>1. Visiting'
      BY <1>2 DEF Visiting, H!Traversing, H!NoTraversal
    <2> QED BY <1>2, <1>3, <2>1 DEF TableInv
  <1>6. H!Promise!Change
    BY <1>2, <1>3, <1>4, MapChanges
  <1> QED BY <1>5, <1>6

\* The collector keeps the place of the last key, dead or not.
LEMMA CollectIs ==
    ASSUME H!TableConstants, TableInv, NEW k \in {H!Nil} \cup (Key \ {cursor}), H!Collect(k)
    PROVE  TableInv' /\ H!Promise!Change
  <1> DEFINE D == Holds(table)
             G == D \ {k}
  <1>1. Good(table) /\ ~table.nested /\ Visiting
    BY DEF TableInv
  <1>2. /\ table' = Collected(table, k) /\ map' = H!Contents(table') /\ cursor' = cursor
        /\ left' = IF H!Traversing THEN left \ {k} ELSE H!NoTraversal
    BY DEF H!Collect, Collected, H!Becomes
  <1>3. /\ Good(table') /\ ~table'.nested /\ Holds(table') = G
        /\ \A x \in Key : H!FindIndex(table', x) = H!FindIndex(table, x)
    BY <1>1, <1>2, CollectedIs
  <1>4. map' = [x \in G |-> x]
    BY <1>2, <1>3, ContentsAre
  <1>5. /\ map = [x \in D |-> x] /\ D \subseteq Key
        /\ H!Traversing => left \subseteq D /\ cursor \in Key
        /\ \A x \in D : H!Slot(table, x) = H!FindIndex(table, x)
    BY VisitingIs
  <1>6. TableInv'
    <2>1. CASE H!Traversing
      <3> DEFINE i == H!FindIndex(table, cursor)
      <3>1. cursor \in Key /\ i # 0 /\ left = {x \in D : H!Slot(table, x) > i}
        BY <1>1, <2>1 DEF Visiting, Later
      <3>2. H!FindIndex(table', cursor') = i /\ cursor' \in Key
        BY <1>2, <1>3, <3>1
      <3>3. \A x \in G : H!Slot(table', x) = H!Slot(table, x)
        <4>1. ASSUME NEW x \in G PROVE H!Slot(table', x) = H!FindIndex(table', x)
          <5>1. x \in Key /\ H!Slot(table', x) \in H!Slots(table') /\ H!KeyAt(table', H!Slot(table', x)) = x
                /\ H!Val(table', H!Slot(table', x)) # H!Nil
            BY <1>3, <1>5, HoldsIs
          <5> QED BY <1>3, <5>1, LiveIsFound
        <4> QED BY <1>3, <1>5, <4>1
      <3> HIDE DEF i, D
      <3>4. left' = {x \in G : H!Slot(table', x) > i}
        BY <1>2, <2>1, <3>1, <3>3
      <3>5. left' = Later(table', H!FindIndex(table', cursor'))
        BY <1>3, <3>2, <3>4 DEF Later
      <3>6. H!Traversing'
        <4>1. left' \subseteq Key
          BY <1>2, <1>5, <2>1
        <4> QED BY <4>1, MarksAre DEF H!Traversing, H!NoTraversal, H!Finished
      <3>7. Visiting'
        BY <3>1, <3>2, <3>5, <3>6 DEF Visiting
      <3> QED BY <1>2, <1>3, <3>7 DEF TableInv
    <2>2. CASE ~H!Traversing
      <3>1. cursor' = H!Nil /\ left' = H!NoTraversal
        BY <1>1, <1>2, <2>2 DEF Visiting
      <3>2. Visiting'
        BY <3>1 DEF Visiting, H!Traversing, H!NoTraversal
      <3> QED BY <1>2, <1>3, <3>2 DEF TableInv
    <2> QED BY <2>1, <2>2
  <1>7. H!Promise!Change
    <2>1. G \subseteq D /\ (D \subseteq G \/ \E x \in D : D \ G = {x})
      OBVIOUS
    <2>2. left' = H!NoTraversal \/ (H!Traversing /\ left' = left \ (D \ G))
      BY <1>2, <1>5
    <2> HIDE DEF D, G
    <2> QED BY <1>4, <1>5, <2>1, <2>2, MapChanges
  <1> QED BY <1>6, <1>7

\* findindex returns a place or none.
LEMMA IndexIsNatural ==
    ASSUME H!TableConstants, NEW t, Good(t), NEW k \in Key
    PROVE  H!FindIndex(t, k) \in Nat
  <1>1. H!InArray(t, k) => k[2] \in Nat
    BY GoodIs DEF H!InArray
  <1>2. H!FirstOf(t, k, {k, H!Dead(k)}) \in Nat
    <2>1. Hashable(k) /\ Len(t.array) \in Nat /\ Nodes(t) \subseteq Nat
      BY KeysAre, GoodIs DEF Nodes
    <2> QED BY <2>1, FirstOfIs
  <1> QED BY <1>1, <1>2 DEF H!FindIndex

\* The next key is the one in the first slot behind the last that has a value.
LEMMA NextKeyIs ==
    ASSUME H!TableConstants, TableInv, H!NextKey
    PROVE  TableInv' /\ (H!Promise!Visit \/ H!Promise!Finish)
  <1> DEFINE i == IF cursor = H!Nil THEN 0 ELSE H!FindIndex(table, cursor)
             after == {s \in H!Slots(table) : s > i /\ H!Val(table, s) # H!Nil}
             first == CHOOSE s \in after : \A x \in after : s <= x
             s == H!NextSlot(table, cursor)
             k == H!KeyAt(table, s)
             due == IF H!Traversing THEN left ELSE DOMAIN map
             D == Holds(table)
  <1>1. Good(table) /\ ~table.nested /\ Visiting /\ map = H!Contents(table)
    BY DEF TableInv
  <1>2. /\ DOMAIN map = D /\ D \subseteq Key /\ \A x \in D : H!Slot(table, x) = H!FindIndex(table, x)
    BY VisitingIs
  <1>3. /\ table' = table /\ map' = map
        /\ \/ s > 0 /\ cursor' = k /\ left' = (IF k \in due THEN due \ {k} ELSE H!Astray)
           \/ s = 0 /\ cursor' = H!Nil /\ left' = H!Finished
           \/ s = -1 /\ cursor' = H!Nil /\ left' = H!Astray
    BY DEF H!NextKey
  <1>4. H!Nil \notin Key
    BY DEF H!TableConstants, H!IsInt, H!Collectable, H!Nil
  <1>5. H!Slots(table) \subseteq Nat /\ 0 \notin H!Slots(table)
    BY <1>1, SlotsAre
  <1>6. \A x \in D : H!Slot(table, x) \in H!Slots(table) /\ H!KeyAt(table, H!Slot(table, x)) = x
                     /\ H!Val(table, H!Slot(table, x)) # H!Nil
    BY <1>1, <1>2, HoldsIs
  <1>7. \A x \in H!Slots(table) : H!Val(table, x) # H!Nil =>
           /\ H!KeyAt(table, x) \in D /\ H!Slot(table, H!KeyAt(table, x)) = x
           /\ H!FindIndex(table, H!KeyAt(table, x)) = x
    BY <1>1, LiveIsFound, HoldsIs
  <1>8. due = {x \in D : H!Slot(table, x) > i} /\ (cursor = H!Nil \/ i # 0)
    <2>1. CASE H!Traversing
      <3>1. /\ cursor \in Key /\ H!FindIndex(table, cursor) # 0
            /\ left = Later(table, H!FindIndex(table, cursor))
        BY <1>1, <2>1 DEF Visiting
      <3>2. i = H!FindIndex(table, cursor)
        BY <1>4, <3>1
      <3> QED BY <2>1, <3>1, <3>2 DEF Later
    <2>2. CASE ~H!Traversing
      <3>1. cursor = H!Nil /\ i = 0 /\ due = D
        BY <1>1, <1>2, <2>2 DEF Visiting
      <3> HIDE DEF i, due, D
      <3>2. \A x \in D : H!Slot(table, x) > 0
        BY <1>5, <1>6
      <3> QED BY <3>1, <3>2
    <2> QED BY <2>1, <2>2
  <1>9. s = CASE cursor # H!Nil /\ i = 0 -> -1
              [] after = {} -> 0
              [] OTHER -> first
    BY Zenon DEF H!NextSlot
  <1> HIDE DEF i, D, due, s
  <1>10. H!Promise!Due = due
    BY MarksAre DEF H!Promise!Due, due, H!Traversing
  <1>11. CASE after = {}
    <2>1. s = 0
      BY <1>8, <1>9, <1>11
    <2>2. cursor' = H!Nil /\ left' = H!Finished
      BY <1>3, <2>1
    <2>3. due = {}
      BY <1>6, <1>8, <1>11
    <2>4. TableInv'
      <3>1. Visiting'
        BY <2>2 DEF Visiting, H!Traversing, H!Finished
      <3> QED BY <1>1, <1>3, <3>1 DEF TableInv
    <2>5. H!Promise!Finish
      BY <1>3, <1>10, <2>2, <2>3, MarksAre DEF H!Promise!Finish
    <2> QED BY <2>4, <2>5
  <1>12. CASE after # {}
    <2>1. after \subseteq Nat
      BY <1>5
    <2>2. \E x \in after : \A y \in after : x <= y
      <3> HIDE DEF after
      <3> QED BY <1>12, <2>1, LeastNumber
    <2>3. first \in after /\ \A y \in after : first <= y
      BY <2>2
    <2>4. s = first
      BY <1>8, <1>9, <1>12
    <2> HIDE DEF first
    <2>5. s \in H!Slots(table) /\ s > i /\ H!Val(table, s) # H!Nil /\ \A y \in after : s <= y
      BY <2>3, <2>4
    <2>6. s \in Nat /\ s > 0 /\ s # 0
      BY <1>5, <2>5
    <2>7. k \in D /\ H!Slot(table, k) = s /\ H!FindIndex(table, k) = s
      BY <1>7, <2>5
    <2>8. k \in due
      BY <1>8, <2>5, <2>7
    <2> HIDE DEF k
    <2>9. cursor' = k /\ left' = due \ {k}
      BY <1>3, <2>6, <2>8
    <2>10. due \ {k} = {x \in D : H!Slot(table, x) > s}
      <3>1. ASSUME NEW x \in due \ {k} PROVE x \in D /\ H!Slot(table, x) > s
        <4>1. x \in D /\ H!Slot(table, x) > i /\ x # k
          BY <1>8
        <4>2. H!Slot(table, x) \in after /\ H!Slot(table, x) \in Nat
          BY <1>5, <1>6, <4>1
        <4>3. H!Slot(table, x) # s
          BY <1>6, <2>7, <4>1
        <4>4. s <= H!Slot(table, x)
          BY <2>5, <4>2
        <4> QED BY <2>6, <4>1, <4>2, <4>3, <4>4
      <3>2. ASSUME NEW x \in D, H!Slot(table, x) > s PROVE x \in due \ {k}
        <4>1. H!Slot(table, x) \in Nat /\ x # k
          BY <1>5, <1>6, <2>6, <2>7, <3>2
        <4>2. i \in Nat
          <5>1. cursor = H!Nil \/ cursor \in Key
            BY <1>1 DEF Visiting
          <5> QED BY <1>1, <5>1, IndexIsNatural DEF i
        <4>3. H!Slot(table, x) > i
          BY <2>5, <2>6, <3>2, <4>1, <4>2
        <4> QED BY <1>8, <4>1, <4>3
      <3> QED BY <3>1, <3>2
    <2>11. left' = Later(table', H!FindIndex(table', cursor')) /\ cursor' \in Key
           /\ H!FindIndex(table', cursor') # 0
      BY <1>2, <1>3, <2>6, <2>7, <2>9, <2>10 DEF Later, D
    <2>12. H!Traversing'
      <3>1. left' \subseteq Key
        BY <1>2, <2>9, <2>10
      <3> QED BY <3>1, MarksAre DEF H!Traversing, H!NoTraversal, H!Finished
    <2>13. TableInv'
      <3>1. Visiting'
        BY <2>11, <2>12 DEF Visiting
      <3> QED BY <1>1, <1>3, <3>1 DEF TableInv
    <2>14. H!Promise!Visit
      BY <1>3, <1>10, <2>8, <2>9 DEF H!Promise!Visit
    <2> QED BY <2>13, <2>14
  <1> QED BY <1>11, <1>12

\* Every step keeps the inductive invariant and is a step of the map, or none.
LEMMA StepIs ==
    ASSUME H!TableConstants, TableInv, [H!Next]_(H!vars)
    PROVE  TableInv' /\ [H!Promise!Next]_(H!Promise!vars)
  <1>1. ASSUME NEW k \in Key, H!Store(k) PROVE TableInv' /\ H!Promise!Change
    <2>1. /\ table' = H!Set(table, k, k) /\ map' = H!Contents(table')
          /\ IF H!Traversing /\ k \in DOMAIN map
             THEN left' = (IF k = H!Nil THEN left \ {k} ELSE left) /\ cursor' = cursor
             ELSE cursor' = H!Nil /\ left' = H!NoTraversal
      BY <1>1, KeysAre DEF H!Store, H!Becomes, H!Abandon
    <2> QED BY <2>1, StoreIs
  <1>2. ASSUME NEW k \in Key, H!Erase(k) PROVE TableInv' /\ H!Promise!Change
    <2>1. /\ table' = H!Set(table, k, H!Nil) /\ map' = H!Contents(table')
          /\ IF H!Traversing /\ k \in DOMAIN map
             THEN left' = (IF H!Nil = H!Nil THEN left \ {k} ELSE left) /\ cursor' = cursor
             ELSE cursor' = H!Nil /\ left' = H!NoTraversal
      BY <1>2 DEF H!Erase, H!Becomes, H!Abandon
    <2> QED BY <2>1, StoreIs
  <1>3. ASSUME NEW last \in Lasts, H!SetList(last) PROVE TableInv' /\ H!Promise!Change
    BY <1>3, SetListIs
  <1>4. CASE H!NextKey
    BY <1>4, NextKeyIs DEF H!Promise!Next
  <1>5. ASSUME NEW k \in {H!Nil} \cup (Key \ {cursor}), H!Collect(k) PROVE TableInv' /\ H!Promise!Change
    BY <1>5, CollectIs
  <1>6. CASE UNCHANGED H!vars
    <2>1. table' = table /\ map' = map /\ cursor' = cursor /\ left' = left
      BY <1>6 DEF H!vars
    <2>2. Visiting'
      BY <2>1 DEF TableInv, Visiting, H!Traversing, Later
    <2> QED BY <2>1, <2>2 DEF TableInv, H!Promise!vars
  <1> QED BY <1>1, <1>2, <1>3, <1>4, <1>5, <1>6 DEF H!Next, H!Promise!Next

-----------------------------------------------------------------------------
(* The length.                                                              *)

\* The numbers a search is between: one present or 0, and one absent behind it.
Bounds(t) == {b \in [i : Nat, j : Nat] : b.i < b.j /\ (b.i = 0 \/ H!Present(t, b.i)) /\ ~H!Present(t, b.j)}

\* One step of the binary search.
Halve(t, b) ==
    LET m == (b.i + b.j) \div 2
    IN  CASE b.j - b.i > 1 /\ H!Present(t, m) -> [b EXCEPT !.i = m]
          [] b.j - b.i > 1 /\ ~H!Present(t, m) -> [b EXCEPT !.j = m]
          [] OTHER -> b

\* It keeps the bounds, which come nearer to each other.
LEMMA HalveIs ==
    ASSUME NEW t, NEW b \in Bounds(t)
    PROVE  /\ Halve(t, b) \in Bounds(t)
           /\ \A d \in Nat : b.j - b.i <= 1 \/ b.j - b.i <= d + 1 =>
                 Halve(t, b).j - Halve(t, b).i <= 1 \/ Halve(t, b).j - Halve(t, b).i <= d
  <1> DEFINE i == b.i
             j == b.j
             m == (b.i + b.j) \div 2
  <1>1. b \in [i : Nat, j : Nat] /\ i < j /\ (i = 0 \/ H!Present(t, i)) /\ ~H!Present(t, j)
    BY DEF Bounds
  <1>2. i \in Nat /\ j \in Nat
    BY <1>1
  <1>3. m = (i + j) \div 2
    OBVIOUS
  <1> HIDE DEF i, j, m
  <1>4. j - i > 1 => m \in Nat /\ i < m /\ m < j
    BY ONLY <1>2, <1>3
  <1>5. CASE j - i > 1 /\ H!Present(t, m)
    <2>1. Halve(t, b) = [b EXCEPT !.i = m]
      BY <1>5 DEF Halve, i, j, m
    <2>2. Halve(t, b) \in [i : Nat, j : Nat] /\ Halve(t, b).i = m /\ Halve(t, b).j = j
      BY <1>1, <1>4, <1>5, <2>1 DEF j
    <2>3. Halve(t, b) \in Bounds(t)
      BY <1>1, <1>4, <1>5, <2>2 DEF Bounds
    <2>4. \A d \in Nat : j - i <= d + 1 => j - m <= d
      BY <1>2, <1>4, <1>5
    <2> QED BY <1>5, <1>2, <2>2, <2>3, <2>4 DEF i, j
  <1>6. CASE j - i > 1 /\ ~H!Present(t, m)
    <2>1. Halve(t, b) = [b EXCEPT !.j = m]
      BY <1>6 DEF Halve, i, j, m
    <2>2. Halve(t, b) \in [i : Nat, j : Nat] /\ Halve(t, b).i = i /\ Halve(t, b).j = m
      BY <1>1, <1>4, <1>6, <2>1 DEF i
    <2>3. Halve(t, b) \in Bounds(t)
      BY <1>1, <1>4, <1>6, <2>2 DEF Bounds
    <2>4. \A d \in Nat : j - i <= d + 1 => m - i <= d
      BY <1>2, <1>4, <1>6
    <2> QED BY <1>6, <1>2, <2>2, <2>3, <2>4 DEF i, j
  <1>7. CASE ~(j - i > 1)
    <2>1. Halve(t, b) = b
      BY <1>7 DEF Halve, i, j, m
    <2> QED BY <1>2, <1>7, <2>1 DEF i, j
  <1> QED BY <1>5, <1>6, <1>7

\* A boundary: a length the manual allows.
Boundary(t, n) == n \in Nat /\ (n = 0 \/ H!Present(t, n)) /\ ~H!Present(t, n + 1)

\* The states of a loop, from a by D, as often as c.
Loops(V, a, D, c) == \E g \in [0..c -> V] : g[0] = a /\ \A n \in 0..c : n # 0 => g[n] = D[g[n - 1]]

\* Such a loop has its states.
LEMMA LoopIs ==
    ASSUME NEW V, NEW a \in V, NEW D \in [V -> V], NEW c \in Nat
    PROVE  Loops(V, a, D, c)
  <1> DEFINE Step == [n \in Nat |-> D]
  <1>1. Step \in [Nat -> [V -> V]] /\ \A n \in Nat : Step[n] = D
    OBVIOUS
  <1> HIDE DEF Step
  <1>2. PICK g \in [0..c -> V] : g = [n \in 0..c |-> IF n = 0 THEN a ELSE Step[n - 1][g[n - 1]]]
    <2>1. RecursiveUpTo(V, a, Step, c)
      BY <1>1, BoundedRecursion
    <2> QED BY <2>1 DEF RecursiveUpTo
  <1>3. g[0] = a /\ \A n \in 0..c : n # 0 => g[n] = Step[n - 1][g[n - 1]]
    <2>1. \A n \in 0..c : g[n] = IF n = 0 THEN a ELSE Step[n - 1][g[n - 1]]
      BY <1>2
    <2>2. 0 \in 0..c
      OBVIOUS
    <2> QED BY <2>1, <2>2
  <1>4. ASSUME NEW n \in 0..c, n # 0 PROVE Step[n - 1] = D
    BY <1>1, <1>4
  <1>5. \A n \in 0..c : n # 0 => g[n] = D[g[n - 1]]
    BY <1>3, <1>4
  <1> QED BY <1>3, <1>5 DEF Loops

\* The binary search ends at a boundary.
LEMMA BetweenIs ==
    ASSUME NEW t, NEW lo \in Nat, NEW hi \in Nat, lo < hi, lo = 0 \/ H!Present(t, lo), ~H!Present(t, hi)
    PROVE  Boundary(t, H!Between(t, lo, hi))
  <1> DEFINE a == [i |-> lo, j |-> hi]
             V == Bounds(t)
             mid(b) == (b.i + b.j) \div 2
             body(f, n) == CASE n = 0 -> a
                             [] n > 0 /\ f[n - 1].j - f[n - 1].i > 1 /\ H!Present(t, mid(f[n - 1])) ->
                                  [f[n - 1] EXCEPT !.i = mid(f[n - 1])]
                             [] n > 0 /\ f[n - 1].j - f[n - 1].i > 1 /\ ~H!Present(t, mid(f[n - 1])) ->
                                  [f[n - 1] EXCEPT !.j = mid(f[n - 1])]
                             [] OTHER -> f[n - 1]
             Is(f) == f = [n \in 0..hi |-> body(f, n)]
             at == CHOOSE f : Is(f)
  <1>1. a \in V /\ a.i = lo /\ a.j = hi
    BY DEF Bounds
  <1>2. /\ \A f : body(f, 0) = a
        /\ \A f : \A n \in Nat : n > 0 => body(f, n) = Halve(t, f[n - 1])
    <2>1. ASSUME NEW f, NEW n \in Nat, n > 0 PROVE body(f, n) = Halve(t, f[n - 1])
      BY <2>1 DEF Halve
    <2>2. ASSUME NEW f PROVE body(f, 0) = a
      <3> HIDE DEF a
      <3> QED OBVIOUS
    <2> QED BY <2>1, <2>2
  <1>3. H!Between(t, lo, hi) = at[hi].i
    BY Zenon DEF H!Between
  <1> HIDE DEF body, a, V
  <1>4. \E f : Is(f)
    <2> DEFINE D == [b \in V |-> Halve(t, b)]
    <2>1. D \in [V -> V]
      BY HalveIs DEF V
    <2> HIDE DEF D
    <2>2. PICK g \in [0..hi -> V] : g[0] = a /\ \A n \in 0..hi : n # 0 => g[n] = D[g[n - 1]]
      <3>1. Loops(V, a, D, hi)
        BY <1>1, <2>1, LoopIs
      <3> QED BY <3>1 DEF Loops
    <2>3. ASSUME NEW n \in 0..hi PROVE g[n] = body(g, n)
      <3>1. CASE n = 0
        BY <1>2, <2>2, <3>1
      <3>2. CASE n # 0
        <4>1. n \in Nat /\ n > 0 /\ n - 1 \in 0..hi
          BY <3>2
        <4>2. g[n - 1] \in V
          BY <2>2, <4>1
        <4>3. g[n] = Halve(t, g[n - 1])
          BY <2>2, <3>2, <4>2 DEF D
        <4> QED BY <1>2, <4>1, <4>3
      <3> QED BY <3>1, <3>2
    <2> QED BY <2>2, <2>3
  <1>5. Is(at)
    <2> HIDE DEF Is
    <2> QED BY <1>4
  <1> HIDE DEF at
  <1>6. at[0] = a /\ \A n \in 0..hi : n # 0 => at[n] = Halve(t, at[n - 1])
    <2>1. \A n \in 0..hi : at[n] = body(at, n)
      BY <1>5
    <2> QED BY <1>2, <2>1
  <1> DEFINE near(n, b) == b \in V /\ (b.j - b.i <= 1 \/ b.j - b.i <= hi - n)
             T == {n \in Nat : n <= hi => near(n, at[n])}
  <1>7. 0 \in T
    BY <1>1, <1>6
  <1>8. ASSUME NEW n \in T PROVE n + 1 \in T
    <2>1. CASE n + 1 <= hi
      <3>1. n \in Nat /\ n + 1 \in 0..hi /\ n + 1 # 0 /\ (n + 1) - 1 = n /\ hi - (n + 1) \in Nat
            /\ hi - n = (hi - (n + 1)) + 1 /\ near(n, at[n])
        BY <2>1
      <3>2. at[n + 1] = Halve(t, at[n])
        BY <1>6, <3>1
      <3>3. near(n + 1, at[n + 1])
        BY <3>1, <3>2, HalveIs DEF V
      <3> QED BY <3>1, <3>3
    <2>2. CASE ~(n + 1 <= hi)
      BY <2>2
    <2> QED BY <2>1, <2>2
  <1>9. near(hi, at[hi])
    <2> HIDE DEF T
    <2>1. T = Nat
      <3>1. T \subseteq Nat
        BY DEF T
      <3> QED BY <1>7, <1>8, <3>1, NatSetInduction
    <2> QED BY <2>1 DEF T
  <1> DEFINE i == at[hi].i
             j == at[hi].j
  <1>10. i \in Nat /\ j \in Nat /\ i < j /\ (i = 0 \/ H!Present(t, i)) /\ ~H!Present(t, j)
    BY <1>9 DEF V, Bounds
  <1>11. j - i <= 1
    BY <1>9, <1>10
  <1>12. j = i + 1
    <2> HIDE DEF i, j
    <2> QED BY <1>10, <1>11
  <1> QED BY <1>3, <1>10, <1>12 DEF Boundary

\* What has a value is in the array or is a key.
LEMMA PresentIs ==
    ASSUME H!TableConstants, NEW t, Good(t), NEW n \in Nat
    PROVE  /\ n \in 1..Len(t.array) => (H!Present(t, n) <=> t.array[n] # H!Nil)
           /\ H!Present(t, n) => n <= MaxInt
           /\ H!Present(t, n) /\ n \notin 1..Len(t.array) => ~t.dummy
  <1> DEFINE k == H!Numeral(n)
  <1>1. H!IsInt(k) /\ k[2] = n /\ Hashable(k)
    BY DEF H!Numeral, H!IsInt, Hashable
  <1>2. Len(t.array) \in Nat /\ Len(t.node) \in Nat
    BY GoodIs
  <1>3. ASSUME n \in 1..Len(t.array) PROVE H!Present(t, n) <=> t.array[n] # H!Nil
    <2>1. H!Slot(t, k) = n
      BY <1>1, <1>3 DEF H!Slot, H!InArray
    <2>2. H!Get(t, k) = t.array[n]
      BY <1>2, <1>3, <2>1 DEF H!Get, H!Val
    <2> QED BY <2>2 DEF H!Present
  <1>5. ASSUME H!Present(t, n), n \in 1..Len(t.array) PROVE n <= MaxInt
    <2>1. k \in Key
      BY <1>3, <1>5, GoodIs
    <2> QED BY <1>1, <2>1 DEF H!TableConstants, H!Collectable, H!IsInt
  <1>4. ASSUME H!Present(t, n), n \notin 1..Len(t.array) PROVE n <= MaxInt /\ ~t.dummy
    <2>1. H!Slot(t, k) = H!FirstOf(t, k, {k})
      BY <1>1, <1>4 DEF H!Slot, H!InArray
    <2> HIDE DEF k
    <2>2. H!Get(t, k) # H!Nil
      BY <1>4 DEF H!Present, k
    <2>3. H!Slot(t, k) # 0 /\ H!Val(t, H!Slot(t, k)) # H!Nil
      BY <2>2 DEF H!Get
    <2>4. PICK i \in Nodes(t) : H!Slot(t, k) = Len(t.array) + i /\ KeyOf(t, i) = k
      <3> DEFINE K == {k}
      <3>1. \A x : x \in K <=> x = k
        OBVIOUS
      <3>2. H!FirstOf(t, k, K) # 0
        BY <2>1, <2>3
      <3> HIDE DEF K
      <3>3. \E i \in Nodes(t) : H!FirstOf(t, k, K) = Len(t.array) + i /\ KeyOf(t, i) \in K
        BY <1>1, <3>2, FirstOfIs
      <3> QED BY <2>1, <3>1, <3>3 DEF K
    <2>5. ValOf(t, i) # H!Nil
      BY <2>3, <2>4, SlotsAre
    <2>6. k \in Key
      BY <2>4, <2>5, GoodIs
    <2>7. n <= MaxInt
      BY <1>1, <1>2, <2>6 DEF H!TableConstants, H!Collectable, H!IsInt
    <2>8. ~t.dummy
      <3> SUFFICES ASSUME t.dummy PROVE FALSE
        OBVIOUS
      <3>1. t.node = <<H!NoNode>>
        BY DEF Good, LastFree
      <3>2. i = 1
        BY <3>1 DEF Nodes
      <3>3. t.node[i].val = H!Nil
        BY <3>1, <3>2 DEF H!NoNode
      <3> QED BY <2>5, <3>3 DEF ValOf
    <2> QED BY <2>7, <2>8
  <1> QED BY <1>3, <1>4, <1>5

\* The linear search ends at a boundary.
LEMMA FirstBoundaryIs ==
    ASSUME H!TableConstants, NEW t, Good(t)
    PROVE  Boundary(t, H!FirstBoundary(t))
  <1> DEFINE X(i) == ~H!Present(t, i + 1) /\ \A n \in 1..i : H!Present(t, n)
             absent == {n \in Nat : ~H!Present(t, n + 1)}
  <1>1. MaxInt \in Nat /\ MaxInt + 1 \in Nat
    BY DEF H!TableConstants
  <1>2. MaxInt \in absent
    <2>1. ~(MaxInt + 1 <= MaxInt)
      BY <1>1
    <2> QED BY <1>1, <2>1, PresentIs
  <1>3. PICK i \in absent : \A n \in absent : i <= n
    <2>1. absent \subseteq Nat /\ absent # {}
      BY <1>2
    <2> HIDE DEF absent
    <2> QED BY <2>1, LeastNumber
  <1>4. i \in 0..MaxInt /\ X(i)
    <2>1. i \in Nat /\ i <= MaxInt /\ ~H!Present(t, i + 1)
      BY <1>2, <1>3
    <2>2. ASSUME NEW n \in 1..i PROVE H!Present(t, n)
      <3>1. n - 1 \in Nat /\ (n - 1) + 1 = n /\ ~(i <= n - 1)
        BY <2>1
      <3> QED BY <1>3, <3>1
    <2> QED BY <1>1, <2>1, <2>2
  <1> DEFINE f == H!FirstBoundary(t)
  <1>5. f = CHOOSE x \in 0..MaxInt : X(x)
    BY Zenon DEF H!FirstBoundary
  <1> HIDE DEF X
  <1>6. f \in 0..MaxInt /\ X(f)
    <2> HIDE DEF f
    <2> QED BY <1>4, <1>5
  <1> HIDE DEF f
  <1>7. f \in Nat
    BY <1>6
  <1>8. f = 0 \/ f \in 1..f
    BY <1>7
  <1> QED BY <1>6, <1>7, <1>8 DEF Boundary, X, f

\* One step of the doubling.
Double(t, b) == IF b.j <= MaxInt /\ H!Present(t, b.j) THEN [i |-> b.j, j |-> 2 * b.j] ELSE b

\* The search from the end of the array ends at a boundary.
LEMMA UnboundSearchIs ==
    ASSUME H!TableConstants, NEW t, Good(t), NEW start \in Nat, start = 0 \/ H!Present(t, start)
    PROVE  Boundary(t, H!UnboundSearch(t, start))
  <1> DEFINE a == [i |-> start, j |-> start + 1]
             V == {b \in [i : Nat, j : Nat] : b.i < b.j /\ (b.i = 0 \/ H!Present(t, b.i))}
             body(f, n) == CASE n = 0 -> a
                             [] n > 0 /\ f[n - 1].j <= MaxInt /\ H!Present(t, f[n - 1].j) ->
                                  [i |-> f[n - 1].j, j |-> 2 * f[n - 1].j]
                             [] OTHER -> f[n - 1]
             Is(f) == f = [n \in 0..MaxInt |-> body(f, n)]
             at == CHOOSE f : Is(f)
             b == at[MaxInt]
  <1>1. MaxInt \in Nat /\ \A n \in Nat : n > MaxInt => ~H!Present(t, n)
    <2>1. MaxInt \in Nat
      BY DEF H!TableConstants
    <2>2. ASSUME NEW n \in Nat, n > MaxInt PROVE ~(n <= MaxInt)
      BY <2>1, <2>2
    <2> QED BY <2>1, <2>2, PresentIs
  <1>2. a \in V /\ a.i = start /\ a.j = start + 1
    OBVIOUS
  <1>3. /\ \A f : body(f, 0) = a
        /\ \A f : \A n \in Nat : n > 0 => body(f, n) = Double(t, f[n - 1])
    <2>1. ASSUME NEW f, NEW n \in Nat, n > 0 PROVE body(f, n) = Double(t, f[n - 1])
      BY <2>1 DEF Double
    <2>2. ASSUME NEW f PROVE body(f, 0) = a
      <3> HIDE DEF a
      <3> QED OBVIOUS
    <2> QED BY <2>1, <2>2
  <1>4. H!UnboundSearch(t, start)
          = IF b.i > start /\ b.j > MaxInt THEN H!FirstBoundary(t) ELSE H!Between(t, b.i, b.j)
    BY Zenon DEF H!UnboundSearch
  <1> HIDE DEF body, a
  <1>5. ASSUME NEW c \in V
        PROVE  /\ Double(t, c) \in V
               /\ \A n \in Nat : c.j > MaxInt \/ ~H!Present(t, c.j) \/ c.j >= n + 1 =>
                     \/ Double(t, c).j > MaxInt \/ ~H!Present(t, Double(t, c).j)
                     \/ Double(t, c).j >= n + 2
    <2>1. c \in [i : Nat, j : Nat] /\ c.i \in Nat /\ c.j \in Nat /\ c.i < c.j
      OBVIOUS
    <2>2. CASE c.j <= MaxInt /\ H!Present(t, c.j)
      <3> DEFINE d == [i |-> c.j, j |-> 2 * c.j]
      <3>1. Double(t, c) = d
        BY <2>2 DEF Double
      <3>2. d.i = c.j /\ d.j = 2 * c.j /\ d \in [i : Nat, j : Nat]
        BY <2>1
      <3>3. c.j < 2 * c.j /\ \A n \in Nat : c.j >= n + 1 => 2 * c.j >= n + 2
        BY <2>1
      <3> HIDE DEF d
      <3>4. d \in V
        BY <2>1, <2>2, <3>2, <3>3
      <3> QED BY <1>1, <2>1, <2>2, <3>1, <3>2, <3>3, <3>4
    <2>3. CASE ~(c.j <= MaxInt /\ H!Present(t, c.j))
      <3>1. Double(t, c) = c
        BY <2>3 DEF Double
      <3> QED BY <1>1, <2>1, <2>3, <3>1
    <2> QED BY <2>2, <2>3
  <1>6. \A c \in V : c \in [i : Nat, j : Nat] /\ c.i < c.j /\ (c.i = 0 \/ H!Present(t, c.i))
    OBVIOUS
  <1> HIDE DEF V
  <1>7. \E f : Is(f)
    <2> DEFINE D == [c \in V |-> Double(t, c)]
    <2>1. D \in [V -> V]
      BY <1>5
    <2> HIDE DEF D
    <2>2. PICK g \in [0..MaxInt -> V] : g[0] = a /\ \A n \in 0..MaxInt : n # 0 => g[n] = D[g[n - 1]]
      <3>1. Loops(V, a, D, MaxInt)
        BY <1>1, <1>2, <2>1, LoopIs
      <3> QED BY <3>1 DEF Loops
    <2>3. ASSUME NEW n \in 0..MaxInt PROVE g[n] = body(g, n)
      <3>1. CASE n = 0
        BY <1>3, <2>2, <3>1
      <3>2. CASE n # 0
        <4>1. n \in Nat /\ n > 0 /\ n - 1 \in 0..MaxInt
          BY <1>1, <3>2
        <4>2. g[n - 1] \in V
          BY <2>2, <4>1
        <4>3. g[n] = Double(t, g[n - 1])
          BY <2>2, <3>2, <4>2 DEF D
        <4> QED BY <1>3, <4>1, <4>3
      <3> QED BY <3>1, <3>2
    <2> QED BY <2>2, <2>3
  <1>8. Is(at)
    <2> HIDE DEF Is
    <2> QED BY <1>7
  <1> HIDE DEF at
  <1>9. at[0] = a /\ \A n \in 0..MaxInt : n # 0 => at[n] = Double(t, at[n - 1])
    <2>1. \A n \in 0..MaxInt : at[n] = body(at, n)
      BY <1>8
    <2> QED BY <1>1, <1>3, <2>1
  <1> DEFINE far(n, c) == c \in V /\ (c.j > MaxInt \/ ~H!Present(t, c.j) \/ c.j >= n + 1)
             T == {n \in Nat : n <= MaxInt => far(n, at[n])}
  <1>10. 0 \in T
    BY <1>2, <1>9
  <1>11. ASSUME NEW n \in T PROVE n + 1 \in T
    <2>1. CASE n + 1 <= MaxInt
      <3>1. n \in Nat /\ n + 1 \in 0..MaxInt /\ n + 1 # 0 /\ (n + 1) - 1 = n /\ (n + 1) + 1 = n + 2
            /\ far(n, at[n])
        BY <1>1, <2>1
      <3>2. at[n + 1] = Double(t, at[n])
        BY <1>9, <3>1
      <3>3. far(n + 1, at[n + 1])
        BY <1>5, <3>1, <3>2
      <3> QED BY <3>1, <3>3
    <2>2. CASE ~(n + 1 <= MaxInt)
      BY <2>2
    <2> QED BY <2>1, <2>2
  <1>12. far(MaxInt, b)
    <2> HIDE DEF T
    <2>1. T = Nat
      <3>1. T \subseteq Nat
        BY DEF T
      <3> QED BY <1>10, <1>11, <3>1, NatSetInduction
    <2> QED BY <1>1, <2>1 DEF T
  <1>13. b.i \in Nat /\ b.j \in Nat /\ b.i < b.j /\ (b.i = 0 \/ H!Present(t, b.i))
    BY <1>6, <1>12
  <1> DEFINE i == b.i
             j == b.j
  <1>14. ~H!Present(t, j)
    <2>1. j > MaxInt \/ ~H!Present(t, j) \/ j >= MaxInt + 1
      BY <1>12
    <2>2. j \in Nat
      BY <1>13
    <2> HIDE DEF j
    <2>3. j > MaxInt \/ ~H!Present(t, j)
      BY <1>1, <2>1, <2>2
    <2> QED BY <1>1, <2>2, <2>3
  <1>15. Boundary(t, H!Between(t, i, j))
    <2>1. i \in Nat /\ j \in Nat /\ i < j /\ (i = 0 \/ H!Present(t, i))
      BY <1>13
    <2> HIDE DEF i, j
    <2> QED BY <1>14, <2>1, BetweenIs
  <1> QED BY <1>4, <1>15, FirstBoundaryIs

\* luaH_getn ends at a boundary.
LEMMA GetnIs ==
    ASSUME H!TableConstants, NEW t, Good(t)
    PROVE  Boundary(t, H!Getn(t))
  <1> DEFINE j == Len(t.array)
  <1>1. j \in Nat /\ (j > 0 => (H!Present(t, j) <=> t.array[j] # H!Nil))
    <2>1. j \in Nat
      BY GoodIs
    <2>2. j > 0 => j \in 1..Len(t.array)
      BY <2>1
    <2> QED BY <2>1, <2>2, PresentIs
  <1> HIDE DEF j
  <1>2. CASE j > 0 /\ t.array[j] = H!Nil
    <2>1. H!Getn(t) = H!Between(t, 0, j)
      BY <1>2 DEF H!Getn, j
    <2> QED BY <1>1, <1>2, <2>1, BetweenIs
  <1>3. CASE ~(j > 0 /\ t.array[j] = H!Nil) /\ t.dummy
    <2>1. H!Getn(t) = j
      BY <1>1, <1>3 DEF H!Getn, j
    <2>2. j = 0 \/ H!Present(t, j)
      BY <1>1, <1>3
    <2>3. ~H!Present(t, j + 1)
      <3>1. j + 1 \in Nat /\ j + 1 \notin 1..Len(t.array)
        BY <1>1 DEF j
      <3> QED BY <1>3, <3>1, PresentIs
    <2> QED BY <1>1, <2>1, <2>2, <2>3 DEF Boundary
  <1>4. CASE ~(j > 0 /\ t.array[j] = H!Nil) /\ ~t.dummy
    <2>1. H!Getn(t) = H!UnboundSearch(t, j)
      BY <1>1, <1>4 DEF H!Getn, j
    <2>2. j = 0 \/ H!Present(t, j)
      BY <1>1, <1>4
    <2> QED BY <1>1, <2>1, <2>2, UnboundSearchIs
  <1> QED BY <1>2, <1>3, <1>4

-----------------------------------------------------------------------------
(* The theorems.                                                            *)

\* No assignment, list, traversal or collection breaks the invariant.
THEOREM Tables == H!Spec => []TableInv
  <1>1. H!TableConstants
    BY PartsConstants
  <1>2. H!Init => TableInv
    BY <1>1, InitIs
  <1>3. TableInv /\ [H!Next]_(H!vars) => TableInv'
    BY <1>1, StepIs
  <1> QED BY <1>2, <1>3, PTL DEF H!Spec

\* rehash counts the key it is called for: luaH_resize inserts again what was in
\* the table, and luaH_set the key, without another rehash.
THEOREM RehashingLeavesRoom == H!Spec => []RehashLeavesRoom
  <1>1. TableInv => RehashLeavesRoom
    BY DEF TableInv, RehashLeavesRoom, H!RehashLeavesRoom
  <1> QED BY <1>1, Tables, PTL

\* luaH_getn returns a boundary, whether it searches the array, doubles over the
\* hash part or counts from 1.
THEOREM LengthsAreBoundaries == H!Spec => []LenIsBoundary
  <1>1. H!TableConstants
    BY PartsConstants
  <1>2. TableInv => LenIsBoundary
    BY <1>1, GetnIs DEF TableInv, LenIsBoundary, H!LenIsBoundary, Boundary
  <1> QED BY <1>2, Tables, PTL

\* ltable.c implements the finite map of TableMap, with traversals that meet each
\* remaining key once.
THEOREM TablesAreMaps == H!Spec => ImplementsMap
  <1>1. H!TableConstants
    BY PartsConstants
  <1>2. H!Init => H!Promise!Init
    BY <1>1, InitIs
  <1>3. TableInv /\ [H!Next]_(H!vars) => [H!Promise!Next]_(H!Promise!vars)
    BY <1>1, StepIs
  <1> QED BY <1>2, <1>3, Tables, PTL DEF H!Spec, ImplementsMap, H!ImplementsMap, H!Promise!Spec
=============================================================================
