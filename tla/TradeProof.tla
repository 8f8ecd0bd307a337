----------------------------- MODULE TradeProof -----------------------------
(***************************************************************************)
(* What holds in Trade for every list of commodities and islands, every     *)
(* table of prices and distances, and every history.                        *)
(***************************************************************************)
EXTENDS Trade, Induction, SequenceTheorems, TLAPS

-----------------------------------------------------------------------------
(* Sums over a history.                                                     *)

\* f adds up the entries of h, and Total is where it ends.
Sums(f, h, w) ==
    /\ f \in [0..Len(h) -> Int] /\ f[0] = 0 /\ Total(h, w) = f[Len(h)]
    /\ \A n \in 1..Len(h) : f[n] = f[n - 1] + w[h[n].coord] * h[n].value

Weights == [Islands -> Int]

\* An entry has a place and an integer.
LEMMA EntryAt ==
    ASSUME NEW h \in Seq(Entry), NEW n \in 1..Len(h)
    PROVE  h[n] \in Entry /\ h[n].coord \in Islands /\ h[n].value \in Int
  <1>1. h[n] \in Entry
    OBVIOUS
  <1> QED BY <1>1 DEF Entry

\* Total is the end of such sums.
LEMMA TotalSums ==
    ASSUME NEW h \in Seq(Entry), NEW w \in Weights
    PROVE  \E f : Sums(f, h, w)
  <1> DEFINE c == Len(h)
             add(n, s) == s + w[h[n].coord] * h[n].value
             sum == CHOOSE f : f = [n \in 0..c |-> IF n = 0 THEN 0 ELSE add(n, f[n - 1])]
             Step == [n \in Nat |-> [s \in Int |-> IF n < c THEN add(n + 1, s) ELSE s]]
  <1>1. Total(h, w) = sum[c]
    BY Zenon DEF Total
  <1>2. c \in Nat /\ \A n \in 1..c : \A s \in Int : add(n, s) \in Int
    <2>1. \A n \in 1..c : h[n].coord \in Islands /\ h[n].value \in Int
      BY EntryAt
    <2> QED BY <2>1 DEF Weights
  <1> HIDE DEF c, add
  <1>3. Step \in [Nat -> [Int -> Int]]
    <2>1. ASSUME NEW n \in Nat PROVE [s \in Int |-> IF n < c THEN add(n + 1, s) ELSE s] \in [Int -> Int]
      <3>1. CASE n < c
        <4>1. n + 1 \in 1..c
          BY <1>2, <3>1
        <4> QED BY <1>2, <3>1, <4>1
      <3>2. CASE ~(n < c)
        BY <3>2
      <3> QED BY <3>1, <3>2
    <2> QED BY <2>1
  <1>4. PICK g \in [0..c -> Int] : g = [n \in 0..c |-> IF n = 0 THEN 0 ELSE Step[n - 1][g[n - 1]]]
    <2> HIDE DEF Step
    <2>1. 0 \in Int
      OBVIOUS
    <2>2. RecursiveUpTo(Int, 0, Step, c)
      BY <1>2, <1>3, <2>1, BoundedRecursion
    <2> QED BY <2>2 DEF RecursiveUpTo
  <1>5. ASSUME NEW n \in 1..c
        PROVE  Step[n - 1][g[n - 1]] = add(n, g[n - 1])
    <2>1. n - 1 \in 0..c /\ n - 1 \in Nat /\ n - 1 < c /\ (n - 1) + 1 = n
      BY <1>2
    <2>2. g[n - 1] \in Int
      BY <2>1
    <2>3. Step[n - 1] = [s \in Int |-> IF n - 1 < c THEN add((n - 1) + 1, s) ELSE s]
      BY <2>1
    <2> HIDE DEF Step
    <2> QED BY <2>1, <2>2, <2>3
  <1> HIDE DEF Step
  <1>6. \A n \in 0..c : (IF n = 0 THEN 0 ELSE Step[n - 1][g[n - 1]]) = IF n = 0 THEN 0 ELSE add(n, g[n - 1])
    <2>1. \A n \in 0..c : n = 0 \/ n \in 1..c
      BY <1>2
    <2> QED BY <1>5, <2>1
  <1>7. g = [n \in 0..c |-> IF n = 0 THEN 0 ELSE add(n, g[n - 1])]
    BY <1>4, <1>6
  <1>8. sum = [n \in 0..c |-> IF n = 0 THEN 0 ELSE add(n, sum[n - 1])]
    BY <1>7
  <1> HIDE DEF sum
  <1>9. sum[0] = 0 /\ \A n \in 1..c : sum[n] = add(n, sum[n - 1])
    <2>1. 0 \in 0..c /\ \A n \in 1..c : n \in 0..c /\ n # 0
      BY <1>2
    <2> QED BY <1>8, <2>1
  <1> DEFINE T == {n \in Nat : n <= c => sum[n] \in Int}
  <1>10. 0 \in T
    BY <1>9
  <1>11. ASSUME NEW n \in T PROVE n + 1 \in T
    <2>1. CASE n + 1 <= c
      <3>1. n + 1 \in 1..c /\ (n + 1) - 1 = n /\ sum[n] \in Int
        BY <1>2, <2>1
      <3>2. sum[n + 1] = add(n + 1, sum[n])
        BY <1>9, <3>1
      <3>3. sum[n + 1] \in Int
        BY <1>2, <3>1, <3>2
      <3> QED BY <3>3
    <2>2. CASE ~(n + 1 <= c)
      BY <2>2
    <2> QED BY <2>1, <2>2
  <1>12. T = Nat
    BY <1>10, <1>11, NatSetInduction
  <1>13. sum \in [0..c -> Int]
    <2>1. c \in Nat
      BY <1>2
    <2>2. ASSUME NEW n \in 0..c PROVE sum[n] \in Int
      <3>1. n \in T /\ n <= c
        BY <1>12, <2>1
      <3> QED BY <3>1
    <2> QED BY <1>8, <2>2
  <1> QED BY <1>1, <1>9, <1>13 DEF Sums, add, c

\* From m to last the histories h and k have the same entries, shifted by s, and
\* their sums f and g are e apart at m.
Apart(f, g, h, k, m, last, s, e) ==
    /\ m \in Nat /\ s \in Nat /\ e \in Int /\ last \in Nat
    /\ m <= last /\ last <= Len(k) /\ last + s <= Len(h)
    /\ g[m] = f[m + s] + e
    /\ \A n \in m + 1..last : k[n] = h[n + s]

\* Then they are still as far apart at last.
LEMMA SumsAlong ==
    ASSUME NEW h \in Seq(Entry), NEW k \in Seq(Entry), NEW w \in Weights,
           NEW f, NEW g, Sums(f, h, w), Sums(g, k, w),
           NEW m, NEW last, NEW s, NEW e, Apart(f, g, h, k, m, last, s, e)
    PROVE  g[last] = f[last + s] + e
  <1>0. /\ m \in Nat /\ s \in Nat /\ e \in Int /\ last \in Nat
        /\ m <= last /\ last <= Len(k) /\ last + s <= Len(h)
        /\ g[m] = f[m + s] + e
        /\ \A n \in m + 1..last : k[n] = h[n + s]
    BY DEF Apart
  <1> DEFINE T == {j \in Nat : m + j <= last => g[m + j] = f[(m + j) + s] + e}
  <1>1. 0 \in T
    BY <1>0
  <1>2. ASSUME NEW j \in T PROVE j + 1 \in T
    <2>1. CASE m + (j + 1) <= last
      <3> DEFINE n == m + (j + 1)
      <3>1. /\ n \in m + 1..last /\ n \in 1..Len(k) /\ n + s \in 1..Len(h) /\ n - 1 = m + j
            /\ (n + s) - 1 = (m + j) + s
        BY <1>0, <2>1
      <3> HIDE DEF n
      <3>2. g[n] = g[n - 1] + w[k[n].coord] * k[n].value
        BY <3>1 DEF Sums
      <3>3. f[n + s] = f[(n + s) - 1] + w[h[n + s].coord] * h[n + s].value
        <4>1. \A i \in 1..Len(h) : f[i] = f[i - 1] + w[h[i].coord] * h[i].value
          BY DEF Sums
        <4> QED BY <3>1, <4>1
      <3>4. k[n] = h[n + s]
        BY <1>0, <3>1
      <3>5. g[n - 1] = f[(n + s) - 1] + e
        BY <1>0, <2>1, <3>1
      <3>6. w[k[n].coord] * k[n].value \in Int
        BY <3>1, EntryAt DEF Weights
      <3>7. f[(n + s) - 1] \in Int
        BY <3>1 DEF Sums
      <3>8. g[n] = f[n + s] + e
        <4> DEFINE x == w[k[n].coord] * k[n].value
        <4>1. g[n] = (f[(n + s) - 1] + e) + x /\ f[n + s] = f[(n + s) - 1] + x /\ x \in Int
          BY <3>2, <3>3, <3>4, <3>5, <3>6
        <4> HIDE DEF x
        <4> QED BY <1>0, <3>7, <4>1
      <3> QED BY <3>8 DEF n
    <2>2. CASE ~(m + (j + 1) <= last)
      BY <2>2
    <2> QED BY <2>1, <2>2
  <1>3. T = Nat
    BY <1>1, <1>2, NatSetInduction
  <1>4. last - m \in Nat /\ m + (last - m) = last
    BY <1>0
  <1>5. last - m \in T
    BY <1>3, <1>4
  <1> QED BY <1>0, <1>4, <1>5

-----------------------------------------------------------------------------
(* buyCommodity and sellCommodity on a history.                             *)

\* The three ways in which d units at the current position change the history.
Entered(h, k, d) ==
    /\ \A n \in 1..Len(h) : h[n].coord # position
    /\ k = Append(h, [coord |-> position, value |-> d])
Removed(h, k, d, i) ==
    /\ i \in 1..Len(h) /\ h[i].coord = position /\ h[i].value + d = 0
    /\ k \in Seq(Entry) /\ Len(k) = Len(h) - 1
    /\ \A n \in 1..i - 1 : k[n] = h[n]
    /\ \A n \in i..Len(h) - 1 : k[n] = h[n + 1]
Changed(h, k, d, i) ==
    /\ i \in 1..Len(h) /\ h[i].coord = position /\ h[i].value + d # 0
    /\ k = [h EXCEPT ![i].value = @ + d]

\* A trade is one of the three.
LEMMA TradedCases ==
    ASSUME NEW h \in Seq(Entry), NEW d \in Int, position \in Islands
    PROVE  \/ Entered(h, Traded(h, d), d)
           \/ \E i : Removed(h, Traded(h, d), d, i) \/ Changed(h, Traded(h, d), d, i)
  <1> DEFINE I == {n \in 1..Len(h) : h[n].coord = position}
             i == IF I # {} THEN Min(I) ELSE 0
  <1>1. SelectInSeq(h, LAMBDA t : t.coord = position) = i
    BY DEF SelectInSeq
  <1>2. Traded(h, d) = IF i = 0 THEN Append(h, [coord |-> position, value |-> d])
                       ELSE IF h[i].value + d = 0 THEN RemoveAt(h, i)
                       ELSE [h EXCEPT ![i].value = @ + d]
    BY <1>1, Zenon DEF Traded
  <1>3. CASE I = {}
    BY <1>2, <1>3 DEF Entered
  <1>4. CASE I # {}
    <2>1. I \subseteq Nat
      OBVIOUS
    <2>2. \E m \in I : \A n \in I : m <= n
      BY <1>4, <2>1, LeastNumber
    <2>3. i \in I
      BY <1>4, <2>2 DEF Min
    <2>4. i \in 1..Len(h) /\ h[i].coord = position /\ i # 0
      BY <2>3
    <2> HIDE DEF i
    <2>5. CASE h[i].value + d = 0
      <3>1. Traded(h, d) = SubSeq(h, 1, i - 1) \o SubSeq(h, i + 1, Len(h))
        BY <1>2, <2>4, <2>5 DEF RemoveAt
      <3>2. Removed(h, SubSeq(h, 1, i - 1) \o SubSeq(h, i + 1, Len(h)), d, i)
        <4> DEFINE a == SubSeq(h, 1, i - 1)
                   b == SubSeq(h, i + 1, Len(h))
        <4>1. Len(h) \in Nat /\ i \in Nat /\ 1 <= i /\ i <= Len(h)
          BY <2>4
        <4>2. /\ \A n \in 1..i - 1 : h[n] \in Entry
              /\ \A n \in i + 1..Len(h) : h[n] \in Entry
          BY <4>1, EntryAt
        <4>3. a \in Seq(Entry) /\ Len(a) = i - 1 /\ \A n \in 1..i - 1 : a[n] = h[n]
          <5>1. /\ a \in Seq(Entry) /\ Len(a) = IF 1 <= i - 1 THEN (i - 1) - 1 + 1 ELSE 0
                /\ \A n \in 1..(i - 1) - 1 + 1 : a[n] = h[1 + n - 1]
            BY <4>1, <4>2, SubSeqProperties
          <5> QED BY <4>1, <5>1
        <4>4. /\ b \in Seq(Entry) /\ Len(b) = Len(h) - i
              /\ \A n \in 1..Len(h) - i : b[n] = h[i + n]
          <5>1. /\ b \in Seq(Entry) /\ Len(b) = IF i + 1 <= Len(h) THEN Len(h) - (i + 1) + 1 ELSE 0
                /\ \A n \in 1..Len(h) - (i + 1) + 1 : b[n] = h[(i + 1) + n - 1]
            BY <4>1, <4>2, SubSeqProperties
          <5> QED BY <4>1, <5>1
        <4> HIDE DEF a, b
        <4>5. /\ a \o b \in Seq(Entry) /\ Len(a \o b) = Len(a) + Len(b)
              /\ \A n \in 1..Len(a) + Len(b) : (a \o b)[n] = IF n <= Len(a) THEN a[n] ELSE b[n - Len(a)]
          BY <4>3, <4>4, ConcatProperties
        <4>6. \A n \in 1..i - 1 : (a \o b)[n] = h[n]
          BY <4>1, <4>3, <4>4, <4>5
        <4>7. ASSUME NEW n \in i..Len(h) - 1 PROVE (a \o b)[n] = h[n + 1]
          <5>1. n \in 1..Len(a) + Len(b) /\ ~(n <= Len(a)) /\ n - Len(a) \in 1..Len(h) - i
                /\ i + (n - Len(a)) = n + 1
            BY <4>1, <4>3, <4>4
          <5>2. (a \o b)[n] = b[n - Len(a)]
            BY <4>5, <5>1
          <5>3. b[n - Len(a)] = h[i + (n - Len(a))]
            BY <4>4, <5>1
          <5> QED BY <5>1, <5>2, <5>3
        <4>8. Removed(h, a \o b, d, i)
          BY <2>4, <2>5, <4>1, <4>3, <4>4, <4>5, <4>6, <4>7 DEF Removed
        <4> QED BY <4>8 DEF a, b
      <3> QED BY <3>1, <3>2
    <2>6. CASE h[i].value + d # 0
      BY <1>2, <2>4, <2>6 DEF Changed
    <2> QED BY <2>5, <2>6
  <1> QED BY <1>3, <1>4

\* A new entry adds its weight.
LEMMA TotalEntered ==
    ASSUME NEW h \in Seq(Entry), NEW k, NEW d \in Int, NEW w \in Weights,
           position \in Islands, Entered(h, k, d)
    PROVE  k \in Seq(Entry) /\ Total(k, w) = Total(h, w) + w[position] * d
  <1> DEFINE c == Len(h)
             t == [coord |-> position, value |-> d]
  <1>1. /\ k \in Seq(Entry) /\ c \in Nat /\ Len(k) = c + 1 /\ k[c + 1] = t
        /\ \A n \in 1..c : k[n] = h[n]
    <2>1. t \in Entry
      BY DEF Entry
    <2> HIDE DEF t
    <2> QED BY <2>1 DEF Entered, t
  <1>2. PICK f : Sums(f, h, w)
    BY TotalSums
  <1>3. PICK g : Sums(g, k, w)
    BY <1>1, TotalSums
  <1>4. g[c] = f[c]
    <2>1. Apart(f, g, h, k, 0, c, 0, 0) /\ f[c + 0] + 0 = f[c]
      BY <1>1, <1>2, <1>3 DEF Sums, Apart
    <2> QED BY <1>1, <1>2, <1>3, <2>1, SumsAlong
  <1>5. g[c + 1] = g[c] + w[position] * d
    <2>1. c + 1 \in 1..Len(k) /\ (c + 1) - 1 = c
      BY <1>1
    <2> QED BY <1>1, <1>3, <2>1 DEF Sums
  <1> QED BY <1>1, <1>2, <1>3, <1>4, <1>5 DEF Sums

\* An entry that nets to zero had the opposite share.
LEMMA TotalRemoved ==
    ASSUME NEW h \in Seq(Entry), NEW k, NEW d \in Int, NEW w \in Weights,
           position \in Islands, NEW i, Removed(h, k, d, i)
    PROVE  k \in Seq(Entry) /\ Total(k, w) = Total(h, w) + w[position] * d
  <1> DEFINE c == Len(h)
             x == w[position] * d
  <1>1. /\ k \in Seq(Entry) /\ c \in Nat /\ Len(k) = c - 1 /\ c - 1 \in Nat /\ i \in 1..c
        /\ i - 1 \in Nat /\ h[i].coord = position /\ h[i].value = -d
        /\ \A n \in 1..i - 1 : k[n] = h[n]
        /\ \A n \in i..c - 1 : k[n] = h[n + 1]
    BY EntryAt DEF Removed
  <1>2. PICK f : Sums(f, h, w)
    BY TotalSums
  <1>3. PICK g : Sums(g, k, w)
    BY <1>1, TotalSums
  <1>4. g[i - 1] = f[i - 1]
    <2>1. Apart(f, g, h, k, 0, i - 1, 0, 0)
      BY <1>1, <1>2, <1>3 DEF Sums, Apart
    <2>2. g[i - 1] = f[(i - 1) + 0] + 0
      BY <1>1, <1>2, <1>3, <2>1, SumsAlong
    <2>3. f[i - 1] \in Int
      BY <1>1, <1>2 DEF Sums
    <2> QED BY <1>1, <2>2, <2>3
  <1>5. x \in Int /\ w[position] * (-d) = -x
    BY DEF Weights
  <1>6. f[i] = f[i - 1] + (-x) /\ f[i - 1] \in Int
    <2>1. f[i] = f[i - 1] + w[h[i].coord] * h[i].value
      BY <1>1, <1>2 DEF Sums
    <2>2. f[i - 1] \in Int
      BY <1>1, <1>2 DEF Sums
    <2> QED BY <1>1, <1>5, <2>1, <2>2
  <1> HIDE DEF x
  <1>7. g[c - 1] = f[(c - 1) + 1] + x
    <2>1. Apart(f, g, h, k, i - 1, c - 1, 1, x)
      BY <1>1, <1>4, <1>5, <1>6 DEF Apart
    <2> QED BY <1>1, <1>2, <1>3, <2>1, SumsAlong
  <1>8. Total(k, w) = g[c - 1] /\ Total(h, w) = f[c] /\ (c - 1) + 1 = c
    BY <1>1, <1>2, <1>3 DEF Sums
  <1> QED BY <1>1, <1>7, <1>8 DEF x

\* An entry that changes moves the sum by the difference.
LEMMA TotalChanged ==
    ASSUME NEW h \in Seq(Entry), NEW k, NEW d \in Int, NEW w \in Weights,
           position \in Islands, NEW i, Changed(h, k, d, i)
    PROVE  k \in Seq(Entry) /\ Total(k, w) = Total(h, w) + w[position] * d
  <1> DEFINE c == Len(h)
             v == h[i].value
  <1>1. c \in Nat /\ i \in 1..c /\ i - 1 \in Nat /\ h[i] \in Entry /\ v \in Int /\ h[i].coord = position
    BY EntryAt DEF Changed
  <1>2. /\ k \in Seq(Entry) /\ Len(k) = c /\ k[i] = [h[i] EXCEPT !.value = @ + d]
        /\ \A n \in 1..c : n # i => k[n] = h[n]
    <2>1. [h[i] EXCEPT !.value = @ + d] \in Entry
      BY <1>1 DEF Entry
    <2>2. k = [h EXCEPT ![i] = [h[i] EXCEPT !.value = @ + d]]
      BY <1>1 DEF Changed
    <2> QED BY <1>1, <2>1, <2>2
  <1>3. k[i].coord = position /\ k[i].value = v + d
    BY <1>1, <1>2 DEF Entry
  <1>4. PICK f : Sums(f, h, w)
    BY TotalSums
  <1>5. PICK g : Sums(g, k, w)
    BY <1>2, TotalSums
  <1>6. g[i - 1] = f[i - 1] /\ f[i - 1] \in Int
    <2>1. Apart(f, g, h, k, 0, i - 1, 0, 0)
      BY <1>1, <1>2, <1>4, <1>5 DEF Sums, Apart
    <2>2. g[i - 1] = f[(i - 1) + 0] + 0
      BY <1>1, <1>2, <1>4, <1>5, <2>1, SumsAlong
    <2>3. f[i - 1] \in Int
      BY <1>1, <1>4 DEF Sums
    <2> QED BY <1>1, <2>2, <2>3
  <1>7. f[i] = f[i - 1] + w[position] * v /\ g[i] = f[i - 1] + w[position] * (v + d)
    BY <1>1, <1>2, <1>3, <1>4, <1>5, <1>6 DEF Sums
  <1>8. w[position] * (v + d) = w[position] * v + w[position] * d /\ w[position] \in Int
    BY <1>1 DEF Weights
  <1> DEFINE x == w[position] * d
             y == w[position] * v
  <1>9. x \in Int /\ y \in Int
    BY <1>1, <1>8
  <1>10. g[i] = f[i] + x
    <2>1. f[i] = f[i - 1] + y /\ g[i] = f[i - 1] + (y + x)
      BY <1>7, <1>8
    <2> HIDE DEF x, y
    <2> QED BY <1>6, <1>9, <2>1
  <1> HIDE DEF x, y
  <1>11. g[c] = f[c + 0] + x
    <2>0. /\ i \in Nat /\ i <= c /\ i + 0 = i /\ c + 0 = c
          /\ \A n \in i + 1..c : n + 0 = n /\ n \in 1..c /\ n # i
      BY <1>1
    <2>1. Apart(f, g, h, k, i, c, 0, x)
      BY <1>1, <1>2, <1>9, <1>10, <2>0 DEF Apart
    <2> QED BY <1>1, <1>2, <1>4, <1>5, <2>1, SumsAlong
  <1>12. Total(k, w) = g[c] /\ Total(h, w) = f[c] /\ c + 0 = c
    BY <1>1, <1>2, <1>4, <1>5 DEF Sums
  <1> QED BY <1>2, <1>11, <1>12 DEF x

\* d units traded move the sum by d times the weight of the current position.
LEMMA TotalTraded ==
    ASSUME NEW h \in Seq(Entry), NEW d \in Int, NEW w \in Weights, position \in Islands
    PROVE  /\ Traded(h, d) \in Seq(Entry)
           /\ Total(Traded(h, d), w) = Total(h, w) + w[position] * d
  <1>1. CASE Entered(h, Traded(h, d), d)
    BY <1>1, TotalEntered
  <1>2. ASSUME NEW i, Removed(h, Traded(h, d), d, i)
        PROVE  /\ Traded(h, d) \in Seq(Entry)
               /\ Total(Traded(h, d), w) = Total(h, w) + w[position] * d
    BY <1>2, TotalRemoved
  <1>3. ASSUME NEW i, Changed(h, Traded(h, d), d, i)
        PROVE  /\ Traded(h, d) \in Seq(Entry)
               /\ Total(Traded(h, d), w) = Total(h, w) + w[position] * d
    BY <1>3, TotalChanged
  <1> QED BY <1>1, <1>2, <1>3, TradedCases

-----------------------------------------------------------------------------
(* AdvanceTime on a history.                                                *)

Pass == [kept : Seq(Entry), skip : BOOLEAN]

\* p is the pass of the loop over h, entry by entry.
Passes(p, h) ==
    /\ p \in [0..Len(h) -> Pass] /\ Aged(h) = p[Len(h)].kept
    /\ p[0] = [kept |-> <<>>, skip |-> FALSE]
    /\ \A n \in 1..Len(h) : p[n] = AgedEntry(p[n - 1], h[n])

\* A step of the pass keeps a sequence of entries.
LEMMA AgedEntryType ==
    ASSUME NEW acc \in Pass, NEW t \in Entry
    PROVE  AgedEntry(acc, t) \in Pass
  <1>1. TowardsZero(t) \in Entry
    BY DEF TowardsZero, Entry
  <1>2. acc.kept \in Seq(Entry) /\ acc.skip \in BOOLEAN
    BY DEF Pass
  <1>3. Append(acc.kept, t) \in Seq(Entry) /\ Append(acc.kept, TowardsZero(t)) \in Seq(Entry)
    BY <1>1, <1>2
  <1> QED BY <1>2, <1>3 DEF AgedEntry, Pass

\* Aged is where the pass ends.
LEMMA AgedPasses ==
    ASSUME NEW h \in Seq(Entry)
    PROVE  \E p : Passes(p, h)
  <1> DEFINE c == Len(h)
             a == [kept |-> <<>>, skip |-> FALSE]
             pass == CHOOSE p : p = [n \in 0..c |-> IF n = 0 THEN a ELSE AgedEntry(p[n - 1], h[n])]
             Step == [n \in Nat |-> [s \in Pass |-> IF n < c THEN AgedEntry(s, h[n + 1]) ELSE s]]
  <1>1. Aged(h) = pass[c].kept
    BY Zenon DEF Aged
  <1>2. c \in Nat /\ a \in Pass /\ \A n \in 1..c : \A s \in Pass : AgedEntry(s, h[n]) \in Pass
    <2>1. \A n \in 1..c : h[n] \in Entry
      BY EntryAt
    <2>2. a \in Pass
      BY DEF Pass
    <2> QED BY <2>1, <2>2, AgedEntryType
  <1> HIDE DEF c, a
  <1>3. Step \in [Nat -> [Pass -> Pass]]
    <2>1. ASSUME NEW n \in Nat
          PROVE  [s \in Pass |-> IF n < c THEN AgedEntry(s, h[n + 1]) ELSE s] \in [Pass -> Pass]
      <3>1. CASE n < c
        <4>1. n + 1 \in 1..c
          BY <1>2, <3>1
        <4> QED BY <1>2, <3>1, <4>1
      <3>2. CASE ~(n < c)
        BY <3>2
      <3> QED BY <3>1, <3>2
    <2> QED BY <2>1
  <1>4. PICK g \in [0..c -> Pass] : g = [n \in 0..c |-> IF n = 0 THEN a ELSE Step[n - 1][g[n - 1]]]
    <2> HIDE DEF Step
    <2>1. RecursiveUpTo(Pass, a, Step, c)
      BY <1>2, <1>3, BoundedRecursion
    <2> QED BY <2>1 DEF RecursiveUpTo
  <1>5. ASSUME NEW n \in 1..c
        PROVE  Step[n - 1][g[n - 1]] = AgedEntry(g[n - 1], h[n])
    <2>1. n - 1 \in 0..c /\ n - 1 \in Nat /\ n - 1 < c /\ (n - 1) + 1 = n
      BY <1>2
    <2>2. g[n - 1] \in Pass
      BY <2>1
    <2>3. Step[n - 1] = [s \in Pass |-> IF n - 1 < c THEN AgedEntry(s, h[(n - 1) + 1]) ELSE s]
      BY <2>1
    <2> HIDE DEF Step
    <2> QED BY <2>1, <2>2, <2>3
  <1> HIDE DEF Step
  <1>6. ASSUME NEW n \in 0..c
        PROVE  (IF n = 0 THEN a ELSE Step[n - 1][g[n - 1]]) = IF n = 0 THEN a ELSE AgedEntry(g[n - 1], h[n])
    <2>1. n = 0 \/ n \in 1..c
      BY <1>2
    <2> QED BY <1>5, <2>1
  <1>7. g = [n \in 0..c |-> IF n = 0 THEN a ELSE AgedEntry(g[n - 1], h[n])]
    BY <1>4, <1>6
  <1>8. pass = [n \in 0..c |-> IF n = 0 THEN a ELSE AgedEntry(pass[n - 1], h[n])]
    BY <1>7
  <1> HIDE DEF pass
  <1>9. pass[0] = a /\ \A n \in 1..c : pass[n] = AgedEntry(pass[n - 1], h[n])
    <2>1. 0 \in 0..c /\ \A n \in 1..c : n \in 0..c /\ n # 0
      BY <1>2
    <2> QED BY <1>8, <2>1
  <1> DEFINE T == {n \in Nat : n <= c => pass[n] \in Pass}
  <1>10. 0 \in T
    BY <1>2, <1>9
  <1>11. ASSUME NEW n \in T PROVE n + 1 \in T
    <2>1. CASE n + 1 <= c
      <3>1. n + 1 \in 1..c /\ (n + 1) - 1 = n /\ pass[n] \in Pass
        BY <1>2, <2>1
      <3>2. pass[n + 1] = AgedEntry(pass[n], h[n + 1])
        BY <1>9, <3>1
      <3>3. pass[n + 1] \in Pass
        BY <1>2, <3>1, <3>2
      <3> QED BY <3>3
    <2>2. CASE ~(n + 1 <= c)
      BY <2>2
    <2> QED BY <2>1, <2>2
  <1>12. T = Nat
    BY <1>10, <1>11, NatSetInduction
  <1>13. pass \in [0..c -> Pass]
    <2>1. c \in Nat
      BY <1>2
    <2>2. ASSUME NEW n \in 0..c PROVE pass[n] \in Pass
      <3>1. n \in T /\ n <= c
        BY <1>12, <2>1
      <3> QED BY <3>1
    <2> QED BY <1>8, <2>2
  <1> QED BY <1>1, <1>9, <1>13 DEF Passes, c, a

\* One entry per place, and none that nets to nothing.
Canonical(h) ==
    \A i, j \in DOMAIN h :
        /\ h[i].value # 0
        /\ h[i].coord = h[j].coord => i = j

\* The places of s are among those of the first n entries of h.
Among(s, h, n) == \A i \in 1..Len(s) : \E m \in 1..n : s[i].coord = h[m].coord

\* What is kept of one more entry: at most one entry, at that entry's place.
LEMMA AgedEntryCanonical ==
    ASSUME NEW h \in Seq(Entry), Canonical(h), NEW n \in 1..Len(h), NEW acc \in Pass,
           Canonical(acc.kept), Among(acc.kept, h, n - 1)
    PROVE  Canonical(AgedEntry(acc, h[n]).kept) /\ Among(AgedEntry(acc, h[n]).kept, h, n)
  <1> DEFINE t == h[n]
             z == TowardsZero(t)
             s == acc.kept
  <1>1. n \in Nat /\ t \in Entry /\ t.coord \in Islands /\ t.value \in Int /\ t.value # 0
    <2>1. n \in DOMAIN h
      OBVIOUS
    <2> QED BY <2>1, EntryAt DEF Canonical
  <1>2. s \in Seq(Entry) /\ acc = [kept |-> acc.kept, skip |-> acc.skip]
    BY DEF Pass
  <1>3. z \in Entry /\ z.coord = t.coord /\ (Abs(t.value) # 1 => z.value # 0)
    BY <1>1 DEF TowardsZero, Abs, Entry
  <1>4. ASSUME NEW u \in Entry, u.coord = t.coord, u.value # 0
        PROVE  Canonical(Append(s, u)) /\ Among(Append(s, u), h, n)
    <2> DEFINE k == Append(s, u)
               c == Len(s)
    <2>1. /\ c \in Nat /\ Len(k) = c + 1 /\ k[c + 1] = u /\ DOMAIN k = 1..c + 1 /\ DOMAIN s = 1..c
          /\ \A i \in 1..c : k[i] = s[i]
      BY <1>2
    <2> HIDE DEF k, c, s
    <2>2. \A i \in 1..c + 1 : i = c + 1 \/ i \in 1..c
      BY <2>1
    <2>3. ASSUME NEW i \in 1..c PROVE s[i].coord # u.coord
      <3>1. PICK m \in 1..n - 1 : s[i].coord = h[m].coord
        BY DEF Among, c, s
      <3>2. m \in DOMAIN h /\ n \in DOMAIN h /\ m # n
        BY <1>1
      <3>3. h[m].coord # h[n].coord
        BY <3>2 DEF Canonical
      <3> QED BY <1>4, <3>1, <3>3
    <2>4. \A i \in 1..c : s[i].value # 0 /\ \A j \in 1..c : s[i].coord = s[j].coord => i = j
      <3>1. DOMAIN acc.kept = 1..c
        BY <2>1 DEF s
      <3> QED BY <3>1 DEF Canonical, s
    <2>5. Canonical(k)
      BY <1>4, <2>1, <2>2, <2>3, <2>4 DEF Canonical
    <2>6. ASSUME NEW i \in 1..c + 1 PROVE \E m \in 1..n : k[i].coord = h[m].coord
      <3>1. CASE i = c + 1
        BY <1>1, <1>4, <2>1, <3>1
      <3>2. CASE i \in 1..c
        <4>1. PICK m \in 1..n - 1 : s[i].coord = h[m].coord
          BY <3>2 DEF Among, c, s
        <4> QED BY <1>1, <2>1, <3>2, <4>1
      <3> QED BY <2>2, <3>1, <3>2
    <2> QED BY <2>1, <2>5, <2>6 DEF Among, k
  <1>5. CASE acc.skip
    <2>1. AgedEntry(acc, t).kept = Append(s, t)
      BY <1>5 DEF AgedEntry
    <2> QED BY <1>1, <1>4, <2>1
  <1>6. CASE ~acc.skip /\ Abs(t.value) = 1
    <2>1. AgedEntry(acc, t).kept = s
      BY <1>2, <1>6 DEF AgedEntry
    <2>2. Among(s, h, n)
      BY <1>1 DEF Among
    <2> QED BY <2>1, <2>2
  <1>7. CASE ~acc.skip /\ Abs(t.value) # 1
    <2>1. AgedEntry(acc, t).kept = Append(s, z)
      BY <1>2, <1>7 DEF AgedEntry
    <2> QED BY <1>3, <1>4, <1>7, <2>1
  <1> QED BY <1>5, <1>6, <1>7

\* Aging keeps the entries of a history of different places, and none is zero.
LEMMA AgedCanonical ==
    ASSUME NEW h \in Seq(Entry), Canonical(h)
    PROVE  Aged(h) \in Seq(Entry) /\ Canonical(Aged(h))
  <1>1. PICK p : Passes(p, h)
    BY AgedPasses
  <1> DEFINE c == Len(h)
             T == {n \in Nat : n <= c => Canonical(p[n].kept) /\ Among(p[n].kept, h, n)}
  <1>2. c \in Nat /\ \A n \in 0..c : p[n] \in Pass
    BY <1>1 DEF Passes
  <1>3. 0 \in T
    BY <1>1 DEF Passes, Canonical, Among
  <1>4. ASSUME NEW n \in T PROVE n + 1 \in T
    <2>1. CASE n + 1 <= c
      <3>1. n + 1 \in 1..c /\ (n + 1) - 1 = n /\ p[n] \in Pass
            /\ Canonical(p[n].kept) /\ Among(p[n].kept, h, n)
        BY <1>2, <2>1
      <3>2. p[n + 1] = AgedEntry(p[n], h[n + 1])
        BY <1>1, <3>1 DEF Passes
      <3>3. Canonical(p[n + 1].kept) /\ Among(p[n + 1].kept, h, n + 1)
        BY <3>1, <3>2, AgedEntryCanonical
      <3> QED BY <3>3
    <2>2. CASE ~(n + 1 <= c)
      BY <2>2
    <2> QED BY <2>1, <2>2
  <1>5. T = Nat
    BY <1>3, <1>4, NatSetInduction
  <1>6. c \in T /\ Aged(h) = p[c].kept /\ p[c] \in Pass
    BY <1>1, <1>2, <1>5 DEF Passes
  <1> QED BY <1>2, <1>6 DEF Pass

\* A trade keeps the entries of a history of different places, and none is zero.
LEMMA TradedCanonical ==
    ASSUME NEW h \in Seq(Entry), Canonical(h), NEW d \in Int, d # 0, position \in Islands
    PROVE  Canonical(Traded(h, d))
  <1> DEFINE c == Len(h)
  <1>1. c \in Nat /\ DOMAIN h = 1..c /\ \A n \in 1..c : h[n] \in Entry /\ h[n].value \in Int
    BY EntryAt
  <1>2. /\ \A n \in 1..c : h[n].value # 0
        /\ \A m, n \in 1..c : h[m].coord = h[n].coord => m = n
    BY <1>1 DEF Canonical
  <1>3. ASSUME NEW k, Entered(h, k, d) PROVE Canonical(k)
    <2> DEFINE t == [coord |-> position, value |-> d]
    <2>1. t \in Entry /\ t.coord = position /\ t.value = d
      BY DEF Entry
    <2>2. k = Append(h, t) /\ \A n \in 1..c : h[n].coord # position
      BY <1>3 DEF Entered
    <2> HIDE DEF t
    <2>3. DOMAIN k = 1..c + 1 /\ k[c + 1] = t /\ \A n \in 1..c : k[n] = h[n]
      BY <1>1, <2>1, <2>2
    <2>4. \A n \in 1..c + 1 : n = c + 1 \/ n \in 1..c
      BY <1>1
    <2> HIDE DEF c
    <2>5. \A n \in 1..c + 1 : k[n].value # 0
      BY <1>2, <2>1, <2>3, <2>4
    <2>6. \A m, n \in 1..c + 1 : k[m].coord = k[n].coord => m = n
      BY <1>2, <2>1, <2>2, <2>3, <2>4
    <2> QED BY <2>3, <2>5, <2>6 DEF Canonical
  <1>4. ASSUME NEW k, NEW i, Removed(h, k, d, i) PROVE Canonical(k)
    <2>1. /\ i \in 1..c /\ k \in Seq(Entry) /\ Len(k) = c - 1 /\ DOMAIN k = 1..c - 1
          /\ \A n \in 1..i - 1 : k[n] = h[n]
          /\ \A n \in i..c - 1 : k[n] = h[n + 1]
      BY <1>4 DEF Removed
    <2> DEFINE from(n) == IF n < i THEN n ELSE n + 1
    <2>2. ASSUME NEW n \in 1..c - 1
          PROVE  from(n) \in 1..c /\ k[n] = h[from(n)]
      BY <1>1, <2>1
    <2>3. \A m, n \in 1..c - 1 : from(m) = from(n) => m = n
      BY <1>1, <2>1
    <2> HIDE DEF from, c
    <2> QED BY <1>2, <2>1, <2>2, <2>3 DEF Canonical
  <1>5. ASSUME NEW k, NEW i, Changed(h, k, d, i) PROVE Canonical(k)
    <2>1. i \in 1..c /\ h[i].value + d # 0 /\ k = [h EXCEPT ![i] = [h[i] EXCEPT !.value = @ + d]]
      BY <1>5 DEF Changed
    <2>2. /\ DOMAIN k = 1..c /\ \A n \in 1..c : n # i => k[n] = h[n]
          /\ k[i] = [h[i] EXCEPT !.value = @ + d]
      BY <1>1, <2>1
    <2>3. k[i].coord = h[i].coord /\ k[i].value = h[i].value + d
      BY <1>1, <2>1, <2>2 DEF Entry
    <2> HIDE DEF c
    <2>4. \A n \in 1..c : k[n].coord = h[n].coord /\ k[n].value # 0
      BY <1>2, <2>1, <2>2, <2>3
    <2> QED BY <1>2, <2>2, <2>4 DEF Canonical
  <1> QED BY <1>3, <1>4, <1>5, TradedCases

-----------------------------------------------------------------------------
(* Prices.                                                                  *)

Floors == [Commodities -> [amount : Nat, text : BOOLEAN]]

\* What the Buy button costs if the floors were f, and the window made from them.
NormalOf(f, c, i) ==
    LET n == f[c].amount
        rise == (Ceiling[c] - n) * Wave[c][i]
    IN  IF f[c].text THEN 100 * n * Shift(rise \div 100) + rise
                     ELSE 100 * n + rise
BuyOf(f, c) == (NormalOf(f, c, position) * Inflation(hist[c], position)) \div Unit
WindowOf(f) ==
    [floors |-> f,
     buy    |-> [c \in Commodities |-> BuyOf(f, c)],
     sell   |-> [c \in Commodities |-> (BuyOf(f, c) * SellPct) \div 100]]

\* The window is made from the floors of the moment.
LEMMA WindowOfFloor == Window = WindowOf(floor) /\ \A c : BuyOf(floor, c) = BuyPrice(c)
  BY DEF Window, WindowOf, BuyOf, BuyPrice, Value, NormalOf, NormalValue

\* What the distances from i weigh.
NearTo(i) == [j \in Islands |-> Near[j][i]]

\* An island weighs Reach at itself.
LEMMA NearWeights ==
    ASSUME NEW i \in Islands
    PROVE  /\ NearTo(i) \in Weights /\ NearTo(i)[i] = Reach
           /\ \A j \in Islands : NearTo(i)[j] \in Nat
  <1>1. \A j \in Islands : Near[j][i] \in 0..Reach /\ Near[i][i] = Reach
    BY TradeConstants
  <1> QED BY <1>1, TradeConstants DEF NearTo, Weights

\* Inflation is an integer.
LEMMA InflationIs ==
    ASSUME NEW h \in Seq(Entry), NEW i \in Islands
    PROVE  /\ Total(h, NearTo(i)) \in Int
           /\ Inflation(h, i) = 100 * Reach + ChangePct * Total(h, NearTo(i))
           /\ Inflation(h, i) \in Int
  <1>1. Total(h, NearTo(i)) \in Int
    <2>1. PICK f : Sums(f, h, NearTo(i))
      BY NearWeights, TotalSums
    <2>2. Len(h) \in 0..Len(h)
      OBVIOUS
    <2> QED BY <2>1, <2>2 DEF Sums
  <1>2. Inflation(h, i) = 100 * Reach + ChangePct * Total(h, NearTo(i))
    BY DEF Inflation, NearTo
  <1> QED BY <1>1, <1>2, TradeConstants

\* Where everything was bought the places only weigh upwards.
LEMMA TotalPositive ==
    ASSUME NEW h \in Seq(Entry), NEW w \in Weights, \A j \in Islands : w[j] \in Nat,
           \A n \in 1..Len(h) : h[n].value > 0
    PROVE  Total(h, w) >= 0
  <1>1. PICK f : Sums(f, h, w)
    BY TotalSums
  <1> DEFINE c == Len(h)
             T == {n \in Nat : n <= c => f[n] >= 0}
  <1>2. 0 \in T
    BY <1>1 DEF Sums
  <1>3. ASSUME NEW n \in T PROVE n + 1 \in T
    <2>1. CASE n + 1 <= c
      <3>1. n + 1 \in 1..c /\ (n + 1) - 1 = n /\ f[n] >= 0 /\ f[n] \in Int
        BY <1>1, <2>1 DEF Sums
      <3>2. f[n + 1] = f[n] + w[h[n + 1].coord] * h[n + 1].value
        BY <1>1, <3>1 DEF Sums
      <3>3. w[h[n + 1].coord] \in Nat /\ h[n + 1].value \in Nat
        BY <3>1, EntryAt
      <3>4. w[h[n + 1].coord] * h[n + 1].value \in Nat
        BY <3>3
      <3>5. f[n + 1] >= 0
        BY <3>1, <3>2, <3>4
      <3> QED BY <3>5
    <2>2. CASE ~(n + 1 <= c)
      BY <2>2
    <2> QED BY <2>1, <2>2
  <1>4. T = Nat
    BY <1>2, <1>3, NatSetInduction
  <1> QED BY <1>1, <1>4 DEF Sums

\* A normal price is a natural number, if a floor typed in the page is below the

\* ceiling.
LEMMA NormalIs ==
    ASSUME NEW c \in Commodities, NEW i \in Islands, NEW f \in Floors,
           f[c].text => f[c].amount <= Ceiling[c]
    PROVE  NormalOf(f, c, i) \in Nat
  <1> DEFINE n == f[c].amount
             p == Wave[c][i]
             top == Ceiling[c]
             rise == (top - n) * p
  <1>1. n \in Nat /\ top \in Nat /\ p \in 0..100 /\ f[c].text \in BOOLEAN
    <2>1. f[c] \in [amount : Nat, text : BOOLEAN]
      BY DEF Floors
    <2> QED BY <2>1, TradeConstants
  <1> HIDE DEF n, p, top
  <1>2. rise \in Int /\ (n <= top => rise >= 0)
    BY <1>1
  <1>3. 100 * n + rise >= 0
    <2>1. 100 * n + rise = n * (100 - p) + top * p
      BY <1>1
    <2>2. n * (100 - p) >= 0 /\ top * p >= 0
      BY <1>1
    <2>3. n * (100 - p) \in Int /\ top * p \in Int
      BY <1>1
    <2> HIDE DEF rise
    <2> QED BY <2>1, <2>2, <2>3
  <1>4. Shift(rise \div 100) \in Nat
    BY DEF Shift
  <1>5. NormalOf(f, c, i) = IF f[c].text THEN 100 * n * Shift(rise \div 100) + rise ELSE 100 * n + rise
    BY DEF NormalOf, n, p, top
  <1> DEFINE shift == Shift(rise \div 100)
  <1> HIDE DEF rise, shift
  <1>6. 100 * n * shift \in Nat
    BY <1>1, <1>4 DEF shift
  <1> QED BY <1>1, <1>2, <1>3, <1>5, <1>6 DEF n, top, shift

\* Rounding down.
LEMMA Division ==
    ASSUME NEW a \in Int, NEW b \in Nat \ {0}
    PROVE  a \div b \in Int /\ b * (a \div b) <= a /\ a < b * (a \div b) + b
  OBVIOUS

\* Rounding once, after the percentage, gives at most one more than rounding

\* before and after it.
LEMMA RoundedTwice ==
    ASSUME NEW v \in Int, NEW u \in Nat \ {0}, NEW s \in 0..100
    PROVE  (v * s) \div (100 * u) - ((v \div u) * s) \div 100 \in {0, 1}
  <1> DEFINE q == v \div u
             a == (q * s) \div 100
             x == (v * s) \div (100 * u)
             r == v - u * q
             m == q * s - 100 * a
  <1>1. q \in Int /\ r \in 0..u - 1
    BY Division
  <1>2. q * s \in Int /\ v * s \in Int /\ 100 * u \in Nat \ {0}
    BY <1>1
  <1>3. a \in Int /\ m \in 0..99
    <2> HIDE DEF q
    <2> DEFINE qs == q * s
    <2>1. qs \in Int
      BY <1>2
    <2> HIDE DEF qs
    <2>2. qs \div 100 \in Int /\ 100 * (qs \div 100) <= qs /\ qs < 100 * (qs \div 100) + 100
      BY <2>1, Division
    <2> QED BY <2>1, <2>2 DEF qs
  <1>4. x \in Int /\ (100 * u) * x <= v * s /\ v * s < (100 * u) * x + 100 * u
    BY <1>2, Division
  <1>5. v = u * q + r /\ q * s = 100 * a + m
    <2> HIDE DEF a, q
    <2> QED BY <1>1, <1>2, <1>3
  <1> HIDE DEF q, a, x, r, m
  <1>6. v * s = (100 * u) * a + (u * m + r * s)
    <2>1. v * s = u * (q * s) + r * s
      BY <1>1, <1>5
    <2>2. u * (100 * a + m) = (100 * u) * a + u * m
      BY <1>3
    <2>3. u * (q * s) = u * (100 * a + m)
      BY <1>5
    <2>4. u * m \in Int /\ r * s \in Int /\ (100 * u) * a \in Int
      BY <1>1, <1>3
    <2> QED BY <2>1, <2>2, <2>3, <2>4
  <1>7. u * m \in 0..99 * u /\ r * s \in 0..100 * u
    BY <1>1, <1>3
  <1>8. (100 * u) * x < (100 * u) * (a + 2)
    <2>1. (100 * u) * (a + 2) = (100 * u) * a + 200 * u
      BY <1>3
    <2>2. (100 * u) * x \in Int /\ (100 * u) * a \in Int
      BY <1>3, <1>4
    <2> QED BY <1>4, <1>6, <1>7, <2>1, <2>2
  <1>9. (100 * u) * a < (100 * u) * (x + 1)
    <2>1. (100 * u) * (x + 1) = (100 * u) * x + 100 * u
      BY <1>4
    <2>2. (100 * u) * x \in Int /\ (100 * u) * a \in Int
      BY <1>3, <1>4
    <2> QED BY <1>4, <1>6, <1>7, <2>1, <2>2
  <1>10. \A y, z \in Int : (100 * u) * y < (100 * u) * z => y < z
    BY <1>2
  <1>11. x < a + 2 /\ a < x + 1
    BY <1>3, <1>4, <1>8, <1>9, <1>10
  <1>12. x - a \in {0, 1}
    BY <1>3, <1>4, <1>11
  <1> QED BY <1>12 DEF x, a, q

\* Rounding down keeps order.
LEMMA DivisionGrows ==
    ASSUME NEW a \in Int, NEW b \in Int, a <= b, NEW u \in Nat \ {0}
    PROVE  a \div u <= b \div u
  <1> DEFINE x == a \div u
             y == b \div u
  <1>1. x \in Int /\ y \in Int /\ u * x <= a /\ b < u * y + u
    BY Division
  <1> HIDE DEF x, y
  <1>2. u * x < u * (y + 1)
    <2>1. u * (y + 1) = u * y + u /\ u * x \in Int /\ u * y \in Int
      BY <1>1
    <2> QED BY <1>1, <2>1
  <1>3. \A p, q \in Int : u * p < u * q => p < q
    OBVIOUS
  <1>4. x < y + 1
    BY <1>1, <1>2, <1>3
  <1> QED BY <1>1, <1>4 DEF x, y

\* A quotient is not changed by a common factor.
LEMMA Scaled ==
    ASSUME NEW v \in Int, NEW u \in Nat \ {0}
    PROVE  (100 * v) \div (100 * u) = v \div u
  <1> DEFINE x == v \div u
             y == (100 * v) \div (100 * u)
  <1>1. x \in Int /\ u * x <= v /\ v < u * x + u
    BY Division
  <1>2. 100 * v \in Int /\ 100 * u \in Nat \ {0}
    OBVIOUS
  <1>3. y \in Int /\ (100 * u) * y <= 100 * v /\ 100 * v < (100 * u) * y + 100 * u
    BY <1>2, Division
  <1> HIDE DEF x, y
  <1>4. (100 * u) * y = 100 * (u * y) /\ u * y \in Int /\ u * x \in Int
    BY <1>1, <1>3
  <1>5. u * y <= v /\ v < u * y + u
    BY <1>3, <1>4
  <1>6. u * (y + 1) = u * y + u /\ u * (x + 1) = u * x + u
    BY <1>1, <1>3
  <1>7. u * x < u * (y + 1) /\ u * y < u * (x + 1)
    BY <1>1, <1>4, <1>5, <1>6
  <1>8. \A p, q \in Int : u * p < u * q => p < q
    OBVIOUS
  <1>9. x < y + 1 /\ y < x + 1
    BY <1>1, <1>3, <1>7, <1>8
  <1>10. y = x
    BY <1>1, <1>3, <1>9
  <1> QED BY <1>10 DEF x, y

-----------------------------------------------------------------------------
(* The invariant.                                                           *)

\* The types, and that a floor typed in the page is at most the ceiling.
Kinds ==
    /\ funds \in Int /\ cargo \in [Commodities -> Nat]
    /\ hist \in [Commodities -> Seq(Entry)]
    /\ position \in Islands \cup {NoIsland}
    /\ floor \in Floors
    /\ \A c \in Commodities : floor[c].text => floor[c].amount <= Ceiling[c]

\* The window is what updateInfoWindow would write now, but for the floors, which
\* it may have from before an edit.
WindowIsCurrent ==
    position # NoIsland => shown = WindowOf(shown.floors)

IInv == Kinds /\ HistCanonical /\ WindowIsCurrent

\* HistCanonical, history by history.
LEMMA CanonicalHist == HistCanonical <=> \A c \in Commodities : Canonical(hist[c])
  BY DEF HistCanonical, Canonical

\* A new window is current.
LEMMA NewWindow ==
    ASSUME shown' = Window'
    PROVE  WindowIsCurrent'
  <1>1. shown'.floors = floor'
    BY DEF Window
  <1>2. \A c \in Commodities : BuyOf(shown.floors, c)' = BuyPrice(c)'
    BY <1>1 DEF BuyOf, BuyPrice, Value, NormalOf, NormalValue
  <1> DEFINE buy == [c \in Commodities |-> BuyPrice(c)']
             sell == [c \in Commodities |-> (BuyPrice(c)' * SellPct) \div 100]
  <1>3. shown' = [floors |-> floor', buy |-> buy, sell |-> sell]
    BY DEF Window
  <1>4. WindowOf(shown.floors)' =
          [floors |-> shown'.floors,
           buy    |-> [c \in Commodities |-> BuyOf(shown.floors, c)'],
           sell   |-> [c \in Commodities |-> (BuyOf(shown.floors, c)' * SellPct) \div 100]]
    BY DEF WindowOf
  <1>5. /\ buy = [c \in Commodities |-> BuyOf(shown.floors, c)']
        /\ sell = [c \in Commodities |-> (BuyOf(shown.floors, c)' * SellPct) \div 100]
    BY <1>2
  <1> HIDE DEF buy, sell
  <1> QED BY <1>1, <1>3, <1>4, <1>5 DEF WindowIsCurrent

\* Prices are integers, and the normal price is never negative.
LEMMA PricesAre ==
    ASSUME Kinds, position # NoIsland, NEW c \in Commodities
    PROVE  /\ NormalValue(c, position) \in Nat /\ Inflation(hist[c], position) \in Int
           /\ Value(c, position) = NormalValue(c, position) * Inflation(hist[c], position)
           /\ Value(c, position) \in Int /\ BuyPrice(c) \in Int /\ SellPrice(c) \in Int
           /\ Unit \in Nat \ {0}
  <1>1. position \in Islands /\ hist[c] \in Seq(Entry) /\ floor \in Floors
        /\ (floor[c].text => floor[c].amount <= Ceiling[c])
    BY DEF Kinds
  <1>2. NormalValue(c, position) = NormalOf(floor, c, position)
    BY DEF NormalValue, NormalOf
  <1>3. NormalValue(c, position) \in Nat
    BY <1>1, <1>2, NormalIs
  <1>4. Inflation(hist[c], position) \in Int
    BY <1>1, InflationIs
  <1>5. Value(c, position) = NormalValue(c, position) * Inflation(hist[c], position)
    BY DEF Value
  <1>6. Value(c, position) \in Int
    BY <1>3, <1>4, <1>5
  <1>7. Unit \in Nat \ {0} /\ 100 * Unit \in Nat \ {0} /\ SellPct \in 0..100
    BY TradeConstants DEF Unit
  <1> HIDE DEF Value, Unit
  <1>8. BuyPrice(c) \in Int
    BY <1>6, <1>7, Division DEF BuyPrice
  <1>9. SellPrice(c) \in Int
    <2>1. Value(c, position) * SellPct \in Int
      BY <1>6, <1>7
    <2> QED BY <1>7, <2>1, Division DEF SellPrice
  <1> QED BY <1>3, <1>4, <1>5, <1>6, <1>7, <1>8, <1>9

\* The page as it is loaded.
LEMMA InitInv == Init => IInv
  <1> SUFFICES ASSUME Init PROVE IInv
    OBVIOUS
  <1>1. Kinds
    BY TradeConstants DEF Init, Kinds, Floors
  <1>2. HistCanonical
    BY DEF Init, HistCanonical
  <1> QED BY <1>1, <1>2 DEF IInv, WindowIsCurrent, Init

\* A trade of d units keeps what the histories are.
LEMMA DealKeeps ==
    ASSUME IInv, position # NoIsland, NEW c \in Commodities, NEW d \in Int, d # 0,
           hist' = [hist EXCEPT ![c] = Traded(@, d)]
    PROVE  hist' \in [Commodities -> Seq(Entry)] /\ HistCanonical'
  <1>1. /\ position \in Islands /\ hist \in [Commodities -> Seq(Entry)]
        /\ \A x \in Commodities : Canonical(hist[x])
    BY CanonicalHist DEF IInv, Kinds
  <1>2. Traded(hist[c], d) \in Seq(Entry) /\ Canonical(Traded(hist[c], d))
    <2>1. NearTo(position) \in Weights
      BY <1>1, NearWeights
    <2> QED BY <1>1, <2>1, TotalTraded, TradedCanonical
  <1>3. hist' \in [Commodities -> Seq(Entry)] /\ \A x \in Commodities : Canonical(hist'[x])
    BY <1>1, <1>2
  <1>4. \A x \in Commodities : Canonical(hist[x])' <=> Canonical(hist'[x])
    BY DEF Canonical
  <1> QED BY <1>3, <1>4, CanonicalHist DEF HistCanonical, Canonical

\* Every click keeps the invariant.
LEMMA NextInv == IInv /\ [Next]_vars => IInv'
  <1> SUFFICES ASSUME IInv, [Next]_vars PROVE IInv'
    OBVIOUS
  <1>1. ASSUME NEW i \in Islands, ShowInfoWindow(i) PROVE IInv'
    <2>1. Kinds' /\ HistCanonical'
      BY <1>1 DEF ShowInfoWindow, IInv, Kinds, HistCanonical
    <2> QED BY <1>1, <2>1, NewWindow DEF ShowInfoWindow, IInv
  <1>2. ASSUME NEW c \in Commodities, BuyCommodity(c) PROVE IInv'
    <2>1. hist' \in [Commodities -> Seq(Entry)] /\ HistCanonical'
      <3>1. position # NoIsland /\ hist' = [hist EXCEPT ![c] = Traded(@, 1)]
        BY <1>2 DEF BuyCommodity
      <3>2. 1 \in Int /\ 1 # 0
        OBVIOUS
      <3> QED BY <3>1, <3>2, DealKeeps
    <2>2. BuyPrice(c) \in Int
      BY <1>2, PricesAre DEF BuyCommodity, IInv
    <2>3. Kinds'
      BY <1>2, <2>1, <2>2 DEF BuyCommodity, IInv, Kinds
    <2> QED BY <1>2, <2>1, <2>3, NewWindow DEF BuyCommodity, IInv
  <1>3. ASSUME NEW c \in Commodities, SellCommodity(c) PROVE IInv'
    <2>1. hist' \in [Commodities -> Seq(Entry)] /\ HistCanonical'
      <3>1. position # NoIsland /\ hist' = [hist EXCEPT ![c] = Traded(@, -1)]
        BY <1>3 DEF SellCommodity
      <3>2. -1 \in Int /\ -1 # 0
        OBVIOUS
      <3> QED BY <3>1, <3>2, DealKeeps
    <2>2. SellPrice(c) \in Int
      BY <1>3, PricesAre DEF SellCommodity, IInv
    <2>3. Kinds'
      BY <1>3, <2>1, <2>2 DEF SellCommodity, IInv, Kinds
    <2> QED BY <1>3, <2>1, <2>3, NewWindow DEF SellCommodity, IInv
  <1>4. CASE AdvanceTime
    <2>1. \A c \in Commodities : Aged(hist[c]) \in Seq(Entry) /\ Canonical(Aged(hist[c]))
      BY CanonicalHist, AgedCanonical DEF IInv, Kinds
    <2>2. hist' = [c \in Commodities |-> Aged(hist[c])]
      BY <1>4 DEF AdvanceTime
    <2>3. hist' \in [Commodities -> Seq(Entry)] /\ \A c \in Commodities : Canonical(hist'[c])
      BY <2>1, <2>2
    <2>4. Kinds'
      BY <1>4, <2>3 DEF AdvanceTime, IInv, Kinds
    <2>5. HistCanonical'
      BY <2>3 DEF HistCanonical, Canonical
    <2>6. WindowIsCurrent'
      BY <1>4, NewWindow DEF AdvanceTime, WindowIsCurrent
    <2> QED BY <2>4, <2>5, <2>6 DEF IInv
  <1>5. ASSUME NEW c \in Commodities, NEW n \in FloorEdits, EditFloor(c, n) PROVE IInv'
    <2>1. UNCHANGED <<funds, cargo, hist, position, shown>> /\ n <= Ceiling[c] /\ n \in Nat
          /\ floor' = [floor EXCEPT ![c] = [amount |-> n, text |-> TRUE]]
      BY <1>5, TradeConstants DEF EditFloor
    <2>2. Kinds'
      BY <2>1 DEF IInv, Kinds, Floors
    <2>3. HistCanonical'
      BY <2>1 DEF IInv, HistCanonical
    <2>4. WindowIsCurrent'
      BY <2>1 DEF IInv, WindowIsCurrent, WindowOf, BuyOf, NormalOf
    <2> QED BY <2>2, <2>3, <2>4 DEF IInv
  <1>6. CASE UNCHANGED vars
    BY <1>6 DEF vars, IInv, Kinds, HistCanonical, WindowIsCurrent, WindowOf, BuyOf, NormalOf
  <1> QED BY <1>1, <1>2, <1>3, <1>4, <1>5, <1>6 DEF Next

\* Between the two buttons and what is charged there is only rounding.
LEMMA InvShows == IInv => ShownPriceHolds
  <1> SUFFICES ASSUME IInv, position # NoIsland, shown.floors = floor, NEW c \in Commodities
               PROVE  shown.buy[c] = BuyPrice(c) /\ SellPrice(c) - shown.sell[c] \in {0, 1}
    BY DEF ShownPriceHolds
  <1>1. shown = Window
    BY WindowOfFloor DEF IInv, WindowIsCurrent
  <1>2. shown.buy[c] = BuyPrice(c) /\ shown.sell[c] = (BuyPrice(c) * SellPct) \div 100
    BY <1>1 DEF Window
  <1>3. Value(c, position) \in Int /\ Unit \in Nat \ {0} /\ SellPct \in 0..100
    BY PricesAre, TradeConstants DEF IInv
  <1>4. SellPrice(c) - (BuyPrice(c) * SellPct) \div 100 \in {0, 1}
    BY <1>3, RoundedTwice DEF SellPrice, BuyPrice
  <1> QED BY <1>2, <1>4

\* The invariant holds while the page is open.
THEOREM PagesAreKept == Spec => []IInv
  BY InitInv, NextInv, PTL DEF Spec

-----------------------------------------------------------------------------
(* What the steps do.                                                       *)

Ones == [i \in Islands |-> 1]

\* A trade of d units moves the ledger of its commodity by d and no other.
LEMMA LedgerMoves ==
    ASSUME Kinds, position # NoIsland, NEW c \in Commodities, NEW d \in Int,
           cargo' = [cargo EXCEPT ![c] = @ + d],
           hist' = [hist EXCEPT ![c] = Traded(@, d)], NEW x \in Commodities
    PROVE  cargo'[x] - cargo[x] = Net(hist'[x]) - Net(hist[x])
  <1>1. hist[x] \in Seq(Entry) /\ cargo[x] \in Int /\ position \in Islands
    BY DEF Kinds
  <1>2. Ones \in Weights /\ \A i \in Islands : Ones[i] = 1
    BY DEF Weights, Ones
  <1>3. \A h : Net(h) = Total(h, Ones)
    BY DEF Net, Ones
  <1>4. PICK f : Sums(f, hist[x], Ones)
    BY <1>1, <1>2, TotalSums
  <1>5. Net(hist[x]) \in Int
    BY <1>1, <1>3, <1>4 DEF Sums
  <1>6. CASE x = c
    <2>1. cargo'[x] = cargo[x] + d /\ hist'[x] = Traded(hist[x], d)
      BY <1>6 DEF Kinds
    <2>2. Total(Traded(hist[x], d), Ones) = Total(hist[x], Ones) + Ones[position] * d
      BY <1>1, <1>2, TotalTraded
    <2>3. Ones[position] * d = d
      BY <1>1, <1>2
    <2>4. Net(hist'[x]) = Net(hist[x]) + d
      BY <1>3, <2>1, <2>2, <2>3
    <2> QED BY <1>1, <1>5, <2>1, <2>4
  <1>7. CASE x # c
    <2>1. cargo'[x] = cargo[x] /\ hist'[x] = hist[x]
      BY <1>7 DEF Kinds
    <2> QED BY <1>1, <1>5, <2>1
  <1> QED BY <1>6, <1>7

\* So wherever cargo moves the ledgers move with it.
LEMMA LedgerStep ==
    ASSUME IInv, [Next]_vars, cargo' # cargo, NEW x \in Commodities
    PROVE  cargo'[x] - cargo[x] = Net(hist'[x]) - Net(hist[x])
  <1>1. ASSUME NEW c \in Commodities, BuyCommodity(c)
        PROVE  cargo'[x] - cargo[x] = Net(hist'[x]) - Net(hist[x])
    <2>1. /\ position # NoIsland /\ cargo' = [cargo EXCEPT ![c] = @ + 1]
          /\ hist' = [hist EXCEPT ![c] = Traded(@, 1)]
      BY <1>1 DEF BuyCommodity
    <2>2. 1 \in Int
      OBVIOUS
    <2> QED BY <2>1, <2>2, LedgerMoves DEF IInv
  <1>2. ASSUME NEW c \in Commodities, SellCommodity(c)
        PROVE  cargo'[x] - cargo[x] = Net(hist'[x]) - Net(hist[x])
    <2>1. /\ position # NoIsland /\ cargo' = [cargo EXCEPT ![c] = @ - 1]
          /\ hist' = [hist EXCEPT ![c] = Traded(@, -1)]
      BY <1>2 DEF SellCommodity
    <2>2. cargo[c] - 1 = cargo[c] + (-1) /\ -1 \in Int
      BY DEF IInv, Kinds
    <2>3. cargo' = [cargo EXCEPT ![c] = @ + (-1)]
      BY <2>1, <2>2
    <2> QED BY <2>1, <2>2, <2>3, LedgerMoves DEF IInv
  <1>3. ASSUME NEW i \in Islands, ShowInfoWindow(i) PROVE FALSE
    BY <1>3 DEF ShowInfoWindow
  <1>4. ASSUME NEW c \in Commodities, NEW n \in FloorEdits, EditFloor(c, n) PROVE FALSE
    BY <1>4 DEF EditFloor
  <1>5. CASE AdvanceTime
    BY <1>5 DEF AdvanceTime
  <1>6. CASE UNCHANGED vars
    BY <1>6 DEF vars
  <1> QED BY <1>1, <1>2, <1>3, <1>4, <1>5, <1>6 DEF Next

\* A price below zero is that of a place sold short beyond its range.
LEMMA NegativePrice ==
    ASSUME Kinds, position # NoIsland, NEW c \in Commodities, SellPrice(c) < 0
    PROVE  Inflation(hist[c], position) < 0
  <1> DEFINE n == NormalValue(c, position)
             m == Inflation(hist[c], position)
             v == Value(c, position)
  <1>1. n \in Nat /\ m \in Int /\ v = n * m /\ v \in Int /\ Unit \in Nat \ {0} /\ SellPct \in 0..100
    BY PricesAre, TradeConstants
  <1>2. SellPrice(c) = (v * SellPct) \div (100 * Unit)
    BY DEF SellPrice
  <1> HIDE DEF n, m, v
  <1>3. ASSUME m >= 0 PROVE FALSE
    <2>1. v >= 0
      BY <1>1, <1>3
    <2>2. v * SellPct \in Nat /\ 100 * Unit \in Nat \ {0}
      BY <1>1, <2>1
    <2>3. (v * SellPct) \div (100 * Unit) >= 0
      <3>1. 0 \div (100 * Unit) = 0
        BY <2>2
      <3> QED BY <2>2, <3>1, DivisionGrows
    <2> DEFINE q == (v * SellPct) \div (100 * Unit)
    <2>4. SellPrice(c) = q /\ q >= 0 /\ q \in Int
      BY <1>2, <2>2, <2>3, Division
    <2> HIDE DEF q
    <2> QED BY <2>4
  <1> QED BY <1>1, <1>3 DEF m

\* A spread that covers the price change of one unit.  In the code a sale pays 85
\* of 100 and a unit bought raises the price by at most 2 of 100.
Margin == (100 + ChangePct) * SellPct <= 10000

\* A unit bought where nothing was sold short and sold at once loses.
LEMMA BoughtAndSold ==
    ASSUME Margin, Kinds, position # NoIsland, NEW c \in Commodities,
           position' = position, floor' = floor,
           hist' = [hist EXCEPT ![c] = Traded(@, 1)],
           \A n \in 1..Len(hist[c]) : hist[c][n].value > 0
    PROVE  SellPrice(c)' <= BuyPrice(c) /\ SellPrice(c)' \in Int /\ BuyPrice(c) \in Int
  <1> DEFINE n == NormalValue(c, position)
             h == hist[c]
             k == Traded(h, 1)
             m == Inflation(h, position)
             m1 == Inflation(k, position)
             near == NearTo(position)
  <1>1. position \in Islands /\ h \in Seq(Entry)
    BY DEF Kinds
  <1>2. near \in Weights /\ near[position] = Reach /\ \A j \in Islands : near[j] \in Nat
    BY <1>1, NearWeights
  <1>3. k \in Seq(Entry) /\ Total(k, near) = Total(h, near) + near[position] * 1
    BY <1>1, <1>2, TotalTraded
  <1>4. Total(h, near) >= 0
    BY <1>1, <1>2, TotalPositive
  <1>5. /\ m = 100 * Reach + ChangePct * Total(h, near) /\ m \in Int /\ Total(h, near) \in Int
        /\ m1 = 100 * Reach + ChangePct * Total(k, near) /\ m1 \in Int
    BY <1>1, <1>3, InflationIs
  <1>6. Reach \in Nat \ {0} /\ ChangePct \in Nat /\ SellPct \in 0..100
    BY TradeConstants
  <1>7. m \in Int /\ m1 \in Int
    BY <1>1, <1>3, InflationIs
  <1>8. SellPct \in Int
    BY <1>6
  <1>9. n \in Nat /\ Value(c, position) = n * m /\ Unit \in Nat \ {0} /\ BuyPrice(c) \in Int
    BY PricesAre
  <1>10. Value(c, position)' = n * m1
    <2>1. hist'[c] = k
      BY DEF Kinds
    <2>2. NormalValue(c, position)' = n
      BY DEF NormalValue
    <2>3. Inflation(hist[c], position)' = m1
      BY <2>1 DEF Inflation
    <2>4. Value(c, position)' = NormalValue(c, position)' * Inflation(hist[c], position)'
      BY DEF Value
    <2> QED BY <2>2, <2>3, <2>4
  <1>11. SellPrice(c)' = ((n * m1) * SellPct) \div (100 * Unit) /\ BuyPrice(c) = (n * m) \div Unit
    BY <1>9, <1>10 DEF SellPrice, BuyPrice, Unit
  <1> DEFINE total == Total(h, near)
             change == ChangePct * Reach
  <1> HIDE DEF n, h, k, m, m1, near, Unit
  <1>12. m1 = m + change
    <2>1. near[position] * 1 = Reach
      BY <1>2, <1>6
    <2>2. Total(k, near) = total + Reach
      BY <1>3, <2>1
    <2> HIDE DEF total
    <2>3. ChangePct * (total + Reach) = ChangePct * total + ChangePct * Reach
      BY <1>5, <1>6 DEF total
    <2>4. ChangePct * total \in Int
      BY <1>5, <1>6 DEF total
    <2> QED BY <1>5, <1>6, <2>2, <2>3, <2>4 DEF total
  <1>13. m >= 100 * Reach
    <2> HIDE DEF total
    <2>1. ChangePct * total \in Nat
      BY <1>4, <1>5, <1>6 DEF total
    <2> QED BY <1>5, <1>6, <2>1 DEF total
  <1>14. m1 * SellPct <= 100 * m
    <2>1. 100 * change <= ChangePct * m
      BY <1>5, <1>6, <1>13
    <2>2. change \in Nat /\ ChangePct * m \in Int /\ m \in Nat
      BY <1>5, <1>6, <1>13
    <2> HIDE DEF change
    <2>3. 100 * m1 <= (100 + ChangePct) * m
      <3>1. (100 + ChangePct) * m = 100 * m + ChangePct * m
        BY <1>6, <2>2
      <3> DEFINE y == ChangePct * m
      <3> HIDE DEF y
      <3> QED BY <1>12, <2>1, <2>2, <3>1 DEF y
    <2>4. (100 * m1) * SellPct <= ((100 + ChangePct) * m) * SellPct
      <3> DEFINE p == 100 * m1
                 q == (100 + ChangePct) * m
      <3>1. p \in Int /\ q \in Int /\ p <= q
        BY <1>5, <1>6, <2>3
      <3> HIDE DEF p, q
      <3>2. p * SellPct <= q * SellPct
        BY <1>6, <3>1
      <3> QED BY <3>2 DEF p, q
    <2>5. ((100 + ChangePct) * m) * SellPct = ((100 + ChangePct) * SellPct) * m
      BY <1>6, <2>2
    <2>6. ((100 + ChangePct) * SellPct) * m <= 10000 * m
      <3> DEFINE p == (100 + ChangePct) * SellPct
      <3>1. p \in Int /\ p <= 10000
        BY <1>6 DEF Margin
      <3> HIDE DEF p
      <3>2. p * m <= 10000 * m
        BY <2>2, <3>1
      <3> QED BY <3>2 DEF p
    <2>7. (100 * m1) * SellPct = 100 * (m1 * SellPct) /\ m1 * SellPct \in Int
      BY <1>5, <1>6
    <2> DEFINE a == m1 * SellPct
               b == ((100 + ChangePct) * m) * SellPct
    <2>8. b \in Int
      BY <1>6, <2>2
    <2>9. 100 * a <= b /\ b <= 10000 * m /\ a \in Int
      BY <2>4, <2>5, <2>6, <2>7
    <2> HIDE DEF a, b
    <2>10. a <= 100 * m
      BY <2>2, <2>8, <2>9
    <2> QED BY <2>10 DEF a
  <1>15. (n * m1) * SellPct <= 100 * (n * m)
    <2> DEFINE p == m1 * SellPct
               q == 100 * m
    <2>1. p \in Int /\ q \in Int
      BY <1>7, <1>8
    <2>2. p <= q
      BY <1>14
    <2> HIDE DEF p, q
    <2>3. n * p <= n * q
      BY <1>9, <2>1, <2>2
    <2>4. n * p = (n * m1) * SellPct /\ n * q = 100 * (n * m)
      BY <1>5, <1>6, <1>9 DEF p, q
    <2> QED BY <2>3, <2>4
  <1> DEFINE a == (n * m1) * SellPct
             v == n * m
  <1>16. a \in Int /\ v \in Int /\ 100 * v \in Int /\ 100 * Unit \in Nat \ {0}
    BY <1>5, <1>6, <1>9
  <1> HIDE DEF a, v
  <1>17. a \div (100 * Unit) <= (100 * v) \div (100 * Unit) /\ a \div (100 * Unit) \in Int
    BY <1>15, <1>16, DivisionGrows, Division DEF a, v
  <1>18. (100 * v) \div (100 * Unit) = v \div Unit
    BY <1>9, <1>16, Scaled
  <1> QED BY <1>9, <1>11, <1>17, <1>18 DEF a, v

\* Debt comes from a sale below zero.
LEMMA DebtStep ==
    ASSUME IInv, [Next]_vars, funds >= 0, funds' < 0
    PROVE  \E c \in Commodities : cargo'[c] < cargo[c] /\ Inflation(hist[c], position) < 0
  <1>1. ASSUME NEW c \in Commodities, BuyCommodity(c) PROVE FALSE
    <2>1. position # NoIsland /\ funds >= BuyPrice(c) /\ funds' = funds - BuyPrice(c)
      BY <1>1 DEF BuyCommodity
    <2>2. funds \in Int /\ BuyPrice(c) \in Int
      BY <2>1, PricesAre DEF IInv, Kinds
    <2> QED BY <2>1, <2>2
  <1>2. ASSUME NEW c \in Commodities, SellCommodity(c)
        PROVE  cargo'[c] < cargo[c] /\ Inflation(hist[c], position) < 0
    <2>1. position # NoIsland /\ funds' = funds + SellPrice(c) /\ cargo' = [cargo EXCEPT ![c] = @ - 1]
      BY <1>2 DEF SellCommodity
    <2>2. funds \in Int /\ SellPrice(c) \in Int
      BY <2>1, PricesAre DEF IInv, Kinds
    <2>3. SellPrice(c) < 0
      BY <2>1, <2>2
    <2>4. cargo'[c] < cargo[c]
      BY <2>1 DEF IInv, Kinds
    <2> QED BY <2>1, <2>3, <2>4, NegativePrice DEF IInv
  <1>3. ASSUME NEW i \in Islands, ShowInfoWindow(i) PROVE FALSE
    BY <1>3 DEF ShowInfoWindow, IInv, Kinds
  <1>4. ASSUME NEW c \in Commodities, NEW n \in FloorEdits, EditFloor(c, n) PROVE FALSE
    BY <1>4 DEF EditFloor, IInv, Kinds
  <1>5. CASE AdvanceTime
    BY <1>5 DEF AdvanceTime, IInv, Kinds
  <1>6. CASE UNCHANGED vars
    BY <1>6 DEF vars, IInv, Kinds
  <1> QED BY <1>1, <1>2, <1>3, <1>4, <1>5, <1>6 DEF Next

\* And its second half: what a unit costs is not earned back by selling it.
LEMMA SpreadStep ==
    ASSUME Margin, IInv, [Next]_vars, NEW x \in Commodities, cargo'[x] > cargo[x],
           \A t \in ToSet(hist[x]) : t.value > 0
    PROVE  funds' + SellPrice(x)' <= funds
  <1>1. ASSUME NEW c \in Commodities, BuyCommodity(c) PROVE funds' + SellPrice(x)' <= funds
    <2>1. /\ position # NoIsland /\ funds' = funds - BuyPrice(c)
          /\ cargo' = [cargo EXCEPT ![c] = @ + 1]
          /\ hist' = [hist EXCEPT ![c] = Traded(@, 1)]
          /\ position' = position /\ floor' = floor
      BY <1>1 DEF BuyCommodity
    <2>2. x = c
      BY <2>1 DEF IInv, Kinds
    <2>3. \A n \in 1..Len(hist[x]) : hist[x][n].value > 0
      BY DEF ToSet, IInv, Kinds
    <2>4. SellPrice(x)' <= BuyPrice(x) /\ SellPrice(x)' \in Int /\ BuyPrice(x) \in Int
      BY <2>1, <2>2, <2>3, BoughtAndSold DEF IInv
    <2>5. funds \in Int
      BY DEF IInv, Kinds
    <2> QED BY <2>1, <2>2, <2>4, <2>5
  <1>2. ASSUME NEW c \in Commodities, SellCommodity(c) PROVE FALSE
    <2>1. cargo' = [cargo EXCEPT ![c] = @ - 1]
      BY <1>2 DEF SellCommodity
    <2> QED BY <2>1 DEF IInv, Kinds
  <1>3. ASSUME NEW i \in Islands, ShowInfoWindow(i) PROVE FALSE
    BY <1>3 DEF ShowInfoWindow, IInv, Kinds
  <1>4. ASSUME NEW c \in Commodities, NEW n \in FloorEdits, EditFloor(c, n) PROVE FALSE
    BY <1>4 DEF EditFloor, IInv, Kinds
  <1>5. CASE AdvanceTime
    BY <1>5 DEF AdvanceTime, IInv, Kinds
  <1>6. CASE UNCHANGED vars
    BY <1>6 DEF vars, IInv, Kinds
  <1> QED BY <1>1, <1>2, <1>3, <1>4, <1>5, <1>6 DEF Next

-----------------------------------------------------------------------------
(* The theorems.                                                            *)

\* Buying, selling and AdvanceTime, with its splice in the middle of the loop,
\* leave a history one entry per place and none of zero.
THEOREM HistoriesAreCanonical == Spec => []HistCanonical
  <1>1. IInv => HistCanonical
    BY DEF IInv
  <1> QED BY <1>1, PagesAreKept, PTL

\* buyCommodity charges what the Buy button shows, sellCommodity pays what the
\* Sell button shows or one more, unless a floor was edited in between.
THEOREM ShownIsCharged == Spec => []ShownPriceHolds
  BY InvShows, PagesAreKept, PTL

\* Whatever buyCommodity and sellCommodity move in the hold they enter in the
\* trade history of that commodity, wherever in the history the place stands.
THEOREM LedgerFollows == Spec => LedgerFollowsCargo
  <1>1. IInv /\ [Next]_vars =>
          [cargo' # cargo =>
             \A c \in Commodities :
                 cargo'[c] - cargo[c] = Net(hist'[c]) - Net(hist[c])]_vars
    BY LedgerStep
  <1> QED BY <1>1, PagesAreKept, PTL DEF Spec, LedgerFollowsCargo

\* Debt comes only from sellCommodity at a place with a negative price, and a
\* unit bought where nothing was sold short is not sold back at a profit.
THEOREM FundsFollow == Margin => (Spec => FundsFollowPrices)
  <1> SUFFICES ASSUME Margin PROVE Spec => FundsFollowPrices
    OBVIOUS
  <1>1. IInv /\ [Next]_vars =>
          [/\ funds >= 0 /\ funds' < 0 =>
                \E c \in Commodities : cargo'[c] < cargo[c] /\ Inflation(hist[c], position) < 0
           /\ \A c \in Commodities :
                /\ cargo'[c] > cargo[c]
                /\ \A t \in ToSet(hist[c]) : t.value > 0
                => funds' + SellPrice(c)' <= funds]_vars
    BY DebtStep, SpreadStep
  <1> QED BY <1>1, PagesAreKept, PTL DEF Spec, FundsFollowPrices
=============================================================================
