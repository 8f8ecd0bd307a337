------------------------------- MODULE LuaTable -------------------------------
(* Tables, src/lua/src/ltable.c: an array part and a hash part of chained    *)
(* nodes with open addressing (Brent's variation), resized together.         *)
(*                                                                           *)
(* A key is <<"int", n>>, <<"str", hash, id>> or <<"obj", address>>; the     *)
(* value stored under a key is the key itself, or Nil, so that an entry that *)
(* is read where another was written shows.  A slot is a position of the     *)
(* array, or of the hash part behind it, from 1; 0 is none.  The hash part   *)
(* of an empty table is the shared dummy node.                               *)
(*                                                                           *)
(* cursor is the last key of a traversal by next, and left what it has yet to *)
(* visit; map is what the program reads from the table.                      *)
EXTENDS Integers, Sequences, FiniteSets

CONSTANTS Key,         \* the keys the program uses
          MaxInt,      \* stands for MAX_INT, at least the largest integer key
          Sizes,       \* sizes luaH_new may be asked for
          Lasts        \* ends of the lists OP_SETLIST stores

VARIABLES table, map, cursor, left
vars == <<table, map, cursor, left>>

Nil == <<"nil">>
Numeral(n) == <<"int", n>>
IsInt(k) == k[1] = "int"
Dead(k) == <<"dead", k>>
Collectable(k) == k[1] \in {"str", "obj"}
NoNode == [key |-> Nil, val |-> Nil, next |-> 0]
NoTraversal == {<<"none">>}
Finished == {<<"end">>}
Astray == {Nil}  \* the traversal came to a key it should not, or to an error

\* What the keys, the sizes and the lists may be.
TableConstants ==
    /\ MaxInt \in Nat /\ Sizes \subseteq Nat
    /\ \A k \in Key : \/ IsInt(k) /\ k[2] \in 0..MaxInt /\ k = Numeral(k[2])
                      \/ Collectable(k) /\ k[2] \in Nat
    /\ \A last \in Lasts : last \in Nat /\ \A n \in 1..last : Numeral(n) \in Key

\* 2^n, and the least x with 2^x >= n, n > 0.
Pow2[n \in Nat] == IF n = 0 THEN 1 ELSE 2 * Pow2[n - 1]
CeilLog2(n) == CHOOSE x \in 0..n : Pow2[x] >= n /\ (x = 0 \/ Pow2[x - 1] < n)

-----------------------------------------------------------------------------
(* Positions and searches.                                                   *)

\* An integer as a double: the high word has the exponent and the first bits of
\* the fraction; the low word, zero up to 2^21, is left out.
DoubleWords(n) == LET e == CHOOSE x \in 0..n : Pow2[x] <= n /\ n < Pow2[x + 1]
                  IN  (1023 + e) * Pow2[20] + ((n - Pow2[e]) * Pow2[20]) \div Pow2[e]
HashMod(t, h) == 1 + (h % (IF Len(t.node) = 1 THEN 1 ELSE Len(t.node) - 1))
HashPow2(t, h) == 1 + (h % Len(t.node))
MainPosition(t, k) ==
    CASE IsInt(k) -> IF k[2] <= 0 THEN 1 ELSE HashMod(t, DoubleWords(k[2]))
      [] k[1] = "str" -> HashPow2(t, k[2])
      [] k[1] = "obj" -> HashMod(t, k[2])

\* The first of the nodes S from p on, along next, or 0.
Along(t, p, S) ==
    LET first[i \in 0..Len(t.node)] == IF i = 0 \/ i \in S THEN i ELSE first[t.node[i].next]
    IN  first[p]
Holding(t, keys) == {i \in 1..Len(t.node) : t.node[i].key \in keys}
FirstOf(t, k, keys) ==
    LET i == Along(t, MainPosition(t, k), Holding(t, keys))
    IN  IF i = 0 THEN 0 ELSE Len(t.array) + i
InArray(t, k) == IsInt(k) /\ k[2] \in 1..Len(t.array)

\* luaH_get and its variants for numbers and strings.
Slot(t, k) == IF InArray(t, k) THEN k[2] ELSE FirstOf(t, k, {k})
\* mutant: a key the collector has made dead is not found
FindIndexLive(t, k) == IF InArray(t, k) THEN k[2] ELSE FirstOf(t, k, {k})
\* findindex takes dead keys too.
FindIndex(t, k) == IF InArray(t, k) THEN k[2] ELSE FirstOf(t, k, {k, Dead(k)})

Slots(t) == 1..(Len(t.array) + Len(t.node))
Val(t, s) == IF s <= Len(t.array) THEN t.array[s] ELSE t.node[s - Len(t.array)].val
KeyAt(t, s) == IF s <= Len(t.array) THEN Numeral(s) ELSE t.node[s - Len(t.array)].key
SetVal(t, s, v) == IF s <= Len(t.array) THEN [t EXCEPT !.array[s] = v]
                   ELSE [t EXCEPT !.node[s - Len(t.array)].val = v]
Get(t, k) == LET s == Slot(t, k) IN IF s = 0 THEN Nil ELSE Val(t, s)

-----------------------------------------------------------------------------
(* Insertion.                                                                *)

\* getfreepos moves lastfree down to a node that never had a key.
GetFreePos(t) == LET free == {i \in 1..(t.lastfree - 1) : t.node[i].key = Nil}
                 IN  IF free = {} THEN 0 ELSE CHOOSE i \in free : \A j \in free : j <= i
Previous(t, p, mp) == Along(t, p, {i \in 1..Len(t.node) : t.node[i].next = mp})

\* newkey when it finds a place: its new node is the slot, or slot is 0.
Place(t, k) ==
    LET mp == MainPosition(t, k)
        n == GetFreePos(t)
        othern == MainPosition(t, t.node[mp].key)
        key(u, p) == [t |-> [u EXCEPT !.node[p].key = k], slot |-> Len(u.array) + p]
        taken == [t EXCEPT !.lastfree = n]
    IN  CASE t.node[mp].val = Nil /\ ~t.dummy -> key(t, mp)
          [] (t.node[mp].val # Nil \/ t.dummy) /\ n = 0 -> [t |-> t, slot |-> 0]
          [] t.node[mp].val # Nil /\ n # 0 /\ othern # mp ->
               key([taken EXCEPT !.node[Previous(t, othern, mp)].next = n,
                                 !.node[n] = t.node[mp],
                                 !.node[mp] = NoNode], mp)
          [] OTHER -> key([taken EXCEPT !.node[n].next = t.node[mp].next, !.node[mp].next = n], n)

\* luaH_set while resizing: a table with no room would be rehashed again.
Reinsert(t, k, v) ==
    LET s == Slot(t, k)
        p == IF s # 0 THEN [t |-> t, slot |-> s] ELSE Place(t, k)
    IN  IF p.slot = 0 THEN [t EXCEPT !.nested = TRUE] ELSE SetVal(p.t, p.slot, v)

SetNodeVector(t, size) ==
    [t EXCEPT !.node = [i \in 1..(IF size = 0 THEN 1 ELSE Pow2[CeilLog2(size)]) |-> NoNode],
              !.lastfree = IF size = 0 THEN 1 ELSE Pow2[CeilLog2(size)] + 1,
              !.dummy = size = 0]
SetArrayVector(t, size) ==
    [t EXCEPT !.array = [i \in 1..size |-> IF i <= Len(@) THEN @[i] ELSE Nil]]

\* The elements of a vanishing slice and the old hash part are inserted again,
\* the hash part from its last node down.
Resize(t, nasize, nhsize) ==
    LET a == Len(t.array)
        c == a + Len(t.node)
        slot(n) == IF n <= a THEN n ELSE c - (n - a) + 1
        fill[n \in 0..c] ==
            LET s == slot(n)
            IN  CASE n = 0 -> SetNodeVector(SetArrayVector(t, nasize), nhsize)
                  [] n > 0 /\ (s > nasize \/ s > a) /\ Val(t, s) # Nil ->
                       Reinsert(fill[n - 1], KeyAt(t, s), Val(t, s))
                  [] OTHER -> fill[n - 1]
    IN  fill[c]

\* numusearray and numusehash: the integer keys that have a value.
IntKeys(t) == {KeyAt(t, s)[2] : s \in {x \in Slots(t) : Val(t, x) # Nil /\ IsInt(KeyAt(t, x))
                                                       /\ KeyAt(t, x)[2] > 0}}
\* computesizes: the largest power of two more than half of which is in use,
\* and how many of the integers ints it takes.
ComputeSizes(ints) ==
    LET n == Cardinality(ints)
        upto(i) == {k \in ints : k <= Pow2[i]}
        slice(i) == {k \in upto(i) : i = 0 \/ k > Pow2[i - 1]}
        good == {i \in 0..n : /\ Pow2[i] \div 2 < n /\ slice(i) # {}
                              /\ Cardinality(upto(i)) > Pow2[i] \div 2}
    IN  IF good = {} THEN [size |-> 0, inside |-> 0]
        ELSE LET i == CHOOSE x \in good : \A y \in good : y <= x
             IN  [size |-> Pow2[i], inside |-> Cardinality(upto(i))]
\* mutant: the key to be inserted is not counted
RehashForgetful(t, ek) ==
    LET total == Cardinality({s \in Slots(t) : Val(t, s) # Nil})
        c == ComputeSizes(IntKeys(t))
    IN  Resize(t, c.size, total - c.inside)
\* rehash counts the key to be inserted once.
Rehash(t, ek) ==
    LET total == Cardinality({s \in Slots(t) : Val(t, s) # Nil}) + 1
        c == ComputeSizes(IntKeys(t) \cup (IF IsInt(ek) /\ ek[2] > 0 THEN {ek[2]} ELSE {}))
    IN  Resize(t, c.size, total - c.inside)

\* luaH_set and the assignment that follows it.
Set(t, k, v) ==
    LET s == Slot(t, k)
        p == Place(t, k)
    IN  CASE s # 0 -> SetVal(t, s, v)
          [] s = 0 /\ p.slot # 0 -> SetVal(p.t, p.slot, v)
          [] OTHER -> Reinsert(Rehash(t, k), k, v)

-----------------------------------------------------------------------------
(* Traversal and length.                                                     *)

\* luaH_next: the slot after the key's; 0 at the end, -1 if the key is invalid.
NextSlot(t, k) ==
    LET i == IF k = Nil THEN 0 ELSE FindIndex(t, k)
        after == {s \in Slots(t) : s > i /\ Val(t, s) # Nil}
    IN  CASE k # Nil /\ i = 0 -> -1
          [] after = {} -> 0
          [] OTHER -> CHOOSE s \in after : \A x \in after : s <= x

Present(t, n) == Get(t, Numeral(n)) # Nil
\* The binary search of luaH_getn and unbound_search between i, present or 0,
\* and j, absent.
Between(t, lo, hi) ==
    LET at[n \in 0..hi] ==
            LET b == at[n - 1]
                m == (b.i + b.j) \div 2
            IN  CASE n = 0 -> [i |-> lo, j |-> hi]
                  [] n > 0 /\ b.j - b.i > 1 /\ Present(t, m) -> [b EXCEPT !.i = m]
                  [] n > 0 /\ b.j - b.i > 1 /\ ~Present(t, m) -> [b EXCEPT !.j = m]
                  [] OTHER -> b
    IN  at[hi].i
\* The linear search from 1.
FirstBoundary(t) ==
    CHOOSE i \in 0..MaxInt : ~Present(t, i + 1) /\ \A n \in 1..i : Present(t, n)
\* unbound_search doubles until it finds an absent index or, when that overflows,
\* tries every index.
UnboundSearch(t, start) ==
    LET at[n \in 0..MaxInt] ==
            LET b == at[n - 1]
            IN  CASE n = 0 -> [i |-> start, j |-> start + 1]
                  [] n > 0 /\ b.j <= MaxInt /\ Present(t, b.j) -> [i |-> b.j, j |-> 2 * b.j]
                  [] OTHER -> b
        b == at[MaxInt]
    IN  IF b.i > start /\ b.j > MaxInt THEN FirstBoundary(t) ELSE Between(t, b.i, b.j)
\* mutant: an array that is full is taken to be all there is
GetnArray(t) ==
    LET j == Len(t.array)
    IN  CASE j > 0 /\ t.array[j] = Nil -> Between(t, 0, j)
          [] j > 0 /\ t.array[j] # Nil -> j
          [] OTHER -> UnboundSearch(t, j)
\* luaH_getn
Getn(t) ==
    LET j == Len(t.array)
    IN  CASE j > 0 /\ t.array[j] = Nil -> Between(t, 0, j)
          [] (j = 0 \/ t.array[j] # Nil) /\ t.dummy -> j
          [] OTHER -> UnboundSearch(t, j)

-----------------------------------------------------------------------------
(* The program uses one table.                                               *)

New(narray, nhash) ==
    SetNodeVector([array |-> [i \in 1..narray |-> Nil], node |-> <<NoNode>>, lastfree |-> 1,
                   dummy |-> TRUE, nested |-> FALSE], nhash)
Contents(t) == LET keys == {k \in Key : Get(t, k) # Nil} IN [k \in keys |-> Get(t, k)]
Becomes(t) == table' = t /\ map' = Contents(t)
Init == /\ \E a \in Sizes, h \in Sizes : table = New(a, h)
        /\ cursor = Nil /\ left = NoTraversal /\ map = Contents(table)

Traversing == left \notin {NoTraversal, Finished}
Abandon == cursor' = Nil /\ left' = NoTraversal

\* lua_settable, OP_SETTABLE.  A traversal goes on if the key was there.
Store(k) ==
    /\ Becomes(Set(table, k, k))
    /\ IF Traversing /\ k \in DOMAIN map THEN UNCHANGED <<cursor, left>> ELSE Abandon
Erase(k) ==
    /\ Becomes(Set(table, k, Nil))
    /\ IF Traversing /\ k \in DOMAIN map
       THEN left' = left \ {k} /\ UNCHANGED cursor ELSE Abandon

\* OP_SETLIST makes room for the whole list first, in the array.
SetList(last) ==
    /\ LET room == IF last > Len(table.array)
                   THEN Resize(table, last, IF table.dummy THEN 0 ELSE Len(table.node)) ELSE table
           set[n \in 0..last] == IF n = 0 THEN room ELSE LET k == Numeral(last - n + 1)
                                                         IN  Set(set[n - 1], k, k)
       IN  Becomes(set[last])
    /\ Abandon

\* lua_next gives the program the next key with its value.
NextKey ==
    LET s == NextSlot(table, cursor)
        k == KeyAt(table, s)
        due == IF Traversing THEN left ELSE DOMAIN map
    IN  /\ \/ s > 0 /\ cursor' = k /\ left' = (IF k \in due THEN due \ {k} ELSE Astray)
           \/ s = 0 /\ cursor' = Nil /\ left' = Finished
           \/ s = -1 /\ cursor' = Nil /\ left' = Astray
        /\ UNCHANGED <<table, map>>

\* The collector passes over the table (lgc.c): keys of empty nodes become
\* dead, and a weak table may lose an entry whose key or value was collected.
Emptied(t, k) == [t EXCEPT !.array = [i \in DOMAIN @ |-> IF Numeral(i) = k THEN Nil ELSE @[i]],
                           !.node = [i \in DOMAIN @ |-> IF @[i].key = k
                                         THEN [@[i] EXCEPT !.val = Nil] ELSE @[i]]]
RemoveEntry(n) == IF n.val = Nil /\ Collectable(n.key) THEN [n EXCEPT !.key = Dead(@)] ELSE n
RemoveEntries(t) == [t EXCEPT !.node = [i \in DOMAIN @ |-> RemoveEntry(@[i])]]
Collect(k) ==
    /\ Becomes(RemoveEntries(Emptied(table, k)))
    /\ left' = IF Traversing THEN left \ {k} ELSE NoTraversal
    /\ UNCHANGED cursor

Next == \/ \E k \in Key : Store(k) \/ Erase(k)
        \/ \E last \in Lasts : SetList(last)
        \/ NextKey
        \/ \E k \in {Nil} \cup (Key \ {cursor}) : Collect(k)
Spec == Init /\ [][Next]_vars

-----------------------------------------------------------------------------
(* What must hold.                                                           *)

\* The table is a map whatever collisions, moves and rehashes there are, and a
\* traversal meets every remaining key once though entries are erased and
\* collected on the way, as the manual promises of luaH_next.
Promise == INSTANCE TableMap
ImplementsMap == Promise!Spec

\* The length is a boundary: no value, or one before it, and none after it
\* (reference manual of Lua, the length operator).
LenIsBoundary == LET n == Getn(table) IN (n = 0 \/ Present(table, n)) /\ ~Present(table, n + 1)

\* Rehashing makes room for the key it is called for, and resizing for all that
\* was in the table: inserting again never rehashes in turn.
RehashLeavesRoom == ~table.nested

===============================================================================
