-------------------------------- MODULE LuaSort -------------------------------
(* table.sort, insert and remove (src/lua/src/ltablib.c) on a list without   *)
(* holes.  An element is <<key, tag>>; the order compares keys, so elements  *)
(* can be equal without being the same.  The order function is a strict weak *)
(* order and does not fail.  insert is given a position in the list or just  *)
(* behind it; with one further up the code makes a list with holes           *)
(* (ltablib.c:102), and with one below 1 it moves what is not in the list.   *)
(* The variable list is one call as it goes on:                              *)
(* where it is (at), the list before (a) and now (out), and its locals; the  *)
(* stack holds l and u of every auxsort under way.                           *)
EXTENDS Integers, Sequences

CONSTANTS Keys, MaxLen
VARIABLE list

ListConstants == Keys \subseteq Int /\ MaxLen \in Nat

Less(x, y) == x[1] < y[1]
\* set2 after two rawgeti in the other order: the elements change places.
Swap(a, i, j) == [a EXCEPT ![i] = a[j], ![j] = a[i]]

\* The first three elements that auxsort puts in order: a[l] <= a[m] <= a[u].
MedianOfThree(a, l, m, u) ==
    LET b == IF Less(a[u], a[l]) THEN Swap(a, l, u) ELSE a
    IN  IF u - l = 1 THEN b
        ELSE IF Less(b[m], b[l]) THEN Swap(b, m, l)
        ELSE IF Less(b[u], b[m]) THEN Swap(b, m, u) ELSE b

Lists == UNION {[1..n -> Keys] : n \in 0..MaxLen}
Tagged(keys) == [i \in DOMAIN keys |-> <<keys[i], i>>]
New == <<0, 0>>       \* the element inserted
Init == \E keys \in Lists :
           list = [of |-> "list", call |-> "none", at |-> "call", a |-> Tagged(keys), out |-> Tagged(keys),
                   pos |-> 0, stack |-> <<>>, pivot |-> New, i |-> 0, j |-> 0, error |-> FALSE]
At(point) == list.of = "list" /\ list.at = point

Sort == /\ At("call")
        /\ list' = [list EXCEPT !.call = "sort", !.at = "while", !.stack = << <<1, Len(list.a)>> >>]

\* The part that the innermost auxsort sorts.
Lower == list.stack[Len(list.stack)][1]
Upper == list.stack[Len(list.stack)][2]
Outer == SubSeq(list.stack, 1, Len(list.stack) - 1)
Finished(after) == [after EXCEPT !.stack = Outer, !.at = IF Outer = <<>> THEN "done" ELSE "while"]
Median == MedianOfThree(list.out, Lower, (Lower + Upper) \div 2, Upper)
\* There is nothing to sort, or the median of three sorts all there is.
Few == /\ At("while") /\ Upper - Lower <= 2
       /\ list' = Finished(IF Lower >= Upper THEN list ELSE [list EXCEPT !.out = Median])
\* The pivot goes to a[u - 1].
Pivot == /\ At("while") /\ Upper - Lower > 2
         /\ LET out == Swap(Median, (Lower + Upper) \div 2, Upper - 1)
            IN  list' = [list EXCEPT !.out = out, !.pivot = out[Upper - 1], !.at = "up",
                                     !.i = Lower, !.j = Upper - 1]
\* while a[++i] < P
Up ==
    /\ At("up")
    /\ LET i == list.i + 1
       IN  list' = IF Less(list.out[i], list.pivot) THEN [list EXCEPT !.i = i, !.error = @ \/ i > Upper]
                   ELSE [list EXCEPT !.i = i, !.at = "down"]
\* while P < a[--j]
Down ==
    /\ At("down")
    /\ LET j == list.j - 1
       IN  list' = IF Less(list.pivot, list.out[j]) THEN [list EXCEPT !.j = j, !.error = @ \/ j < Lower]
                   ELSE [list EXCEPT !.j = j, !.at = "sides"]
Exchange == /\ At("sides") /\ list.j >= list.i
            /\ list' = [list EXCEPT !.out = Swap(@, list.i, list.j), !.at = "up"]
\* mutant: the left half is always first
HalvesLeft(i) == << <<i + 1, Upper>>, <<Lower, i - 1>> >>
\* The pivot goes between the halves; the smaller one is sorted first.
Halves(i) == IF i - Lower < Upper - i THEN << <<i + 1, Upper>>, <<Lower, i - 1>> >>
             ELSE << <<Lower, i - 1>>, <<i + 1, Upper>> >>
Split == /\ At("sides") /\ list.j < list.i
         /\ list' = [list EXCEPT !.out = Swap(@, Upper - 1, list.i), !.at = "while",
                                 !.stack = Outer \o Halves(list.i)]

\* tinsert: t[i] = t[i-1] for i from e down to pos + 1, then t[pos] = v
Insert == /\ At("call")
          /\ \E pos \in 1..(Len(list.a) + 1) :
                list' = [list EXCEPT !.call = "insert", !.at = "insert", !.pos = pos,
                                     !.out = Append(@, New), !.i = Len(list.a) + 1]
MoveUp == /\ At("insert")
          /\ list' = IF list.i > list.pos
                     THEN [list EXCEPT !.out[list.i] = list.out[list.i - 1], !.i = @ - 1]
                     ELSE [list EXCEPT !.out[list.pos] = New, !.at = "done"]
\* tremove: t[i] = t[i+1] for i from pos to e - 1, then t[e] = nil
Remove == /\ At("call")
          /\ \E pos \in 0..(Len(list.a) + 1) :
                list' = [list EXCEPT !.call = "remove", !.pos = pos, !.i = pos,
                                     !.at = IF 1 <= pos /\ pos <= Len(list.a) THEN "remove" ELSE "done"]
MoveDown == /\ At("remove")
            /\ list' = IF list.i < Len(list.out)
                       THEN [list EXCEPT !.out[list.i] = list.out[list.i + 1], !.i = @ + 1]
                       ELSE [list EXCEPT !.out = SubSeq(@, 1, Len(@) - 1), !.at = "done"]

Next == \/ Sort \/ Few \/ Pivot \/ Up \/ Down \/ Exchange \/ Split
        \/ Insert \/ MoveUp \/ Remove \/ MoveDown
Spec == Init /\ [][Next]_list

-----------------------------------------------------------------------------
Pow2[n \in Nat] == IF n = 0 THEN 1 ELSE 2 * Pow2[n - 1]

\* sort leaves the same elements in order, whatever elements are equal and
\* wherever the pivots fall; its scans end inside the part they sort, without
\* the error of an invalid order function; and since the smaller half goes
\* first, the calls nest no deeper than the logarithm of the length, as the
\* room it asks for assumes (auxsort, sort; "assume array is smaller than
\* 2^40").  insert and remove keep the other elements in their order (tinsert,
\* tremove).
ListsKept ==
    list.of = "list" =>
        LET a == list.a
            out == list.out
        IN  /\ list.call = "sort" =>
                  /\ Len(out) = Len(a) /\ \A i \in DOMAIN a : \E j \in DOMAIN out : out[j] = a[i]
                  /\ ~list.error
                  /\ list.at = "up" => Lower <= list.i /\ list.i < Upper
                  /\ list.at = "down" => Lower < list.j /\ list.j <= Upper
                  /\ a # <<>> /\ list.stack # <<>> => Pow2[Len(list.stack)] <= Len(a) + 1
                  /\ list.at = "done" => \A i, j \in DOMAIN out : i < j => ~Less(out[j], out[i])
            /\ list.call = "insert" /\ list.at = "done" =>
                  out = SubSeq(a, 1, list.pos - 1) \o <<New>> \o SubSeq(a, list.pos, Len(a))
            /\ list.call = "remove" /\ list.at = "done" =>
                  out = IF list.pos \in DOMAIN a
                        THEN SubSeq(a, 1, list.pos - 1) \o SubSeq(a, list.pos + 1, Len(a)) ELSE a
===============================================================================
