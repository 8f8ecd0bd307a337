------------------------------ MODULE LuaBuffer -------------------------------
(* The string buffer of the auxiliary library (src/lua/src/lauxlib.c,        *)
(* luaL_Buffer), as string.gsub, table.concat or io.read fill it.            *)
(*                                                                           *)
(* Characters are numbered in the order they are added.  The variable buffer *)
(* holds the piece still in the C array (buff), the strings that lie on the  *)
(* Lua stack (stack, first to last), their count as the code keeps it (lvl), *)
(* and how many characters were added (n).                                   *)
EXTENDS Integers, Sequences

CONSTANTS BufferSize,   \* LUAL_BUFFERSIZE
          Limit,        \* LIMIT
          Lengths,      \* of the strings added
          MaxText       \* bounds n
VARIABLE buffer

\* There is room for a character, and for one string beside another.
BufferConstants == /\ BufferSize \in Nat \ {0} /\ Limit \in Nat \ {0, 1}
                   /\ Lengths \subseteq Nat /\ MaxText \in Nat

Fresh(b, k) == [i \in 1..k |-> b.n + i]
\* lua_concat of all of a sequence of strings
Concat(pieces) ==
    LET upto[n \in 0..Len(pieces)] == IF n = 0 THEN <<>> ELSE upto[n - 1] \o pieces[n]
    IN  upto[Len(pieces)]
Last(s, k) == SubSeq(s, Len(s) - k + 1, Len(s))

EmptyBuffer(b) == IF b.buff = <<>> THEN b
                  ELSE [b EXCEPT !.stack = Append(@, b.buff), !.buff = <<>>, !.lvl = @ + 1]

\* The loop of adjuststack ends with toget strings: these are all, or there is
\* room for them and they are no longer than the one below.
Enough(b, toget) ==
    \/ toget >= b.lvl
    \/ /\ b.lvl - toget + 1 < Limit
       /\ Len(Concat(Last(b.stack, toget))) <= Len(b.stack[Len(b.stack) - toget])
ToGet(b) == CHOOSE g \in 1..b.lvl : Enough(b, g) /\ \A h \in 1..(g - 1) : ~Enough(b, h)
\* mutant: strings are only joined when the new one is longer
AdjustStackLazily(b) ==
    LET top == b.stack[Len(b.stack)]
        below == b.stack[Len(b.stack) - 1]
    IN  IF b.lvl <= 1 \/ Len(top) <= Len(below) THEN b
        ELSE [b EXCEPT !.stack = Append(SubSeq(@, 1, Len(@) - 2), below \o top), !.lvl = @ - 1]
AdjustStack(b) ==
    LET toget == ToGet(b)
    IN  IF b.lvl <= 1 THEN b
        ELSE [b EXCEPT !.stack = Append(SubSeq(@, 1, Len(@) - toget), Concat(Last(@, toget))),
                       !.lvl = @ - toget + 1]
\* luaL_prepbuffer; the top of the stack is the buffer's last string.
PrepBuffer(b) == IF b.buff = <<>> THEN b ELSE AdjustStack(EmptyBuffer(b))

\* luaL_addchar
AddChar(b) ==
    LET room == IF Len(b.buff) < BufferSize THEN b ELSE PrepBuffer(b)
    IN  [room EXCEPT !.buff = Append(@, room.n + 1), !.n = @ + 1]
\* luaL_addlstring, a luaL_addchar for each of the k characters.
AddLString(b, k) ==
    LET add[m \in 0..k] == IF m = 0 THEN b ELSE AddChar(add[m - 1])
    IN  add[k]
\* luaL_addvalue of a string of k characters, which lies on top of the stack.
AddValue(b, k) ==
    LET flushed == EmptyBuffer(b)
    IN  IF k <= BufferSize - Len(b.buff)
        THEN [b EXCEPT !.buff = @ \o Fresh(b, k), !.n = @ + k]
        ELSE AdjustStack([flushed EXCEPT !.stack = Append(@, Fresh(b, k)), !.lvl = @ + 1, !.n = @ + k])
\* luaL_prepbuffer, k characters written into the array, and luaL_addsize.
Fill(b, k) == LET p == PrepBuffer(b) IN [p EXCEPT !.buff = @ \o Fresh(b, k), !.n = @ + k]
PushResult(b) ==
    LET e == EmptyBuffer(b)
    IN  [e EXCEPT !.stack = << Concat(@) >>, !.lvl = 1, !.done = TRUE]

Init == buffer = [of |-> "buffer", stack |-> <<>>, buff |-> <<>>, lvl |-> 0, n |-> 0, done |-> FALSE]
Adding == buffer.of = "buffer" /\ ~buffer.done
Room(k) == buffer.n + k <= MaxText
Next == Adding /\ \/ \E k \in Lengths : Room(k) /\ buffer' = AddLString(buffer, k)
                  \/ \E k \in Lengths : Room(k) /\ buffer' = AddValue(buffer, k)
                  \/ \E k \in 1..BufferSize : Room(k) /\ buffer' = Fill(buffer, k)
                  \/ buffer' = PushResult(buffer)
Spec == Init /\ [][Next]_buffer

-----------------------------------------------------------------------------
\* Whatever mixture of characters, strings and filled arrays was added, the
\* strings on the stack and the array together are the text in its order, the
\* array never overflows, and fewer than Limit stack slots are in use
\* (emptybuffer, adjuststack, luaL_addvalue); the result is one string.
BufferHoldsText ==
    buffer.of = "buffer" =>
        /\ Concat(buffer.stack) \o buffer.buff = [i \in 1..buffer.n |-> i]
        /\ buffer.lvl = Len(buffer.stack) /\ buffer.lvl < Limit
        /\ Len(buffer.buff) <= BufferSize
        /\ buffer.done => Len(buffer.stack) = 1 /\ buffer.buff = <<>>
===============================================================================
