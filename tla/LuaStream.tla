------------------------------- MODULE LuaStream ------------------------------
(* Input streams (src/lua/src/lzio.c and lzio.h).  A stream is               *)
(*   [p |-> what is left of the chunk, n |-> its length, more |-> chunks]     *)
(* where n is the unsigned count of the code: zgetc takes 1 from it even at  *)
(* 0, so when the reader has no more chunks it is left at WRAPPED, and the   *)
(* next character would be read behind the chunk (Garbage).                  *)
EXTENDS Integers, Sequences

EOZ == "<eoz>"
Garbage == "<garbage>"
WRAPPED == -1

Stream(chunks) == [p |-> <<>>, n |-> 0, more |-> chunks]
\* mutant: the character handed out is still counted as unread
FillUncounted(z) ==
    IF z.more = <<>> THEN [c |-> EOZ, z |-> z]
    ELSE LET b == Head(z.more)
         IN  [c |-> b[1], z |-> [p |-> b, n |-> Len(b), more |-> Tail(z.more)]]
\* luaZ_fill: the first character of the next chunk.
Fill(z) ==
    IF z.more = <<>> THEN [c |-> EOZ, z |-> z]
    ELSE LET b == Head(z.more)
         IN  [c |-> b[1], z |-> [p |-> Tail(b), n |-> Len(b) - 1, more |-> Tail(z.more)]]
\* zgetc
Zgetc(z) ==
    IF z.n > 0 THEN [c |-> z.p[1], z |-> [z EXCEPT !.p = Tail(@), !.n = @ - 1]]
    ELSE IF z.n = WRAPPED THEN [c |-> Garbage, z |-> z]
    ELSE Fill([z EXCEPT !.n = WRAPPED])
\* luaZ_lookahead puts the first character back.
PutBack(f) == IF f.c = EOZ THEN f
              ELSE [c |-> f.c, z |-> [f.z EXCEPT !.p = <<f.c>> \o @, !.n = @ + 1]]
Lookahead(z) == IF z.n = 0 THEN PutBack(Fill(z))
                ELSE [c |-> IF z.n > 0 THEN z.p[1] ELSE Garbage, z |-> z]
RECURSIVE Read(_, _)
\* luaZ_read of k characters: those it got, and the stream after them; m of
\* them are in the chunk that the lookahead l is in.
Got(chars, r) == [got |-> chars \o r.got, z |-> r.z]
Take(l, k, m) ==
    IF l.c = EOZ THEN [got |-> <<>>, z |-> l.z]
    ELSE Got(SubSeq(l.z.p, 1, m),
             Read([l.z EXCEPT !.p = SubSeq(@, m + 1, Len(@)), !.n = @ - m], k - m))
TakeFrom(l, k) == Take(l, k, IF k <= l.z.n THEN k ELSE l.z.n)
Read(z, k) == IF k = 0 THEN [got |-> <<>>, z |-> z] ELSE TakeFrom(Lookahead(z), k)
===============================================================================
