-------------------------------- MODULE LuaLex --------------------------------
(* The lexer (src/lua/src/llex.c): luaX_next and luaX_lookahead over a source *)
(* text that the reader delivers in chunks.                                  *)
(*                                                                           *)
(* A character is a one-character string; Letters stands for letters and _,  *)
(* Digits for the decimal digits.  A token is <<kind, value>>: "name",       *)
(* "reserved", "number", "string", "eos", "error", or "symbol" with the text *)
(* of the symbol.  The value of a number is its text.  No text holds \0.     *)
(* The variable lexer is the LexState with the tokens the parser has taken.  *)
EXTENDS LuaStream, FiniteSets, TLC

CONSTANTS Texts,        \* source texts, as sequences of chunks
          Letters, Digits, Reserved
VARIABLE lexer

Newline == {"\n", "\r"}
Space == {" ", "\t"}
Alnum == Letters \cup Digits
Symbols == {<<"-">>, <<"=">>, <<"=", "=">>, <<"<">>, <<"<", "=">>, <<">">>, <<">", "=">>, <<"~">>,
            <<"~", "=">>, <<".">>, <<".", ".">>, <<".", ".", ".">>, <<"[">>, <<"]">>, <<"+">>, <<"(">>, <<"\\">>}
NoToken == <<"none", <<>> >>
Error == <<"error", <<>> >>
DigitValue(c) == CHOOSE k \in 0..9 : ToString(k) = c
\* The character an escape \abc stands for, if it is one at all.
Chr(code) == "\\" \o ToString(code)

-----------------------------------------------------------------------------
(* The LexState: stream, current character, line, and the buffer.            *)

NextChar(ls) == LET g == Zgetc(ls.z) IN [ls EXCEPT !.current = g.c, !.z = g.z]
Save(ls, c) == [ls EXCEPT !.buff = Append(@, c)]
SaveAndNext(ls) == NextChar(Save(ls, ls.current))
ResetBuffer(ls) == [ls EXCEPT !.buff = <<>>]
CheckNext(ls, S) == IF ls.current \in S THEN SaveAndNext(ls) ELSE ls
RECURSIVE SaveWhile(_, _)
SaveWhile(ls, S) == IF ls.current \in S THEN SaveWhile(SaveAndNext(ls), S) ELSE ls

\* inclinenumber: \n\r and \r\n are one line break.
Break(old, a) == [IF a.current \in Newline /\ a.current # old THEN NextChar(a) ELSE a
                    EXCEPT !.line = @ + 1]
Inclinenumber(ls) == Break(ls.current, NextChar(ls))

Setinput(chunks) ==
    NextChar([z |-> Stream(chunks), current |-> EOZ, line |-> 1, buff |-> <<>>])

\* What llex returns: the state and the token.
Result(ls, kind, value) == [ls |-> ls, token |-> <<kind, value>>]
Lexerror(ls) == Result(ls, "error", <<>>)
Symbol(ls, s) == Result(ls, "symbol", s)

\* luaO_str2d accepts digits with at most one point and a whole exponent.
Str2d(text) ==
    LET mantissas == {k \in 1..Len(text) : \A i \in 1..k : text[i] \in Digits \cup {"."}}
        k == CHOOSE m \in mantissas : \A n \in mantissas : n <= m
        points == Cardinality({i \in 1..k : text[i] = "."})
        signed == IF k + 2 <= Len(text) /\ text[k + 2] \in {"+", "-"} THEN k + 2 ELSE k + 1
    IN  /\ mantissas # {} /\ points <= 1 /\ k > points
        /\ \/ k = Len(text)
           \/ /\ text[k + 1] = "e" /\ signed < Len(text)
              /\ \A i \in (signed + 1)..Len(text) : text[i] \in Digits
Exponent(a, b) == IF b # a THEN CheckNext(b, {"+", "-"}) ELSE b
Mantissa(a) == SaveWhile(Exponent(a, CheckNext(a, {"e"})), Alnum)
Numeral(d) == IF Str2d(d.buff) THEN Result(d, "number", d.buff) ELSE Lexerror(d)
ReadNumeral(ls) == Numeral(Mantissa(SaveWhile(SaveAndNext(ls), Digits \cup {"."})))

\* skip_sep: the level of a long bracket, negative when it is none.
Level(c, count, b) == [ls |-> b, sep |-> IF b.current = c THEN count ELSE (-count) - 1]
LevelFrom(c, a, b) == Level(c, Len(b.buff) - Len(a.buff), b)
Separator(c, a) == LevelFrom(c, a, SaveWhile(a, {"="}))
SkipSep(ls) == Separator(ls.current, SaveAndNext(ls))

RECURSIVE LongLoop(_, _, _)
\* The loop of read_long_string; a comment's text is not kept.
LongBracket(c, s, sep, kept) ==
    IF s.sep # sep THEN LongLoop(s.ls, sep, kept)
    ELSE IF c = "]" THEN Result(SaveAndNext(s.ls), "string", <<>>)
    ELSE IF sep = 0 THEN Lexerror(SaveAndNext(s.ls))
    ELSE LongLoop(SaveAndNext(s.ls), sep, kept)
LongBreak(n, kept) == IF kept THEN n ELSE ResetBuffer(n)
LongLoop(ls, sep, kept) ==
    CASE ls.current = EOZ -> Lexerror(ls)
      [] ls.current \in {"[", "]"} -> LongBracket(ls.current, SkipSep(ls), sep, kept)
      [] ls.current \in Newline -> LongLoop(LongBreak(Inclinenumber(Save(ls, "\n")), kept), sep, kept)
      [] OTHER -> LongLoop(IF kept THEN SaveAndNext(ls) ELSE NextChar(ls), sep, kept)
FirstBreak(a) == IF a.current \in Newline THEN Inclinenumber(a) ELSE a
LongText(r, sep, kept) ==
    LET buff == r.ls.buff
    IN  IF r.token = Error THEN r
        ELSE Result(r.ls, "string", IF kept THEN SubSeq(buff, 3 + sep, Len(buff) - (2 + sep)) ELSE <<>>)
ReadLongString(ls, sep, kept) ==
    LongText(LongLoop(FirstBreak(SaveAndNext(ls)), sep, kept), sep, kept)

RECURSIVE DecimalEscape(_, _, _)
\* \xxx: at most three digits; result is the state and the code.
DecimalEscape(ls, i, code) ==
    IF i = 3 \/ (i > 0 /\ ls.current \notin Digits) THEN [ls |-> ls, code |-> code]
    ELSE DecimalEscape(NextChar(ls), i + 1, 10 * code + DigitValue(ls.current))
RECURSIVE StringLoop(_, _)
\* The loop of read_string up to the delimiter del; e is after a backslash.
Decimal(d, del) == IF d.code > 255 THEN Lexerror(d.ls) ELSE StringLoop(Save(d.ls, Chr(d.code)), del)
Escape(e, del) ==
    CASE e.current = "n" -> StringLoop(NextChar(Save(e, "\n")), del)
      [] e.current \in Newline -> StringLoop(Inclinenumber(Save(e, "\n")), del)
      [] e.current = EOZ -> StringLoop(e, del)
      [] e.current \in Digits -> Decimal(DecimalEscape(e, 0, 0), del)
      [] OTHER -> StringLoop(SaveAndNext(e), del)
StringLoop(ls, del) ==
    CASE ls.current = del -> Result(SaveAndNext(ls), "string", <<>>)
      [] ls.current \in {EOZ} \cup Newline -> Lexerror(ls)
      [] ls.current = "\\" -> Escape(NextChar(ls), del)
      [] OTHER -> StringLoop(SaveAndNext(ls), del)
Quoted(r) == IF r.token = Error THEN r
             ELSE Result(r.ls, "string", SubSeq(r.ls.buff, 2, Len(r.ls.buff) - 1))
ReadString(ls) == Quoted(StringLoop(SaveAndNext(ls), ls.current))

RECURSIVE SkipLine(_)
SkipLine(ls) == IF ls.current \in Newline \cup {EOZ} THEN ls ELSE SkipLine(NextChar(ls))
\* After --: a long comment, or the rest of the line.
CommentFrom(s) ==
    IF s.sep >= 0 THEN ReadLongString(ResetBuffer(s.ls), s.sep, FALSE)
    ELSE Result(SkipLine(s.ls), "comment", <<>>)
Comment(ls) == IF ls.current # "[" THEN Result(SkipLine(ls), "comment", <<>>)
               ELSE CommentFrom(SkipSep(ls))
\* A symbol c that c= extends.
OrEqual(c, a) == IF a.current = "=" THEN Symbol(NextChar(a), <<c, "=">>) ELSE Symbol(a, <<c>>)
MoreDots(a, b) == IF b = a THEN Symbol(a, <<".">>) ELSE Symbol(b, b.buff)
Dots(a) == IF a.current \in Digits THEN ReadNumeral(a)
           ELSE MoreDots(a, CheckNext(CheckNext(a, {"."}), {"."}))
Name(a) == Result(a, IF a.buff \in Reserved THEN "reserved" ELSE "name", a.buff)
LongOpen(s) == IF s.sep >= 0 THEN ReadLongString(s.ls, s.sep, TRUE)
               ELSE IF s.sep = -1 THEN Symbol(s.ls, <<"[">>) ELSE Lexerror(s.ls)

RECURSIVE LexLoop(_)
AfterComment(r) == IF r.token = Error THEN r ELSE LexLoop(ResetBuffer(r.ls))
Dash(a) == IF a.current # "-" THEN Symbol(a, <<"-">>) ELSE AfterComment(Comment(NextChar(a)))
LexLoop(ls) ==
    LET c == ls.current
    IN  CASE c \in Newline -> LexLoop(Inclinenumber(ls))
          [] c \in Space -> LexLoop(NextChar(ls))
          [] c = "-" -> Dash(NextChar(ls))
          [] c = "[" -> LongOpen(SkipSep(ls))
          [] c \in {"=", "<", ">", "~"} -> OrEqual(c, NextChar(ls))
          [] c \in {"'", "\""} -> ReadString(ls)
          [] c = "." -> Dots(SaveAndNext(ls))
          [] c = EOZ -> Result(ls, "eos", <<>>)
          [] c \in Digits -> ReadNumeral(ls)
          [] c \in Letters -> Name(SaveWhile(ls, Alnum))
          [] OTHER -> Symbol(NextChar(ls), <<c>>)
Llex(ls) == LexLoop(ResetBuffer(ls))

-----------------------------------------------------------------------------
(* The parser takes tokens, and looks one ahead when it wants to (a table     *)
(* constructor does); it stops at the end and at an error.                   *)

RECURSIVE Joined(_)
Joined(chunks) == IF chunks = <<>> THEN <<>> ELSE Head(chunks) \o Joined(Tail(chunks))
Init == \E chunks \in Texts :
           lexer = [of |-> "lex", text |-> Joined(chunks), ls |-> Setinput(chunks), lastline |-> 1,
                    lookahead |-> NoToken, tokens |-> <<>>]
Ended == \E i \in DOMAIN lexer.tokens : lexer.tokens[i][1] \in {"eos", "error"}
\* luaX_next; a lookahead that is the end is read again.
Advance(r, ahead) ==
    [lexer EXCEPT !.lastline = lexer.ls.line, !.lookahead = NoToken,
                  !.tokens = Append(@, IF ahead THEN lexer.lookahead ELSE r.token),
                  !.ls = IF ahead THEN @ ELSE r.ls]
XNext == /\ ~Ended
         /\ lexer' = Advance(Llex(lexer.ls), lexer.lookahead[1] \notin {"none", "eos"})
\* luaX_lookahead; an error in it ends the parse.
Ahead(r) == [lexer EXCEPT !.lookahead = IF r.token = Error THEN NoToken ELSE r.token,
                          !.tokens = IF r.token = Error THEN Append(@, Error) ELSE @,
                          !.ls = r.ls]
XLookahead == /\ ~Ended /\ lexer.lookahead = NoToken
              /\ lexer' = Ahead(Llex(lexer.ls))
Next == lexer.of = "lex" /\ (XNext \/ XLookahead)
Spec == Init /\ [][Next]_lexer

-----------------------------------------------------------------------------
(* The tokens of a text, from its grammar: at each place the longest lexeme.  *)

All(t, i, j, S) == \A k \in i..j : t[k] \in S
\* t[k] is the second character of a line break; breaks are paired from the left.
RECURSIVE Second(_, _)
Second(t, k) == k > 1 /\ {t[k - 1], t[k]} = Newline /\ ~Second(t, k - 1)
Line(t, j) == 1 + Cardinality({k \in 1..j : t[k] \in Newline /\ ~Second(t, k)})
\* t[i..j] with its line breaks as \n.
Normal(t, i, j) ==
    LET kept == SelectSeq([k \in 1..j |-> k], LAMBDA k : k >= i /\ ~Second(t, k))
    IN  [k \in DOMAIN kept |-> IF t[kept[k]] \in Newline THEN "\n" ELSE t[kept[k]]]

\* The levels of a bracket c that opens, or closes, at i, and where they end.
Bracket(t, i, c) == {l \in 0..(Len(t) - i - 1) :
                        t[i] = c /\ t[i + l + 1] = c /\ All(t, i + 1, i + l, {"="})}
LongEnds(t, i) ==
    LET l == CHOOSE x \in Bracket(t, i, "[") : TRUE
        ends == {k \in (i + l + 2)..(Len(t) - l - 1) : l \in Bracket(t, k, "]")}
    IN  {k + l + 1 : k \in {x \in ends : /\ \A y \in ends : x <= y
                                         /\ l = 0 => \A m \in (i + 2)..x : 0 \notin Bracket(t, m, "[")}}
IsLong(t, i) == t[i] = "[" /\ Bracket(t, i, "[") # {}

RECURSIVE IsEscaped(_, _, _)
IsEscaped(t, i, k) == k > i + 1 /\ t[k - 1] = "\\" /\ ~IsEscaped(t, i, k - 1)
\* The digits of a decimal escape at k.
CodeEnd(t, k) == CHOOSE m \in k..(k + 2) : /\ m <= Len(t) /\ All(t, k, m, Digits)
                                           /\ m = k + 2 \/ m = Len(t) \/ t[m + 1] \notin Digits
RECURSIVE Number(_, _, _)
Number(t, k, m) == IF m < k THEN 0 ELSE 10 * Number(t, k, m - 1) + DigitValue(t[m])
StringEnds(t, i) ==
    LET ends == {j \in (i + 1)..Len(t) : t[j] = t[i] /\ ~IsEscaped(t, i, j)}
    IN  {j \in ends : /\ \A x \in ends : j <= x
                      /\ \A k \in (i + 1)..(j - 1) :
                           /\ t[k] \in Newline => IsEscaped(t, i, k) \/ (Second(t, k) /\ IsEscaped(t, i, k - 1))
                           /\ IsEscaped(t, i, k) /\ t[k] \in Digits => Number(t, k, CodeEnd(t, k)) <= 255}
RECURSIVE Unescaped(_, _, _)
Unescaped(t, k, j) ==
    IF k > j THEN <<>>
    ELSE IF t[k] # "\\" THEN <<t[k]>> \o Unescaped(t, k + 1, j)
    ELSE IF t[k + 1] \in Digits
    THEN <<Chr(Number(t, k + 1, CodeEnd(t, k + 1)))>> \o Unescaped(t, CodeEnd(t, k + 1) + 1, j)
    ELSE IF t[k + 1] \in Newline
    THEN <<"\n">> \o Unescaped(t, IF Second(t, k + 2) THEN k + 3 ELSE k + 2, j)
    ELSE <<IF t[k + 1] = "n" THEN "\n" ELSE t[k + 1]>> \o Unescaped(t, k + 2, j)

IsNumeralRun(t, i, j) ==
    /\ t[i] \in Digits \/ (t[i] = "." /\ i < j /\ t[i + 1] \in Digits)
    /\ \E a \in i..j : /\ All(t, i, a, Digits \cup {"."})
                       /\ \/ All(t, a + 1, j, Alnum)
                          \/ /\ a + 2 <= j /\ t[a + 1] = "e" /\ t[a + 2] \in {"+", "-"}
                             /\ All(t, a + 3, j, Alnum)

\* The lexemes that start at i, as <<their end, their kind>>.
Lexemes(t, i) ==
    LET ends == i..Len(t)
        comment == i < Len(t) /\ t[i] = "-" /\ t[i + 1] = "-"
        long == IsLong(t, i)
    IN  {<<j, "skip">> : j \in {j \in ends : j = i /\ t[i] \in Space \cup Newline}}
        \cup {<<j, "skip">> : j \in IF ~comment THEN {}
                                    ELSE IF i + 2 <= Len(t) /\ IsLong(t, i + 2) THEN LongEnds(t, i + 2)
                                    ELSE {j \in ends : \A k \in i..j : t[k] \notin Newline}}
        \cup {<<j, "name">> : j \in {j \in ends : t[i] \in Letters /\ All(t, i, j, Alnum)}}
        \cup {<<j, "number">> : j \in {j \in ends : IsNumeralRun(t, i, j)}}
        \cup {<<j, "string">> : j \in IF t[i] \in {"'", "\""} THEN StringEnds(t, i) ELSE {}}
        \cup {<<j, "long">> : j \in IF long THEN LongEnds(t, i) ELSE {}}
        \cup {<<j, "symbol">> : j \in {j \in ends : /\ SubSeq(t, i, j) \in Symbols /\ ~comment
                                                    /\ t[i] = "[" => i = Len(t) \/ t[i + 1] \notin {"[", "="}}}
TokenOf(t, i, l) ==
    LET text == SubSeq(t, i, l[1])
        level == CHOOSE x \in Bracket(t, i, "[") : TRUE
        first == i + level + 2
        body == IF t[first] \notin Newline THEN first ELSE IF Second(t, first + 1) THEN first + 2 ELSE first + 1
    IN  CASE l[2] = "name" -> <<IF text \in Reserved THEN "reserved" ELSE "name", text>>
          [] l[2] = "number" -> IF Str2d(text) THEN <<"number", text>> ELSE Error
          [] l[2] = "string" -> <<"string", Unescaped(t, i + 1, l[1] - 1)>>
          [] l[2] = "long" -> <<"string", Normal(t, body, l[1] - level - 2)>>
          [] OTHER -> <<"symbol", text>>
RECURSIVE TokensFrom(_, _)
\* The tokens from i on, each with the line on which it ends.
TokensFrom(t, i) ==
    LET longest == CHOOSE l \in Lexemes(t, i) : \A m \in Lexemes(t, i) : m[1] <= l[1]
        token == TokenOf(t, i, longest)
    IN  IF i > Len(t) THEN << <<"eos", <<>>, Line(t, Len(t))>> >>
        ELSE IF Lexemes(t, i) = {} THEN << Error >>
        ELSE IF longest[2] = "skip" THEN TokensFrom(t, longest[1] + 1)
        ELSE IF token = Error THEN << Error >>
        ELSE << <<token[1], token[2], Line(t, longest[1])>> >> \o TokensFrom(t, longest[1] + 1)

\* However the reader cuts the text and wherever the parser looks ahead, it
\* gets the text's tokens in order, the line is that of the last one read, and
\* nothing is read behind the end of the stream (luaX_next, zgetc).
LexAsWritten ==
    lexer.of = "lex" =>
        LET tokens == TokensFrom(lexer.text, 1)
            read == IF lexer.lookahead = NoToken THEN lexer.tokens
                    ELSE Append(lexer.tokens, lexer.lookahead)
        IN  /\ Len(read) <= Len(tokens)
            /\ \A k \in DOMAIN read : read[k] = <<tokens[k][1], tokens[k][2]>>
            /\ read # <<>> /\ read[Len(read)] # Error => lexer.ls.line = tokens[Len(read)][3]
            /\ lexer.ls.current # Garbage
===============================================================================
