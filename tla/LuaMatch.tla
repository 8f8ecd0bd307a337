------------------------------- MODULE LuaMatch -------------------------------
(* Pattern matching of the string library (src/lua/src/lstrlib.c): match with *)
(* its backtracking and captures, find, match, gmatch and gsub.              *)
(*                                                                           *)
(* A subject is a sequence of characters; a position is 1 more than the      *)
(* number of characters before it.  A pattern is a sequence of items:        *)
(*   <<"char", S, rep>>  a character of S; rep is "1", "?", "*", "+" or "-"  *)
(*   <<"(">>, <<"()">>, <<")">>   captures       <<"back", l>>  %l            *)
(*   <<"balance", b, e>>  %bbe    <<"frontier", S>>  %f[S]     <<"$">>        *)
(* which classend and the switch of match take from its text.  Patterns are  *)
(* well formed: captures are closed, and %l comes after capture l.           *)
(* The variable job is one call: its subject, its pattern, its results.      *)
EXTENDS Integers, Sequences, FiniteSets, TLC

CONSTANTS Patterns,       \* the patterns, without their leading ^
          Subjects, Plain, Replacements, Limits
VARIABLE job

FAIL == 0                 \* NULL
CAP_UNFINISHED == -1
CAP_POSITION == -2
Zero == "\\0"             \* the character after the last, and before the first

At(src, s) == IF s \in DOMAIN src THEN src[s] ELSE Zero
\* singlematch, with the bounds test that goes with it
Singlematch(src, s, item) == s <= Len(src) /\ src[s] \in item[2]

-----------------------------------------------------------------------------
(* The matcher.  A result is [e |-> end or FAIL, caps |-> captures].         *)

NoMatch(caps) == [e |-> FAIL, caps |-> caps]
CaptureToClose(caps) ==
    CHOOSE l \in DOMAIN caps : /\ caps[l].len = CAP_UNFINISHED
                               /\ \A m \in DOMAIN caps : caps[m].len = CAP_UNFINISHED => m <= l
CaptureText(src, c) == SubSeq(src, c.init, c.init + c.len - 1)

\* matchbalance: the end of the balanced piece that starts at s, or FAIL.
Matchbalance(src, s, b, e) ==
    LET cont[i \in s..Len(src)] ==
            IF i = s THEN 1
            ELSE IF src[i] = e THEN cont[i - 1] - 1
            ELSE IF src[i] = b THEN cont[i - 1] + 1 ELSE cont[i - 1]
        ends == {i \in (s + 1)..Len(src) : cont[i] = 0}
    IN  IF At(src, s) # b \/ ends = {} THEN FAIL
        ELSE 1 + CHOOSE i \in ends : \A j \in ends : i <= j

RECURSIVE Match(_, _, _, _)
\* mutant: a capture opened on the way to a failure stays
StartCaptureKept(src, s, p, caps, what) == Match(src, s, p, Append(caps, [init |-> s, len |-> what]))
\* start_capture opens a capture, and takes it back when the rest fails.
StartCapture(src, s, p, caps, what) ==
    LET res == Match(src, s, p, Append(caps, [init |-> s, len |-> what]))
    IN  IF res.e = FAIL THEN NoMatch(SubSeq(res.caps, 1, Len(res.caps) - 1)) ELSE res
\* end_capture closes the last open capture, and opens it again on failure.
EndCapture(src, s, p, caps) ==
    LET l == CaptureToClose(caps)
        res == Match(src, s, p, [caps EXCEPT ![l].len = s - caps[l].init])
    IN  IF res.e = FAIL THEN NoMatch([res.caps EXCEPT ![l].len = CAP_UNFINISHED]) ELSE res

Longest(src, s, item) ==
    CHOOSE i \in 0..(Len(src) - s + 1) : /\ \A j \in 0..(i - 1) : Singlematch(src, s + j, item)
                                         /\ ~Singlematch(src, s + i, item)
\* max_expand from s, when the item matches i characters from there.
RECURSIVE MaxExpand(_, _, _, _, _)
MaxExpand(src, s, p, caps, i) ==
    LET res == Match(src, s + i, Tail(p), caps)
    IN  IF res.e # FAIL \/ i = 0 THEN res ELSE MaxExpand(src, s, p, res.caps, i - 1)
RECURSIVE MinExpand(_, _, _, _)
MinExpand(src, s, p, caps) ==
    LET res == Match(src, s, Tail(p), caps)
    IN  IF res.e # FAIL \/ ~Singlematch(src, s, p[1]) THEN res
        ELSE MinExpand(src, s + 1, p, res.caps)

MatchCapture(src, s, l, caps) ==
    LET c == caps[l]
    IN  IF c.len >= 0 /\ Len(src) - s + 1 >= c.len
           /\ SubSeq(src, s, s + c.len - 1) = CaptureText(src, c)
        THEN s + c.len ELSE FAIL

\* The rest of the pattern once an item has ended at s.
Onward(src, s, p, caps) == IF s = FAIL THEN NoMatch(caps) ELSE Match(src, s, Tail(p), caps)

Item(src, s, p, caps) ==
    LET m == Singlematch(src, s, p[1])
    IN  CASE p[1][3] = "?" ->
               LET res == IF m THEN Match(src, s + 1, Tail(p), caps) ELSE NoMatch(caps)
               IN  IF res.e # FAIL THEN res ELSE Match(src, s, Tail(p), res.caps)
          [] p[1][3] = "*" -> MaxExpand(src, s, p, caps, Longest(src, s, p[1]))
          [] p[1][3] = "+" -> IF m THEN MaxExpand(src, s + 1, p, caps, Longest(src, s + 1, p[1]))
                              ELSE NoMatch(caps)
          [] p[1][3] = "-" -> MinExpand(src, s, p, caps)
          [] OTHER -> Onward(src, IF m THEN s + 1 ELSE FAIL, p, caps)

\* The class of the frontier takes the end of the subject for \0.
Frontier(src, s, S) == At(src, s - 1) \notin S /\ At(src, s) \in S

Match(src, s, p, caps) ==
    CASE p = <<>> -> [e |-> s, caps |-> caps]
      [] p # <<>> /\ p[1][1] = "(" -> StartCapture(src, s, Tail(p), caps, CAP_UNFINISHED)
      [] p # <<>> /\ p[1][1] = "()" -> StartCapture(src, s, Tail(p), caps, CAP_POSITION)
      [] p # <<>> /\ p[1][1] = ")" -> EndCapture(src, s, Tail(p), caps)
      [] p # <<>> /\ p[1][1] = "balance" ->
           Onward(src, Matchbalance(src, s, p[1][2], p[1][3]), p, caps)
      [] p # <<>> /\ p[1][1] = "frontier" ->
           Onward(src, IF Frontier(src, s, p[1][2]) THEN s ELSE FAIL, p, caps)
      [] p # <<>> /\ p[1][1] = "back" -> Onward(src, MatchCapture(src, s, p[1][2], caps), p, caps)
      [] p # <<>> /\ p[1][1] = "$" -> Onward(src, IF s = Len(src) + 1 THEN s ELSE FAIL, p, caps)
      [] OTHER -> Item(src, s, p, caps)

-----------------------------------------------------------------------------
(* The functions.  A match is its start, its end and its captures.           *)

\* push_captures: positions, as the text they become, or pieces of the subject.
Pushed(src, caps) == [l \in DOMAIN caps |-> IF caps[l].len = CAP_POSITION
                                            THEN <<ToString(caps[l].init)>>
                                            ELSE CaptureText(src, caps[l])]
Found(src, s, res) == [from |-> s, to |-> res.e, caps |-> Pushed(src, res.caps)]
\* The loops of str_find_aux and gmatch_aux: the first start from init on.
FindFrom(src, p, init, anchor) ==
    LET starts == {s \in init..(IF anchor THEN init ELSE Len(src) + 1) :
                      Match(src, s, p, <<>>).e # FAIL}
        s == CHOOSE x \in starts : \A y \in starts : x <= y
    IN  IF starts = {} THEN <<>> ELSE << Found(src, s, Match(src, s, p, <<>>)) >>

\* lmemfind: the place of pat in the l1 characters from s1 on, or FAIL.
RECURSIVE Lmemfind(_, _, _, _)
Lmemfind(src, s1, l1, pat) ==
    LET firsts == {x \in s1..(s1 + l1 - Len(pat)) : src[x] = pat[1]}
        x == CHOOSE y \in firsts : \A z \in firsts : y <= z
    IN  IF pat = <<>> THEN s1
        ELSE IF Len(pat) > l1 \/ firsts = {} THEN FAIL
        ELSE IF SubSeq(src, x + 1, x + Len(pat) - 1) = Tail(pat) THEN x
        ELSE Lmemfind(src, x + 1, l1 - (x + 1 - s1), pat)

\* gmatch_aux, called until it finds nothing: an empty match moves on by one.
RECURSIVE GmatchFrom(_, _, _)
GmatchOn(src, p, f) ==
    IF f = <<>> THEN <<>>
    ELSE f \o GmatchFrom(src, p, IF f[1].to = f[1].from THEN f[1].to + 1 ELSE f[1].to)
GmatchFrom(src, p, from) ==
    GmatchOn(src, p, IF from > Len(src) + 1 THEN <<>> ELSE FindFrom(src, p, from, FALSE))

WholeMatch(src, m) == SubSeq(src, m.from, m.to - 1)
\* push_onecapture: capture 1 is the whole match when there are none.
OneCapture(src, m, l) == IF m.caps = <<>> THEN WholeMatch(src, m) ELSE m.caps[l]
RECURSIVE AddS(_, _, _)
AddS(src, m, parts) ==
    IF parts = <<>> THEN <<>>
    ELSE LET part == Head(parts)
         IN  (CASE part[1] = "text" -> <<part[2]>>
                [] part[1] = "cap" /\ part[2] = 0 -> WholeMatch(src, m)
                [] OTHER -> OneCapture(src, m, part[2])) \o AddS(src, m, Tail(parts))
\* add_value: a string with its %l, or a table (or function) whose keys give
\* "!" and whose other values are false, which keeps the match.
AddValue(src, m, repl) ==
    IF repl[1] = "string" THEN AddS(src, m, repl[2])
    ELSE IF OneCapture(src, m, 1) \in repl[2] THEN <<"!">> ELSE WholeMatch(src, m)

\* mutant: the character after an empty match is not kept
KeptNot(src, g) == [g EXCEPT !.src = @ + 1]
\* After an empty match, or none, a character is kept and passed.
Kept(src, g) == [g EXCEPT !.src = @ + 1, !.out = Append(@, src[g.src])]
Added(src, repl, g, res) ==
    IF res.e = FAIL THEN g
    ELSE [g EXCEPT !.n = @ + 1, !.out = @ \o AddValue(src, Found(src, g.src, res), repl)]
RECURSIVE GsubFrom(_, _, _, _, _, _)
\* The loop of str_gsub: src is where it stands, out the text so far.
GsubNext(src, p, repl, max, anchor, g) ==
    IF anchor THEN g ELSE GsubFrom(src, p, repl, max, anchor, g)
GsubOn(src, p, repl, max, anchor, g, res) ==
    IF res.e > g.src THEN GsubNext(src, p, repl, max, anchor, [g EXCEPT !.src = res.e])
    ELSE IF g.src > Len(src) THEN g
    ELSE GsubNext(src, p, repl, max, anchor, Kept(src, g))
GsubAt(src, p, repl, max, anchor, g, res) ==
    GsubOn(src, p, repl, max, anchor, Added(src, repl, g, res), res)
GsubFrom(src, p, repl, max, anchor, g) ==
    IF g.n >= max THEN g
    ELSE GsubAt(src, p, repl, max, anchor, g, Match(src, g.src, p, <<>>))
Replaced(src, g) == <<g.n, g.out \o SubSeq(src, g.src, Len(src))>>
Gsub(src, p, repl, max, anchor) ==
    Replaced(src, GsubFrom(src, p, repl, max, anchor, [src |-> 1, n |-> 0, out |-> <<>>]))

-----------------------------------------------------------------------------
(* The calls.  A start is given as posrelat leaves it, from 1 to one past the *)
(* subject's end.                                                            *)

Init == job = [of |-> "match", call |-> "none"]
Calls == job.of = "match" /\ job.call = "none"
Find == \E src \in Subjects, p \in Patterns, anchor \in BOOLEAN :
            \E init \in 1..(Len(src) + 1) :
                job' = [of |-> "match", call |-> "find", src |-> src, p |-> p, init |-> init,
                        anchor |-> anchor, out |-> FindFrom(src, p, init, anchor)]
PlainFind == \E src \in Subjects, pat \in Plain :
                \E init \in 1..(Len(src) + 1) :
                    job' = [of |-> "match", call |-> "plain", src |-> src, pat |-> pat, init |-> init,
                            out |-> Lmemfind(src, init, Len(src) - init + 1, pat)]
Gmatch == \E src \in Subjects, p \in Patterns :
             job' = [of |-> "match", call |-> "gmatch", src |-> src, p |-> p,
                     out |-> GmatchFrom(src, p, 1)]
StrGsub == \E src \in Subjects, p \in Patterns, repl \in Replacements, max \in Limits, anchor \in BOOLEAN :
              job' = [of |-> "match", call |-> "gsub", src |-> src, p |-> p, repl |-> repl, max |-> max,
                      anchor |-> anchor, out |-> Gsub(src, p, repl, max, anchor)]
Next == Calls /\ (Find \/ PlainFind \/ Gmatch \/ StrGsub)
Spec == Init /\ [][Next]_job

-----------------------------------------------------------------------------
(* What a match is, without the matcher: a way through the pattern gives the *)
(* position where each item ends.                                            *)

Count(src, a, b, c) == Cardinality({i \in a..b : src[i] = c})
\* Where the capture that item o opens is closed.
ClosedBy(p, o) ==
    LET Depth(j) == Cardinality({i \in o..j : p[i][1] = "("}) - Cardinality({i \in o..j : p[i][1] = ")"})
    IN  CHOOSE j \in o..Len(p) : Depth(j) = 0 /\ \A i \in o..(j - 1) : Depth(i) > 0
Openers(p, k) == {o \in 1..k : p[o][1] \in {"(", "()"}}
Opener(p, l) == CHOOSE o \in Openers(p, Len(p)) : Cardinality(Openers(p, o)) = l
\* The text, or the position, of capture l on the way w (w[1] is the start).
Captured(src, p, w, l) ==
    LET o == Opener(p, l)
    IN  IF p[o][1] = "()" THEN <<ToString(w[o])>> ELSE SubSeq(src, w[o], w[ClosedBy(p, o)] - 1)

\* Item i may take the characters from w[i] to before x.
Takes(src, p, w, i, x) ==
    LET from == w[i]
        n == x - from
        item == p[i]
    IN  CASE item[1] = "char" ->
               /\ \A k \in from..(x - 1) : src[k] \in item[2]
               /\ CASE item[3] = "1" -> n = 1 [] item[3] = "?" -> n <= 1
                    [] item[3] = "+" -> n >= 1 [] OTHER -> TRUE
          [] item[1] = "balance" ->
               /\ n >= 2 /\ src[from] = item[2] /\ src[x - 1] = item[3]
               /\ IF item[2] = item[3] THEN Count(src, from, x - 1, item[2]) = 2
                  ELSE \A y \in from..(x - 1) :
                          Count(src, from, y, item[2]) > Count(src, from, y, item[3]) <=> y < x - 1
          [] item[1] = "back" -> SubSeq(src, from, x - 1) = Captured(src, p, w, item[2])
          [] item[1] = "frontier" -> n = 0 /\ At(src, from - 1) \notin item[2] /\ At(src, from) \in item[2]
          [] item[1] = "$" -> n = 0 /\ from = Len(src) + 1
          [] OTHER -> n = 0

Ways(src, p, s) ==
    LET ways[i \in 0..Len(p)] ==
            IF i = 0 THEN {<<s>>}
            ELSE UNION {{Append(w, x) : x \in {y \in w[i]..(Len(src) + 1) : Takes(src, p, w, i, y)}} :
                            w \in ways[i - 1]}
    IN  ways[Len(p)]
\* Where two ways part, the item takes as much, or for - as little, as it can.
Better(p, w, v) == \E k \in DOMAIN p : /\ \A i \in 1..k : w[i] = v[i]
                                       /\ IF p[k][1] = "char" /\ p[k][3] = "-" THEN w[k + 1] < v[k + 1]
                                          ELSE w[k + 1] > v[k + 1]
Preferred(src, p, s) ==
    LET ways == Ways(src, p, s)
        w == CHOOSE x \in ways : \A v \in ways : v = x \/ Better(p, x, v)
    IN  IF ways = {} THEN <<>>
        ELSE << [from |-> s, to |-> w[Len(w)],
                 caps |-> [l \in 1..Cardinality(Openers(p, Len(p))) |-> Captured(src, p, w, l)]] >>
Leftmost(src, p, init) ==
    LET starts == {s \in init..(Len(src) + 1) : Ways(src, p, s) # {}}
    IN  IF starts = {} THEN <<>>
        ELSE Preferred(src, p, CHOOSE s \in starts : \A t \in starts : s <= t)
RECURSIVE Matches(_, _, _)
MatchesOn(src, p, f) ==
    IF f = <<>> THEN <<>>
    ELSE f \o Matches(src, p, IF f[1].to > f[1].from THEN f[1].to ELSE f[1].from + 1)
Matches(src, p, from) == MatchesOn(src, p, Leftmost(src, p, from))
\* The subject with the first k of the matches ms replaced.
RECURSIVE Spliced(_, _, _, _, _)
Spliced(src, ms, repl, k, from) ==
    IF k = 0 \/ ms = <<>> THEN SubSeq(src, from, Len(src))
    ELSE SubSeq(src, from, ms[1].from - 1) \o AddValue(src, ms[1], repl)
         \o Spliced(src, Tail(ms), repl, k - 1, ms[1].to)
Splicing(src, repl, max, ms) ==
    LET n == IF Len(ms) < max THEN Len(ms) ELSE max
    IN  <<n, Spliced(src, ms, repl, n, 1)>>

\* find and match give the leftmost match, and of those that start there the
\* one every item prefers, with the captures of that way: nothing a failed
\* attempt opened, closed or moved is left in it (str_find_aux, match).  A plain
\* find gives the first place of the text, and finds it wherever a search with
\* the pattern of its characters does (lmemfind).
MatchIsPreferred ==
  job.of = "match" =>
    /\ job.call = "find" =>
          job.out = IF job.anchor THEN Preferred(job.src, job.p, job.init)
                    ELSE Leftmost(job.src, job.p, job.init)
    /\ job.call = "gmatch" => job.out = Matches(job.src, job.p, 1)
    /\ job.call = "plain" =>
          LET f == Leftmost(job.src, [i \in DOMAIN job.pat |-> <<"char", {job.pat[i]}, "1">>], job.init)
          IN  job.out = IF f = <<>> THEN FAIL ELSE f[1].from
\* gsub replaces the first matches that gmatch would give, at most max of
\* them, and keeps every other character of the subject (str_gsub).
GsubSplices ==
    job.of = "match" /\ job.call = "gsub" =>
        job.out = Splicing(job.src, job.repl, job.max,
                           IF job.anchor THEN Preferred(job.src, job.p, 1) ELSE Matches(job.src, job.p, 1))
===============================================================================
