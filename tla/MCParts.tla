-------------------------------- MODULE MCParts -------------------------------
(* The parts of the program that work each on their own, as one sum: part    *)
(* names the one that runs, and the others stay as they begin.  The library  *)
(* modules share the variable library; the map, the phone application,      *)
(* tables, coroutines, finalizers, references and upvalues have their own.   *)
EXTENDS MapView, Parts
VARIABLE part
phoneVars == <<running, screen, timer, locating, mapSize, placed, top, buttons, fixes>>
refVars == <<entries, held>>
tableVars == <<table, map, cursor, left>>
coroutineVars == <<status, frames, fresh, nCcalls, baseCcalls, nest, wild>>
finalizeVars == <<faulty, created, list, tmudata, finalized, called, active, allowhook, pending,
                  phase, failed>>
upvalVars == <<heap, marked, uvhead, gcstate, gray, grayagain, sweepgc, nested, full>>

\* Two commodities whose waves are longer than the drawn area.
CONSTANTS wheat, silver
MCOrder == <<wheat, silver>>
MCPeriod == [c \in Commodities |-> IF c = wheat THEN 3 ELSE 4]

\* The words and patterns of LuaMatch, the texts of LuaLex.
Words(n) == UNION {[1..k -> {"a", "b"}] : k \in 0..n}
MCPatterns ==
  LET A(r) == <<"char", {"a"}, r>>
      B(r) == <<"char", {"b"}, r>>
      AB(r) == <<"char", {"a", "b"}, r>>
  IN
  { <<>>, <<A("*")>>, <<A("-"), B("1")>>, <<A("?"), A("+")>>, <<AB("*"), A("1")>>,
    << <<"(">>, A("*"), <<")">>, << "(" >>, AB("-"), <<")">>, <<"$">> >>,
    << <<"(">>, AB("+"), <<")">>, <<"back", 1>> >>,
    << <<"(">>, <<"(">>, A("?"), <<")">>, B("*"), <<")">>, A("1") >>,
    << <<"(">>, AB("-"), <<")">>, A("1"), <<"()">>, <<"$">> >>,
    << <<"()">>, B("+"), <<"()">> >>,
    << <<"balance", "a", "b">> >>, << A("*"), <<"balance", "a", "b">>, B("?") >>, << <<"balance", "a", "a">> >>,
    << <<"frontier", {"b", "\\0"}>>, AB("?") >>, << <<"frontier", {"a"}>>, <<"(">>, A("+"), <<")">> >>,
    << <<"(">>, A("*"), <<")">>, B("1"), <<"back", 1>> >> }
MCSubjects == Words(4)
MCPlain == Words(2)
MCReplacements == { <<"string", << <<"text", "<">>, <<"cap", 0>>, <<"text", ">">> >> >>,
            <<"string", << <<"cap", 1>> >> >>, <<"table", {<<>>, <<"a">>}>> }
MCLimits == {1, 5}

MCLetters == {"d", "o", "e", "n"}
MCDigits == {"1", "9"}
MCReserved == {<<"d", "o">>}
LongTexts == { <<"d", "o", "1", "d", "o", "=", "=", "=">>,
  <<"1", ".", "9", "e", "-", "1", ".", ".", "o">>, <<".", "1", ".", ".", ".", "n">>, <<"1", ".", ".", "9">>,
  <<"1", "e", "+", "9", "d">>, <<"-", "1", "e", "+", "1", "<", "=">>,
  <<"'", "d", "\\", "n", "\\", "'", "'", "\n", "o">>, <<"'", "\\", "\n", "\r", "d", "\\", "1", "9", "9", "1", "'">>, <<"'", "\\", "9", "9", "9", "'">>,
  <<"'", "d", "\n", "'">>, <<"'", "\\", "\r", "\r", "'", "d">>,
  <<"[", "[", "\r", "\n", "d", "\n", "\n", "]", "=", "]", "]", "d">>, <<"[", "=", "[", "]", "]", "\n", "\r", "]", "=", "]", "=">>,
  <<"[", "[", "d", "[", "[", "]", "]">>, <<"[", "[", "[", "]", "]", "]">>, <<"[", "=", "o">>, <<"[", "o", "]">>,
  <<"[", "=", "[", "[", "=", "[", "]", "=", "]">>,
  <<"-", "-", "[", "=", "[", "\n", "]", "]", "]", "=", "]", "o">>, <<"-", "-", "[", "=", "o", "\n", "d", "o">>,
  <<"-", "-", "d", "\n", "\r", "\n", "o", "-", "-">>, <<"-", "-", "[", "[", "d", "]">>, <<"~", "=", "~", ">", "=", "=", "<">> }
ShortTexts == UNION {[1..n -> {"d", "1", "e", ".", "-", "=", "[", "]", "'", "\\", "\n", "\r", " "}] : n \in 0..3}
Splits(t) == {<<t>>} \cup {<<SubSeq(t, 1, k), SubSeq(t, k + 1, Len(t))>> : k \in 1..(Len(t) - 1)}
MCTexts == UNION {Splits(t) : t \in LongTexts} \cup {[k \in DOMAIN t |-> <<t[k]>>] : t \in ShortTexts}

\* Integers around the array's sizes, a string and an object, which collide in
\* hash parts of 1, 2, 4 and 8 nodes.
MCKey == {<<"int", n>> : n \in 1..4} \cup {<<"str", 1>>, <<"obj", 4>>}

MCValues == {<<"value", 1>>, <<"value", 2>>}

M == INSTANCE LuaMatch WITH job <- library, Patterns <- MCPatterns, Subjects <- MCSubjects, Plain <- MCPlain,
                            Replacements <- MCReplacements, Limits <- MCLimits
L == INSTANCE LuaLex WITH lexer <- library, Texts <- MCTexts, Letters <- MCLetters, Digits <- MCDigits,
                          Reserved <- MCReserved

PartsInit ==
    /\ part \in {"map", "phone", "library", "table", "coroutine", "finalize", "references", "upvalue"}
    /\ Init /\ P!Init /\ C!Init /\ R!Init /\ U!Init
    /\ H!Init /\ (part # "table" => table = H!New(0, 0))
    /\ F!Init /\ (part # "finalize" => ~faulty)
    /\ IF part = "library" THEN M!Init \/ L!Init \/ Buf!Init \/ Lst!Init
       ELSE library = [of |-> "none"]
PartsNext ==
    /\ UNCHANGED part
    /\ \/ /\ part = "map" /\ Next
          /\ UNCHANGED <<library, phoneVars, refVars, tableVars, coroutineVars, finalizeVars, upvalVars>>
       \/ /\ part = "phone" /\ P!Next
          /\ UNCHANGED <<library, vars, refVars, tableVars, coroutineVars, finalizeVars, upvalVars>>
       \/ /\ part = "library" /\ (M!Next \/ L!Next \/ Buf!Next \/ Lst!Next)
          /\ UNCHANGED <<vars, phoneVars, refVars, tableVars, coroutineVars, finalizeVars, upvalVars>>
       \/ /\ part = "table" /\ H!Next
          /\ UNCHANGED <<library, vars, phoneVars, refVars, coroutineVars, finalizeVars, upvalVars>>
       \/ /\ part = "coroutine" /\ C!Next
          /\ UNCHANGED <<library, vars, phoneVars, refVars, tableVars, finalizeVars, upvalVars>>
       \/ /\ part = "finalize" /\ F!Next
          /\ UNCHANGED <<library, vars, phoneVars, refVars, tableVars, coroutineVars, upvalVars>>
       \/ /\ part = "references" /\ R!Next
          /\ UNCHANGED <<library, vars, phoneVars, tableVars, coroutineVars, finalizeVars, upvalVars>>
       \/ /\ part = "upvalue" /\ U!Next
          /\ UNCHANGED <<library, vars, phoneVars, refVars, tableVars, coroutineVars, finalizeVars>>
allVars == <<part, library, vars, phoneVars, refVars, tableVars, coroutineVars, finalizeVars, upvalVars>>
PartsSpec == PartsInit /\ [][PartsNext]_allVars /\ F!Fairness

\* The properties of the instances, as their modules state them (the others
\* are in Parts).
MatchIsPreferred == M!MatchIsPreferred
GsubSplices == M!GsubSplices
LexAsWritten == L!LexAsWritten
CloseEnds == F!CloseEnds
===============================================================================
