------------------------------- MODULE MCLuaVM -------------------------------
(* Programs for the compiler and the virtual machine: one family of          *)
(* expressions, and one program for each construct and each hazard.          *)
EXTENDS LuaSemantics, LuaDump

N(i) == <<"num", i>>
V(x) == <<"name", x>>
S(s) == <<"str", s>>
NIL == <<"nil">>
TRU == <<"true">>
FLS == <<"false">>
VA == <<"...">>
B(a, op, b) == <<"bin", op, a, b>>
U(op, a) == <<"un", op, a>>
C(f, args) == <<"call", f, args>>
I(o, k) == <<"index", o, k>>
Dot(o, s) == I(o, S(s))
M(o, name, args) == <<"method", o, name, args>>
T(items) == <<"table", items>>
It(e) == <<"item", e>>
Rec(k, v) == <<"rec", k, v>>
F(params, block) == <<"function", params, FALSE, block>>
FV(params, block) == <<"function", params, TRUE, block>>

Local(names, exps) == <<"local", names, exps>>
Set1(x, e) == <<"assign", <<x>>, <<e>>>>
Sets(xs, es) == <<"assign", xs, es>>
Do(b) == <<"do", b>>
While1(c, b) == <<"while", c, b>>
Rep(b, c) == <<"repeat", b, c>>
If1(c, b) == <<"if", << <<c, b>> >>, <<>> >>
IfE(c, b, d) == <<"if", << <<c, b>> >>, <<d>> >>
For1(v, es, b) == <<"fornum", v, es, b>>
Ret1(es) == <<"return", es>>
Brk == <<"break">>
Emit(es) == <<"callstat", C(V("emit"), es)>>
LFun(n, ps, va, b) == <<"localfunction", n, ps, va, b>>
Fun(t, self, ps, b) == <<"function", t, self, ps, FALSE, b>>

-----------------------------------------------------------------------------
(* Conditions and values, in each place an expression can go; a is nil, b 2.  *)

Given == Local(<<"a", "b", "t">>, <<NIL, N(2), T(<<>>)>>)
Around(e) ==
 { << Given, Ret1(<<e>>) >>,
   << Given, IfE(e, <<Emit(<<N(1)>>)>>, <<Emit(<<N(0)>>)>>) >>,
   << Given, Local(<<"d">>, <<e>>), Set1(V("a"), e), Emit(<<V("a"), V("d")>>) >>,
   << Given, LFun("f", <<>>, FALSE, << Set1(V("a"), e), Set1(V("g"), e) >>), <<"callstat", C(V("f"), <<>>)>>, Ret1(<<V("a"), V("g")>>) >>,
   << Given, Set1(Dot(V("t"), "x"), e), While1(e, <<Emit(<<N(0), e, N(9)>>), Brk>>), Ret1(<<B(N(1), "==", e), Dot(V("t"), "x")>>) >> }
Atom == {V("a"), V("b"), N(1), V("g")}
Compare2 == {B(V("a"), "==", V("b")), B(V("b"), "<", N(3)), B(V("b"), ">=", N(3))}
Small == Atom \cup Compare2 \cup {U("not", x) : x \in Atom} \cup {B(x, op, y) : x \in Atom, y \in Atom, op \in {"and", "or"}}
Logic == Small \cup {B(x, op, y) : x \in Small, y \in Atom \cup Compare2, op \in {"and", "or"}}
  \cup {B(y, op, x) : x \in Small, y \in Atom \cup Compare2, op \in {"and", "or"}} \cup {U("not", x) : x \in Small}
\* Conditions with constants among the operands.
Constant == {V("b"), N(1), TRU, FLS}
Constants == {B(B(B(p, "or", q), "and", r), "or", s) : p \in Constant, q \in Constant, r \in Constant, s \in Constant}

-----------------------------------------------------------------------------
(* Programs, by the construct they are about.                                *)

\* Closures made in the three kinds of loop each keep their own variable, also
\* when a break or the loop's condition leaves the scope.
Loops == {
 << For1("i", <<N(1), N(2)>>,
      << Local(<<"j">>, <<B(V("i"), "*", N(2))>>),
         If1(B(V("i"), "==", N(1)), << Set1(V("first"), F(<<>>, <<Set1(V("j"), B(V("j"), "+", V("i"))), Ret1(<<V("j")>>)>>)) >>),
         Set1(V("g"), F(<<>>, <<Ret1(<<V("j"), V("i")>>)>>)) >>),
    Emit(<<C(V("first"), <<>>), C(V("first"), <<>>), C(V("g"), <<>>)>>) >>,
 << Local(<<"n">>, <<N(0)>>),
    While1(B(V("n"), "<", N(3)),
      << Local(<<"c">>, <<V("n")>>),
         Set1(V("h"), F(<<>>, <<Set1(V("c"), B(V("c"), "+", N(10))), Ret1(<<V("c")>>)>>)),
         Set1(V("n"), B(V("n"), "+", N(1))),
         If1(B(V("n"), "==", N(2)), <<Brk>>) >>),
    Emit(<<C(V("h"), <<>>), C(V("h"), <<>>), V("n")>>) >>,
 << Local(<<"i">>, <<N(0)>>),
    Rep(<< Local(<<"k">>, <<V("i")>>), Set1(V("i"), B(V("i"), "+", N(1))),
           Set1(V("f"), F(<<>>, <<Ret1(<<V("k")>>)>>)) >>, B(V("k"), ">=", N(1))),
    Emit(<<C(V("f"), <<>>), V("i")>>) >>,
 << Local(<<"i">>, <<N(0)>>),
    Rep(<< Local(<<"k">>, <<V("i")>>), Set1(V("i"), B(V("k"), "+", N(1))) >>,
        B(B(V("k"), ">", N(1)), "or", B(V("i"), "==", N(5)))),
    Ret1(<<V("i")>>) >>,
 << For1("i", <<N(3), N(1), U("-", N(1))>>, << Local(<<"x">>, <<>>), Emit(<<V("i"), V("x")>>), Set1(V("x"), V("i")) >>),
    For1("i", <<N(2), N(1)>>, <<Emit(<<N(99)>>)>>),
    For1("i", <<N(1), N(3)>>, << For1("j", <<N(1), N(2)>>, << If1(B(V("j"), "==", V("i")), <<Brk>>), Emit(<<V("i"), V("j")>>) >>) >>) >>,
 << While1(TRU, << Local(<<"x">>, <<>>), Emit(<<V("x")>>), Set1(V("x"), N(1)), If1(V("again"), <<Brk>>), Set1(V("again"), TRU) >>) >>,
 << <<"forin", <<"i">>, <<V("upto"), N(3), N(0)>>, << If1(B(V("i"), "==", N(3)), <<Brk>>), Set1(V("f"), F(<<>>, <<Ret1(<<V("i")>>)>>)) >> >>,
    Emit(<<C(V("f"), <<>>)>>) >>,
 << LFun("gen", <<"s", "c">>, FALSE, << If1(B(V("c"), "<", V("s")), <<Ret1(<<B(V("c"), "+", N(1)), V("s")>>)>>) >>),
    LFun("range", <<"n">>, FALSE, << Ret1(<<V("gen"), V("n"), N(0)>>) >>),
    <<"forin", <<"i", "m">>, <<C(V("range"), <<N(2)>>)>>, << Emit(<<V("i"), V("m")>>) >> >> >>}

\* Upvalues: shared between closures, through levels, across activations, and
\* closed by blocks, returns and tail calls.
Upvals == {
 << Local(<<"x">>, <<N(1)>>),
    LFun("inc", <<>>, FALSE, << Set1(V("x"), B(V("x"), "+", N(1))), Ret1(<<V("x")>>) >>),
    LFun("get", <<>>, FALSE, << Ret1(<<V("x")>>) >>),
    Emit(<<C(V("inc"), <<>>), C(V("get"), <<>>)>>), Set1(V("x"), N(10)), Emit(<<C(V("inc"), <<>>), C(V("get"), <<>>)>>) >>,
 << Do(<< Local(<<"p", "q">>, <<N(1), N(2)>>),
          Set1(V("set"), F(<<"v">>, << Sets(<<V("p"), V("q")>>, <<V("v"), V("p")>>) >>)),
          Set1(V("get"), F(<<>>, << Ret1(<<C(F(<<>>, <<Ret1(<<V("q"), V("p")>>)>>), <<>>)>>) >>)) >>),
    Local(<<"r", "s">>, <<N(8), N(9)>>),
    <<"callstat", C(V("set"), <<N(5)>>)>>, Emit(<<V("r"), V("s"), C(V("get"), <<>>)>>) >>,
 << LFun("mk", <<"x">>, FALSE, << Ret1(<<F(<<>>, <<Set1(V("x"), B(V("x"), "+", N(1))), Ret1(<<V("x")>>)>>)>>) >>),
    Local(<<"a", "b">>, <<C(V("mk"), <<N(1)>>), C(V("mk"), <<N(5)>>)>>),
    Emit(<<C(V("a"), <<>>), C(V("b"), <<>>), C(V("a"), <<>>)>>) >>,
 << LFun("fact", <<"n">>, FALSE, << IfE(B(V("n"), "==", N(0)), <<Ret1(<<N(1)>>)>>,
                                       <<Ret1(<<B(V("n"), "*", C(V("fact"), <<B(V("n"), "-", N(1))>>))>>)>>) >>),
    Ret1(<<C(V("fact"), <<N(4)>>)>>) >>,
 << LFun("sum", <<"n", "acc">>, FALSE, << If1(B(V("n"), "<=", N(0)), <<Ret1(<<V("acc")>>)>>),
                 Ret1(<<C(V("sum"), <<B(V("n"), "-", N(1)), B(V("acc"), "+", V("n"))>>)>>) >>),
    Ret1(<<C(V("sum"), <<N(3), N(0)>>)>>) >>,
 << LFun("call", <<"f", "y">>, FALSE, << Local(<<"z">>, <<N(7)>>), Ret1(<<C(V("f"), <<V("z")>>), V("y")>>) >>),
    LFun("keep", <<"x">>, FALSE, << Ret1(<<C(V("call"), <<F(<<"w">>, <<Ret1(<<V("x"), V("w")>>)>>), N(3)>>)>>) >>),
    Ret1(<<C(V("keep"), <<N(4)>>)>>) >>,
 << Fun(V("f"), FALSE, <<"a">>, << Local(<<"n">>, <<V("a")>>),
      While1(V("n"), << Local(<<"m">>, <<V("n")>>), Set1(V("h"), F(<<>>, <<Ret1(<<V("m"), V("a")>>)>>)), Ret1(<<V("h")>>) >>) >>),
    Ret1(<<C(C(V("f"), <<N(6)>>), <<>>)>>) >> }

\* Varargs and lists of values of every length.
Lists == {
 << LFun("f", <<"a">>, TRUE, << Local(<<"x", "y">>, <<VA>>), Ret1(<<V("a"), V("x"), V("y"), VA>>) >>),
    LFun("id", <<>>, TRUE, << Ret1(<<VA>>) >>),
    Emit(<<C(V("f"), <<>>)>>), Emit(<<C(V("f"), <<N(1), N(2), N(3), N(4)>>)>>), Emit(<< <<"paren", C(V("id"), <<N(1), N(2)>>)>> >>),
    Ret1(<<C(V("id"), <<N(1), C(V("id"), <<N(2), N(3)>>)>>)>>) >>,
 << LFun("f", <<"a">>, TRUE, << Ret1(<<Dot(V("arg"), "n"), I(V("arg"), N(1)), V("a")>>) >>),
    Emit(<<C(V("f"), <<N(5), N(6), N(7)>>)>>), Emit(<<C(V("f"), <<>>)>>) >>,
 << LFun("t", <<>>, TRUE, << Ret1(<<U("#", T(<<It(N(1)), It(VA)>>)), U("#", T(<<It(VA), It(N(4))>>)), U("#", T(<<It(VA), Rec(S("x"), N(1))>>))>>) >>),
    Emit(<<C(V("t"), <<N(7), N(8), N(9), N(10), N(11)>>)>>) >>,
 << Local(<<"t">>, <<T(<<It(N(1)), It(N(2)), Rec(S("k"), S("v")), It(N(3)), It(N(4)), Rec(N(20), N(21)), It(N(5)), It(N(6)), It(N(7))>>)>>),
    Ret1(<<U("#", V("t")), I(V("t"), N(1)), I(V("t"), N(4)), I(V("t"), N(5)), I(V("t"), N(7)), Dot(V("t"), "k"), I(V("t"), N(20))>>) >>,
 << Local(<<"a", "i">>, <<T(<<>>), N(1)>>), Sets(<<V("i"), I(V("a"), V("i"))>>, <<B(V("i"), "+", N(1)), N(20)>>),
    Emit(<<V("i"), I(V("a"), N(1)), I(V("a"), N(2))>>),
    Sets(<<I(V("a"), V("i")), V("i"), V("a")>>, <<N(5), V("a"), V("i")>>), Emit(<<I(V("i"), N(2)), V("a")>>) >>,
 << Local(<<"a", "b", "c">>, <<N(1), N(2)>>), Sets(<<V("a"), V("b")>>, <<V("b"), V("a")>>),
    Sets(<<V("c"), V("g")>>, <<V("a"), V("b"), N(9)>>), Sets(<<V("a"), V("b"), V("h")>>, <<N(4), C(V("emit"), <<V("a"), V("b"), V("c")>>)>>),
    Sets(<<V("x"), V("y")>>, <<N(1)>>),
    Emit(<<V("a"), V("b"), V("c"), V("g"), V("h"), V("x"), V("y")>>) >>,
 << Local(<<"a">>, <<>>), Local(<<"b", "c">>, <<>>), Do(<< Local(<<"d">>, <<N(3)>>), Set1(V("a"), V("d")) >>), Local(<<"e">>, <<>>),
    Ret1(<<V("a"), V("b"), V("c"), V("e")>>) >> }

\* More constants than an operand can name, jumps as values, concatenation.
Operands1 == {
 << Local(<<"a", "t">>, <<N(2), T(<<>>)>>), Set1(I(V("t"), N(15)), N(16)), Set1(I(V("t"), V("a")), NIL),
    Ret1(<<B(V("a"), "+", N(10)), B(N(11), "-", V("a")), B(V("a"), "<", N(12)), B(N(13), "==", V("a")), B(N(10), ">", N(11)), I(V("t"), N(15))>>) >>,
 << Local(<<"o">>, <<T(<<Rec(S("n"), N(1)), Rec(S("p"), N(7)), Rec(S("q"), N(8)), Rec(S("r"), N(9))>>)>>),
    Fun(Dot(V("o"), "add"), TRUE, <<"k">>, << Set1(Dot(V("self"), "n"), B(Dot(V("self"), "n"), "+", V("k"))), Ret1(<<V("self")>>) >>),
    Ret1(<<Dot(M(M(V("o"), "add", <<N(2)>>), "add", <<N(3)>>), "n")>>) >>,
 << Local(<<"a", "b">>, <<N(1)>>),
    Emit(<<B(B(V("a"), "and", V("b")), "or", N(3)), U("not", V("a")), B(V("b"), "==", NIL), B(V("a"), "~=", N(1)), U("not", B(V("a"), "<", N(2)))>>),
    Local(<<"x">>, <<B(V("a"), "<=", N(1))>>), Local(<<"y">>, <<B(B(V("x"), "and", V("a")), "or", V("b"))>>),
    <<"if", << <<V("b"), <<Emit(<<N(1)>>)>> >>, <<U("not", V("x")), <<Emit(<<N(2)>>)>> >>,
               <<B(V("a"), "==", V("y")), <<Emit(<<N(3)>>)>> >> >>, <<<<Emit(<<N(4)>>)>>>> >> >>,
 << Local(<<"s">>, <<B(S("a"), "..", B(N(1), "..", B(S(""), "..", S("b"))))>>), Ret1(<<V("s"), U("#", V("s")), B(B(V("s"), "..", S("")), "..", N(2))>>) >>,
 << Ret1(<<B(B(N(2), "*", N(3)), "+", N(1)), U("-", U("-", N(5))), U("-", B(N(1), "-", N(4))), B(N(2), "..", N(3))>>) >> }

\* Metamethods.
Meta2(t, m) == C(V("setmetatable"), <<t, m>>)
With1(event, params, exps) == T(<<Rec(S(event), F(params, <<Ret1(exps)>>))>>)
Metas == {
 << Local(<<"t">>, <<Meta2(T(<<Rec(S("a"), N(1))>>), With1("__index", <<"t", "k">>, <<V("k"), N(0)>>))>>),
    Local(<<"u">>, <<Meta2(T(<<>>), T(<<Rec(S("__index"), V("t")), Rec(S("__newindex"), V("t"))>>))>>),
    Set1(Dot(V("u"), "z"), N(4)), Set1(Dot(V("u"), "z"), N(5)),
    Ret1(<<Dot(V("u"), "a"), Dot(V("u"), "b"), Dot(V("t"), "z"), Dot(V("u"), "z")>>) >>,
 << Local(<<"log">>, <<Meta2(T(<<>>), T(<<Rec(S("__newindex"), F(<<"t", "k", "v">>, <<Emit(<<V("k"), V("v")>>)>>))>>))>>),
    Sets(<<Dot(V("log"), "x"), I(V("log"), N(1))>>, <<N(5), N(6)>>), Ret1(<<Dot(V("log"), "x")>>) >>,
 << Local(<<"mt">>, <<T(<<Rec(S("__add"), F(<<"a", "b">>, <<Ret1(<<S("add")>>)>>)), Rec(S("__unm"), F(<<"a">>, <<Ret1(<<S("unm"), N(2)>>)>>)),
                          Rec(S("__concat"), F(<<"a", "b">>, <<Ret1(<<S("cat")>>)>>))>>)>>),
    Local(<<"t">>, <<Meta2(T(<<>>), V("mt"))>>),
    Ret1(<<B(N(1), "+", V("t")), B(V("t"), "+", N(2)), U("-", V("t")), B(S("a"), "..", B(V("t"), "..", S("b"))), B(V("t"), "..", B(S("x"), "..", S("y")))>>) >>,
 << Local(<<"mt">>, <<T(<<Rec(S("__eq"), F(<<"a", "b">>, <<Ret1(<<B(Dot(V("a"), "v"), "==", Dot(V("b"), "v"))>>)>>)),
                          Rec(S("__lt"), F(<<"a", "b">>, <<Ret1(<<B(Dot(V("a"), "v"), "<", Dot(V("b"), "v"))>>)>>))>>)>>),
    Local(<<"x", "y">>, <<Meta2(T(<<Rec(S("v"), N(1))>>), V("mt")), Meta2(T(<<Rec(S("v"), N(2))>>), V("mt"))>>),
    Emit(<<B(V("x"), "==", V("y")), B(V("x"), "~=", V("y")), B(V("x"), "<", V("y")), B(V("x"), ">", V("y")), B(V("x"), "<=", V("y")), B(V("x"), ">=", V("y")), B(V("x"), "==", N(1))>>),
    If1(U("not", B(V("y"), "<=", V("x"))), <<Emit(<<N(1)>>)>>),
    Set1(Dot(V("mt"), "__le"), F(<<"a", "b">>, <<Ret1(<<NIL>>)>>)), Ret1(<<B(V("x"), "<=", V("y"))>>) >>,
 << Local(<<"c">>, <<Meta2(T(<<>>), T(<<Rec(S("__call"), F(<<"self", "a">>, <<Ret1(<<V("a"), V("self")>>)>>))>>))>>),
    Local(<<"a", "s">>, <<C(V("c"), <<N(3)>>)>>), Emit(<<V("a"), B(V("s"), "==", V("c"))>>),
    <<"forin", <<"i">>, <<Meta2(T(<<>>), T(<<Rec(S("__call"), F(<<"self", "s", "i">>, <<If1(B(V("i"), "<", V("s")), <<Ret1(<<B(V("i"), "+", N(1))>>)>>)>>))>>)), N(2), N(0)>>, <<Emit(<<V("i")>>)>> >>,
    LFun("tail", <<>>, FALSE, << Ret1(<<C(V("c"), <<N(8)>>)>>) >>), Emit(<< <<"paren", C(V("tail"), <<>>)>> >>) >>,
 << Local(<<"t">>, <<T(<<>>)>>), <<"callstat", Meta2(V("t"), T(<<Rec(S("__index"), V("t")), Rec(S("__newindex"), V("t"))>>))>>,
    If1(V("set"), <<Set1(Dot(V("t"), "x"), N(1))>>), Ret1(<<Dot(V("t"), "x")>>) >>,
 << Local(<<"t">>, <<T(<<>>)>>), <<"callstat", Meta2(V("t"), T(<<Rec(S("__newindex"), V("t"))>>))>>, Set1(Dot(V("t"), "x"), N(1)) >> }

\* Programs that fail, and the name the message gives.
Wrong == {
 << <<"callstat", C(V("f"), <<N(1)>>)>> >>,
 << Local(<<"a", "t">>, <<N(1), T(<<>>)>>), <<"callstat", C(Dot(V("t"), "f"), <<V("a")>>)>> >>,
 << Local(<<"t">>, <<T(<<>>)>>), <<"callstat", M(V("t"), "m", <<N(1)>>)>> >>,
 << Local(<<"a", "b">>, <<N(1)>>), Do(<<Local(<<"c">>, <<N(1)>>)>>), Ret1(<<C(V("b"), <<>>)>>) >>,
 << Local(<<"a">>, <<>>), LFun("f", <<>>, FALSE, <<Ret1(<<B(V("a"), "+", N(1))>>)>>), <<"callstat", C(V("f"), <<>>)>> >>,
 << Local(<<"t">>, <<T(<<>>)>>), Local(<<"b">>, <<B(N(1), "+", Dot(V("t"), "x"))>>) >>,
 << Set1(Dot(V("g"), "x"), N(1)) >>,
 << Local(<<"t">>, <<T(<<>>)>>), Set1(Dot(Dot(V("t"), "x"), "y"), N(1)) >>,
 << Local(<<"t">>, <<T(<<>>)>>), Set1(I(V("t"), V("g")), N(1)) >>,
 << Local(<<"a", "b">>, <<S("x")>>), Ret1(<<B(V("a"), "..", V("b"))>>) >>,
 << Local(<<"a">>, <<>>), Ret1(<<B(B(V("a"), "or", V("g")), "+", N(1))>>) >>,
 << Ret1(<<B(N(1), "<", V("g"))>>) >>,
 << Local(<<"a">>, <<>>), Emit(<<N(1)>>), Ret1(<<U("#", V("a"))>>) >>,
 << Ret1(<<U("-", V("g"))>>) >>,
 << For1("i", <<N(1), V("g")>>, <<Emit(<<V("i")>>)>>) >>,
 << <<"forin", <<"i">>, <<V("g")>>, <<Emit(<<V("i")>>)>> >> >>,
 << Local(<<"a">>, <<N(1)>>), LFun("f", <<"x">>, FALSE, <<Ret1(<<Dot(V("x"), "y")>>)>>), Ret1(<<C(V("f"), <<V("nothing")>>)>>) >> }

\* Constructors of many batches: the count words behind their SETLISTs look
\* like a LOADNIL, an EQ, a TEST, a TESTSET, a SETLIST and a LOADNIL of
\* register 0.  A jump, another LOADNIL or the start of a loop follows, but for
\* the two programs where the code generator is deceived (README).
MCBeyond == <<515, 535, 538, 539, 546, 16387>>
LooksLikeTestset == 6
Filled(batches) == T([j \in 1..(batches * FieldsPerFlush) |-> It(N(j))])
Shown(t, n) == Emit(<<U("#", V(t)), I(V(t), N(n - 1)), I(V(t), N(n))>>)
Holding(batches, between) ==
    << Local(<<"t">>, <<Filled(batches)>>) >> \o between \o << Shown("t", batches * FieldsPerFlush) >>
Never == If1(FLS, <<Emit(<<N(0)>>)>>)
Once == While1(U("not", V("g")), << Set1(V("g"), TRU) >>)
InLoop(batches) == << While1(U("not", V("g")), << Set1(V("g"), TRU), Local(<<"t">>, <<Filled(batches)>>) >>) >>
Counts == {Holding(n, <<Once>>) : n \in 3..8} \cup {InLoop(n) : n \in 3..8}
  \cup {Holding(n, <<Never>>) : n \in (3..8) \ {LooksLikeTestset}}
  \cup {Holding(n, <<Local(<<"x">>, <<>>), Emit(<<V("x")>>)>>) : n \in 3..7}
  \cup {<<Local(<<"p", "q">>, <<N(1), N(2)>>)>> \o Holding(8, <<Local(<<"x">>, <<>>), Emit(<<V("x")>>)>>)}
\* The count that looks like a TESTSET, with a jump that carries no value behind.
Miscounted == {Holding(LooksLikeTestset, <<Never>>)}

CONSTANTS Conditions,   \* the expressions
          Constructors  \* the programs of many batches; the others are always run

VMInit == InitWith(UNION {Around(e) : e \in Conditions} \cup Constructors \cup Loops \cup Upvals
                   \cup Lists \cup Operands1 \cup Metas \cup Wrong)
VMSpec == VMInit /\ [][Next]_vars

CONSTANT Cuts       \* where a dump is cut
\* A function that is dumped and loaded again is the function that was
\* compiled, without its names when they are stripped, wherever the reader cuts
\* the dump, and a dump whose end is missing is refused, whether the reads that
\* failed left 0 or 1 behind (string.dump, luaU_dump, luaU_undump).
DumpRoundTrips ==
    Compiled /\ steps = 0 =>
        LET f == FunctionOf(main, "=chunk")
            d == Dump(f, FALSE)
        IN  \A cut \in Cuts : /\ \A strip \in BOOLEAN : RoundTrips(f, strip, cut)
                             /\ \A junk \in {0, 1} : Truncated(d, cut, junk)
=============================================================================
