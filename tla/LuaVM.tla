-------------------------------- MODULE LuaVM --------------------------------
(* The virtual machine, src/lua/src/lvm.c, with the calls of ldo.c, the      *)
(* upvalues of lfunc.c and the metamethods of ltm.c, running a program that  *)
(* the compiler has just compiled.                                           *)
(*                                                                           *)
(* L is the thread and the objects it reaches: the stack (positions from 1)  *)
(* and its top; ci, the chain of activations, innermost last; pc, the next   *)
(* instruction of the innermost one; open, the open upvalues, highest first; *)
(* and upvals, closures and tables by number.  out is what the program has   *)
(* told the outside world.  When C code calls a Lua function (a metamethod,  *)
(* an iterator), the activation's cont says what that C code does with the   *)
(* result; cont is empty for a call made by an OP_CALL.                      *)
(*                                                                           *)
(* A table is a function from keys to values and a metatable (LuaTable is    *)
(* its implementation).  Numbers are integers, no string is a numeral, and   *)
(* strings are compared for equality only.  An error ends the run: unwinding *)
(* is the subject of LuaError.  Hooks are not modelled.                      *)
EXTENDS LuaDebug, FiniteSets, TLC

CONSTANTS Compiler(_),  \* the prototype of a program: Parse of LuaParser
          Outcome(_),   \* what the language makes of a program: Meaning of LuaSemantics
          MAXTAGLOOP,   \* bound on chains of metatables
          MaxSteps      \* bound on the instructions of one run

VARIABLES prog,  \* the source program
          main,  \* the prototype compiled from it, or NotCompiled
          L,     \* the thread and the heap
          steps  \* instructions executed
vars == <<prog, main, L, steps>>

NotCompiled == [code |-> <<>>]
Running == <<"running">>
Table(n) == <<"table", n>>
Function(n) == <<"function", n>>
Native(f) == <<"native", f>>
IsFalse(v) == v \in {Nil, Bool(FALSE)}
IsFunction(v) == v[1] \in {"function", "native"}
Type(v) == IF v[1] = "native" THEN "function" ELSE v[1]

Put(s, i, v) == IF i <= Len(s) THEN [s EXCEPT ![i] = v]
                ELSE s \o [j \in 1..(i - Len(s)) |-> IF j = i - Len(s) THEN v ELSE Nil]
PutAll(s, i, vs) == Through(LAMBDA t, j : Put(t, i + j - 1, vs[j]), s,
                             [j \in 1..Len(vs) |-> j])
Nils(n) == IF n <= 0 THEN <<>> ELSE [j \in 1..n |-> Nil]
At1(s, i) == IF i <= Len(s) THEN s[i] ELSE Nil
Set(m, i, v) == [m EXCEPT !.stack = Put(@, i, v)]

Frame(m) == Last(m.ci)
Closure(m) == m.closures[m.stack[Frame(m).func][2]]
Pt(m) == Closure(m).p
Reg(m, r) == m.stack[Frame(m).base + r]
SetReg(m, r, v) == Set(m, Frame(m).base + r, v)
RKv(m, x) == IF ISK(x) THEN Pt(m).k[x - BITRK + 1] ELSE Reg(m, x)
K(m, i) == Pt(m).k[i + 1]

\* luaG_runerror ends the run; luaG_typeerror names the value if it is in a
\* register r of the function that runs (r = NO_REG: it is not).
Runerror(m, what) == [m EXCEPT !.status = <<"error", what, NoName>>]
Typeerror(m, what, r) ==
    [m EXCEPT !.status = <<"error", what,
        IF r = NO_REG \/ ISK(r) THEN NoName ELSE Getobjname(Pt(m), m.pc - 1, r)>>]

-----------------------------------------------------------------------------
(* Tables and metatables.                                                    *)

RawGet(m, t, k) == LET f == m.tables[t[2]].map IN IF k \in DOMAIN f THEN f[k] ELSE Nil
RawSet(m, t, k, v) ==
    [m EXCEPT !.tables[t[2]].map =
        IF v = Nil THEN [x \in DOMAIN @ \ {k} |-> @[x]] ELSE (k :> v) @@ @]
NewTable(m, f) == [m EXCEPT !.tables = Append(@, [map |-> f, meta |-> 0])]
\* luaH_getn returns a boundary; the arrays of these programs have no holes.
Getn(m, t) == CHOOSE n \in 0..Cardinality(DOMAIN m.tables[t[2]].map) :
                 /\ n = 0 \/ RawGet(m, t, Num(n)) # Nil
                 /\ RawGet(m, t, Num(n + 1)) = Nil
TM(m, v, event) ==
    IF v[1] = "table" /\ m.tables[v[2]].meta # 0
    THEN RawGet(m, Table(m.tables[v[2]].meta), Str(event)) ELSE Nil

\* luaV_gettable and luaV_settable follow __index and __newindex until a value
\* is found, a function must be called, or the chain is too long.
RECURSIVE Chain(_, _, _, _, _)
Chain(m, t, k, event, n) ==
    LET raw == RawGet(m, t, k)
        tm  == TM(m, t, event)
    IN  CASE n = 0 -> [how |-> "loop", t |-> t, tm |-> Nil]
          [] n > 0 /\ t[1] = "table" /\ (raw # Nil \/ tm = Nil) -> [how |-> "raw", t |-> t, tm |-> tm]
          [] n > 0 /\ t[1] # "table" /\ tm = Nil ->
               [how |-> IF n = MAXTAGLOOP THEN "first" ELSE "later", t |-> t, tm |-> tm]
          [] n > 0 /\ IsFunction(tm) -> [how |-> "call", t |-> t, tm |-> tm]
          [] OTHER -> Chain(m, tm, k, event, n - 1)

-----------------------------------------------------------------------------
(* Upvalues.                                                                 *)

\* luaF_findupval: the open upvalue of a stack slot is shared.
Findupval(m, level) ==
    LET same == SelectSeq(m.open, LAMBDA u : m.upvals[u].level = level)
        n == Len(m.upvals) + 1
        higher == SelectSeq(m.open, LAMBDA u : m.upvals[u].level > level)
    IN  IF same # <<>> THEN [m |-> m, uv |-> same[1]]
        ELSE [m |-> [m EXCEPT !.upvals = Append(@, [level |-> level, value |-> Nil]),
                              !.open = higher \o <<n>> \o SubSeq(@, Len(higher) + 1, Len(@))],
              uv |-> n]
\* mutant: the upvalue at level itself stays open
CloseAbove(m, level) ==
    LET closing == {u \in ToSet(m.open) : m.upvals[u].level > level}
    IN  [m EXCEPT !.open = SelectSeq(@, LAMBDA u : u \notin closing),
                  !.upvals = [u \in DOMAIN @ |-> IF u \in closing
                                 THEN [level |-> 0, value |-> m.stack[@[u].level]] ELSE @[u]]]
\* luaF_close: upvalues at or above level take their values with them.
Close(m, level) ==
    LET closing == {u \in ToSet(m.open) : m.upvals[u].level >= level}
    IN  [m EXCEPT !.open = SelectSeq(@, LAMBDA u : u \notin closing),
                  !.upvals = [u \in DOMAIN @ |-> IF u \in closing
                                 THEN [level |-> 0, value |-> m.stack[@[u].level]] ELSE @[u]]]
Upvalue(m, i) == LET u == m.upvals[Closure(m).upvals[i + 1]]
                 IN  IF u.level > 0 THEN m.stack[u.level] ELSE u.value
SetUpvalue(m, i, v) == LET n == Closure(m).upvals[i + 1]
                       IN  IF m.upvals[n].level > 0 THEN Set(m, m.upvals[n].level, v)
                           ELSE [m EXCEPT !.upvals[n].value = v]

-----------------------------------------------------------------------------
(* Calls and returns.                                                        *)

Args(m, func) == SubSeq(m.stack, func + 1, m.top - 1)

\* The C functions these programs call: emit shows its arguments and returns
\* them; setmetatable; upto, an iterator that counts from its control to its
\* state.
NativeResults(m, f, args) ==
    CASE f = "emit" -> args
      [] f = "setmetatable" -> <<args[1]>>
      [] f = "upto" -> IF args[2][2] < args[1][2] THEN <<Num(args[2][2] + 1)>> ELSE <<>>
NativeEffect(m, f, args) ==
    CASE f = "emit" -> [m EXCEPT !.out = Append(@, args)]
      [] f = "setmetatable" -> [m EXCEPT !.tables[args[1][2]].meta = args[2][2]]
      [] f = "upto" -> m

Skip(m, taken) == [m EXCEPT !.pc = IF taken THEN @ + At(Pt(m), @).b + 1 ELSE @ + 1]

\* adjust_varargs: the fixed parameters move above the extra arguments, and the
\* table arg is made for a function that needs it.
AdjustVarargs(m, p, func) ==
    LET given == Args(m, func)
        args == given \o Nils(p.numparams - Len(given))
        n == Len(args) - p.numparams
        extra == SubSeq(args, p.numparams + 1, Len(args))
        argtab == ([i \in {Num(j) : j \in {j \in 1..n : extra[j] # Nil}} |-> extra[i[2]]])
                  @@ (Str("n") :> Num(n))
        needs == "NEEDSARG" \in p.is_vararg
        base == func + 1 + Len(args)
        fixed == SubSeq(args, 1, p.numparams)
        tab == Table(Len(m.tables) + 1)
        m1 == IF needs THEN NewTable(m, argtab) ELSE m
    IN  [m |-> [m1 EXCEPT !.stack = PutAll(@, func + 1, Nils(p.numparams) \o extra \o fixed
                                                         \o (IF needs THEN <<tab>> ELSE <<>>)),
                          !.top = base + p.numparams + (IF needs THEN 1 ELSE 0)],
         base |-> base]

\* luaD_precall for a Lua function: a new activation, its registers nil above
\* the arguments.
Activate(e, p, func, nresults, cont) ==
    LET citop == e.base + p.maxstacksize
    IN  [e.m EXCEPT !.ci = Append([@ EXCEPT ![Len(@)].savedpc = e.m.pc],
                [func |-> func, base |-> e.base, top |-> citop, savedpc |-> 0,
                 nresults |-> nresults, cont |-> cont]),
             !.stack = PutAll(@, e.m.top, Nils(citop - e.m.top)),
             !.top = citop, !.pc = 0]
Enter(m, func, nresults, cont) ==
    LET p == m.closures[m.stack[func][2]].p
        fixtop == IF m.top > func + 1 + p.numparams THEN func + 1 + p.numparams ELSE m.top
    IN  Activate(IF p.is_vararg = {} THEN [m |-> [m EXCEPT !.top = fixtop], base |-> func + 1]
                 ELSE AdjustVarargs(m, p, func), p, func, nresults, cont)

MoveResults(m, func, results, wanted) ==
    LET rs == IF wanted = LUA_MULTRET THEN results
              ELSE SubSeq(results \o Nils(wanted), 1, wanted)
    IN  [m EXCEPT !.stack = PutAll(@, func, rs), !.top = func + Len(rs)]

\* The operators below call one another: a native function returns at once.
RECURSIVE Precall(_, _, _, _)
CallTMres(m, res, f, a, b) ==
    Precall([m EXCEPT !.stack = PutAll(@, m.top, <<f, a, b>>), !.top = @ + 3],
            m.top, 1, <<"res", res>>)
CallTest(m, f, a, b, want) ==
    Precall([m EXCEPT !.stack = PutAll(@, m.top, <<f, a, b>>), !.top = @ + 3],
            m.top, 1, <<"test", want>>)

Isstr(v) == v[1] \in {"string", "number"}
ToStr(v) == IF v[1] = "number" THEN ToString(v[2]) ELSE v[2]
BinTM(m, a, b, event) == IF TM(m, a, event) # Nil THEN TM(m, a, event) ELSE TM(m, b, event)

\* luaV_concat from register last down, total values; then OP_CONCAT's move.
RECURSIVE ConcatFrom(_, _, _)
ConcatFrom(m, total, last) ==
    LET x == Reg(m, last - 1)
        y == Reg(m, last)
        tm == BinTM(m, x, y, "__concat")
        i == At(Pt(m), m.pc - 1)
        isrun(n) == \A j \in 0..(n - 1) : Isstr(Reg(m, last - j))
        n == IF ToStr(y) = "" THEN 2
             ELSE CHOOSE n \in 2..total : isrun(n) /\ (n = total \/ ~isrun(n + 1))
        joined == Through(LAMBDA s, j : ToStr(Reg(m, last - j)) \o s, "",
                           [j \in 1..n |-> j - 1])
        push == [m EXCEPT !.stack = PutAll(@, m.top, <<tm, x, y>>), !.top = @ + 3]
    IN  CASE total <= 1 -> SetReg(m, i.a, Reg(m, i.b))
          [] total > 1 /\ Isstr(x) /\ Isstr(y) ->
               ConcatFrom(SetReg(m, last - n + 1, Str(joined)), total - n + 1, last - n + 1)
          [] total > 1 /\ ~(Isstr(x) /\ Isstr(y)) /\ tm = Nil ->
               Typeerror(m, "concatenate", IF Isstr(x) THEN last ELSE last - 1)
          [] OTHER -> Precall(push, m.top, 1, <<"concat", total, last>>)

\* What the C caller does with the results: luaV_execute's OP_CALL, a
\* metamethod's caller, or lua_call of the main chunk.
Continue(m, nresults, cont) ==
    LET v == m.stack[m.top - 1]
        pop == [m EXCEPT !.top = @ - 1]
        r == cont[2]
        loop == [m EXCEPT !.top = Frame(m).top]
    IN  CASE cont = <<>> -> IF nresults >= 0 THEN [m EXCEPT !.top = Frame(m).top] ELSE m
          [] cont # <<>> /\ cont[1] = "drop" -> m
          [] cont # <<>> /\ cont[1] = "main" -> [m EXCEPT !.status = <<"done", SubSeq(m.stack, 1, m.top - 1)>>]
          [] cont # <<>> /\ cont[1] = "res"  -> Set(pop, r, v)
          [] cont # <<>> /\ cont[1] = "test" -> Skip(pop, ~IsFalse(v) = r)
          [] cont # <<>> /\ cont[1] = "concat" ->
               ConcatFrom(SetReg(pop, cont[3] - 1, v), r - 1, cont[3] - 1)
          [] cont # <<>> /\ cont[1] = "tfor" ->
               IF Reg(m, r + 3) = Nil THEN Skip(loop, FALSE)
               ELSE Skip(SetReg(loop, r + 2, Reg(m, r + 3)), TRUE)

\* luaD_precall; a value that is not a function needs a __call metamethod, and
\* becomes its first argument (tryfuncTM).
Precall(m, func, nresults, cont) ==
    LET f == m.stack[func]
        tm == TM(m, f, "__call")
        shifted == [m EXCEPT !.stack = PutAll(@, func, <<tm>> \o SubSeq(@, func, m.top - 1)),
                             !.top = @ + 1]
        args == Args(m, func)
    IN  CASE f[1] = "function" -> Enter(m, func, nresults, cont)
          [] f[1] = "native" ->
               Continue(MoveResults(NativeEffect(m, f[2], args), func,
                                    NativeResults(m, f[2], args), nresults), nresults, cont)
          [] ~IsFunction(f) /\ IsFunction(tm) -> Precall(shifted, func, nresults, cont)
          [] OTHER -> Typeerror(m, "call", func - Frame(m).base)

\* OP_RETURN: the upvalues of the activation close, then luaD_poscall.
ReturnFrom(m, first) ==
    LET c == Frame(m)
        closed == Close(m, c.base)
        results == SubSeq(closed.stack, first, closed.top - 1)
        caller == [closed EXCEPT !.ci = Front(@), !.pc = IF Len(m.ci) > 1 THEN m.ci[Len(m.ci) - 1].savedpc ELSE 0]
    IN  Continue(MoveResults(caller, c.func, results, c.nresults), c.nresults, c.cont)

-----------------------------------------------------------------------------
(* One instruction i, of activation m, its pc already advanced.              *)

\* The value of t[k] goes to stack position res; r is t's register.
Gettable(m, t, k, res, r) ==
    LET c == Chain(m, t, k, "__index", MAXTAGLOOP)
    IN  CASE c.how = "raw"   -> Set(m, res, RawGet(m, c.t, k))
          [] c.how = "call"  -> CallTMres(m, res, c.tm, c.t, k)
          [] c.how = "loop"  -> Runerror(m, "loop in gettable")
          [] c.how = "first" -> Typeerror(m, "index", r)
          [] c.how = "later" -> Typeerror(m, "index", NO_REG)
Settable(m, t, k, v, r) ==
    LET c == Chain(m, t, k, "__newindex", MAXTAGLOOP)
        push == [m EXCEPT !.stack = PutAll(@, m.top, <<c.tm, c.t, k, v>>), !.top = @ + 4]
    IN  CASE k = Nil /\ t[1] = "table" -> Runerror(m, "index is nil")
          [] c.how = "raw"   -> RawSet(m, c.t, k, v)
          [] c.how = "call"  -> Precall(push, m.top, 0, <<"drop">>)
          [] c.how = "loop"  -> Runerror(m, "loop in settable")
          [] c.how = "first" -> Typeerror(m, "index", r)
          [] c.how = "later" -> Typeerror(m, "index", NO_REG)
Globals == Table(1)

Load(m, i) ==
    CASE i.op = "MOVE"     -> SetReg(m, i.a, Reg(m, i.b))
      [] i.op = "LOADK"    -> SetReg(m, i.a, K(m, i.b))
      [] i.op = "LOADBOOL" -> [SetReg(m, i.a, Bool(i.b = 1)) EXCEPT !.pc = @ + i.c]
      [] i.op = "LOADNIL"  -> [m EXCEPT !.stack = PutAll(@, Frame(m).base + i.a, Nils(i.b - i.a + 1))]
      [] i.op = "GETUPVAL" -> SetReg(m, i.a, Upvalue(m, i.b))
      [] i.op = "SETUPVAL" -> SetUpvalue(m, i.b, Reg(m, i.a))
      [] i.op = "NEWTABLE" -> SetReg(NewTable(m, <<>>), i.a, Table(Len(m.tables) + 1))
      [] i.op = "NOT"      -> SetReg(m, i.a, Bool(IsFalse(Reg(m, i.b))))

Get(m, i) ==
    LET global == i.op = "GETGLOBAL"
    IN  Gettable(IF i.op = "SELF" THEN SetReg(m, i.a + 1, Reg(m, i.b)) ELSE m,
                 IF global THEN Globals ELSE Reg(m, i.b), IF global THEN K(m, i.b) ELSE RKv(m, i.c),
                 Frame(m).base + i.a, IF global THEN NO_REG ELSE i.b)
Setting(m, i) ==
    LET global == i.op = "SETGLOBAL"
    IN  Settable(m, IF global THEN Globals ELSE Reg(m, i.a), IF global THEN K(m, i.b) ELSE RKv(m, i.b),
                 IF global THEN Reg(m, i.a) ELSE RKv(m, i.c), IF global THEN NO_REG ELSE i.a)

Events == [ADD |-> "__add", SUB |-> "__sub", MUL |-> "__mul", UNM |-> "__unm", LEN |-> "__len"]
Arithmetic(m, i) ==
    LET rc == IF i.op = "UNM" THEN i.b ELSE i.c
        b == RKv(m, i.b)
        c == RKv(m, rc)
        tm == BinTM(m, b, c, Events[i.op])
    IN  IF b[1] = "number" /\ c[1] = "number" THEN SetReg(m, i.a, Num(Fold(i.op, b[2], c[2])))
        ELSE IF tm # Nil THEN CallTMres(m, Frame(m).base + i.a, tm, b, c)
        ELSE Typeerror(m, "arithmetic", IF b[1] # "number" THEN i.b ELSE rc)

Length(m, i) ==
    LET v == Reg(m, i.b)
    IN  CASE v[1] = "table"  -> SetReg(m, i.a, Num(Getn(m, v)))
          [] v[1] = "string" -> SetReg(m, i.a, Num(Len(v[2])))
          [] OTHER -> Typeerror(m, "length", i.b)

\* get_compTM and call_orderTM: both operands must have the same metamethod.
CompTM(m, a, b, event) == IF TM(m, a, event) = TM(m, b, event) THEN TM(m, a, event) ELSE Nil
Compare(m, i) ==
    LET b == RKv(m, i.b)
        c == RKv(m, i.c)
        want == i.a = 1
        tables == b[1] = "table" /\ c[1] = "table"
        tm == CompTM(m, b, c, CASE i.op = "EQ" -> "__eq" [] i.op = "LT" -> "__lt"
                                [] i.op = "LE" -> "__le")
        lt == CompTM(m, c, b, "__lt")
        Holds(p) == Skip(m, p = want)
    IN  CASE i.op = "EQ" /\ (~tables \/ b = c \/ tm = Nil) -> Holds(b = c)
          [] i.op = "LT" /\ b[1] = "number" /\ c[1] = "number" -> Holds(b[2] < c[2])
          [] i.op = "LE" /\ b[1] = "number" /\ c[1] = "number" -> Holds(b[2] <= c[2])
          [] tables /\ tm # Nil /\ (i.op = "EQ" => b # c) -> CallTest(m, tm, b, c, want)
          [] i.op = "LE" /\ tables /\ tm = Nil /\ lt # Nil -> CallTest(m, lt, c, b, ~want)
          [] OTHER -> Runerror(m, "compare")

Test(m, i) ==
    LET v == Reg(m, IF i.op = "TEST" THEN i.a ELSE i.b)
        taken == ~IsFalse(v) = (i.c = 1)
    IN  Skip(IF i.op = "TESTSET" /\ taken THEN SetReg(m, i.a, v) ELSE m, taken)

For(m, i) ==
    LET idx == Reg(m, i.a)
        limit == Reg(m, i.a + 1)
        step == Reg(m, i.a + 2)
        next == Num(idx[2] + step[2])
        more == IF 0 < step[2] THEN next[2] <= limit[2] ELSE limit[2] <= next[2]
    IN  CASE i.op = "FORPREP" /\ {idx[1], limit[1], step[1]} # {"number"} -> Runerror(m, "for")
          [] i.op = "FORPREP" /\ {idx[1], limit[1], step[1]} = {"number"} ->
               [SetReg(m, i.a, Num(idx[2] - step[2])) EXCEPT !.pc = @ + i.b]
          [] i.op = "FORLOOP" /\ more ->
               [SetReg(SetReg(m, i.a, next), i.a + 3, next) EXCEPT !.pc = @ + i.b]
          [] OTHER -> m

Call(m, i) ==
    LET ra == Frame(m).base + i.a
        called == IF i.b = 0 THEN m ELSE [m EXCEPT !.top = ra + i.b]
        copy == [m EXCEPT !.stack = PutAll(@, ra + 3, <<Reg(m, i.a), Reg(m, i.a + 1), Reg(m, i.a + 2)>>),
                          !.top = ra + 6]
    IN  CASE i.op = "CALL" -> Precall(called, ra, i.c - 1, <<>>)
          [] i.op = "TFORLOOP" -> Precall(copy, ra + 3, i.c, <<"tfor", i.a>>)

\* A tail call to a Lua function, which Precall has entered in n, moves the new
\* activation over the old one.
MoveDown(n, old, new) ==
    LET down == new.func - old.func
    IN  [Close(n, old.base) EXCEPT
            !.stack = PutAll(@, old.func, SubSeq(@, new.func, n.top - 1)),
            !.top = @ - down,
            !.ci = Append(SubSeq(@, 1, Len(@) - 2),
                          [old EXCEPT !.base = new.base - down, !.top = n.top - down])]
TailFrom(m, n) == IF n.status # Running \/ Len(n.ci) = Len(m.ci) THEN n
                  ELSE MoveDown(n, n.ci[Len(n.ci) - 1], Last(n.ci))
Tailcall(m, i) ==
    LET ra == Frame(m).base + i.a
    IN  TailFrom(m, Precall(IF i.b = 0 THEN m ELSE [m EXCEPT !.top = ra + i.b], ra, LUA_MULTRET, <<>>))

Return(m, i) ==
    LET ra == Frame(m).base + i.a
    IN  ReturnFrom(IF i.b = 0 THEN m ELSE [m EXCEPT !.top = ra + i.b - 1], ra)

SetList(m, i) ==
    LET ra == Frame(m).base + i.a
        t == Reg(m, i.a)[2]
        n == IF i.b = 0 THEN m.top - ra - 1 ELSE i.b
        first == ((IF i.c = 0 THEN Batch(Raw(At(Pt(m), m.pc))) ELSE i.c) - 1) * FieldsPerFlush
        items == [k \in {Num(first + j) : j \in 1..n} |-> m.stack[ra + k[2] - first]]
        all == items @@ m.tables[t].map
    IN  [m EXCEPT !.tables[t].map = [k \in {k \in DOMAIN all : all[k] # Nil} |-> all[k]],
                  !.top = IF i.b = 0 THEN Frame(m).top ELSE @,
                  !.pc = IF i.c = 0 THEN @ + 1 ELSE @]

MakeClosure(m, i) ==
    LET p == Pt(m).p[i.b + 1]
        n == p.nups
        capture(a, j) ==
            LET d == At(Pt(m), m.pc + j - 1)
                f == Findupval(a.m, Frame(m).base + d.b)
            IN  IF d.op = "GETUPVAL" THEN [a EXCEPT !.uvs = Append(@, Closure(m).upvals[d.b + 1])]
                ELSE [m |-> f.m, uvs |-> Append(a.uvs, f.uv)]
        c == Through(capture, [m |-> m, uvs |-> <<>>], [j \in 1..n |-> j])
    IN  [SetReg(c.m, i.a, Function(Len(m.closures) + 1)) EXCEPT
            !.pc = @ + n, !.closures = Append(@, [p |-> p, upvals |-> c.uvs])]

Vararg(m, i) ==
    LET c == Frame(m)
        n == c.base - c.func - 1 - Pt(m).numparams
        args == SubSeq(m.stack, c.base - n, c.base - 1)
        b == i.b - 1
        ra == c.base + i.a
    IN  IF b = LUA_MULTRET THEN [m EXCEPT !.stack = PutAll(@, ra, args), !.top = ra + n]
        ELSE [m EXCEPT !.stack = PutAll(@, ra, SubSeq(args \o Nils(b), 1, b))]

-----------------------------------------------------------------------------
(* The program.                                                              *)

Execute(ops, Effect(_, _)) ==
    /\ main # NotCompiled /\ L.status = Running /\ steps < MaxSteps
    /\ LET i == At(Pt(L), L.pc)
       IN  i.op \in ops /\ L' = Effect([L EXCEPT !.pc = @ + 1], i)
    /\ steps' = steps + 1
    /\ UNCHANGED <<prog, main>>

DoLoad == Execute({"MOVE", "LOADK", "LOADBOOL", "LOADNIL", "GETUPVAL", "SETUPVAL",
                   "NEWTABLE", "NOT"}, Load)
DoGet == Execute({"GETGLOBAL", "GETTABLE", "SELF"}, Get)
DoSet == Execute({"SETGLOBAL", "SETTABLE"}, Setting)
DoArith == Execute({"ADD", "SUB", "MUL", "UNM"}, Arithmetic)
DoLen == Execute({"LEN"}, Length)
DoConcat == Execute({"CONCAT"}, LAMBDA m, i : ConcatFrom(m, i.c - i.b + 1, i.c))
DoJump == Execute({"JMP"}, LAMBDA m, i : [m EXCEPT !.pc = @ + i.b])
DoCompare == Execute({"EQ", "LT", "LE"}, Compare)
DoTest == Execute({"TEST", "TESTSET"}, Test)
DoFor == Execute({"FORPREP", "FORLOOP"}, For)
DoCall == Execute({"CALL", "TFORLOOP"}, Call)
DoTailcall == Execute({"TAILCALL"}, Tailcall)
DoReturn == Execute({"RETURN"}, Return)
DoSetList == Execute({"SETLIST"}, SetList)
DoClose == Execute({"CLOSE"}, LAMBDA m, i : Close(m, Frame(m).base + i.a))
DoClosure == Execute({"CLOSURE"}, MakeClosure)
DoVararg == Execute({"VARARG"}, Vararg)

Natives == {"emit", "setmetatable", "upto"}
Fresh == [stack |-> <<Function(1)>>, top |-> 2, ci |-> <<>>, pc |-> 0, open |-> <<>>,
          upvals |-> <<>>, closures |-> <<>>,
          tables |-> <<[map |-> [s \in {Str(f) : f \in Natives} |-> Native(s[2])], meta |-> 0]>>,
          out |-> <<>>, status |-> Running]

\* lua_load compiles the program and lua_call enters it.
Compile ==
    /\ main = NotCompiled
    /\ main' = Compiler(prog)
    /\ L' = [Fresh EXCEPT !.ci = <<[func |-> 1, base |-> 2, top |-> 2 + main'.maxstacksize,
                                    savedpc |-> 0, nresults |-> LUA_MULTRET, cont |-> <<"main">>]>>,
                          !.closures = <<[p |-> main', upvals |-> <<>>]>>,
                          !.stack = @ \o Nils(main'.maxstacksize),
                          !.top = 2 + main'.maxstacksize]
    /\ UNCHANGED <<prog, steps>>

\* The program is over.
Stop == L.status # Running /\ UNCHANGED vars

Next == \/ Compile \/ DoLoad \/ DoGet \/ DoSet \/ DoArith \/ DoLen \/ DoConcat \/ DoJump
        \/ DoCompare \/ DoTest \/ DoFor \/ DoCall \/ DoTailcall \/ DoReturn
        \/ DoSetList \/ DoClose \/ DoClosure \/ DoVararg \/ Stop
InitWith(Programs) == /\ prog \in Programs
                      /\ main = NotCompiled /\ L = Fresh /\ steps = 0

-----------------------------------------------------------------------------
(* Safety.                                                                   *)

Compiled == main # NotCompiled

\* A compiled program does what its source says: it emits the same values in
\* the same order and ends with the same results, or fails at the same point
\* with the same error, naming the same variable.
BehavesAsWritten == L.status # Running => [out |-> L.out, status |-> L.status] = Outcome(prog)

\* The code generator never frees a register out of order, patches a jump to
\* nowhere, leaves a temporary behind, or breaks another of the assertions of
\* lcode.c and lparser.c that ok records (LuaCode), which the build leaves out.
GeneratorAssertions == Compiled => main.ok

\* Every function the compiler makes is code that luaG_checkcode accepts
\* (lparser.c:420): registers within the frame, jumps within the code, open
\* results taken up at once.
RECURSIVE Verified(_)
Verified(p) == Checkcode(p) /\ \A i \in DOMAIN p.p : Verified(p.p[i])
CodeVerifies == Compiled => Verified(main)

\* Before each instruction the stack's top is the frame's, unless that
\* instruction takes the open results just left (lvm.c:464-465), however calls,
\* metamethods, tail calls and varargs went before; and the open upvalues are
\* one for each captured slot, in the order of the stack, and only of slots of
\* activations still running: all others have their value.
TopIsFrameTop ==
    Compiled /\ L.status = Running =>
        /\ Frame(L).base <= L.top
        /\ L.top = Frame(L).top \/ CheckOpenop(At(Pt(L), L.pc))
OpenUpvaluesInOrder ==
    /\ \A i, j \in DOMAIN L.open : i < j => L.upvals[L.open[i]].level > L.upvals[L.open[j]].level
    /\ \A u \in DOMAIN L.upvals : (L.upvals[u].level > 0) = (u \in ToSet(L.open))
    /\ L.status = Running => \A u \in ToSet(L.open) : L.upvals[u].level < Frame(L).top
    /\ L.status[1] = "done" => L.open = <<>>
StackInOrder == TopIsFrameTop /\ OpenUpvaluesInOrder
=============================================================================
