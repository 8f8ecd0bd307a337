------------------------------ MODULE LuaParser ------------------------------
(* The one-pass compiler, src/lua/src/lparser.c: scopes, upvalues, and the   *)
(* code of every statement and expression.                                   *)
(*                                                                           *)
(* The parser reads tokens; here it walks the tree that the tokens spell, in *)
(* the order of the tokens.  Expressions and statements are tuples whose     *)
(* first component is the construct.  An operand of lower priority is taken  *)
(* to be written in parentheses, as the grammar requires.                    *)
(*                                                                           *)
(* S is the chain of functions being compiled, innermost last.  A FuncState  *)
(* has, besides LuaCode's fields, its local variables (locvars, with the     *)
(* ranges of code where they live, and actvar, the indices of the active     *)
(* ones), its upvalues, its blocks bl, innermost last, and its finished      *)
(* nested functions p.                                                       *)
EXTENDS LuaCode

Top(S) == S[Len(S)]
With(S, f) == [S EXCEPT ![Len(S)] = f]
P(S, r) == [s |-> With(S, r.f), e |-> r.e]
OnlyExp(S, e) == [s |-> S, e |-> e]
Hasmultret(e) == e.k \in {"VCALL", "VVARARG"}
VoidExp == Exp("VVOID", 0)

NewFuncState ==
    [code |-> <<>>, k |-> <<>>, freereg |-> 0, nactvar |-> 0, jpc |-> NO_JUMP,
     lasttarget |-> -1, maxstacksize |-> 2, ok |-> TRUE, locvars |-> <<>>,
     actvar |-> <<>>, upvalues |-> <<>>, bl |-> <<>>, p |-> <<>>,
     numparams |-> 0, is_vararg |-> {}]

-----------------------------------------------------------------------------
(* Local variables, upvalues and blocks.                                     *)

\* new_localvar of several names, then adjustlocalvars: they become active
\* here.  (registerlocalvar numbers them; only active ones are found.)
NewLocals(f, names) ==
    [f EXCEPT !.locvars = @ \o [i \in 1..Len(names) |->
                             [name |-> names[i], startpc |-> Pc(f), endpc |-> -1]],
              !.actvar = @ \o [i \in 1..Len(names) |-> Len(f.locvars) + i],
              !.nactvar = @ + Len(names)]
Removevars(f, level) ==
    [f EXCEPT !.locvars = [i \in DOMAIN @ |->
                 IF \E j \in (level + 1)..f.nactvar : f.actvar[j] = i
                 THEN [@[i] EXCEPT !.endpc = Pc(f)] ELSE @[i]],
              !.actvar = SubSeq(@, 1, level),
              !.nactvar = level]
Searchvar(f, n) ==
    LET at == {i \in 1..f.nactvar : f.locvars[f.actvar[i]].name = n}
    IN  IF at = {} THEN -1 ELSE (CHOOSE i \in at : \A j \in at : j <= i) - 1

\* The innermost block that declares the variable will have to close it.
Markupval(f, level) ==
    LET owners == {b \in 1..Len(f.bl) : f.bl[b].nactvar <= level}
    IN  IF owners = {} THEN f
        ELSE [f EXCEPT !.bl[CHOOSE b \in owners : \A c \in owners : c <= b].upval = TRUE]

Indexupvalue(f, n, v) ==
    LET u == [name |-> n, k |-> v.k, info |-> v.info]
        same == {i \in 1..Len(f.upvalues) : f.upvalues[i].k = v.k
                                            /\ f.upvalues[i].info = v.info}
    IN  IF same = {} THEN R(LuaAssert([f EXCEPT !.upvalues = Append(@, u)], v.k \in {"VLOCAL", "VUPVAL"}),
                            Exp("VUPVAL", Len(f.upvalues)))
        ELSE LET i == CHOOSE i \in same : TRUE
             IN  R(LuaAssert(f, f.upvalues[i].name = n), Exp("VUPVAL", i - 1))

\* Looks the name up outwards; each function in between gets an upvalue.
RECURSIVE SinglevarAux(_, _, _, _)
SinglevarAux(S, level, n, base) ==
    LET v == Searchvar(S[level], n)
        up == SinglevarAux(S, level - 1, n, FALSE)
        own == Indexupvalue(up.s[level], n, up.e)
    IN  CASE level = 0 -> OnlyExp(S, Exp("VGLOBAL", NO_REG))
          [] level > 0 /\ v >= 0 ->
               OnlyExp(IF base THEN S ELSE [S EXCEPT ![level] = Markupval(@, v)],
                       Exp("VLOCAL", v))
          [] level > 0 /\ v < 0 /\ up.e.k = "VGLOBAL" -> up
          [] OTHER -> [s |-> [up.s EXCEPT ![level] = own.f], e |-> own.e]
Singlevar(S, n) ==
    LET r == SinglevarAux(S, Len(S), n, TRUE)
        f == StringK(Top(r.s), n)
    IN  IF r.e.k = "VGLOBAL" THEN P(r.s, R(f, Exp("VGLOBAL", KIndex(f, Str(n))))) ELSE r

AdjustAssign(f, nvars, nexps, e) ==
    LET extra == nvars - nexps
        open  == IF extra + 1 < 0 THEN 0 ELSE extra + 1
        g == Setreturns(f, e, open)
        h == IF e.k = "VVOID" THEN f ELSE Exp2nextreg(f, e).f
    IN  CASE Hasmultret(e) /\ open > 1 -> Reserveregs(g, open - 1)
          [] Hasmultret(e) /\ open <= 1 -> g
          [] ~Hasmultret(e) /\ extra > 0 -> LoadNil(Reserveregs(h, extra), h.freereg, extra)
          [] OTHER -> h

Enterblock(f, isbreakable) ==
    LuaAssert([f EXCEPT !.bl = Append(@, [breaklist |-> NO_JUMP, upval |-> FALSE,
                                          nactvar |-> f.nactvar,
                                          isbreakable |-> isbreakable])],
              f.freereg = f.nactvar)
Leaveblock(f0) ==
    LET b == Last(f0.bl)
        f == Removevars([f0 EXCEPT !.bl = Front(@)], b.nactvar)
        g == IF b.upval THEN CodeABC(f, "CLOSE", b.nactvar, 0, 0) ELSE f
    IN  Patchtohere([LuaAssert(g, ~(b.isbreakable /\ b.upval)) EXCEPT !.freereg = g.nactvar],
                    b.breaklist)

\* What close_func leaves of a function: its prototype.  up tells pushclosure
\* where each upvalue comes from.
Proto(f) == [code |-> f.code, k |-> f.k, p |-> f.p, numparams |-> f.numparams,
             is_vararg |-> f.is_vararg, maxstacksize |-> f.maxstacksize,
             nups |-> Len(f.upvalues), upnames |-> [i \in 1..Len(f.upvalues) |-> f.upvalues[i].name],
             locvars |-> f.locvars, ok |-> f.ok]
CloseFunc(f) == Proto(LuaAssert(Ret(Removevars(f, 0), 0, 0), f.bl = <<>>))

Pushclosure(f, proto, ups) ==
    LET g == [CodeABx(f, "CLOSURE", 0, Len(f.p)) EXCEPT
                 !.p = Append(@, proto), !.ok = @ /\ proto.ok]
    IN  R(Through(LAMBDA h, u : CodeABC(h, IF u.k = "VLOCAL" THEN "MOVE" ELSE "GETUPVAL",
                                         0, u.info, 0), g, ups),
          Exp("VRELOCABLE", Pc(g) - 1))

-----------------------------------------------------------------------------
(* Expressions.                                                              *)

Priority(op) == CASE op = "or" -> 1 [] op = "and" -> 2
                  [] op \in {"==", "~=", "<", "<=", ">", ">="} -> 3
                  [] op = ".." -> 5 [] op \in {"+", "-"} -> 6 [] op = "*" -> 7
RightPriority(op) == IF op = ".." THEN 4 ELSE Priority(op)
InParens(x, needed) == IF x[1] = "bin" /\ needed THEN <<"paren", x>> ELSE x
LeftOperand(op, x) == InParens(x, x[1] = "bin" /\ RightPriority(x[2]) < Priority(op))
RightOperand(op, x) == InParens(x, x[1] = "bin" /\ Priority(x[2]) <= RightPriority(op))

Codestring(S, str) == LET f == StringK(Top(S), str)
                      IN  P(S, R(f, Exp("VK", KIndex(f, Str(str)))))
Setcode(f, pc, i) == [f EXCEPT !.code[pc + 1] = i]

RECURSIVE Expr(_, _)
RECURSIVE Explist1(_, _)
RECURSIVE Body(_, _, _, _, _)
RECURSIVE Constructor(_, _)
RECURSIVE Chunk(_, _)

\* The key of an index, evaluated once the table is in a register.
Yindex(S, x) == LET r == Expr(S, x) IN P(r.s, Exp2val(Top(r.s), r.e))

\* Arguments for the function in e, which is at the top of the stack.
Funcargs(S, e, args) ==
    LET a == Explist1(S, args)
        f == CASE args = <<>> -> Top(S)
               [] args # <<>> /\ Hasmultret(a.e) -> Setreturns(Top(a.s), a.e, LUA_MULTRET)
               [] OTHER -> Exp2nextreg(Top(a.s), a.e).f
        nparams == IF args # <<>> /\ Hasmultret(a.e) THEN LUA_MULTRET
                   ELSE f.freereg - (e.info + 1)
        g == LuaAssert(CodeABC(f, "CALL", e.info, nparams + 1, 2), e.k = "VNONRELOC")
    IN  P(IF args = <<>> THEN S ELSE a.s,
          R([g EXCEPT !.freereg = e.info + 1], Exp("VCALL", Pc(f))))

PrimaryExp(S, x) ==
    LET o == Expr(S, x[2])
        t == P(o.s, Exp2anyreg(Top(o.s), o.e))
        k == Yindex(t.s, x[3])
        fn == P(o.s, Exp2nextreg(Top(o.s), o.e))
        name == Codestring(o.s, x[3])
        self == P(name.s, Self(Top(name.s), o.e, name.e))
    IN  CASE x[1] = "name"   -> Singlevar(S, x[2])
          [] x[1] = "paren"  -> P(o.s, Dischargevars(Top(o.s), o.e))
          [] x[1] = "index"  -> P(k.s, Indexed(Top(k.s), t.e, k.e))
          [] x[1] = "call"   -> Funcargs(fn.s, fn.e, x[3])
          [] x[1] = "method" -> Funcargs(self.s, self.e, x[4])

SimpleExp(S, x) ==
    LET f == Top(S)
        vararg == [f EXCEPT !.is_vararg = @ \ {"NEEDSARG"}]
    IN  CASE x[1] = "num"   -> OnlyExp(S, Exp("VKNUM", x[2]))
          [] x[1] = "str"   -> Codestring(S, x[2])
          [] x[1] = "nil"   -> OnlyExp(S, Exp("VNIL", 0))
          [] x[1] = "true"  -> OnlyExp(S, Exp("VTRUE", 0))
          [] x[1] = "false" -> OnlyExp(S, Exp("VFALSE", 0))
          [] x[1] = "..."   -> P(S, R(CodeABC(vararg, "VARARG", 0, 1, 0),
                                      Exp("VVARARG", Pc(f))))
          [] x[1] = "table" -> Constructor(S, x[2])
          [] x[1] = "function" -> Body(S, FALSE, x[2], x[3], x[4])
          [] OTHER -> PrimaryExp(S, x)

\* subexpr: the left operand is prepared by luaK_infix before the right one
\* is read, and luaK_posfix combines them.
Expr(S, x) ==
    LET u  == Expr(S, InParens(x[3], TRUE))
        v  == Expr(S, LeftOperand(x[2], x[3]))
        i  == P(v.s, Infix(Top(v.s), x[2], v.e))
        v2 == Expr(i.s, RightOperand(x[2], x[4]))
    IN  CASE x[1] = "un"  -> P(u.s, Prefix(Top(u.s), x[2], u.e))
          [] x[1] = "bin" -> P(v2.s, Posfix(Top(v2.s), x[2], i.e, v2.e))
          [] OTHER -> SimpleExp(S, x)

\* All but the last value go to the stack.
Explist1(S, xs) ==
    LET first == Expr(S, xs[1])
        more(r, x) == Expr(P(r.s, Exp2nextreg(Top(r.s), r.e)).s, x)
    IN  Through(more, first, Tail(xs))

\* A table constructor: cc is the ConsControl, v the pending list item.
Closelistfield(cc, t) ==
    LET r == P(cc.s, Exp2nextreg(Top(cc.s), cc.v))
        full == cc.tostore = FieldsPerFlush
    IN  IF cc.v.k = "VVOID" THEN cc
        ELSE [cc EXCEPT !.v = VoidExp,
                        !.s = IF full THEN With(r.s, Setlist(Top(r.s), t, cc.na, cc.tostore))
                              ELSE r.s,
                        !.tostore = IF full THEN 0 ELSE @]
Lastlistfield(cc, t) ==
    LET f == Top(cc.s)
        g == IF cc.v.k = "VVOID" THEN f ELSE Exp2nextreg(f, cc.v).f
    IN  CASE cc.tostore = 0 -> cc
          [] cc.tostore # 0 /\ Hasmultret(cc.v) ->
               [cc EXCEPT !.s = With(@, Setlist(Setreturns(f, cc.v, LUA_MULTRET), t,
                                                cc.na, LUA_MULTRET)),
                          !.na = @ - 1]
          [] OTHER -> [cc EXCEPT !.s = With(@, Setlist(g, t, cc.na, cc.tostore))]
Recfield(cc, t, item) ==
    LET reg == Top(cc.s).freereg
        y   == IF item[2][1] = "str" THEN Codestring(cc.s, item[2][2]) ELSE Yindex(cc.s, item[2])
        key == P(y.s, Exp2RK(Top(y.s), y.e))
        v   == Expr(key.s, item[3])
        val == Exp2RK(Top(v.s), v.e)
        f   == CodeABC(val.f, "SETTABLE", t, RK(key.e), RK(val.e))
    IN  [cc EXCEPT !.s = With(v.s, [f EXCEPT !.freereg = reg]), !.nh = @ + 1]
Listfield(cc, item) ==
    LET r == Expr(cc.s, item[2])
    IN  [cc EXCEPT !.s = r.s, !.v = r.e, !.na = @ + 1, !.tostore = @ + 1]

\* The sizes in NEWTABLE are those of the items counted (luaO_int2fb rounds
\* them up for the VM, which only uses them to size the table).
Constructor(S, items) ==
    LET pc == Pc(Top(S))
        t  == P(S, Exp2nextreg(CodeABC(Top(S), "NEWTABLE", 0, 0, 0), Exp("VRELOCABLE", pc)))
        begun(cc) == [cc EXCEPT !.s = With(@, LuaAssert(Top(@), cc.v.k = "VVOID" \/ cc.tostore > 0))]
        item(cc0, it) == LET cc == Closelistfield(begun(cc0), t.e.info)
                         IN  IF it[1] = "rec" THEN Recfield(cc, t.e.info, it)
                             ELSE Listfield(cc, it)
        cc == Lastlistfield(begun(Through(item, [s |-> t.s, v |-> VoidExp, nh |-> 0, na |-> 0,
                                                  tostore |-> 0], items)), t.e.info)
        i  == At(Top(cc.s), pc)
    IN  OnlyExp(With(cc.s, Setcode(Top(cc.s), pc, Ins("NEWTABLE", i.a, cc.na, cc.nh))), t.e)

\* parlist and body.  A vararg function also gets the parameter arg, which
\* holds the arguments if the body does not use "..." (LUA_COMPAT_VARARG).
Body(S, needself, params, isvararg, block) ==
    LET names == (IF needself THEN <<"self">> ELSE <<>>) \o params
                   \o (IF isvararg THEN <<"arg">> ELSE <<>>)
        f0 == NewLocals(NewFuncState, names)
        f1 == [f0 EXCEPT !.is_vararg = IF isvararg THEN {"HASARG", "NEEDSARG", "ISVARARG"} ELSE {},
                         !.numparams = f0.nactvar - (IF isvararg THEN 1 ELSE 0)]
        B  == Chunk(Append(S, Reserveregs(f1, f1.nactvar)), block)
    IN  P(Front(B), Pushclosure(Top(Front(B)), CloseFunc(Top(B)), Top(B).upvalues))

-----------------------------------------------------------------------------
(* Statements.                                                               *)

Block(S, block) ==
    LET B == Chunk(With(S, Enterblock(Top(S), FALSE)), block)
    IN  With(B, Leaveblock(LuaAssert(Top(B), Last(Top(B).bl).breaklist = NO_JUMP)))

\* mutant: only the table is looked at, not the key
CheckConflictTableOnly(f, lhs, v) ==
    LET clash(l) == l.k = "VINDEXED" /\ v.info = l.info
        moved(l) == IF ~clash(l) THEN l
                    ELSE [l EXCEPT !.info = IF @ = v.info THEN f.freereg ELSE @,
                                   !.aux  = IF @ = v.info THEN f.freereg ELSE @]
        conflict == v.k = "VLOCAL" /\ \E l \in ToSet(lhs) : clash(l)
    IN  [f |-> IF conflict THEN Reserveregs(CodeABC(f, "MOVE", f.freereg, v.info, 0), 1) ELSE f,
         lhs |-> IF conflict THEN [i \in DOMAIN lhs |-> moved(lhs[i])] ELSE lhs]

\* A local assigned after it was used to index a table in the same statement:
\* the earlier target gets a copy.  lhs are the targets read so far.
CheckConflict(f, lhs, v) ==
    LET clash(l) == l.k = "VINDEXED" /\ v.info \in {l.info, l.aux}
        moved(l) == IF ~clash(l) THEN l
                    ELSE [l EXCEPT !.info = IF @ = v.info THEN f.freereg ELSE @,
                                   !.aux  = IF @ = v.info THEN f.freereg ELSE @]
        conflict == v.k = "VLOCAL" /\ \E l \in ToSet(lhs) : clash(l)
    IN  [f |-> IF conflict THEN Reserveregs(CodeABC(f, "MOVE", f.freereg, v.info, 0), 1) ELSE f,
         lhs |-> IF conflict THEN [i \in DOMAIN lhs |-> moved(lhs[i])] ELSE lhs]

Assignment(S, targets, exps) ==
    LET target(a, x) == LET r == PrimaryExp(a.s, x)
                            c == CheckConflict(Top(r.s), a.lhs, r.e)
                        IN  [s |-> With(r.s, c.f), lhs |-> Append(c.lhs, r.e)]
        T == Through(target, [s |-> S, lhs |-> <<>>], targets)
        E == Explist1(T.s, exps)
        nvars == Len(targets)
        nexps == Len(exps)
        adj == AdjustAssign(Top(E.s), nvars, nexps, E.e)
        one == Setoneret(Top(E.s), E.e)
        f == IF nexps = nvars THEN Storevar(one.f, Last(T.lhs), one.e)
             ELSE [adj EXCEPT !.freereg = IF nexps > nvars THEN @ - (nexps - nvars) ELSE @]
        store(g, l) == Storevar(g, l, Exp("VNONRELOC", g.freereg - 1))
        rest == IF nexps = nvars THEN Front(T.lhs) ELSE T.lhs
    IN  With(E.s, Through(store, f, Reverse(rest)))

\* The expression's exits when false, as e.f.
Cond(S, x) == LET r == Expr(S, x)
              IN  P(r.s, Goiftrue(Top(r.s), IF r.e.k = "VNIL" THEN [r.e EXCEPT !.k = "VFALSE"]
                                            ELSE r.e))

Breakstat(f) ==
    LET loops == {b \in 1..Len(f.bl) : f.bl[b].isbreakable}
        bl == CHOOSE b \in loops : \A c \in loops : c <= b
        upval == \E b \in (bl + 1)..Len(f.bl) : f.bl[b].upval
        g == IF upval THEN CodeABC(f, "CLOSE", f.bl[bl].nactvar, 0, 0) ELSE f
        j == Jump(g)
        old == f.bl[bl].breaklist
    IN  [Concat(j, old, Pc(g)) EXCEPT !.bl[bl].breaklist = Joined(old, Pc(g))]

\* A jump back to the label at pc.
Loopback(f, pc) == Patchlist(Jump(f), Pc(f), pc)

Whilestat(S, x, block) ==
    LET init == Pc(Top(S))
        c == Cond(With(S, Getlabel(Top(S))), x)
        B == Block(With(c.s, Enterblock(Top(c.s), TRUE)), block)
    IN  With(B, Patchtohere(Leaveblock(Loopback(Top(B), init)), c.e.f))

Repeatstat(S, block, x) ==
    LET init == Pc(Top(S))
        B == Chunk(With(S, Enterblock(Enterblock(Getlabel(Top(S)), TRUE), FALSE)), block)
        c == Cond(B, x)
        f == Top(c.s)
        noup == Patchlist(Leaveblock(f), c.e.f, init)
        up == Loopback(Leaveblock(Patchtohere(Breakstat(f), c.e.f)), init)
    IN  With(c.s, Leaveblock(IF Last(f.bl).upval THEN up ELSE noup))

\* forbody: base is the first of the three control registers.
Forbody(S, base, names, control, isnum, block) ==
    LET f0 == NewLocals(Top(S), control)
        prep == Pc(f0)
        f1 == IF isnum THEN CodeABx(f0, "FORPREP", base, NO_JUMP) ELSE Jump(f0)
        f2 == NewLocals(Enterblock(f1, FALSE), names)
        B  == Block(With(S, Reserveregs(f2, Len(names))), block)
        f3 == Patchtohere(Leaveblock(Top(B)), prep)
        f4 == IF isnum THEN CodeABx(f3, "FORLOOP", base, NO_JUMP)
              ELSE CodeABC(f3, "TFORLOOP", base, 0, Len(names))
    IN  With(B, IF isnum THEN Patchlist(f4, Pc(f3), prep + 1) ELSE Loopback(f4, prep + 1))

Exp1(S, x) == LET r == Expr(S, x) IN P(r.s, Exp2nextreg(Top(r.s), r.e)).s

Fornum(S, name, exps, block) ==
    LET base == Top(S).freereg
        E == Through(Exp1, S, exps)
        one == Addk(Top(E), Num(1))
        step == Reserveregs(CodeABx(one, "LOADK", one.freereg, KIndex(one, Num(1))), 1)
    IN  Forbody(IF Len(exps) = 3 THEN E ELSE With(E, step), base, <<name>>,
                <<"(for index)", "(for limit)", "(for step)">>, TRUE, block)

Forlist(S, names, exps, block) ==
    LET base == Top(S).freereg
        E == Explist1(S, exps)
        f == Checkstack(AdjustAssign(Top(E.s), 3, Len(exps), E.e), 3)
    IN  Forbody(With(E.s, f), base, names,
                <<"(for generator)", "(for state)", "(for control)">>, FALSE, block)

Forstat(S, st) ==
    LET L == With(S, Enterblock(Top(S), TRUE))
        B == IF st[1] = "fornum" THEN Fornum(L, st[2], st[3], st[4])
             ELSE Forlist(L, st[2], st[3], st[4])
    IN  With(B, Leaveblock(Top(B)))

\* Each clause but the last jumps over the rest when its block is done.
Ifstat(S, clauses, orelse) ==
    LET then(T, cl) == LET c == Cond(T, cl[1]) IN [s |-> Block(c.s, cl[2]), flist |-> c.e.f]
        escape(a) == LET f == Top(a.s)
                         g == Concat(Jump(f), a.escapes, Pc(f))
                     IN  [s |-> With(a.s, Patchtohere(g, a.flist)),
                          escapes |-> Joined(a.escapes, Pc(f))]
        elseif(a, cl) == LET e == escape(a)
                             t == then(e.s, cl)
                         IN  [s |-> t.s, flist |-> t.flist, escapes |-> e.escapes]
        one == then(S, clauses[1])
        all == Through(elseif, [s |-> one.s, flist |-> one.flist, escapes |-> NO_JUMP],
                        Tail(clauses))
        e == escape(all)
        E == Block(e.s, orelse[1])
        f == Top(all.s)
    IN  IF orelse # <<>> THEN With(E, Patchtohere(Top(E), e.escapes))
        ELSE With(all.s, Patchtohere(Concat(f, all.escapes, all.flist),
                                     Joined(all.escapes, all.flist)))

Localfunc(S, st) ==
    LET v == Exp("VLOCAL", Top(S).freereg)
        b == Body(With(S, NewLocals(Reserveregs(Top(S), 1), <<st[2]>>)), FALSE, st[3], st[4], st[5])
        f == Storevar(Top(b.s), v, b.e)
    IN  With(b.s, [f EXCEPT !.locvars[Last(f.actvar)].startpc = Pc(f)])

Localstat(S, names, exps) ==
    LET E == Explist1(S, exps)
        T == IF exps = <<>> THEN S ELSE E.s
        f == AdjustAssign(Top(T), Len(names), Len(exps), IF exps = <<>> THEN VoidExp ELSE E.e)
    IN  With(T, NewLocals(f, names))

Funcstat(S, st) ==
    LET v == PrimaryExp(S, st[2])
        b == Body(v.s, st[3], st[4], st[5], st[6])
    IN  With(b.s, Storevar(Top(b.s), v.e, b.e))

Exprstat(S, st) ==
    LET r == PrimaryExp(S, st[2])
    IN  IF st[1] = "callstat" THEN With(r.s, Setcode(Top(r.s), r.e.info,
                                            [GetCode(Top(r.s), r.e) EXCEPT !.c = 1]))
        ELSE Assignment(S, st[2], st[3])

\* In this port the else of "one value" binds to the test that LUAI_ERRORCHECK
\* expands to, so that one value is moved to the top of the stack as well.
Retstat(S, exps) ==
    LET E == Explist1(S, exps)
        f == Top(E.s)
        open == Setreturns(f, E.e, LUA_MULTRET)
        tail == E.e.k = "VCALL" /\ Len(exps) = 1
        call == GetCode(f, E.e)
        one == Exp2anyreg(f, E.e)
        v == IF Len(exps) = 1 THEN Exp2nextreg(one.f, one.e) ELSE Exp2nextreg(f, E.e)
    IN  CASE exps = <<>> -> With(S, Ret(Top(S), 0, 0))
          [] exps # <<>> /\ Hasmultret(E.e) ->
               With(E.s, Ret(IF tail THEN LuaAssert([open EXCEPT !.code[E.e.info + 1].op = "TAILCALL"],
                                                    call.a = f.nactvar)
                             ELSE open, f.nactvar, LUA_MULTRET))
          [] OTHER -> With(E.s, Ret(LuaAssert(v.f, Len(exps) = v.f.freereg - v.f.nactvar),
                                    v.f.nactvar, Len(exps)))

Statement(S, st) ==
    CASE st[1] = "if"     -> Ifstat(S, st[2], st[3])
      [] st[1] = "while"  -> Whilestat(S, st[2], st[3])
      [] st[1] = "do"     -> Block(S, st[2])
      [] st[1] \in {"fornum", "forin"} -> Forstat(S, st)
      [] st[1] = "repeat" -> Repeatstat(S, st[2], st[3])
      [] st[1] = "function" -> Funcstat(S, st)
      [] st[1] = "localfunction" -> Localfunc(S, st)
      [] st[1] = "local"  -> Localstat(S, st[2], st[3])
      [] st[1] = "return" -> Retstat(S, st[2])
      [] st[1] = "break"  -> With(S, Breakstat(Top(S)))
      [] st[1] \in {"callstat", "assign"} -> Exprstat(S, st)

\* After every statement the temporary registers are free again.
Chunk(S, block) ==
    LET stat(T, st) == LET U == Statement(T, st)
                           f == Top(U)
                       IN  With(U, [LuaAssert(f, /\ f.maxstacksize >= f.freereg
                                                 /\ f.freereg >= f.nactvar)
                                       EXCEPT !.freereg = f.nactvar])
    IN  Through(stat, S, block)

\* luaY_parser: the main function is vararg and has no upvalues.
Parse(block) ==
    LET S == Chunk(<<[NewFuncState EXCEPT !.is_vararg = {"ISVARARG"}]>>, block)
    IN  CloseFunc(LuaAssert(Top(S), Top(S).upvalues = <<>>))
=============================================================================
