----------------------------- MODULE LuaSemantics ----------------------------
(* What a program means: an interpreter of the source, with an environment   *)
(* that maps each name to a cell, and closures that keep the environment     *)
(* they were made in.  It knows no registers, jumps, upvalues or stack, and  *)
(* is what the compiled program is compared with.                            *)
(*                                                                           *)
(* r is the store: cells, tables, functions (closures), out, and err, empty  *)
(* until an error stops everything.  An environment has vars, from names to  *)
(* [cell, depth] (depth is the nesting of functions), depth, and va, the     *)
(* extra arguments.  Evaluation gives [r, vs], a store and a list of values. *)
EXTENDS LuaVM

None == <<>>
E(r, vs) == [r |-> r, vs |-> vs]
First(vs) == IF vs = <<>> THEN Nil ELSE vs[1]
Fail(r, what, name) == E([r EXCEPT !.err = IF @ = None THEN <<"error", what, name>> ELSE @], <<Nil>>)
Ok(r) == r.err = None

\* The variables names, new cells with the values vs, nil beyond them.
Declare(r, env, names, vs) ==
    LET n == Len(r.cells)
        vals == vs \o Nils(Len(names))
        newvars == Through(LAMBDA f, i : (names[i] :> [cell |-> n + i, depth |-> env.depth]) @@ f,
                            env.vars, [i \in 1..Len(names) |-> i])
    IN  [r |-> [r EXCEPT !.cells = @ \o SubSeq(vals, 1, Len(names))],
         env |-> [env EXCEPT !.vars = newvars]]

\* How an error message may call the value of x.
NameOf(env, x) ==
    CASE x[1] = "name" /\ x[2] \notin DOMAIN env.vars -> <<"global", x[2]>>
      [] x[1] = "name" /\ x[2] \in DOMAIN env.vars ->
           <<IF env.vars[x[2]].depth = env.depth THEN "local" ELSE "upvalue", x[2]>>
      [] x[1] = "index" /\ x[3][1] = "str" -> <<"field", x[3][2]>>
      [] OTHER -> NoName

RECURSIVE Eval(_, _, _)
RECURSIVE EvalList(_, _, _)
RECURSIVE Apply(_, _, _, _)
RECURSIVE IndexOf(_, _, _, _, _)
RECURSIVE SetIndex(_, _, _, _, _, _)
RECURSIVE Run(_, _, _)

Eval1(r, env, x) == LET e == Eval(r, env, x) IN E(e.r, <<First(e.vs)>>)
\* A metamethod's first result.
Meta(r, f, args) == LET e == Apply(r, f, args, NoName) IN E(e.r, <<First(e.vs)>>)

IndexOf(r, t, k, name, n) ==
    LET raw == RawGet(r, t, k)
        h == TM(r, t, "__index")
    IN  IF ~Ok(r) THEN E(r, <<Nil>>)
        ELSE IF n = 0 THEN Fail(r, "loop in gettable", NoName)
        ELSE IF t[1] = "table" /\ (raw # Nil \/ h = Nil) THEN E(r, <<raw>>)
        ELSE IF h = Nil THEN Fail(r, "index", name)
        ELSE IF IsFunction(h) THEN Meta(r, h, <<t, k>>)
        ELSE IndexOf(r, h, k, NoName, n - 1)
SetIndex(r, t, k, v, name, n) ==
    LET h == TM(r, t, "__newindex")
    IN  IF ~Ok(r) THEN r
        ELSE IF n = 0 THEN Fail(r, "loop in settable", NoName).r
        ELSE IF t[1] = "table" /\ k = Nil THEN Fail(r, "index is nil", NoName).r
        ELSE IF t[1] = "table" /\ (RawGet(r, t, k) # Nil \/ h = Nil) THEN RawSet(r, t, k, v)
        ELSE IF h = Nil THEN Fail(r, "index", name).r
        ELSE IF IsFunction(h) THEN Apply(r, h, <<t, k, v>>, NoName).r
        ELSE SetIndex(r, h, k, v, NoName, n - 1)

Binary(r, op, a, b, na, nb) ==
    LET arith == op \in DOMAIN Arith
        h == CASE arith -> BinTM(r, a, b, Events[Arith[op]])
               [] op = ".." -> BinTM(r, a, b, "__concat")
               [] op \in {"==", "~="} -> CompTM(r, a, b, "__eq")
               [] op \in {"<", ">"} -> CompTM(r, a, b, "__lt")
               [] OTHER -> IF CompTM(r, a, b, "__le") # Nil THEN CompTM(r, a, b, "__le")
                           ELSE CompTM(r, a, b, "__lt")
        nums == a[1] = "number" /\ b[1] = "number"
        tabs == a[1] = "table" /\ b[1] = "table"
        x == IF op \in {">", ">="} THEN b ELSE a
        y == IF op \in {">", ">="} THEN a ELSE b
        bylt == op \in {"<=", ">="} /\ CompTM(r, a, b, "__le") = Nil
        m == IF bylt THEN Meta(r, h, <<y, x>>) ELSE Meta(r, h, <<x, y>>)
        truth(e, neg) == E(e.r, <<Bool(~IsFalse(e.vs[1]) # neg)>>)
    IN  CASE ~Ok(r) -> E(r, <<Nil>>)
          [] Ok(r) /\ arith /\ nums -> E(r, <<Num(Fold(Arith[op], a[2], b[2]))>>)
          [] Ok(r) /\ (arith \/ (op = ".." /\ ~(Isstr(a) /\ Isstr(b)))) /\ ~(arith /\ nums) ->
               IF h # Nil THEN Meta(r, h, <<a, b>>)
               ELSE IF arith THEN Fail(r, "arithmetic", IF a[1] # "number" THEN na ELSE nb)
               ELSE Fail(r, "concatenate", IF Isstr(a) THEN nb ELSE na)
          [] Ok(r) /\ op = ".." /\ Isstr(a) /\ Isstr(b) -> E(r, <<Str(ToStr(a) \o ToStr(b))>>)
          [] Ok(r) /\ op \in {"==", "~="} ->
               IF a = b \/ ~tabs \/ h = Nil THEN E(r, <<Bool((a = b) = (op = "=="))>>)
               ELSE truth(m, op = "~=")
          [] OTHER -> IF nums THEN E(r, <<Bool(IF op \in {"<", ">"} THEN x[2] < y[2] ELSE x[2] <= y[2])>>)
                      ELSE IF tabs /\ h # Nil THEN truth(m, bylt)
                      ELSE Fail(r, "compare", NoName)

Apply(r, f, args, name) ==
    LET c == r.functions[f[2]]
        h == TM(r, f, "__call")
        np == Len(c.params)
        extra == SubSeq(args, np + 1, Len(args))
        env == [vars |-> c.env.vars, depth |-> c.env.depth + 1, va |-> IF c.isvararg THEN extra ELSE <<>>]
        argtab == (Str("n") :> Num(Len(extra)))
                  @@ [k \in {Num(j) : j \in 1..Len(extra)} |-> extra[k[2]]]
        d == IF c.isvararg
             THEN Declare(NewTable(r, argtab), env, Append(c.params, "arg"),
                          SubSeq(args \o Nils(np), 1, np) \o <<Table(Len(r.tables) + 1)>>)
             ELSE Declare(r, env, c.params, args)
        b == Run(d.r, d.env, c.body)
    IN  CASE ~Ok(r) -> E(r, <<Nil>>)
          [] Ok(r) /\ f[1] = "native" -> E(NativeEffect(r, f[2], args), NativeResults(r, f[2], args))
          [] Ok(r) /\ f[1] = "function" -> E(b.r, IF b.sig = "return" THEN b.vs ELSE <<>>)
          [] Ok(r) /\ ~IsFunction(f) /\ IsFunction(h) -> Apply(r, h, <<f>> \o args, NoName)
          [] OTHER -> Fail(r, "call", name)

MakeFunction(r, env, params, isvararg, body) ==
    E([r EXCEPT !.functions = Append(@, [params |-> params, isvararg |-> isvararg,
                                         body |-> body, env |-> env])],
      <<Function(Len(r.functions) + 1)>>)

EvalList(r, env, xs) ==
    LET next(a, x) == LET e == Eval(a.r, env, x) IN E(e.r, Append(a.vs, First(e.vs)))
        but == Through(next, E(r, <<>>), Front(xs))
        last == Eval(but.r, env, Last(xs))
    IN  IF xs = <<>> THEN E(r, <<>>) ELSE E(last.r, but.vs \o last.vs)

EvalTable(r, env, items) ==
    LET t == Table(Len(r.tables) + 1)
        item(a, i) ==
            LET it == items[i]
                k == Eval1(a.r, env, it[2])
                v == Eval1(k.r, env, it[3])
                e == Eval(a.r, env, it[2])
                vs == IF i = Len(items) THEN e.vs ELSE <<First(e.vs)>>
            IN  IF it[1] = "rec" THEN [a EXCEPT !.r = IF Ok(v.r) THEN RawSet(v.r, t, k.vs[1], v.vs[1]) ELSE v.r]
                ELSE [r |-> Through(LAMBDA s, j : RawSet(s, t, Num(a.n + j), vs[j]), e.r,
                                     [j \in 1..Len(vs) |-> j]),
                      n |-> a.n + Len(vs)]
    IN  E(Through(item, [r |-> NewTable(r, <<>>), n |-> 0], [i \in 1..Len(items) |-> i]).r, <<t>>)

Eval(r, env, x) ==
    LET a == Eval1(r, env, x[2])
        k == Eval1(a.r, env, x[3])
        args == EvalList(a.r, env, x[3])
        fld == IndexOf(a.r, a.vs[1], Str(x[3]), NameOf(env, x[2]), MAXTAGLOOP)
        margs == EvalList(fld.r, env, x[4])
        b1 == Eval1(r, env, x[3])
        b2 == Eval1(b1.r, env, x[4])
        u == b1.vs[1]
        glob == Str(x[2])
    IN  CASE ~Ok(r) -> E(r, <<Nil>>)
          [] Ok(r) /\ x[1] = "nil" -> E(r, <<Nil>>)
          [] Ok(r) /\ x[1] \in {"true", "false"} -> E(r, <<Bool(x[1] = "true")>>)
          [] Ok(r) /\ x[1] = "num" -> E(r, <<Num(x[2])>>)
          [] Ok(r) /\ x[1] = "str" -> E(r, <<Str(x[2])>>)
          [] Ok(r) /\ x[1] = "..." -> E(r, env.va)
          [] Ok(r) /\ x[1] = "function" -> MakeFunction(r, env, x[2], x[3], x[4])
          [] Ok(r) /\ x[1] = "table" -> EvalTable(r, env, x[2])
          [] Ok(r) /\ x[1] = "paren" -> a
          [] Ok(r) /\ x[1] = "name" ->
               E(r, <<IF x[2] \in DOMAIN env.vars THEN r.cells[env.vars[x[2]].cell]
                      ELSE RawGet(r, Globals, glob)>>)
          [] Ok(r) /\ x[1] = "index" -> IndexOf(k.r, a.vs[1], k.vs[1], NameOf(env, x[2]), MAXTAGLOOP)
          [] Ok(r) /\ x[1] = "call" -> Apply(args.r, a.vs[1], args.vs, NameOf(env, x[2]))
          [] Ok(r) /\ x[1] = "method" ->
               Apply(margs.r, fld.vs[1], a.vs \o margs.vs, <<"method", x[3]>>)
          [] Ok(r) /\ x[1] = "un" ->
               CASE ~Ok(b1.r) -> b1
                 [] Ok(b1.r) /\ x[2] = "not" -> E(b1.r, <<Bool(IsFalse(u))>>)
                 [] Ok(b1.r) /\ x[2] = "#" ->
                      IF u[1] = "table" THEN E(b1.r, <<Num(Getn(b1.r, u))>>)
                      ELSE IF u[1] = "string" THEN E(b1.r, <<Num(Len(u[2]))>>)
                      ELSE Fail(b1.r, "length", NameOf(env, x[3]))
                 [] OTHER -> IF u[1] = "number" THEN E(b1.r, <<Num(-u[2])>>)
                             ELSE IF TM(b1.r, u, "__unm") # Nil THEN Meta(b1.r, TM(b1.r, u, "__unm"), <<u, u>>)
                             ELSE Fail(b1.r, "arithmetic", NameOf(env, x[3]))
          [] Ok(r) /\ x[1] = "bin" /\ x[2] \in {"and", "or"} ->
               IF IsFalse(u) = (x[2] = "or") THEN b2 ELSE b1
          [] OTHER -> Binary(b2.r, x[2], u, b2.vs[1], NameOf(env, x[3]), NameOf(env, x[4]))

-----------------------------------------------------------------------------
(* Statements: [r, env, sig, vs], sig telling whether to go on.              *)

Go(r, env) == [r |-> r, env |-> env, sig |-> "go", vs |-> <<>>]

\* An assignable place, its table and key evaluated.
Place(r, env, x) ==
    LET a == Eval1(r, env, x[2])
        k == Eval1(a.r, env, x[3])
    IN  IF x[1] = "name" THEN [r |-> r, x |-> x, t |-> Nil, k |-> Nil]
        ELSE [r |-> k.r, x |-> x, t |-> a.vs[1], k |-> k.vs[1]]
Store(r, env, p, v) ==
    CASE ~Ok(r) -> r
      [] Ok(r) /\ p.x[1] = "name" ->
           IF p.x[2] \in DOMAIN env.vars THEN [r EXCEPT !.cells[env.vars[p.x[2]].cell] = v]
           ELSE RawSet(r, Globals, Str(p.x[2]), v)
      [] OTHER -> SetIndex(r, p.t, p.k, v, NameOf(env, p.x[2]), MAXTAGLOOP)
Assign(r, env, targets, exps) ==
    LET place(a, x) == LET p == Place(a.r, env, x) IN [r |-> p.r, ps |-> Append(a.ps, p)]
        T == Through(place, [r |-> r, ps |-> <<>>], targets)
        V == EvalList(T.r, env, exps)
        vs == V.vs \o Nils(Len(targets))
    IN  Through(LAMBDA s, i : Store(s, env, T.ps[i], vs[i]), V.r,
                 Reverse([i \in 1..Len(targets) |-> i]))

\* A block has its own scope.
Scope(r, env, block) == [Run(r, env, block) EXCEPT !.env = env]

RECURSIVE While(_, _, _, _)
While(r, env, x, block) ==
    LET c == Eval1(r, env, x)
        b == Scope(c.r, env, block)
    IN  IF ~Ok(c.r) \/ IsFalse(c.vs[1]) THEN Go(c.r, env)
        ELSE CASE ~Ok(b.r) \/ b.sig = "return" -> b
               [] Ok(b.r) /\ b.sig = "break" -> Go(b.r, env)
               [] OTHER -> While(b.r, env, x, block)
RECURSIVE Repeat(_, _, _, _)
Repeat(r, env, block, x) ==
    LET b == Run(r, env, block)
        c == Eval1(b.r, b.env, x)
    IN  CASE ~Ok(b.r) \/ b.sig = "return" -> [b EXCEPT !.env = env]
          [] Ok(b.r) /\ b.sig = "break" -> Go(b.r, env)
          [] OTHER -> IF ~Ok(c.r) \/ ~IsFalse(c.vs[1]) THEN Go(c.r, env)
                      ELSE Repeat(c.r, env, block, x)
RECURSIVE ForNum(_, _, _, _, _)
ForNum(r, env, name, i, st) ==
    LET d == Declare(r, env, <<name>>, <<Num(i.at)>>)
        b == Run(d.r, d.env, st)
    IN  IF (i.step > 0 /\ i.at > i.limit) \/ (i.step <= 0 /\ i.at < i.limit) THEN Go(r, env)
        ELSE CASE ~Ok(b.r) \/ b.sig = "return" -> [b EXCEPT !.env = env]
               [] Ok(b.r) /\ b.sig = "break" -> Go(b.r, env)
               [] OTHER -> ForNum(b.r, env, name, [i EXCEPT !.at = @ + i.step], st)
RECURSIVE ForIn(_, _, _, _, _)
ForIn(r, env, names, g, st) ==
    LET e == Apply(r, g[1], <<g[2], g[3]>>, NoName)
        d == Declare(e.r, env, names, e.vs)
        b == Run(d.r, d.env, st)
    IN  IF ~Ok(e.r) \/ First(e.vs) = Nil THEN Go(e.r, env)
        ELSE CASE ~Ok(b.r) \/ b.sig = "return" -> [b EXCEPT !.env = env]
               [] Ok(b.r) /\ b.sig = "break" -> Go(b.r, env)
               [] OTHER -> ForIn(b.r, env, names, <<g[1], g[2], First(e.vs)>>, st)
RECURSIVE If(_, _, _, _)
If(r, env, clauses, orelse) ==
    LET c == Eval1(r, env, clauses[1][1])
    IN  IF clauses = <<>> THEN IF orelse = <<>> THEN Go(r, env) ELSE Scope(r, env, orelse[1])
        ELSE IF ~Ok(c.r) THEN Go(c.r, env)
        ELSE IF ~IsFalse(c.vs[1]) THEN Scope(c.r, env, clauses[1][2])
        ELSE If(c.r, env, Tail(clauses), orelse)

Exec1(r, env, st) ==
    LET vs == EvalList(r, env, IF st[1] = "return" THEN st[2] ELSE st[3])
        f == MakeFunction(r, env, (IF st[3] THEN <<"self">> ELSE <<>>) \o st[4], st[5], st[6])
        self == Declare(r, env, <<st[2]>>, <<>>)
        lf == MakeFunction(self.r, self.env, st[3], st[4], st[5])
        decl == Declare(vs.r, env, st[2], vs.vs)
        bounds == vs.vs \o <<Num(1)>>
    IN  CASE st[1] = "local" -> Go(decl.r, decl.env)
          [] st[1] = "localfunction" ->
               Go([lf.r EXCEPT !.cells[Len(self.r.cells)] = lf.vs[1]], self.env)
          [] st[1] = "function" -> Go(Store(f.r, env, Place(f.r, env, st[2]), f.vs[1]), env)
          [] st[1] = "assign" -> Go(Assign(r, env, st[2], st[3]), env)
          [] st[1] = "callstat" -> Go(Eval(r, env, st[2]).r, env)
          [] st[1] = "do" -> Scope(r, env, st[2])
          [] st[1] = "while" -> While(r, env, st[2], st[3])
          [] st[1] = "repeat" -> Repeat(r, env, st[2], st[3])
          [] st[1] = "if" -> If(r, env, st[2], st[3])
          [] st[1] = "fornum" ->
               IF ~Ok(vs.r) THEN Go(vs.r, env)
               ELSE IF \E j \in 1..3 : bounds[j][1] # "number" THEN Go(Fail(vs.r, "for", NoName).r, env)
               ELSE ForNum(vs.r, env, st[2], [at |-> bounds[1][2], limit |-> bounds[2][2],
                                              step |-> bounds[3][2]], st[4])
          [] st[1] = "forin" -> ForIn(vs.r, env, st[2], SubSeq(vs.vs \o Nils(3), 1, 3), st[4])
          [] st[1] = "break" -> [Go(r, env) EXCEPT !.sig = "break"]
          [] st[1] = "return" -> [Go(vs.r, env) EXCEPT !.sig = "return", !.vs = vs.vs]

Run(r, env, block) ==
    Through(LAMBDA a, st : IF Ok(a.r) /\ a.sig = "go" THEN Exec1(a.r, a.env, st) ELSE a,
             Go(r, env), block)

\* The outcome: what the program emits, and its results or its error.
Meaning(block) ==
    LET r == [cells |-> <<>>, tables |-> Fresh.tables, functions |-> <<>>, out |-> <<>>, err |-> None]
        m == Run(r, [vars |-> <<>>, depth |-> 0, va |-> <<>>], block)
    IN  [out |-> m.r.out, status |-> IF Ok(m.r) THEN <<"done", m.vs>> ELSE m.r.err]
=============================================================================
