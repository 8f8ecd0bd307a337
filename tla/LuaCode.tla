------------------------------- MODULE LuaCode -------------------------------
(* The code generator of the compiler, src/lua/src/lcode.c.                  *)
(*                                                                           *)
(* A function being compiled is a FuncState f: its code, its constants k,    *)
(* the first free register, the number of active locals, the list jpc of     *)
(* jumps that wait for the next instruction, and the last jump target.  An   *)
(* expression not yet placed is an expdesc e: where its value is (k, info,   *)
(* aux) and the two lists of jumps that leave it, t when true and f when     *)
(* false.  A jump list is threaded through the offsets of its jumps.         *)
(*                                                                           *)
(* A C function that updates *fs and *e is an operator of both that returns  *)
(* both, R(f, e).  The field ok of f records that every lua_assert of        *)
(* lcode.c and lparser.c passed so far held (llimits.h compiles them away),  *)
(* but for lcode.c:259 (addk's index is true to its table here), lparser.c:448 *)
(* and 452 (the chain of functions is a sequence) and 420, which is the      *)
(* property CodeVerifies.                                                    *)
(* The limits of the encoding are constants; a program that exceeds the      *)
(* registers or the jump range ends in a syntax error, whose propagation is  *)
(* LuaError's subject, and is not among the programs compiled here.          *)
EXTENDS Integers, Sequences, SequencesExt

CONSTANTS MaxIndexRK,     \* MAXINDEXRK, the last constant an RK operand can name
          MaxFlush,       \* MAXARG_C, the last batch number an OP_SETLIST can hold
          Beyond,         \* the numbers of the batches behind it, in order
          FieldsPerFlush  \* LFIELDS_PER_FLUSH

\* FoldLeft, each result computed before the next step (TLC evaluates the
\* library's fold from the outside in, too deep for a whole program).
Through(op(_, _), base, seq) ==
    LET upto[i \in 0..Len(seq)] ==
            LET before == upto[i - 1]
            IN  CASE i = 0 -> base
                  [] i > 0 /\ before = before -> op(before, seq[i])
    IN  upto[Len(seq)]

NO_JUMP == -1
NO_REG == 255
BITRK == 256
LUA_MULTRET == -1

\* Values are pairs of a type and a value, so that any two can be compared.
Nil == <<"nil", 0>>
Bool(b) == <<"boolean", b>>
Num(n) == <<"number", n>>
Str(s) == <<"string", s>>

Ins(op, a, b, c) == [op |-> op, a |-> a, b |-> b, c |-> c]
\* The opcodes in the order of their numbers.
OpCodes == <<"MOVE", "LOADK", "LOADBOOL", "LOADNIL", "GETUPVAL", "GETGLOBAL", "GETTABLE",
             "SETGLOBAL", "SETUPVAL", "SETTABLE", "NEWTABLE", "SELF", "ADD", "SUB", "MUL", "DIV",
             "MOD", "POW", "UNM", "NOT", "LEN", "CONCAT", "JMP", "EQ", "LT", "LE", "TEST",
             "TESTSET", "CALL", "TAILCALL", "RETURN", "FORLOOP", "FORPREP", "TFORLOOP",
             "SETLIST", "CLOSE", "CLOSURE", "VARARG">>
\* A word that holds the integer n, taken for an instruction, and the integer
\* that a word holds: 6 bits of opcode, 8 of A, 9 of C, 9 of B.
Word(n) == Ins(OpCodes[(n % 2^6) + 1], (n \div 2^6) % 2^8, n \div 2^23, (n \div 2^14) % 2^9)
Raw(i) == (CHOOSE o \in DOMAIN OpCodes : OpCodes[o] = i.op) - 1 + i.a * 2^6 + i.c * 2^14 + i.b * 2^23
RKASK(x) == x + BITRK
ISK(x) == x >= BITRK
\* luaP_opmodes.
SetsA(op) == op \notin {"SETGLOBAL", "SETUPVAL", "SETTABLE", "JMP", "EQ", "LT", "LE",
                        "RETURN", "TFORLOOP", "SETLIST", "CLOSE"}
OpMode(op) == CASE op \in {"LOADK", "GETGLOBAL", "SETGLOBAL", "CLOSURE"} -> "iABx"
                [] op \in {"JMP", "FORLOOP", "FORPREP"} -> "iAsBx"
                [] OTHER -> "iABC"
TwoRK == {"ADD", "SUB", "MUL", "DIV", "MOD", "POW", "EQ", "LT", "LE", "SETTABLE"}
BMode(op) ==
    CASE op \in TwoRK -> "K"
      [] op \in {"MOVE", "LOADNIL", "GETTABLE", "SELF", "UNM", "NOT", "LEN",
                 "CONCAT", "TEST", "TESTSET"} -> "R"
      [] op \in {"TFORLOOP", "CLOSE"} -> "N"
      [] OTHER -> "U"
CMode(op) ==
    CASE op \in TwoRK \cup {"GETTABLE", "SELF"} -> "K"
      [] op = "CONCAT" -> "R"
      [] op \in {"LOADBOOL", "NEWTABLE", "TEST", "TESTSET", "CALL", "TAILCALL",
                 "TFORLOOP", "SETLIST"} -> "U"
      [] OTHER -> "N"
TMode(op) == op \in {"EQ", "LT", "LE", "TEST", "TESTSET", "TFORLOOP"}
NoOp2 == {"UNM", "LEN"}

Exp(k, info) == [k |-> k, info |-> info, aux |-> 0, t |-> NO_JUMP, f |-> NO_JUMP]
R(f, e) == [f |-> f, e |-> e]
LuaAssert(f, p) == [f EXCEPT !.ok = @ /\ p]
Pc(f) == Len(f.code)
At(f, pc) == f.code[pc + 1]
GetCode(f, e) == At(f, e.info)
Hasjumps(e) == e.t # e.f
Isnumeral(e) == e.k = "VKNUM" /\ ~Hasjumps(e) /\ e.t = NO_JUMP

-----------------------------------------------------------------------------
(* Jump lists.                                                               *)

Getjump(f, pc) == LET offset == At(f, pc).b
                  IN  IF offset = NO_JUMP THEN NO_JUMP ELSE pc + 1 + offset
RECURSIVE JumpList(_, _)
JumpList(f, list) == IF list = NO_JUMP THEN <<>>
                     ELSE <<list>> \o JumpList(f, Getjump(f, list))
Fixjump(f, pc, dest) ==
    LuaAssert([f EXCEPT !.code[pc + 1].b = dest - (pc + 1)], dest # NO_JUMP)
Control(f, pc) == IF pc >= 1 /\ TMode(At(f, pc - 1).op) THEN pc - 1 ELSE pc
Getlabel(f) == [f EXCEPT !.lasttarget = Pc(f)]

Concat(f, l1, l2) == IF l2 = NO_JUMP \/ l1 = NO_JUMP THEN f
                     ELSE Fixjump(f, Last(JumpList(f, l1)), l2)
Joined(l1, l2) == IF l1 = NO_JUMP THEN l2 ELSE l1

NeedValue(f, list) ==
    \E j \in ToSet(JumpList(f, list)) : At(f, Control(f, j)).op # "TESTSET"
\* A TESTSET stores into reg, or becomes a TEST when there is nothing to store.
Patchtestreg(f, node, reg) ==
    LET pc == Control(f, node)
        i  == At(f, pc)
    IN  IF i.op # "TESTSET" THEN f
        ELSE [f EXCEPT !.code[pc + 1] =
                IF reg # NO_REG /\ reg # i.b THEN [i EXCEPT !.a = reg]
                ELSE Ins("TEST", i.b, 0, i.c)]
Removevalues(f, list) ==
    Through(LAMBDA g, j : Patchtestreg(g, j, NO_REG), f, JumpList(f, list))
Patchlistaux(f, list, vtarget, reg, dtarget) ==
    Through(LAMBDA g, j : Fixjump(Patchtestreg(g, j, reg), j,
                 IF At(g, Control(g, j)).op = "TESTSET" THEN vtarget ELSE dtarget),
             f, JumpList(f, list))
Dischargejpc(f) ==
    [Patchlistaux(f, f.jpc, Pc(f), NO_REG, Pc(f)) EXCEPT !.jpc = NO_JUMP]
Patchtohere(f, list) ==
    LET g == Getlabel(f)
    IN  [Concat(g, g.jpc, list) EXCEPT !.jpc = Joined(g.jpc, list)]
Patchlist(f, list, target) ==
    IF target = Pc(f) THEN Patchtohere(f, list)
    ELSE Patchlistaux(LuaAssert(f, target < Pc(f)), list, target, NO_REG, target)

Code(f, i) == [Dischargejpc(f) EXCEPT !.code = Append(@, i)]
CodeABC(f, op, a, b, c) ==
    Code(LuaAssert(f, OpMode(op) = "iABC" /\ (BMode(op) = "N" => b = 0) /\ (CMode(op) = "N" => c = 0)),
         Ins(op, a, b, c))
CodeABx(f, op, a, bx) == Code(LuaAssert(f, OpMode(op) # "iABC"), Ins(op, a, bx, 0))
\* The pending jumps to here wait on the new jump: its number is Pc(f).
Jump(f) == Concat(CodeABx([f EXCEPT !.jpc = NO_JUMP], "JMP", 0, NO_JUMP),
                  Pc(f), f.jpc)
Ret(f, first, nret) == CodeABC(f, "RETURN", first, nret + 1, 0)
\* The jump's number is Pc(f) + 1.
Condjump(f, op, a, b, c) == Jump(CodeABC(f, op, a, b, c))

\* luaK_nil extends a LOADNIL just before, and codes nothing at the start of
\* a function, unless a jump lands here.
LoadNil(f, from, n) ==
    LET prev == At(f, Pc(f) - 1)
    IN  CASE Pc(f) > f.lasttarget /\ Pc(f) = 0 /\ from >= f.nactvar -> f
          [] /\ Pc(f) > f.lasttarget /\ Pc(f) > 0
             /\ prev.op = "LOADNIL" /\ prev.a <= from /\ from <= prev.b + 1
             -> IF from + n - 1 > prev.b
                THEN [f EXCEPT !.code[Pc(f)].b = from + n - 1] ELSE f
          [] OTHER -> CodeABC(f, "LOADNIL", from, from + n - 1, 0)

-----------------------------------------------------------------------------
(* Registers and constants.                                                  *)

Checkstack(f, n) == IF f.freereg + n > f.maxstacksize
                    THEN [f EXCEPT !.maxstacksize = f.freereg + n] ELSE f
Reserveregs(f, n) == [Checkstack(f, n) EXCEPT !.freereg = @ + n]
Freereg(f, reg) == IF ISK(reg) \/ reg < f.nactvar THEN f
                   ELSE LuaAssert([f EXCEPT !.freereg = @ - 1], reg = f.freereg - 1)
Freeexp(f, e) == IF e.k = "VNONRELOC" THEN Freereg(f, e.info) ELSE f

\* addk returns the index of the constant, entered once.
Addk(f, v) == IF v \in ToSet(f.k) THEN f ELSE [f EXCEPT !.k = Append(@, v)]
KIndex(f, v) == (CHOOSE i \in 1..Len(f.k) : f.k[i] = v) - 1
StringK(f, s) == Addk(f, Str(s))

-----------------------------------------------------------------------------
(* Placing an expression.                                                    *)

Setreturns(f, e, n) ==
    CASE e.k = "VCALL" -> [f EXCEPT !.code[e.info + 1].c = n + 1]
      [] e.k = "VVARARG" ->
           Reserveregs([f EXCEPT !.code[e.info + 1].b = n + 1,
                                 !.code[e.info + 1].a = f.freereg], 1)
      [] OTHER -> f

Setoneret(f, e) ==
    CASE e.k = "VCALL" -> R(f, [e EXCEPT !.k = "VNONRELOC", !.info = GetCode(f, e).a])
      [] e.k = "VVARARG" -> R([f EXCEPT !.code[e.info + 1].b = 2],
                              [e EXCEPT !.k = "VRELOCABLE"])
      [] OTHER -> R(f, e)

Dischargevars(f, e) ==
    LET reloc(g) == R(g, [e EXCEPT !.k = "VRELOCABLE", !.info = Pc(f)])
    IN  CASE e.k = "VLOCAL"   -> R(f, [e EXCEPT !.k = "VNONRELOC"])
          [] e.k = "VUPVAL"   -> reloc(CodeABC(f, "GETUPVAL", 0, e.info, 0))
          [] e.k = "VGLOBAL"  -> reloc(CodeABx(f, "GETGLOBAL", 0, e.info))
          [] e.k = "VINDEXED" -> reloc(CodeABC(Freereg(Freereg(f, e.aux), e.info),
                                               "GETTABLE", 0, e.info, e.aux))
          [] OTHER -> Setoneret(f, e)

CodeLabel(f, a, b, jump) == CodeABC(Getlabel(f), "LOADBOOL", a, b, jump)

Discharge2reg(f0, e0, reg) ==
    LET d == Dischargevars(f0, e0)
        f == d.f
        e == d.e
        placed(g) == R(g, [e EXCEPT !.k = "VNONRELOC", !.info = reg])
        num == Addk(f, Num(e.info))
    IN  CASE e.k = "VNIL" -> placed(LoadNil(f, reg, 1))
          [] e.k \in {"VFALSE", "VTRUE"} ->
               placed(CodeABC(f, "LOADBOOL", reg, IF e.k = "VTRUE" THEN 1 ELSE 0, 0))
          [] e.k = "VK" -> placed(CodeABx(f, "LOADK", reg, e.info))
          [] e.k = "VKNUM" ->
               placed(CodeABx(num, "LOADK", reg, KIndex(num, Num(e.info))))
          [] e.k = "VRELOCABLE" -> placed([f EXCEPT !.code[e.info + 1].a = reg])
          [] e.k = "VNONRELOC" ->
               placed(IF reg = e.info THEN f ELSE CodeABC(f, "MOVE", reg, e.info, 0))
          [] OTHER -> R(LuaAssert(f, e.k \in {"VVOID", "VJMP"}), e)

Discharge2anyreg(f, e) ==
    IF e.k = "VNONRELOC" THEN R(f, e)
    ELSE LET g == Reserveregs(f, 1) IN Discharge2reg(g, e, g.freereg - 1)

\* exp2reg also lands the jumps of e: those that carry their value at the end,
\* the others at the LOADBOOL of false or true coded for them.
Exp2reg(f0, e0, reg) ==
    LET d  == Discharge2reg(f0, e0, reg)
        e  == IF d.e.k = "VJMP" THEN [d.e EXCEPT !.t = Joined(@, d.e.info)] ELSE d.e
        f1 == IF d.e.k = "VJMP" THEN Concat(d.f, d.e.t, d.e.info) ELSE d.f
        need == NeedValue(f1, e.t) \/ NeedValue(f1, e.f)
        f2 == IF e.k = "VJMP" THEN f1 ELSE Jump(f1)
        fj == IF e.k = "VJMP" THEN NO_JUMP ELSE Pc(f1)
        f3 == CodeLabel(CodeLabel(f2, reg, 0, 1), reg, 1, 0)
        p_f == IF need THEN Pc(f2) ELSE NO_JUMP
        p_t == IF need THEN Pc(f2) + 1 ELSE NO_JUMP
        f4 == Getlabel(IF need THEN Patchtohere(f3, fj) ELSE f1)
        f5 == Patchlistaux(f4, e.f, Pc(f4), reg, p_f)
    IN  R(IF Hasjumps(e) THEN Patchlistaux(f5, e.t, Pc(f4), reg, p_t) ELSE f1,
          Exp("VNONRELOC", reg))

Exp2nextreg(f, e) ==
    LET d == Dischargevars(f, e)
        g == Reserveregs(Freeexp(d.f, d.e), 1)
    IN  Exp2reg(g, d.e, g.freereg - 1)

Exp2anyreg(f, e) ==
    LET d == Dischargevars(f, e)
    IN  CASE d.e.k = "VNONRELOC" /\ ~Hasjumps(d.e) -> d
          [] d.e.k = "VNONRELOC" /\ Hasjumps(d.e) /\ d.e.info >= d.f.nactvar ->
               Exp2reg(d.f, d.e, d.e.info)
          [] OTHER -> Exp2nextreg(d.f, d.e)

Exp2val(f, e) == IF Hasjumps(e) THEN Exp2anyreg(f, e) ELSE Dischargevars(f, e)

\* The operand itself is RK(exp2RK's e).
Exp2RK(f0, e0) ==
    LET d == Exp2val(f0, e0)
        f == d.f
        v == CASE d.e.k = "VKNUM" -> Num(d.e.info)
               [] d.e.k = "VNIL"  -> Nil
               [] OTHER -> Bool(d.e.k = "VTRUE")
        g == Addk(f, v)
    IN  CASE d.e.k \in {"VKNUM", "VTRUE", "VFALSE", "VNIL"} /\ Len(f.k) <= MaxIndexRK ->
               R(g, [d.e EXCEPT !.k = "VK", !.info = KIndex(g, v)])
          [] d.e.k = "VK" /\ d.e.info <= MaxIndexRK -> d
          [] OTHER -> Exp2anyreg(f, d.e)
RK(e) == IF e.k = "VK" THEN RKASK(e.info) ELSE e.info

Storevar(f, var, ex) ==
    LET r == Exp2anyreg(f, ex)
        k == Exp2RK(f, ex)
    IN  CASE var.k = "VLOCAL" -> Exp2reg(Freeexp(f, ex), ex, var.info).f
          [] var.k = "VUPVAL" ->
               Freeexp(CodeABC(r.f, "SETUPVAL", r.e.info, var.info, 0), r.e)
          [] var.k = "VGLOBAL" ->
               Freeexp(CodeABx(r.f, "SETGLOBAL", r.e.info, var.info), r.e)
          [] var.k = "VINDEXED" ->
               Freeexp(CodeABC(k.f, "SETTABLE", var.info, var.aux, RK(k.e)), k.e)
          [] OTHER -> LuaAssert(f, FALSE)

Self(f, e, key) ==
    LET o == Exp2anyreg(f, e)
        g == Freeexp(o.f, o.e)
        k == Exp2RK(Reserveregs(g, 2), key)
    IN  R(Freeexp(CodeABC(k.f, "SELF", g.freereg, o.e.info, RK(k.e)), k.e),
          [o.e EXCEPT !.k = "VNONRELOC", !.info = g.freereg])

-----------------------------------------------------------------------------
(* Conditions: jumps instead of values.                                      *)

Invertjump(f, e) ==
    LET pc == Control(f, e.info)
        i  == At(f, pc)
    IN  LuaAssert([f EXCEPT !.code[pc + 1].a = 1 - @],
               TMode(i.op) /\ i.op \notin {"TESTSET", "TEST"})

\* Returns f and, as e.info, the number of the jump.
Jumponcond(f, e, cond) ==
    LET ie == GetCode(f, e)
        g  == [f EXCEPT !.code = Front(@)]
        d  == Discharge2anyreg(f, e)
        h  == Freeexp(d.f, d.e)
    IN  IF e.k = "VRELOCABLE" /\ ie.op = "NOT"
        THEN R(Condjump(g, "TEST", ie.b, 0, 1 - cond), [e EXCEPT !.info = Pc(g) + 1])
        ELSE R(Condjump(h, "TESTSET", NO_REG, d.e.info, cond),
               [d.e EXCEPT !.info = Pc(h) + 1])

\* luaK_goiftrue and luaK_goiffalse differ in the constants that never and
\* always jump, and in the list, t or f, the last jump joins.  The expression
\* keeps its kind and its place; only its lists change.
Goiftrue(f0, e0) ==
    LET d == Dischargevars(f0, e0)
        f == d.f
        e == d.e
        c == Jumponcond(f, e, 0)
        j == CASE e.k \in {"VK", "VKNUM", "VTRUE"} -> R(f, [e EXCEPT !.info = NO_JUMP])
               [] e.k = "VFALSE" -> R(Jump(f), [e EXCEPT !.info = Pc(f)])
               [] e.k = "VJMP"   -> R(Invertjump(f, e), e)
               [] OTHER -> c
    IN  R(Patchtohere(Concat(j.f, e.f, j.e.info), e.t),
          [e EXCEPT !.f = Joined(e.f, j.e.info), !.t = NO_JUMP])

Goiffalse(f0, e0) ==
    LET d == Dischargevars(f0, e0)
        f == d.f
        e == d.e
        c == Jumponcond(f, e, 1)
        j == CASE e.k \in {"VNIL", "VFALSE"} -> R(f, [e EXCEPT !.info = NO_JUMP])
               [] e.k = "VTRUE" -> R(Jump(f), [e EXCEPT !.info = Pc(f)])
               [] e.k = "VJMP"  -> R(f, e)
               [] OTHER -> c
    IN  R(Patchtohere(Concat(j.f, e.t, j.e.info), e.f),
          [e EXCEPT !.t = Joined(e.t, j.e.info), !.f = NO_JUMP])

Codenot(f0, e0) ==
    LET d == Dischargevars(f0, e0)
        f == d.f
        r == Discharge2anyreg(f, d.e)
        g == Freeexp(r.f, r.e)
        n == CASE d.e.k \in {"VNIL", "VFALSE"} -> R(f, [d.e EXCEPT !.k = "VTRUE"])
               [] d.e.k \in {"VK", "VKNUM", "VTRUE"} -> R(f, [d.e EXCEPT !.k = "VFALSE"])
               [] d.e.k = "VJMP" -> R(Invertjump(f, d.e), d.e)
               [] d.e.k \in {"VRELOCABLE", "VNONRELOC"} ->
                    R(CodeABC(g, "NOT", 0, r.e.info, 0),
                      [r.e EXCEPT !.k = "VRELOCABLE", !.info = Pc(g)])
               [] OTHER -> R(LuaAssert(f, FALSE), d.e)
    IN  R(Removevalues(Removevalues(n.f, n.e.t), n.e.f),
          [n.e EXCEPT !.t = n.e.f, !.f = n.e.t])

Indexed(f, t, k) == LET r == Exp2RK(f, k)
                    IN  R(r.f, [t EXCEPT !.k = "VINDEXED", !.aux = RK(r.e)])

-----------------------------------------------------------------------------
(* Operators.  Numbers are integers: of the arithmetic the four operations   *)
(* that stay in them.                                                        *)

Fold(op, v1, v2) == CASE op = "ADD" -> v1 + v2
                      [] op = "SUB" -> v1 - v2
                      [] op = "MUL" -> v1 * v2
                      [] op = "UNM" -> -v1
Constfolding(op, e1, e2) ==
    Isnumeral(e1) /\ Isnumeral(e2) /\ op \in {"ADD", "SUB", "MUL", "UNM"}

\* mutant: the first operand's register is always freed first
CodearithInOrder(f, op, e1, e2) ==
    LET r2 == IF op \in NoOp2 THEN R(f, e2) ELSE Exp2RK(f, e2)
        o2 == IF op \in NoOp2 THEN 0 ELSE RK(r2.e)
        r1 == Exp2RK(r2.f, e1)
        g  == Freeexp(Freeexp(r1.f, r1.e), r2.e)
    IN  IF Constfolding(op, e1, e2)
        THEN R(f, [e1 EXCEPT !.info = Fold(op, e1.info, e2.info)])
        ELSE R(CodeABC(g, op, 0, RK(r1.e), o2),
               [r1.e EXCEPT !.k = "VRELOCABLE", !.info = Pc(g)])

Codearith(f, op, e1, e2) ==
    LET r2 == IF op \in NoOp2 THEN R(f, e2) ELSE Exp2RK(f, e2)
        o2 == IF op \in NoOp2 THEN 0 ELSE RK(r2.e)
        r1 == Exp2RK(r2.f, e1)
        o1 == RK(r1.e)
        g  == IF o1 > o2 THEN Freeexp(Freeexp(r1.f, r1.e), r2.e)
              ELSE Freeexp(Freeexp(r1.f, r2.e), r1.e)
    IN  IF Constfolding(op, e1, e2)
        THEN R(f, [e1 EXCEPT !.info = Fold(op, e1.info, e2.info)])
        ELSE R(CodeABC(g, op, 0, o1, o2),
               [r1.e EXCEPT !.k = "VRELOCABLE", !.info = Pc(g)])

\* a > b is coded as b < a.
Codecomp(f, op, cond, e1, e2) ==
    LET r1 == Exp2RK(f, e1)
        r2 == Exp2RK(r1.f, e2)
        g  == Freeexp(Freeexp(r2.f, r2.e), r1.e)
        swap == cond = 0 /\ op # "EQ"
        j  == IF swap THEN Condjump(g, op, 1, RK(r2.e), RK(r1.e))
              ELSE Condjump(g, op, cond, RK(r1.e), RK(r2.e))
    IN  R(j, [r1.e EXCEPT !.k = "VJMP", !.info = Pc(g) + 1])

Prefix(f, op, e) ==
    LET zero == Exp("VKNUM", 0)
        r == IF op = "-" /\ Isnumeral(e) THEN R(f, e) ELSE Exp2anyreg(f, e)
    IN  CASE op = "not" -> Codenot(f, e)
          [] op = "-"   -> Codearith(r.f, "UNM", r.e, zero)
          [] op = "#"   -> Codearith(r.f, "LEN", r.e, zero)

Arith == [x \in {"+", "-", "*"} |-> CASE x = "+" -> "ADD" [] x = "-" -> "SUB" [] x = "*" -> "MUL"]

Infix(f, op, v) == CASE op = "and" -> Goiftrue(f, v)
                     [] op = "or"  -> Goiffalse(f, v)
                     [] op = ".."  -> Exp2nextreg(f, v)
                     [] op \in DOMAIN Arith /\ Isnumeral(v) -> R(f, v)
                     [] OTHER -> Exp2RK(f, v)

\* a .. (b .. c) becomes one CONCAT: the left operand extends the right one.
Posconcat(f, e1, e2) ==
    LET v == Exp2val(f, e2)
        i == GetCode(v.f, v.e)
        n == Exp2nextreg(v.f, v.e)
    IN  IF v.e.k = "VRELOCABLE" /\ i.op = "CONCAT"
        THEN R([Freeexp(LuaAssert(v.f, e1.info = i.b - 1), e1)
                    EXCEPT !.code[v.e.info + 1].b = e1.info],
               [e1 EXCEPT !.k = "VRELOCABLE", !.info = v.e.info])
        ELSE Codearith(n.f, "CONCAT", e1, n.e)

Posfix(f, op, e1, e2) ==
    LET d == Dischargevars(f, e2)
    IN  CASE op = "and" -> R(LuaAssert(Concat(d.f, d.e.f, e1.f), e1.t = NO_JUMP),
                             [d.e EXCEPT !.f = Joined(d.e.f, e1.f)])
          [] op = "or"  -> R(LuaAssert(Concat(d.f, d.e.t, e1.t), e1.f = NO_JUMP),
                             [d.e EXCEPT !.t = Joined(d.e.t, e1.t)])
          [] op = ".."  -> Posconcat(f, e1, e2)
          [] op \in DOMAIN Arith -> Codearith(f, Arith[op], e1, e2)
          [] op = "==" -> Codecomp(f, "EQ", 1, e1, e2)
          [] op = "~=" -> Codecomp(f, "EQ", 0, e1, e2)
          [] op = "<"  -> Codecomp(f, "LT", 1, e1, e2)
          [] op = "<=" -> Codecomp(f, "LE", 1, e1, e2)
          [] op = ">"  -> Codecomp(f, "LT", 0, e1, e2)
          [] op = ">=" -> Codecomp(f, "LE", 0, e1, e2)

\* The batches of a constructor between the first MaxFlush and those whose
\* numbers Beyond lists are left out: batch MaxFlush + 1 has the first of these
\* numbers.  Batch finds the batch that has number n; 0 is one of those left out.
ASSUME CountsAreWords == \A i \in DOMAIN Beyond : Beyond[i] > MaxFlush /\ Beyond[i] % 2^6 < Len(OpCodes)
BatchNumber(c) == IF c <= MaxFlush THEN c ELSE Beyond[c - MaxFlush]
Batch(n) == CASE n <= MaxFlush -> n
              [] n > MaxFlush /\ n \notin ToSet(Beyond) -> 0
              [] OTHER -> MaxFlush + CHOOSE i \in DOMAIN Beyond : Beyond[i] = n

\* The batch number goes into the next word when it does not fit in C: an
\* integer, which says by chance what instruction it looks like.
Setlist(f, base, nelems, tostore) ==
    LET c == (nelems - 1) \div FieldsPerFlush + 1
        b == IF tostore = LUA_MULTRET THEN 0 ELSE tostore
        g == LuaAssert(f, tostore # 0)
        s == IF c <= MaxFlush THEN CodeABC(g, "SETLIST", base, b, c)
             ELSE Code(CodeABC(g, "SETLIST", base, b, 0), Word(BatchNumber(c)))
    IN  [s EXCEPT !.freereg = base + 1]
=============================================================================
