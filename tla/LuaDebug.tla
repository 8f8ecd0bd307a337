------------------------------- MODULE LuaDebug ------------------------------
(* src/lua/src/ldebug.c: the code checker, which executes a function's code  *)
(* symbolically, and the names that error messages give to values, which the *)
(* same symbolic execution finds.                                            *)
EXTENDS LuaParser

CheckReg(pt, reg) == reg < pt.maxstacksize
CheckArgMode(pt, r, mode) ==
    CASE mode = "N" -> r = 0
      [] mode = "U" -> TRUE
      [] mode = "R" -> CheckReg(pt, r)
      [] mode = "K" -> IF ISK(r) THEN r - BITRK < Len(pt.k) ELSE CheckReg(pt, r)
CheckOpenop(i) == i.op \in {"CALL", "TAILCALL", "RETURN", "SETLIST"} /\ i.b = 0

Precheck(pt) ==
    /\ pt.numparams + (IF "HASARG" \in pt.is_vararg THEN 1 ELSE 0) <= pt.maxstacksize
    /\ "NEEDSARG" \in pt.is_vararg => "HASARG" \in pt.is_vararg
    /\ Len(pt.upnames) <= pt.nups
    /\ Len(pt.code) > 0 /\ Last(pt.code).op = "RETURN"

\* mutant: only the word just before dest is looked at
LookLikeSetlistOnce(pt, dest) ==
    IF At(pt, dest - 1).op = "SETLIST" /\ At(pt, dest - 1).c = 0 THEN 1 ELSE 0

\* The words just before dest that look like a SETLIST whose count follows: an
\* even number of them means dest is not a count.
LookLikeSetlist(pt, dest) ==
    LET is(p) == At(pt, p).op = "SETLIST" /\ At(pt, p).c = 0
        starts == {j \in 0..dest : \A d \in (dest - j)..(dest - 1) : is(d)}
    IN  CHOOSE j \in starts : \A x \in starts : x <= j

\* Operands in range.
Operands(pt, pc) ==
    LET i == At(pt, pc)
        dest == pc + 1 + i.b
    IN  /\ CheckReg(pt, i.a)
        /\ OpMode(i.op) = "iABC" => /\ CheckArgMode(pt, i.b, BMode(i.op))
                                    /\ CheckArgMode(pt, i.c, CMode(i.op))
        /\ i.op \in {"LOADK", "GETGLOBAL", "SETGLOBAL"} => i.b < Len(pt.k)
        /\ OpMode(i.op) = "iAsBx" => /\ 0 <= dest /\ dest < Len(pt.code)
                                     /\ dest > 0 => LookLikeSetlist(pt, dest) % 2 = 0
        /\ TMode(i.op) => pc + 2 < Len(pt.code) /\ At(pt, pc + 1).op = "JMP"

\* What each instruction needs of its neighbours and its registers.
Rules(pt, pc) ==
    LET i == At(pt, pc)
        next == At(pt, pc + 1)
        results == i.c - 1
    IN  CASE i.op = "LOADBOOL" /\ i.c = 1 ->
               pc + 2 < Len(pt.code) /\ (next.op # "SETLIST" \/ next.c # 0)
          [] i.op \in {"GETUPVAL", "SETUPVAL"} -> i.b < pt.nups
          [] i.op \in {"GETGLOBAL", "SETGLOBAL"} -> pt.k[i.b + 1][1] = "string"
          [] i.op = "SELF" -> CheckReg(pt, i.a + 1)
          [] i.op = "CONCAT" -> i.b < i.c
          [] i.op = "TFORLOOP" -> i.c >= 1 /\ CheckReg(pt, i.a + 2 + i.c)
          [] i.op \in {"FORLOOP", "FORPREP"} -> CheckReg(pt, i.a + 3)
          [] i.op \in {"CALL", "TAILCALL"} ->
               /\ i.b # 0 => CheckReg(pt, i.a + i.b - 1)
               /\ results = LUA_MULTRET => CheckOpenop(next)
               /\ results > 0 => CheckReg(pt, i.a + results - 1)
          [] i.op = "RETURN" -> i.b - 1 > 0 => CheckReg(pt, i.a + i.b - 2)
          [] i.op = "SETLIST" -> /\ i.b > 0 => CheckReg(pt, i.a + i.b)
                                 /\ i.c = 0 => pc + 1 < Len(pt.code) - 1
          [] i.op = "CLOSURE" ->
               /\ i.b < Len(pt.p)
               /\ pc + pt.p[i.b + 1].nups < Len(pt.code)
               /\ \A j \in 1..pt.p[i.b + 1].nups : At(pt, pc + j).op \in {"GETUPVAL", "MOVE"}
          [] i.op = "VARARG" ->
               /\ "ISVARARG" \in pt.is_vararg /\ "NEEDSARG" \notin pt.is_vararg
               /\ i.b - 1 = LUA_MULTRET => CheckOpenop(next)
               /\ CheckReg(pt, i.a + i.b - 2)
          [] OTHER -> TRUE

Changes(i, reg) == \/ SetsA(i.op) /\ i.a = reg
                   \/ i.op = "LOADNIL" /\ i.a <= reg /\ reg <= i.b
                   \/ i.op = "SELF" /\ reg = i.a + 1
                   \/ i.op = "TFORLOOP" /\ reg >= i.a + 2
                   \/ i.op \in {"CALL", "TAILCALL"} /\ reg >= i.a
\* Tracing one register (reg # NO_REG) follows forward jumps that do not skip
\* lastpc and steps over the captures of a CLOSURE.
NextPc(pt, pc, lastpc, reg) ==
    LET i == At(pt, pc)
        dest == pc + 1 + i.b
    IN  CASE i.op \in {"JMP", "FORLOOP", "FORPREP"}
             /\ reg # NO_REG /\ pc < dest /\ dest <= lastpc -> dest
          [] i.op = "SETLIST" /\ i.c = 0 -> pc + 2
          [] i.op = "CLOSURE" /\ reg # NO_REG -> pc + 1 + pt.p[i.b + 1].nups
          [] OTHER -> pc + 1

\* The last instruction before lastpc that changed reg; 0 is failure, as in C,
\* where it would be a MOVE of register 0 to itself.
RECURSIVE Exec(_, _, _, _, _)
Exec(pt, pc, lastpc, reg, last) ==
    IF pc >= lastpc THEN At(pt, last)
    ELSE IF ~(Operands(pt, pc) /\ Rules(pt, pc)) THEN Ins("MOVE", 0, 0, 0)
    ELSE Exec(pt, NextPc(pt, pc, lastpc, reg), lastpc, reg,
              IF Changes(At(pt, pc), reg) THEN pc ELSE last)
Symbexec(pt, lastpc, reg) == IF ~Precheck(pt) THEN Ins("MOVE", 0, 0, 0)
                             ELSE Exec(pt, 0, lastpc, reg, Len(pt.code) - 1)
Checkcode(pt) == Symbexec(pt, Len(pt.code), NO_REG) # Ins("MOVE", 0, 0, 0)

-----------------------------------------------------------------------------
(* Names for error messages.                                                 *)

NoName == <<"", "">>
Kname(pt, c) == IF ISK(c) /\ pt.k[c - BITRK + 1][1] = "string" THEN pt.k[c - BITRK + 1][2] ELSE "?"

\* The n-th local variable active at pc, counting from 1.
Getlocalname(pt, n, pc) ==
    LET active == SelectSeq(pt.locvars, LAMBDA v : v.startpc <= pc /\ pc < v.endpc)
    IN  IF n <= Len(active) THEN active[n].name ELSE ""

RECURSIVE Getobjname(_, _, _)
\* The name of a value that is the local variable, or that i loaded.
NameFrom(pt, pc, local, i) ==
    CASE local # "" -> <<"local", local>>
      [] local = "" /\ i.op = "GETGLOBAL" -> <<"global", pt.k[i.b + 1][2]>>
      [] local = "" /\ i.op = "MOVE" /\ i.b < i.a -> Getobjname(pt, pc, i.b)
      [] local = "" /\ i.op = "GETTABLE" -> <<"field", Kname(pt, i.c)>>
      [] local = "" /\ i.op = "GETUPVAL" -> <<"upvalue", pt.upnames[i.b + 1]>>
      [] local = "" /\ i.op = "SELF" -> <<"method", Kname(pt, i.c)>>
      [] OTHER -> NoName
Getobjname(pt, pc, reg) ==
    NameFrom(pt, pc, Getlocalname(pt, reg + 1, pc), Symbexec(pt, pc, reg))
=============================================================================
