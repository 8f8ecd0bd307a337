-------------------------------- MODULE LuaDump -------------------------------
(* Precompiled chunks: luaU_dump (src/lua/src/ldump.c) writes a function,    *)
(* luaU_undump (lundump.c) reads it back from a stream that may be cut into  *)
(* chunks anywhere, or end too early.                                        *)
(*                                                                           *)
(* A dump is a sequence of items <<kind, value>>, one for each variable or   *)
(* block written; a block that is an array is one item per element.  What a  *)
(* failed read leaves in a variable that was not set before is junk.  A      *)
(* function is a prototype of the compiler with its source and its lines.    *)
(* Junk that is taken for a count (lundump.c:92, 103, 131) is assumed to be  *)
(* small enough for luaM_newvector, which fails for a large one and returns  *)
(* NULL, through which the loop that follows writes; that is left out.       *)
EXTENDS LuaDebug, LuaStream

NULL == "(NULL)"
Header == <<"header", "Lua 5.1">>
\* The type tags of lua.h.
Tag(type) == CASE type = "nil" -> 0 [] type = "boolean" -> 1 [] type = "number" -> 3 [] type = "string" -> 4
Flags == <<"HASARG", "ISVARARG", "NEEDSARG">>        \* bits 1, 2 and 4
Byte(flags) == (IF Flags[1] \in flags THEN 1 ELSE 0) + (IF Flags[2] \in flags THEN 2 ELSE 0)
               + (IF Flags[3] \in flags THEN 4 ELSE 0)
FlagsOf(byte) == {Flags[i] : i \in {j \in 1..3 : (byte \div 2^(j - 1)) % 2 = 1}}

RECURSIVE FunctionOf(_, _)
\* A compiled prototype, all of whose functions have the chunk's source.
FunctionOf(p, source) ==
    [code |-> p.code, k |-> p.k, p |-> [i \in DOMAIN p.p |-> FunctionOf(p.p[i], source)],
     numparams |-> p.numparams, is_vararg |-> p.is_vararg, maxstacksize |-> p.maxstacksize,
     nups |-> p.nups, upnames |-> p.upnames, locvars |-> p.locvars,
     lineinfo |-> [i \in DOMAIN p.code |-> i], source |-> source,
     linedefined |-> 0, lastlinedefined |-> 0]

-----------------------------------------------------------------------------
(* Writing.                                                                  *)

Each(op(_), seq) == FlattenSeq([i \in DOMAIN seq |-> op(seq[i])])
DumpInt(n) == << <<"int", n>> >>
DumpChar(n) == << <<"char", n % 256>> >>
DumpVector(kind, seq) == DumpInt(Len(seq)) \o [i \in DOMAIN seq |-> <<kind, seq[i]>>]
\* The size counts the \0 at the end, so that an empty string is not NULL.
DumpString(s) == IF s = NULL THEN << <<"size", 0>> >> ELSE << <<"size", 1>>, <<"bytes", s>> >>
DumpConstant(o) ==
    DumpChar(Tag(o[1])) \o CASE o[1] = "nil" -> <<>>
                             [] o[1] = "boolean" -> DumpChar(IF o[2] THEN 1 ELSE 0)
                             [] o[1] = "number" -> << <<"number", o[2]>> >>
                             [] OTHER -> DumpString(o[2])
DumpLocvar(v) == DumpString(v.name) \o DumpInt(v.startpc) \o DumpInt(v.endpc)
DumpDebug(f, strip) ==
    IF strip THEN DumpInt(0) \o DumpInt(0) \o DumpInt(0)
    ELSE DumpVector("line", f.lineinfo)
         \o DumpInt(Len(f.locvars)) \o Each(DumpLocvar, f.locvars)
         \o DumpInt(Len(f.upnames)) \o Each(DumpString, f.upnames)
RECURSIVE DumpFunction(_, _, _)
\* The source of the enclosing function is not repeated.
DumpFunction(f, parent, strip) ==
    DumpString(IF f.source = parent \/ strip THEN NULL ELSE f.source)
    \o DumpInt(f.linedefined) \o DumpInt(f.lastlinedefined)
    \o DumpChar(f.nups) \o DumpChar(f.numparams) \o DumpChar(Byte(f.is_vararg)) \o DumpChar(f.maxstacksize)
    \o DumpVector("code", f.code)
    \o DumpInt(Len(f.k)) \o Each(DumpConstant, f.k)
    \o DumpInt(Len(f.p)) \o Each(LAMBDA g : DumpFunction(g, f.source, strip), f.p)
    \o DumpDebug(f, strip)
Dump(f, strip) == <<Header>> \o DumpFunction(f, NULL, strip)

-----------------------------------------------------------------------------
(* Reading.  S is the LoadState: its stream, whether an error was raised, and *)
(* the junk of this run.  A load gives the state after it and a value v.     *)

Loaded(S, v) == [S |-> S, v |-> v]
LoadError(S) == [S EXCEPT !.err = TRUE]
Junk(S, kind) == IF kind \in {"bytes", "header"} THEN "junk" ELSE S.junk
\* LoadBlock of one item of a kind, of which r is what could be read.
Item(S, kind, r) == IF r.got = <<>> THEN Loaded(LoadError(S), Junk(S, kind))
                    ELSE Loaded(S, IF r.got[1][1] = kind THEN r.got[1][2] ELSE Junk(S, kind))
ItemOf(S, kind, r) == Item([S EXCEPT !.z = r.z], kind, r)
LoadItem(S, kind) == ItemOf(S, kind, Read(S.z, 1))
LoadChar(S) == LoadItem(S, "char")
NonNegative(l) == IF l.v < 0 THEN Loaded(LoadError(l.S), l.v) ELSE l
LoadInt(S) == NonNegative(LoadItem(S, "int"))
StringOf(size) == IF size.v = 0 THEN Loaded(size.S, NULL) ELSE LoadItem(size.S, "bytes")
LoadString(S) == StringOf(LoadItem(S, "size"))
\* n items of a kind, read as one block.
ItemsOf(S, kind, n, r) ==
    Loaded([S EXCEPT !.z = r.z, !.err = @ \/ Len(r.got) < n],
           [i \in 1..n |-> IF i <= Len(r.got) /\ r.got[i][1] = kind THEN r.got[i][2] ELSE S.junk])
Vector(n, kind) == ItemsOf(n.S, kind, n.v, Read(n.S.z, n.v))
\* As many loads, one after the other, as n has counted.
Another(l, m) == Loaded(m.S, Append(l.v, m.v))
Counted(n, load(_)) == Through(LAMBDA l, i : Another(l, load(l.S)),
                               Loaded(n.S, <<>>), [i \in 1..n.v |-> i])
Tagged(tag, l) == Loaded(l.S, CASE tag = 1 -> Bool(l.v # 0) [] tag = 3 -> Num(l.v) [] tag = 4 -> Str(l.v))
ConstantOf(tag) ==
    CASE tag.v = 0 -> Loaded(tag.S, Nil)
      [] tag.v = 1 -> Tagged(1, LoadChar(tag.S))
      [] tag.v = 3 -> Tagged(3, LoadItem(tag.S, "number"))
      [] tag.v = 4 -> Tagged(4, LoadString(tag.S))
      [] OTHER -> Loaded(LoadError(tag.S), Nil)
LoadConstant(S) == ConstantOf(LoadChar(S))
\* The fields of a structure, loaded one after the other.
Stored(l, field, m) == Loaded(m.S, [l.v EXCEPT ![field] = m.v])
LocvarFields == <<"name", "startpc", "endpc">>
LoadLocvar(S) ==
    Through(LAMBDA l, field : Stored(l, field, IF field = "name" THEN LoadString(l.S) ELSE LoadInt(l.S)),
            Loaded(S, [field \in Range(LocvarFields) |-> 0]), LocvarFields)

\* mutant: a function without a source of its own gets none
InheritedNot(source, parent) == source
Inherited(source, parent) == IF source = NULL THEN parent ELSE source
Source(l, parent) == Loaded(l.S, Inherited(l.v, parent))
Flagged(l) == Loaded(l.S, FlagsOf(l.v))
\* luaF_newproto
Newproto == [source |-> NULL, linedefined |-> 0, lastlinedefined |-> 0, nups |-> 0, numparams |-> 0,
             is_vararg |-> {}, maxstacksize |-> 0, code |-> <<>>, k |-> <<>>, p |-> <<>>,
             lineinfo |-> <<>>, locvars |-> <<>>, upnames |-> <<>>]
FunctionFields ==
    <<"source", "linedefined", "lastlinedefined", "nups", "numparams", "is_vararg", "maxstacksize",
      "code", "k", "p", "lineinfo", "locvars", "upnames">>
RECURSIVE LoadFunction(_, _)
LoadField(S, field, f, parent) ==
    CASE field = "source" -> Source(LoadString(S), parent)
      [] field \in {"linedefined", "lastlinedefined"} -> LoadInt(S)
      [] field \in {"nups", "numparams", "maxstacksize"} -> LoadChar(S)
      [] field = "is_vararg" -> Flagged(LoadChar(S))
      [] field = "code" -> Vector(LoadInt(S), "code")
      [] field = "lineinfo" -> Vector(LoadInt(S), "line")
      [] field = "k" -> Counted(LoadInt(S), LoadConstant)
      [] field = "p" -> Counted(LoadInt(S), LAMBDA T : LoadFunction(T, f.source))
      [] field = "locvars" -> Counted(LoadInt(S), LoadLocvar)
      [] field = "upnames" -> Counted(LoadInt(S), LoadString)
\* The checks for an error between the loads are one at the end: once a read
\* has failed the stream is at its end, and the loads that follow leave junk.
Accepted(l) == IF l.S.err THEN Loaded(l.S, NULL)
               ELSE IF ~Checkcode(l.v) THEN Loaded(LoadError(l.S), NULL) ELSE l
LoadFunction(S, parent) ==
    IF S.err THEN Loaded(S, NULL)
    ELSE Accepted(Through(LAMBDA l, field : Stored(l, field, LoadField(l.S, field, l.v, parent)),
                          Loaded(S, Newproto), FunctionFields))
\* luaU_undump of what the reader delivers
Headed(h) == IF h.S.err \/ h.v # Header[2] THEN Loaded(LoadError(h.S), NULL) ELSE LoadFunction(h.S, "=?")
Undump(chunks, junk) ==
    Headed(LoadItem([z |-> Lookahead(Stream(chunks)).z, err |-> FALSE, junk |-> junk], "header"))

-----------------------------------------------------------------------------
RECURSIVE Stripped(_)
Stripped(f) == [f EXCEPT !.p = [i \in DOMAIN f.p |-> Stripped(f.p[i])], !.source = "=?",
                         !.lineinfo = <<>>, !.locvars = <<>>, !.upnames = <<>>]
\* The chunks a dump d is cut into at cut, and d with its end missing.
Parts(d, cut) == IF cut >= Len(d) THEN <<d>> ELSE <<SubSeq(d, 1, cut), SubSeq(d, cut + 1, Len(d))>>
Is(l, f) == ~l.S.err /\ l.v = f
RoundTrips(f, strip, cut) == Is(Undump(Parts(Dump(f, strip), cut), 0), IF strip THEN Stripped(f) ELSE f)
Truncated(d, cut, junk) == cut < Len(d) /\ cut > 0 => Undump(<<SubSeq(d, 1, cut)>>, junk).S.err
===============================================================================
