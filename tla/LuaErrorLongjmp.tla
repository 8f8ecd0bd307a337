-------------------------- MODULE LuaErrorLongjmp --------------------------
(***************************************************************************)
(* The port's error handling seen as long jumps: while an error is pending, *)
(* the activations above the innermost protected call are already gone.     *)
(***************************************************************************)
EXTENDS LuaError

AbstractCalls ==
    [d \in 1..(IF Pending THEN errorJmp ELSE Len(stack)) |->
        [kind |-> stack[d].kind, errfunc |-> stack[d].errfunc]]

LongJump == INSTANCE Unwind WITH
    calls  <- AbstractCalls,
    failed <- errorState,
    exited <- pc = "exit"

\* luaconf.h:665: with a check after every call, returning one by one is a
\* long jump: no interleaving of raises, handlers, overflows and nested
\* protected calls can be told from it.
ImplementsLongJump ==
    LongJump!Init /\ [][checked => [LongJump!Next]_(LongJump!vars)]_vars
=============================================================================
